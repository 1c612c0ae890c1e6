--------------------------- MODULE MCNegotiation ---------------------------
(* A lock of A, direct transfers, requests and deposits of both.           *)
EXTENDS Negotiation, TLC

CONSTANT l1

MCLocks == {l1}
MCLockSender == l1 :> A
MCLockAmount == l1 :> 1
MCExpiration == l1 :> 1
MCInitDeposit == A :> 2 @@ B :> 0
=============================================================================
