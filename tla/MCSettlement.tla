--------------------------- MODULE MCSettlement ---------------------------
(* A lock of A, direct transfers both ways; B may cheat.                   *)
EXTENDS Settlement, TLC

CONSTANT l1

MCLocks == {l1}
MCLockSender == l1 :> A
MCLockAmount == l1 :> 2
MCExpiration == l1 :> 2
MCInitDeposit == A :> 2 @@ B :> 1
=============================================================================
