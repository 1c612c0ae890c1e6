---------------------------- MODULE MCChannel ----------------------------
(* Two locks, one in each direction, and a partner without deposit.       *)
EXTENDS Channel, TLC

CONSTANTS l1, l2

MCLocks == {l1, l2}
MCLockSender == l1 :> A @@ l2 :> B
MCLockAmount == l1 :> 2 @@ l2 :> 1
MCExpiration == l1 :> 2 @@ l2 :> 3
MCInitDeposit == A :> 2 @@ B :> 0
=============================================================================
