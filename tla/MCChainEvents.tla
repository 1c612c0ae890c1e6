--------------------------- MODULE MCChainEvents ---------------------------
(***************************************************************************)
(* Small instances of ChainEvents; event 1 is a secret or a deposit, event *)
(* 2 a close or settlement, which needs no confirmation.                   *)
(***************************************************************************)
EXTENDS ChainEvents
=============================================================================
