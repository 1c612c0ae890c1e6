----------------------------- MODULE MCMediator -----------------------------
(***************************************************************************)
(* Small instances of Mediator: a route that is skipped, one whose lock    *)
(* lasts as long as the payer's and one, to the target itself, whose       *)
(* settle timeout is short.                                                *)
(***************************************************************************)
EXTENDS Mediator

Route(settleTimeout, canUse, isTarget) ==
    [settle |-> settleTimeout, reveal |-> 2, usable |-> canUse, target |-> isTarget]

LongRoutes  == <<Route(20, FALSE, FALSE), Route(20, TRUE, FALSE), Route(6, TRUE, TRUE)>>
ShortRoutes == <<Route(2, TRUE, FALSE)>>
=============================================================================
