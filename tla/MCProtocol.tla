----------------------------- MODULE MCProtocol -----------------------------
(***************************************************************************)
(* Small instances of Protocol.                                            *)
(***************************************************************************)
EXTENDS Protocol

Calm == [orders |-> {"channelFirst"}, remove |-> FALSE, stop |-> FALSE,
         crashes |-> 0, peerCrashes |-> 0]

\* A crash of the sender with either order of saving and with the channel saved
\* first, a crash of the partner, a channel that is removed and one that stops.
troubles ==
    {[Calm EXCEPT !.orders = Orders, !.crashes = 1],
     [Calm EXCEPT !.crashes = 1],
     [Calm EXCEPT !.peerCrashes = 1],
     [Calm EXCEPT !.remove = TRUE],
     [Calm EXCEPT !.stop = TRUE]}

onlyCalm == {Calm}
=============================================================================
