-------------------------- MODULE ReliableDelivery --------------------------
(***************************************************************************)
(* What the message layer promises a channel: the messages that carry a    *)
(* balance proof reach the partner's handler one by one, in the order in   *)
(* which they were handed over, none twice and none left out.  A crash of  *)
(* the partner takes it back to what it has saved.                         *)
(***************************************************************************)
EXTENDS Sequences, Naturals

CONSTANT Messages

VARIABLES
    sent,       \* the messages handed over, in order
    delivered,  \* the messages the partner has registered, in order
    saved       \* how many of them its saved channel has

vars == <<sent, delivered, saved>>

Init == sent = <<>> /\ delivered = <<>> /\ saved = 0

Send(m) ==
    /\ sent' = Append(sent, m)
    /\ UNCHANGED <<delivered, saved>>

\* The partner saves its channel with the message, later, or not at all.
Deliver ==
    /\ Len(delivered) < Len(sent)
    /\ delivered' = Append(delivered, sent[Len(delivered) + 1])
    /\ saved' \in {saved, Len(delivered) + 1}
    /\ UNCHANGED sent

Save ==
    /\ saved' = Len(delivered)
    /\ UNCHANGED <<sent, delivered>>

Forget ==
    /\ delivered' = SubSeq(delivered, 1, saved)
    /\ UNCHANGED <<sent, saved>>

Next == Deliver \/ Save \/ Forget \/ \E m \in Messages : Send(m)

Spec == Init /\ [][Next]_vars
=============================================================================
