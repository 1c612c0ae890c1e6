------------------------------- MODULE Escrow -------------------------------
(***************************************************************************)
(* What the contract TokensNetwork promises about the tokens of one        *)
(* channel: they come in by deposits while the channel is open, a closed   *)
(* channel takes in and gives out nothing until it is settled, and what    *)
(* leaves the channel goes to the two participants, to the last token and  *)
(* only once.                                                              *)
(***************************************************************************)
EXTENDS Integers

CONSTANTS P, Q          \* the participants

VARIABLES
    phase,              \* "open", "closed" or "gone"
    held,               \* the tokens the contract holds for the channel
    paid                \* paid[m]: the tokens m has received from it

Participants == {P, Q}

Init ==
    /\ phase = "open"
    /\ held \in Nat
    /\ paid = [m \in Participants |-> 0]

Fund ==
    /\ phase = "open"
    /\ held' \in Nat
    /\ held' > held
    /\ UNCHANGED <<phase, paid>>

Close ==
    /\ phase = "open"
    /\ phase' = "closed"
    /\ UNCHANGED <<held, paid>>

\* Tokens change hands; they are neither made nor lost.
Conserved ==
    /\ held' \in 0..held
    /\ paid' \in [Participants -> Nat]
    /\ \A m \in Participants : paid'[m] >= paid[m]
    /\ held' + paid'[P] + paid'[Q] = held + paid[P] + paid[Q]

\* A withdrawal leaves the channel open.
PayPart ==
    /\ phase = "open"
    /\ phase' = "open"
    /\ Conserved

\* A settlement, agreed or after a close, pays everything.
PayAll ==
    /\ phase \in {"open", "closed"}
    /\ phase' = "gone"
    /\ held' = 0
    /\ Conserved

Next == Fund \/ Close \/ PayPart \/ PayAll

Spec == Init /\ [][Next]_<<phase, held, paid>>
=============================================================================
