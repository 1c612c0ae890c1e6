---------------------------- MODULE ChainEvents ----------------------------
(***************************************************************************)
(* How a node follows the chain: the alarm task of blockchain/events.go    *)
(* polls the newest block, queries the logs of a window that reaches       *)
(* 2 * ForkConfirmNumber blocks back, drops what it has delivered before   *)
(* and what is not confirmed yet, and passes blocks and events to the main *)
(* loop of photonService.go, which saves the block number.                 *)
(*                                                                         *)
(* An event is a number, its place among the logs of a block.  The chain   *)
(* may reorganise its last ForkConfirmNumber blocks.                       *)
(***************************************************************************)
EXTENDS Integers, Sequences, SequencesExt

CONSTANTS
    NumEvents,          \* the events are 1..NumEvents
    Delayed,            \* those that need confirmation (needConfirm, secrets)
    ConfirmModes,       \* the values of params.EnableForkConfirm in use
    ForkConfirmNumber,  \* params.ForkConfirmNumber
    MaxHeight,          \* bound: the length of the chain
    MaxRestarts,        \* bound: crashes and reconnections
    MaxReorgs           \* bound: events moved by a reorganisation

Events == 1..NumEvents

ASSUME ChainEventsAssumption ==
    /\ NumEvents \in Nat
    /\ Delayed \subseteq Events
    /\ ConfirmModes \subseteq BOOLEAN
    /\ ForkConfirmNumber \in Nat \ {0}
    /\ MaxHeight \in Nat /\ MaxRestarts \in Nat /\ MaxReorgs \in Nat

VARIABLES
    EnableForkConfirm, \* params.EnableForkConfirm, set by a flag at the start
    height,      \* the newest block
    minedAt,     \* minedAt[e]: the block of event e, 0 if it is in none
    current,     \* currentBlock and be.lastBlockNumber of the alarm task
    txDone,      \* txDone[e]: the block e was delivered with, 0 if no entry
    queue,       \* StateChangeChannel: <<block, 0>> or <<block, event>>
    blockNumber, \* Service.BlockNumber
    saved,       \* the block number in the database
    handled,     \* history: the events handled, with their blocks
    jumpedAt,    \* history: the newest block of the last poll that passed over
                 \* more than ForkConfirmNumber blocks
    restarts, reorgs

chainVars == <<height, minedAt, reorgs>>
vars == <<EnableForkConfirm, chainVars, current, txDone, queue, blockNumber, saved, handled,
          jumpedAt, restarts>>

-----------------------------------------------------------------------------
(***************************************************************************)
(* The chain.                                                              *)
(***************************************************************************)
NewBlock(S) ==
    /\ height < MaxHeight
    /\ \A e \in S : minedAt[e] = 0
    /\ height' = height + 1
    /\ minedAt' = [e \in Events |-> IF e \in S THEN height + 1 ELSE minedAt[e]]
    /\ UNCHANGED <<EnableForkConfirm, current, txDone, queue, blockNumber, saved, handled, jumpedAt,
                   restarts, reorgs>>

\* The transaction of e goes to another of the last ForkConfirmNumber blocks,
\* or back to the pool.
Reorg(e, b) ==
    /\ reorgs < MaxReorgs
    /\ minedAt[e] > height - ForkConfirmNumber /\ minedAt[e] > 0
    /\ b \in {0} \cup ((height - ForkConfirmNumber + 1)..height)
    /\ b >= 0 /\ b # minedAt[e]
    /\ reorgs' = reorgs + 1
    /\ minedAt' = [minedAt EXCEPT ![e] = b]
    /\ UNCHANGED <<EnableForkConfirm, height, current, txDone, queue, blockNumber, saved, handled,
                   jumpedAt, restarts>>

-----------------------------------------------------------------------------
(***************************************************************************)
(* The alarm task.                                                         *)
(***************************************************************************)
\* Mutant: only the new blocks are queried.
fromBlockNumberNew == current + 1

fromBlockNumber ==
    IF current < 2 * ForkConfirmNumber THEN 0 ELSE current - 2 * ForkConfirmNumber

needConfirm(e) == EnableForkConfirm /\ e \in Delayed

\* Mutant: one poll counts as confirmation.
IsConfirmedSeen(e) == current >= minedAt[e]

\* be.lastBlockNumber is still the block of the previous poll
IsConfirmed(e) == current - minedAt[e] >= ForkConfirmNumber

IsDone(e) == txDone[e] # 0 /\ txDone[e] = minedAt[e]

\* getLogsFromChain and parseLogsToEvents
parseLogsToEvents ==
    {e \in Events : /\ minedAt[e] > 0 /\ minedAt[e] \in fromBlockNumber..height
                    /\ ~ IsDone(e)
                    /\ needConfirm(e) => IsConfirmed(e)}

\* Mutant: the logs are not sorted by block.
StateChangesByIndex(S) ==
    SetToSortSeq({<<minedAt[e], e>> : e \in S}, LAMBDA x, y : x[2] < y[2])
        \o <<<<height, 0>>>>

\* Mutant: the newest block is announced first.
StateChangesNewestFirst(S) ==
    <<<<height, 0>>>> \o
        SetToSortSeq({<<minedAt[e], e>> : e \in S},
                     LAMBDA x, y : x[1] < y[1] \/ (x[1] = y[1] /\ x[2] < y[2]))

\* Less compares the blocks; the sort is stable, so within a block the order of
\* the logs stays.
Before(x, y) == x[1] < y[1] \/ (x[1] = y[1] /\ x[2] < y[2])

\* sortContractStateChange, with each block announced before its events and
\* the newest one in any case
StateChanges(S) ==
    LET T == {<<minedAt[e], e>> : e \in S} \cup {<<minedAt[e], 0>> : e \in S}
                 \cup {<<height, 0>>}
    IN  CHOOSE q \in SetToSeqs(T) : \A i, j \in DOMAIN q : i < j => Before(q[i], q[j])

\* One round of startAlarmTask, after any number of new blocks; txDone forgets
\* what the next window leaves.
Poll ==
    LET S == parseLogsToEvents
    IN  /\ current < height
        /\ queue' = queue \o StateChanges(S)
        /\ txDone' = [e \in Events |->
                        LET b == IF e \in S THEN minedAt[e] ELSE txDone[e]
                        IN  IF b <= fromBlockNumber THEN 0 ELSE b]
        /\ current' = height
        /\ jumpedAt' = IF height - current > ForkConfirmNumber + 1 THEN height ELSE jumpedAt
        /\ UNCHANGED <<EnableForkConfirm, chainVars, blockNumber, saved, handled, restarts>>

-----------------------------------------------------------------------------
(***************************************************************************)
(* The main loop.                                                          *)
(***************************************************************************)
handleBlockNumber ==
    /\ queue # <<>> /\ Head(queue)[2] = 0
    /\ blockNumber' = Head(queue)[1]
    /\ saved' = Head(queue)[1]
    /\ queue' = Tail(queue)
    /\ UNCHANGED <<EnableForkConfirm, chainVars, current, txDone, handled, jumpedAt, restarts>>

\* Mutant: a block is taken for an event.
OnStateChangeOfAnyType ==
    /\ queue # <<>>
    /\ handled' = Append(handled, Head(queue))
    /\ queue' = Tail(queue)
    /\ UNCHANGED <<EnableForkConfirm, chainVars, current, txDone, blockNumber, saved, jumpedAt, restarts>>

OnBlockchainStateChange ==
    /\ queue # <<>> /\ Head(queue)[2] # 0
    /\ handled' = Append(handled, Head(queue))
    /\ queue' = Tail(queue)
    /\ UNCHANGED <<EnableForkConfirm, chainVars, current, txDone, blockNumber, saved, jumpedAt, restarts>>

\* The RPC connection is lost and handleEthRPCConnectionOK starts the alarm
\* task again.
handleEthRPCConnectionOK ==
    /\ restarts < MaxRestarts
    /\ restarts' = restarts + 1
    /\ current' = saved
    /\ queue' = Append(queue, <<saved, 0>>)
    /\ UNCHANGED <<EnableForkConfirm, chainVars, txDone, blockNumber, saved, handled, jumpedAt>>

\* The process dies; Service.Start begins with the saved block number.
CrashAndStart ==
    /\ restarts < MaxRestarts
    /\ restarts' = restarts + 1
    /\ current' = saved /\ blockNumber' = saved
    /\ txDone' = [e \in Events |-> 0]
    /\ queue' = <<<<saved, 0>>>>
    /\ UNCHANGED <<EnableForkConfirm, chainVars, saved, handled, jumpedAt>>

-----------------------------------------------------------------------------
Init ==
    /\ EnableForkConfirm \in ConfirmModes
    /\ height = 1 /\ current = 1 /\ blockNumber = 1 /\ saved = 1
    /\ minedAt = [e \in Events |-> 0]
    /\ txDone = [e \in Events |-> 0]
    /\ queue = <<>> /\ handled = <<>> /\ jumpedAt = 0
    /\ restarts = 0 /\ reorgs = 0

Next ==
    \/ \E S \in SUBSET Events : NewBlock(S)
    \/ \E e \in Events, b \in 0..MaxHeight : Reorg(e, b)
    \/ Poll
    \/ handleBlockNumber
    \/ OnBlockchainStateChange
    \/ handleEthRPCConnectionOK
    \/ CrashAndStart

Spec == Init /\ [][Next]_vars

-----------------------------------------------------------------------------
\* Every variable has its type; only events, never bare blocks, are handled by
\* OnBlockchainStateChange.
TypeOK ==
    /\ EnableForkConfirm \in ConfirmModes
    /\ height \in Nat /\ current \in Nat /\ blockNumber \in Nat /\ saved \in Nat
    /\ minedAt \in [Events -> Nat]
    /\ txDone \in [Events -> Nat]
    /\ queue \in Seq(Nat \X (0..NumEvents))
    /\ handled \in Seq(Nat \X Events) /\ jumpedAt \in Nat
    /\ restarts \in 0..MaxRestarts /\ reorgs \in 0..MaxReorgs

Handled == ToSet(handled)

\* e was handled with its block, is on its way to the main loop, or lies in the
\* window of the next poll.
Reached(e) ==
    \/ <<minedAt[e], e>> \in Handled \cup ToSet(queue)
    \/ minedAt[e] >= fromBlockNumber

\* Start promises that events can be duplicated but not lost.  The promise is
\* kept through crashes, lost connections and reorganisations for every event
\* that needs no confirmation, and for one that needs it as long as no poll
\* since its block passed over more than ForkConfirmNumber blocks.
NeverLost ==
    \A e \in Events :
        minedAt[e] > 0 /\ (needConfirm(e) => minedAt[e] > jumpedAt) => Reached(e)

\* What the comment on Start says without a condition, "can duplicate but
\* cannot lose".  With fork confirmation it does not hold: the poll after a
\* long outage finds an event of the first new blocks unconfirmed, because
\* IsConfirmed compares with the block before the outage, and the window of
\* the following poll starts behind it.
EventsDoNotGetLost == \A e \in Events : minedAt[e] > 0 => Reached(e)

\* "Make sure events sending out with order" (Start): as long as nothing is
\* repeated, moved or held back for confirmation, events are handled in the
\* order of their blocks.
InOrder ==
    (restarts = 0 /\ reorgs = 0 /\ ~ EnableForkConfirm) =>
        \A i, j \in 1..Len(handled) : i < j => handled[i][1] <= handled[j][1]

\* The main loop hears of a registered secret before it hears of a block in
\* which a lock that expired with the registration would be removed (the
\* comment in startAlarmTask, setExpiredPairs).  Events that are held back for
\* confirmation have no such guarantee.
SecretBeforeRemoval ==
    \A e \in Events :
        minedAt[e] \in 1..(blockNumber - ForkConfirmNumber - 1) /\ ~ needConfirm(e)
            => <<minedAt[e], e>> \in Handled

\* With fork confirmation no handled event that needs it is undone by a
\* reorganisation (parseLogsToEvents).
ConfirmedIsFinal ==
    \A i \in 1..Len(handled) :
        needConfirm(handled[i][2]) => minedAt[handled[i][2]] = handled[i][1]
=============================================================================
