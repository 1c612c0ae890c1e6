------------------------------ MODULE Channel ------------------------------
(***************************************************************************)
(* One payment channel between two nodes while it is in StateOpened:       *)
(* channel/channel.go and channel/ChannelEndState.go driven by             *)
(* messagehandler.go and eventhandler.go.                                  *)
(*                                                                         *)
(* Each node keeps its own copy of both EndStates.  A message that carries *)
(* a balance proof is registered by its sender with the very code the      *)
(* receiver will run, is appended to the sender's queue for this channel   *)
(* and is resent until the receiver registers it (network/protocol.go), so *)
(* a rejected message stays at the head of the queue.  The chain mines     *)
(* blocks; each node follows it at its own pace and is told of deposits    *)
(* and registered secrets in block order.                                  *)
(*                                                                         *)
(* A Merkle root is modelled by the set of locks it commits to, a secret   *)
(* and its hash by the lock they belong to.                                *)
(***************************************************************************)
EXTENDS Integers, Sequences, FiniteSets, FiniteSetsExt

CONSTANTS
    A, B,               \* the two participants
    Locks,              \* the hash locks that may be used in this channel
    LockSender,         \* who pays with the lock
    LockAmount,         \* its amount
    Expiration,         \* its expiration block
    InitDeposit,        \* the deposits when the channel opens
    MaxDeposit,         \* bound: no total deposit exceeds it
    DirectAmounts,      \* the amounts users send by direct transfer
    Disposable,         \* the locks their receiver may give up
    Registrable,        \* the locks whose secret may reach the chain
    ForkConfirmNumber,  \* params.ForkConfirmNumber
    SettleTimeout,      \* the channel's settle timeout, in blocks
    MaxNonce,           \* bound: direct transfers stop at this nonce
    MaxHeight           \* bound: the length of the chain

Nodes == {A, B}

Other(n) == IF n = A THEN B ELSE A

ASSUME NodesAssumption == A # B

ASSUME LocksAssumption ==
    /\ IsFiniteSet(Locks)
    /\ LockSender \in [Locks -> Nodes]
    /\ LockAmount \in [Locks -> Nat \ {0}]
    /\ Expiration \in [Locks -> Nat]
    /\ Disposable \subseteq Locks
    /\ Registrable \subseteq Locks

ASSUME NumbersAssumption ==
    /\ InitDeposit \in [Nodes -> Nat]
    /\ MaxDeposit \in Nat
    /\ DirectAmounts \subseteq Nat \ {0}
    /\ ForkConfirmNumber \in Nat \ {0}
    /\ SettleTimeout \in Nat
    /\ MaxNonce \in Nat
    /\ MaxHeight \in Nat

VARIABLES
    end,          \* end[n][m]: node n's EndState for participant m
    queue,        \* queue[n]: n's messages its partner has not registered yet
    announced,    \* announced[n]: AnnounceDisposed messages n still resends
    disposed,     \* disposed[n]: locks n has marked as disposed (dao)
    blk,          \* blk[n]: the block number n has reached
    secretSeen,   \* secretSeen[n]: SecretRevealed events n has handled
    height,       \* the newest block
    registeredAt, \* block in which the secret was registered, 0 if never
    deposit,      \* total deposits in the contract
    fate          \* history: fate[n][l], what became of lock l at node n

nodeVars  == <<blk, secretSeen>>
chainVars == <<height, registeredAt, deposit>>
vars == <<end, queue, announced, disposed, blk, secretSeen, height,
          registeredAt, deposit, fate>>

(***************************************************************************)
(* The types.  pending and unclaimed are Lock2PendingLocks and             *)
(* Lock2UnclaimedLocks; onChain are the unclaimed locks that have          *)
(* IsRegisteredOnChain.                                                    *)
(***************************************************************************)
BalanceProofState ==
    [nonce : Nat, transferAmount : Nat, locksRoot : SUBSET Locks]

EndState ==
    [contractBalance : Nat, bp : BalanceProofState, tree : SUBSET Locks,
     pending : SUBSET Locks, unclaimed : SUBSET Locks, onChain : SUBSET Locks]

LockMessages ==
    {"MediatedTransfer", "UnLock", "RemoveExpired", "AnnounceDisposedResponse"}

EnvelopMessage ==
    [type : {"DirectTransfer"}, bp : BalanceProofState]
        \cup [type : LockMessages, bp : BalanceProofState, lock : Locks]

Fates == {"none", "locked", "unlocked", "expired", "disposed"}

-----------------------------------------------------------------------------
(***************************************************************************)
(* EndState.                                                               *)
(***************************************************************************)
NewChannelEndState(balance) ==
    [contractBalance |-> balance,
     bp |-> [nonce |-> 0, transferAmount |-> 0, locksRoot |-> {}],
     tree |-> {}, pending |-> {}, unclaimed |-> {}, onChain |-> {}]

AmountLocked(e) ==
    MapThenSumSet(LAMBDA l : LockAmount[l], e.pending \cup e.unclaimed)

Balance(e, counterpart) ==
    e.contractBalance - e.bp.transferAmount + counterpart.bp.transferAmount

\* Mutant: locked amounts are not reserved.
DistributableIgnoresLocks(e, counterpart) == Balance(e, counterpart)

Distributable(e, counterpart) == Balance(e, counterpart) - AmountLocked(e)

IsKnown(e, l) == l \in e.pending \cup e.unclaimed

\* GetUnkownSecretLockByHashlock: a lock whose secret is not on chain
IsUnknownSecretLock(e, l) ==
    \/ l \in e.pending
    \/ l \in e.unclaimed /\ l \notin e.onChain

\* Mutant: without the fork confirmation.
TryRemoveHashLockUnconfirmed(e, l, blockNumber, mustExpired) ==
    /\ IsUnknownSecretLock(e, l)
    /\ mustExpired => Expiration[l] <= blockNumber
    /\ l \in e.tree

\* The lock may leave the balance proof; as expired only once the expiration
\* block is buried under ForkConfirmNumber blocks.
TryRemoveHashLock(e, l, blockNumber, mustExpired) ==
    /\ IsUnknownSecretLock(e, l)
    /\ mustExpired => Expiration[l] <= blockNumber - ForkConfirmNumber
    /\ l \in e.tree

UpdateContractBalance(e, balance) == [e EXCEPT !.contractBalance = balance]

RegisterSecret(e, l) ==
    IF l \in e.pending
    THEN [e EXCEPT !.pending = @ \ {l}, !.unclaimed = @ \cup {l}]
    ELSE e

RegisterRevealedSecretHash(e, l, blockNumber) ==
    IF IsKnown(e, l) /\ blockNumber <= Expiration[l]
    THEN [e EXCEPT !.pending = @ \ {l}, !.unclaimed = @ \cup {l},
                   !.onChain = @ \cup {l}]
    ELSE e

-----------------------------------------------------------------------------
(***************************************************************************)
(* Registering a message that carries a balance proof.  The sender runs it *)
(* on its OurState before it sends, the receiver on its PartnerState.      *)
(***************************************************************************)
PreCheckReceivedTransfer(from, msg) ==
    /\ msg.bp.nonce = from.bp.nonce + 1
    /\ msg.bp.transferAmount >= from.bp.transferAmount

RegisterDirectTransferOK(from, to, msg) ==
    LET amount == msg.bp.transferAmount - from.bp.transferAmount
    IN  /\ amount > 0
        /\ amount <= Distributable(from, to)
        /\ msg.bp.locksRoot = from.tree

RegisterMediatedTransferOK(from, to, msg, blockNumber) ==
    /\ LockAmount[msg.lock] <= Distributable(from, to)
    /\ Expiration[msg.lock] <= blockNumber + SettleTimeout
    /\ ~ IsKnown(from, msg.lock)
    /\ msg.bp.locksRoot = from.tree \cup {msg.lock}

RegisterUnlockOK(from, msg) ==
    /\ IsKnown(from, msg.lock)
    /\ msg.lock \in from.tree
    /\ msg.bp.locksRoot = from.tree \ {msg.lock}
    /\ msg.bp.transferAmount = from.bp.transferAmount + LockAmount[msg.lock]

RegisterRemoveLockOK(from, msg, blockNumber, mustExpired) ==
    /\ msg.bp.transferAmount = from.bp.transferAmount
    /\ TryRemoveHashLock(from, msg.lock, blockNumber, mustExpired)
    /\ msg.bp.locksRoot = from.tree \ {msg.lock}

\* RegisterTransfer: whether the message is accepted ...
RegisterTransferOK(from, to, msg, blockNumber) ==
    /\ PreCheckReceivedTransfer(from, msg)
    /\ \/ /\ msg.type = "DirectTransfer"
          /\ RegisterDirectTransferOK(from, to, msg)
       \/ /\ msg.type = "MediatedTransfer"
          /\ RegisterMediatedTransferOK(from, to, msg, blockNumber)
       \/ /\ msg.type = "UnLock"
          /\ RegisterUnlockOK(from, msg)
       \/ /\ msg.type = "RemoveExpired"
          /\ RegisterRemoveLockOK(from, msg, blockNumber, TRUE)
       \/ /\ msg.type = "AnnounceDisposedResponse"
          /\ RegisterRemoveLockOK(from, msg, blockNumber, FALSE)

AddedLocks(msg) == IF msg.type = "MediatedTransfer" THEN {msg.lock} ELSE {}

RemovedLocks(msg) ==
    IF msg.type \in LockMessages \ {"MediatedTransfer"} THEN {msg.lock} ELSE {}

\* Mutant: a removed lock stays a leaf of the tree.
RegisterTransferKeepsTree(from, msg) ==
    [from EXCEPT !.bp = msg.bp,
                 !.tree = @ \cup AddedLocks(msg),
                 !.pending = (@ \cup AddedLocks(msg)) \ RemovedLocks(msg),
                 !.unclaimed = @ \ RemovedLocks(msg),
                 !.onChain = @ \ RemovedLocks(msg)]

\* ... and the sender's EndState afterwards.
RegisterTransfer(from, msg) ==
    [from EXCEPT !.bp = msg.bp,
                 !.tree = (@ \cup AddedLocks(msg)) \ RemovedLocks(msg),
                 !.pending = (@ \cup AddedLocks(msg)) \ RemovedLocks(msg),
                 !.unclaimed = @ \ RemovedLocks(msg),
                 !.onChain = @ \ RemovedLocks(msg)]

\* The lock's fate once the message is registered (history).
FateAfter ==
    [MediatedTransfer |-> "locked", UnLock |-> "unlocked",
     RemoveExpired |-> "expired", AnnounceDisposedResponse |-> "disposed"]

RecordFate(n, msg) ==
    fate' = IF msg.type = "DirectTransfer" THEN fate
            ELSE [fate EXCEPT ![n][msg.lock] = FateAfter[msg.type]]

-----------------------------------------------------------------------------
(***************************************************************************)
(* Creating messages.                                                      *)
(***************************************************************************)
NewBalanceProof(e, transferAmount, locksRoot) ==
    [nonce |-> e.bp.nonce + 1, transferAmount |-> transferAmount,
     locksRoot |-> locksRoot]

CreateDirectTransfer(e, amount) ==
    [type |-> "DirectTransfer",
     bp |-> NewBalanceProof(e, e.bp.transferAmount + amount, e.tree)]

CreateMediatedTransfer(e, l) ==
    [type |-> "MediatedTransfer", lock |-> l,
     bp |-> NewBalanceProof(e, e.bp.transferAmount, e.tree \cup {l})]

CreateUnlock(e, l) ==
    [type |-> "UnLock", lock |-> l,
     bp |-> NewBalanceProof(e, e.bp.transferAmount + LockAmount[l], e.tree \ {l})]

CreateRemoveExpired(e, l) ==
    [type |-> "RemoveExpired", lock |-> l,
     bp |-> NewBalanceProof(e, e.bp.transferAmount, e.tree \ {l})]

CreateAnnounceDisposedResponse(e, l) ==
    [type |-> "AnnounceDisposedResponse", lock |-> l,
     bp |-> NewBalanceProof(e, e.bp.transferAmount, e.tree \ {l})]

\* Mutant: the message is sent before it is registered by its sender.
SendUnregistered(n, msg) ==
    /\ RegisterTransferOK(end[n][n], end[n][Other(n)], msg, blk[n])
    /\ queue' = [queue EXCEPT ![n] = Append(@, msg)]
    /\ UNCHANGED end
    /\ RecordFate(n, msg)

\* Register the message in our own half of the channel, save it, and hand it
\* to the queue of this channel.
Send(n, msg) ==
    /\ RegisterTransferOK(end[n][n], end[n][Other(n)], msg, blk[n])
    /\ end' = [end EXCEPT ![n][n] = RegisterTransfer(@, msg)]
    /\ queue' = [queue EXCEPT ![n] = Append(@, msg)]
    /\ RecordFate(n, msg)

directTransferAsync(n, amount) ==
    /\ end[n][n].bp.nonce < MaxNonce
    /\ Send(n, CreateDirectTransfer(end[n][n], amount))
    /\ UNCHANGED <<announced, disposed, nodeVars, chainVars>>

\* A lock is a fresh secret hash: its sender uses it once in this channel.
eventSendMediatedTransfer(n, l) ==
    /\ LockSender[l] = n
    /\ fate[n][l] = "none"
    /\ Send(n, CreateMediatedTransfer(end[n][n], l))
    /\ UNCHANGED <<announced, disposed, nodeVars, chainVars>>

eventSendUnlock(n, l) ==
    /\ l \in end[n][n].unclaimed
    /\ Send(n, CreateUnlock(end[n][n], l))
    /\ UNCHANGED <<announced, disposed, nodeVars, chainVars>>

eventUnlockFailed(n, l) ==
    /\ TryRemoveHashLock(end[n][n], l, blk[n], TRUE)
    /\ Send(n, CreateRemoveExpired(end[n][n], l))
    /\ UNCHANGED <<announced, disposed, nodeVars, chainVars>>

\* Mutant: the lock is not marked as disposed.
AnnounceWithoutMark(n, l) ==
    /\ l \in Disposable \ disposed[n]
    /\ TryRemoveHashLock(end[n][Other(n)], l, blk[n], FALSE)
    /\ announced' = [announced EXCEPT ![n] = @ \cup {l}]
    /\ UNCHANGED <<end, queue, disposed, fate, nodeVars, chainVars>>

\* The receiver of lock l gives it up; the AnnounceDisposed message carries
\* no balance proof and does not go through the channel's queue.
eventSendAnnouncedDisposed(n, l) ==
    /\ l \in Disposable \ disposed[n]
    /\ TryRemoveHashLock(end[n][Other(n)], l, blk[n], FALSE)
    /\ disposed' = [disposed EXCEPT ![n] = @ \cup {l}]
    /\ announced' = [announced EXCEPT ![n] = @ \cup {l}]
    /\ UNCHANGED <<end, queue, fate, nodeVars, chainVars>>

-----------------------------------------------------------------------------
(***************************************************************************)
(* Message handlers.  A handler that returns an error leaves the state and *)
(* the queue as they are: no Ack is sent and the message comes again.      *)
(***************************************************************************)
\* What the handler of an envelope message asks of the receiver's state.
CanReceive(n, msg) ==
    /\ RegisterTransferOK(end[n][Other(n)], end[n][n], msg, blk[n])
    /\ msg.type = "AnnounceDisposedResponse" => msg.lock \in disposed[n]

Receive(n, type) ==
    LET o == Other(n)
    IN  /\ queue[o] # <<>>
        /\ Head(queue[o]).type = type
        /\ CanReceive(n, Head(queue[o]))
        /\ end' = [end EXCEPT ![n][o] = RegisterTransfer(@, Head(queue[o]))]
        /\ queue' = [queue EXCEPT ![o] = Tail(@)]
        /\ RecordFate(n, Head(queue[o]))
        /\ UNCHANGED <<announced, disposed, nodeVars, chainVars>>

messageDirectTransfer(n) == Receive(n, "DirectTransfer")
messageMediatedTransfer(n) == Receive(n, "MediatedTransfer")
messageUnlock(n) == Receive(n, "UnLock")
messageRemoveExpiredHashlockTransfer(n) == Receive(n, "RemoveExpired")
messageAnnounceDisposedResponse(n) == Receive(n, "AnnounceDisposedResponse")

\* The sender of lock l hears that its partner has given it up: it answers
\* with a balance proof without the lock, or ignores (and acknowledges) the
\* message when the lock is gone or its secret is on chain.
messageAnnounceDisposed(n, l) ==
    /\ l \in announced[Other(n)]
    /\ announced' = [announced EXCEPT ![Other(n)] = @ \ {l}]
    /\ \/ /\ IsUnknownSecretLock(end[n][n], l)
          /\ Send(n, CreateAnnounceDisposedResponse(end[n][n], l))
       \/ /\ ~ IsUnknownSecretLock(end[n][n], l)
          /\ UNCHANGED <<end, queue, fate>>
    /\ UNCHANGED <<disposed, nodeVars, chainVars>>

-----------------------------------------------------------------------------
(***************************************************************************)
(* Secrets.  Nobody but the initiator knows a secret before the target of  *)
(* the transfer has asked for it, and the target asks when its lock, the   *)
(* last of the path, has arrived: a secret is revealed only after the      *)
(* receiver of this channel's lock has registered it.                      *)
(***************************************************************************)
Revealable(l) == fate[Other(LockSender[l])][l] # "none"

\* registerSecret: a RevealSecret, or the secret read in another channel
registerSecret(n, l) ==
    /\ Revealable(l)
    /\ l \in end[n][LockSender[l]].pending
    /\ end' = [end EXCEPT ![n][LockSender[l]] = RegisterSecret(@, l)]
    /\ UNCHANGED <<queue, announced, disposed, fate, nodeVars, chainVars>>

handleSecretRegisteredOnChain(n, l) ==
    /\ registeredAt[l] \in 1..blk[n]
    /\ l \notin secretSeen[n]
    /\ secretSeen' = [secretSeen EXCEPT ![n] = @ \cup {l}]
    /\ end' = [end EXCEPT ![n][LockSender[l]] =
                   RegisterRevealedSecretHash(@, l, registeredAt[l])]
    /\ UNCHANGED <<queue, announced, disposed, fate, blk, chainVars>>

(***************************************************************************)
(* The chain, and how a node follows it (blockchain/events.go): all the    *)
(* events of a block are handled before the next block is announced.       *)
(***************************************************************************)
NewBlock(S) ==
    /\ height < MaxHeight
    /\ \A l \in S : registeredAt[l] = 0 /\ Revealable(l)
    /\ height' = height + 1
    /\ registeredAt' = [l \in Locks |-> IF l \in S THEN height + 1 ELSE registeredAt[l]]
    /\ UNCHANGED <<end, queue, announced, disposed, fate, nodeVars, deposit>>

\* Mutant: blocks wait while the partner has messages to deliver.
handleBlockWhenIdle(n) ==
    /\ blk[n] < height
    /\ queue[Other(n)] = <<>>
    /\ \A l \in Locks : registeredAt[l] \in 1..blk[n] => l \in secretSeen[n]
    /\ blk' = [blk EXCEPT ![n] = @ + 1]
    /\ UNCHANGED <<end, queue, announced, disposed, fate, secretSeen, chainVars>>

handleBlockStateChange(n) ==
    /\ blk[n] < height
    /\ \A l \in Locks : registeredAt[l] \in 1..blk[n] => l \in secretSeen[n]
    /\ blk' = [blk EXCEPT ![n] = @ + 1]
    /\ UNCHANGED <<end, queue, announced, disposed, fate, secretSeen, chainVars>>

Deposit(m) ==
    /\ deposit[m] < MaxDeposit
    /\ deposit' = [deposit EXCEPT ![m] = @ + 1]
    /\ UNCHANGED <<end, queue, announced, disposed, fate, nodeVars,
                   height, registeredAt>>

\* Mutant: the deposit is taken for the current balance.
handleBalanceNet(n, m) ==
    /\ end[n][m].contractBalance < deposit[m]
    /\ end' = [end EXCEPT ![n][m] =
                   UpdateContractBalance(@, deposit[m] - @.bp.transferAmount)]
    /\ UNCHANGED <<queue, announced, disposed, fate, nodeVars, chainVars>>

handleBalance(n, m) ==
    /\ end[n][m].contractBalance < deposit[m]
    /\ end' = [end EXCEPT ![n][m] = UpdateContractBalance(@, @.contractBalance + 1)]
    /\ UNCHANGED <<queue, announced, disposed, fate, nodeVars, chainVars>>

-----------------------------------------------------------------------------
Init ==
    /\ end = [n \in Nodes |-> [m \in Nodes |-> NewChannelEndState(InitDeposit[m])]]
    /\ queue = [n \in Nodes |-> <<>>]
    /\ announced = [n \in Nodes |-> {}]
    /\ disposed = [n \in Nodes |-> {}]
    /\ blk = [n \in Nodes |-> 1]
    /\ secretSeen = [n \in Nodes |-> {}]
    /\ height = 1
    /\ registeredAt = [l \in Locks |-> 0]
    /\ deposit = InitDeposit
    /\ fate = [n \in Nodes |-> [l \in Locks |-> "none"]]

ReceiveAny(n) ==
    \/ messageDirectTransfer(n)
    \/ messageMediatedTransfer(n)
    \/ messageUnlock(n)
    \/ messageRemoveExpiredHashlockTransfer(n)
    \/ messageAnnounceDisposedResponse(n)

Next ==
    \/ \E n \in Nodes, a \in DirectAmounts : directTransferAsync(n, a)
    \/ \E n \in Nodes : ReceiveAny(n) \/ handleBlockStateChange(n)
    \/ \E n \in Nodes, l \in Locks :
          \/ eventSendMediatedTransfer(n, l)
          \/ eventSendUnlock(n, l)
          \/ eventUnlockFailed(n, l)
          \/ eventSendAnnouncedDisposed(n, l)
          \/ messageAnnounceDisposed(n, l)
          \/ registerSecret(n, l)
          \/ handleSecretRegisteredOnChain(n, l)
    \/ \E n \in Nodes, m \in Nodes : handleBalance(n, m)
    \/ \E m \in Nodes : Deposit(m)
    \/ \E S \in SUBSET Registrable : NewBlock(S)

Spec == Init /\ [][Next]_vars

\* What the alarm task brings a node that is up.
FollowChain(n) ==
    \/ handleBlockStateChange(n)
    \/ \E l \in Locks : handleSecretRegisteredOnChain(n, l)
    \/ \E m \in Nodes : handleBalance(n, m)

(***************************************************************************)
(* A message is resent until it is acknowledged, and a node that is up     *)
(* keeps polling the chain and handling the events it finds.  No user and  *)
(* no state machine is obliged to start anything.                          *)
(***************************************************************************)
Fairness ==
    \A n \in Nodes :
        /\ WF_vars(ReceiveAny(n))
        /\ WF_vars(\E l \in Locks : messageAnnounceDisposed(n, l))
        /\ WF_vars(FollowChain(n))

FairSpec == Spec /\ Fairness

-----------------------------------------------------------------------------
\* Every EndState, queue and chain record has its type; in particular no
\* nonce, amount or deposit that RegisterTransfer or handleBalance computes
\* becomes negative.
TypeOK ==
    /\ end \in [Nodes -> [Nodes -> EndState]]
    /\ queue \in [Nodes -> Seq(EnvelopMessage)]
    /\ announced \in [Nodes -> SUBSET Locks]
    /\ disposed \in [Nodes -> SUBSET Locks]
    /\ blk \in [Nodes -> Nat]
    /\ secretSeen \in [Nodes -> SUBSET Locks]
    /\ height \in Nat
    /\ registeredAt \in [Locks -> Nat]
    /\ deposit \in [Nodes -> Nat]
    /\ fate \in [Nodes -> [Locks -> Fates]]

\* The two nodes never disagree on a balance proof they both count as the
\* newest: the receiver's copy is at most as new as the sender's own, the
\* difference is exactly what is still in the sender's queue, and when the
\* queue is empty both hold the same nonce, amount and locks root (the nonce
\* check of PreCheckRecievedTransfer, registration before sending).
ProofAgreement ==
    \A s \in Nodes :
        LET mine == end[s][s].bp  theirs == end[Other(s)][s].bp
        IN  /\ Len(queue[s]) = mine.nonce - theirs.nonce
            /\ queue[s] = <<>> => mine = theirs

Books(e) ==
    /\ e.bp.locksRoot = e.tree
    /\ e.pending \cup e.unclaimed = e.tree
    /\ e.pending \cap e.unclaimed = {}
    /\ e.onChain \subseteq e.unclaimed

\* The lock books of an EndState agree with what its balance proof commits
\* to: Lock2PendingLocks and Lock2UnclaimedLocks partition the leaves of the
\* tree, and the signed locks root is the tree's root, at both nodes and
\* whatever order secrets, chain events and messages arrive in.
BooksMatchProof == \A n, m \in Nodes : Books(end[n][m])

\* The contract can always pay out the balance proofs the two nodes hold of
\* each other: what m has signed away (transferred and locked, as held by its
\* partner) is covered by m's deposit and what m itself holds from its
\* partner, although both proofs may be older than their signers' states.
Solvent ==
    \A m \in Nodes :
        LET held == end[Other(m)][m]
        IN  held.bp.transferAmount + AmountLocked(held)
                <= deposit[m] + end[m][Other(m)].bp.transferAmount

\* A lock whose secret was registered on chain by its expiration block is
\* never removed as expired, by either node and at whatever block each of
\* them is (TryRemoveHashLock waits ForkConfirmNumber blocks, the secret's
\* event is handled before the blocks that follow it).
TimelySecretNeverExpires ==
    \A n \in Nodes, l \in Locks :
        fate[n][l] = "expired" =>
            registeredAt[l] = 0 \/ registeredAt[l] > Expiration[l]

\* The node has handled everything the chain has to tell it.
CaughtUp(n) ==
    /\ blk[n] = height
    /\ \A l \in Locks : registeredAt[l] # 0 => l \in secretSeen[n]
    /\ \A m \in Nodes : end[n][m].contractBalance = deposit[m]

\* A message is never refused for good: once the receiver has caught up with
\* the chain it registers the head of its partner's queue.  The handlers
\* return an error and let the partner resend on the belief that the
\* disagreement is only a difference of block numbers
\* (messageRemoveExpiredHashlockTransfer).
HeadAcceptable ==
    \A n \in Nodes :
        (CaughtUp(n) /\ queue[Other(n)] # <<>>)
            => CanReceive(n, Head(queue[Other(n)]))

\* Every balance proof that was signed reaches the partner: "msg must be sent
\* success" (network/protocol.go).  A queue that holds messages is empty again
\* in the end, whatever block and deposits the partner had seen when a message
\* first arrived.
EveryMessageRegistered ==
    \A s \in Nodes : (queue[s] # <<>>) ~> (queue[s] = <<>>)
=============================================================================
