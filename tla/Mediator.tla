------------------------------ MODULE Mediator ------------------------------
(***************************************************************************)
(* One mediated transfer at a mediating node:                              *)
(* transfer/mediatedtransfer/mediator/transition.go, with what the event   *)
(* and message handlers do to the two channels.  The payer, the payees and *)
(* the chain are the environment; the payer never has to pay.              *)
(*                                                                         *)
(* The node keeps up with the chain: it handles a block, and the secret    *)
(* registered in it, before the next one is mined.  A registration it asks *)
(* for when it is at block b is mined by block b + RevealTimeout, which is *)
(* what the reveal timeout of a channel stands for.                        *)
(***************************************************************************)
EXTENDS Integers, Sequences

CONSTANTS
    Routes,             \* the routes to try: [settle, reveal, usable, target]
    PayerExpiration,    \* expiration of the lock received from the payer
    PayerSettleTimeout, \* settle timeout of the payer's channel
    RevealTimeout,      \* its reveal timeout
    ForkConfirmNumber,  \* params.ForkConfirmNumber
    MayClose,           \* the channels that may be closed
    MaxHeight           \* bound: the length of the chain

\* target: the node of the route is the target of the transfer
RouteType == [settle : Nat, reveal : Nat, usable : BOOLEAN, target : BOOLEAN]

\* The channels of the transfer: the payer's, and the one of each route.
Payer    == 0
Channels == 0..Len(Routes)

ASSUME MediatorAssumption ==
    /\ Routes \in Seq(RouteType)
    /\ PayerExpiration \in Nat /\ PayerSettleTimeout \in Nat
    /\ RevealTimeout \in Nat \ {0} /\ ForkConfirmNumber \in Nat
    /\ MayClose \subseteq Channels
    /\ MaxHeight \in Nat

VARIABLES
    manager,     \* the StateManager: "none", "running" or "removed"
    blockNumber, \* MediatorState.BlockNumber
    next,        \* index of the first route not tried yet
    pair,        \* the MediationPairState
    secret,      \* MediatorState.Secret is set
    payerLock,   \* the lock in the payer's channel
    payeeLock,   \* payeeLock[i]: the lock in the channel of route i
    canPunish,   \* the routes whose AnnounceDisposed was stored
    revealed,    \* the payer was sent the secret
    heard,       \* the routes whose RevealSecret was acknowledged
    closed,      \* the channels that were closed
    height,      \* the newest block
    registered,  \* block in which the secret was registered, 0 if never
    eventDue,    \* the node has not handled the SecretRevealed event yet
    tx           \* deadline of the node's own registration, 0 if none

vars == <<manager, blockNumber, next, pair, secret, payerLock, payeeLock, canPunish,
          revealed, heard, closed, height, registered, eventDue, tx>>
chainVars == <<closed, height, registered, eventDue>>

PayerStates == {"Pending", "SecretRevealed", "WaitingRegisterSecret",
                "BalanceProof", "Expired"}
PayeeStates == {"Pending", "SecretRevealed", "BalanceProof", "Expired"}

NoPair == [route |-> 0, expiration |-> 0, payer |-> "Pending", payee |-> "Pending"]

MinOf(a, b) == IF a <= b THEN a ELSE b

-----------------------------------------------------------------------------
SecretKnown(state) ==
    state \in {"SecretRevealed", "WaitingRegisterSecret", "BalanceProof"}
Paid(state)  == state = "BalanceProof"
Final(state) == state \in {"Expired", "BalanceProof"}

\* Mutant: an expired pair stays pending.
IsPendingUnpaid(p) == p # NoPair /\ ~(Paid(p.payee) /\ Paid(p.payer))

IsPending(p) == p # NoPair /\ ~(Final(p.payee) /\ Final(p.payer))

IsSafeToWait(b) == b < PayerExpiration - RevealTimeout

isSecretRegisterNeeded(p, b) ==
    /\ (Paid(p.payee) /\ ~IsSafeToWait(b)) \/ Payer \in closed
    /\ p.payer # "WaitingRegisterSecret"
    /\ ~Paid(p.payer)

(***************************************************************************)
(* The steps of a transition, each on the pair.  The event that goes with  *)
(* a step is sent when the step changes the state it is about.             *)
(***************************************************************************)
eventsForRevealSecret(p, b) ==
    IF p # NoPair /\ SecretKnown(p.payee) /\ ~SecretKnown(p.payer) /\ b <= PayerExpiration
    THEN [p EXCEPT !.payer = "SecretRevealed"] ELSE p

\* Mutant: the payer's reveal timeout is left out.
eventsForBalanceProofLate(p, b) ==
    IF /\ p # NoPair
       /\ Payer \notin closed /\ p.route \notin closed
       /\ SecretKnown(p.payee) /\ ~Paid(p.payee)
       /\ b <= p.expiration
       /\ b <= PayerExpiration
    THEN [p EXCEPT !.payee = "BalanceProof"] ELSE p

eventsForBalanceProof(p, b) ==
    IF /\ p # NoPair
       /\ Payer \notin closed /\ p.route \notin closed
       /\ SecretKnown(p.payee) /\ ~Paid(p.payee)
       /\ b <= p.expiration
       /\ b <= PayerExpiration - RevealTimeout
    THEN [p EXCEPT !.payee = "BalanceProof"] ELSE p

\* Mutant: the payee's state is set.
eventsForRegisterSecretPayee(p, b) ==
    IF IsPending(p) /\ isSecretRegisterNeeded(p, b)
    THEN [p EXCEPT !.payee = "WaitingRegisterSecret"] ELSE p

eventsForRegisterSecret(p, b) ==
    IF IsPending(p) /\ isSecretRegisterNeeded(p, b)
    THEN [p EXCEPT !.payer = "WaitingRegisterSecret"] ELSE p

setExpiredPayer(p, b) ==
    IF IsPending(p) /\ b > PayerExpiration
    THEN [p EXCEPT !.payer = "Expired"] ELSE p

setExpiredPayee(p, b) ==
    IF IsPending(p) /\ b - ForkConfirmNumber > p.expiration
    THEN [p EXCEPT !.payee = "Expired"] ELSE p

\* Both are decided for the pairs that were pending at the start.
setExpiredPairs(p, b) ==
    [p EXCEPT !.payer = setExpiredPayer(p, b).payer,
              !.payee = setExpiredPayee(p, b).payee]

\* clearIfFinalized: no pair is left that is not paid on both sides.
Finalized(p) == p = NoPair \/ (Paid(p.payee) /\ Paid(p.payer))

Manager(p) == IF Finalized(p) THEN "removed" ELSE "running"

\* eventSendUnlock: fails, without effect, when the lock is gone or the
\* channel is closed.
PayPayee(p) ==
    IF payeeLock[p.route] = "locked" /\ p.route \notin closed
    THEN [payeeLock EXCEPT ![p.route] = "paid"] ELSE payeeLock

\* eventContractSendRegisterSecret, when q asks for it and p did not: nothing
\* is sent for a secret that is registered, and the empty secret, sent when
\* the node does not know it, opens nothing.
RegisterTx(p, q, known) ==
    LET asked == q.payer = "WaitingRegisterSecret" /\ p.payer # q.payer
    IN  tx' = IF asked /\ known /\ registered = 0 /\ tx = 0
              THEN blockNumber' + RevealTimeout ELSE tx

-----------------------------------------------------------------------------
(***************************************************************************)
(* Routing.                                                                *)
(***************************************************************************)
getTimeoutBlocks(b) == MinOf(PayerSettleTimeout, PayerExpiration - b)

\* nextRoute: capacity, fee and cycles are in usable
Usable(i, timeoutBlocks) ==
    Routes[i].usable /\ i \notin closed /\ timeoutBlocks > Routes[i].reveal

PayeeExpiration(i, b) == b + MinOf(getTimeoutBlocks(b), Routes[i].settle)

\* The first usable route from index from on, or 0.
FirstUsable(from, b) ==
    IF getTimeoutBlocks(b) > 0
       /\ \E i \in from..Len(Routes) : Usable(i, getTimeoutBlocks(b))
    THEN CHOOSE i \in from..Len(Routes) :
            /\ Usable(i, getTimeoutBlocks(b))
            /\ \A j \in from..(i - 1) : ~Usable(j, getTimeoutBlocks(b))
    ELSE 0

\* Mutant: the payer's locks are counted after the transfer was sent.
mediateTransferLateCheck(L, tooManyLocks) ==
    LET i == FirstUsable(next, blockNumber')
    IN  IF i = 0
        THEN /\ next' = Len(Routes) + 1
             /\ pair' = NoPair
             /\ payeeLock' = L
             /\ payerLock' = "disposed"
        ELSE /\ next' = i + 1
             /\ pair' = [NoPair EXCEPT !.route = i,
                                       !.expiration = PayeeExpiration(i, blockNumber')]
             /\ payeeLock' = [L EXCEPT ![i] = "locked"]
             /\ payerLock' = IF tooManyLocks THEN "disposed" ELSE "locked"

\* mediateTransfer, with payee lock states L: a lock to the next hop, or the
\* payer is told that its lock is given up (no route, or the payer's channel
\* holds too many locks).
mediateTransfer(L, tooManyLocks) ==
    LET i == FirstUsable(next, blockNumber')
    IN  IF i = 0 \/ tooManyLocks
        THEN /\ next' = IF i = 0 THEN Len(Routes) + 1 ELSE i + 1
             /\ pair' = NoPair
             /\ payeeLock' = L
             /\ payerLock' = "disposed"
        ELSE /\ next' = i + 1
             /\ pair' = [NoPair EXCEPT !.route = i,
                                       !.expiration = PayeeExpiration(i, blockNumber')]
             /\ payeeLock' = [L EXCEPT ![i] = "locked"]
             /\ payerLock' = "locked"

\* The payer's MediatedTransfer arrives.
ActionInitMediator(tooManyLocks) ==
    /\ manager = "none"
    /\ blockNumber' = blockNumber
    /\ mediateTransfer(payeeLock, tooManyLocks)
    /\ manager' = Manager(pair')
    /\ UNCHANGED <<secret, canPunish, revealed, heard, chainVars, tx>>

\* cancelCurrentRoute, with payee lock states L: the pair is given up and the
\* next route tried, or, when the payer's channel is closed, its lock given up.
cancelCurrentRoute(L, tooManyLocks) ==
    IF Payer \in closed
    THEN /\ pair' = NoPair /\ payeeLock' = L /\ payerLock' = "disposed"
         /\ UNCHANGED next
    ELSE mediateTransfer(L, tooManyLocks)

IsValidRefund(i) == i = pair.route /\ ~Routes[i].target

\* A refund by the current payee cancels the route, unless its lock has
\* expired.  The response that removes the lock fails in a closed channel,
\* and the lock stays.
CancelsRoute(i) ==
    manager = "running" /\ pair # NoPair /\ IsValidRefund(i) /\ pair.expiration > blockNumber

handleAnnouceDisposed(tooManyLocks) ==
    LET L == IF pair.route \in closed THEN payeeLock
             ELSE [payeeLock EXCEPT ![pair.route] = "disposed"]
    IN  cancelCurrentRoute(L, tooManyLocks) /\ manager' = Manager(pair')

\* Mutant: the AnnounceDisposed is not stored.
messageAnnounceDisposedUnmarked(i, tooManyLocks) ==
    /\ payeeLock[i] = "locked" /\ i \notin canPunish
    /\ ~secret /\ (registered = 0 \/ eventDue)
    /\ canPunish' = canPunish
    /\ blockNumber' = blockNumber
    /\ IF CancelsRoute(i) THEN handleAnnouceDisposed(tooManyLocks)
       ELSE UNCHANGED <<manager, next, pair, payerLock, payeeLock>>
    /\ UNCHANGED <<secret, revealed, heard, chainVars, tx>>

\* The node of route i gives its lock up.  The lock has to be pending still
\* (RegisterAnnouceDisposed): a secret the node knows, or has seen on chain,
\* makes it refuse.  The message is stored, as evidence against an unlock,
\* whether the state manager takes it or not; a second one is a duplicate.
messageAnnounceDisposed(i, tooManyLocks) ==
    /\ payeeLock[i] = "locked" /\ i \notin canPunish
    /\ ~secret /\ (registered = 0 \/ eventDue)
    /\ canPunish' = canPunish \cup {i}
    /\ blockNumber' = blockNumber
    /\ IF CancelsRoute(i) THEN handleAnnouceDisposed(tooManyLocks)
       ELSE UNCHANGED <<manager, next, pair, payerLock, payeeLock>>
    /\ UNCHANGED <<secret, revealed, heard, chainVars, tx>>

-----------------------------------------------------------------------------
(***************************************************************************)
(* The secret.                                                             *)
(***************************************************************************)
setPayeeStateAndCheckRevealOrder(p, i) ==
    IF p.route = i THEN [p EXCEPT !.payee = "SecretRevealed"] ELSE p

\* A RevealSecret from the node of route i.  The message is the same whenever
\* the node sends it, so a second one finds the acknowledgement of the first.
handleSecretReveal(i) ==
    LET p0 == setPayeeStateAndCheckRevealOrder(pair, i)
        p1 == eventsForRevealSecret(p0, blockNumber)
        p2 == eventsForBalanceProof(p1, blockNumber)
        p3 == eventsForRegisterSecret(p2, blockNumber)
    IN  /\ manager = "running" /\ payeeLock[i] # "none"
        /\ pair # NoPair
        /\ i \notin heard /\ heard' = heard \cup {i}
        /\ blockNumber' = blockNumber
        /\ secret' = TRUE
        /\ pair' = p3
        /\ revealed' = (revealed \/ p1.payer # p0.payer)
        /\ payeeLock' = IF p2.payee # p1.payee THEN PayPayee(p2) ELSE payeeLock
        /\ RegisterTx(p2, p3, TRUE)
        /\ manager' = Manager(p3)
        /\ UNCHANGED <<next, payerLock, canPunish, chainVars>>

\* The payer, who knows the secret, sends its balance proof (UnLock).
handleBalanceProof ==
    /\ payerLock = "locked" /\ Payer \notin closed
    /\ revealed \/ registered # 0
    /\ payerLock' = "paid"
    /\ IF manager = "running" /\ pair # NoPair
       THEN /\ secret' = TRUE
            /\ pair' = [pair EXCEPT !.payee = "BalanceProof", !.payer = "BalanceProof"]
            /\ payeeLock' = IF Paid(pair.payee) THEN payeeLock ELSE PayPayee(pair)
            /\ manager' = Manager(pair')
       ELSE UNCHANGED <<secret, pair, payeeLock, manager>>
    /\ UNCHANGED <<blockNumber, next, canPunish, revealed, heard, chainVars, tx>>

handleSecretRevealOnChain ==
    /\ eventDue
    /\ eventDue' = FALSE
    /\ IF manager = "running" /\ pair # NoPair
       THEN LET inTime == pair.expiration >= registered
            IN  /\ secret' = TRUE
                /\ payeeLock' = IF inTime THEN PayPayee(pair) ELSE payeeLock
                /\ pair' = [pair EXCEPT
                              !.payee = IF inTime THEN "BalanceProof" ELSE @,
                              !.payer = IF Payer \in closed THEN "BalanceProof" ELSE @]
                /\ manager' = Manager(pair')
       ELSE UNCHANGED <<secret, payeeLock, pair, manager>>
    /\ UNCHANGED <<blockNumber, next, payerLock, canPunish, revealed, heard, closed,
                   height, registered, tx>>

-----------------------------------------------------------------------------
(***************************************************************************)
(* Blocks.                                                                 *)
(***************************************************************************)
\* eventUnlockFailed: the expired lock leaves the payee's channel, unless it
\* was paid or its secret is on chain in time.
RemoveExpired(p, q) ==
    IF /\ p.payee # "Expired" /\ q.payee = "Expired"
       /\ payeeLock[p.route] = "locked" /\ p.route \notin closed
       /\ registered \notin 1..p.expiration
    THEN [payeeLock EXCEPT ![p.route] = "removed"] ELSE payeeLock

\* The blocks after MaxHeight are handled like the last one.
handleBlock ==
    LET b  == MinOf(blockNumber + 1, MaxHeight)
        p1 == eventsForRegisterSecret(pair, b)
        p2 == setExpiredPairs(p1, b)
    IN  /\ blockNumber < height \/ height = MaxHeight
        /\ ~eventDue
        /\ blockNumber' = b
        /\ IF manager = "running"
           THEN /\ pair' = p2
                /\ RegisterTx(pair, p1, secret)
                /\ payeeLock' = IF pair = NoPair THEN payeeLock ELSE RemoveExpired(p1, p2)
                \* allExpired is decided before this block's expirations
                /\ manager' = IF IsPending(p1) THEN Manager(p2) ELSE "removed"
           ELSE UNCHANGED <<pair, tx, payeeLock, manager>>
        /\ UNCHANGED <<next, secret, payerLock, canPunish, revealed, heard, chainVars>>

\* The target of the transfer holds a lock, so it may know the secret.
SecretIsOut == secret \/ \E i \in DOMAIN payeeLock : payeeLock[i] # "none"

\* A block is mined, once the node has handled the previous one.
NewBlock(withSecret) ==
    /\ height < MaxHeight /\ blockNumber = height
    /\ withSecret => registered = 0 /\ SecretIsOut
    /\ (tx # 0 /\ registered = 0 /\ tx = height + 1) => withSecret
    /\ height' = height + 1
    /\ registered' = IF withSecret THEN height + 1 ELSE registered
    /\ eventDue' = withSecret
    /\ UNCHANGED <<manager, blockNumber, next, pair, secret, payerLock, payeeLock,
                   canPunish, revealed, heard, closed, tx>>

\* Somebody closes a channel of the transfer.
CloseChannel(c) ==
    /\ c \in MayClose \ closed
    /\ manager # "none"
    /\ closed' = closed \cup {c}
    /\ UNCHANGED <<manager, blockNumber, next, pair, secret, payerLock, payeeLock,
                   canPunish, revealed, heard, height, registered, eventDue, tx>>

-----------------------------------------------------------------------------
Init ==
    /\ manager = "none"
    /\ blockNumber = 1 /\ height = 1
    /\ next = 1 /\ pair = NoPair
    /\ secret = FALSE /\ revealed = FALSE
    /\ payerLock = "locked" /\ heard = {} /\ canPunish = {}
    /\ payeeLock = [i \in 1..Len(Routes) |-> "none"]
    /\ closed = {}
    /\ registered = 0 /\ eventDue = FALSE
    /\ tx = 0

Next ==
    \/ \E tooMany \in BOOLEAN :
          \/ ActionInitMediator(tooMany)
          \/ \E i \in 1..Len(Routes) : messageAnnounceDisposed(i, tooMany)
    \/ \E i \in 1..Len(Routes) : handleSecretReveal(i)
    \/ handleBalanceProof
    \/ handleSecretRevealOnChain
    \/ handleBlock
    \/ \E withSecret \in BOOLEAN : NewBlock(withSecret)
    \/ \E c \in Channels : CloseChannel(c)

Spec == Init /\ [][Next]_vars

(***************************************************************************)
(* The chain goes on and the node follows it.                              *)
(***************************************************************************)
FairSpec ==
    /\ Spec
    /\ WF_vars(handleBlock) /\ WF_vars(handleSecretRevealOnChain)
    /\ WF_vars(\E withSecret \in BOOLEAN : NewBlock(withSecret))

-----------------------------------------------------------------------------
LockStates == {"none", "locked", "paid", "disposed", "removed"}

\* Every variable has its type; the payer and payee states are among those
\* sanityCheck accepts (ValidPayerStateMap, ValidPayeeStateMap).
TypeOK ==
    /\ manager \in {"none", "running", "removed"}
    /\ blockNumber \in Nat /\ height \in Nat
    /\ next \in 1..(Len(Routes) + 1)
    /\ pair \in [route : 0..Len(Routes), expiration : Nat,
                 payer : PayerStates, payee : PayeeStates]
    /\ secret \in BOOLEAN /\ revealed \in BOOLEAN
    /\ payerLock \in LockStates
    /\ payeeLock \in [1..Len(Routes) -> LockStates]
    /\ closed \subseteq MayClose /\ heard \subseteq 1..Len(Routes)
    /\ canPunish \subseteq 1..Len(Routes)
    /\ registered \in Nat /\ eventDue \in BOOLEAN
    /\ tx \in Nat

\* "If the payee has been paid, then the payer must pay too"
\* (setExpiredPairs): when the payer's lock has expired, a mediator that paid
\* a payee has the payer's balance proof or can unlock with the secret on
\* chain.
PaidPayeeIsCovered ==
    (height > PayerExpiration /\ \E i \in DOMAIN payeeLock : payeeLock[i] = "paid")
        => payerLock = "paid" \/ registered \in 1..PayerExpiration

\* The node of route i has been paid, or holds a lock it can claim.  A lock it
\* gave up may have to stay, in a channel that was closed meanwhile; unlocking
\* it on chain is answered with the stored AnnounceDisposed and costs its
\* owner everything (handleUnlockOnChain; CheaterLosesAll in Settlement).
Claimable(i) ==
    payeeLock[i] = "paid" \/ (payeeLock[i] = "locked" /\ i \notin canPunish)

\* The mediator never owes two payees for one payer: of all the hops it has
\* tried, at most one can still claim or has been paid, also when a channel
\* was closed before its payee gave the lock up.
OnePayee ==
    \A i, j \in DOMAIN payeeLock : (Claimable(i) /\ Claimable(j)) => i = j

\* The payer's lock is given up only while no payee can be paid.
DisposedMeansNoPayee ==
    payerLock = "disposed" => \A i \in DOMAIN payeeLock : ~Claimable(i)

\* The transfer ends: the state manager is removed, whatever payer and payees
\* do or leave undone.
ManagerRemoved == (manager = "running") ~> (manager = "removed")
=============================================================================
