------------------------------ MODULE Payment ------------------------------
(***************************************************************************)
(* One payment from end to end: the initiator A, which tries one route     *)
(* after the other, and the target T, each with its state machine          *)
(* (mediatedtransfer/initiator, target) and, after a crash, with the       *)
(* crash-node machine that restoreLocks puts in its place.                 *)
(*                                                                         *)
(* The mediators in between are the environment, and owe nothing: they may *)
(* forward a lock, short of the amount too, give it up at any time, keep   *)
(* the unlock back, and use a secret that anybody on the way has learnt.   *)
(* Who knows the secret can register it on chain, in time or too late.     *)
(*                                                                         *)
(* T handles each block before the next is mined, A may lag; a node        *)
(* handles the event of a block after the block and before the next one.   *)
(* All channels stay open.                                                 *)
(***************************************************************************)
EXTENDS Integers, Sequences, FiniteSetsExt

CONSTANTS
    RouteLists,        \* the lists of routes: the channel with the first hop, whether
                       \* it has the amount and whether also the fee, and the times
    RevealTimeout,     \* params.DefaultRevealTimeout, and T's channels' own
    ForkConfirmNumber, \* params.ForkConfirmNumber
    RegisterDelay,     \* blocks a registration that T sends takes at most
    CancelWhileRoutes, \* whether the user may cancel with routes left to try
    MaxLag,            \* bound: blocks A is behind the chain
    MaxStart,          \* bound: the block in which the payment starts
    MaxCrashes,        \* bound: crashes of A and T together
    MaxHeight          \* bound: the length of the chain

ASSUME PaymentAssumption ==
    /\ RouteLists \subseteq
          Seq([hop : Nat, usable : BOOLEAN, funded : BOOLEAN, settle : Nat,
               direct : BOOLEAN, margin : Nat])
    /\ \A rs \in RouteLists : \A r \in 1..Len(rs) :
          rs[r].settle > RevealTimeout + rs[r].margin
    /\ RevealTimeout \in Nat \ {0} /\ ForkConfirmNumber \in Nat \ {0}
    /\ RegisterDelay \in Nat \ {0}
    /\ CancelWhileRoutes \in BOOLEAN
    /\ MaxLag \in Nat /\ MaxStart \in Nat /\ MaxCrashes \in Nat /\ MaxHeight \in Nat \ {0}

VARIABLES
    Routes,     \* the routes found for the payment (RoutesState)
    \* the initiator
    ini,        \* the state manager and its InitiatorState or CrashState
    lock,       \* lock[r]: the lock in A's channel with the first hop of route r
    responding, \* the route whose AnnounceDisposedResponse is still to be sent
    status,     \* the status in SentTransferDetail
    result,     \* what the caller was told through Transfer2Result
    \* the target
    tgt,        \* the state manager and its TargetState or CrashState
    tlock,      \* tlock[r]: the lock T received over route r
    \* messages between A and T; the rest is the environment's choice
    requests,   \* SecretRequests on the way: whether the amount is right
    answered,   \* those A has acknowledged
    revealing,  \* A's RevealSecret is on the way to T
    secretOut,  \* A has sent the secret to somebody
    told,       \* the routes to whose last hop T has sent the secret
    \* the chain
    height, blk,
    registered, \* the block in which the secret was registered, 0 if never
    deadline,   \* the last block for the registration T asked for, 0 if none
    seen,       \* the nodes that have handled the SecretRevealed event
    \* history and bounds
    safe,       \* the routes whose lock T managed when it learnt the secret in time
    crashes     \* the crashes so far

iniVars   == <<ini, lock, responding, status, result>>
tgtVars   == <<tgt, tlock, told>>
msgVars   == <<requests, answered, revealing, secretOut>>
chainVars == <<height, blk, registered, seen>>
bookVars  == <<Routes, crashes>>
vars == <<iniVars, tgtVars, msgVars, chainVars, deadline, safe, bookVars>>

R == 1..Len(Routes)

\* A manager as long as there is none: before, and after EventRemoveStateManager
NoInitiator == [mgr |-> "none", route |-> 0, next |-> 1, exp |-> 0, secret |-> FALSE,
                reveal |-> FALSE, exception |-> FALSE, sent |-> {}]
Removed  == [NoInitiator EXCEPT !.mgr = "removed"]
NoTarget == [mgr |-> "none", route |-> 0, wait |-> FALSE, secret |-> FALSE, received |-> {}]

NoLock  == [st |-> "none", exp |-> 0, onchain |-> FALSE, disposed |-> FALSE]
NoTLock == [st |-> "none", exp |-> 0, known |-> FALSE, saved |-> FALSE]

Locked  == {r \in R : lock[r].st = "locked"}
TLocked == {r \in R : tlock[r].st = "locked"}

\* Some mediator has the secret, from T's payer or from the chain
MediatorKnows == registered # 0 \/ \E r \in told : ~ Routes[r].direct
\* The handler of A that is under way has ended
Idle == responding = 0

-----------------------------------------------------------------------------
(***************************************************************************)
(* The initiator: initiator/transition.go.                                 *)
(***************************************************************************)
\* What is left of the routes when the first usable one is taken: the rest
\* after the skipped ones, which starts with the one to try.
SkipUnusable(from) ==
    LET ok == {r \in R : r >= from /\ Routes[r].usable}
    IN  IF ok = {} THEN 0 ELSE Min(ok)

\* A later route never outlasts an earlier one.
lockExpiration(r) ==
    LET e == blk["A"] + Routes[r].settle - RevealTimeout
    IN  IF ini.exp # 0 THEN Min({e, ini.exp}) ELSE e

\* Mutant: the caller's channel is forgotten.
FailedUntold == status' = "failed" /\ UNCHANGED result

\* EventTransferSentFailed: status, and the caller's result unless given before
Failed ==
    /\ status' = "failed"
    /\ result' = IF result = "none" THEN "error" ELSE result

\* CreateMediatedTransfer and registerMediatedMessage: the channel must have the
\* fee as well, and no lock of this payment already.
CanLock(r, locks) ==
    /\ Routes[r].funded
    /\ ~ \E q \in R : Routes[q].hop = Routes[r].hop /\ locks[q].st = "locked"

\* The lock of route r until exp, or nothing at all: the error is only logged.
eventSendMediatedTransfer(r, exp, locks) ==
    IF CanLock(r, locks)
    THEN /\ lock' = [locks EXCEPT ![r] = [NoLock EXCEPT !.st = "locked", !.exp = exp]]
         /\ status' = "canCancel"
    ELSE lock' = locks /\ UNCHANGED status

\* tryNewRoute, from the first route not tried yet, when A's locks are locks.
\* The secret that goes with the new lock is that of the state, which a cancel
\* leaves alone, not that of the transfer.
tryNewRoute(from, locks) ==
    LET r == SkipUnusable(from)
    IN  IF r = 0
        THEN /\ ini' = Removed
             /\ Failed
             /\ lock' = locks
        ELSE /\ ini' = [ini EXCEPT !.mgr = "initiator", !.route = r, !.next = r + 1,
                                   !.exp = lockExpiration(r), !.secret = TRUE]
             /\ eventSendMediatedTransfer(r, lockExpiration(r), locks)
             /\ UNCHANGED result

startMediatedTransfer ==
    /\ ini.mgr = "none" /\ height <= MaxStart
    /\ tryNewRoute(1, lock)
    /\ UNCHANGED <<responding, tgtVars, msgVars, chainVars, deadline, safe, bookVars>>

\* After a wrong request no other one is answered; the lock just expires.
RejectRequest ==
    /\ ini' = [ini EXCEPT !.exception = TRUE]
    /\ UNCHANGED <<lock, status, result>>

\* handleSecretRequest.  After a cancel the transfer's secret is empty, and an
\* empty secret is what T gets.
messageSecretRequest(amountOK) ==
    LET asked   == ini.mgr = "initiator" /\ ~ ini.reveal
        reveals == amountOK /\ ~ ini.exception /\ blk["A"] < ini.exp
        out     == asked /\ reveals /\ ini.secret
    IN  /\ Idle /\ amountOK \in requests
        /\ requests' = requests \ {amountOK}
        /\ answered' = answered \cup {amountOK}
        /\ revealing' = (revealing \/ out) /\ secretOut' = (secretOut \/ out)
        /\ \/ /\ asked /\ reveals
              /\ ini' = [ini EXCEPT !.reveal = TRUE]
              /\ status' = IF ini.secret THEN "canNotCancel" ELSE status
              /\ UNCHANGED <<lock, result>>
           \/ asked /\ ~ reveals /\ RejectRequest
           \/ ~ asked /\ UNCHANGED <<ini, lock, status, result>>
        /\ UNCHANGED <<responding, tgtVars, chainVars, deadline, safe, bookVars>>

\* transferSuccessEvents when A's locks are locks: eventSendUnlock, which fails
\* without a lock, and the result all the same; the status follows when the hop
\* acknowledges the unlock
transferSuccess(locks) ==
    /\ ini' = Removed
    /\ lock' = IF locks[ini.route].st = "locked"
               THEN [locks EXCEPT ![ini.route].st = "unlocked"] ELSE locks
    /\ result' = IF result = "none" THEN "ok" ELSE result

\* handleSentMessage: the Ack for the unlock
unlockAcknowledged ==
    /\ \E r \in R : lock[r].st = "unlocked"
    /\ status # "success" /\ status' = "success"
    /\ UNCHANGED <<ini, lock, responding, result, tgtVars, msgVars, chainVars, deadline,
                   safe, bookVars>>

\* handleSecretReveal, when the first hop of route r sends the secret
messageRevealSecret(r) ==
    /\ Idle /\ IF Routes[r].direct THEN r \in told ELSE MediatorKnows
    /\ ini.mgr = "initiator"
    /\ blk["A"] < ini.exp
    /\ r = ini.route /\ ini.secret
    /\ transferSuccess(lock)
    /\ UNCHANGED <<responding, status, tgtVars, msgVars, chainVars, deadline, safe, bookVars>>

\* A refund counts only while no secret is in flight (StateTransition), from
\* the hop of the current route and never from the target (IsValidRefund).
RefundAccepted(r) ==
    /\ ini.mgr = "initiator" /\ ~ ini.reveal
    /\ r = ini.route /\ ~ Routes[r].direct

\* messageAnnounceDisposed marks the lock as given up; handleRefund cancels the
\* route and tries the next one before the response goes out; the crash-node
\* machine only responds.
messageAnnounceDisposed(r) ==
    /\ Idle /\ r \in Locked /\ ~ lock[r].disposed
    /\ LET marked == [lock EXCEPT ![r].disposed = TRUE]
       IN  \/ /\ RefundAccepted(r)
              /\ tryNewRoute(ini.next, marked)
              /\ responding' = r
           \/ /\ ini.mgr = "crash" /\ r \in ini.sent
              /\ ini' = [ini EXCEPT !.sent = @ \ {r}]
              /\ lock' = marked /\ responding' = r
              /\ UNCHANGED <<status, result>>
           \/ /\ ~ RefundAccepted(r) /\ ~ (ini.mgr = "crash" /\ r \in ini.sent)
              /\ lock' = marked
              /\ UNCHANGED <<ini, responding, status, result>>
    /\ UNCHANGED <<tgtVars, msgVars, chainVars, deadline, safe, bookVars>>

\* TryRemoveHashLock: never a lock whose secret is registered in time
Removable(r) == lock[r].st = "locked" /\ ~ lock[r].onchain

\* Mutant: the response is sent and not registered.
eventSendAnnouncedDisposedResponseKeeps ==
    /\ responding # 0 /\ responding' = 0
    /\ UNCHANGED <<ini, lock, status, result, tgtVars, msgVars, chainVars, deadline, safe,
                   bookVars>>

eventSendAnnouncedDisposedResponse ==
    /\ responding # 0
    /\ lock' = IF Removable(responding)
               THEN [lock EXCEPT ![responding].st = "removed"] ELSE lock
    /\ responding' = 0
    /\ UNCHANGED <<ini, status, result, tgtVars, msgVars, chainVars, deadline, safe, bookVars>>

\* Mutant: whatever the status is.
MayCancelAlways == TRUE

\* Only until the secret is sent
MayCancel == status = "canCancel"

\* The user cancels; the manager stays to remove the lock when it expires.
cancelTransfer ==
    /\ Idle /\ ini.mgr = "initiator" /\ MayCancel
    /\ CancelWhileRoutes \/ SkipUnusable(ini.next) = 0
    /\ ini' = [ini EXCEPT !.secret = FALSE]
    /\ status' = "canceled"
    /\ result' = IF result = "none" THEN "error" ELSE result
    /\ UNCHANGED <<lock, responding, tgtVars, msgVars, chainVars, deadline, safe, bookVars>>

\* The database has a removal of this payment's lock in the channel of route r.
IsThisLockRemoved(r) ==
    \E q \in R : Routes[q].hop = Routes[r].hop /\ lock[q].st = "removed"

\* expiredHashLockEvents: EventUnlockFailed removes the lock if it may, and
\* EventTransferSentFailed; nothing before ForkConfirmNumber blocks have passed,
\* or when the lock is taken for removed
expiredHashLockEvents(block, locks) ==
    IF block - ForkConfirmNumber > ini.exp /\ ~ IsThisLockRemoved(ini.route)
    THEN /\ lock' = IF Removable(ini.route)
                    THEN [locks EXCEPT ![ini.route].st = "removed"] ELSE locks
         /\ Failed
    ELSE lock' = locks /\ UNCHANGED <<status, result>>

\* handleSecretRevealOnChain of the initiator and of the crash-node machine,
\* after registerRevealedLockSecretHash has marked the locks
handleSecretRegisteredOnChainA ==
    LET timely == {r \in Locked : lock[r].exp >= registered}
        marked == [r \in R |-> IF r \in timely THEN [lock[r] EXCEPT !.onchain = TRUE]
                               ELSE lock[r]]
        unlocking == ini.sent \cap timely
    IN  /\ Idle /\ registered # 0 /\ "A" \notin seen /\ blk["A"] >= registered
        /\ seen' = seen \cup {"A"}
        /\ \/ /\ ini.mgr = "initiator" /\ ini.exp < registered
              /\ ini' = Removed
              /\ expiredHashLockEvents(blk["A"], marked)
           \/ /\ ini.mgr = "initiator" /\ ini.exp >= registered
              /\ transferSuccess(marked)
              /\ UNCHANGED status
           \/ /\ ini.mgr = "crash"
              /\ ini' = IF unlocking # {} /\ ini.sent = unlocking THEN Removed
                        ELSE [ini EXCEPT !.sent = @ \ unlocking]
              /\ lock' = [r \in R |-> IF r \in unlocking
                                      THEN [marked[r] EXCEPT !.st = "unlocked"] ELSE marked[r]]
              /\ UNCHANGED <<status, result>>
           \/ /\ ini.mgr \in {"none", "removed"}
              /\ lock' = marked
              /\ UNCHANGED <<ini, status, result>>
        /\ UNCHANGED <<responding, tgtVars, msgVars, height, blk, registered, deadline,
                       safe, bookVars>>

\* Mutant: a block that is not there yet.
NextBlockAhead(n) ==
    /\ blk[n] <= height
    /\ registered # 0 /\ blk[n] >= registered => n \in seen
    /\ blk' = [blk EXCEPT ![n] = @ + 1]

\* A node takes the next block once it has handled the event of the last.
NextBlock(n) ==
    /\ blk[n] < height
    /\ registered # 0 /\ blk[n] >= registered => n \in seen
    /\ blk' = [blk EXCEPT ![n] = @ + 1]

\* handleBlock of the initiator and of the crash-node machine: a lock is removed
\* ForkConfirmNumber blocks after its expiration.
handleBlockA ==
    LET expired == {r \in ini.sent : blk'["A"] - ForkConfirmNumber > lock[r].exp}
        removed == {r \in expired : Removable(r)}
    IN  /\ Idle /\ NextBlock("A")
        /\ \/ /\ ini.mgr = "initiator" /\ blk'["A"] - ForkConfirmNumber > ini.exp
              /\ ini' = Removed
              /\ expiredHashLockEvents(blk'["A"], lock)
           \/ /\ ini.mgr = "crash" /\ expired # {}
              /\ ini' = IF ini.sent = expired THEN Removed
                        ELSE [ini EXCEPT !.sent = @ \ expired]
              /\ lock' = [r \in R |-> IF r \in removed THEN [lock[r] EXCEPT !.st = "removed"]
                                      ELSE lock[r]]
              /\ status' = IF removed # {} THEN "failed" ELSE status
              /\ UNCHANGED result
           \/ /\ ~ (ini.mgr = "initiator" /\ blk'["A"] - ForkConfirmNumber > ini.exp)
              /\ ~ (ini.mgr = "crash" /\ expired # {})
              /\ UNCHANGED <<ini, lock, status, result>>
        /\ UNCHANGED <<responding, tgtVars, msgVars, height, registered, seen, deadline,
                       safe, bookVars>>

\* restoreLocks: the locks get a crash-node machine; the secret, the routes, the
\* caller's channel and the messages that are not saved are lost, and the
\* chain's events come again.
restoreLocksA ==
    /\ ini.mgr # "none" /\ crashes < MaxCrashes
    /\ ini' = IF Locked = {} THEN Removed
              ELSE [NoInitiator EXCEPT !.mgr = "crash", !.sent = Locked]
    /\ responding' = 0 /\ revealing' = FALSE
    /\ result' = IF result = "none" THEN "lost" ELSE result
    /\ seen' = seen \ {"A"} /\ crashes' = crashes + 1
    /\ UNCHANGED <<lock, status, tgtVars, requests, answered, secretOut, height, blk,
                   registered, deadline, safe, Routes>>

-----------------------------------------------------------------------------
(***************************************************************************)
(* The target: target/transition.go, and crashnode/transition.go for the   *)
(* locks it received.                                                      *)
(***************************************************************************)
\* mediator.IsSafeToWait
IsSafeToWait(exp, block) == block < exp - RevealTimeout

\* messageMediatedTransfer over route r, short of the amount or not: the lock is
\* registered, and the first one starts the machine (handleInitTraget), which
\* asks for the secret, and saves the channel, only while there is time.  A
\* SecretRequest that A has acknowledged is not handled again.
messageMediatedTransfer(r, amountOK) ==
    LET exp    == lock[r].exp - (IF Routes[r].direct THEN 0 ELSE Routes[r].margin)
        starts == tgt.mgr = "none"
        asks   == starts /\ IsSafeToWait(exp, blk["T"])
    IN  /\ r \in Locked /\ tlock[r].st = "none"
        /\ Routes[r].direct => amountOK
        /\ tlock' = [tlock EXCEPT ![r] = [st |-> "locked", exp |-> exp, known |-> FALSE,
                                          saved |-> asks]]
        /\ tgt' = IF starts THEN [NoTarget EXCEPT !.mgr = "target", !.route = r] ELSE tgt
        /\ requests' = IF asks /\ amountOK \notin answered
                       THEN requests \cup {amountOK} ELSE requests
        /\ UNCHANGED <<iniVars, told, answered, revealing, secretOut, chainVars,
                       deadline, safe, bookVars>>

\* The locks the machine of T looks after
Managed == CASE tgt.mgr = "target" -> {tgt.route} \cap TLocked
             [] tgt.mgr = "crash"  -> tgt.received
             [] OTHER              -> {}

\* messageRevealSecret: registerSecret for all channels with this lock, and
\* handleSecretReveal; the crash-node machine does not tell the payer.
messageRevealSecretT ==
    LET tells == tgt.mgr = "target" /\ blk["T"] <= tlock[tgt.route].exp
    IN  /\ revealing /\ revealing' = FALSE
        /\ tlock' = [r \in R |-> [tlock[r] EXCEPT !.known = @ \/ r \in TLocked]]
        /\ tgt' = IF tells THEN [tgt EXCEPT !.secret = TRUE, !.wait = FALSE] ELSE tgt
        /\ told' = IF tells THEN told \cup {tgt.route} ELSE told
        /\ safe' = safe \cup {r \in Managed : IsSafeToWait(tlock[r].exp, blk["T"])}
        /\ UNCHANGED <<iniVars, requests, answered, secretOut, chainVars, deadline, bookVars>>

\* messageUnlock: the lock is unlocked, and the machine done with it.  Without
\* checkFinish the crash-node machine stays when nothing is left.
messageUnlockT(r) ==
    /\ r \in TLocked
    /\ IF Routes[r].direct THEN lock[r].st = "unlocked" ELSE MediatorKnows
    /\ tlock' = [tlock EXCEPT ![r].st = "unlocked", ![r].known = TRUE]
    /\ tgt' = IF tgt.mgr = "target" /\ tgt.route = r
              THEN NoTarget
              ELSE [tgt EXCEPT !.received = @ \ {r}]
    /\ UNCHANGED <<iniVars, told, msgVars, chainVars, deadline, safe, bookVars>>

\* handleSecretRegisteredOnChain ends the target's machine, in time or not; the
\* crash-node machine leaves the locks of open channels alone.
handleSecretRegisteredOnChainT ==
    /\ registered # 0 /\ "T" \notin seen /\ blk["T"] >= registered
    /\ seen' = seen \cup {"T"}
    /\ tlock' = [r \in R |-> [tlock[r] EXCEPT !.known =
                    @ \/ (r \in TLocked /\ tlock[r].exp >= registered)]]
    /\ tgt' = IF tgt.mgr = "target" THEN NoTarget ELSE tgt
    /\ UNCHANGED <<iniVars, told, msgVars, height, blk, registered, deadline, safe, bookVars>>

\* The target registers the secret when it is not safe to wait any longer.
eventsForRegisterSecret(block) ==
    /\ tgt.mgr = "target" /\ ~ tgt.wait
    /\ tgt.secret /\ ~ IsSafeToWait(tlock[tgt.route].exp, block)

\* Mutant: another block later.
crashRegistersLate(block) ==
    /\ tgt.mgr = "crash"
    /\ \E r \in tgt.received \cap TLocked :
          /\ tlock[r].known
          /\ tlock[r].exp >= block /\ tlock[r].exp < block + RevealTimeout - 1

\* The crash-node machine does so in a window that starts a block later.
crashRegisters(block) ==
    /\ tgt.mgr = "crash"
    /\ \E r \in tgt.received \cap TLocked :
          /\ tlock[r].known
          /\ tlock[r].exp >= block /\ tlock[r].exp < block + RevealTimeout

\* handleBlock and clearIfFinalized
handleBlockT ==
    LET block == blk["T"] + 1
        over == {r \in tgt.received : r \notin TLocked
                                       \/ block - ForkConfirmNumber > tlock[r].exp}
    IN  /\ NextBlock("T")
        /\ tgt' = CASE tgt.mgr = "target" /\ block <= tlock[tgt.route].exp ->
                          [tgt EXCEPT !.wait = @ \/ eventsForRegisterSecret(block)]
                    [] tgt.mgr = "crash" /\ (over = {} \/ over # tgt.received) ->
                          [tgt EXCEPT !.received = @ \ over]
                    [] OTHER -> NoTarget
        /\ deadline' = IF /\ eventsForRegisterSecret(block) \/ crashRegisters(block)
                          /\ deadline = 0 /\ registered = 0
                       THEN block + RegisterDelay ELSE deadline
        /\ UNCHANGED <<iniVars, tlock, told, msgVars, height, registered, seen, safe, bookVars>>

\* The locks in no saved copy of their channel, unless another message of the
\* channel had it saved: the machine did not ask for the secret when they came,
\* and the secret, with which the channel is saved, has not come since.
Unsaved == {r \in TLocked : ~ tlock[r].saved /\ ~ tlock[r].known}

\* restoreLocks: what was not saved is lost, and comes again when its Ack was not
\* saved either; the other locks get a crash-node machine.
restoreLocksT ==
    /\ tgt.mgr # "none" \/ TLocked # {}
    /\ crashes < MaxCrashes
    /\ \E lost \in SUBSET Unsaved :
          /\ tlock' = [r \in R |-> IF r \in lost THEN NoTLock ELSE tlock[r]]
          /\ tgt' = IF TLocked = lost THEN NoTarget
                    ELSE [NoTarget EXCEPT !.mgr = "crash", !.received = TLocked \ lost]
    /\ requests' = {}
    /\ seen' = seen \ {"T"} /\ crashes' = crashes + 1
    /\ UNCHANGED <<iniVars, told, answered, revealing, secretOut, height, blk, registered,
                   deadline, safe, Routes>>

-----------------------------------------------------------------------------
(***************************************************************************)
(* The chain.  Whoever has the secret may register it; the registration T  *)
(* asked for is mined at its deadline at the latest.                       *)
(***************************************************************************)
NewBlock(reg) ==
    /\ height < MaxHeight
    /\ blk["T"] = height /\ (registered # 0 => "T" \in seen)
    /\ height - blk["A"] < MaxLag + 1
    /\ reg => registered = 0 /\ (deadline # 0 \/ MediatorKnows)
    /\ deadline = height + 1 /\ registered = 0 => reg
    /\ height' = height + 1
    /\ registered' = IF reg THEN height + 1 ELSE registered
    /\ UNCHANGED <<iniVars, tgtVars, msgVars, blk, seen, deadline, safe, bookVars>>

Init ==
    /\ Routes \in RouteLists
    /\ ini = NoInitiator
    /\ lock = [r \in R |-> NoLock] /\ responding = 0
    /\ status = "init" /\ result = "none"
    /\ tgt = NoTarget /\ tlock = [r \in R |-> NoTLock] /\ told = {}
    /\ requests = {} /\ answered = {} /\ revealing = FALSE /\ secretOut = FALSE
    /\ height = 1 /\ blk = [n \in {"A", "T"} |-> 1] /\ registered = 0 /\ seen = {}
    /\ deadline = 0 /\ safe = {} /\ crashes = 0

\* Everything that only needs the program and the chain to go on
Progress ==
    \/ handleBlockA \/ handleBlockT
    \/ handleSecretRegisteredOnChainA \/ handleSecretRegisteredOnChainT
    \/ eventSendAnnouncedDisposedResponse
    \/ \E reg \in BOOLEAN : NewBlock(reg)

Next ==
    \/ Progress
    \/ startMediatedTransfer \/ cancelTransfer \/ unlockAcknowledged
    \/ \E ok \in BOOLEAN : messageSecretRequest(ok)
    \/ \E r \in R : messageRevealSecret(r) \/ messageAnnounceDisposed(r)
    \/ \E r \in R, ok \in BOOLEAN : messageMediatedTransfer(r, ok)
    \/ messageRevealSecretT \/ \E r \in R : messageUnlockT(r)
    \/ restoreLocksA \/ restoreLocksT

Spec == Init /\ [][Next]_vars /\ WF_vars(Progress)

-----------------------------------------------------------------------------
\* The types of the variables; no node is ahead of the chain.
TypeOK ==
    /\ Routes \in RouteLists
    /\ ini \in [mgr : {"none", "initiator", "crash", "removed"}, route : 0..Len(Routes),
                next : 1..(Len(Routes) + 1), exp : Nat, secret : BOOLEAN, reveal : BOOLEAN,
                exception : BOOLEAN, sent : SUBSET R]
    /\ lock \in [R -> [st : {"none", "locked", "unlocked", "removed"}, exp : Nat,
                       onchain : BOOLEAN, disposed : BOOLEAN]]
    /\ responding \in 0..Len(Routes)
    /\ status \in {"init", "canCancel", "canNotCancel", "success", "failed", "canceled"}
    /\ result \in {"none", "ok", "error", "lost"}
    /\ tgt \in [mgr : {"none", "target", "crash"}, route : 0..Len(Routes), wait : BOOLEAN,
                secret : BOOLEAN, received : SUBSET R]
    /\ tlock \in [R -> [st : {"none", "locked", "unlocked"}, exp : Int, known : BOOLEAN,
                        saved : BOOLEAN]]
    /\ requests \subseteq BOOLEAN /\ answered \subseteq BOOLEAN /\ seen \subseteq {"A", "T"}
    /\ <<revealing, secretOut>> \in BOOLEAN \X BOOLEAN /\ told \subseteq R
    /\ blk \in [{"A", "T"} -> 1..height] /\ height \in 1..MaxHeight
    /\ registered \in 0..height /\ deadline \in 0..(MaxHeight + RegisterDelay)
    /\ safe \subseteq R /\ crashes \in 0..MaxCrashes

\* A pays over at most one route: of the locks with the same secret (the code
\* does not change it from route to route) at most one is unlocked or can still
\* be claimed, whatever the hops give up, and whether A crashes between the new
\* lock and the response for the old one or not.
PaidOnce ==
    Cardinality({r \in R : \/ lock[r].st = "unlocked"
                           \/ secretOut /\ lock[r].st = "locked" /\ ~ lock[r].disposed}) <= 1

\* A payment that the caller was told has failed, or that is recorded as failed
\* or cancelled, is not made: no lock is unlocked, or claimable on chain.
FailedIsNotPaid ==
    (result = "error" \/ status \in {"failed", "canceled"}) =>
        \A r \in R : /\ lock[r].st # "unlocked"
                      /\ ~ (lock[r].st = "locked" /\ registered \in 1..lock[r].exp
                            /\ ~ lock[r].disposed)

\* T is paid for each lock it looked after when it learnt the secret in time:
\* when the lock is over it is unlocked, or the secret was registered before,
\* although T crashed in between.
TargetIsPaid ==
    \A r \in safe : height > tlock[r].exp =>
        tlock[r].st = "unlocked" \/ registered \in 1..tlock[r].exp

\* No two routes start with the same channel; the user's own routes and those
\* of the pathfinder may.
DistinctHops == \A r, q \in R : Routes[r].hop = Routes[q].hop => r = q

\* The caller of a transfer gets an answer, also when no lock can be made for the
\* route, unless A crashes or somebody registers the secret after the expiration
\* A has in mind; and as long as no two routes share their first channel.
AnswerGiven ==
    (DistinctHops /\ ini.mgr = "initiator" /\ result = "none") ~>
        (result # "none" \/ (ini.mgr = "initiator" /\ registered > ini.exp))

=============================================================================
