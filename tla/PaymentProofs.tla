---------------------------- MODULE PaymentProofs ----------------------------
(***************************************************************************)
(* Proofs about Payment, for every list of routes, whatever the hops do    *)
(* and wherever the two nodes crash.                                       *)
(***************************************************************************)
EXTENDS Payment, FiniteSums, TLAPS

(***************************************************************************)
(* The secret.  Until A has sent it nobody has it, so no lock has been     *)
(* unlocked and nothing has been registered.                               *)
(***************************************************************************)
Unsent ==
    /\ ~ revealing /\ told = {} /\ ~ tgt.secret
    /\ \A r \in R : /\ ~ tlock[r].known
                    /\ ~ lock[r].onchain /\ lock[r].st # "unlocked"
    /\ deadline = 0 /\ registered = 0

SecretInv == secretOut \/ Unsent

(***************************************************************************)
(* The routes.  While the initiator's machine runs, no other lock is under *)
(* way than that of its route, if it could be made, and the one it has     *)
(* still to respond for, and the secret is sent only when there is no such *)
(* response.                                                               *)
(***************************************************************************)
Taken(r) == lock[r].st \in {"locked", "unlocked"}

RouteInv ==
    /\ ini.mgr = "none" =>
          /\ \A r \in R : lock[r] = NoLock
          /\ ~ secretOut /\ responding = 0 /\ result = "none" /\ status = "init"
          /\ ini = NoInitiator
    /\ ini.mgr = "initiator" =>
          /\ ini.route \in R /\ ini.next = ini.route + 1
          /\ lock[ini.route].st # "unlocked" /\ responding # ini.route
          /\ \A r \in R : Taken(r) => r \in {ini.route, responding}
          /\ \A r \in R : ~ lock[r].onchain
          /\ responding # 0 => ~ secretOut
          /\ secretOut => ini.reveal
    /\ secretOut => \A r, q \in R : Taken(r) /\ Taken(q) => r = q
    /\ tgt.mgr = "target" => tgt.route \in R

(***************************************************************************)
(* A failure that was reported is final: the secret stays with A, or no    *)
(* lock is left.                                                           *)
(***************************************************************************)
Reported == result = "error" \/ status \in {"failed", "canceled"}

Hopeless ==
    \/ ~ secretOut /\ (ini.mgr = "initiator" => ~ ini.secret)
    \/ secretOut /\ ini.mgr # "initiator" /\ \A r \in R : ~ Taken(r)

FailInv ==
    /\ Reported => ini.mgr # "none" /\ Hopeless
    /\ ini.mgr = "initiator" /\ ~ ini.secret => ~ secretOut /\ SkipUnusable(ini.next) = 0
    /\ ini.mgr = "initiator" /\ status = "canCancel" => ~ secretOut

(***************************************************************************)
(* A lock of T that was safe is unlocked or on chain in time, or a         *)
(* registration is under way, or the machine still has the time for it.    *)
(***************************************************************************)
WillRegister(r) ==
    \/ /\ tgt.mgr = "target" /\ tgt.route = r /\ tgt.secret /\ ~ tgt.wait
       /\ blk["T"] < tlock[r].exp - RevealTimeout
    \/ /\ tgt.mgr = "crash" /\ r \in tgt.received
       /\ blk["T"] <= tlock[r].exp - RevealTimeout

Pursued(r) ==
    \/ tlock[r].st = "unlocked"
    \/ registered \in 1..tlock[r].exp
    \/ /\ tlock[r].st = "locked" /\ tlock[r].known /\ registered = 0
       /\ \/ deadline # 0 /\ deadline <= tlock[r].exp
          \/ deadline = 0 /\ WillRegister(r)

ClaimInv ==
    /\ \A r \in safe : Pursued(r) /\ tlock[r].st # "none" /\ tlock[r].known
    /\ height <= blk["T"] + 1
    /\ deadline <= blk["T"] + RegisterDelay
    /\ deadline # 0 /\ registered = 0 => height < deadline
    /\ \A r \in tgt.received : tgt.mgr = "crash" /\ r \in TLocked

-----------------------------------------------------------------------------
(***************************************************************************)
(* Types.                                                                  *)
(***************************************************************************)
RouteType == [hop : Nat, usable : BOOLEAN, funded : BOOLEAN, settle : Nat,
              direct : BOOLEAN, margin : Nat]
IniType   == [mgr : {"none", "initiator", "crash", "removed"}, route : 0..Len(Routes),
              next : 1..(Len(Routes) + 1), exp : Nat, secret : BOOLEAN, reveal : BOOLEAN,
              exception : BOOLEAN, sent : SUBSET R]
LockType  == [st : {"none", "locked", "unlocked", "removed"}, exp : Nat,
              onchain : BOOLEAN, disposed : BOOLEAN]
TgtType   == [mgr : {"none", "target", "crash"}, route : 0..Len(Routes), wait : BOOLEAN,
              secret : BOOLEAN, received : SUBSET R]
TLockType == [st : {"none", "locked", "unlocked"}, exp : Int, known : BOOLEAN,
              saved : BOOLEAN]

\* The types of the variables that change together.
PayerTypes ==
    /\ ini \in IniType /\ lock \in [R -> LockType]
    /\ responding \in 0..Len(Routes)
    /\ status \in {"init", "canCancel", "canNotCancel", "success", "failed", "canceled"}
    /\ result \in {"none", "ok", "error", "lost"}

TargetTypes ==
    /\ tgt \in TgtType /\ tlock \in [R -> TLockType] /\ told \subseteq R

OtherTypes ==
    /\ requests \subseteq BOOLEAN /\ answered \subseteq BOOLEAN
    /\ revealing \in BOOLEAN /\ secretOut \in BOOLEAN
    /\ seen \subseteq {"A", "T"}
    /\ blk \in [{"A", "T"} -> 1..height] /\ height \in 1..MaxHeight
    /\ registered \in 0..height /\ deadline \in 0..(MaxHeight + RegisterDelay)
    /\ safe \subseteq R /\ crashes \in 0..MaxCrashes

Types == Routes \in RouteLists /\ PayerTypes /\ TargetTypes /\ OtherTypes

LEMMA TypeParts == TypeOK <=> Types
<1>1. ini \in IniType <=>
        ini \in [mgr : {"none", "initiator", "crash", "removed"}, route : 0..Len(Routes),
                 next : 1..(Len(Routes) + 1), exp : Nat, secret : BOOLEAN, reveal : BOOLEAN,
                 exception : BOOLEAN, sent : SUBSET R]
  BY Zenon DEF IniType
<1>2. <<revealing, secretOut>> \in BOOLEAN \X BOOLEAN <=>
        revealing \in BOOLEAN /\ secretOut \in BOOLEAN
  OBVIOUS
<1> QED
  BY <1>1, <1>2, Zenon DEF TypeOK, Types, PayerTypes, TargetTypes, OtherTypes, LockType,
     TgtType, TLockType

\* What is known of a route.
LEMMA RouteFacts ==
    ASSUME Routes \in RouteLists
    PROVE  /\ Len(Routes) \in Nat
           /\ \A r \in R : /\ Routes[r] \in RouteType /\ r \in Nat /\ r >= 1 /\ r <= Len(Routes)
                           /\ Routes[r].settle > RevealTimeout + Routes[r].margin
<1>1. Routes \in Seq(RouteType)
  BY PaymentAssumption DEF RouteType
<1>2. \A r \in 1..Len(Routes) : Routes[r].settle > RevealTimeout + Routes[r].margin
  BY PaymentAssumption
<1>3. Len(Routes) \in Nat /\ \A r \in 1..Len(Routes) : Routes[r] \in RouteType
  BY <1>1
<1> QED BY <1>2, <1>3 DEF R

\* The next usable route.
LEMMA NextUsable ==
    ASSUME Routes \in RouteLists, NEW from \in Nat
    PROVE  \/ SkipUnusable(from) = 0
           \/ SkipUnusable(from) \in R /\ SkipUnusable(from) >= from
<1> DEFINE ok == {r \in R : r >= from /\ Routes[r].usable}
<1>1. CASE ok = {}
  BY <1>1 DEF SkipUnusable
<1>2. CASE ok # {}
  <2>1. ok \in SUBSET Nat
    BY RouteFacts
  <2>2. PICK x \in ok : \A y \in ok : x <= y
    BY <1>2, <2>1, LeastNatural
  <2>3. Min(ok) \in ok
    BY <2>2 DEF Min
  <2> QED BY <1>2, <2>3 DEF SkipUnusable
<1> QED BY <1>1, <1>2

\* A new lock expires at a natural number.
LEMMA ExpirationType ==
    ASSUME Types, NEW r \in R
    PROVE  lockExpiration(r) \in Nat
<1> DEFINE e == blk["A"] + Routes[r].settle - RevealTimeout
<1>1. blk["A"] \in Nat /\ RevealTimeout \in Nat /\ ini.exp \in Nat
  BY PaymentAssumption DEF Types, OtherTypes, PayerTypes, IniType
<1>2. Routes[r].settle \in Nat /\ Routes[r].margin \in Nat
      /\ Routes[r].settle > RevealTimeout + Routes[r].margin
  BY RouteFacts DEF Types, RouteType
<1>3. e \in Nat
  BY <1>1, <1>2
<1>4. Min({e, ini.exp}) \in Nat
  <2> HIDE DEF e
  <2>1. \E x \in {e, ini.exp} : \A y \in {e, ini.exp} : x <= y
    BY <1>1, <1>3
  <2> QED BY <1>1, <1>3, <2>1 DEF Min
<1> QED BY <1>3, <1>4 DEF lockExpiration

\* tryNewRoute gives up, or takes a later route and makes a lock for it if it can.
GivesUp(locks) ==
    /\ ini' = Removed /\ lock' = locks
    /\ status' = "failed"
    /\ result' = IF result = "none" THEN "error" ELSE result

Tries(from, locks) ==
    \E r \in R :
        /\ r >= from /\ SkipUnusable(from) = r
        /\ ini' \in IniType
        /\ ini'.mgr = "initiator" /\ ini'.route = r /\ ini'.next = r + 1
        /\ ini'.secret = TRUE /\ ini'.reveal = ini.reveal
        /\ lock' \in [R -> LockType]
        /\ \A q \in R \ {r} : lock'[q] = locks[q]
        /\ \/ /\ lock'[r].st = "locked" /\ lock'[r].onchain = FALSE
              /\ status' = "canCancel"
           \/ lock'[r] = locks[r] /\ status' = status
        /\ result' = result

LEMMA NewRoute ==
    ASSUME Types, NEW from \in Nat, NEW locks \in [R -> LockType], tryNewRoute(from, locks)
    PROVE  \/ GivesUp(locks) /\ SkipUnusable(from) = 0
           \/ Tries(from, locks)
<1> DEFINE r == SkipUnusable(from)
<1>1. CASE r = 0
  BY <1>1 DEF tryNewRoute, GivesUp, Failed
<1>2. CASE r # 0
  <2>1. r \in R /\ r >= from
    BY <1>2, NextUsable DEF Types
  <2> DEFINE e == lockExpiration(r)
  <2>2. e \in Nat
    BY <2>1, ExpirationType
  <2>3. /\ ini' = [ini EXCEPT !.mgr = "initiator", !.route = r, !.next = r + 1,
                              !.exp = e, !.secret = TRUE]
        /\ eventSendMediatedTransfer(r, e, locks) /\ UNCHANGED result
    BY <1>2, Zenon DEF tryNewRoute
  <2>4. r \in 0..Len(Routes) /\ r + 1 \in 1..(Len(Routes) + 1)
    BY <2>1, RouteFacts DEF Types, R
  <2>5. ini \in IniType
    BY DEF Types, PayerTypes
  <2> HIDE DEF e, r
  <2>6. /\ ini' \in IniType
        /\ ini'.mgr = "initiator" /\ ini'.route = r /\ ini'.next = r + 1
        /\ ini'.secret = TRUE /\ ini'.reveal = ini.reveal
    BY <2>2, <2>3, <2>4, <2>5 DEF IniType
  <2> DEFINE new == [NoLock EXCEPT !.st = "locked", !.exp = e]
  <2>7. new \in LockType /\ new.st = "locked" /\ new.onchain = FALSE
    BY <2>2 DEF NoLock, LockType
  <2>8. \/ lock' = [locks EXCEPT ![r] = new] /\ status' = "canCancel"
        \/ lock' = locks /\ status' = status
    BY <2>3 DEF eventSendMediatedTransfer
  <2> HIDE DEF new
  <2>9. /\ lock' \in [R -> LockType]
        /\ \A q \in R \ {r} : lock'[q] = locks[q]
        /\ \/ lock'[r] = new /\ status' = "canCancel"
           \/ lock'[r] = locks[r] /\ status' = status
    BY <2>1, <2>7, <2>8
  <2>10. r = SkipUnusable(from)
    BY DEF r
  <2> QED BY <2>1, <2>3, <2>6, <2>7, <2>9, <2>10 DEF Tries
<1> QED BY <1>1, <1>2

(***************************************************************************)
(* What the handlers of A do to its machine and its locks.                 *)
(***************************************************************************)
LEMMA NoMachine ==
    ASSUME Routes \in RouteLists
    PROVE  /\ NoInitiator \in IniType /\ NoInitiator.mgr = "none"
           /\ Removed \in IniType /\ Removed.mgr = "removed"
           /\ NoTarget \in TgtType /\ NoTarget.mgr = "none" /\ NoTarget.secret = FALSE
           /\ NoTarget.received = {}
<1>1. Len(Routes) \in Nat /\ 0 \in 0..Len(Routes) /\ 1 \in 1..(Len(Routes) + 1)
  BY RouteFacts
<1>2. /\ NoInitiator \in IniType /\ NoInitiator.mgr = "none"
      /\ Removed \in IniType /\ Removed.mgr = "removed"
  BY <1>1 DEF NoInitiator, Removed, IniType
<1>3. /\ NoTarget \in TgtType /\ NoTarget.mgr = "none" /\ NoTarget.secret = FALSE
      /\ NoTarget.received = {}
  BY <1>1 DEF NoTarget, TgtType
<1> QED BY <1>2, <1>3

LEMMA RequestHandled ==
    ASSUME Types, NEW ok \in BOOLEAN, messageSecretRequest(ok)
    PROVE  /\ responding = 0
           /\ ini' \in IniType /\ ini'.mgr = ini.mgr /\ ini'.route = ini.route
           /\ ini'.next = ini.next /\ ini'.exp = ini.exp /\ ini'.secret = ini.secret
           /\ ini.mgr # "initiator" => ini' = ini
           /\ requests' \subseteq BOOLEAN /\ answered' \subseteq BOOLEAN
           /\ \/ /\ ini.mgr = "initiator" /\ ini'.reveal = TRUE
                 /\ secretOut' = (secretOut \/ ini.secret)
                 /\ revealing' = (revealing \/ ini.secret)
                 /\ status' = IF ini.secret THEN "canNotCancel" ELSE status
              \/ /\ ini'.reveal = ini.reveal /\ secretOut' = secretOut
                 /\ revealing' = revealing /\ status' = status
           /\ UNCHANGED <<lock, result, responding>>
<1> USE DEF Types, PayerTypes, OtherTypes
<1> DEFINE asked   == ini.mgr = "initiator" /\ ~ ini.reveal
           reveals == ok /\ ~ ini.exception /\ blk["A"] < ini.exp
           out     == asked /\ reveals /\ ini.secret
<1>1. /\ responding = 0 /\ UNCHANGED responding
      /\ requests' = requests \ {ok} /\ answered' = answered \cup {ok}
      /\ revealing' = (revealing \/ out) /\ secretOut' = (secretOut \/ out)
      /\ \/ /\ asked /\ reveals
            /\ ini' = [ini EXCEPT !.reveal = TRUE]
            /\ status' = IF ini.secret THEN "canNotCancel" ELSE status
            /\ UNCHANGED <<lock, result>>
         \/ /\ asked /\ ~ reveals /\ ini' = [ini EXCEPT !.exception = TRUE]
            /\ UNCHANGED <<lock, status, result>>
         \/ ~ asked /\ UNCHANGED <<ini, lock, status, result>>
  BY DEF messageSecretRequest, Idle, RejectRequest
<1>2. requests' \subseteq BOOLEAN /\ answered' \subseteq BOOLEAN
  BY <1>1
<1>3. ini \in IniType /\ ini.reveal \in BOOLEAN /\ ini.secret \in BOOLEAN
      /\ secretOut \in BOOLEAN /\ revealing \in BOOLEAN
  BY DEF IniType
<1> HIDE DEF reveals
<1>4. CASE asked /\ reveals /\ ini' = [ini EXCEPT !.reveal = TRUE]
  <2>1. /\ ini' \in IniType /\ ini'.mgr = ini.mgr /\ ini'.route = ini.route
        /\ ini'.next = ini.next /\ ini'.exp = ini.exp /\ ini'.secret = ini.secret
        /\ ini'.reveal = TRUE
    BY <1>3, <1>4 DEF IniType
  <2> QED BY <1>1, <1>2, <1>3, <1>4, <2>1
<1>5. CASE ~(asked /\ reveals) /\ (ini' = [ini EXCEPT !.exception = TRUE] \/ ini' = ini)
  <2>1. /\ ini' \in IniType /\ ini'.mgr = ini.mgr /\ ini'.route = ini.route
        /\ ini'.next = ini.next /\ ini'.exp = ini.exp /\ ini'.secret = ini.secret
        /\ ini'.reveal = ini.reveal
    BY <1>3, <1>5 DEF IniType
  <2>2. revealing' = revealing /\ secretOut' = secretOut
    BY <1>1, <1>3, <1>5
  <2> QED BY <1>1, <1>2, <1>3, <1>5, <2>1, <2>2
<1> QED BY <1>1, <1>4, <1>5

\* f differs from lock at most in the marks of locks that were given up.
Marked(f) ==
    /\ f \in [R -> LockType]
    /\ \A q \in R : f[q].st = lock[q].st /\ f[q].exp = lock[q].exp
                    /\ f[q].onchain = lock[q].onchain

LEMMA DisposalHandled ==
    ASSUME Types, NEW r \in R, messageAnnounceDisposed(r)
    PROVE  /\ responding = 0 /\ lock[r].st = "locked"
           /\ \E marked :
                 /\ Marked(marked)
                 /\ \/ /\ RefundAccepted(r) /\ responding' = r
                       /\ \/ GivesUp(marked) /\ SkipUnusable(ini.next) = 0
                          \/ Tries(ini.next, marked)
                    \/ /\ ini.mgr = "crash" /\ ini' \in IniType /\ ini'.mgr = "crash"
                       /\ lock' = marked /\ responding' = r
                       /\ UNCHANGED <<status, result>>
                    \/ /\ lock' = marked
                       /\ UNCHANGED <<ini, responding, status, result>>
<1> USE DEF Types, PayerTypes
<1> DEFINE marked == [lock EXCEPT ![r].disposed = TRUE]
<1>1. responding = 0 /\ lock[r].st = "locked"
  BY DEF messageAnnounceDisposed, Idle, Locked
<1>2. Marked(marked)
  BY DEF Marked, LockType
<1>3. \/ RefundAccepted(r) /\ tryNewRoute(ini.next, marked) /\ responding' = r
      \/ /\ ini.mgr = "crash" /\ ini' = [ini EXCEPT !.sent = @ \ {r}]
         /\ lock' = marked /\ responding' = r /\ UNCHANGED <<status, result>>
      \/ lock' = marked /\ UNCHANGED <<ini, responding, status, result>>
  BY DEF messageAnnounceDisposed
<1>4. ini.next \in Nat /\ marked \in [R -> LockType]
  BY <1>2 DEF IniType, Marked
<1> HIDE DEF marked
<1>5. CASE RefundAccepted(r) /\ tryNewRoute(ini.next, marked) /\ responding' = r
  <2>1. (GivesUp(marked) /\ SkipUnusable(ini.next) = 0) \/ Tries(ini.next, marked)
    BY <1>4, <1>5, NewRoute
  <2> QED BY <1>1, <1>2, <1>5, <2>1
<1>6. CASE /\ ini.mgr = "crash" /\ ini' = [ini EXCEPT !.sent = @ \ {r}]
           /\ lock' = marked /\ responding' = r /\ UNCHANGED <<status, result>>
  <2>1. ini' \in IniType /\ ini'.mgr = "crash"
    BY <1>6 DEF IniType
  <2> QED BY <1>1, <1>2, <1>6, <2>1
<1>7. CASE lock' = marked /\ UNCHANGED <<ini, responding, status, result>>
  BY <1>1, <1>2, <1>7
<1> QED BY <1>3, <1>5, <1>6, <1>7

\* What A does when it hears from the chain: only locks under way change, they
\* are unlocked only when the secret is registered, and a failure is reported
\* only with the removal of a lock that may be removed.
Follows ==
    /\ ini' \in IniType
    /\ ini' = ini \/ (ini.mgr # "none" /\ ini'.mgr \in {"crash", "removed"})
    /\ lock' \in [R -> LockType]
    /\ \A q \in R : lock'[q].exp = lock[q].exp /\ (lock[q].st # "locked" => lock'[q] = lock[q])
    /\ registered = 0 =>
          \A q \in R : /\ lock'[q].onchain = lock[q].onchain
                       /\ lock'[q].st = "unlocked" => lock[q].st = "unlocked"
    /\ ini'.mgr = "initiator" => lock' = lock
    /\ status' \in {status, "failed"} /\ result' \in {result, "ok", "error"}
    /\ ini.mgr = "none" \/ ini'.mgr = "initiator" => status' = status /\ result' = result
    /\ Reported' /\ ~ Reported =>
          \/ \E q \in R : lock[q].st = "locked" /\ lock'[q].st = "removed"
          \/ ini.mgr = "initiator" /\ ~ Removable(ini.route)

\* expiredHashLockEvents, for locks that have at most been marked.
LEMMA ExpiredHandled ==
    ASSUME Types, ini.mgr = "initiator", ini.route \in R, ini' = Removed,
           NEW block, NEW locks \in [R -> LockType],
           \A q \in R : /\ locks[q].exp = lock[q].exp /\ locks[q].st = lock[q].st
                        /\ lock[q].st # "locked" => locks[q] = lock[q]
                        /\ registered = 0 => locks[q] = lock[q],
           expiredHashLockEvents(block, locks)
    PROVE  Follows
<1> USE DEF Types, PayerTypes
<1>1. ini' \in IniType /\ ini'.mgr = "removed"
  BY NoMachine
<1>2. CASE block - ForkConfirmNumber > ini.exp /\ ~ IsThisLockRemoved(ini.route)
  <2>1. lock' = (IF Removable(ini.route)
                 THEN [locks EXCEPT ![ini.route].st = "removed"] ELSE locks)
        /\ status' = "failed" /\ result' = IF result = "none" THEN "error" ELSE result
    BY <1>2 DEF expiredHashLockEvents, Failed
  <2>2. /\ lock' \in [R -> LockType]
        /\ \A q \in R : /\ lock'[q].exp = locks[q].exp
                        /\ lock'[q].onchain = locks[q].onchain
                        /\ lock'[q].st # "removed" => lock'[q] = locks[q]
                        /\ lock'[q] # locks[q] => q = ini.route
        /\ Removable(ini.route) => lock'[ini.route].st = "removed"
    BY <2>1 DEF LockType
  <2>3. \A q \in R : lock[q].st # "locked" => lock'[q] = lock[q]
    BY <2>1, <2>2 DEF Removable
  <2>4. registered = 0 =>
          \A q \in R : /\ lock'[q].onchain = lock[q].onchain
                       /\ lock'[q].st = "unlocked" => lock[q].st = "unlocked"
    BY <2>2
  <2>5. Removable(ini.route) => lock[ini.route].st = "locked" /\ lock'[ini.route].st = "removed"
    BY <2>2 DEF Removable
  <2> QED BY <1>1, <2>1, <2>2, <2>3, <2>4, <2>5 DEF Follows
<1>3. CASE ~(block - ForkConfirmNumber > ini.exp /\ ~ IsThisLockRemoved(ini.route))
  <2>1. lock' = locks /\ UNCHANGED <<status, result>>
    BY <1>3 DEF expiredHashLockEvents
  <2> QED BY <1>1, <2>1 DEF Follows, Reported
<1> QED BY <1>2, <1>3

LEMMA RegistrationHandled ==
    ASSUME Types, RouteInv, handleSecretRegisteredOnChainA
    PROVE  responding = 0 /\ registered # 0 /\ ini'.mgr # "initiator" /\ Follows
<1> USE DEF Types, PayerTypes
<1> DEFINE timely == {r \in Locked : lock[r].exp >= registered}
           marked == [r \in R |-> IF r \in timely THEN [lock[r] EXCEPT !.onchain = TRUE]
                                  ELSE lock[r]]
           unlocking == ini.sent \cap timely
<1>1. responding = 0 /\ registered # 0
  BY DEF handleSecretRegisteredOnChainA, Idle
<1>2. /\ marked \in [R -> LockType]
      /\ \A q \in R : /\ marked[q].exp = lock[q].exp /\ marked[q].st = lock[q].st
                      /\ lock[q].st # "locked" => marked[q] = lock[q]
  BY DEF LockType, Locked
<1>3. unlocking \subseteq R /\ \A q \in unlocking : lock[q].st = "locked"
  BY DEF Locked
<1>4. \/ /\ ini.mgr = "initiator" /\ ini' = Removed
         /\ expiredHashLockEvents(blk["A"], marked)
      \/ ini.mgr = "initiator" /\ transferSuccess(marked) /\ UNCHANGED status
      \/ /\ ini.mgr = "crash"
         /\ ini' = IF unlocking # {} /\ ini.sent = unlocking THEN Removed
                   ELSE [ini EXCEPT !.sent = @ \ unlocking]
         /\ lock' = [r \in R |-> IF r \in unlocking
                                 THEN [marked[r] EXCEPT !.st = "unlocked"] ELSE marked[r]]
         /\ UNCHANGED <<status, result>>
      \/ /\ ini.mgr \in {"none", "removed"} /\ lock' = marked
         /\ UNCHANGED <<ini, status, result>>
  BY DEF handleSecretRegisteredOnChainA
<1>5. Removed \in IniType /\ Removed.mgr = "removed"
  BY NoMachine
<1> HIDE DEF timely, marked, unlocking
<1>6. CASE /\ ini.mgr = "initiator" /\ ini' = Removed
           /\ expiredHashLockEvents(blk["A"], marked)
  <2>1. ini.route \in R
    BY <1>6 DEF RouteInv
  <2>2. Follows
    BY <1>1, <1>2, <1>6, <2>1, ExpiredHandled
  <2> QED BY <1>1, <1>5, <1>6, <2>2
<1>7. CASE ini.mgr = "initiator" /\ transferSuccess(marked) /\ UNCHANGED status
  <2>1. /\ ini.route \in R /\ ini' = Removed
        /\ lock' = IF marked[ini.route].st = "locked"
                   THEN [marked EXCEPT ![ini.route].st = "unlocked"] ELSE marked
        /\ result' = (IF result = "none" THEN "ok" ELSE result)
    BY <1>7 DEF RouteInv, transferSuccess
  <2>2. /\ lock' \in [R -> LockType]
        /\ \A q \in R : /\ lock'[q].exp = marked[q].exp
                        /\ marked[q].st # "locked" => lock'[q] = marked[q]
    <3> DEFINE new == [marked[ini.route] EXCEPT !.st = "unlocked"]
    <3>1. marked[ini.route] \in LockType
      BY <1>2, <2>1
    <3>2. new \in LockType /\ new.exp = marked[ini.route].exp
      BY <3>1 DEF LockType
    <3>3. lock' = IF marked[ini.route].st = "locked"
                  THEN [marked EXCEPT ![ini.route] = new] ELSE marked
      BY <2>1
    <3> HIDE DEF new
    <3> QED BY <1>2, <2>1, <3>2, <3>3
  <2>3. Reported' => Reported
    BY <1>7, <2>1 DEF Reported
  <2> QED BY <1>1, <1>2, <1>5, <1>7, <2>1, <2>2, <2>3 DEF Follows
<1>8. CASE /\ ini.mgr = "crash"
           /\ ini' = IF unlocking # {} /\ ini.sent = unlocking THEN Removed
                     ELSE [ini EXCEPT !.sent = @ \ unlocking]
           /\ lock' = [r \in R |-> IF r \in unlocking
                                   THEN [marked[r] EXCEPT !.st = "unlocked"] ELSE marked[r]]
           /\ UNCHANGED <<status, result>>
  <2>1. ini' \in IniType /\ ini'.mgr \in {"crash", "removed"}
    <3>1. CASE ini' = Removed
      BY <1>5, <3>1
    <3>2. CASE ini' = [ini EXCEPT !.sent = @ \ unlocking]
      BY <1>8, <3>2 DEF IniType
    <3> QED BY <1>8, <3>1, <3>2
  <2>2. /\ lock' \in [R -> LockType]
        /\ \A q \in R : lock'[q].exp = marked[q].exp
                        /\ (q \notin unlocking => lock'[q] = marked[q])
    <3> DEFINE new(r) == [marked[r] EXCEPT !.st = "unlocked"]
    <3>1. \A r \in R : new(r) \in LockType /\ new(r).exp = marked[r].exp
      <4> SUFFICES ASSUME NEW r \in R
                   PROVE  new(r) \in LockType /\ new(r).exp = marked[r].exp
        OBVIOUS
      <4>1. marked[r] \in LockType
        BY <1>2
      <4> QED BY <4>1 DEF LockType
    <3>2. lock' = [r \in R |-> IF r \in unlocking THEN new(r) ELSE marked[r]]
      BY <1>8
    <3> HIDE DEF new
    <3> QED BY <1>2, <3>1, <3>2
  <2>3. Reported' => Reported
    BY <1>8 DEF Reported
  <2> QED BY <1>1, <1>2, <1>3, <1>8, <2>1, <2>2, <2>3 DEF Follows
<1>9. CASE /\ ini.mgr \in {"none", "removed"} /\ lock' = marked
           /\ UNCHANGED <<ini, status, result>>
  <2>1. Reported' => Reported
    BY <1>9 DEF Reported
  <2> QED BY <1>1, <1>2, <1>9, <2>1 DEF Follows
<1> QED BY <1>4, <1>6, <1>7, <1>8, <1>9

LEMMA BlockHandled ==
    ASSUME Types, RouteInv, handleBlockA
    PROVE  /\ responding = 0 /\ blk' \in [{"A", "T"} -> 1..height] /\ blk'["T"] = blk["T"]
           /\ Follows
<1> USE DEF Types, PayerTypes
<1> DEFINE expired == {r \in ini.sent : blk'["A"] - ForkConfirmNumber > lock[r].exp}
           removed == {r \in expired : Removable(r)}
<1>1. responding = 0 /\ blk["A"] < height /\ blk' = [blk EXCEPT !["A"] = @ + 1]
  BY DEF handleBlockA, Idle, NextBlock
<1>2. blk' \in [{"A", "T"} -> 1..height] /\ blk'["T"] = blk["T"]
  BY <1>1 DEF OtherTypes
<1>3. \/ /\ ini.mgr = "initiator" /\ ini' = Removed
         /\ expiredHashLockEvents(blk'["A"], lock)
      \/ /\ ini.mgr = "crash"
         /\ ini' = IF ini.sent = expired THEN Removed ELSE [ini EXCEPT !.sent = @ \ expired]
         /\ lock' = [r \in R |-> IF r \in removed THEN [lock[r] EXCEPT !.st = "removed"]
                                 ELSE lock[r]]
         /\ status' = (IF removed # {} THEN "failed" ELSE status) /\ UNCHANGED result
      \/ UNCHANGED <<ini, lock, status, result>>
  BY DEF handleBlockA
<1>4. Removed \in IniType /\ Removed.mgr = "removed"
  BY NoMachine
<1>5. removed \subseteq R /\ \A q \in removed : lock[q].st = "locked"
  BY DEF Removable, IniType
<1> HIDE DEF expired, removed
<1>6. CASE /\ ini.mgr = "initiator" /\ ini' = Removed
           /\ expiredHashLockEvents(blk'["A"], lock)
  <2>1. ini.route \in R
    BY <1>6 DEF RouteInv
  <2>2. Follows
    BY <1>6, <2>1, ExpiredHandled
  <2> QED BY <1>1, <1>2, <2>2
<1>7. CASE /\ ini.mgr = "crash"
           /\ ini' = IF ini.sent = expired THEN Removed ELSE [ini EXCEPT !.sent = @ \ expired]
           /\ lock' = [r \in R |-> IF r \in removed THEN [lock[r] EXCEPT !.st = "removed"]
                                   ELSE lock[r]]
           /\ status' = (IF removed # {} THEN "failed" ELSE status) /\ UNCHANGED result
  <2>1. ini' \in IniType /\ ini'.mgr \in {"crash", "removed"}
    BY <1>4, <1>7 DEF IniType
  <2>2. /\ lock' \in [R -> LockType]
        /\ \A q \in R : /\ lock'[q].exp = lock[q].exp /\ lock'[q].onchain = lock[q].onchain
                        /\ q \notin removed => lock'[q] = lock[q]
                        /\ q \in removed => lock'[q].st = "removed"
    BY <1>7 DEF LockType
  <2>3. Reported' /\ ~ Reported =>
            \E q \in R : lock[q].st = "locked" /\ lock'[q].st = "removed"
    BY <1>5, <1>7, <2>2 DEF Reported
  <2> QED BY <1>1, <1>2, <1>5, <1>7, <2>1, <2>2, <2>3 DEF Follows
<1>8. CASE UNCHANGED <<ini, lock, status, result>>
  BY <1>1, <1>2, <1>8 DEF Follows, Reported
<1> QED BY <1>3, <1>6, <1>7, <1>8

-----------------------------------------------------------------------------
(***************************************************************************)
(* Every step keeps the types, who has the secret, and the routes.         *)
(***************************************************************************)
CoreInv == Types /\ SecretInv /\ RouteInv

\* A message or a user changes A's machine, and nothing else.
PayerOnly == UNCHANGED <<tgtVars, msgVars, chainVars, deadline, safe, bookVars>>

LEMMA PayerFrame ==
    ASSUME Types, PayerOnly
    PROVE  /\ R' = R /\ Routes' \in RouteLists /\ TargetTypes' /\ OtherTypes'
           /\ IniType' = IniType
           /\ UNCHANGED <<secretOut, revealing, told, tgt, tlock, deadline, registered, height,
                          blk, safe, Routes>>
<1>1. UNCHANGED <<secretOut, revealing, told, tgt, tlock, deadline, registered, height,
                  blk, safe, Routes, requests, answered, seen, crashes>>
  BY DEF PayerOnly, tgtVars, msgVars, chainVars, bookVars
<1>2. R' = R /\ IniType' = IniType /\ TgtType' = TgtType
  BY <1>1 DEF R, IniType, TgtType
<1> QED BY <1>1, <1>2 DEF Types, TargetTypes, OtherTypes

\* SecretInv is kept when no lock is marked or unlocked before the secret is out.
LEMMA PayerSecret ==
    ASSUME Types, PayerOnly, SecretInv,
           ~ secretOut => \A q \in R : ~ lock'[q].onchain /\ lock'[q].st # "unlocked"
    PROVE  SecretInv'
  BY PayerFrame DEF SecretInv, Unsent

LEMMA StartInv ==
    ASSUME CoreInv, startMediatedTransfer
    PROVE  CoreInv'
<1> USE DEF CoreInv
<1>1. /\ ini.mgr = "none" /\ tryNewRoute(1, lock)
      /\ PayerOnly /\ UNCHANGED responding
  BY DEF startMediatedTransfer, PayerOnly
<1>2. lock \in [R -> LockType]
  BY DEF Types, PayerTypes
<1>3. /\ \A r \in R : lock[r].st = "none" /\ ~ lock[r].onchain
      /\ ~ secretOut /\ responding = 0 /\ ini.reveal = FALSE
  BY <1>1 DEF RouteInv, NoLock, NoInitiator
<1>4. (GivesUp(lock) /\ SkipUnusable(1) = 0) \/ Tries(1, lock)
  BY <1>1, <1>2, NewRoute
<1>5. CASE GivesUp(lock)
  <2>1. ini' \in IniType /\ ini'.mgr = "removed" /\ lock' = lock
    BY <1>5, NoMachine DEF GivesUp, Types
  <2>2. Types'
    BY <1>1, <1>5, <2>1, PayerFrame DEF Types, PayerTypes, GivesUp
  <2>3. SecretInv'
    BY <1>1, <1>3, <2>1, PayerSecret
  <2>4. RouteInv'
    BY <1>1, <1>3, <2>1, PayerFrame DEF RouteInv, Taken
  <2> QED BY <2>2, <2>3, <2>4
<1>6. CASE Tries(1, lock)
  <2>1. PICK r \in R :
          /\ ini' \in IniType
          /\ ini'.mgr = "initiator" /\ ini'.route = r /\ ini'.next = r + 1
          /\ lock' \in [R -> LockType]
          /\ \A q \in R \ {r} : lock'[q] = lock[q]
          /\ (lock'[r].st = "locked" /\ ~ lock'[r].onchain) \/ lock'[r] = lock[r]
          /\ status' \in {status, "canCancel"} /\ result' = result
    BY <1>6 DEF Tries
  <2>2. Types'
    BY <1>1, <2>1, PayerFrame DEF Types, PayerTypes
  <2>3. SecretInv'
    BY <1>1, <1>3, <2>1, PayerSecret
  <2>4. r # 0
    BY RouteFacts DEF Types
  <2>5. RouteInv'
    BY <1>1, <1>3, <2>1, <2>4, PayerFrame DEF RouteInv, Taken
  <2> QED BY <2>2, <2>3, <2>5
<1> QED BY <1>4, <1>5, <1>6

LEMMA CancelInv ==
    ASSUME CoreInv, cancelTransfer
    PROVE  CoreInv'
<1> USE DEF CoreInv
<1>1. /\ ini.mgr = "initiator" /\ ini' = [ini EXCEPT !.secret = FALSE]
      /\ status' = "canceled" /\ result' = IF result = "none" THEN "error" ELSE result
      /\ PayerOnly /\ UNCHANGED <<lock, responding>>
  BY DEF cancelTransfer, PayerOnly
<1>2. ini \in IniType /\ lock \in [R -> LockType]
  BY DEF Types, PayerTypes
<1>3. /\ ini' \in IniType /\ ini'.mgr = ini.mgr /\ ini'.route = ini.route
      /\ ini'.next = ini.next /\ ini'.exp = ini.exp /\ ini'.reveal = ini.reveal
  BY <1>1, <1>2 DEF IniType
<1>4. Types'
  BY <1>1, <1>3, PayerFrame DEF Types, PayerTypes
<1>5. SecretInv'
  <2>1. ~ secretOut => \A q \in R : ~ lock'[q].onchain /\ lock'[q].st # "unlocked"
    BY <1>1 DEF SecretInv, Unsent
  <2> QED BY <1>1, <2>1, PayerSecret
<1>6. RouteInv'
  BY <1>1, <1>3, PayerFrame DEF RouteInv, Taken
<1> QED BY <1>4, <1>5, <1>6

LEMMA AcknowledgedInv ==
    ASSUME CoreInv, unlockAcknowledged
    PROVE  CoreInv'
<1> USE DEF CoreInv
<1>1. /\ status' = "success" /\ PayerOnly /\ UNCHANGED <<ini, lock, responding, result>>
      /\ \E r \in R : lock[r].st = "unlocked"
  BY DEF unlockAcknowledged, PayerOnly
<1>2. Types'
  BY <1>1, PayerFrame DEF Types, PayerTypes
<1>3. SecretInv'
  <2>1. ~ secretOut => \A q \in R : ~ lock'[q].onchain /\ lock'[q].st # "unlocked"
    BY <1>1 DEF SecretInv, Unsent
  <2> QED BY <1>1, <2>1, PayerSecret
<1>4. RouteInv'
  BY <1>1, PayerFrame DEF RouteInv, Taken, NoLock
<1> QED BY <1>2, <1>3, <1>4

\* Whoever sends the secret back has it from A.
LEMMA RevealedInv ==
    ASSUME CoreInv, NEW r \in R, messageRevealSecret(r)
    PROVE  CoreInv' /\ secretOut
<1> USE DEF CoreInv
<1>1. /\ ini.mgr = "initiator" /\ r = ini.route /\ PayerOnly
      /\ ini' = Removed
      /\ lock' = IF lock[r].st = "locked" THEN [lock EXCEPT ![r].st = "unlocked"] ELSE lock
      /\ result' = (IF result = "none" THEN "ok" ELSE result)
      /\ UNCHANGED <<status, responding>>
      /\ r \in told \/ MediatorKnows
  BY DEF messageRevealSecret, transferSuccess, PayerOnly
<1>2. secretOut
  BY <1>1 DEF MediatorKnows, SecretInv, Unsent
<1>3. /\ lock' \in [R -> LockType]
      /\ \A q \in R : lock[q].st # "locked" => lock'[q] = lock[q]
  BY <1>1 DEF Types, PayerTypes, LockType
<1>4. ini' \in IniType /\ ini'.mgr = "removed"
  BY <1>1, NoMachine DEF Types
<1>5. Types'
  BY <1>1, <1>3, <1>4, PayerFrame DEF Types, PayerTypes
<1>6. SecretInv'
  BY <1>1, <1>2, PayerSecret
<1>7. \A q \in R : Taken(q)' => Taken(q)
  BY <1>3 DEF Taken
<1>8. RouteInv'
  BY <1>1, <1>2, <1>4, <1>7, PayerFrame DEF RouteInv
<1> QED BY <1>2, <1>5, <1>6, <1>8

LEMMA DisposalInv ==
    ASSUME CoreInv, NEW r \in R, messageAnnounceDisposed(r)
    PROVE  CoreInv'
<1> USE DEF CoreInv
<1>1. responding = 0 /\ lock[r].st = "locked"
  BY DisposalHandled
<1>2. PICK marked :
         /\ Marked(marked)
         /\ \/ /\ RefundAccepted(r) /\ responding' = r
               /\ \/ GivesUp(marked) /\ SkipUnusable(ini.next) = 0
                  \/ Tries(ini.next, marked)
            \/ /\ ini.mgr = "crash" /\ ini' \in IniType /\ ini'.mgr = "crash"
               /\ lock' = marked /\ responding' = r
               /\ UNCHANGED <<status, result>>
            \/ /\ lock' = marked
               /\ UNCHANGED <<ini, responding, status, result>>
  BY DisposalHandled
<1>3. PayerOnly
  BY DEF messageAnnounceDisposed, PayerOnly
<1>4. /\ marked \in [R -> LockType]
      /\ \A q \in R : /\ marked[q].st = lock[q].st /\ marked[q].exp = lock[q].exp
                      /\ marked[q].onchain = lock[q].onchain
  BY <1>2 DEF Marked
<1>5. ~ secretOut => \A q \in R : ~ marked[q].onchain /\ marked[q].st # "unlocked"
  BY <1>4 DEF SecretInv, Unsent
<1>6. r \in 0..Len(Routes) /\ r # 0 /\ ini.mgr # "none"
  BY <1>1, RouteFacts DEF Types, RouteInv, NoLock
<1>7. CASE lock' = marked /\ UNCHANGED <<ini, responding, status, result>>
  <2>1. Types'
    BY <1>3, <1>4, <1>7, PayerFrame DEF Types, PayerTypes
  <2>2. SecretInv'
    BY <1>3, <1>5, <1>7, PayerSecret
  <2>3. \A q \in R : Taken(q)' <=> Taken(q)
    BY <1>4, <1>7 DEF Taken
  <2>4. RouteInv'
    BY <1>3, <1>4, <1>6, <1>7, <2>3, PayerFrame DEF RouteInv
  <2> QED BY <2>1, <2>2, <2>4
<1>8. CASE /\ ini' \in IniType /\ ini'.mgr \in {"crash", "removed"}
           /\ lock' = marked /\ responding' = r
           /\ status' \in {status, "failed"} /\ result' \in {result, "error"}
  <2>1. Types'
    BY <1>3, <1>4, <1>6, <1>8, PayerFrame DEF Types, PayerTypes
  <2>2. SecretInv'
    BY <1>3, <1>5, <1>8, PayerSecret
  <2>3. \A q \in R : Taken(q)' <=> Taken(q)
    BY <1>4, <1>8 DEF Taken
  <2>4. RouteInv'
    BY <1>3, <1>4, <1>8, <2>3, PayerFrame DEF RouteInv
  <2> QED BY <2>1, <2>2, <2>4
<1>9. CASE RefundAccepted(r) /\ responding' = r /\ Tries(ini.next, marked)
  <2>1. /\ ini.mgr = "initiator" /\ ~ ini.reveal /\ r = ini.route /\ ini.next = r + 1
        /\ ~ secretOut /\ \A q \in R : Taken(q) => q = r
        /\ \A q \in R : ~ lock[q].onchain
    BY <1>1, <1>6, <1>9, RouteFacts DEF RefundAccepted, RouteInv, Types
  <2>2. PICK p \in R :
          /\ p >= ini.next
          /\ ini' \in IniType
          /\ ini'.mgr = "initiator" /\ ini'.route = p /\ ini'.next = p + 1
          /\ lock' \in [R -> LockType]
          /\ \A q \in R \ {p} : lock'[q] = marked[q]
          /\ (lock'[p].st = "locked" /\ ~ lock'[p].onchain) \/ lock'[p] = marked[p]
          /\ status' \in {status, "canCancel"} /\ result' = result
    BY <1>9 DEF Tries
  <2>3. p # r /\ p # 0
    BY <2>1, <2>2, RouteFacts DEF Types
  <2>4. Types'
    BY <1>3, <1>6, <1>9, <2>2, PayerFrame DEF Types, PayerTypes
  <2>5. \A q \in R : ~ lock'[q].onchain /\ lock'[q].st # "unlocked"
    BY <1>4, <1>5, <2>1, <2>2
  <2>6. SecretInv'
    BY <1>3, <2>5, PayerSecret
  <2>7. \A q \in R : Taken(q)' => q \in {p, r}
    BY <1>4, <2>1, <2>2 DEF Taken
  <2>8. RouteInv'
    BY <1>3, <1>9, <2>1, <2>2, <2>3, <2>5, <2>7, PayerFrame DEF RouteInv
  <2> QED BY <2>4, <2>6, <2>8
<1>10. Removed \in IniType /\ Removed.mgr = "removed"
  BY NoMachine DEF Types
<1> QED BY <1>2, <1>7, <1>8, <1>9, <1>10 DEF GivesUp

LEMMA ResponseInv ==
    ASSUME CoreInv, eventSendAnnouncedDisposedResponse
    PROVE  CoreInv' /\ \A q \in R : Taken(q)' => Taken(q)
<1> USE DEF CoreInv
<1>1. /\ responding # 0 /\ responding' = 0 /\ PayerOnly /\ UNCHANGED <<ini, status, result>>
      /\ lock' = IF Removable(responding)
                 THEN [lock EXCEPT ![responding].st = "removed"] ELSE lock
  BY DEF eventSendAnnouncedDisposedResponse, PayerOnly
<1>2. responding \in R
  BY <1>1, RouteFacts DEF Types, PayerTypes, R
<1>3. /\ lock' \in [R -> LockType]
      /\ \A q \in R : /\ lock'[q].exp = lock[q].exp /\ lock'[q].onchain = lock[q].onchain
                      /\ q # responding => lock'[q] = lock[q]
                      /\ lock'[q].st # "removed" => lock'[q] = lock[q]
      /\ Removable(responding) => lock'[responding].st = "removed"
  BY <1>1, <1>2 DEF Types, PayerTypes, LockType
<1>4. Types'
  BY <1>1, <1>3, PayerFrame DEF Types, PayerTypes
<1>5. SecretInv'
  <2>1. ~ secretOut => \A q \in R : ~ lock'[q].onchain /\ lock'[q].st # "unlocked"
    BY <1>3 DEF SecretInv, Unsent
  <2> QED BY <1>1, <2>1, PayerSecret
<1>6. \A q \in R : Taken(q)' => Taken(q)
  BY <1>3 DEF Taken
<1>7. ini.mgr = "initiator" => \A q \in R : q = responding => ~ Taken(q)'
  <2>1. ini.mgr = "initiator" => lock[responding].st # "unlocked" /\ ~ lock[responding].onchain
    BY <1>1, <1>2 DEF RouteInv, SecretInv, Unsent
  <2> QED BY <1>2, <1>3, <2>1 DEF Removable, Taken
<1>8. RouteInv'
  <2>1. ini.mgr = "initiator" => ini.route # 0
    BY RouteFacts DEF RouteInv, Types
  <2> QED BY <1>1, <1>2, <1>3, <1>6, <1>7, <2>1, PayerFrame DEF RouteInv
<1> QED BY <1>4, <1>5, <1>6, <1>8

LEMMA RequestInv ==
    ASSUME CoreInv, NEW ok \in BOOLEAN, messageSecretRequest(ok)
    PROVE  CoreInv'
<1> USE DEF CoreInv
<1> USE RequestHandled
<1>1. UNCHANGED <<tgt, tlock, told, deadline, registered, height, blk, safe, Routes, seen, crashes>>
  BY DEF messageSecretRequest, tgtVars, chainVars, bookVars
<1>2. /\ R' = R /\ IniType' = IniType /\ TgtType' = TgtType
      /\ secretOut \in BOOLEAN /\ revealing \in BOOLEAN /\ ini.secret \in BOOLEAN
  BY <1>1 DEF R, IniType, TgtType, Types, PayerTypes, OtherTypes
<1>3. PayerTypes'
  BY <1>1, <1>2 DEF Types, PayerTypes
<1>4. OtherTypes'
  BY <1>1, <1>2 DEF Types, OtherTypes
<1>5. TargetTypes' /\ Routes' \in RouteLists
  BY <1>1, <1>2 DEF Types, TargetTypes
<1>6. SecretInv'
  BY <1>1, <1>2 DEF SecretInv, Unsent
<1>7. \A q \in R : Taken(q)' <=> Taken(q)
  BY DEF Taken
<1>8. RouteInv'
  <2>1. CASE secretOut' = secretOut
    BY <1>1, <1>2, <1>7, <2>1 DEF RouteInv
  <2>2. CASE secretOut' # secretOut
    <3>1. ini.mgr = "initiator" /\ ini'.reveal
      BY <2>2
    <3>2. \A q \in R : Taken(q) => q = ini.route
      <4>1. responding = 0
        OBVIOUS
      <4>2. \A q \in R : q # 0
        BY RouteFacts DEF Types
      <4> QED BY <3>1, <4>1, <4>2 DEF RouteInv
    <3>3. ini.route \in R /\ ini.next = ini.route + 1 /\ responding = 0 /\ ini.route # 0
          /\ lock[ini.route].st # "unlocked"
          /\ (\A q \in R : ~ lock[q].onchain)
          /\ (tgt.mgr = "target" => tgt.route \in R)
      BY <3>1, RouteFacts DEF RouteInv, Types
    <3>4. ini'.mgr = "initiator" /\ responding' = 0 /\ lock' = lock /\ ini'.route = ini.route
          /\ ini'.next = ini.next /\ ini'.exp = ini.exp
      BY <3>1, <3>3
    <3> QED BY <1>1, <1>2, <1>7, <3>1, <3>2, <3>3, <3>4 DEF RouteInv
  <2> QED BY <2>1, <2>2
<1> QED BY <1>3, <1>4, <1>5, <1>6, <1>8 DEF Types

\* What A hears from the chain.
LEMMA FollowInv ==
    ASSUME CoreInv, Follows, responding = 0, UNCHANGED responding,
           UNCHANGED <<secretOut, revealing, told, tgt, tlock, deadline, registered, Routes>>
    PROVE  /\ PayerTypes' /\ SecretInv' /\ RouteInv' /\ R' = R
           /\ \A q \in R : Taken(q)' => Taken(q)
<1> USE DEF CoreInv
<1>1. R' = R /\ IniType' = IniType
  BY DEF R, IniType
<1>2. PayerTypes'
  BY <1>1 DEF Types, PayerTypes, Follows
<1>3. SecretInv'
  BY <1>1 DEF SecretInv, Unsent, Follows
<1>4. \A q \in R : Taken(q)' => Taken(q)
  BY DEF Taken, Follows
<1>5. CASE ini'.mgr = "none"
  <2>1. ini' = ini /\ ini.mgr = "none" /\ status' = status /\ result' = result
    BY <1>5 DEF Follows
  <2>2. \A q \in R : lock'[q] = NoLock
    BY <2>1 DEF Follows, RouteInv, NoLock
  <2>3. RouteInv'
    BY <1>1, <1>4, <1>5, <2>1, <2>2 DEF RouteInv
  <2> QED BY <1>1, <1>2, <1>3, <1>4, <2>3
<1>6. CASE ini'.mgr = "initiator"
  <2>1. ini' = ini /\ lock' = lock
    BY <1>6 DEF Follows
  <2>2. RouteInv'
    BY <1>1, <1>4, <1>6, <2>1 DEF RouteInv
  <2> QED BY <1>1, <1>2, <1>3, <1>4, <2>2
<1>7. CASE ini'.mgr \notin {"none", "initiator"}
  <2>1. RouteInv'
    BY <1>1, <1>4, <1>7 DEF RouteInv
  <2> QED BY <1>1, <1>2, <1>3, <1>4, <2>1
<1> QED BY <1>5, <1>6, <1>7

LEMMA RegistrationInv ==
    ASSUME CoreInv, handleSecretRegisteredOnChainA
    PROVE  CoreInv' /\ \A q \in R : Taken(q)' => Taken(q)
<1> USE DEF CoreInv
<1>1. /\ seen' = seen \cup {"A"}
      /\ UNCHANGED <<responding, secretOut, revealing, told, tgt, tlock, deadline, registered,
                     Routes, requests, answered, height, blk, safe, crashes>>
  BY DEF handleSecretRegisteredOnChainA, tgtVars, msgVars, bookVars
<1>2. responding = 0 /\ Follows
  BY RegistrationHandled
<1>3. /\ PayerTypes' /\ SecretInv' /\ RouteInv' /\ R' = R
      /\ \A q \in R : Taken(q)' => Taken(q)
  BY <1>1, <1>2, FollowInv
<1>4. TargetTypes' /\ OtherTypes'
  BY <1>1, <1>3 DEF Types, TargetTypes, OtherTypes, TgtType
<1> QED BY <1>1, <1>3, <1>4 DEF Types

LEMMA BlockInv ==
    ASSUME CoreInv, handleBlockA
    PROVE  CoreInv' /\ \A q \in R : Taken(q)' => Taken(q)
<1> USE DEF CoreInv
<1>1. UNCHANGED <<responding, secretOut, revealing, told, tgt, tlock, deadline, registered,
                  Routes, requests, answered, height, seen, safe, crashes>>
  BY DEF handleBlockA, tgtVars, msgVars, bookVars
<1>2. responding = 0 /\ Follows /\ blk' \in [{"A", "T"} -> 1..height]
  BY BlockHandled
<1>3. /\ PayerTypes' /\ SecretInv' /\ RouteInv' /\ R' = R
      /\ \A q \in R : Taken(q)' => Taken(q)
  BY <1>1, <1>2, FollowInv
<1>4. TargetTypes' /\ OtherTypes'
  BY <1>1, <1>2, <1>3 DEF Types, TargetTypes, OtherTypes, TgtType
<1> QED BY <1>1, <1>3, <1>4 DEF Types

LEMMA RestartInv ==
    ASSUME CoreInv, restoreLocksA
    PROVE  CoreInv' /\ ini'.mgr \in {"crash", "removed"}
<1> USE DEF CoreInv
<1>1. /\ ini' = IF Locked = {} THEN Removed
                ELSE [NoInitiator EXCEPT !.mgr = "crash", !.sent = Locked]
      /\ responding' = 0 /\ revealing' = FALSE
      /\ result' = IF result = "none" THEN "lost" ELSE result
      /\ seen' = seen \ {"A"} /\ crashes < MaxCrashes /\ crashes' = crashes + 1
      /\ UNCHANGED <<lock, status, secretOut, told, tgt, tlock, deadline, registered,
                     Routes, requests, answered, height, blk, safe>>
  BY DEF restoreLocksA, tgtVars
<1>2. R' = R /\ IniType' = IniType /\ TgtType' = TgtType
  BY <1>1 DEF R, IniType, TgtType
<1>3. ini' \in IniType /\ ini'.mgr \in {"crash", "removed"}
  <2>1. NoInitiator \in IniType /\ Removed \in IniType /\ Removed.mgr = "removed"
    BY NoMachine DEF Types
  <2>2. Locked \in SUBSET R
    BY DEF Locked
  <2>3. /\ [NoInitiator EXCEPT !.mgr = "crash", !.sent = Locked] \in IniType
        /\ [NoInitiator EXCEPT !.mgr = "crash", !.sent = Locked].mgr = "crash"
    BY <2>1, <2>2 DEF IniType
  <2> QED BY <1>1, <2>1, <2>3
<1>4. PayerTypes'
  BY <1>1, <1>2, <1>3, RouteFacts DEF Types, PayerTypes
<1>5. TargetTypes' /\ OtherTypes'
  <2>1. crashes' \in 0..MaxCrashes /\ seen' \subseteq {"A", "T"}
    BY <1>1, PaymentAssumption DEF Types, OtherTypes
  <2> QED BY <1>1, <1>2, <2>1 DEF Types, TargetTypes, OtherTypes
<1>6. SecretInv'
  BY <1>1, <1>2 DEF SecretInv, Unsent
<1>7. RouteInv'
  BY <1>1, <1>2, <1>3 DEF RouteInv, Taken
<1> QED BY <1>1, <1>3, <1>4, <1>5, <1>6, <1>7 DEF Types

\* A step of T or of the chain leaves A alone.
LEMMA TargetFrame ==
    ASSUME Types, RouteInv, UNCHANGED iniVars, UNCHANGED <<Routes, secretOut>>,
           tgt'.mgr = "target" => tgt'.route \in R
    PROVE  /\ R' = R /\ Routes' \in RouteLists /\ PayerTypes' /\ RouteInv'
           /\ TgtType' = TgtType /\ lock' = lock
<1>1. UNCHANGED <<ini, lock, responding, status, result>>
  BY DEF iniVars
<1>2. R' = R /\ IniType' = IniType /\ TgtType' = TgtType
  BY DEF R, IniType, TgtType
<1>3. PayerTypes'
  BY <1>1, <1>2 DEF Types, PayerTypes
<1>4. RouteInv'
  BY <1>1, <1>2 DEF RouteInv, Taken
<1> QED BY <1>1, <1>2, <1>3, <1>4 DEF Types

\* What T's handlers do to its machine and its locks.
LEMMA TransferHandled ==
    ASSUME CoreInv, NEW r \in R, NEW ok \in BOOLEAN, messageMediatedTransfer(r, ok)
    PROVE  /\ CoreInv' /\ R' = R /\ tlock[r].st = "none" /\ tlock'[r].st = "locked"
           /\ \A q \in R \ {r} : tlock'[q] = tlock[q]
           /\ \/ tgt' = tgt
              \/ tgt.mgr = "none" /\ tgt'.mgr = "target" /\ tgt'.received = {}
           /\ UNCHANGED <<told, deadline, registered, height, blk, safe>>
<1> USE DEF CoreInv
<1> DEFINE exp == lock[r].exp - (IF Routes[r].direct THEN 0 ELSE Routes[r].margin)
           asks == tgt.mgr = "none" /\ IsSafeToWait(exp, blk["T"])
           new == [st |-> "locked", exp |-> exp, known |-> FALSE, saved |-> asks]
<1>1. /\ tlock[r].st = "none" /\ tlock' = [tlock EXCEPT ![r] = new]
      /\ \/ UNCHANGED tgt
         \/ /\ tgt.mgr = "none"
            /\ tgt' = [NoTarget EXCEPT !.mgr = "target", !.route = r]
      /\ requests' \in {requests, requests \cup {ok}}
      /\ UNCHANGED <<iniVars, told, answered, revealing, secretOut, height, blk, registered, seen,
                     deadline, safe, Routes, crashes>>
  BY DEF messageMediatedTransfer, chainVars, bookVars
<1>2. new \in TLockType
  <2>1. lock[r].exp \in Nat /\ Routes[r].margin \in Nat
    BY RouteFacts DEF Types, PayerTypes, LockType, RouteType
  <2>2. exp \in Int
    BY <2>1
  <2>3. asks \in BOOLEAN
    BY DEF IsSafeToWait
  <2> HIDE DEF exp, asks
  <2> QED BY <2>2, <2>3 DEF TLockType
<1>3. new.st = "locked" /\ new.known = FALSE
  OBVIOUS
<1> HIDE DEF new
<1>4. /\ tlock' \in [R -> TLockType] /\ tlock'[r] = new
      /\ \A q \in R \ {r} : tlock'[q] = tlock[q]
  BY <1>1, <1>2 DEF Types, TargetTypes
<1>5. /\ tgt' \in TgtType /\ (tgt'.mgr = "target" => tgt'.route \in R)
      /\ \/ tgt' = tgt
         \/ tgt.mgr = "none" /\ tgt'.mgr = "target" /\ tgt'.received = {} /\ ~ tgt'.secret
  <2>1. r \in 0..Len(Routes) /\ NoTarget \in TgtType /\ tgt \in TgtType
    BY RouteFacts, NoMachine DEF Types, TargetTypes
  <2>2. CASE tgt' = tgt
    BY <2>1, <2>2 DEF RouteInv
  <2>3. CASE /\ tgt.mgr = "none"
             /\ tgt' = [NoTarget EXCEPT !.mgr = "target", !.route = r]
    BY <2>1, <2>3 DEF TgtType, NoTarget
  <2> QED BY <1>1, <2>2, <2>3
<1>6. /\ R' = R /\ Routes' \in RouteLists /\ PayerTypes' /\ RouteInv'
      /\ TgtType' = TgtType /\ lock' = lock
  BY <1>1, <1>5, TargetFrame
<1>7. TargetTypes' /\ OtherTypes'
  BY <1>1, <1>4, <1>5, <1>6 DEF Types, TargetTypes, OtherTypes
<1>8. SecretInv'
  BY <1>1, <1>3, <1>4, <1>5, <1>6 DEF SecretInv, Unsent
<1> QED BY <1>1, <1>3, <1>4, <1>5, <1>6, <1>7, <1>8 DEF Types

LEMMA SecretHandled ==
    ASSUME CoreInv, messageRevealSecretT
    PROVE  /\ CoreInv' /\ R' = R
           /\ \A q \in R : /\ tlock'[q].st = tlock[q].st /\ tlock'[q].exp = tlock[q].exp
                           /\ tlock[q].known \/ tlock[q].st = "locked" => tlock'[q].known
           /\ tgt'.mgr = tgt.mgr /\ tgt'.route = tgt.route /\ tgt'.received = tgt.received
           /\ \/ tgt' = tgt
              \/ tgt'.secret /\ ~ tgt'.wait
           /\ tgt.mgr = "target" /\ blk["T"] <= tlock[tgt.route].exp =>
                 tgt'.secret /\ ~ tgt'.wait
           /\ safe' = safe \cup {r \in Managed : IsSafeToWait(tlock[r].exp, blk["T"])}
           /\ UNCHANGED <<deadline, registered, height, blk>>
<1> USE DEF CoreInv
<1> DEFINE tells == tgt.mgr = "target" /\ blk["T"] <= tlock[tgt.route].exp
<1>1. /\ revealing /\ revealing' = FALSE
      /\ tlock' = [r \in R |-> [tlock[r] EXCEPT !.known = @ \/ r \in TLocked]]
      /\ tgt' = IF tells THEN [tgt EXCEPT !.secret = TRUE, !.wait = FALSE] ELSE tgt
      /\ told' = IF tells THEN told \cup {tgt.route} ELSE told
      /\ safe' = safe \cup {r \in Managed : IsSafeToWait(tlock[r].exp, blk["T"])}
      /\ UNCHANGED <<iniVars, requests, answered, secretOut, height, blk, registered, seen,
                     deadline, Routes, crashes>>
  BY DEF messageRevealSecretT, chainVars, bookVars
<1>2. secretOut
  BY <1>1 DEF SecretInv, Unsent
<1>3. /\ tlock' \in [R -> TLockType]
      /\ \A q \in R : /\ tlock'[q].st = tlock[q].st /\ tlock'[q].exp = tlock[q].exp
                      /\ tlock[q].known \/ tlock[q].st = "locked" => tlock'[q].known
  BY <1>1 DEF Types, TargetTypes, TLockType, TLocked
<1>4. tgt \in TgtType
  BY DEF Types, TargetTypes
<1>5. /\ tgt' \in TgtType /\ tgt'.mgr = tgt.mgr /\ tgt'.route = tgt.route
      /\ tgt'.received = tgt.received
      /\ tells => tgt'.secret /\ ~ tgt'.wait
      /\ ~ tells => tgt' = tgt
  <2> HIDE DEF tells
  <2> QED BY <1>1, <1>4 DEF TgtType
<1>6. tgt'.mgr = "target" => tgt'.route \in R
  BY <1>5 DEF RouteInv
<1>7. /\ R' = R /\ Routes' \in RouteLists /\ PayerTypes' /\ RouteInv'
      /\ TgtType' = TgtType /\ lock' = lock
  BY <1>1, <1>6, TargetFrame
<1>8. told' \subseteq R /\ safe' \subseteq R
  <2>1. Managed \subseteq R
    BY <1>4 DEF Managed, TgtType, TLocked
  <2>2. tells => tgt.route \in R
    BY DEF RouteInv
  <2> QED BY <1>1, <2>1, <2>2 DEF Types, TargetTypes, OtherTypes
<1>9. TargetTypes' /\ OtherTypes'
  BY <1>1, <1>3, <1>5, <1>7, <1>8 DEF Types, TargetTypes, OtherTypes
<1>10. SecretInv'
  BY <1>1, <1>2 DEF SecretInv
<1> QED BY <1>1, <1>3, <1>5, <1>7, <1>9, <1>10 DEF Types

LEMMA UnlockHandled ==
    ASSUME CoreInv, NEW r \in R, messageUnlockT(r)
    PROVE  /\ CoreInv' /\ R' = R /\ tlock'[r].st = "unlocked" /\ tlock'[r].known
           /\ \A q \in R \ {r} : tlock'[q] = tlock[q]
           /\ \/ tgt.mgr = "target" /\ tgt.route = r /\ tgt'.received = {}
              \/ /\ tgt'.mgr = tgt.mgr /\ tgt'.route = tgt.route /\ tgt'.secret = tgt.secret
                 /\ tgt'.wait = tgt.wait /\ tgt'.received = tgt.received \ {r}
           /\ UNCHANGED <<deadline, registered, height, blk, safe>>
<1> USE DEF CoreInv
<1> DEFINE done == tgt.mgr = "target" /\ tgt.route = r
           new  == [tlock[r] EXCEPT !.st = "unlocked", !.known = TRUE]
<1>1. /\ tlock' = [tlock EXCEPT ![r].st = "unlocked", ![r].known = TRUE]
      /\ tgt' = IF done THEN NoTarget ELSE [tgt EXCEPT !.received = @ \ {r}]
      /\ UNCHANGED <<iniVars, told, requests, answered, revealing, secretOut, height, blk,
                     registered, seen, deadline, safe, Routes, crashes>>
      /\ lock[r].st = "unlocked" \/ MediatorKnows
  BY DEF messageUnlockT, msgVars, chainVars, bookVars
<1>2. secretOut
  BY <1>1 DEF MediatorKnows, SecretInv, Unsent
<1>3. /\ tlock' \in [R -> TLockType] /\ tlock'[r].st = "unlocked" /\ tlock'[r].known
      /\ \A q \in R \ {r} : tlock'[q] = tlock[q]
  BY <1>1 DEF Types, TargetTypes, TLockType
<1>4. tgt \in TgtType /\ NoTarget \in TgtType /\ NoTarget.mgr = "none" /\ NoTarget.received = {}
  BY NoMachine DEF Types, TargetTypes
<1>5. /\ tgt' \in TgtType
      /\ \/ done /\ tgt'.received = {} /\ tgt'.mgr = "none"
         \/ /\ tgt'.mgr = tgt.mgr /\ tgt'.route = tgt.route /\ tgt'.secret = tgt.secret
            /\ tgt'.wait = tgt.wait /\ tgt'.received = tgt.received \ {r}
  <2>1. CASE done
    BY <1>1, <1>4, <2>1
  <2>2. CASE ~ done
    <3>1. tgt' = [tgt EXCEPT !.received = @ \ {r}]
      BY <1>1, <2>2
    <3> HIDE DEF done
    <3> QED BY <1>4, <3>1 DEF TgtType
  <2> QED BY <2>1, <2>2
<1>6. tgt'.mgr = "target" => tgt'.route \in R
  BY <1>5 DEF RouteInv
<1>7. /\ R' = R /\ Routes' \in RouteLists /\ PayerTypes' /\ RouteInv'
      /\ TgtType' = TgtType /\ lock' = lock
  BY <1>1, <1>6, TargetFrame
<1>8. TargetTypes' /\ OtherTypes'
  BY <1>1, <1>3, <1>5, <1>7 DEF Types, TargetTypes, OtherTypes
<1>9. SecretInv'
  BY <1>1, <1>2 DEF SecretInv
<1> QED BY <1>1, <1>3, <1>5, <1>7, <1>8, <1>9 DEF Types

LEMMA EventHandled ==
    ASSUME CoreInv, handleSecretRegisteredOnChainT
    PROVE  /\ CoreInv' /\ R' = R /\ registered # 0
           /\ \A q \in R : /\ tlock'[q].st = tlock[q].st /\ tlock'[q].exp = tlock[q].exp
                           /\ tlock[q].known => tlock'[q].known
           /\ tgt' = tgt \/ tgt'.received = {}
           /\ UNCHANGED <<deadline, registered, height, blk, safe>>
<1> USE DEF CoreInv
<1>1. /\ registered # 0 /\ seen' = seen \cup {"T"}
      /\ tlock' = [r \in R |-> [tlock[r] EXCEPT !.known =
                      @ \/ (r \in TLocked /\ tlock[r].exp >= registered)]]
      /\ tgt' = IF tgt.mgr = "target" THEN NoTarget ELSE tgt
      /\ UNCHANGED <<iniVars, told, requests, answered, revealing, secretOut, height, blk,
                     registered, deadline, safe, Routes, crashes>>
  BY DEF handleSecretRegisteredOnChainT, msgVars, bookVars
<1>2. secretOut
  BY <1>1 DEF SecretInv, Unsent
<1>3. /\ tlock' \in [R -> TLockType]
      /\ \A q \in R : /\ tlock'[q].st = tlock[q].st /\ tlock'[q].exp = tlock[q].exp
                      /\ tlock[q].known => tlock'[q].known
  BY <1>1 DEF Types, TargetTypes, TLockType, TLocked
<1>4. tgt \in TgtType /\ NoTarget \in TgtType /\ NoTarget.mgr = "none" /\ NoTarget.received = {}
  BY NoMachine DEF Types, TargetTypes
<1>5. tgt' \in TgtType /\ (tgt' = tgt \/ tgt'.received = {}) /\ tgt'.mgr # "target"
  BY <1>1, <1>4
<1>6. /\ R' = R /\ Routes' \in RouteLists /\ PayerTypes' /\ RouteInv'
      /\ TgtType' = TgtType /\ lock' = lock
  BY <1>1, <1>5, TargetFrame
<1>7. TargetTypes' /\ OtherTypes'
  BY <1>1, <1>3, <1>5, <1>6 DEF Types, TargetTypes, OtherTypes
<1>8. SecretInv'
  BY <1>1, <1>2 DEF SecretInv
<1> QED BY <1>1, <1>3, <1>5, <1>6, <1>7, <1>8 DEF Types

LEMMA TargetBlockHandled ==
    ASSUME CoreInv, handleBlockT
    PROVE  LET block == blk["T"] + 1
               over == {r \in tgt.received : r \notin TLocked
                                              \/ block - ForkConfirmNumber > tlock[r].exp}
               asks == eventsForRegisterSecret(block) \/ crashRegisters(block)
           IN  /\ CoreInv' /\ R' = R
               /\ block <= height /\ blk'["T"] = block
               /\ \/ /\ tgt.mgr = "target" /\ block <= tlock[tgt.route].exp
                     /\ tgt'.mgr = "target" /\ tgt'.route = tgt.route
                     /\ tgt'.secret = tgt.secret /\ tgt'.received = tgt.received
                     /\ tgt'.wait = (tgt.wait \/ eventsForRegisterSecret(block))
                  \/ /\ tgt.mgr = "crash" /\ tgt'.mgr = "crash"
                     /\ tgt'.received = tgt.received \ over
                  \/ /\ tgt.mgr = "target" => ~(block <= tlock[tgt.route].exp)
                     /\ tgt.mgr = "crash" => tgt.received \subseteq over
                     /\ tgt'.mgr = "none" /\ tgt'.received = {}
               /\ deadline' = IF asks /\ deadline = 0 /\ registered = 0
                              THEN block + RegisterDelay ELSE deadline
               /\ UNCHANGED <<tlock, registered, height, safe>>
<1> USE DEF CoreInv
<1> DEFINE block == blk["T"] + 1
           over == {r \in tgt.received : r \notin TLocked
                                          \/ block - ForkConfirmNumber > tlock[r].exp}
           asks == eventsForRegisterSecret(block) \/ crashRegisters(block)
           stays == tgt.mgr = "target" /\ block <= tlock[tgt.route].exp
           keeps == tgt.mgr = "crash" /\ (over = {} \/ over # tgt.received)
<1>1. /\ blk["T"] < height /\ blk' = [blk EXCEPT !["T"] = @ + 1]
      /\ UNCHANGED <<iniVars, tlock, told, requests, answered, revealing, secretOut, height,
                     registered, seen, safe, Routes, crashes>>
  BY DEF handleBlockT, NextBlock, msgVars, bookVars
<1>2. tgt' = CASE stays -> [tgt EXCEPT !.wait = @ \/ eventsForRegisterSecret(block)]
               [] keeps -> [tgt EXCEPT !.received = @ \ over]
               [] OTHER -> NoTarget
  BY DEF handleBlockT
<1>3. deadline' = IF asks /\ deadline = 0 /\ registered = 0
                  THEN block + RegisterDelay ELSE deadline
  BY DEF handleBlockT
<1>4. /\ blk' \in [{"A", "T"} -> 1..height] /\ blk'["T"] = block /\ block <= height
      /\ block \in Nat
  BY <1>1 DEF Types, OtherTypes
<1>5. asks => secretOut
  <2>1. eventsForRegisterSecret(block) => secretOut
    BY DEF eventsForRegisterSecret, SecretInv, Unsent
  <2>2. crashRegisters(block) => secretOut
    BY DEF crashRegisters, TLocked, SecretInv, Unsent
  <2> QED BY <2>1, <2>2
<1>6. tgt \in TgtType /\ NoTarget \in TgtType /\ NoTarget.mgr = "none" /\ NoTarget.received = {}
      /\ NoTarget.secret = FALSE
  BY NoMachine DEF Types, TargetTypes
<1>7. eventsForRegisterSecret(block) \in BOOLEAN
  BY DEF eventsForRegisterSecret
<1>8. over \subseteq tgt.received
  OBVIOUS
<1> DEFINE Stays == /\ tgt'.mgr = "target" /\ tgt'.route = tgt.route
                    /\ tgt'.secret = tgt.secret /\ tgt'.received = tgt.received
                    /\ tgt'.wait = (tgt.wait \/ eventsForRegisterSecret(block))
           Keeps == /\ tgt'.mgr = "crash" /\ tgt'.received = tgt.received \ over
                    /\ tgt'.secret = tgt.secret
           Ends  == tgt'.mgr = "none" /\ tgt'.received = {} /\ tgt'.secret = FALSE
<1>9. /\ tgt' \in TgtType
      /\ \/ stays /\ Stays
         \/ keeps /\ ~ stays /\ Keeps
         \/ ~ keeps /\ ~ stays /\ Ends
  <2> HIDE DEF block, over
  <2>1. stays => tgt.mgr = "target"
    OBVIOUS
  <2>2. keeps => tgt.mgr = "crash"
    OBVIOUS
  <2> HIDE DEF stays, keeps
  <2>3. CASE stays
    <3>1. tgt' = [tgt EXCEPT !.wait = @ \/ eventsForRegisterSecret(block)]
      <4>1. ~ keeps
        BY <2>1, <2>2, <2>3
      <4> QED BY <1>2, <2>3, <4>1
    <3> QED BY <1>6, <1>7, <2>1, <2>3, <3>1 DEF TgtType
  <2>4. CASE ~ stays /\ keeps
    <3>1. tgt' = [tgt EXCEPT !.received = @ \ over]
      BY <1>2, <2>4
    <3> QED BY <1>6, <1>8, <2>2, <2>4, <3>1 DEF TgtType
  <2>5. CASE ~ stays /\ ~ keeps
    BY <1>2, <1>6, <2>5
  <2> QED BY <2>3, <2>4, <2>5
<1>10. tgt'.mgr = "target" => tgt'.route \in R
  BY <1>9 DEF RouteInv
<1>11. /\ R' = R /\ Routes' \in RouteLists /\ PayerTypes' /\ RouteInv'
       /\ TgtType' = TgtType /\ lock' = lock
  BY <1>1, <1>10, TargetFrame
<1>12. deadline' \in 0..(MaxHeight + RegisterDelay)
  <2> HIDE DEF asks, block
  <2> QED BY <1>3, <1>4, PaymentAssumption DEF Types, OtherTypes
<1>13. TargetTypes' /\ OtherTypes'
  BY <1>1, <1>4, <1>9, <1>11, <1>12 DEF Types, TargetTypes, OtherTypes
<1>14. SecretInv'
  <2>1. CASE secretOut
    BY <1>1, <2>1 DEF SecretInv
  <2>2. CASE ~ secretOut
    <3>1. ~ asks
      BY <1>5, <2>2
    <3>2. deadline' = deadline /\ tgt'.secret \in {tgt.secret, FALSE}
      BY <1>3, <1>9, <3>1
    <3> QED BY <1>1, <1>11, <2>2, <3>2 DEF SecretInv, Unsent
  <2> QED BY <2>1, <2>2
<1> HIDE DEF asks
<1>15. /\ CoreInv' /\ R' = R
       /\ block <= height /\ blk'["T"] = block
       /\ UNCHANGED <<tlock, registered, height, safe>>
  BY <1>1, <1>4, <1>11, <1>13, <1>14 DEF Types
<1>16. tgt.mgr = "crash" /\ ~ keeps => tgt.received \subseteq over
  OBVIOUS
<1> HIDE DEF over, block
<1>17. \/ /\ tgt.mgr = "target" /\ block <= tlock[tgt.route].exp /\ Stays
       \/ /\ tgt.mgr = "crash" /\ Keeps
       \/ /\ tgt.mgr = "target" => ~(block <= tlock[tgt.route].exp)
          /\ tgt.mgr = "crash" => tgt.received \subseteq over
          /\ Ends
  BY <1>9, <1>16
<1> QED BY <1>3, <1>15, <1>17 DEF over, block, asks

LEMMA TargetRestarts ==
    ASSUME CoreInv, restoreLocksT
    PROVE  /\ CoreInv' /\ R' = R
           /\ \A q \in R : tlock[q].known \/ tlock[q].st # "locked" => tlock'[q] = tlock[q]
           /\ \/ TLocked' = {} /\ tgt'.mgr = "none" /\ tgt'.received = {}
              \/ tgt'.mgr = "crash" /\ tgt'.received = TLocked'
           /\ UNCHANGED <<deadline, registered, height, blk, safe>>
<1> USE DEF CoreInv
<1>1. /\ requests' = {} /\ seen' = seen \ {"T"}
      /\ crashes < MaxCrashes /\ crashes' = crashes + 1
      /\ UNCHANGED <<iniVars, told, answered, revealing, secretOut, height, blk,
                     registered, deadline, safe, Routes>>
  BY DEF restoreLocksT
<1>2. PICK lost \in SUBSET Unsaved :
        /\ tlock' = [r \in R |-> IF r \in lost THEN NoTLock ELSE tlock[r]]
        /\ tgt' = IF TLocked = lost THEN NoTarget
                  ELSE [NoTarget EXCEPT !.mgr = "crash", !.received = TLocked \ lost]
  BY DEF restoreLocksT
<1>3. /\ NoTarget \in TgtType /\ NoTarget.mgr = "none" /\ NoTarget.received = {}
      /\ NoTarget.secret = FALSE
  BY NoMachine DEF Types
<1>4. /\ TLocked \in SUBSET R /\ lost \subseteq TLocked
      /\ \A q \in lost : q \in R /\ tlock[q].st = "locked" /\ ~ tlock[q].known
  BY DEF TLocked, Unsaved
<1>5. NoTLock \in TLockType /\ NoTLock.st = "none" /\ ~ NoTLock.known
  BY DEF NoTLock, TLockType
<1>6. R' = R
  BY <1>1 DEF R
<1>7. /\ tlock' \in [R -> TLockType]
      /\ \A q \in R : tlock'[q] = IF q \in lost THEN NoTLock ELSE tlock[q]
  BY <1>2, <1>5 DEF Types, TargetTypes
<1>8. TLocked' = TLocked \ lost
  <2>1. TLocked' = {r \in R : tlock'[r].st = "locked"}
    BY <1>6 DEF TLocked
  <2> QED BY <1>5, <1>7, <2>1 DEF TLocked
<1>9. /\ tgt' \in TgtType /\ tgt'.mgr # "target" /\ tgt'.secret = FALSE
      /\ \/ TLocked' = {} /\ tgt'.mgr = "none" /\ tgt'.received = {}
         \/ tgt'.mgr = "crash" /\ tgt'.received = TLocked'
  <2> DEFINE left == TLocked \ lost
             t == [NoTarget EXCEPT !.mgr = "crash", !.received = left]
  <2>1. left \subseteq R
    BY <1>4
  <2>2. tgt' = IF TLocked = lost THEN NoTarget ELSE t
    BY <1>2
  <2>3. TLocked' = left
    BY <1>8
  <2>4. TLocked = lost => left = {}
    OBVIOUS
  <2> HIDE DEF left
  <2>5. t \in TgtType /\ t.mgr = "crash" /\ t.received = left /\ t.secret = FALSE
    BY <1>3, <2>1 DEF TgtType
  <2> HIDE DEF t
  <2> QED BY <1>3, <2>2, <2>3, <2>4, <2>5
<1>10. /\ Routes' \in RouteLists /\ PayerTypes' /\ RouteInv'
       /\ TgtType' = TgtType /\ lock' = lock
  BY <1>1, <1>9, TargetFrame
<1>11. crashes' \in 0..MaxCrashes /\ seen' \subseteq {"A", "T"}
  BY <1>1, PaymentAssumption DEF Types, OtherTypes
<1>12. TargetTypes' /\ OtherTypes'
  BY <1>1, <1>6, <1>7, <1>9, <1>10, <1>11 DEF Types, TargetTypes, OtherTypes
<1>13. SecretInv'
  BY <1>1, <1>5, <1>6, <1>7, <1>9, <1>10 DEF SecretInv, Unsent
<1>14. \A q \in R : tlock[q].known \/ tlock[q].st # "locked" => tlock'[q] = tlock[q]
  BY <1>4, <1>7
<1> QED BY <1>1, <1>6, <1>9, <1>10, <1>12, <1>13, <1>14 DEF Types

LEMMA BlockMined ==
    ASSUME CoreInv, NEW reg \in BOOLEAN, NewBlock(reg)
    PROVE  /\ CoreInv' /\ R' = R /\ height' = height + 1 /\ blk["T"] = height
           /\ registered' = IF reg THEN height + 1 ELSE registered
           /\ reg => registered = 0
           /\ deadline = height + 1 /\ registered = 0 => reg
           /\ UNCHANGED <<tgt, tlock, deadline, blk, safe>>
<1> USE DEF CoreInv
<1>1. /\ height < MaxHeight /\ height' = height + 1 /\ blk["T"] = height
      /\ reg => registered = 0 /\ (deadline # 0 \/ MediatorKnows)
      /\ deadline = height + 1 /\ registered = 0 => reg
      /\ registered' = IF reg THEN height + 1 ELSE registered
      /\ UNCHANGED <<iniVars, tgt, tlock, told, requests, answered, revealing, secretOut, blk,
                     seen, deadline, safe, Routes, crashes>>
  BY DEF NewBlock, tgtVars, msgVars, bookVars
<1>2. tgt'.mgr = "target" => tgt'.route \in R
  BY <1>1 DEF RouteInv
<1>3. /\ R' = R /\ Routes' \in RouteLists /\ PayerTypes' /\ RouteInv'
      /\ TgtType' = TgtType /\ lock' = lock
  BY <1>1, <1>2, TargetFrame
<1>4. /\ height \in Nat /\ height' \in 1..MaxHeight /\ registered' \in 0..height'
      /\ blk' \in [{"A", "T"} -> 1..height']
  BY <1>1, PaymentAssumption DEF Types, OtherTypes
<1>5. TargetTypes' /\ OtherTypes'
  BY <1>1, <1>3, <1>4 DEF Types, TargetTypes, OtherTypes
<1>6. SecretInv'
  <2>1. reg => secretOut
    BY <1>1 DEF MediatorKnows, SecretInv, Unsent
  <2> QED BY <1>1, <1>3, <2>1 DEF SecretInv, Unsent
<1> QED BY <1>1, <1>3, <1>5, <1>6 DEF Types

LEMMA CoreStep ==
    ASSUME CoreInv, [Next]_vars
    PROVE  CoreInv'
<1>1. CASE UNCHANGED vars
  <2>1. /\ UNCHANGED iniVars /\ UNCHANGED <<Routes, secretOut>>
        /\ UNCHANGED <<tgt, tlock, told, requests, answered, revealing, height, blk, registered,
                       seen, deadline, safe, crashes>>
    BY <1>1 DEF vars, tgtVars, msgVars, chainVars, bookVars
  <2>2. /\ R' = R /\ Routes' \in RouteLists /\ PayerTypes' /\ RouteInv'
        /\ TgtType' = TgtType /\ lock' = lock
    BY <2>1, TargetFrame DEF CoreInv, RouteInv
  <2> QED BY <2>1, <2>2 DEF CoreInv, Types, TargetTypes, OtherTypes, SecretInv, Unsent
<1>2. CASE Next
  BY <1>2, StartInv, CancelInv, AcknowledgedInv, RevealedInv, DisposalInv, ResponseInv, RequestInv,
     RegistrationInv, BlockInv, RestartInv, TransferHandled, SecretHandled, UnlockHandled,
     EventHandled, TargetBlockHandled, TargetRestarts, BlockMined DEF Next, Progress
<1> QED BY <1>1, <1>2

LEMMA CoreInit == Init => CoreInv
<1> SUFFICES ASSUME Init PROVE CoreInv
  OBVIOUS
<1>1. Routes \in RouteLists
  BY DEF Init
<1>2. /\ ini = NoInitiator /\ lock = [r \in R |-> NoLock] /\ responding = 0
      /\ status = "init" /\ result = "none"
      /\ tgt = NoTarget /\ tlock = [r \in R |-> NoTLock] /\ told = {}
      /\ ~ revealing /\ ~ secretOut /\ deadline = 0 /\ registered = 0
  BY DEF Init
<1>3. NoLock \in LockType /\ NoTLock \in TLockType /\ ~ NoTLock.known
      /\ ~ NoLock.onchain /\ NoLock.st = "none"
  BY DEF NoLock, NoTLock, LockType, TLockType
<1>4. /\ NoInitiator \in IniType /\ NoInitiator.mgr = "none"
      /\ NoTarget \in TgtType /\ NoTarget.mgr = "none" /\ NoTarget.secret = FALSE
  BY <1>1, NoMachine
<1>5. PayerTypes /\ TargetTypes
  BY <1>1, <1>2, <1>3, <1>4, RouteFacts DEF PayerTypes, TargetTypes
<1>6. OtherTypes
  <2>1. /\ requests = {} /\ answered = {} /\ revealing = FALSE /\ secretOut = FALSE
        /\ height = 1 /\ blk = [n \in {"A", "T"} |-> 1] /\ registered = 0 /\ seen = {}
        /\ deadline = 0 /\ safe = {} /\ crashes = 0
    BY DEF Init
  <2>2. 1 \in 1..MaxHeight /\ 0 \in 0..(MaxHeight + RegisterDelay) /\ 0 \in 0..MaxCrashes
    BY PaymentAssumption
  <2>3. blk \in [{"A", "T"} -> 1..height] /\ registered \in 0..height
    BY <2>1
  <2> QED BY <2>1, <2>2, <2>3 DEF OtherTypes
<1>7. SecretInv
  BY <1>2, <1>3, <1>4 DEF SecretInv, Unsent
<1>8. RouteInv
  BY <1>2, <1>3, <1>4 DEF RouteInv
<1> QED BY <1>1, <1>5, <1>6, <1>7, <1>8 DEF CoreInv, Types

LEMMA CoreAlways == Spec => []CoreInv
<1>1. CoreInv /\ [Next]_vars => CoreInv'
  BY CoreStep
<1> QED BY <1>1, CoreInit, PTL DEF Spec

\* The payment keeps its types: the machines' routes and the locks they look
\* after exist, and no node handles a block that is not mined, through refunds,
\* locks that cannot be made, restarts and locks lost in them.
THEOREM TypeCorrect == Spec => []TypeOK
<1>1. CoreInv => TypeOK
  BY TypeParts DEF CoreInv
<1> QED BY <1>1, CoreAlways, PTL

\* A pays over at most one route (handleRefund, StateTransition), for any list of
\* routes, any refusals and any crashes between the new lock and the response.
THEOREM PaidOnceTheorem == Spec => []PaidOnce
<1>1. CoreInv => PaidOnce
  <2> SUFFICES ASSUME CoreInv PROVE PaidOnce
    OBVIOUS
  <2> DEFINE S == {r \in R : \/ lock[r].st = "unlocked"
                             \/ secretOut /\ lock[r].st = "locked" /\ ~ lock[r].disposed}
  <2>1. \A r, q \in S : r = q
    BY DEF CoreInv, SecretInv, Unsent, RouteInv, Taken
  <2>2. CASE S = {}
    <3>1. Cardinality(S) = 0
      BY <2>2, FS_EmptySet
    <3> QED BY <3>1 DEF PaidOnce
  <2>3. CASE S # {}
    <3>1. PICK r \in S : S = {r}
      BY <2>1, <2>3
    <3>2. Cardinality(S) = 1
      BY <3>1, FS_Singleton
    <3> QED BY <3>2 DEF PaidOnce
  <2> QED BY <2>2, <2>3
<1> QED BY <1>1, CoreAlways, PTL

-----------------------------------------------------------------------------
(***************************************************************************)
(* A reported failure is final, when the user cancels only without routes  *)
(* left to try.                                                            *)
(***************************************************************************)
LEMMA FailStep ==
    ASSUME ~ CancelWhileRoutes, CoreInv, FailInv, [Next]_vars
    PROVE  FailInv'
<1> USE DEF CoreInv
<1> DEFINE Frame == UNCHANGED <<ini, lock, status, result, secretOut, Routes>>
<1>0. ASSUME Frame PROVE FailInv'
  <2>1. R' = R
    BY <1>0 DEF R
  <2>2. SkipUnusable(ini.next)' = SkipUnusable(ini.next)
    BY <1>0, <2>1 DEF SkipUnusable
  <2> QED BY <1>0, <2>1, <2>2 DEF FailInv, Reported, Hopeless, Taken
<1>1. CASE UNCHANGED vars
  BY <1>0, <1>1 DEF vars, iniVars, msgVars, bookVars
<1>2. CASE \E r \in R, ok \in BOOLEAN : messageMediatedTransfer(r, ok)
  BY <1>0, <1>2 DEF messageMediatedTransfer, iniVars, bookVars
<1>3. CASE messageRevealSecretT \/ \E r \in R : messageUnlockT(r)
  BY <1>0, <1>3 DEF messageRevealSecretT, messageUnlockT, iniVars, msgVars, bookVars
<1>4. CASE \/ handleBlockT \/ handleSecretRegisteredOnChainT \/ restoreLocksT
           \/ \E reg \in BOOLEAN : NewBlock(reg)
  BY <1>0, <1>4 DEF handleBlockT, handleSecretRegisteredOnChainT, restoreLocksT, NewBlock,
     iniVars, msgVars, bookVars
<1>5. CASE startMediatedTransfer
  <2>1. /\ ini.mgr = "none" /\ tryNewRoute(1, lock) /\ PayerOnly
    BY <1>5 DEF startMediatedTransfer, PayerOnly
  <2>2. ~ secretOut /\ result = "none" /\ status = "init" /\ lock \in [R -> LockType]
    BY <2>1 DEF RouteInv, Types, PayerTypes
  <2>3. ~ secretOut' /\ R' = R
    BY <2>1, <2>2, PayerFrame
  <2>4. \/ ini'.mgr = "removed"
        \/ /\ ini'.mgr = "initiator" /\ ini'.secret
           /\ status' \in {"init", "canCancel"} /\ result' = "none"
    <3>1. (GivesUp(lock) /\ SkipUnusable(1) = 0) \/ Tries(1, lock)
      BY <2>1, <2>2, NewRoute
    <3> QED BY <2>2, <3>1, NoMachine DEF GivesUp, Tries, Types
  <2> QED BY <2>3, <2>4 DEF FailInv, Reported, Hopeless
<1>6. CASE cancelTransfer
  <2>1. /\ ini.mgr = "initiator" /\ ini' = [ini EXCEPT !.secret = FALSE]
        /\ status = "canCancel" /\ status' = "canceled"
        /\ SkipUnusable(ini.next) = 0
        /\ PayerOnly
    BY <1>6 DEF cancelTransfer, MayCancel, PayerOnly
  <2>2. ini'.mgr = "initiator" /\ ini'.secret = FALSE /\ ini'.next = ini.next
    BY <2>1 DEF Types, PayerTypes, IniType
  <2>3. ~ secretOut /\ secretOut' = secretOut /\ R' = R /\ Routes' = Routes
    BY <2>1, PayerFrame DEF FailInv
  <2>4. SkipUnusable(ini.next)' = 0
    BY <2>1, <2>2, <2>3 DEF SkipUnusable
  <2> QED BY <2>1, <2>2, <2>3, <2>4 DEF FailInv, Hopeless
<1>7. CASE unlockAcknowledged
  <2>1. /\ status' = "success" /\ PayerOnly /\ UNCHANGED <<ini, lock, result>>
    BY <1>7 DEF unlockAcknowledged, PayerOnly
  <2>2. R' = R /\ secretOut' = secretOut /\ Routes' = Routes
    BY <2>1, PayerFrame
  <2>3. SkipUnusable(ini.next)' = SkipUnusable(ini.next)
    BY <2>1, <2>2 DEF SkipUnusable
  <2>4. Hopeless' <=> Hopeless
    BY <2>1, <2>2 DEF Hopeless, Taken
  <2> QED BY <2>1, <2>2, <2>3, <2>4 DEF FailInv, Reported
<1>8. CASE \E ok \in BOOLEAN : messageSecretRequest(ok)
  <2>1. PICK ok \in BOOLEAN : messageSecretRequest(ok)
    BY <1>8
  <2>2. /\ ini'.mgr = ini.mgr /\ ini'.next = ini.next /\ ini'.secret = ini.secret
        /\ \/ /\ ini.mgr = "initiator" /\ secretOut' = (secretOut \/ ini.secret)
              /\ status' = IF ini.secret THEN "canNotCancel" ELSE status
           \/ secretOut' = secretOut /\ status' = status
        /\ UNCHANGED <<lock, result>>
    BY <2>1, RequestHandled
  <2>3. Routes' = Routes /\ R' = R
    BY <2>1 DEF messageSecretRequest, bookVars, R
  <2>4. SkipUnusable(ini.next)' = SkipUnusable(ini.next)
    BY <2>2, <2>3 DEF SkipUnusable
  <2>5. CASE secretOut' = secretOut /\ status' = status
    <3>1. Hopeless' <=> Hopeless
      BY <2>2, <2>3, <2>5 DEF Hopeless, Taken
    <3> QED BY <2>2, <2>3, <2>4, <2>5, <3>1 DEF FailInv, Reported
  <2>6. CASE /\ ini.mgr = "initiator" /\ secretOut' = (secretOut \/ ini.secret)
             /\ status' = IF ini.secret THEN "canNotCancel" ELSE status
    <3>1. CASE ini.secret
      <4>1. ~ Reported /\ ~ Reported'
        BY <2>2, <2>6, <3>1 DEF FailInv, Hopeless, Reported
      <4> QED BY <2>2, <2>4, <2>6, <3>1, <4>1 DEF FailInv
    <3>2. CASE ~ ini.secret
      <4>1. secretOut' = secretOut /\ status' = status
        BY <2>6, <3>2 DEF FailInv, Types, OtherTypes
      <4> QED BY <2>5, <4>1
    <3> QED BY <3>1, <3>2
  <2> QED BY <2>2, <2>5, <2>6
<1>9. CASE \E r \in R : messageRevealSecret(r)
  <2>1. PICK r \in R : messageRevealSecret(r)
    BY <1>9
  <2>2. /\ ini.mgr = "initiator" /\ PayerOnly /\ ini' = Removed /\ status' = status
        /\ result' = IF result = "none" THEN "ok" ELSE result
    BY <2>1 DEF messageRevealSecret, transferSuccess, PayerOnly
  <2>3. secretOut /\ ini'.mgr = "removed"
    BY <2>1, <2>2, RevealedInv, NoMachine DEF Types
  <2>4. ~ Reported
    BY <2>2, <2>3 DEF FailInv, Hopeless
  <2>5. ~ Reported'
    BY <2>2, <2>4 DEF Reported
  <2> QED BY <2>3, <2>5 DEF FailInv
<1>10. CASE \E r \in R : messageAnnounceDisposed(r)
  <2>1. PICK r \in R : messageAnnounceDisposed(r)
    BY <1>10
  <2>2. PICK marked :
         /\ Marked(marked)
         /\ \/ /\ RefundAccepted(r) /\ responding' = r
               /\ \/ GivesUp(marked) /\ SkipUnusable(ini.next) = 0
                  \/ Tries(ini.next, marked)
            \/ /\ ini.mgr = "crash" /\ ini' \in IniType /\ ini'.mgr = "crash"
               /\ lock' = marked /\ responding' = r
               /\ UNCHANGED <<status, result>>
            \/ /\ lock' = marked
               /\ UNCHANGED <<ini, responding, status, result>>
    BY <2>1, DisposalHandled
  <2>3. PayerOnly
    BY <2>1 DEF messageAnnounceDisposed, PayerOnly
  <2>4. R' = R /\ secretOut' = secretOut /\ Routes' = Routes
    BY <2>3, PayerFrame
  <2>5. CASE lock' = marked /\ UNCHANGED <<status, result>>
             /\ (ini' = ini \/ (ini.mgr = "crash" /\ ini'.mgr = "crash"))
    <3>1. \A q \in R : Taken(q)' <=> Taken(q)
      BY <2>2, <2>5 DEF Marked, Taken
    <3>2. Hopeless => Hopeless'
      BY <2>4, <2>5, <3>1 DEF Hopeless
    <3>3. ini' = ini => SkipUnusable(ini.next)' = SkipUnusable(ini.next)
      BY <2>4 DEF SkipUnusable
    <3> QED BY <2>4, <2>5, <3>2, <3>3 DEF FailInv, Reported
  <2>6. CASE RefundAccepted(r) /\ GivesUp(marked)
    <3>1. ~ secretOut
      BY <2>6 DEF RefundAccepted, RouteInv
    <3>2. ini'.mgr = "removed"
      BY <2>6, NoMachine DEF GivesUp, Types
    <3> QED BY <2>4, <3>1, <3>2 DEF FailInv, Hopeless
  <2>7. CASE RefundAccepted(r) /\ Tries(ini.next, marked)
    <3>1. ~ secretOut /\ ini.mgr = "initiator"
      BY <2>7 DEF RefundAccepted, RouteInv
    <3>2. /\ SkipUnusable(ini.next) # 0 /\ ini'.mgr = "initiator" /\ ini'.secret
          /\ status' \in {status, "canCancel"} /\ result' = result
      BY <2>7, RouteFacts DEF Tries, Types
    <3>3. ini.secret
      BY <3>1, <3>2 DEF FailInv
    <3>4. ~ Reported'
      BY <3>1, <3>2, <3>3 DEF FailInv, Hopeless, Reported
    <3> QED BY <2>4, <3>1, <3>2, <3>4 DEF FailInv
  <2> QED BY <2>2, <2>5, <2>6, <2>7
<1>11. CASE eventSendAnnouncedDisposedResponse
  <2>1. PayerOnly /\ UNCHANGED <<ini, status, result>>
    BY <1>11 DEF eventSendAnnouncedDisposedResponse, PayerOnly
  <2>2. \A q \in R : Taken(q)' => Taken(q)
    BY <1>11, ResponseInv
  <2>3. R' = R /\ secretOut' = secretOut /\ Routes' = Routes
    BY <2>1, PayerFrame
  <2>4. SkipUnusable(ini.next)' = SkipUnusable(ini.next)
    BY <2>1, <2>3 DEF SkipUnusable
  <2>5. Hopeless => Hopeless'
    BY <2>1, <2>2, <2>3 DEF Hopeless
  <2> QED BY <2>1, <2>3, <2>4, <2>5 DEF FailInv, Reported
<1>12. CASE handleSecretRegisteredOnChainA \/ handleBlockA
  <2>1. responding = 0 /\ Follows
    BY <1>12, RegistrationHandled, BlockHandled
  <2>2. \A q \in R : Taken(q)' => Taken(q)
    BY <1>12, RegistrationInv, BlockInv
  <2>3. secretOut' = secretOut /\ Routes' = Routes /\ R' = R
    BY <1>12 DEF handleSecretRegisteredOnChainA, handleBlockA, msgVars, bookVars, R
  <2>4. ini'.mgr = "initiator" => ini' = ini /\ status' = status /\ result' = result
    BY <2>1 DEF Follows
  <2>5. ini' = ini => SkipUnusable(ini.next)' = SkipUnusable(ini.next)
    BY <2>3 DEF SkipUnusable
  <2>6. Hopeless => Hopeless'
    BY <2>2, <2>3, <2>4 DEF Hopeless
  <2>7. Reported' /\ ~ Reported => Hopeless'
    <3> SUFFICES ASSUME Reported', ~ Reported PROVE Hopeless'
      OBVIOUS
    <3>1. ini'.mgr # "initiator"
      BY <2>4 DEF Reported
    <3>2. CASE \E q \in R : lock[q].st = "locked" /\ lock'[q].st = "removed"
      <4>1. secretOut => \A q \in R : ~ Taken(q)'
        BY <2>2, <3>2 DEF RouteInv, Taken
      <4> QED BY <2>3, <3>1, <4>1 DEF Hopeless
    <3>3. CASE ini.mgr = "initiator" /\ ~ Removable(ini.route)
      <4>1. \A q \in R : Taken(q) => q = ini.route
        BY <2>1, <3>3, RouteFacts DEF RouteInv, Types
      <4>2. ~ Taken(ini.route)
        BY <3>3 DEF RouteInv, Removable, Taken
      <4>3. \A q \in R : ~ Taken(q)'
        BY <2>2, <4>1, <4>2
      <4> QED BY <2>3, <3>1, <4>3 DEF Hopeless
    <3> QED BY <2>1, <3>2, <3>3 DEF Follows
  <2>8. Reported' => ini'.mgr # "none"
    <3>1. ini'.mgr = "none" => ini.mgr = "none" /\ status' = status /\ result' = result
      BY <2>1 DEF Follows
    <3> QED BY <3>1 DEF FailInv, Reported
  <2> QED BY <2>3, <2>4, <2>5, <2>6, <2>7, <2>8 DEF FailInv
<1>13. CASE restoreLocksA
  <2>1. /\ UNCHANGED <<lock, status, secretOut, Routes>> /\ ini.mgr # "none"
        /\ result' = IF result = "none" THEN "lost" ELSE result
    BY <1>13 DEF restoreLocksA
  <2>2. ini'.mgr \in {"crash", "removed"}
    BY <1>13, RestartInv
  <2>3. Reported' => Reported
    BY <2>1 DEF Reported
  <2>4. Hopeless => Hopeless'
    BY <2>1, <2>2 DEF Hopeless, Taken, R
  <2> QED BY <2>2, <2>3, <2>4 DEF FailInv
<1> QED BY <1>1, <1>2, <1>3, <1>4, <1>5, <1>6, <1>7, <1>8, <1>9, <1>10, <1>11, <1>12, <1>13
        DEF Next, Progress

\* A payment that was reported as failed or cancelled (EventTransferSentFailed,
\* cancelTransfer) is never made, whatever the hops do, through crashes and
\* late registrations, if the user cancels only without routes left to try.
\* With routes left the code does make it: the run payment_cancel.
THEOREM FailedTheorem ==
    ASSUME ~ CancelWhileRoutes
    PROVE  Spec => []FailedIsNotPaid
<1>1. Init => FailInv
  BY DEF Init, FailInv, Reported, NoInitiator
<1>2. CoreInv /\ FailInv /\ [Next]_vars => FailInv'
  BY FailStep
<1>3. CoreInv /\ FailInv => FailedIsNotPaid
  <2> SUFFICES ASSUME CoreInv, FailInv, Reported PROVE FailedIsNotPaid
    BY DEF FailedIsNotPaid, Reported
  <2>1. CASE ~ secretOut
    BY <2>1 DEF CoreInv, SecretInv, Unsent, FailedIsNotPaid
  <2>2. CASE \A r \in R : ~ Taken(r)
    BY <2>2 DEF Taken, FailedIsNotPaid
  <2> QED BY <2>1, <2>2 DEF FailInv, Hopeless
<1> QED BY <1>1, <1>2, <1>3, CoreAlways, PTL DEF Spec

-----------------------------------------------------------------------------
(***************************************************************************)
(* The target is paid, when what it asks the registry is mined before the  *)
(* reveal timeout has passed.                                              *)
(***************************************************************************)
\* The numbers that the claims compare.
LEMMA ClaimNumbers ==
    ASSUME Types
    PROVE  /\ height \in Nat /\ blk["T"] \in Nat /\ registered \in Nat /\ deadline \in Nat
           /\ blk["T"] <= height /\ registered <= height
           /\ RevealTimeout \in Nat \ {0} /\ RegisterDelay \in Nat \ {0}
           /\ ForkConfirmNumber \in Nat
           /\ \A r \in R : tlock[r].exp \in Int
           /\ safe \subseteq R /\ tgt.received \subseteq R
<1>1. tgt \in TgtType /\ tlock \in [R -> TLockType]
  BY DEF Types, TargetTypes
<1>2. tgt.received \subseteq R /\ \A r \in R : tlock[r].exp \in Int
  BY <1>1 DEF TgtType, TLockType
<1> QED BY <1>2, PaymentAssumption DEF Types, OtherTypes

\* What another step than T's or the chain's leaves alone.
LEMMA ClaimKept ==
    ASSUME ClaimInv, UNCHANGED <<tgt, tlock, deadline, registered, height, safe, Routes>>,
           blk'["T"] = blk["T"]
    PROVE  ClaimInv'
<1>1. TLocked' = TLocked
  BY DEF TLocked, R
<1>2. \A r : Pursued(r)' <=> Pursued(r)
  BY DEF Pursued, WillRegister
<1> QED BY <1>1, <1>2 DEF ClaimInv

LEMMA ClaimStep ==
    ASSUME RegisterDelay < RevealTimeout, CoreInv, ClaimInv, [Next]_vars
    PROVE  ClaimInv'
<1> USE DEF CoreInv
<1>0. CoreInv'
  BY CoreStep
<1>1. CASE UNCHANGED vars
  BY <1>1, ClaimKept DEF vars, tgtVars, chainVars, bookVars
<1>2. CASE \/ startMediatedTransfer \/ cancelTransfer \/ unlockAcknowledged
           \/ eventSendAnnouncedDisposedResponse
           \/ \E r \in R : messageRevealSecret(r) \/ messageAnnounceDisposed(r)
  <2>1. PayerOnly
    BY <1>2 DEF startMediatedTransfer, cancelTransfer, unlockAcknowledged,
       eventSendAnnouncedDisposedResponse, messageRevealSecret, messageAnnounceDisposed, PayerOnly
  <2> QED BY <2>1, PayerFrame, ClaimKept
<1>3. CASE \E ok \in BOOLEAN : messageSecretRequest(ok)
  BY <1>3, ClaimKept DEF messageSecretRequest, tgtVars, chainVars, bookVars
<1>4. CASE handleSecretRegisteredOnChainA \/ restoreLocksA
  BY <1>4, ClaimKept DEF handleSecretRegisteredOnChainA, restoreLocksA, tgtVars, bookVars
<1>5. CASE handleBlockA
  <2>1. blk'["T"] = blk["T"]
    BY <1>5, BlockHandled
  <2> QED BY <1>5, <2>1, ClaimKept DEF handleBlockA, tgtVars, bookVars
<1>6. CASE \E r \in R, ok \in BOOLEAN : messageMediatedTransfer(r, ok)
  <2>1. PICK r \in R, ok \in BOOLEAN : messageMediatedTransfer(r, ok)
    BY <1>6
  <2>2. /\ R' = R /\ tlock[r].st = "none" /\ tlock'[r].st = "locked"
        /\ \A q \in R \ {r} : tlock'[q] = tlock[q]
        /\ tgt' = tgt \/ (tgt.mgr = "none" /\ tgt'.mgr = "target" /\ tgt'.received = {})
        /\ UNCHANGED <<deadline, registered, height, blk, safe>>
    BY <2>1, TransferHandled
  <2>3. \A q \in safe : q \in R /\ q # r
    BY <2>2, ClaimNumbers DEF ClaimInv
  <2>4. \A q \in safe : Pursued(q)' /\ tlock'[q].st # "none" /\ tlock'[q].known
    BY <2>2, <2>3 DEF ClaimInv, Pursued, WillRegister
  <2>5. \A q \in tgt'.received : tgt'.mgr = "crash" /\ q \in TLocked'
    BY <2>2 DEF ClaimInv, TLocked
  <2> QED BY <2>2, <2>4, <2>5 DEF ClaimInv
<1>7. CASE messageRevealSecretT
  <2>1. /\ R' = R
        /\ \A q \in R : /\ tlock'[q].st = tlock[q].st /\ tlock'[q].exp = tlock[q].exp
                        /\ tlock[q].known \/ tlock[q].st = "locked" => tlock'[q].known
        /\ tgt'.mgr = tgt.mgr /\ tgt'.route = tgt.route /\ tgt'.received = tgt.received
        /\ tgt' = tgt \/ (tgt'.secret /\ ~ tgt'.wait)
        /\ tgt.mgr = "target" /\ blk["T"] <= tlock[tgt.route].exp =>
              tgt'.secret /\ ~ tgt'.wait
        /\ safe' = safe \cup {r \in Managed : IsSafeToWait(tlock[r].exp, blk["T"])}
        /\ UNCHANGED <<deadline, registered, height, blk>>
    BY <1>7, SecretHandled
  <2>2. ASSUME NEW q \in safe PROVE Pursued(q)' /\ tlock'[q].st # "none" /\ tlock'[q].known
    <3>1. q \in R
      BY ClaimNumbers
    <3> QED BY <2>1, <3>1 DEF ClaimInv, Pursued, WillRegister
  <2>3. ASSUME NEW q \in Managed, IsSafeToWait(tlock[q].exp, blk["T"])
        PROVE  Pursued(q)' /\ tlock'[q].st # "none" /\ tlock'[q].known
    <3>1. /\ q \in R /\ tlock[q].st = "locked" /\ tgt.mgr \in {"target", "crash"}
          /\ tgt.mgr = "target" => tgt.route = q
          /\ tgt.mgr = "crash" => q \in tgt.received
      BY DEF Managed, TLocked, ClaimInv
    <3>2. blk["T"] < tlock[q].exp - RevealTimeout
      BY <2>3 DEF IsSafeToWait
    <3>3. tlock'[q].known /\ tlock'[q].st = "locked" /\ tlock'[q].exp = tlock[q].exp
      BY <2>1, <3>1
    <3>4. CASE registered # 0
      <4>1. registered \in 1..tlock[q].exp
        BY <3>1, <3>2, <3>4, ClaimNumbers DEF ClaimInv
      <4> QED BY <2>1, <3>3, <4>1 DEF Pursued
    <3>5. CASE registered = 0 /\ deadline # 0
      <4>1. deadline <= tlock[q].exp
        BY <3>1, <3>2, ClaimNumbers DEF ClaimInv
      <4> QED BY <2>1, <3>3, <3>5, <4>1 DEF Pursued
    <3>6. CASE registered = 0 /\ deadline = 0
      <4>1. tgt.mgr = "target" => tgt'.secret /\ ~ tgt'.wait
        BY <2>1, <3>1, <3>2, ClaimNumbers
      <4>2. blk["T"] <= tlock[q].exp - RevealTimeout
        BY <3>1, <3>2, ClaimNumbers
      <4>3. WillRegister(q)'
        BY <2>1, <3>1, <3>2, <3>3, <4>1, <4>2 DEF WillRegister
      <4> QED BY <2>1, <3>3, <3>6, <4>3 DEF Pursued
    <3> QED BY <3>4, <3>5, <3>6
  <2>4. \A q \in tgt'.received : tgt'.mgr = "crash" /\ q \in TLocked'
    BY <2>1, ClaimNumbers DEF ClaimInv, TLocked
  <2> QED BY <2>1, <2>2, <2>3, <2>4 DEF ClaimInv
<1>8. CASE \E r \in R : messageUnlockT(r)
  <2>1. PICK r \in R : messageUnlockT(r)
    BY <1>8
  <2>2. /\ R' = R /\ tlock'[r].st = "unlocked" /\ tlock'[r].known
        /\ \A q \in R \ {r} : tlock'[q] = tlock[q]
        /\ \/ tgt.mgr = "target" /\ tgt.route = r /\ tgt'.received = {}
           \/ /\ tgt'.mgr = tgt.mgr /\ tgt'.route = tgt.route /\ tgt'.secret = tgt.secret
              /\ tgt'.wait = tgt.wait /\ tgt'.received = tgt.received \ {r}
        /\ UNCHANGED <<deadline, registered, height, blk, safe>>
    BY <2>1, UnlockHandled
  <2>3. ASSUME NEW q \in safe PROVE Pursued(q)' /\ tlock'[q].st # "none" /\ tlock'[q].known
    <3>1. q \in R
      BY ClaimNumbers
    <3> QED BY <2>2, <3>1 DEF ClaimInv, Pursued, WillRegister
  <2>4. \A q \in tgt'.received : tgt'.mgr = "crash" /\ q \in TLocked'
    BY <2>2, ClaimNumbers DEF ClaimInv, TLocked
  <2> QED BY <2>2, <2>3, <2>4 DEF ClaimInv
<1>9. CASE handleSecretRegisteredOnChainT
  <2>1. /\ R' = R /\ registered # 0
        /\ \A q \in R : /\ tlock'[q].st = tlock[q].st /\ tlock'[q].exp = tlock[q].exp
                        /\ tlock[q].known => tlock'[q].known
        /\ tgt' = tgt \/ tgt'.received = {}
        /\ UNCHANGED <<deadline, registered, height, blk, safe>>
    BY <1>9, EventHandled
  <2>2. ASSUME NEW q \in safe PROVE Pursued(q)' /\ tlock'[q].st # "none" /\ tlock'[q].known
    <3>1. q \in R
      BY ClaimNumbers
    <3> QED BY <2>1, <3>1 DEF ClaimInv, Pursued
  <2>3. \A q \in tgt'.received : tgt'.mgr = "crash" /\ q \in TLocked'
    BY <2>1, ClaimNumbers DEF ClaimInv, TLocked
  <2> QED BY <2>1, <2>2, <2>3 DEF ClaimInv
<1>10. CASE restoreLocksT
  <2>1. /\ R' = R
        /\ \A q \in R : tlock[q].known \/ tlock[q].st # "locked" => tlock'[q] = tlock[q]
        /\ \/ TLocked' = {} /\ tgt'.mgr = "none" /\ tgt'.received = {}
           \/ tgt'.mgr = "crash" /\ tgt'.received = TLocked'
        /\ UNCHANGED <<deadline, registered, height, blk, safe>>
    BY <1>10, TargetRestarts
  <2>2. \A q \in tgt'.received : tgt'.mgr = "crash" /\ q \in TLocked'
    BY <2>1
  <2>3. ASSUME NEW q \in safe PROVE Pursued(q)' /\ tlock'[q].st # "none" /\ tlock'[q].known
    <3>1. /\ q \in R /\ Pursued(q) /\ tlock[q].st # "none" /\ tlock[q].known
          /\ tlock'[q] = tlock[q]
      BY <2>1, ClaimNumbers DEF ClaimInv
    <3>2. WillRegister(q) => blk["T"] <= tlock[q].exp - RevealTimeout
      BY <3>1, ClaimNumbers DEF WillRegister
    <3>3. tlock[q].st = "locked" => q \in TLocked'
      BY <2>1, <3>1 DEF TLocked
    <3> QED BY <2>1, <3>1, <3>2, <3>3 DEF Pursued, WillRegister
  <2> QED BY <2>1, <2>2, <2>3 DEF ClaimInv
<1>11. CASE \E reg \in BOOLEAN : NewBlock(reg)
  <2>1. PICK reg \in BOOLEAN : NewBlock(reg)
    BY <1>11
  <2>2. /\ R' = R /\ height' = height + 1 /\ blk["T"] = height
        /\ registered' = IF reg THEN height + 1 ELSE registered
        /\ reg => registered = 0
        /\ deadline = height + 1 /\ registered = 0 => reg
        /\ UNCHANGED <<tgt, tlock, deadline, blk, safe>>
    BY <2>1, BlockMined
  <2>3. deadline # 0 /\ registered = 0 => height < deadline
    BY DEF ClaimInv
  <2>4. ASSUME NEW q \in safe PROVE Pursued(q)' /\ tlock'[q].st # "none" /\ tlock'[q].known
    <3>1. /\ q \in R /\ Pursued(q) /\ tlock[q].exp \in Int /\ tlock'[q].st # "none"
          /\ tlock'[q].known
      BY <2>2, ClaimNumbers DEF ClaimInv
    <3>2. CASE ~ reg
      BY <2>2, <3>1, <3>2 DEF Pursued, WillRegister
    <3>3. CASE reg /\ tlock[q].st = "locked"
      <4>1. height + 1 <= tlock[q].exp
        <5>1. WillRegister(q) => height + 1 <= tlock[q].exp
          BY <2>2, <3>1, ClaimNumbers DEF WillRegister
        <5>2. deadline # 0 => height + 1 <= deadline
          BY <2>2, <2>3, <3>3, ClaimNumbers
        <5>3. registered = 0
          BY <2>2, <3>3
        <5> QED BY <3>1, <3>3, <5>1, <5>2, <5>3, ClaimNumbers DEF Pursued
      <4>2. registered' \in 1..tlock'[q].exp
        BY <2>2, <3>1, <3>3, <4>1, ClaimNumbers
      <4> QED BY <3>1, <4>2 DEF Pursued
    <3>4. CASE reg /\ tlock[q].st # "locked"
      <4>1. tlock[q].st = "unlocked"
        BY <2>2, <3>1, <3>4 DEF Pursued
      <4> QED BY <2>2, <3>1, <4>1 DEF Pursued
    <3> QED BY <3>2, <3>3, <3>4
  <2>5. TLocked' = TLocked
    BY <2>2 DEF TLocked
  <2>6. deadline' # 0 /\ registered' = 0 => height' < deadline'
    BY <2>2, <2>3, ClaimNumbers
  <2>7. height' <= blk'["T"] + 1 /\ deadline' <= blk'["T"] + RegisterDelay
    BY <2>2, ClaimNumbers DEF ClaimInv
  <2> QED BY <2>2, <2>4, <2>5, <2>6, <2>7 DEF ClaimInv
<1>12. CASE handleBlockT
  <2> DEFINE block == blk["T"] + 1
             over == {r \in tgt.received : r \notin TLocked
                                            \/ block - ForkConfirmNumber > tlock[r].exp}
             asks == eventsForRegisterSecret(block) \/ crashRegisters(block)
  <2>1. /\ R' = R /\ block <= height /\ blk'["T"] = block
        /\ \/ /\ tgt.mgr = "target" /\ block <= tlock[tgt.route].exp
              /\ tgt'.mgr = "target" /\ tgt'.route = tgt.route
              /\ tgt'.secret = tgt.secret /\ tgt'.received = tgt.received
              /\ tgt'.wait = (tgt.wait \/ eventsForRegisterSecret(block))
           \/ /\ tgt.mgr = "crash" /\ tgt'.mgr = "crash"
              /\ tgt'.received = tgt.received \ over
           \/ /\ tgt.mgr = "target" => ~(block <= tlock[tgt.route].exp)
              /\ tgt.mgr = "crash" => tgt.received \subseteq over
              /\ tgt'.mgr = "none" /\ tgt'.received = {}
        /\ deadline' = IF asks /\ deadline = 0 /\ registered = 0
                       THEN block + RegisterDelay ELSE deadline
        /\ UNCHANGED <<tlock, registered, height, safe>>
    BY <1>12, TargetBlockHandled
  <2>2. block \in Nat /\ height = block /\ TLocked' = TLocked
    BY <2>1, ClaimNumbers DEF ClaimInv, TLocked
  <2>3. ASSUME NEW q \in safe, tlock[q].st = "locked", tlock[q].known, registered = 0,
               deadline = 0, tgt.mgr = "target", tgt.route = q, tgt.secret, ~ tgt.wait,
               blk["T"] < tlock[q].exp - RevealTimeout
        PROVE  (deadline' # 0 /\ deadline' <= tlock[q].exp) \/ (deadline' = 0 /\ WillRegister(q)')
    <3>1. q \in R /\ tlock[q].exp \in Int
      BY ClaimNumbers
    <3>2. block <= tlock[q].exp - RevealTimeout /\ block <= tlock[q].exp
      BY <2>3, <3>1, ClaimNumbers
    <3>3. /\ tgt'.mgr = "target" /\ tgt'.route = q /\ tgt'.secret
          /\ tgt'.wait = (tgt.wait \/ eventsForRegisterSecret(block))
      <4> HIDE DEF block, over, asks
      <4> QED BY <2>1, <2>3, <3>2
    <3>4. eventsForRegisterSecret(block) <=> ~(block < tlock[q].exp - RevealTimeout)
      BY <2>3 DEF eventsForRegisterSecret, IsSafeToWait
    <3>5. CASE asks
      <4>1. deadline' = block + RegisterDelay
        BY <2>1, <2>3, <3>5
      <4>2. block + RegisterDelay <= tlock[q].exp /\ block + RegisterDelay # 0
        <5> HIDE DEF block
        <5> QED BY <2>2, <3>1, <3>2, ClaimNumbers
      <4> QED BY <4>1, <4>2
    <3>6. CASE ~ asks
      <4>1. deadline' = 0
        BY <2>1, <2>3, <3>6
      <4>2. block < tlock[q].exp - RevealTimeout /\ ~ tgt'.wait
        BY <2>3, <3>3, <3>4, <3>6
      <4> QED BY <2>1, <3>3, <4>1, <4>2 DEF WillRegister
    <3> QED BY <3>5, <3>6
  <2>4. ASSUME NEW q \in safe, tlock[q].st = "locked", tlock[q].known, registered = 0,
               deadline = 0, tgt.mgr = "crash", q \in tgt.received,
               blk["T"] <= tlock[q].exp - RevealTimeout
        PROVE  (deadline' # 0 /\ deadline' <= tlock[q].exp) \/ (deadline' = 0 /\ WillRegister(q)')
    <3>1. q \in R /\ tlock[q].exp \in Int /\ q \in TLocked
      BY <2>4, ClaimNumbers DEF TLocked
    <3>2. block <= tlock[q].exp - RevealTimeout + 1 /\ block <= tlock[q].exp
          /\ ~(block - ForkConfirmNumber > tlock[q].exp)
      BY <2>4, <3>1, ClaimNumbers
    <3>3. q \notin over
      BY <3>1, <3>2
    <3>4. tgt'.mgr = "crash" /\ q \in tgt'.received
      <4> HIDE DEF block, over, asks
      <4> QED BY <2>1, <2>4, <3>3
    <3>5. CASE asks
      <4>1. deadline' = block + RegisterDelay
        BY <2>1, <2>4, <3>5
      <4>2. block + RegisterDelay <= tlock[q].exp /\ block + RegisterDelay # 0
        <5> HIDE DEF block
        <5> QED BY <2>2, <3>1, <3>2, ClaimNumbers
      <4> QED BY <4>1, <4>2
    <3>6. CASE ~ asks
      <4>1. deadline' = 0
        BY <2>1, <2>4, <3>6
      <4>2. ~(tlock[q].exp < block + RevealTimeout)
        <5> HIDE DEF block
        <5> QED BY <2>4, <3>1, <3>2, <3>6 DEF crashRegisters, asks
      <4>3. block <= tlock[q].exp - RevealTimeout
        <5> HIDE DEF block
        <5> QED BY <2>2, <3>1, <4>2, ClaimNumbers
      <4> QED BY <2>1, <3>4, <4>1, <4>3 DEF WillRegister
    <3> QED BY <3>5, <3>6
  <2>5. ASSUME NEW q \in safe PROVE Pursued(q)' /\ tlock'[q].st # "none" /\ tlock'[q].known
    <3>1. Pursued(q) /\ tlock[q].st # "none" /\ tlock[q].known
      BY DEF ClaimInv
    <3>2. CASE tlock[q].st = "unlocked" \/ registered \in 1..tlock[q].exp
      <4> HIDE DEF block, over, asks
      <4> QED BY <2>1, <3>1, <3>2 DEF Pursued
    <3>3. CASE /\ tlock[q].st = "locked" /\ tlock[q].known /\ registered = 0
               /\ deadline # 0 /\ deadline <= tlock[q].exp
      <4>1. deadline' = deadline /\ tlock' = tlock /\ registered' = registered
        <5> HIDE DEF block, over, asks
        <5> QED BY <2>1, <3>3
      <4> QED BY <3>1, <3>3, <4>1 DEF Pursued
    <3>4. CASE /\ tlock[q].st = "locked" /\ tlock[q].known /\ registered = 0
               /\ deadline = 0 /\ WillRegister(q)
      <4>1. (deadline' # 0 /\ deadline' <= tlock[q].exp) \/ (deadline' = 0 /\ WillRegister(q)')
        BY <2>3, <2>4, <3>4 DEF WillRegister
      <4>2. tlock' = tlock /\ registered' = registered
        BY <2>1
      <4> QED BY <3>1, <3>4, <4>1, <4>2 DEF Pursued
    <3> QED BY <3>1, <3>2, <3>3, <3>4 DEF Pursued
  <2>6. /\ height' <= blk'["T"] + 1 /\ deadline' <= blk'["T"] + RegisterDelay
        /\ deadline' # 0 /\ registered' = 0 => height' < deadline'
    <3>1. deadline <= blk["T"] + RegisterDelay /\ (deadline # 0 /\ registered = 0 => height < deadline)
      BY DEF ClaimInv
    <3> HIDE DEF over, asks
    <3> QED BY <2>1, <2>2, <3>1, ClaimNumbers
  <2>7. \A q \in tgt'.received : tgt'.mgr = "crash" /\ q \in TLocked'
    <3>1. tgt'.received \subseteq tgt.received
      BY <2>1
    <3> HIDE DEF block, over, asks
    <3> QED BY <2>1, <2>2, <3>1 DEF ClaimInv
  <2>8. safe' = safe
    BY <2>1
  <2> QED BY <2>5, <2>6, <2>7, <2>8 DEF ClaimInv
<1> QED BY <1>1, <1>2, <1>3, <1>4, <1>5, <1>6, <1>7, <1>8, <1>9, <1>10, <1>11, <1>12
        DEF Next, Progress

\* The target is paid for every lock it looked after when it learnt the secret in
\* time (handleSecretReveal, eventsForRegisterSecret, crashnode handleBlock),
\* through its own crashes and whatever the hops do, when a registration takes
\* fewer blocks than the reveal timeout.  The crash-node machine registers a
\* block later than the target, so as many blocks would be one too many.
THEOREM TargetTheorem ==
    ASSUME RegisterDelay < RevealTimeout
    PROVE  Spec => []TargetIsPaid
<1>1. Init => ClaimInv
  <2> SUFFICES ASSUME Init PROVE ClaimInv
    OBVIOUS
  <2>1. safe = {} /\ height = 1 /\ blk["T"] = 1 /\ deadline = 0 /\ tgt.received = {}
    BY DEF Init, NoTarget
  <2> QED BY <2>1, PaymentAssumption DEF ClaimInv
<1>2. CoreInv /\ ClaimInv /\ [Next]_vars => ClaimInv'
  BY ClaimStep
<1>3. CoreInv /\ ClaimInv => TargetIsPaid
  <2> SUFFICES ASSUME CoreInv, ClaimInv, NEW r \in safe, height > tlock[r].exp,
                      tlock[r].st # "unlocked", registered \notin 1..tlock[r].exp
               PROVE  FALSE
    BY DEF TargetIsPaid
  <2>1. /\ Pursued(r) /\ tlock[r].exp \in Int
        /\ height <= blk["T"] + 1 /\ (deadline # 0 /\ registered = 0 => height < deadline)
    BY ClaimNumbers DEF ClaimInv, CoreInv
  <2>2. WillRegister(r) => height <= tlock[r].exp
    BY <2>1, ClaimNumbers DEF WillRegister, CoreInv
  <2> QED BY <2>1, <2>2, ClaimNumbers DEF Pursued, CoreInv
<1> QED BY <1>1, <1>2, <1>3, CoreAlways, PTL DEF Spec
=============================================================================
