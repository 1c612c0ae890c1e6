--------------------------- MODULE MediatorProofs ---------------------------
(***************************************************************************)
(* Proofs about Mediator, for every list of routes and every expiration.   *)
(***************************************************************************)
EXTENDS Mediator, FiniteSums, TLAPS

(***************************************************************************)
(* The hop that is tried.  A lock that a payee can claim or has been paid  *)
(* belongs to the route of the current pair (one that was given up in a    *)
(* closed channel stays, but its AnnounceDisposed is stored); a payer's    *)
(* lock that was given up leaves no pair, and the manager runs only while  *)
(* there is one.                                                           *)
(***************************************************************************)
RouteOf(p) == p = NoPair \/ p.route \in 1..Len(Routes)

HopInv ==
    /\ RouteOf(pair)
    /\ pair.route < next
    /\ \A i \in 1..Len(Routes) : i >= next => payeeLock[i] = "none"
    /\ \A i \in 1..Len(Routes) :
          Claimable(i) => pair # NoPair /\ i = pair.route
    /\ payerLock = "disposed" => pair = NoPair
    /\ manager = "running" => pair # NoPair /\ payerLock = "locked"
    /\ manager = "none" =>
          /\ pair = NoPair /\ payerLock = "locked"
          /\ \A i \in 1..Len(Routes) : payeeLock[i] = "none"
          /\ ~secret /\ ~revealed /\ registered = 0

PairType == [route : 0..Len(Routes), expiration : Nat,
             payer : PayerStates, payee : PayeeStates]

\* q is p after a step on the payer's and the payee's states.
SameHop(p, q) == q \in PairType /\ q.route = p.route /\ q.expiration = p.expiration

\* There is a pair exactly when it has a route.
LEMMA PairHasRoute ==
    ASSUME NEW p \in PairType, RouteOf(p)
    PROVE  p = NoPair <=> p.route = 0
BY DEF RouteOf, NoPair

\* The steps of a transition keep the hop.
LEMMA StepsKeepHop ==
    ASSUME NEW p \in PairType, NEW b
    PROVE  /\ SameHop(p, eventsForRevealSecret(p, b))
           /\ SameHop(p, eventsForBalanceProof(p, b))
           /\ SameHop(p, eventsForRegisterSecret(p, b))
           /\ SameHop(p, setExpiredPairs(p, b))
           /\ \A i : SameHop(p, setPayeeStateAndCheckRevealOrder(p, i))
<1> USE DEF SameHop, PairType, PayerStates, PayeeStates
<1>1. SameHop(p, eventsForRevealSecret(p, b))
  BY DEF eventsForRevealSecret
<1>2. SameHop(p, eventsForBalanceProof(p, b))
  BY DEF eventsForBalanceProof
<1>3. SameHop(p, eventsForRegisterSecret(p, b))
  BY DEF eventsForRegisterSecret
<1>4. SameHop(p, setExpiredPairs(p, b))
  BY DEF setExpiredPairs, setExpiredPayer, setExpiredPayee
<1>5. \A i : SameHop(p, setPayeeStateAndCheckRevealOrder(p, i))
  BY DEF setPayeeStateAndCheckRevealOrder
<1> QED BY <1>1, <1>2, <1>3, <1>4, <1>5

\* The first usable route is one of those not tried yet.
LEMMA FirstUsableRange ==
    ASSUME NEW from \in Nat, NEW b
    PROVE  \/ FirstUsable(from, b) = 0
           \/ FirstUsable(from, b) \in from..Len(Routes) /\ getTimeoutBlocks(b) > 0
<1>0. Len(Routes) \in Nat
  BY MediatorAssumption
<1> DEFINE T == {i \in from..Len(Routes) : Usable(i, getTimeoutBlocks(b))}
<1>1. CASE T = {} \/ ~(getTimeoutBlocks(b) > 0)
  BY <1>1 DEF FirstUsable
<1>2. CASE T # {} /\ getTimeoutBlocks(b) > 0
  <2>1. T \in SUBSET Nat
    BY <1>0
  <2>2. PICK x \in T : \A y \in T : x <= y
    BY <1>2, <2>1, LeastNatural
  <2>3. x \in from..Len(Routes) /\ x \in Nat /\ Usable(x, getTimeoutBlocks(b))
    BY <1>0, <2>2
  <2>4. \A j \in from..(x - 1) : ~Usable(j, getTimeoutBlocks(b))
    <3>1. ASSUME NEW j \in from..(x - 1) PROVE ~Usable(j, getTimeoutBlocks(b))
      <4>1. j \in from..Len(Routes) /\ ~(x <= j)
        BY <1>0, <2>3
      <4> QED BY <2>2, <4>1
    <3> QED BY <3>1
  <2>5. \E i \in from..Len(Routes) :
            /\ Usable(i, getTimeoutBlocks(b))
            /\ \A j \in from..(i - 1) : ~Usable(j, getTimeoutBlocks(b))
    BY <2>3, <2>4
  <2>6. FirstUsable(from, b) =
            CHOOSE i \in from..Len(Routes) :
                /\ Usable(i, getTimeoutBlocks(b))
                /\ \A j \in from..(i - 1) : ~Usable(j, getTimeoutBlocks(b))
    BY <1>2, <2>3 DEF FirstUsable
  <2> QED BY <1>2, <2>5, <2>6
<1> QED BY <1>1, <1>2

\* A lock is made for a later hop, and it does not outlive the payer's; or the
\* payer's lock is given up.
NewHop(L) ==
    \E i \in next..Len(Routes) :
        /\ next' = i + 1
        /\ getTimeoutBlocks(blockNumber) > 0
        /\ pair' = [route |-> i, expiration |-> PayeeExpiration(i, blockNumber),
                    payer |-> "Pending", payee |-> "Pending"]
        /\ payeeLock' = [L EXCEPT ![i] = "locked"]
        /\ payerLock' = "locked"

NoHop(L) ==
    /\ next' \in next..(Len(Routes) + 1)
    /\ pair' = NoPair /\ payeeLock' = L /\ payerLock' = "disposed"

LEMMA MediateTransferCases ==
    ASSUME TypeOK, NEW L, NEW tooMany, mediateTransfer(L, tooMany),
           blockNumber' = blockNumber
    PROVE  NewHop(L) \/ NoHop(L)
<1> DEFINE i == FirstUsable(next, blockNumber)
<1>0. next \in Nat /\ next \in 1..(Len(Routes) + 1) /\ Len(Routes) \in Nat
  BY MediatorAssumption DEF TypeOK
<1>1. i = 0 \/ (i \in next..Len(Routes) /\ getTimeoutBlocks(blockNumber) > 0)
  BY <1>0, FirstUsableRange
<1>2. FirstUsable(next, blockNumber') = i
  OBVIOUS
<1> HIDE DEF i
<1>3. CASE i = 0 \/ tooMany
  BY <1>0, <1>1, <1>2, <1>3 DEF mediateTransfer, NoHop
<1>4. CASE ~(i = 0 \/ tooMany)
  <2>1. /\ next' = i + 1 /\ payerLock' = "locked"
        /\ payeeLock' = [L EXCEPT ![i] = "locked"]
        /\ pair' = [NoPair EXCEPT !.route = i,
                                  !.expiration = PayeeExpiration(i, blockNumber)]
    BY <1>2, <1>4 DEF mediateTransfer
  <2>2. pair' = [route |-> i, expiration |-> PayeeExpiration(i, blockNumber),
                 payer |-> "Pending", payee |-> "Pending"]
    BY <2>1 DEF NoPair
  <2> QED BY <1>1, <1>4, <2>1, <2>2 DEF NewHop
<1> QED BY <1>3, <1>4

\* A new lock expires in the future, and with the payer's at the latest.
LEMMA PayeeExpirationBounds ==
    ASSUME NEW i \in 1..Len(Routes), NEW b \in Nat, getTimeoutBlocks(b) > 0
    PROVE  /\ PayeeExpiration(i, b) \in Nat
           /\ b <= PayeeExpiration(i, b) /\ PayeeExpiration(i, b) <= PayerExpiration
           /\ \/ PayeeExpiration(i, b) = PayerExpiration
              \/ PayeeExpiration(i, b) = b + MinOf(PayerSettleTimeout, Routes[i].settle)
<1>0. Routes[i] \in RouteType
  BY MediatorAssumption
<1>1. Routes[i].settle \in Nat /\ PayerExpiration \in Nat /\ PayerSettleTimeout \in Nat
  BY <1>0, MediatorAssumption DEF RouteType
<1> QED BY <1>1 DEF PayeeExpiration, getTimeoutBlocks, MinOf

\* Nobody can claim anything under the locks L.
NoClaim(L) ==
    \A i \in 1..Len(Routes) : L[i] # "paid" /\ (L[i] = "locked" => i \in canPunish')

\* The actions that route keep types and hops.
LEMMA RoutingStep ==
    ASSUME TypeOK, HopInv, NEW L \in [1..Len(Routes) -> LockStates],
           NoClaim(L), canPunish' \subseteq 1..Len(Routes),
           \A i \in 1..Len(Routes) : i >= next => L[i] = "none",
           NewHop(L) \/ NoHop(L), manager' = Manager(pair'),
           UNCHANGED <<blockNumber, secret, revealed, heard, chainVars, tx>>
    PROVE  TypeOK' /\ HopInv'
<1>0. /\ next \in 1..(Len(Routes) + 1) /\ Len(Routes) \in Nat /\ blockNumber \in Nat
      /\ UNCHANGED <<blockNumber, secret, revealed, heard, closed, height,
                     registered, eventDue, tx>>
  BY MediatorAssumption DEF TypeOK, chainVars
<1>1. CASE NoHop(L)
  <2>1. pair' = NoPair /\ NoPair \in PairType
    BY <1>0, <1>1 DEF NoHop, NoPair, PairType, PayerStates, PayeeStates
  <2>2. /\ next' \in next..(Len(Routes) + 1) /\ payeeLock' = L
        /\ payerLock' = "disposed" /\ manager' = "removed"
    BY <1>1, <2>1 DEF NoHop, Manager, Finalized
  <2>3. TypeOK'
    BY <1>0, <2>1, <2>2 DEF TypeOK, PairType, LockStates
  <2>4. HopInv'
    BY <1>0, <2>1, <2>2 DEF HopInv, RouteOf, NoPair, Claimable, NoClaim
  <2> QED BY <2>3, <2>4
<1>2. CASE NewHop(L)
  <2>1. PICK i \in next..Len(Routes) :
            /\ next' = i + 1
            /\ getTimeoutBlocks(blockNumber) > 0
            /\ pair' = [route |-> i, expiration |-> PayeeExpiration(i, blockNumber),
                        payer |-> "Pending", payee |-> "Pending"]
            /\ payeeLock' = [L EXCEPT ![i] = "locked"]
            /\ payerLock' = "locked"
    BY <1>2 DEF NewHop
  <2>2. i \in 1..Len(Routes) /\ PayeeExpiration(i, blockNumber) \in Nat
    BY <1>0, <2>1, PayeeExpirationBounds
  <2>3. /\ pair' \in PairType /\ pair'.route = i
        /\ pair'.payee = "Pending" /\ pair' # NoPair
    BY <2>1, <2>2 DEF PairType, PayerStates, PayeeStates, NoPair
  <2>4. manager' = "running"
    BY <2>3 DEF Manager, Finalized, Paid
  <2>5. payeeLock' \in [1..Len(Routes) -> LockStates]
    BY <2>1, <2>2 DEF LockStates
  <2>6. \A j \in 1..Len(Routes) :
            payeeLock'[j] = IF j = i THEN "locked" ELSE L[j]
    BY <2>1, <2>2
  <2>7. TypeOK'
    BY <1>0, <2>1, <2>2, <2>3, <2>4, <2>5 DEF TypeOK, PairType, LockStates
  <2>8. HopInv'
    BY <1>0, <2>1, <2>2, <2>3, <2>4, <2>6 DEF HopInv, RouteOf, Claimable, NoClaim
  <2> QED BY <2>7, <2>8
<1> QED BY <1>1, <1>2

\* The actions on the current hop pay or remove its lock at most.
LockStep(p) ==
    \/ payeeLock' = payeeLock
    \/ /\ payeeLock[p.route] = "locked"
       /\ \E x \in {"paid", "removed"} :
             payeeLock' = [payeeLock EXCEPT ![p.route] = x]

LEMMA SameHopStep ==
    ASSUME TypeOK, HopInv, manager = "running", next' = next, canPunish' = canPunish,
           SameHop(pair, pair'), LockStep(pair),
           \/ payerLock' = payerLock
           \/ payerLock' = "paid" /\ manager' = "removed",
           manager' \in {"running", "removed"}
    PROVE  /\ HopInv' /\ payerLock' \in LockStates
           /\ payeeLock' \in [1..Len(Routes) -> LockStates]
<1>0. /\ pair \in PairType /\ pair' \in PairType /\ Len(Routes) \in Nat
      /\ next \in 1..(Len(Routes) + 1)
      /\ payeeLock \in [1..Len(Routes) -> LockStates]
      /\ payerLock = "locked" /\ pair # NoPair
  BY MediatorAssumption DEF TypeOK, PairType, SameHop, HopInv
<1>1. pair.route \in 1..Len(Routes) /\ pair'.route = pair.route /\ pair' # NoPair
  BY <1>0 DEF HopInv, RouteOf, SameHop, NoPair
<1>2. /\ payeeLock' \in [1..Len(Routes) -> LockStates]
      /\ \A i \in 1..Len(Routes) : i # pair.route => payeeLock'[i] = payeeLock[i]
  BY <1>0, <1>1 DEF LockStep, LockStates
<1>3. payerLock' \in {"locked", "paid"} /\ (manager' = "running" => payerLock' = "locked")
  BY <1>0
<1>4. \A i \in 1..Len(Routes) : i >= next' => payeeLock'[i] = "none"
  BY <1>0, <1>1, <1>2 DEF HopInv
<1>5. \A i \in 1..Len(Routes) :
          Claimable(i)' => i = pair'.route
  BY <1>0, <1>1, <1>2 DEF HopInv, Claimable
<1>6. pair'.route < next'
  BY <1>1 DEF HopInv
<1>7. HopInv'
  BY <1>1, <1>3, <1>4, <1>5, <1>6 DEF HopInv, RouteOf, Claimable
<1> QED BY <1>2, <1>3, <1>7 DEF LockStates

\* A payment is a step of the current hop's lock.
LEMMA PayPayeeStep ==
    ASSUME NEW p, payeeLock' = PayPayee(p)
    PROVE  LockStep(p)
BY DEF PayPayee, LockStep

\* A payee's refusal that is taken leaves no lock that can be claimed, and
\* the next route is tried with what is left.
LEMMA DisposalRoutes ==
    ASSUME TypeOK, HopInv, NEW i \in 1..Len(Routes), NEW tooMany \in BOOLEAN,
           messageAnnounceDisposed(i, tooMany), CancelsRoute(i)
    PROVE  \E L \in [1..Len(Routes) -> LockStates] :
              /\ NoClaim(L) /\ \A j \in 1..Len(Routes) : j >= next => L[j] = "none"
              /\ NewHop(L) \/ NoHop(L)
              /\ manager' = Manager(pair')
              /\ UNCHANGED <<blockNumber, secret, revealed, heard, chainVars, tx>>
<1> DEFINE L == IF pair.route \in closed THEN payeeLock
                ELSE [payeeLock EXCEPT ![pair.route] = "disposed"]
<1>0. /\ Len(Routes) \in Nat /\ next \in 1..(Len(Routes) + 1) /\ i = pair.route
      /\ payeeLock \in [1..Len(Routes) -> LockStates] /\ payeeLock[i] = "locked"
      /\ canPunish' = canPunish \cup {i}
  BY MediatorAssumption DEF TypeOK, messageAnnounceDisposed, CancelsRoute, IsValidRefund
<1>1. /\ handleAnnouceDisposed(tooMany) /\ blockNumber' = blockNumber
      /\ UNCHANGED <<blockNumber, secret, revealed, heard, chainVars, tx>>
  BY DEF messageAnnounceDisposed
<1>2. manager' = Manager(pair')
  BY <1>1 DEF handleAnnouceDisposed
<1>3. NewHop(L) \/ NoHop(L)
  <2>1. CASE Payer \in closed
    BY <1>0, <1>1, <2>1 DEF handleAnnouceDisposed, cancelCurrentRoute, NoHop
  <2>2. CASE Payer \notin closed
    <3>1. mediateTransfer(L, tooMany)
      BY <1>1, <2>2 DEF handleAnnouceDisposed, cancelCurrentRoute
    <3> QED BY <1>1, <3>1, MediateTransferCases
  <2> QED BY <2>1, <2>2
<1>4. /\ L \in [1..Len(Routes) -> LockStates]
      /\ \A j \in 1..Len(Routes) : j # i => L[j] = payeeLock[j]
      /\ L[i] \in {"locked", "disposed"}
  BY <1>0 DEF LockStates
<1> HIDE DEF L
<1>5. NoClaim(L)
  BY <1>0, <1>4 DEF HopInv, NoClaim, Claimable
<1>6. \A j \in 1..Len(Routes) : j >= next => L[j] = "none"
  BY <1>0, <1>4 DEF HopInv
<1> QED BY <1>1, <1>2, <1>3, <1>4, <1>5, <1>6

\* Every step keeps the types and the hops.
LEMMA HopStep ==
    ASSUME TypeOK, HopInv, [Next]_vars
    PROVE  TypeOK' /\ HopInv'
<1>0. /\ pair \in PairType /\ Len(Routes) \in Nat /\ next \in 1..(Len(Routes) + 1)
      /\ payeeLock \in [1..Len(Routes) -> LockStates] /\ blockNumber \in Nat
  BY MediatorAssumption DEF TypeOK, PairType
<1>1. ASSUME NEW tooMany \in BOOLEAN, ActionInitMediator(tooMany)
      PROVE  TypeOK' /\ HopInv'
  <2>1. /\ manager = "none" /\ manager' = Manager(pair') /\ blockNumber' = blockNumber
        /\ mediateTransfer(payeeLock, tooMany)
        /\ UNCHANGED <<blockNumber, secret, canPunish, revealed, heard, chainVars, tx>>
    BY <1>1 DEF ActionInitMediator
  <2>2. NewHop(payeeLock) \/ NoHop(payeeLock)
    BY <2>1, MediateTransferCases
  <2>3. /\ NoClaim(payeeLock) /\ canPunish' \subseteq 1..Len(Routes)
        /\ \A i \in 1..Len(Routes) : i >= next => payeeLock[i] = "none"
    BY <2>1 DEF HopInv, NoClaim, TypeOK
  <2> QED BY <1>0, <2>1, <2>2, <2>3, RoutingStep
<1>2. ASSUME NEW i \in 1..Len(Routes), NEW tooMany \in BOOLEAN,
             messageAnnounceDisposed(i, tooMany)
      PROVE  TypeOK' /\ HopInv'
  <2>1. canPunish' = canPunish \cup {i} /\ canPunish' \subseteq 1..Len(Routes)
    BY <1>2 DEF messageAnnounceDisposed, TypeOK
  <2>2. CASE CancelsRoute(i)
    BY <1>0, <1>2, <2>1, <2>2, DisposalRoutes, RoutingStep
  <2>3. CASE ~CancelsRoute(i)
    <3>1. UNCHANGED <<manager, next, pair, payerLock, payeeLock, blockNumber, secret,
                      revealed, heard, closed, height, registered, eventDue, tx>>
      BY <1>2, <2>3 DEF messageAnnounceDisposed, chainVars
    <3>2. TypeOK'
      BY <2>1, <3>1 DEF TypeOK
    <3>3. \A j \in 1..Len(Routes) : Claimable(j)' => Claimable(j)
      BY <2>1, <3>1 DEF Claimable
    <3>4. HopInv'
      BY <3>1, <3>3 DEF HopInv, RouteOf, Claimable
    <3> QED BY <3>2, <3>4
  <2> QED BY <2>2, <2>3
<1>3. ASSUME NEW i \in 1..Len(Routes), handleSecretReveal(i)
      PROVE  TypeOK' /\ HopInv'
  <2> DEFINE p0 == setPayeeStateAndCheckRevealOrder(pair, i)
             p1 == eventsForRevealSecret(p0, blockNumber)
             p2 == eventsForBalanceProof(p1, blockNumber)
             p3 == eventsForRegisterSecret(p2, blockNumber)
  <2>1. SameHop(pair, p0) /\ SameHop(p0, p1) /\ SameHop(p1, p2) /\ SameHop(p2, p3)
    <3>1. SameHop(pair, p0)
      BY <1>0, StepsKeepHop
    <3> HIDE DEF p0
    <3>2. SameHop(p0, p1)
      BY <3>1, StepsKeepHop DEF SameHop
    <3> HIDE DEF p1
    <3>3. SameHop(p1, p2)
      BY <3>2, StepsKeepHop DEF SameHop
    <3> HIDE DEF p2
    <3>4. SameHop(p2, p3)
      BY <3>3, StepsKeepHop DEF SameHop
    <3> QED BY <3>1, <3>2, <3>3, <3>4
  <2>2. /\ manager = "running" /\ heard' = heard \cup {i} /\ blockNumber' = blockNumber
        /\ secret' = TRUE /\ pair' = p3 /\ revealed' = (revealed \/ p1.payer # p0.payer)
        /\ payeeLock' = IF p2.payee # p1.payee THEN PayPayee(p2) ELSE payeeLock
        /\ manager' = Manager(p3) /\ RegisterTx(p2, p3, TRUE)
        /\ next' = next /\ payerLock' = payerLock
        /\ UNCHANGED <<canPunish, closed, height, registered, eventDue>>
    BY <1>3 DEF handleSecretReveal, chainVars
  <2> HIDE DEF p0, p1, p2, p3
  <2>3. SameHop(pair, pair')
    BY <2>1, <2>2 DEF SameHop
  <2>4. LockStep(pair)
    <3>1. p2.route = pair.route
      BY <2>1 DEF SameHop
    <3> QED BY <2>2, <3>1 DEF PayPayee, LockStep
  <2>5. manager' \in {"running", "removed"}
    BY <2>2 DEF Manager
  <2>6. /\ HopInv' /\ payerLock' \in LockStates
        /\ payeeLock' \in [1..Len(Routes) -> LockStates]
    BY <2>2, <2>3, <2>4, <2>5, SameHopStep
  <2>7. tx' \in Nat
    BY <1>0, <2>2, MediatorAssumption DEF RegisterTx, TypeOK
  <2>8. secret' \in BOOLEAN /\ revealed' \in BOOLEAN
    BY <2>2
  <2> QED BY <2>2, <2>3, <2>5, <2>6, <2>7, <2>8 DEF TypeOK, SameHop, PairType
<1>4. CASE handleBalanceProof
  <2>1. /\ payerLock = "locked" /\ payerLock' = "paid" /\ (revealed \/ registered # 0)
        /\ UNCHANGED <<blockNumber, next, canPunish, revealed, heard, closed, height,
                       registered, eventDue, tx>>
    BY <1>4 DEF handleBalanceProof, chainVars
  <2>2. CASE manager = "running" /\ pair # NoPair
    <3>1. /\ secret' = TRUE
          /\ pair' = [pair EXCEPT !.payee = "BalanceProof", !.payer = "BalanceProof"]
          /\ payeeLock' = IF Paid(pair.payee) THEN payeeLock ELSE PayPayee(pair)
          /\ manager' = Manager(pair')
      BY <1>4, <2>2 DEF handleBalanceProof
    <3>2. /\ SameHop(pair, pair') /\ pair'.payee = "BalanceProof"
          /\ pair'.payer = "BalanceProof"
      BY <1>0, <3>1 DEF SameHop, PairType, PayerStates, PayeeStates
    <3>3. manager' = "removed"
      BY <3>1, <3>2 DEF Manager, Finalized, Paid
    <3>4. LockStep(pair)
      BY <3>1, PayPayeeStep DEF LockStep
    <3>5. /\ HopInv' /\ payerLock' \in LockStates
          /\ payeeLock' \in [1..Len(Routes) -> LockStates]
      BY <2>1, <2>2, <3>2, <3>3, <3>4, SameHopStep
    <3>6. secret' \in BOOLEAN
      BY <3>1
    <3> QED BY <2>1, <3>2, <3>3, <3>5, <3>6 DEF TypeOK, SameHop, PairType
  <2>3. CASE ~(manager = "running" /\ pair # NoPair)
    <3>1. UNCHANGED <<secret, pair, payeeLock, manager>>
      BY <1>4, <2>3 DEF handleBalanceProof
    <3>2. manager = "removed"
      BY <2>1, <2>3 DEF HopInv, TypeOK
    <3>3. TypeOK'
      BY <2>1, <3>1 DEF TypeOK, LockStates
    <3>4. HopInv'
      BY <2>1, <3>1, <3>2 DEF HopInv, RouteOf, Claimable
    <3> QED BY <3>3, <3>4
  <2> QED BY <2>2, <2>3
<1>5. CASE handleSecretRevealOnChain
  <2>1. /\ eventDue /\ eventDue' = FALSE
        /\ UNCHANGED <<blockNumber, next, payerLock, canPunish, revealed, heard, closed, height,
                       registered, tx>>
    BY <1>5 DEF handleSecretRevealOnChain
  <2>e. eventDue' \in BOOLEAN
    BY <2>1
  <2>2. CASE manager = "running" /\ pair # NoPair
    <3>1. /\ secret' = TRUE
          /\ payeeLock' = IF pair.expiration >= registered THEN PayPayee(pair) ELSE payeeLock
          /\ pair' = [pair EXCEPT
                        !.payee = IF pair.expiration >= registered THEN "BalanceProof" ELSE @,
                        !.payer = IF Payer \in closed THEN "BalanceProof" ELSE @]
          /\ manager' = Manager(pair')
      BY <1>5, <2>2 DEF handleSecretRevealOnChain
    <3>2. SameHop(pair, pair')
      BY <1>0, <3>1 DEF SameHop, PairType, PayerStates, PayeeStates
    <3>3. manager' \in {"running", "removed"}
      BY <3>1 DEF Manager
    <3>4. LockStep(pair)
      BY <3>1, PayPayeeStep DEF LockStep
    <3>5. /\ HopInv' /\ payerLock' \in LockStates
          /\ payeeLock' \in [1..Len(Routes) -> LockStates]
      BY <2>1, <2>2, <3>2, <3>3, <3>4, SameHopStep
    <3>6. secret' \in BOOLEAN
      BY <3>1
    <3> QED BY <2>1, <2>e, <3>2, <3>3, <3>5, <3>6 DEF TypeOK, SameHop, PairType
  <2>3. CASE ~(manager = "running" /\ pair # NoPair)
    <3>1. UNCHANGED <<secret, pair, payeeLock, manager>>
      BY <1>5, <2>3 DEF handleSecretRevealOnChain
    <3>2. TypeOK'
      BY <2>1, <2>e, <3>1 DEF TypeOK
    <3>3. HopInv'
      BY <2>1, <3>1 DEF HopInv, RouteOf, Claimable
    <3> QED BY <3>2, <3>3
  <2> QED BY <2>2, <2>3
<1>6. CASE handleBlock
  <2> DEFINE b  == MinOf(blockNumber + 1, MaxHeight)
             p1 == eventsForRegisterSecret(pair, b)
             p2 == setExpiredPairs(p1, b)
  <2>1. /\ blockNumber' = b /\ b \in Nat
        /\ UNCHANGED <<next, secret, payerLock, canPunish, revealed, heard, closed, height,
                       registered, eventDue>>
    BY <1>0, <1>6, MediatorAssumption DEF handleBlock, chainVars, MinOf
  <2>2. CASE manager = "running"
    <3>1. SameHop(pair, p1) /\ SameHop(p1, p2)
      <4>1. SameHop(pair, p1)
        BY <1>0, StepsKeepHop
      <4> HIDE DEF p1
      <4>2. SameHop(p1, p2)
        BY <4>1, StepsKeepHop DEF SameHop
      <4> QED BY <4>1, <4>2
    <3>2. /\ pair' = p2 /\ RegisterTx(pair, p1, secret)
          /\ payeeLock' = IF pair = NoPair THEN payeeLock ELSE RemoveExpired(p1, p2)
          /\ manager' = IF IsPending(p1) THEN Manager(p2) ELSE "removed"
      BY <1>6, <2>2 DEF handleBlock
    <3> HIDE DEF b, p1, p2
    <3>3. SameHop(pair, pair')
      BY <3>1, <3>2 DEF SameHop
    <3>4. manager' \in {"running", "removed"}
      BY <3>2 DEF Manager
    <3>5. LockStep(pair)
      BY <3>1, <3>2 DEF RemoveExpired, LockStep, SameHop
    <3>6. /\ HopInv' /\ payerLock' \in LockStates
          /\ payeeLock' \in [1..Len(Routes) -> LockStates]
      BY <2>1, <2>2, <3>3, <3>4, <3>5, SameHopStep
    <3>7. tx' \in Nat
      BY <2>1, <3>2, MediatorAssumption DEF RegisterTx, TypeOK
    <3> QED BY <2>1, <3>3, <3>4, <3>6, <3>7 DEF TypeOK, SameHop, PairType
  <2>3. CASE manager # "running"
    <3>1. UNCHANGED <<pair, tx, payeeLock, manager>>
      BY <1>6, <2>3 DEF handleBlock
    <3> HIDE DEF b, p1, p2
    <3>2. TypeOK'
      BY <2>1, <3>1 DEF TypeOK
    <3>3. HopInv'
      BY <2>1, <3>1 DEF HopInv, RouteOf, Claimable
    <3> QED BY <3>2, <3>3
  <2> QED BY <2>2, <2>3
<1>7. ASSUME NEW withSecret \in BOOLEAN, NewBlock(withSecret)
      PROVE  TypeOK' /\ HopInv'
  <2>1. /\ height' = height + 1 /\ eventDue' = withSecret
        /\ registered' = IF withSecret THEN height + 1 ELSE registered
        /\ withSecret => SecretIsOut
        /\ UNCHANGED <<manager, blockNumber, next, pair, secret, payerLock, payeeLock,
                       canPunish, revealed, heard, closed, tx>>
    BY <1>7 DEF NewBlock
  <2>2. manager = "none" => ~withSecret
    BY <1>0, <2>1 DEF SecretIsOut, HopInv
  <2>3. TypeOK'
    BY <2>1 DEF TypeOK
  <2>4. HopInv'
    BY <2>1, <2>2 DEF HopInv, RouteOf, Claimable
  <2> QED BY <2>3, <2>4
<1>8. ASSUME NEW c \in Channels, CloseChannel(c)
      PROVE  TypeOK' /\ HopInv'
  BY <1>8 DEF CloseChannel, TypeOK, HopInv, RouteOf, Claimable
<1>9. CASE UNCHANGED vars
  BY <1>9 DEF vars, TypeOK, HopInv, RouteOf, Claimable
<1> QED BY <1>1, <1>2, <1>3, <1>4, <1>5, <1>6, <1>7, <1>8, <1>9 DEF Next

\* Types and hops are invariant.
LEMMA HopInvariant == Spec => [](TypeOK /\ HopInv)
<1>1. ASSUME Init PROVE TypeOK /\ HopInv
  <2>1. Len(Routes) \in Nat /\ \A i \in 1..Len(Routes) : payeeLock[i] = "none"
    BY <1>1, MediatorAssumption DEF Init
  <2>2. secret \in BOOLEAN /\ revealed \in BOOLEAN /\ eventDue \in BOOLEAN
    BY <1>1 DEF Init
  <2>3. pair \in PairType
    BY <1>1, <2>1 DEF Init, NoPair, PairType, PayerStates, PayeeStates
  <2>4. TypeOK
    BY <1>1, <2>1, <2>2, <2>3 DEF Init, TypeOK, PairType, LockStates
  <2>5. HopInv
    BY <1>1, <2>1 DEF Init, HopInv, RouteOf, NoPair, Claimable
  <2> QED BY <2>4, <2>5
<1>2. TypeOK /\ HopInv /\ [Next]_vars => TypeOK' /\ HopInv'
  BY HopStep
<1> QED BY <1>1, <1>2, PTL DEF Spec

\* The payer and payee states are always among those sanityCheck accepts, and
\* every other variable has its type.
THEOREM TypeCorrect == Spec => []TypeOK
BY HopInvariant, PTL

\* With any list of routes, whatever the payees refuse, reveal or let expire,
\* and whichever channels are closed, of all the hops that were tried at most
\* one can claim or was paid.
THEOREM OnePayeeTheorem == Spec => []OnePayee
<1>1. TypeOK /\ HopInv => OnePayee
  BY DEF TypeOK, HopInv, OnePayee
<1> QED BY <1>1, HopInvariant, PTL

\* The mediator gives the payer's lock up only when no payee can be paid.
THEOREM DisposedTheorem == Spec => []DisposedMeansNoPayee
<1>1. TypeOK /\ HopInv => DisposedMeansNoPayee
  BY DEF TypeOK, HopInv, DisposedMeansNoPayee
<1> QED BY <1>1, HopInvariant, PTL

(***************************************************************************)
(* The cover of a paid payee.  The node is at most one block behind, its   *)
(* registration is mined before its deadline, and until it is asked for    *)
(* the pair shows the payee as paid while there is time left.              *)
(***************************************************************************)
ChainInv ==
    /\ 1 <= blockNumber /\ blockNumber <= height /\ height <= blockNumber + 1
    /\ height <= MaxHeight \/ height = 1
    /\ registered <= height
    /\ eventDue => registered = height /\ height = blockNumber + 1

TxInv ==
    /\ tx # 0 /\ registered = 0 => height < tx
    /\ tx <= blockNumber + RevealTimeout

PairInv ==
    /\ pair # NoPair =>
          /\ pair.expiration <= PayerExpiration
          /\ PayerExpiration <=
                pair.expiration + ForkConfirmNumber + RevealTimeout + 1
    /\ pair.payer = "Expired" => blockNumber > PayerExpiration
    /\ pair.payer = "WaitingRegisterSecret" =>
          Payer \in closed \/ tx # 0 \/ registered # 0
    /\ manager = "running" /\ registered = 0 =>
          /\ pair.payer # "BalanceProof"
          /\ pair.route \notin heard => pair.payee \in {"Pending", "Expired"}
    /\ heard # {} => secret

\* Somebody was paid.
PayeePaid == \E i \in 1..Len(Routes) : payeeLock[i] = "paid"

\* The registration has been asked for in time, or will be.
Covered ==
    \/ payerLock = "paid"
    \/ registered \in 1..PayerExpiration
    \/ registered = 0 /\ tx # 0 /\ tx <= PayerExpiration
    \/ /\ registered = 0 /\ tx = 0
       /\ manager = "running" /\ secret /\ pair.route \in heard
       /\ pair.payee = "BalanceProof"
       /\ pair.payer \in {"Pending", "SecretRevealed"}
       /\ blockNumber < PayerExpiration - RevealTimeout

CoverInv == ChainInv /\ TxInv /\ PairInv /\ (PayeePaid => Covered)

\* The next hops' locks outlive the moment at which the secret is registered,
\* even when they are made in the first block.
LocksLastLongEnough ==
    \A i \in 1..Len(Routes) :
        PayerExpiration <= 1 + MinOf(PayerSettleTimeout, Routes[i].settle)
                             + ForkConfirmNumber + RevealTimeout + 1
\* What every step may use.
CoverContext ==
    /\ TypeOK /\ HopInv /\ CoverInv
    /\ RevealTimeout >= 2 /\ LocksLastLongEnough

\* The numbers of a state are natural numbers.
LEMMA NumberTypes ==
    ASSUME TypeOK
    PROVE  /\ blockNumber \in Nat /\ height \in Nat /\ registered \in Nat /\ tx \in Nat
           /\ pair \in PairType /\ pair.expiration \in Nat
           /\ PayerExpiration \in Nat /\ RevealTimeout \in Nat
           /\ ForkConfirmNumber \in Nat /\ MaxHeight \in Nat /\ Len(Routes) \in Nat
BY MediatorAssumption DEF TypeOK, PairType

\* A new lock expires late enough for the secret to be registered first.
LEMMA NewLockLastsLongEnough ==
    ASSUME NEW i \in 1..Len(Routes), NEW b \in Nat, b >= 1,
           getTimeoutBlocks(b) > 0, LocksLastLongEnough
    PROVE  PayerExpiration <= PayeeExpiration(i, b) + ForkConfirmNumber + RevealTimeout + 1
<1>1. Routes[i] \in RouteType
  BY MediatorAssumption
<1>2. /\ Routes[i].settle \in Nat /\ PayerExpiration \in Nat /\ PayerSettleTimeout \in Nat
      /\ ForkConfirmNumber \in Nat /\ RevealTimeout \in Nat
  BY <1>1, MediatorAssumption DEF RouteType
<1> DEFINE m == MinOf(PayerSettleTimeout, Routes[i].settle)
<1>3. m \in Nat
  BY <1>2 DEF MinOf
<1>4. PayerExpiration <= 1 + m + ForkConfirmNumber + RevealTimeout + 1
  BY DEF LocksLastLongEnough
<1>5. PayeeExpiration(i, b) \in Nat
      /\ (PayeeExpiration(i, b) = PayerExpiration \/ PayeeExpiration(i, b) = b + m)
  BY PayeeExpirationBounds
<1> HIDE DEF m
<1> QED BY <1>2, <1>3, <1>4, <1>5

\* Routing starts with nobody paid.
LEMMA RoutingCover ==
    ASSUME CoverContext, NEW L \in [1..Len(Routes) -> LockStates], NoClaim(L),
           NewHop(L) \/ NoHop(L), manager' = Manager(pair'),
           UNCHANGED <<blockNumber, secret, revealed, heard, chainVars, tx>>
    PROVE  CoverInv'
<1>0. UNCHANGED <<blockNumber, secret, heard, closed, height, registered, eventDue, tx>>
  BY DEF chainVars
<1>1. ChainInv' /\ TxInv'
  BY <1>0 DEF CoverContext, CoverInv, ChainInv, TxInv
<1>2. CASE NoHop(L)
  <2>1. pair' = NoPair /\ payeeLock' = L /\ manager' = "removed"
    BY <1>2 DEF NoHop, Manager, Finalized
  <2>2. PairInv'
    BY <1>0, <2>1 DEF CoverContext, CoverInv, PairInv, NoPair
  <2>3. ~PayeePaid'
    BY <2>1 DEF PayeePaid, NoClaim
  <2> QED BY <1>1, <2>2, <2>3 DEF CoverInv
<1>3. CASE NewHop(L)
  <2>1. PICK i \in next..Len(Routes) :
            /\ getTimeoutBlocks(blockNumber) > 0
            /\ pair' = [route |-> i, expiration |-> PayeeExpiration(i, blockNumber),
                        payer |-> "Pending", payee |-> "Pending"]
            /\ payeeLock' = [L EXCEPT ![i] = "locked"]
    BY <1>3 DEF NewHop
  <2>2. i \in 1..Len(Routes) /\ blockNumber \in Nat /\ blockNumber >= 1
    BY NumberTypes DEF CoverContext, TypeOK, CoverInv, ChainInv
  <2>3. /\ PayeeExpiration(i, blockNumber) <= PayerExpiration
        /\ PayerExpiration <= PayeeExpiration(i, blockNumber) + ForkConfirmNumber
                                + RevealTimeout + 1
    BY <2>1, <2>2, PayeeExpirationBounds, NewLockLastsLongEnough DEF CoverContext
  <2>4. pair'.payer = "Pending" /\ pair'.payee = "Pending"
        /\ pair'.expiration = PayeeExpiration(i, blockNumber)
    BY <2>1
  <2>5. PairInv'
    BY <1>0, <2>3, <2>4 DEF CoverContext, CoverInv, PairInv
  <2>6. ~PayeePaid'
    BY <2>1, <2>2 DEF PayeePaid, NoClaim
  <2> QED BY <1>1, <2>5, <2>6 DEF CoverInv
<1> QED BY <1>2, <1>3

\* A RevealSecret: the payee is paid only with time to register the secret.
LEMMA RevealCover ==
    ASSUME CoverContext, NEW i \in 1..Len(Routes), handleSecretReveal(i)
    PROVE  CoverInv'
<1>p. PICK p0, p1, p2, p3 :
          /\ p0 = setPayeeStateAndCheckRevealOrder(pair, i)
          /\ p1 = eventsForRevealSecret(p0, blockNumber)
          /\ p2 = eventsForBalanceProof(p1, blockNumber)
          /\ p3 = eventsForRegisterSecret(p2, blockNumber)
  OBVIOUS
<1>0. /\ blockNumber \in Nat /\ height \in Nat /\ registered \in Nat /\ tx \in Nat
      /\ pair \in PairType /\ pair.expiration \in Nat
      /\ PayerExpiration \in Nat /\ RevealTimeout \in Nat /\ RevealTimeout >= 2
      /\ ChainInv /\ TxInv /\ PairInv /\ (PayeePaid => Covered)
  BY NumberTypes DEF CoverContext, CoverInv
<1>1. /\ manager = "running" /\ pair # NoPair /\ i \notin heard /\ heard' = heard \cup {i}
      /\ blockNumber' = blockNumber /\ secret' = TRUE /\ pair' = p3
      /\ payeeLock' = IF p2.payee # p1.payee THEN PayPayee(p2) ELSE payeeLock
      /\ RegisterTx(p2, p3, TRUE) /\ manager' = Manager(p3) /\ payerLock' = payerLock
      /\ UNCHANGED <<closed, height, registered, eventDue>>
  BY <1>p DEF handleSecretReveal, chainVars
<1>2. payerLock = "locked" /\ pair.route \in 1..Len(Routes)
  BY <1>1 DEF CoverContext, HopInv, RouteOf
<1>3. SameHop(pair, p0) /\ SameHop(p0, p1) /\ SameHop(p1, p2) /\ SameHop(p2, p3)
  <2>1. SameHop(pair, p0)
    BY <1>0, <1>p, StepsKeepHop
  <2>2. SameHop(p0, p1)
    BY <1>p, <2>1, StepsKeepHop DEF SameHop
  <2>3. SameHop(p1, p2)
    BY <1>p, <2>2, StepsKeepHop DEF SameHop
  <2>4. SameHop(p2, p3)
    BY <1>p, <2>3, StepsKeepHop DEF SameHop
  <2> QED BY <2>1, <2>2, <2>3, <2>4
<1>4. /\ p0 \in PairType /\ p1 \in PairType /\ p2 \in PairType /\ p3 \in PairType
      /\ p0.route = pair.route /\ p1.route = pair.route /\ p2.route = pair.route
      /\ p3.route = pair.route /\ p3.expiration = pair.expiration
      /\ p0 # NoPair /\ p1 # NoPair /\ p2 # NoPair /\ p3 # NoPair
  BY <1>2, <1>3 DEF SameHop, NoPair
\* the payer's and payee's states after each step
<1>5. /\ p0.payer = pair.payer
      /\ p0.payee = IF pair.route = i THEN "SecretRevealed" ELSE pair.payee
  BY <1>0, <1>p DEF setPayeeStateAndCheckRevealOrder, PairType
<1>6. /\ p1.payee = p0.payee
      /\ p1.payer = IF SecretKnown(p0.payee) /\ ~SecretKnown(p0.payer)
                       /\ blockNumber <= PayerExpiration
                    THEN "SecretRevealed" ELSE p0.payer
  BY <1>4, <1>p DEF eventsForRevealSecret, PairType
<1>7. /\ p2.payer = p1.payer
      /\ \/ p2.payee = p1.payee
         \/ /\ p2.payee = "BalanceProof" /\ Payer \notin closed
            /\ SecretKnown(p1.payee) /\ ~Paid(p1.payee)
            /\ blockNumber <= PayerExpiration - RevealTimeout
  BY <1>4, <1>p DEF eventsForBalanceProof, PairType
<1>8. /\ p3.payee = p2.payee
      /\ \/ /\ IsPending(p2) /\ isSecretRegisterNeeded(p2, blockNumber)
            /\ p3.payer = "WaitingRegisterSecret"
         \/ /\ ~(IsPending(p2) /\ isSecretRegisterNeeded(p2, blockNumber))
            /\ p3.payer = p2.payer
  BY <1>4, <1>p DEF eventsForRegisterSecret, PairType
<1>9. tx' = IF /\ p3.payer = "WaitingRegisterSecret" /\ p2.payer # p3.payer
               /\ registered = 0 /\ tx = 0
            THEN blockNumber + RevealTimeout ELSE tx
  BY <1>1 DEF RegisterTx
<1>10. ChainInv'
  BY <1>0, <1>1 DEF ChainInv
<1>11. TxInv'
  BY <1>0, <1>1, <1>9 DEF TxInv, ChainInv
<1>12. PairInv'
  <2>1. /\ pair'.expiration = pair.expiration /\ heard' # {} /\ secret'
        /\ pair'.route = pair.route
    BY <1>1, <1>4
  <2>2. pair'.payer = "Expired" => blockNumber > PayerExpiration
    BY <1>0, <1>1, <1>5, <1>6, <1>7, <1>8 DEF PairInv
  <2>3. pair'.payer = "WaitingRegisterSecret" =>
            Payer \in closed \/ tx' # 0 \/ registered # 0
    BY <1>0, <1>1, <1>5, <1>6, <1>7, <1>8, <1>9 DEF PairInv
  <2>4. registered = 0 => pair'.payer # "BalanceProof"
    BY <1>0, <1>1, <1>5, <1>6, <1>7, <1>8 DEF PairInv
  <2>5. registered = 0 /\ pair.route \notin heard' => pair'.payee \in {"Pending", "Expired"}
    BY <1>0, <1>1, <1>5, <1>6, <1>7, <1>8 DEF PairInv, SecretKnown
  <2> QED BY <1>0, <1>1, <2>1, <2>2, <2>3, <2>4, <2>5 DEF PairInv
<1>13. ASSUME PayeePaid' PROVE Covered'
  <2>1. CASE p2.payee # p1.payee
    <3>1. /\ p2.payee = "BalanceProof" /\ Payer \notin closed /\ SecretKnown(p1.payee)
          /\ blockNumber <= PayerExpiration - RevealTimeout
      BY <1>7, <2>1
    <3>2. CASE registered # 0
      BY <1>0, <1>1, <3>1, <3>2 DEF Covered, ChainInv
    <3>3. CASE registered = 0
      <4>1. pair.payee \notin {"Pending", "Expired"} \/ pair.route = i
        BY <1>5, <1>6, <3>1 DEF SecretKnown
      <4>2. pair.route \in heard'
        BY <1>0, <1>1, <3>3, <4>1 DEF PairInv
      <4>3. p1.payer \in {"SecretRevealed", "WaitingRegisterSecret"}
        BY <1>0, <1>1, <1>5, <1>6, <3>1, <3>3 DEF PairInv, SecretKnown
      <4>4. CASE tx' # 0
        <5>1. tx' <= blockNumber + RevealTimeout
          BY <1>1, <1>11 DEF TxInv
        <5> QED BY <1>0, <1>1, <1>9, <3>1, <3>3, <4>4, <5>1 DEF Covered
      <4>5. CASE tx' = 0
        <5>1. tx = 0 /\ p1.payer = "SecretRevealed"
          BY <1>0, <1>5, <1>6, <1>9, <3>1, <3>3, <4>3, <4>5 DEF PairInv
        <5>2. IsPending(p2)
          BY <1>4, <1>7, <5>1 DEF IsPending, Final
        <5>3. ~isSecretRegisterNeeded(p2, blockNumber)
          BY <1>0, <1>7, <1>8, <1>9, <3>3, <4>5, <5>1, <5>2
        <5>4. blockNumber < PayerExpiration - RevealTimeout
          BY <1>0, <1>7, <3>1, <5>1, <5>3 DEF isSecretRegisterNeeded, Paid, IsSafeToWait
        <5>5. p3.payer = "SecretRevealed" /\ p3.payee = "BalanceProof"
          BY <1>7, <1>8, <3>1, <5>1, <5>3
        <5>6. manager' = "running"
          BY <1>1, <1>4, <5>5 DEF Manager, Finalized, Paid
        <5> QED BY <1>1, <1>4, <3>3, <4>2, <4>5, <5>4, <5>5, <5>6 DEF Covered
      <4> QED BY <4>4, <4>5
    <3> QED BY <3>2, <3>3
  <2>2. CASE p2.payee = p1.payee
    <3>1. PayeePaid
      BY <1>1, <1>13, <2>2 DEF PayeePaid
    <3>2. CASE registered # 0 \/ tx # 0
      BY <1>0, <1>1, <1>2, <1>9, <3>1, <3>2 DEF Covered
    <3>3. CASE registered = 0 /\ tx = 0
      <4>1. /\ pair.route \in heard /\ pair.payee = "BalanceProof"
            /\ pair.payer \in {"Pending", "SecretRevealed"}
            /\ blockNumber < PayerExpiration - RevealTimeout
        BY <1>0, <1>2, <3>1, <3>3 DEF Covered
      <4>2. p2.payee = "BalanceProof" /\ p2.payer = "SecretRevealed"
        BY <1>0, <1>1, <1>5, <1>6, <1>7, <2>2, <4>1 DEF SecretKnown
      <4>3. CASE p3.payer = "WaitingRegisterSecret"
        BY <1>0, <1>1, <1>9, <3>3, <4>1, <4>2, <4>3 DEF Covered
      <4>4. CASE p3.payer = p2.payer
        <5>1. manager' = "running"
          BY <1>1, <1>4, <4>2, <4>4 DEF Manager, Finalized, Paid
        <5>2. tx' = 0
          BY <1>9, <3>3, <4>4
        <5> QED BY <1>1, <1>4, <1>8, <3>3, <4>1, <4>2, <4>4, <5>1, <5>2 DEF Covered
      <4> QED BY <1>8, <4>3, <4>4
    <3> QED BY <3>2, <3>3
  <2> QED BY <2>1, <2>2
<1> QED BY <1>10, <1>11, <1>12, <1>13 DEF CoverInv

\* A block: the secret is registered before the payee's lock is forgotten.
LEMMA BlockCover ==
    ASSUME CoverContext, handleBlock
    PROVE  CoverInv'
<1>p. PICK b, p1, p2 :
          /\ b = MinOf(blockNumber + 1, MaxHeight)
          /\ p1 = eventsForRegisterSecret(pair, b)
          /\ p2 = setExpiredPairs(p1, b)
  OBVIOUS
<1>0. /\ blockNumber \in Nat /\ height \in Nat /\ registered \in Nat /\ tx \in Nat
      /\ pair \in PairType /\ pair.expiration \in Nat
      /\ PayerExpiration \in Nat /\ RevealTimeout \in Nat /\ RevealTimeout >= 2
      /\ ForkConfirmNumber \in Nat /\ MaxHeight \in Nat
      /\ ChainInv /\ TxInv /\ PairInv /\ (PayeePaid => Covered)
  BY NumberTypes DEF CoverContext, CoverInv
<1>1. /\ blockNumber < height \/ height = MaxHeight
      /\ ~eventDue /\ blockNumber' = b
      /\ UNCHANGED <<secret, payerLock, heard, closed, height, registered, eventDue>>
  BY <1>p DEF handleBlock, chainVars
<1>2. b = height /\ b >= blockNumber /\ b <= blockNumber + 1
  BY <1>0, <1>1, <1>p DEF ChainInv, MinOf
<1>3. ChainInv'
  BY <1>0, <1>1, <1>2 DEF ChainInv
<1>4. CASE manager # "running"
  <2>1. UNCHANGED <<pair, tx, payeeLock, manager>>
    BY <1>4 DEF handleBlock
  <2>2. TxInv'
    BY <1>0, <1>1, <1>2, <2>1 DEF TxInv
  <2>3. PairInv'
    BY <1>0, <1>1, <1>2, <2>1 DEF PairInv
  <2>4. PayeePaid' => Covered'
    BY <1>0, <1>1, <1>4, <2>1 DEF PayeePaid, Covered
  <2> QED BY <1>3, <2>2, <2>3, <2>4 DEF CoverInv
<1>5. CASE manager = "running"
  <2>1. /\ pair' = p2 /\ RegisterTx(pair, p1, secret)
        /\ payeeLock' = IF pair = NoPair THEN payeeLock ELSE RemoveExpired(p1, p2)
        /\ manager' = IF IsPending(p1) THEN Manager(p2) ELSE "removed"
    BY <1>5, <1>p DEF handleBlock
  <2>2. pair # NoPair /\ payerLock = "locked" /\ pair.route \in 1..Len(Routes)
    BY <1>5 DEF CoverContext, HopInv, RouteOf
  <2>3. SameHop(pair, p1) /\ SameHop(p1, p2)
    <3>1. SameHop(pair, p1)
      BY <1>0, <1>p, StepsKeepHop
    <3> QED BY <1>p, <3>1, StepsKeepHop DEF SameHop
  <2>4. /\ p1 \in PairType /\ p2 \in PairType /\ p1 # NoPair /\ p2 # NoPair
        /\ p1.expiration = pair.expiration /\ p2.expiration = pair.expiration
        /\ p1.route = pair.route /\ p2.route = pair.route
    BY <2>2, <2>3 DEF SameHop, NoPair
  <2>5. /\ p1.payee = pair.payee
        /\ \/ /\ IsPending(pair) /\ isSecretRegisterNeeded(pair, b)
              /\ p1.payer = "WaitingRegisterSecret"
           \/ /\ ~(IsPending(pair) /\ isSecretRegisterNeeded(pair, b))
              /\ p1.payer = pair.payer
    BY <1>0, <1>p DEF eventsForRegisterSecret, PairType
  <2>6. /\ p2.payer = p1.payer \/ (p2.payer = "Expired" /\ b > PayerExpiration)
        /\ p2.payee = p1.payee
           \/ (p2.payee = "Expired" /\ b - ForkConfirmNumber > pair.expiration)
    BY <1>p, <2>4 DEF setExpiredPairs, setExpiredPayer, setExpiredPayee, PairType
  <2>7. tx' = IF /\ p1.payer = "WaitingRegisterSecret" /\ pair.payer # p1.payer
                 /\ secret /\ registered = 0 /\ tx = 0
              THEN b + RevealTimeout ELSE tx
    BY <1>1, <2>1 DEF RegisterTx
  <2>8. TxInv'
    BY <1>0, <1>1, <1>2, <2>7 DEF TxInv
  <2>9. manager = "running" /\ registered = 0 /\ Paid(pair.payee) => secret
    BY <1>0 DEF PairInv, Paid
  <2>10. PairInv'
    <3>1. pair'.payer = "Expired" => b > PayerExpiration
      BY <1>0, <1>2, <2>1, <2>5, <2>6 DEF PairInv
    <3>2. pair'.payer = "WaitingRegisterSecret" =>
              Payer \in closed \/ tx' # 0 \/ registered # 0
      BY <1>0, <1>2, <1>5, <2>1, <2>5, <2>6, <2>7, <2>9 DEF PairInv, isSecretRegisterNeeded
    <3>3. registered = 0 => pair'.payer # "BalanceProof"
      BY <1>0, <1>5, <2>1, <2>5, <2>6 DEF PairInv
    <3>4. registered = 0 /\ pair.route \notin heard => pair'.payee \in {"Pending", "Expired"}
      BY <1>0, <1>5, <2>1, <2>5, <2>6 DEF PairInv
    <3> QED BY <1>0, <1>1, <2>1, <2>2, <2>4, <3>1, <3>2, <3>3, <3>4 DEF PairInv
  <2>11. ASSUME PayeePaid' PROVE Covered'
    <3>1. PayeePaid
      <4>1. payeeLock \in [1..Len(Routes) -> LockStates]
        BY DEF CoverContext, TypeOK
      <4>2. \A j \in 1..Len(Routes) : payeeLock'[j] = "paid" => payeeLock[j] = "paid"
        BY <2>1, <2>2, <2>4, <4>1 DEF RemoveExpired
      <4> QED BY <2>11, <4>2 DEF PayeePaid
    <3>2. CASE registered # 0 \/ tx # 0
      BY <1>0, <1>1, <2>2, <2>7, <3>1, <3>2 DEF Covered
    <3>3. CASE registered = 0 /\ tx = 0
      <4>1. /\ pair.route \in heard /\ pair.payee = "BalanceProof" /\ secret
            /\ pair.payer \in {"Pending", "SecretRevealed"}
            /\ blockNumber < PayerExpiration - RevealTimeout
        BY <1>0, <2>2, <3>1, <3>3 DEF Covered
      <4>2. CASE p1.payer = "WaitingRegisterSecret"
        BY <1>0, <1>1, <1>2, <2>7, <3>3, <4>1, <4>2 DEF Covered
      <4>3. CASE p1.payer # "WaitingRegisterSecret"
        <5>1. IsPending(pair) /\ ~isSecretRegisterNeeded(pair, b) /\ p1.payer = pair.payer
          BY <2>2, <2>5, <4>1, <4>3 DEF IsPending, Final
        <5>2. b < PayerExpiration - RevealTimeout
          BY <1>0, <1>2, <4>1, <5>1 DEF isSecretRegisterNeeded, Paid, IsSafeToWait
        <5>3. p2.payer = pair.payer /\ p2.payee = "BalanceProof"
          BY <1>0, <1>2, <2>2, <2>5, <2>6, <4>1, <5>1, <5>2 DEF PairInv
        <5>4. IsPending(p1)
          BY <2>4, <4>1, <5>1 DEF IsPending, Final
        <5>5. manager' = "running"
          BY <2>1, <2>4, <4>1, <5>3, <5>4 DEF Manager, Finalized, Paid
        <5>6. tx' = 0
          BY <2>7, <3>3, <4>3
        <5> QED BY <1>1, <2>1, <2>4, <3>3, <4>1, <5>2, <5>3, <5>5, <5>6 DEF Covered
      <4> QED BY <4>2, <4>3
    <3> QED BY <3>2, <3>3
  <2> QED BY <1>3, <2>8, <2>10, <2>11 DEF CoverInv
<1> QED BY <1>4, <1>5

\* Every step keeps the cover.
LEMMA CoverStep ==
    ASSUME CoverContext, [Next]_vars
    PROVE  CoverInv'
<1>0. /\ blockNumber \in Nat /\ height \in Nat /\ registered \in Nat /\ tx \in Nat
      /\ pair \in PairType /\ pair.expiration \in Nat
      /\ PayerExpiration \in Nat /\ RevealTimeout \in Nat /\ RevealTimeout >= 2
      /\ ChainInv /\ TxInv /\ PairInv /\ (PayeePaid => Covered)
      /\ payeeLock \in [1..Len(Routes) -> LockStates] /\ TypeOK /\ HopInv
  BY NumberTypes DEF CoverContext, CoverInv, TypeOK
<1>1. ASSUME NEW tooMany \in BOOLEAN, ActionInitMediator(tooMany)
      PROVE  CoverInv'
  <2>1. /\ manager = "none" /\ manager' = Manager(pair') /\ blockNumber' = blockNumber
        /\ mediateTransfer(payeeLock, tooMany)
        /\ UNCHANGED <<blockNumber, secret, canPunish, revealed, heard, chainVars, tx>>
    BY <1>1 DEF ActionInitMediator
  <2>2. NewHop(payeeLock) \/ NoHop(payeeLock)
    BY <1>0, <2>1, MediateTransferCases
  <2>3. NoClaim(payeeLock)
    BY <1>0, <2>1 DEF HopInv, NoClaim
  <2> QED BY <1>0, <2>1, <2>2, <2>3, RoutingCover
<1>2. ASSUME NEW i \in 1..Len(Routes), NEW tooMany \in BOOLEAN,
             messageAnnounceDisposed(i, tooMany)
      PROVE  CoverInv'
  <2>1. CASE CancelsRoute(i)
    BY <1>0, <1>2, <2>1, DisposalRoutes, RoutingCover
  <2>2. CASE ~CancelsRoute(i)
    <3>1. UNCHANGED <<manager, pair, payerLock, payeeLock, blockNumber, secret,
                      heard, closed, height, registered, eventDue, tx>>
      BY <1>2, <2>2 DEF messageAnnounceDisposed, chainVars
    <3> QED BY <1>0, <3>1 DEF CoverInv, ChainInv, TxInv, PairInv, PayeePaid, Covered
  <2> QED BY <2>1, <2>2
<1>3. ASSUME NEW i \in 1..Len(Routes), handleSecretReveal(i)
      PROVE  CoverInv'
  BY <1>3, RevealCover
<1>4. CASE handleBalanceProof
  <2>1. /\ payerLock' = "paid"
        /\ UNCHANGED <<blockNumber, heard, closed, height, registered, eventDue, tx>>
    BY <1>4 DEF handleBalanceProof, chainVars
  <2>2. ChainInv' /\ TxInv' /\ Covered'
    BY <1>0, <2>1 DEF ChainInv, TxInv, Covered
  <2>3. PairInv'
    <3>1. CASE manager = "running" /\ pair # NoPair
      <4>1. /\ secret' = TRUE /\ manager' = Manager(pair')
            /\ pair' = [pair EXCEPT !.payee = "BalanceProof", !.payer = "BalanceProof"]
        BY <1>4, <3>1 DEF handleBalanceProof
      <4>2. /\ pair'.payer = "BalanceProof" /\ pair'.payee = "BalanceProof"
            /\ pair'.expiration = pair.expiration
        BY <1>0, <4>1 DEF PairType
      <4>3. manager' = "removed"
        BY <4>1, <4>2 DEF Manager, Finalized, Paid
      <4> QED BY <1>0, <2>1, <3>1, <4>1, <4>2, <4>3 DEF PairInv
    <3>2. CASE ~(manager = "running" /\ pair # NoPair)
      <4>1. UNCHANGED <<secret, pair, manager>>
        BY <1>4, <3>2 DEF handleBalanceProof
      <4> QED BY <1>0, <2>1, <4>1 DEF PairInv
    <3> QED BY <3>1, <3>2
  <2> QED BY <2>2, <2>3 DEF CoverInv
<1>5. CASE handleSecretRevealOnChain
  <2>1. /\ eventDue /\ ~eventDue'
        /\ UNCHANGED <<blockNumber, payerLock, heard, closed, height, registered, tx>>
    BY <1>5 DEF handleSecretRevealOnChain
  <2>2. registered >= 1 /\ registered # 0
    BY <1>0, <2>1 DEF ChainInv
  <2>3. ChainInv' /\ TxInv'
    BY <1>0, <2>1 DEF ChainInv, TxInv
  <2>4. CASE manager = "running" /\ pair # NoPair
    <3>1. /\ secret' = TRUE
          /\ payeeLock' = IF pair.expiration >= registered THEN PayPayee(pair) ELSE payeeLock
          /\ pair' = [pair EXCEPT
                        !.payee = IF pair.expiration >= registered THEN "BalanceProof" ELSE @,
                        !.payer = IF Payer \in closed THEN "BalanceProof" ELSE @]
      BY <1>5, <2>4 DEF handleSecretRevealOnChain
    <3>2. /\ pair'.payer \in {pair.payer, "BalanceProof"}
          /\ pair'.expiration = pair.expiration
      BY <1>0, <3>1 DEF PairType
    <3>3. PairInv'
      BY <1>0, <2>1, <2>2, <2>4, <3>1, <3>2 DEF PairInv
    <3>4. CASE pair.expiration >= registered
      <4>1. Covered'
        BY <1>0, <2>1, <2>2, <2>4, <3>4 DEF PairInv, Covered
      <4> QED BY <2>3, <3>3, <4>1 DEF CoverInv
    <3>5. CASE ~(pair.expiration >= registered)
      <4>1. PayeePaid' => Covered'
        BY <1>0, <2>1, <2>2, <3>1, <3>5 DEF PayeePaid, Covered
      <4> QED BY <2>3, <3>3, <4>1 DEF CoverInv
    <3> QED BY <3>4, <3>5
  <2>5. CASE ~(manager = "running" /\ pair # NoPair)
    <3>1. UNCHANGED <<secret, payeeLock, pair, manager>>
      BY <1>5, <2>5 DEF handleSecretRevealOnChain
    <3>2. PairInv' /\ (PayeePaid' => Covered')
      BY <1>0, <2>1, <3>1 DEF PairInv, PayeePaid, Covered
    <3> QED BY <2>3, <3>2 DEF CoverInv
  <2> QED BY <2>4, <2>5
<1>6. CASE handleBlock
  BY <1>6, BlockCover
<1>7. ASSUME NEW withSecret \in BOOLEAN, NewBlock(withSecret)
      PROVE  CoverInv'
  <2>1. /\ height < MaxHeight /\ blockNumber = height
        /\ withSecret => registered = 0
        /\ (tx # 0 /\ registered = 0 /\ tx = height + 1) => withSecret
        /\ height' = height + 1 /\ eventDue' = withSecret
        /\ registered' = IF withSecret THEN height + 1 ELSE registered
        /\ UNCHANGED <<manager, blockNumber, pair, secret, payerLock, payeeLock,
                       heard, closed, tx>>
    BY <1>7 DEF NewBlock
  <2>2. ChainInv'
    BY <1>0, <2>1, MediatorAssumption DEF ChainInv
  <2>3. TxInv'
    BY <1>0, <2>1 DEF TxInv
  <2>4. PairInv'
    BY <1>0, <2>1 DEF PairInv
  <2>5. PayeePaid' => Covered'
    <3>1. CASE withSecret
      BY <1>0, <2>1, <3>1 DEF PayeePaid, Covered, TxInv
    <3>2. CASE ~withSecret
      BY <1>0, <2>1, <3>2 DEF PayeePaid, Covered
    <3> QED BY <3>1, <3>2
  <2> QED BY <2>2, <2>3, <2>4, <2>5 DEF CoverInv
<1>8. ASSUME NEW c \in Channels, CloseChannel(c)
      PROVE  CoverInv'
  <2>1. /\ closed' = closed \cup {c}
        /\ UNCHANGED <<manager, blockNumber, pair, secret, payerLock, payeeLock,
                       heard, height, registered, eventDue, tx>>
    BY <1>8 DEF CloseChannel
  <2>2. ChainInv' /\ TxInv' /\ (PayeePaid' => Covered')
    BY <1>0, <2>1 DEF ChainInv, TxInv, PayeePaid, Covered
  <2>3. PairInv'
    BY <1>0, <2>1 DEF PairInv
  <2> QED BY <2>2, <2>3 DEF CoverInv
<1>9. CASE UNCHANGED vars
  BY <1>0, <1>9 DEF vars, CoverInv, ChainInv, TxInv, PairInv, PayeePaid, Covered
<1> QED BY <1>1, <1>2, <1>3, <1>4, <1>5, <1>6, <1>7, <1>8, <1>9 DEF Next

\* When the next hops' locks last long enough and the reveal timeout leaves a
\* block for a node that is one block behind, a mediator that has paid a payee
\* is never left with a payer's lock that it can no longer claim.
THEOREM CoveredTheorem ==
    ASSUME RevealTimeout >= 2, LocksLastLongEnough
    PROVE  Spec => []PaidPayeeIsCovered
<1>1. Init => CoverInv
  BY MediatorAssumption
     DEF Init, CoverInv, ChainInv, TxInv, PairInv, PayeePaid, NoPair
<1>2. TypeOK /\ HopInv /\ CoverInv /\ [Next]_vars => CoverInv'
  BY CoverStep DEF CoverContext
<1>3. TypeOK /\ CoverInv => PaidPayeeIsCovered
  <2> SUFFICES ASSUME TypeOK, CoverInv, height > PayerExpiration,
                      \E i \in DOMAIN payeeLock : payeeLock[i] = "paid"
               PROVE  payerLock = "paid" \/ registered \in 1..PayerExpiration
    BY DEF PaidPayeeIsCovered
  <2>1. Covered
    BY DEF CoverInv, PayeePaid, TypeOK
  <2>2. /\ blockNumber \in Nat /\ height \in Nat /\ tx \in Nat
        /\ PayerExpiration \in Nat /\ RevealTimeout \in Nat
    BY NumberTypes
  <2> QED BY <2>1, <2>2 DEF Covered, CoverInv, ChainInv, TxInv
<1> QED BY <1>1, <1>2, <1>3, HopInvariant, PTL DEF Spec
=============================================================================
