-------------------------- MODULE ChainEventsProofs --------------------------
(***************************************************************************)
(* Proofs about ChainEvents, for any number of events, any reorganisations *)
(* of the last ForkConfirmNumber blocks, and whenever the node crashes or  *)
(* loses its connection.                                                   *)
(***************************************************************************)
EXTENDS ChainEvents, FiniteSums, SequenceTheorems, TLAPS

Items == Nat \X (0..NumEvents)

(***************************************************************************)
(* Nothing is ahead of the chain.                                          *)
(***************************************************************************)
BoundInv ==
    /\ blockNumber = saved /\ saved <= height
    /\ current <= height
    /\ \A e \in Events : minedAt[e] <= height
    /\ \A i \in 1..Len(queue) : queue[i][1] <= height

(***************************************************************************)
(* What the alarm task notes as delivered was delivered.                   *)
(***************************************************************************)
Delivered(b, e) == <<b, e>> \in Handled \cup ToSet(queue)

DoneInv == \A e \in Events : txDone[e] # 0 => Delivered(txDone[e], e)

(***************************************************************************)
(* An event is handled, or there is a place at which it comes: in the      *)
(* queue, or after it with the next poll.  No block that the node starts   *)
(* from again, because it is saved or will be before that place, is more   *)
(* than Slack blocks after the event, so the window reaches it.            *)
(***************************************************************************)
Slack(e) == IF needConfirm(e) THEN 2 * ForkConfirmNumber ELSE ForkConfirmNumber

ComesAt(e, k) ==
    /\ k <= Len(queue) => queue[k] = <<minedAt[e], e>>
    /\ k > Len(queue) => current - Slack(e) <= minedAt[e]
    /\ saved - Slack(e) <= minedAt[e]
    /\ \A j \in 1..Len(queue) : j < k /\ queue[j][2] = 0 => queue[j][1] - Slack(e) <= minedAt[e]

Due(e) ==
    \/ <<minedAt[e], e>> \in Handled
    \/ \E k \in 1..(Len(queue) + 1) : ComesAt(e, k)

DueInv ==
    \A e \in Events :
        minedAt[e] > 0 /\ (needConfirm(e) => minedAt[e] > jumpedAt) => Due(e)

(***************************************************************************)
(* As long as nothing is repeated, moved or held back, the events of the   *)
(* blocks the alarm task has seen are delivered, so a poll only adds later *)
(* ones.                                                                   *)
(***************************************************************************)
Undisturbed == restarts = 0 /\ reorgs = 0 /\ ~ EnableForkConfirm

Ascending(s) == \A i, j \in 1..Len(s) : i < j => s[i][1] <= s[j][1]

OrderInv ==
    Undisturbed =>
        /\ Ascending(queue) /\ Ascending(handled)
        /\ \A i \in 1..Len(handled), j \in 1..Len(queue) : handled[i][1] <= queue[j][1]
        /\ \A i \in 1..Len(handled) : handled[i][1] <= current
        /\ \A i \in 1..Len(queue) : queue[i][1] <= current
        /\ \A e \in Events : minedAt[e] \in 1..current =>
                IsDone(e) \/ minedAt[e] < fromBlockNumber

(***************************************************************************)
(* An event that needs confirmation is delivered when its block can not be *)
(* reorganised any more.                                                   *)
(***************************************************************************)
Final(x) ==
    x[2] # 0 /\ needConfirm(x[2]) =>
        minedAt[x[2]] = x[1] /\ x[1] > 0 /\ x[1] <= height - ForkConfirmNumber

FinalInv ==
    /\ \A i \in 1..Len(queue) : Final(queue[i])
    /\ \A i \in 1..Len(handled) : Final(handled[i])

-----------------------------------------------------------------------------
(***************************************************************************)
(* Sorting.  Before is a total order, so a finite set has exactly one      *)
(* sorted arrangement, and StateChanges is it.                             *)
(***************************************************************************)
LEMMA BeforeFacts ==
    ASSUME NEW x \in Items, NEW y \in Items, NEW z \in Items
    PROVE  /\ x = y \/ Before(x, y) \/ Before(y, x)
           /\ Before(x, y) /\ Before(y, z) => Before(x, z)
           /\ Before(x, y) => x # y /\ x[1] <= y[1]
<1>1. /\ x[1] \in Nat /\ y[1] \in Nat /\ z[1] \in Nat
      /\ x[2] \in 0..NumEvents /\ y[2] \in 0..NumEvents /\ z[2] \in 0..NumEvents
      /\ x = <<x[1], x[2]>> /\ y = <<y[1], y[2]>>
  BY DEF Items
<1>2. 0..NumEvents \subseteq Int
  BY ChainEventsAssumption
<1>3. x[1] = y[1] /\ x[2] = y[2] => x = y
  BY <1>1
<1> QED
  BY <1>1, <1>2, <1>3 DEF Before

\* A nonempty finite set has a last element.
LEMMA LastExists ==
    ASSUME NEW U \in SUBSET Items, IsFiniteSet(U), U # {}
    PROVE  \E x \in U : \A y \in U : y = x \/ Before(y, x)
<1> DEFINE Z == {s \in SUBSET U : s # {} =>
                    \E x \in s : \A y \in s : y = x \/ Before(y, x)}
<1>1. ASSUME NEW s \in SUBSET U,
             \A t \in SUBSET U : Cardinality(t) < Cardinality(s) => t \in Z
      PROVE  s \in Z
  <2>1. CASE s = {}
    BY <2>1
  <2>2. CASE s # {}
    <3>1. PICK a \in s : TRUE
      BY <2>2
    <3>2. s \ {a} \in Z
      BY <1>1, RemoveOne, FS_Subset
    <3>3. CASE s \ {a} = {}
      BY <3>3
    <3>4. CASE s \ {a} # {}
      <4>1. PICK b \in s \ {a} : \A y \in s \ {a} : y = b \/ Before(y, b)
        BY <3>2, <3>4
      <4>2. a \in Items /\ b \in Items /\ \A y \in s : y \in Items
        OBVIOUS
      <4>3. CASE Before(b, a)
        <5>1. \A y \in s : y = a \/ Before(y, a)
          BY <4>1, <4>2, <4>3, BeforeFacts
        <5> QED BY <5>1
      <4>4. CASE ~ Before(b, a)
        <5>1. Before(a, b)
          BY <4>2, <4>4, BeforeFacts
        <5>2. \A y \in s : y = b \/ Before(y, b)
          BY <4>1, <5>1
        <5> QED BY <5>2
      <4> QED BY <4>3, <4>4
    <3> QED BY <3>3, <3>4
  <2> QED BY <2>1, <2>2
<1>2. Z = SUBSET U
  <2> HIDE DEF Z
  <2>1. Z \in SUBSET (SUBSET U)
    BY DEF Z
  <2> QED BY <1>1, <2>1, SubsetInduction
<1>3. U \in Z
  BY <1>2
<1> QED BY <1>3

Sorted(q) == \A i, j \in DOMAIN q : i < j => Before(q[i], q[j])

LEMMA SortedExists ==
    ASSUME NEW U \in SUBSET Items, IsFiniteSet(U)
    PROVE  \E q \in [1..Cardinality(U) -> U] : Sorted(q)
<1> DEFINE Z == {s \in SUBSET U : \E q \in [1..Cardinality(s) -> s] : Sorted(q)}
<1>1. ASSUME NEW s \in SUBSET U,
             \A t \in SUBSET U : Cardinality(t) < Cardinality(s) => t \in Z
      PROVE  s \in Z
  <2>0. IsFiniteSet(s)
    BY FS_Subset
  <2>1. CASE s = {}
    <3>1. Cardinality(s) = 0
      BY <2>1, FS_EmptySet
    <3>2. 1..Cardinality(s) = {}
      BY <3>1
    <3>3. [i \in 1..Cardinality(s) |-> i] \in [1..Cardinality(s) -> s]
      BY <3>2
    <3>4. Sorted([i \in 1..Cardinality(s) |-> i])
      BY <3>2 DEF Sorted
    <3> QED BY <3>3, <3>4
  <2>2. CASE s # {}
    <3>1. PICK m \in s : \A y \in s : y = m \/ Before(y, m)
      BY <2>0, <2>2, LastExists
    <3>2. s \ {m} \in Z
      BY <1>1, <2>0, RemoveOne
    <3>3. PICK p \in [1..Cardinality(s \ {m}) -> s \ {m}] : Sorted(p)
      BY <3>2
    <3>4. /\ Cardinality(s) \in Nat /\ Cardinality(s \ {m}) = Cardinality(s) - 1
      BY <2>0, FS_RemoveElement, FS_CardinalityType
    <3> DEFINE n == Cardinality(s)
               q == [i \in 1..n |-> IF i = n THEN m ELSE p[i]]
    <3>5. \A i \in 1..n : i # n => i \in 1..(n - 1)
      BY <3>4
    <3>6. \A i \in 1..n : q[i] \in s /\ (i # n => q[i] = p[i] /\ q[i] # m)
      BY <3>3, <3>4, <3>5
    <3>7. q \in [1..n -> s]
      BY <3>6
    <3>8. ASSUME NEW i \in 1..n, NEW j \in 1..n, i < j PROVE Before(q[i], q[j])
      <4>1. i # n /\ i \in 1..(n - 1)
        BY <3>4, <3>8
      <4>2. CASE j = n
        BY <3>1, <3>6, <4>1, <4>2
      <4>3. CASE j # n
        <5>1. j \in DOMAIN p /\ i \in DOMAIN p
          BY <3>3, <3>4, <3>5, <4>1, <4>3
        <5>2. Before(p[i], p[j])
          BY <3>3, <3>8, <5>1 DEF Sorted
        <5> QED BY <3>6, <4>1, <4>3, <5>2
      <4> QED BY <4>2, <4>3
    <3>9. Sorted(q)
      BY <3>8 DEF Sorted
    <3> QED BY <3>7, <3>9
  <2> QED BY <2>1, <2>2
<1>2. Z = SUBSET U
  <2> HIDE DEF Z
  <2>1. Z \in SUBSET (SUBSET U)
    BY DEF Z
  <2> QED BY <1>1, <2>1, SubsetInduction
<1>3. U \in Z
  BY <1>2
<1> QED BY <1>3

\* What a poll puts into the queue.
Changes(S) ==
    {<<minedAt[e], e>> : e \in S} \cup {<<minedAt[e], 0>> : e \in S} \cup {<<height, 0>>}

LEMMA ChangesFinite ==
    ASSUME TypeOK, NEW S \in SUBSET Events
    PROVE  Changes(S) \in SUBSET Items /\ IsFiniteSet(Changes(S))
<1>1. IsFiniteSet(S)
  <2>1. IsFiniteSet(1..NumEvents)
    BY ChainEventsAssumption, FS_Interval
  <2> QED BY <2>1, FS_Subset DEF Events
<1>2. IsFiniteSet({<<minedAt[e], e>> : e \in S})
  <2>1. [e \in S |-> <<minedAt[e], e>>] \in Surjection(S, {<<minedAt[e], e>> : e \in S})
    BY DEF Surjection
  <2> QED BY <1>1, <2>1, FS_Surjection
<1>3. IsFiniteSet({<<minedAt[e], 0>> : e \in S})
  <2>1. [e \in S |-> <<minedAt[e], 0>>] \in Surjection(S, {<<minedAt[e], 0>> : e \in S})
    BY DEF Surjection
  <2> QED BY <1>1, <2>1, FS_Surjection
<1>4. IsFiniteSet(Changes(S))
  BY <1>2, <1>3, FS_Union, FS_Singleton DEF Changes
<1>5. \A e \in S : minedAt[e] \in Nat /\ e \in 0..NumEvents
  BY ChainEventsAssumption DEF TypeOK, Events
<1>6. 0 \in 0..NumEvents /\ height \in Nat
  BY ChainEventsAssumption DEF TypeOK
<1> QED BY <1>4, <1>5, <1>6 DEF Changes, Items

LEMMA StateChangesFacts ==
    ASSUME TypeOK, NEW S \in SUBSET Events
    PROVE  /\ StateChanges(S) \in Seq(Items)
           /\ \A i \in 1..Len(StateChanges(S)) : StateChanges(S)[i] \in Changes(S)
           /\ \A x \in Changes(S) : \E i \in 1..Len(StateChanges(S)) : StateChanges(S)[i] = x
           /\ \A i, j \in 1..Len(StateChanges(S)) :
                  i < j => Before(StateChanges(S)[i], StateChanges(S)[j])
<1> DEFINE T == Changes(S)
           n == Cardinality(T)
           q == StateChanges(S)
<1>1. T \in SUBSET Items /\ IsFiniteSet(T) /\ n \in Nat
  BY ChangesFinite, FS_CardinalityType
<1>2. PICK p \in [1..n -> T] : Sorted(p)
  BY <1>1, SortedExists
<1>3. ASSUME NEW f \in [1..n -> T], Sorted(f), NEW i \in 1..n, NEW j \in 1..n, i # j
      PROVE  f[i] # f[j]
  <2>1. f[i] \in Items /\ f[j] \in Items /\ DOMAIN f = 1..n
    BY <1>1
  <2>2. i < j \/ j < i
    BY <1>3
  <2>3. Before(f[i], f[j]) \/ Before(f[j], f[i])
    BY <1>3, <2>1, <2>2 DEF Sorted
  <2> QED BY <2>1, <2>3, BeforeFacts
<1>4. p \in SetToSeqs(T)
  <2>1. \A i, j \in 1..n : i # j => p[i] # p[j]
    BY <1>2, <1>3
  <2> QED BY <1>2, <2>1 DEF SetToSeqs
<1>5. q = CHOOSE f \in SetToSeqs(T) : Sorted(f)
  BY DEF StateChanges, Changes, Sorted
<1>6. q \in SetToSeqs(T) /\ Sorted(q)
  BY <1>2, <1>4, <1>5
<1>7. q \in [1..n -> T] /\ \A i, j \in 1..n : i # j => q[i] # q[j]
  BY <1>6 DEF SetToSeqs
<1>8. q \in Seq(Items) /\ Len(q) = n /\ DOMAIN q = 1..n
  <2> HIDE DEF T, q, n
  <2>1. q \in [1..n -> Items]
    BY <1>1, <1>7
  <2> QED BY <1>1, <2>1
<1>9. q \in Surjection(1..n, T)
  <2>1. q \in Injection(1..n, T)
    BY <1>7 DEF Injection, IsInjective
  <2>2. Cardinality(1..n) = n
    BY <1>1, FS_Interval
  <2> QED BY <1>1, <2>1, <2>2, FS_Injection
<1>10. \A x \in T : \E i \in 1..n : q[i] = x
  BY <1>9 DEF Surjection
<1> HIDE DEF q, T, n
<1> QED
  BY <1>6, <1>7, <1>8, <1>10 DEF Sorted, q, T

-----------------------------------------------------------------------------
(***************************************************************************)
(* The queue after each kind of step, place by place.                      *)
(***************************************************************************)
LEMMA EventFacts ==
    /\ NumEvents \in Nat /\ ForkConfirmNumber \in Nat /\ ForkConfirmNumber > 0
    /\ 0 \in 0..NumEvents
    /\ \A e \in Events : e \in 0..NumEvents /\ e \in Nat /\ e # 0
    /\ \A e \in 0..NumEvents : e # 0 => e \in Events
BY ChainEventsAssumption DEF Events

LEMMA QueueFacts ==
    ASSUME TypeOK
    PROVE  /\ queue \in Seq(Items) /\ Len(queue) \in Nat
           /\ handled \in Seq(Nat \X Events) /\ Len(handled) \in Nat
           /\ \A i \in 1..Len(queue) :
                 queue[i] \in Items /\ queue[i][1] \in Nat /\ queue[i][2] \in 0..NumEvents
           /\ \A i \in 1..Len(handled) :
                 /\ handled[i] \in Nat \X Events
                 /\ handled[i][1] \in Nat /\ handled[i][2] \in Events
<1>1. queue \in Seq(Items) /\ handled \in Seq(Nat \X Events)
  BY DEF TypeOK, Items
<1>2. \A x \in Items : x[1] \in Nat /\ x[2] \in 0..NumEvents
  BY DEF Items
<1>3. \A x \in Nat \X Events : x[1] \in Nat /\ x[2] \in Events
  OBVIOUS
<1>4. /\ \A i \in 1..Len(queue) : queue[i] \in Items
      /\ \A i \in 1..Len(handled) : handled[i] \in Nat \X Events
      /\ Len(queue) \in Nat /\ Len(handled) \in Nat
  BY <1>1, ElementOfSeq, LenProperties
<1> QED BY <1>1, <1>2, <1>3, <1>4

\* The events of a sequence are those at its places.
LEMMA ToSetFacts ==
    ASSUME NEW V, NEW s \in Seq(V), NEW x
    PROVE  x \in ToSet(s) <=> \E i \in 1..Len(s) : s[i] = x
<1>1. DOMAIN s = 1..Len(s)
  BY LenProperties
<1> QED BY <1>1 DEF ToSet

LEMMA PolledSet == parseLogsToEvents \in SUBSET Events
BY DEF parseLogsToEvents

LEMMA PollQueue ==
    ASSUME TypeOK, Poll
    PROVE  /\ queue' \in Seq(Items) /\ Len(queue') \in Nat /\ Len(queue) <= Len(queue')
           /\ \A i \in 1..Len(queue) : queue'[i] = queue[i]
           /\ \A i \in 1..Len(queue') : i > Len(queue) =>
                 queue'[i] \in Changes(parseLogsToEvents)
           /\ \A x \in Changes(parseLogsToEvents) :
                 \E i \in 1..Len(queue') : i > Len(queue) /\ queue'[i] = x
           /\ \A i, j \in 1..Len(queue') :
                 Len(queue) < i /\ i < j => Before(queue'[i], queue'[j])
<1> DEFINE q == StateChanges(parseLogsToEvents)
           T == Changes(parseLogsToEvents)
<1>1. queue \in Seq(Items) /\ Len(queue) \in Nat
  BY QueueFacts
<1>2. /\ q \in Seq(Items)
      /\ \A i \in 1..Len(q) : q[i] \in T
      /\ \A x \in T : \E i \in 1..Len(q) : q[i] = x
      /\ \A i, j \in 1..Len(q) : i < j => Before(q[i], q[j])
  BY StateChangesFacts, PolledSet
<1>3. queue' = queue \o q
  BY DEF Poll
<1> HIDE DEF q, T
<1>4. Len(q) \in Nat
  BY <1>2, LenProperties
<1>5. /\ queue' \in Seq(Items) /\ Len(queue') = Len(queue) + Len(q)
      /\ \A i \in 1..(Len(queue) + Len(q)) : queue'[i] =
            IF i <= Len(queue) THEN queue[i] ELSE q[i - Len(queue)]
  BY <1>1, <1>2, <1>3, ConcatProperties
<1>6. \A i \in 1..Len(queue) : queue'[i] = queue[i]
  BY <1>1, <1>4, <1>5
<1>7. ASSUME NEW i \in 1..Len(queue'), i > Len(queue)
      PROVE  i - Len(queue) \in 1..Len(q) /\ queue'[i] = q[i - Len(queue)]
  BY <1>1, <1>4, <1>5, <1>7
<1>8. \A i \in 1..Len(queue') : i > Len(queue) => queue'[i] \in T
  BY <1>2, <1>7
<1>9. ASSUME NEW x \in T PROVE \E i \in 1..Len(queue') : i > Len(queue) /\ queue'[i] = x
  <2>1. PICK k \in 1..Len(q) : q[k] = x
    BY <1>2
  <2>2. /\ Len(queue) + k \in 1..Len(queue') /\ Len(queue) + k > Len(queue)
        /\ (Len(queue) + k) - Len(queue) = k
    BY <1>1, <1>4, <1>5
  <2> QED BY <1>7, <2>1, <2>2
<1>10. ASSUME NEW i \in 1..Len(queue'), NEW j \in 1..Len(queue'), Len(queue) < i, i < j
       PROVE  Before(queue'[i], queue'[j])
  <2>1. j > Len(queue) /\ i - Len(queue) < j - Len(queue)
    BY <1>1, <1>4, <1>5, <1>10
  <2> QED BY <1>2, <1>7, <1>10, <2>1
<1>11. Len(queue') \in Nat /\ Len(queue) <= Len(queue')
  BY <1>1, <1>4, <1>5
<1> QED BY <1>5, <1>6, <1>8, <1>9, <1>10, <1>11 DEF T

LEMMA HeadQueue ==
    ASSUME TypeOK, queue # <<>>, queue' = Tail(queue)
    PROVE  /\ Len(queue) >= 1 /\ Head(queue) = queue[1]
           /\ queue' \in Seq(Items) /\ Len(queue') = Len(queue) - 1
           /\ \A i \in 1..Len(queue') : i + 1 \in 1..Len(queue) /\ queue'[i] = queue[i + 1]
<1>1. queue \in Seq(Items) /\ Len(queue) \in Nat
  BY QueueFacts
<1>2. Len(queue) >= 1
  BY <1>1, EmptySeq
<1>3. /\ Tail(queue) \in Seq(Items) /\ Len(Tail(queue)) = Len(queue) - 1
      /\ \A i \in 1..Len(Tail(queue)) : Tail(queue)[i] = queue[i + 1]
  BY <1>1, HeadTailProperties
<1>4. Head(queue) = queue[1]
  BY <1>1
<1>5. \A i \in 1..(Len(queue) - 1) : i + 1 \in 1..Len(queue)
  BY <1>1
<1> QED BY <1>2, <1>3, <1>4, <1>5

LEMMA HandledAfter ==
    ASSUME TypeOK, OnBlockchainStateChange
    PROVE  /\ queue[1] \in Nat \X Events /\ queue[1][2] # 0
           /\ handled' \in Seq(Nat \X Events) /\ Len(handled') = Len(handled) + 1
           /\ \A i \in 1..Len(handled) : handled'[i] = handled[i]
           /\ handled'[Len(handled) + 1] = queue[1]
<1>1. Len(queue) >= 1 /\ Head(queue) = queue[1]
  BY HeadQueue DEF OnBlockchainStateChange
<1>2. queue[1] \in Items /\ queue[1][2] \in 0..NumEvents /\ queue[1][1] \in Nat
  BY <1>1, QueueFacts
<1>3. queue[1][2] # 0
  BY <1>1 DEF OnBlockchainStateChange
<1>4. queue[1][2] \in Events
  BY <1>2, <1>3, EventFacts
<1>5. queue[1] = <<queue[1][1], queue[1][2]>>
  BY <1>2 DEF Items
<1>6. queue[1] \in Nat \X Events
  BY <1>2, <1>4, <1>5
<1>7. handled' = Append(handled, queue[1]) /\ handled \in Seq(Nat \X Events)
  BY <1>1, QueueFacts DEF OnBlockchainStateChange
<1> QED BY <1>3, <1>6, <1>7, AppendProperties

LEMMA RestartQueue ==
    ASSUME TypeOK, handleEthRPCConnectionOK
    PROVE  /\ queue' \in Seq(Items) /\ Len(queue') = Len(queue) + 1
           /\ \A i \in 1..Len(queue) : queue'[i] = queue[i]
           /\ queue'[Len(queue) + 1] = <<saved, 0>>
<1>1. <<saved, 0>> \in Items /\ queue \in Seq(Items)
  BY QueueFacts, EventFacts DEF TypeOK, Items
<1>2. queue' = Append(queue, <<saved, 0>>)
  BY DEF handleEthRPCConnectionOK
<1> QED BY <1>1, <1>2, AppendProperties

LEMMA CrashQueue ==
    ASSUME TypeOK, CrashAndStart
    PROVE  queue' \in Seq(Items) /\ Len(queue') = 1 /\ queue'[1] = <<saved, 0>>
<1>1. <<saved, 0>> \in Items
  BY EventFacts DEF TypeOK, Items
<1>2. queue' = <<<<saved, 0>>>>
  BY DEF CrashAndStart
<1> QED BY <1>1, <1>2

-----------------------------------------------------------------------------
(***************************************************************************)
(* Types.                                                                  *)
(***************************************************************************)
LEMMA TypeStep ==
    ASSUME TypeOK, [Next]_vars
    PROVE  TypeOK'
<1>0. /\ height \in Nat /\ current \in Nat /\ blockNumber \in Nat /\ saved \in Nat
      /\ minedAt \in [Events -> Nat] /\ txDone \in [Events -> Nat]
      /\ restarts \in 0..MaxRestarts /\ reorgs \in 0..MaxReorgs
      /\ MaxRestarts \in Nat /\ MaxReorgs \in Nat
      /\ queue \in Seq(Items) /\ handled \in Seq(Nat \X Events)
  BY QueueFacts, ChainEventsAssumption DEF TypeOK
<1>1. ASSUME NEW S \in SUBSET Events, NewBlock(S) PROVE TypeOK'
  <2>1. height' \in Nat /\ minedAt' \in [Events -> Nat]
    BY <1>0, <1>1 DEF NewBlock
  <2> QED BY <1>1, <2>1 DEF TypeOK, NewBlock
<1>2. ASSUME NEW e \in Events, NEW b \in 0..MaxHeight, Reorg(e, b) PROVE TypeOK'
  <2>1. b \in Nat
    BY ChainEventsAssumption
  <2>2. minedAt' \in [Events -> Nat] /\ reorgs' \in 0..MaxReorgs
    BY <1>0, <1>2, <2>1 DEF Reorg
  <2> QED BY <1>2, <2>2 DEF TypeOK, Reorg
<1>3. CASE Poll
  <2>1. queue' \in Seq(Items)
    BY <1>3, PollQueue
  <2>2. txDone' \in [Events -> Nat]
    <3>1. txDone' = [e \in Events |->
              LET b == IF e \in parseLogsToEvents THEN minedAt[e] ELSE txDone[e]
              IN  IF b <= fromBlockNumber THEN 0 ELSE b]
      BY <1>3 DEF Poll
    <3> QED BY <1>0, <3>1
  <2> QED BY <1>0, <1>3, <2>1, <2>2 DEF TypeOK, Poll, Items, chainVars
<1>4. CASE handleBlockNumber
  <2>1. queue' \in Seq(Items) /\ queue[1][1] \in Nat /\ Head(queue) = queue[1]
    BY <1>4, HeadQueue, QueueFacts DEF handleBlockNumber
  <2> QED BY <1>4, <2>1 DEF TypeOK, handleBlockNumber, Items, chainVars
<1>5. CASE OnBlockchainStateChange
  <2>1. queue' \in Seq(Items) /\ handled' \in Seq(Nat \X Events)
    BY <1>5, HeadQueue, HandledAfter DEF OnBlockchainStateChange
  <2> QED BY <1>5, <2>1 DEF TypeOK, OnBlockchainStateChange, Items, chainVars
<1>6. CASE handleEthRPCConnectionOK
  <2>1. queue' \in Seq(Items)
    BY <1>6, RestartQueue
  <2>2. restarts' \in 0..MaxRestarts
    BY <1>0, <1>6 DEF handleEthRPCConnectionOK
  <2> QED BY <1>6, <2>1, <2>2 DEF TypeOK, handleEthRPCConnectionOK, Items, chainVars
<1>7. CASE CrashAndStart
  <2>1. queue' \in Seq(Items)
    BY <1>7, CrashQueue
  <2>2. restarts' \in 0..MaxRestarts /\ txDone' \in [Events -> Nat]
    BY <1>0, <1>7 DEF CrashAndStart
  <2> QED BY <1>7, <2>1, <2>2 DEF TypeOK, CrashAndStart, Items, chainVars
<1>8. CASE UNCHANGED vars
  BY <1>8 DEF TypeOK, vars, chainVars
<1> QED BY <1>1, <1>2, <1>3, <1>4, <1>5, <1>6, <1>7, <1>8 DEF Next

-----------------------------------------------------------------------------
(***************************************************************************)
(* Nothing is ahead of the chain.                                          *)
(***************************************************************************)
LEMMA NumberFacts ==
    ASSUME TypeOK
    PROVE  /\ height \in Nat /\ current \in Nat /\ blockNumber \in Nat /\ saved \in Nat
           /\ \A e \in Events : minedAt[e] \in Nat /\ txDone[e] \in Nat
           /\ EnableForkConfirm \in BOOLEAN /\ jumpedAt \in Nat
           /\ \A e \in Events : /\ Slack(e) \in Nat /\ Slack(e) >= ForkConfirmNumber
                                /\ Slack(e) <= 2 * ForkConfirmNumber
           /\ fromBlockNumber \in Nat /\ current - 2 * ForkConfirmNumber <= fromBlockNumber
           /\ fromBlockNumber <= current
           /\ \A e \in Events, b \in Nat : current - Slack(e) <= b => fromBlockNumber <= b
<1>1. EnableForkConfirm \in BOOLEAN
  BY ChainEventsAssumption DEF TypeOK
<1> QED BY <1>1, ChainEventsAssumption DEF TypeOK, Slack, fromBlockNumber

\* What is polled was mined.
LEMMA ChangeFacts ==
    ASSUME TypeOK, BoundInv, NEW x \in Changes(parseLogsToEvents)
    PROVE  /\ x[1] \in Nat /\ x[1] <= height /\ x[2] \in 0..NumEvents
           /\ x[2] # 0 => x[2] \in parseLogsToEvents /\ x = <<minedAt[x[2]], x[2]>>
           /\ x[1] # height => \E e \in parseLogsToEvents : x[1] = minedAt[e]
<1>1. CASE x \in {<<minedAt[e], e>> : e \in parseLogsToEvents}
  <2>1. PICK e \in parseLogsToEvents : x = <<minedAt[e], e>>
    BY <1>1
  <2> QED BY <2>1, PolledSet, EventFacts, NumberFacts DEF BoundInv
<1>2. CASE x \in {<<minedAt[e], 0>> : e \in parseLogsToEvents}
  <2>1. PICK e \in parseLogsToEvents : x = <<minedAt[e], 0>>
    BY <1>2
  <2> QED BY <2>1, PolledSet, EventFacts, NumberFacts DEF BoundInv
<1>3. CASE x = <<height, 0>>
  BY <1>3, EventFacts, NumberFacts
<1> QED BY <1>1, <1>2, <1>3 DEF Changes

LEMMA BoundStep ==
    ASSUME TypeOK, BoundInv, [Next]_vars
    PROVE  BoundInv'
<1> USE NumberFacts, QueueFacts
<1>0. /\ blockNumber = saved /\ saved <= height
      /\ current <= height
      /\ \A e \in Events : minedAt[e] <= height
      /\ \A i \in 1..Len(queue) : queue[i][1] <= height
  BY DEF BoundInv
<1>1. ASSUME NEW S \in SUBSET Events, NewBlock(S) PROVE BoundInv'
  <2>1. /\ height' = height + 1
        /\ queue' = queue /\ current' = current /\ saved' = saved /\ blockNumber' = blockNumber
        /\ \A e \in Events : minedAt'[e] = IF e \in S THEN height + 1 ELSE minedAt[e]
    BY <1>1 DEF NewBlock
  <2>2. saved' <= height' /\ current' <= height'
    BY <1>0, <2>1
  <2>3. ASSUME NEW e \in Events PROVE minedAt'[e] <= height'
    <3>1. minedAt[e] \in Nat /\ height \in Nat /\ minedAt[e] <= height
      BY <1>0
    <3>2. minedAt'[e] = height + 1 \/ minedAt'[e] = minedAt[e]
      BY <2>1
    <3> QED BY <2>1, <3>1, <3>2
  <2>4. \A i \in 1..Len(queue') : queue'[i][1] <= height'
    BY <1>0, <2>1
  <2> QED BY <1>0, <2>1, <2>2, <2>3, <2>4 DEF BoundInv
<1>2. ASSUME NEW e \in Events, NEW b \in 0..MaxHeight, Reorg(e, b) PROVE BoundInv'
  <2>1. /\ b <= height
        /\ UNCHANGED <<EnableForkConfirm, height, current, queue, blockNumber, saved>>
        /\ minedAt' = [minedAt EXCEPT ![e] = b]
    BY <1>2, EventFacts DEF Reorg
  <2>2. \A d \in Events : minedAt'[d] <= height
    BY <1>0, <2>1 DEF TypeOK
  <2> QED BY <1>0, <2>1, <2>2 DEF BoundInv
<1>3. CASE Poll
  <2>1. /\ UNCHANGED <<EnableForkConfirm, height, minedAt, blockNumber, saved>>
        /\ current' = height
    BY <1>3 DEF Poll, chainVars
  <2>2. ASSUME NEW i \in 1..Len(queue') PROVE queue'[i][1] <= height
    <3>1. CASE i <= Len(queue)
      <4>1. i \in 1..Len(queue)
        BY <2>2, <3>1
      <4> QED BY <1>0, <1>3, <4>1, PollQueue
    <3>2. CASE i > Len(queue)
      BY <1>3, <2>2, <3>2, PollQueue, ChangeFacts
    <3>3. i \in Nat
      BY <1>3, <2>2, PollQueue
    <3> QED BY <3>1, <3>2, <3>3
  <2> QED BY <1>0, <2>1, <2>2 DEF BoundInv
<1>4. CASE handleBlockNumber
  <2>1. /\ UNCHANGED <<EnableForkConfirm, height, minedAt, current>>
        /\ blockNumber' = saved' /\ saved' = queue[1][1] /\ 1 \in 1..Len(queue)
    BY <1>4, HeadQueue DEF handleBlockNumber, chainVars
  <2>2. \A i \in 1..Len(queue') : queue'[i][1] <= height
    BY <1>0, <1>4, HeadQueue DEF handleBlockNumber
  <2> QED BY <1>0, <2>1, <2>2 DEF BoundInv
<1>5. CASE OnBlockchainStateChange
  <2>1. UNCHANGED <<EnableForkConfirm, height, minedAt, current, blockNumber, saved>>
    BY <1>5 DEF OnBlockchainStateChange, chainVars
  <2>2. \A i \in 1..Len(queue') : queue'[i][1] <= height
    BY <1>0, <1>5, HeadQueue DEF OnBlockchainStateChange
  <2> QED BY <1>0, <2>1, <2>2 DEF BoundInv
<1>6. CASE handleEthRPCConnectionOK
  <2>1. /\ UNCHANGED <<EnableForkConfirm, height, minedAt, blockNumber, saved>>
        /\ current' = saved
    BY <1>6 DEF handleEthRPCConnectionOK, chainVars
  <2>2. \A i \in 1..Len(queue') : queue'[i][1] <= height
    <3>1. \A i \in 1..(Len(queue) + 1) : i \in 1..Len(queue) \/ i = Len(queue) + 1
      OBVIOUS
    <3>2. queue'[Len(queue) + 1][1] = saved
      BY <1>6, RestartQueue
    <3> QED BY <1>0, <1>6, <3>1, <3>2, RestartQueue
  <2> QED BY <1>0, <2>1, <2>2 DEF BoundInv
<1>7. CASE CrashAndStart
  <2>1. /\ UNCHANGED <<EnableForkConfirm, height, minedAt, saved>>
        /\ current' = saved /\ blockNumber' = saved
    BY <1>7 DEF CrashAndStart, chainVars
  <2>2. \A i \in 1..Len(queue') : queue'[i][1] <= height
    <3>1. Len(queue') = 1 /\ queue'[1][1] = saved /\ \A i \in 1..1 : i = 1
      BY <1>7, CrashQueue
    <3> QED BY <1>0, <3>1
  <2> QED BY <1>0, <2>1, <2>2 DEF BoundInv
<1>8. CASE UNCHANGED vars
  BY <1>8 DEF BoundInv, vars, chainVars
<1> QED BY <1>1, <1>2, <1>3, <1>4, <1>5, <1>6, <1>7, <1>8 DEF Next

-----------------------------------------------------------------------------
(***************************************************************************)
(* What was delivered stays so until a crash.                              *)
(***************************************************************************)
LEMMA DeliveredFacts ==
    ASSUME TypeOK, NEW x
    PROVE  /\ x \in Handled <=> \E i \in 1..Len(handled) : handled[i] = x
           /\ x \in ToSet(queue) <=> \E i \in 1..Len(queue) : queue[i] = x
BY QueueFacts, ToSetFacts DEF Handled

\* No step undoes the handling of an event.
LEMMA HandledStays ==
    ASSUME TypeOK, [Next]_vars, NEW x \in Handled
    PROVE  x \in Handled'
<1>1. CASE UNCHANGED handled
  BY <1>1 DEF Handled
<1>2. CASE OnBlockchainStateChange
  <2>1. PICK i \in 1..Len(handled) : handled[i] = x
    BY DeliveredFacts
  <2>2. Len(handled) \in Nat
    BY QueueFacts
  <2>3. i \in 1..Len(handled') /\ handled'[i] = x
    BY <1>2, <2>1, <2>2, HandledAfter
  <2>4. handled' \in Seq(Nat \X Events)
    BY <1>2, HandledAfter
  <2> QED BY <2>3, <2>4, ToSetFacts DEF Handled
<1> QED BY <1>1, <1>2 DEF Next, NewBlock, Reorg, Poll, handleBlockNumber,
           handleEthRPCConnectionOK, CrashAndStart, vars

\* The event at the head of the queue is handled next.
LEMMA HeadHandled ==
    ASSUME TypeOK, OnBlockchainStateChange
    PROVE  queue[1] \in Handled'
<1>1. /\ handled' \in Seq(Nat \X Events) /\ Len(handled') = Len(handled) + 1
      /\ handled'[Len(handled) + 1] = queue[1]
  BY HandledAfter
<1>2. Len(handled) + 1 \in 1..Len(handled')
  BY <1>1, QueueFacts
<1> QED BY <1>1, <1>2, ToSetFacts DEF Handled

LEMMA DeliveredStays ==
    ASSUME TypeOK, [Next]_vars, ~ CrashAndStart,
           NEW b \in Nat, NEW e \in Events, Delivered(b, e)
    PROVE  Delivered(b, e)'
<1>1. TypeOK'
  BY TypeStep
<1>2. CASE <<b, e>> \in Handled
  BY <1>2, HandledStays DEF Delivered
<1>3. ASSUME NEW i \in 1..Len(queue), queue[i] = <<b, e>> PROVE Delivered(b, e)'
  <2>0. /\ i \in Nat /\ i >= 1 /\ i <= Len(queue) /\ Len(queue) \in Nat
        /\ queue' \in Seq(Items) /\ queue[i][2] = e /\ e # 0
    <3>1. queue' \in Seq(Items)
      BY <1>1 DEF TypeOK, Items
    <3>2. Len(queue) \in Nat /\ e # 0
      BY QueueFacts, EventFacts
    <3> QED BY <1>3, <3>1, <3>2
  <2>1. CASE \E k \in 1..Len(queue') : queue'[k] = <<b, e>>
    <3>1. <<b, e>> \in ToSet(queue')
      BY <2>0, <2>1, ToSetFacts
    <3> QED BY <3>1 DEF Delivered
  <2>2. CASE i = 1 /\ OnBlockchainStateChange
    BY <1>3, <2>2, HeadHandled DEF Delivered
  <2>3. CASE UNCHANGED queue
    BY <1>3, <2>1, <2>3
  <2>4. CASE Poll
    <3>1. i \in 1..Len(queue') /\ queue'[i] = <<b, e>>
      BY <1>3, <2>0, <2>4, PollQueue
    <3> QED BY <2>1, <3>1
  <2>5. CASE handleEthRPCConnectionOK
    <3>1. i \in 1..Len(queue') /\ queue'[i] = <<b, e>>
      BY <1>3, <2>0, <2>5, RestartQueue
    <3> QED BY <2>1, <3>1
  <2>6. CASE queue # <<>> /\ queue' = Tail(queue) /\ i # 1
    <3>1. i - 1 \in 1..Len(queue') /\ (i - 1) + 1 = i
      BY <2>0, <2>6, HeadQueue
    <3>2. queue'[i - 1] = <<b, e>>
      BY <1>3, <2>6, <3>1, HeadQueue
    <3> QED BY <2>1, <3>1, <3>2
  <2>7. ~ (i = 1 /\ handleBlockNumber)
    BY <2>0, HeadQueue DEF handleBlockNumber
  <2> QED BY <2>2, <2>3, <2>4, <2>5, <2>6, <2>7 DEF Next, NewBlock, Reorg, handleBlockNumber,
             OnBlockchainStateChange, vars
<1> QED BY <1>2, <1>3, DeliveredFacts DEF Delivered

LEMMA DoneStep ==
    ASSUME TypeOK, DoneInv, [Next]_vars
    PROVE  DoneInv'
<1> SUFFICES ASSUME NEW e \in Events, txDone'[e] # 0
             PROVE  <<txDone'[e], e>> \in Handled' \cup ToSet(queue')
  BY DEF DoneInv, Delivered
<1>0. TypeOK' /\ txDone'[e] \in Nat
  BY TypeStep DEF TypeOK
<1>1. CASE CrashAndStart
  BY <1>1 DEF CrashAndStart
<1>2. CASE txDone'[e] = txDone[e] /\ ~ CrashAndStart
  <2>1. Delivered(txDone[e], e) /\ txDone[e] \in Nat
    BY <1>2, NumberFacts DEF DoneInv
  <2>2. ASSUME NEW b \in Nat, Delivered(b, e) PROVE Delivered(b, e)'
    BY <1>2, <2>2, DeliveredStays
  <2>3. \A b \in Nat : Delivered(b, e) => <<b, e>> \in Handled' \cup ToSet(queue')
    BY <2>2 DEF Delivered
  <2> QED BY <1>2, <2>1, <2>3
<1>3. CASE Poll
  <2>1. txDone'[e] = txDone[e] \/ (e \in parseLogsToEvents /\ txDone'[e] = minedAt[e])
    BY <1>3 DEF Poll
  <2>2. CASE e \in parseLogsToEvents /\ txDone'[e] = minedAt[e]
    <3>1. <<minedAt[e], e>> \in Changes(parseLogsToEvents)
      BY <2>2 DEF Changes
    <3>2. \E i \in 1..Len(queue') : queue'[i] = <<minedAt[e], e>>
      BY <1>3, <3>1, PollQueue
    <3>3. <<minedAt[e], e>> \in ToSet(queue')
      BY <1>3, <3>2, PollQueue, ToSetFacts
    <3> QED BY <2>2, <3>3
  <2> QED BY <1>1, <1>2, <2>1, <2>2
<1>4. CASE UNCHANGED txDone
  BY <1>1, <1>2, <1>4
<1> QED BY <1>1, <1>3, <1>4 DEF Next, NewBlock, Reorg, handleBlockNumber,
           OnBlockchainStateChange, handleEthRPCConnectionOK, vars

-----------------------------------------------------------------------------
(***************************************************************************)
(* No event is lost.                                                       *)
(***************************************************************************)
\* The two main loop steps move the place of an event one forward.
LEMMA ComesForward ==
    ASSUME TypeOK, queue # <<>>, queue' = Tail(queue), NEW e \in Events,
           NEW k \in 2..(Len(queue) + 1), ComesAt(e, k),
           minedAt' = minedAt, current' = current, EnableForkConfirm' = EnableForkConfirm,
           saved' = saved \/ (queue[1][2] = 0 /\ saved' = queue[1][1])
    PROVE  k - 1 \in 1..(Len(queue') + 1) /\ ComesAt(e, k - 1)'
<1> DEFINE n == Len(queue)
<1>1. /\ n \in Nat /\ n >= 1 /\ Len(queue') = n - 1 /\ k \in Nat /\ k >= 2 /\ k <= n + 1
      /\ \A i \in 1..(n - 1) : i + 1 \in 1..n /\ queue'[i] = queue[i + 1]
  BY QueueFacts, HeadQueue
<1>2. /\ k <= n => queue[k] = <<minedAt[e], e>>
      /\ k > n => current - Slack(e) <= minedAt[e]
      /\ saved - Slack(e) <= minedAt[e]
      /\ \A j \in 1..n : j < k /\ queue[j][2] = 0 => queue[j][1] - Slack(e) <= minedAt[e]
  BY DEF ComesAt
<1>3. Slack(e)' = Slack(e)
  BY DEF Slack, needConfirm
<1>4. k - 1 <= Len(queue') => queue'[k - 1] = <<minedAt[e], e>>
  <2>1. k - 1 <= n - 1 => k <= n /\ k - 1 \in 1..(n - 1) /\ (k - 1) + 1 = k
    BY <1>1
  <2> QED BY <1>1, <1>2, <2>1
<1>5. k - 1 > Len(queue') => current - Slack(e) <= minedAt[e]
  BY <1>1, <1>2
<1>6. saved' - Slack(e) <= minedAt[e]
  <2>1. 1 \in 1..n /\ 1 < k
    BY <1>1
  <2> QED BY <1>2, <2>1
<1>7. ASSUME NEW j \in 1..Len(queue'), j < k - 1, queue'[j][2] = 0
      PROVE  queue'[j][1] - Slack(e) <= minedAt[e]
  <2>1. j + 1 \in 1..n /\ j + 1 < k /\ queue'[j] = queue[j + 1]
    BY <1>1, <1>7
  <2> QED BY <1>2, <1>7, <2>1
<1>8. k - 1 \in 1..(Len(queue') + 1)
  BY <1>1
<1> HIDE DEF n
<1> QED BY <1>3, <1>4, <1>5, <1>6, <1>7, <1>8 DEF ComesAt

\* A poll reaches every event that is expected after the queue.
LEMMA PollReaches ==
    ASSUME TypeOK, BoundInv, DoneInv, Poll, NEW e \in Events, minedAt[e] > 0,
           needConfirm(e) => minedAt[e] > jumpedAt',
           ComesAt(e, Len(queue) + 1)
    PROVE  <<minedAt[e], e>> \in Handled \/ \E k \in 1..(Len(queue') + 1) : ComesAt(e, k)'
<1> DEFINE n == Len(queue)
           b == minedAt[e]
<1>0. /\ n \in Nat /\ b \in Nat /\ Len(queue') \in Nat /\ n <= Len(queue')
      /\ height \in Nat /\ current \in Nat /\ saved \in Nat /\ Slack(e) \in Nat
      /\ ForkConfirmNumber \in Nat
      /\ \A i \in 1..n : queue'[i] = queue[i]
      /\ \A i \in 1..Len(queue) : queue[i][1] \in Nat
  BY QueueFacts, NumberFacts, EventFacts, PollQueue
<1>1. /\ Slack(e)' = Slack(e) /\ minedAt' = minedAt /\ saved' = saved /\ current' = height
  BY DEF Poll, chainVars, Slack, needConfirm
<1>2. /\ current - Slack(e) <= b /\ saved - Slack(e) <= b
      /\ \A j \in 1..n : queue[j][2] = 0 => queue[j][1] - Slack(e) <= b
  <2>1. /\ n + 1 > n => current - Slack(e) <= b
        /\ saved - Slack(e) <= b
        /\ \A j \in 1..n :
              j < n + 1 /\ queue[j][2] = 0 => queue[j][1] - Slack(e) <= b
    BY DEF ComesAt
  <2>2. n + 1 > n /\ \A j \in 1..n : j < n + 1
    BY <1>0
  <2> HIDE DEF n, b
  <2> QED BY <2>1, <2>2
<1>3. b <= height /\ fromBlockNumber <= b
  BY <1>0, <1>2, NumberFacts DEF BoundInv
<1>4. CASE e \in parseLogsToEvents
  <2>1. <<b, e>> \in Changes(parseLogsToEvents)
    BY <1>4 DEF Changes
  <2>2. PICK k \in 1..Len(queue') : k > n /\ queue'[k] = <<b, e>>
    BY <2>1, PollQueue
  <2>3. ASSUME NEW j \in 1..Len(queue'), j < k, queue'[j][2] = 0
        PROVE  queue'[j][1] - Slack(e) <= b
    <3>1. CASE j <= n
      <4>1. j \in 1..n
        BY <1>0, <2>3, <3>1
      <4> QED BY <1>0, <1>2, <2>3, <4>1
    <3>2. CASE j > n
      <4>1. Before(queue'[j], queue'[k])
        BY <2>2, <2>3, <3>2, PollQueue
      <4>2. queue'[j] \in Items /\ queue'[k] \in Items /\ queue'[j][1] \in Nat
        <5>1. queue'[j] \in Changes(parseLogsToEvents) /\ queue'[k] \in Changes(parseLogsToEvents)
          BY <2>2, <3>2, PollQueue
        <5> QED BY <5>1, ChangesFinite, ChangeFacts, PolledSet
      <4>3. queue'[j][1] <= b
        BY <2>2, <4>1, <4>2, BeforeFacts
      <4> QED BY <1>0, <4>2, <4>3
    <3> QED BY <1>0, <2>3, <3>1, <3>2
  <2>4. k \in 1..(Len(queue') + 1) /\ ~ (k > Len(queue'))
    BY <1>0, <2>2
  <2>5. ComesAt(e, k)'
    <3> HIDE DEF n
    <3> QED BY <1>1, <1>2, <2>2, <2>3, <2>4 DEF ComesAt
  <2> QED BY <2>4, <2>5
<1>5. CASE IsDone(e)
  <2>1. <<b, e>> \in Handled \/ \E i \in 1..n : queue[i] = <<b, e>>
    BY <1>5, DeliveredFacts DEF IsDone, DoneInv, Delivered
  <2>2. ASSUME NEW i \in 1..n, queue[i] = <<b, e>> PROVE \E k \in 1..(Len(queue') + 1) : ComesAt(e, k)'
    <3>1. i \in 1..(Len(queue') + 1) /\ ~ (i > Len(queue')) /\ queue'[i] = <<b, e>>
      BY <1>0, <2>2
    <3>2. ASSUME NEW j \in 1..Len(queue'), j < i PROVE j \in 1..n /\ queue'[j] = queue[j]
      BY <1>0, <2>2, <3>2
    <3>3. ComesAt(e, i)'
      BY <1>1, <1>2, <3>1, <3>2 DEF ComesAt
    <3> QED BY <3>1, <3>3
  <2> QED BY <2>1, <2>2
<1>6. CASE needConfirm(e) /\ ~ IsConfirmed(e)
  <2>1. current - b < ForkConfirmNumber
    BY <1>0, <1>6 DEF IsConfirmed
  <2>2. Slack(e) = 2 * ForkConfirmNumber /\ height - current <= ForkConfirmNumber + 1
    <3>1. height - current > ForkConfirmNumber + 1 => jumpedAt' = height
      BY DEF Poll
    <3>2. b > jumpedAt'
      BY <1>6
    <3> QED BY <1>0, <1>3, <1>6, <3>1, <3>2 DEF Slack
  <2>3. height - Slack(e) <= b
    <3> HIDE DEF b
    <3> QED BY <1>0, <1>3, <2>1, <2>2
  <2>4. ASSUME NEW j \in 1..Len(queue'), queue'[j][2] = 0 PROVE queue'[j][1] - Slack(e) <= b
    <3>1. CASE j <= n
      <4>1. j \in 1..n
        BY <1>0, <2>4, <3>1
      <4> QED BY <1>0, <1>2, <2>4, <4>1
    <3>2. CASE j > n
      <4>1. queue'[j][1] \in Nat /\ queue'[j][1] <= height
        BY <3>2, PollQueue, ChangeFacts
      <4> QED BY <1>0, <2>3, <4>1
    <3> QED BY <1>0, <2>4, <3>1, <3>2
  <2>5. Len(queue') + 1 \in 1..(Len(queue') + 1) /\ ~ (Len(queue') + 1 <= Len(queue'))
    BY <1>0
  <2>6. ComesAt(e, Len(queue) + 1)'
    BY <1>1, <1>2, <2>3, <2>4, <2>5 DEF ComesAt
  <2> QED BY <2>5, <2>6
<1>7. e \in parseLogsToEvents \/ IsDone(e) \/ (needConfirm(e) /\ ~ IsConfirmed(e))
  BY <1>0, <1>3, NumberFacts DEF parseLogsToEvents
<1> QED BY <1>4, <1>5, <1>6, <1>7

\* An event in one of the last ForkConfirmNumber blocks is reached by the next
\* poll, from whatever block.
LEMMA RecentComes ==
    ASSUME TypeOK, BoundInv, TypeOK', BoundInv', NEW e \in Events,
           height' - ForkConfirmNumber <= minedAt'[e]
    PROVE  ComesAt(e, Len(queue) + 1)' /\ Len(queue') + 1 \in 1..(Len(queue') + 1)
<1>1. /\ height' \in Nat /\ current' \in Nat /\ saved' \in Nat /\ minedAt'[e] \in Nat
      /\ Len(queue') \in Nat
      /\ \A i \in 1..Len(queue') : queue'[i][1] \in Nat
      /\ EnableForkConfirm' \in BOOLEAN /\ ForkConfirmNumber \in Nat
  <2>1. \A x \in Items : x[1] \in Nat
    BY DEF Items
  <2>2. queue' \in Seq(Items)
    BY DEF TypeOK, Items
  <2>3. Len(queue') \in Nat /\ \A i \in 1..Len(queue') : queue'[i] \in Items
    BY <2>2, ElementOfSeq, LenProperties
  <2> QED BY <2>1, <2>3, ChainEventsAssumption DEF TypeOK
<1>2. Slack(e)' \in Nat /\ Slack(e)' >= ForkConfirmNumber
  BY <1>1 DEF Slack, needConfirm
<1>3. /\ saved' <= height' /\ current' <= height'
      /\ \A i \in 1..Len(queue') : queue'[i][1] <= height'
  BY DEF BoundInv
<1>4. current' - Slack(e)' <= minedAt'[e] /\ saved' - Slack(e)' <= minedAt'[e]
  BY <1>1, <1>2, <1>3
<1>5. \A i \in 1..Len(queue') : queue'[i][1] - Slack(e)' <= minedAt'[e]
  BY <1>1, <1>2, <1>3
<1>6. ~ (Len(queue') + 1 <= Len(queue')) /\ Len(queue') + 1 \in 1..(Len(queue') + 1)
  BY <1>1
<1> QED BY <1>4, <1>5, <1>6 DEF ComesAt

LEMMA DueStep ==
    ASSUME TypeOK, BoundInv, DoneInv, DueInv, [Next]_vars
    PROVE  DueInv'
<1>0. EnableForkConfirm' = EnableForkConfirm
  BY DEF Next, NewBlock, Reorg, Poll, handleBlockNumber, OnBlockchainStateChange,
         handleEthRPCConnectionOK, CrashAndStart, vars
<1> SUFFICES ASSUME NEW e \in Events, minedAt'[e] > 0,
                    needConfirm(e) => minedAt'[e] > jumpedAt'
             PROVE  Due(e)'
  BY <1>0 DEF DueInv, needConfirm
<1>T. TypeOK' /\ BoundInv'
  BY TypeStep, BoundStep
<1>R. ASSUME height' - ForkConfirmNumber <= minedAt'[e] PROVE Due(e)'
  BY <1>R, <1>T, RecentComes DEF Due
<1>H. ASSUME <<minedAt[e], e>> \in Handled, minedAt'[e] = minedAt[e] PROVE Due(e)'
  BY <1>H, HandledStays DEF Due
<1>J. jumpedAt' = jumpedAt \/ (Poll /\ jumpedAt' = height)
  BY DEF Next, NewBlock, Reorg, Poll, handleBlockNumber, OnBlockchainStateChange,
         handleEthRPCConnectionOK, CrashAndStart, vars
<1>D. minedAt[e] > 0 /\ minedAt'[e] = minedAt[e] => Due(e)
  <2>1. jumpedAt' = height => ~ (minedAt[e] > jumpedAt')
    BY NumberFacts DEF BoundInv
  <2> QED BY <1>J, <2>1 DEF DueInv
<1>N. /\ Len(queue) \in Nat /\ minedAt[e] \in Nat /\ height \in Nat /\ saved \in Nat
      /\ ForkConfirmNumber \in Nat /\ ForkConfirmNumber > 0
  BY QueueFacts, NumberFacts, EventFacts
<1>1. ASSUME NEW S \in SUBSET Events, NewBlock(S) PROVE Due(e)'
  <2>1. CASE e \in S
    <3>1. minedAt'[e] = height + 1 /\ height' = height + 1
      BY <1>1, <2>1 DEF NewBlock
    <3>2. height' - ForkConfirmNumber <= minedAt'[e]
      BY <1>N, <3>1
    <3> QED BY <1>R, <3>2
  <2>2. CASE e \notin S
    <3>1. /\ minedAt'[e] = minedAt[e] /\ queue' = queue /\ handled' = handled
          /\ current' = current /\ saved' = saved
      BY <1>1, <2>2 DEF NewBlock
    <3> QED BY <1>0, <1>D, <3>1 DEF Due, ComesAt, Slack, needConfirm, Handled
  <2> QED BY <2>1, <2>2
<1>2. ASSUME NEW d \in Events, NEW b \in 0..MaxHeight, Reorg(d, b) PROVE Due(e)'
  <2>1. /\ queue' = queue /\ handled' = handled /\ current' = current /\ saved' = saved
        /\ height' = height /\ minedAt' = [minedAt EXCEPT ![d] = b]
    BY <1>2 DEF Reorg
  <2>2. CASE e = d
    <3>1. minedAt'[e] = b
      BY <2>1, <2>2 DEF TypeOK
    <3>2. b >= height - ForkConfirmNumber + 1
      BY <1>2, <1>N, <3>1 DEF Reorg
    <3>3. height' - ForkConfirmNumber <= minedAt'[e]
      BY <1>N, <2>1, <3>1, <3>2, ChainEventsAssumption
    <3> QED BY <1>R, <3>3
  <2>3. CASE e # d
    <3>1. minedAt'[e] = minedAt[e]
      BY <2>1, <2>3 DEF TypeOK
    <3> QED BY <1>0, <1>D, <2>1, <3>1 DEF Due, ComesAt, Slack, needConfirm, Handled
  <2> QED BY <2>2, <2>3
<1>3. CASE Poll
  <2>1. /\ minedAt' = minedAt /\ saved' = saved /\ Slack(e)' = Slack(e) /\ current' = height
    BY <1>3 DEF Poll, chainVars, Slack, needConfirm
  <2>2. Due(e)
    BY <1>D, <2>1
  <2>3. CASE <<minedAt[e], e>> \in Handled
    BY <1>H, <2>1, <2>3
  <2>4. ASSUME NEW k \in 1..(Len(queue) + 1), ComesAt(e, k) PROVE Due(e)'
    <3>1. CASE k = Len(queue) + 1
      <4>1. \/ <<minedAt[e], e>> \in Handled
            \/ \E i \in 1..(Len(queue') + 1) : ComesAt(e, i)'
        BY <1>3, <2>1, <2>4, <3>1, PollReaches
      <4> QED BY <2>3, <4>1 DEF Due
    <3>2. CASE k # Len(queue) + 1
      <4>1. /\ Len(queue') \in Nat /\ Len(queue) <= Len(queue')
            /\ \A i \in 1..Len(queue) : queue'[i] = queue[i]
        BY <1>3, PollQueue
      <4>2. /\ k \in 1..Len(queue) /\ k \in 1..(Len(queue') + 1) /\ ~ (k > Len(queue'))
        BY <1>N, <3>2, <4>1
      <4>3. ASSUME NEW j \in 1..Len(queue'), j < k PROVE j \in 1..Len(queue)
        BY <1>N, <4>1, <4>2, <4>3
      <4>4. ComesAt(e, k)'
        BY <1>N, <2>1, <2>4, <4>1, <4>2, <4>3 DEF ComesAt
      <4> QED BY <4>2, <4>4 DEF Due
    <3> QED BY <3>1, <3>2
  <2> QED BY <2>2, <2>3, <2>4 DEF Due
<1>4. CASE handleBlockNumber \/ OnBlockchainStateChange
  <2>1. /\ queue # <<>> /\ queue' = Tail(queue) /\ Head(queue) = queue[1]
        /\ minedAt' = minedAt /\ current' = current
        /\ saved' = saved \/ (queue[1][2] = 0 /\ saved' = queue[1][1])
    BY <1>4, HeadQueue DEF handleBlockNumber, OnBlockchainStateChange, chainVars
  <2>2. Due(e)
    BY <1>D, <2>1
  <2>3. CASE <<minedAt[e], e>> \in Handled
    BY <1>H, <2>1, <2>3
  <2>4. ASSUME NEW k \in 1..(Len(queue) + 1), ComesAt(e, k) PROVE Due(e)'
    <3>1. CASE k = 1
      <4>1. queue[1] = <<minedAt[e], e>>
        BY <1>N, <2>1, <2>4, <3>1, HeadQueue DEF ComesAt
      <4>2. queue[1][2] # 0
        BY <4>1, EventFacts
      <4>3. OnBlockchainStateChange
        BY <1>4, <2>1, <4>2 DEF handleBlockNumber
      <4> QED BY <2>1, <4>1, <4>3, HeadHandled DEF Due
    <3>2. CASE k # 1
      <4>1. k \in 2..(Len(queue) + 1)
        BY <1>N, <3>2
      <4>2. k - 1 \in 1..(Len(queue') + 1) /\ ComesAt(e, k - 1)'
        BY <1>0, <2>1, <2>4, <4>1, ComesForward
      <4> QED BY <4>2 DEF Due
    <3> QED BY <3>1, <3>2
  <2> QED BY <2>2, <2>3, <2>4 DEF Due
<1>5. CASE handleEthRPCConnectionOK
  <2>1. /\ minedAt' = minedAt /\ saved' = saved /\ Slack(e)' = Slack(e) /\ current' = saved
    BY <1>5 DEF handleEthRPCConnectionOK, chainVars, Slack, needConfirm
  <2>2. /\ Len(queue') = Len(queue) + 1
        /\ \A i \in 1..Len(queue) : queue'[i] = queue[i]
        /\ queue'[Len(queue) + 1][1] = saved
    BY <1>5, RestartQueue
  <2>3. CASE <<minedAt[e], e>> \in Handled
    BY <1>H, <2>1, <2>3
  <2>4. ASSUME NEW k \in 1..(Len(queue) + 1), ComesAt(e, k) PROVE Due(e)'
    <3>1. CASE k = Len(queue) + 1
      <4>1. ASSUME NEW j \in 1..Len(queue')
            PROVE  (j \in 1..Len(queue) /\ j < k) \/ j = Len(queue) + 1
        BY <1>N, <2>2, <3>1
      <4>2. k + 1 \in 1..(Len(queue') + 1) /\ ~ (k + 1 <= Len(queue'))
        BY <1>N, <2>2, <3>1
      <4>3. ComesAt(e, k + 1)'
        BY <2>1, <2>2, <2>4, <4>1, <4>2 DEF ComesAt
      <4> QED BY <4>2, <4>3 DEF Due
    <3>2. CASE k # Len(queue) + 1
      <4>1. /\ k \in 1..Len(queue) /\ k \in 1..(Len(queue') + 1) /\ ~ (k > Len(queue'))
        BY <1>N, <2>2, <3>2
      <4>2. ASSUME NEW j \in 1..Len(queue'), j < k PROVE j \in 1..Len(queue)
        BY <1>N, <2>2, <4>1, <4>2
      <4>3. ComesAt(e, k)'
        BY <1>N, <2>1, <2>2, <2>4, <4>1, <4>2 DEF ComesAt
      <4> QED BY <4>1, <4>3 DEF Due
    <3> QED BY <3>1, <3>2
  <2> QED BY <1>D, <2>1, <2>3, <2>4 DEF Due
<1>6. CASE CrashAndStart
  <2>1. /\ minedAt' = minedAt /\ saved' = saved /\ Slack(e)' = Slack(e) /\ current' = saved
    BY <1>6 DEF CrashAndStart, chainVars, Slack, needConfirm
  <2>2. Len(queue') = 1 /\ queue'[1][1] = saved /\ \A j \in 1..1 : j = 1
    BY <1>6, CrashQueue
  <2>3. CASE <<minedAt[e], e>> \in Handled
    BY <1>H, <2>1, <2>3
  <2>4. ASSUME NEW k \in 1..(Len(queue) + 1), ComesAt(e, k) PROVE Due(e)'
    <3>1. saved - Slack(e) <= minedAt[e]
      BY <2>4 DEF ComesAt
    <3>2. ComesAt(e, 2)'
      BY <2>1, <2>2, <3>1 DEF ComesAt
    <3>3. 2 \in 1..(Len(queue') + 1)
      BY <2>2
    <3> QED BY <3>2, <3>3 DEF Due
  <2> QED BY <1>D, <2>1, <2>3, <2>4 DEF Due
<1>7. CASE UNCHANGED vars
  BY <1>7, <1>D DEF vars, chainVars, Due, ComesAt, Slack, needConfirm, Handled
<1> QED BY <1>1, <1>2, <1>3, <1>4, <1>5, <1>6, <1>7 DEF Next

-----------------------------------------------------------------------------
(***************************************************************************)
(* Confirmed events are final.                                             *)
(***************************************************************************)
\* The chain does not move an event that was final.
LEMMA FinalStays ==
    ASSUME TypeOK, [Next]_vars, NEW x \in Items, Final(x)
    PROVE  Final(x)'
<1>0. /\ x[1] \in Nat /\ x[2] \in 0..NumEvents /\ height \in Nat /\ ForkConfirmNumber \in Nat
      /\ (x[2] # 0 => x[2] \in Events) /\ MaxHeight \in Nat
  BY EventFacts, NumberFacts, ChainEventsAssumption DEF Items
<1>1. ASSUME NEW S \in SUBSET Events, NewBlock(S) PROVE Final(x)'
  <2>1. /\ height' = height + 1 /\ EnableForkConfirm' = EnableForkConfirm
        /\ \A e \in Events : minedAt'[e] = IF e \in S THEN height + 1 ELSE minedAt[e]
        /\ \A e \in S : minedAt[e] = 0
    BY <1>1 DEF NewBlock
  <2> QED BY <1>0, <2>1 DEF Final, needConfirm
<1>2. ASSUME NEW d \in Events, NEW b \in 0..MaxHeight, Reorg(d, b) PROVE Final(x)'
  <2>1. /\ height' = height /\ EnableForkConfirm' = EnableForkConfirm
        /\ minedAt[d] > height - ForkConfirmNumber
        /\ \A e \in Events : e # d => minedAt'[e] = minedAt[e]
    BY <1>2 DEF Reorg, TypeOK
  <2>2. x[2] # 0 /\ needConfirm(x[2]) => x[2] # d
    BY <1>0, <2>1, NumberFacts DEF Final
  <2> QED BY <1>0, <2>1, <2>2 DEF Final, needConfirm
<1>3. CASE UNCHANGED <<minedAt, height, EnableForkConfirm>>
  BY <1>3 DEF Final, needConfirm
<1> QED BY <1>1, <1>2, <1>3 DEF Next, Poll, handleBlockNumber, OnBlockchainStateChange,
           handleEthRPCConnectionOK, CrashAndStart, vars, chainVars

\* What a poll delivers is final.
LEMMA PolledFinal ==
    ASSUME TypeOK, BoundInv, NEW x \in Changes(parseLogsToEvents)
    PROVE  Final(x)
<1> SUFFICES ASSUME x[2] # 0, needConfirm(x[2])
             PROVE  minedAt[x[2]] = x[1] /\ x[1] > 0 /\ x[1] <= height - ForkConfirmNumber
  BY DEF Final
<1>1. x[2] \in parseLogsToEvents /\ x = <<minedAt[x[2]], x[2]>>
  BY ChangeFacts
<1>2. x[1] = minedAt[x[2]] /\ x[2] \in Events
  BY <1>1, PolledSet
<1>3. minedAt[x[2]] > 0 /\ current - minedAt[x[2]] >= ForkConfirmNumber
  BY <1>1, <1>2 DEF parseLogsToEvents, IsConfirmed
<1>4. /\ minedAt[x[2]] \in Nat /\ current \in Nat /\ height \in Nat /\ current <= height
      /\ ForkConfirmNumber \in Nat
  BY <1>2, NumberFacts, EventFacts DEF BoundInv
<1>5. minedAt[x[2]] <= height - ForkConfirmNumber
  BY <1>3, <1>4
<1> QED BY <1>2, <1>3, <1>5

LEMMA FinalStep ==
    ASSUME TypeOK, BoundInv, FinalInv, [Next]_vars
    PROVE  FinalInv'
<1>0. /\ Len(queue) \in Nat /\ Len(handled) \in Nat
      /\ \A i \in 1..Len(queue) : queue[i] \in Items /\ Final(queue[i])
      /\ \A i \in 1..Len(handled) : handled[i] \in Items /\ Final(handled[i])
  <2>1. Nat \X Events \subseteq Items
    BY EventFacts DEF Items
  <2> QED BY <2>1, QueueFacts DEF FinalInv

<1> DEFINE After(x) ==
        x[2] # 0 /\ EnableForkConfirm' /\ x[2] \in Delayed =>
            minedAt'[x[2]] = x[1] /\ x[1] > 0 /\ x[1] <= height' - ForkConfirmNumber
<1>1. ASSUME NEW x \in Items, Final(x) PROVE After(x)
  <2>1. Final(x)'
    BY <1>1, FinalStays
  <2> QED BY <2>1 DEF Final, needConfirm
<1>2. /\ \A i \in 1..Len(queue) : After(queue[i])
      /\ \A i \in 1..Len(handled) : After(handled[i])
  BY <1>0, <1>1
<1>3. \A x \in Changes(parseLogsToEvents) : After(x)
  BY <1>1, PolledFinal, ChangesFinite, PolledSet
<1> HIDE DEF After
<1>4. SUFFICES /\ \A i \in 1..Len(queue') : After(queue'[i])
               /\ \A i \in 1..Len(handled') : After(handled'[i])
  BY <1>4 DEF FinalInv, Final, needConfirm, After
<1>5. CASE UNCHANGED <<queue, handled>>
  BY <1>2, <1>5
<1>6. CASE Poll
  <2>1. ASSUME NEW i \in 1..Len(queue') PROVE After(queue'[i])
    <3>1. i \in 1..Len(queue) \/ i > Len(queue)
      BY <1>0, <1>6, PollQueue
    <3> QED BY <1>2, <1>3, <1>6, <3>1, PollQueue
  <2>2. handled' = handled
    BY <1>6 DEF Poll
  <2> QED BY <1>2, <2>1, <2>2
<1>7. CASE handleBlockNumber
  <2>1. \A i \in 1..Len(queue') : After(queue'[i])
    BY <1>2, <1>7, HeadQueue DEF handleBlockNumber
  <2> QED BY <1>2, <1>7, <2>1 DEF handleBlockNumber
<1>8. CASE OnBlockchainStateChange
  <2>1. 1 \in 1..Len(queue) /\ \A i \in 1..Len(queue') : After(queue'[i])
    BY <1>0, <1>2, <1>8, HeadQueue DEF OnBlockchainStateChange
  <2>2. ASSUME NEW i \in 1..Len(handled') PROVE After(handled'[i])
    <3>1. i \in 1..Len(handled) \/ i = Len(handled) + 1
      BY <1>0, <1>8, HandledAfter
    <3> QED BY <1>2, <1>8, <2>1, <3>1, HandledAfter
  <2> QED BY <2>1, <2>2
<1>9. After(<<saved, 0>>)
  BY DEF After
<1>10. CASE handleEthRPCConnectionOK
  <2>1. ASSUME NEW i \in 1..Len(queue') PROVE After(queue'[i])
    <3>1. i \in 1..Len(queue) \/ i = Len(queue) + 1
      BY <1>0, <1>10, RestartQueue
    <3> QED BY <1>2, <1>9, <1>10, <3>1, RestartQueue
  <2> QED BY <1>2, <1>10, <2>1 DEF handleEthRPCConnectionOK
<1>11. CASE CrashAndStart
  <2>1. ASSUME NEW i \in 1..Len(queue') PROVE After(queue'[i])
    <3>1. Len(queue') = 1 /\ \A k \in 1..1 : k = 1
      BY <1>11, CrashQueue
    <3>2. i = 1
      BY <3>1
    <3> QED BY <1>9, <1>11, <3>2, CrashQueue
  <2> QED BY <1>2, <1>11, <2>1 DEF CrashAndStart
<1> QED BY <1>5, <1>6, <1>7, <1>8, <1>10, <1>11 DEF Next, NewBlock, Reorg, vars

-----------------------------------------------------------------------------
(***************************************************************************)
(* Events in their order.                                                  *)
(***************************************************************************)
\* Undisturbed, a poll finds only events that are later than all before.
LEMMA PolledLater ==
    ASSUME TypeOK, BoundInv, OrderInv, Undisturbed, Poll,
           NEW x \in Changes(parseLogsToEvents)
    PROVE  x[1] \in Nat /\ current < x[1] /\ x[1] <= height
<1>1. /\ x[1] \in Nat /\ x[1] <= height
      /\ x[1] # height => \E e \in parseLogsToEvents : x[1] = minedAt[e]
  BY ChangeFacts
<1>2. current < height /\ current \in Nat /\ height \in Nat
  BY NumberFacts DEF Poll
<1>3. ASSUME NEW e \in parseLogsToEvents PROVE current < minedAt[e]
  <2>1. /\ e \in Events /\ minedAt[e] \in Nat /\ fromBlockNumber \in Nat
        /\ minedAt[e] > 0 /\ fromBlockNumber <= minedAt[e] /\ ~ IsDone(e)
    BY <1>3, PolledSet, NumberFacts DEF parseLogsToEvents
  <2>2. minedAt[e] \in 1..current => IsDone(e) \/ minedAt[e] < fromBlockNumber
    BY <2>1 DEF OrderInv
  <2> QED BY <1>2, <2>1, <2>2
<1> QED BY <1>1, <1>2, <1>3

\* Undisturbed, a poll leaves nothing undelivered behind.
LEMMA PolledAll ==
    ASSUME TypeOK, BoundInv, OrderInv, Undisturbed, Poll, NEW e \in Events,
           minedAt[e] \in 1..height
    PROVE  IsDone(e)' \/ minedAt[e] < fromBlockNumber'
<1> DEFINE b == minedAt[e]
           from == fromBlockNumber
<1>0. /\ b \in Nat /\ b > 0 /\ b <= height /\ height \in Nat /\ current \in Nat
      /\ from \in Nat /\ from <= current /\ current < height
      /\ txDone[e] \in Nat /\ ForkConfirmNumber \in Nat /\ ForkConfirmNumber > 0
  BY NumberFacts, EventFacts DEF Poll
<1>1. /\ minedAt' = minedAt
      /\ txDone'[e] = LET d == IF e \in parseLogsToEvents THEN b ELSE txDone[e]
                      IN  IF d <= from THEN 0 ELSE d
  BY DEF Poll, chainVars
<1>2. /\ from = IF current < 2 * ForkConfirmNumber THEN 0 ELSE current - 2 * ForkConfirmNumber
      /\ fromBlockNumber' =
            IF height < 2 * ForkConfirmNumber THEN 0 ELSE height - 2 * ForkConfirmNumber
  BY DEF fromBlockNumber, Poll
<1>3. e \in parseLogsToEvents \/ IsDone(e) \/ b < from
  BY <1>0 DEF parseLogsToEvents, Undisturbed, needConfirm
<1>4. CASE e \in parseLogsToEvents
  <2>1. current < b
    <3>1. <<b, e>> \in Changes(parseLogsToEvents)
      BY <1>4 DEF Changes
    <3> QED BY <3>1, PolledLater
  <2>2. txDone'[e] = b
    BY <1>0, <1>1, <1>4, <2>1
  <2> QED BY <1>0, <1>1, <2>2 DEF IsDone
<1>5. CASE b <= from
  <2>1. b < fromBlockNumber'
    <3> HIDE DEF b, from
    <3> QED BY <1>0, <1>2, <1>5
  <2> QED BY <2>1
<1>6. CASE e \notin parseLogsToEvents /\ IsDone(e) /\ ~ (b <= from)
  <2>1. txDone'[e] = b
    BY <1>0, <1>1, <1>6 DEF IsDone
  <2> QED BY <1>0, <1>1, <2>1 DEF IsDone
<1>7. b < from => b <= from
  BY <1>0
<1> QED BY <1>3, <1>4, <1>5, <1>6, <1>7

LEMMA OrderStep ==
    ASSUME TypeOK, BoundInv, OrderInv, [Next]_vars
    PROVE  OrderInv'
<1> SUFFICES ASSUME Undisturbed'
             PROVE  OrderInv'
  BY DEF OrderInv
<1>0. /\ restarts \in Nat /\ reorgs \in Nat /\ Len(queue) \in Nat /\ Len(handled) \in Nat
      /\ current \in Nat /\ height \in Nat
      /\ \A i \in 1..Len(queue) : queue[i][1] \in Nat
      /\ \A i \in 1..Len(handled) : handled[i][1] \in Nat
  <2>1. restarts \in Nat /\ reorgs \in Nat
    BY ChainEventsAssumption DEF TypeOK
  <2> QED BY <2>1, QueueFacts, NumberFacts
<1>1. /\ Undisturbed /\ ~ handleEthRPCConnectionOK /\ ~ CrashAndStart
      /\ \A e \in Events, b \in 0..MaxHeight : ~ Reorg(e, b)
  BY <1>0 DEF Undisturbed, Next, NewBlock, Reorg, Poll, handleBlockNumber,
     OnBlockchainStateChange, handleEthRPCConnectionOK, CrashAndStart, vars, chainVars
<1>2. /\ Ascending(queue) /\ Ascending(handled)
      /\ \A i \in 1..Len(handled), j \in 1..Len(queue) : handled[i][1] <= queue[j][1]
      /\ \A i \in 1..Len(handled) : handled[i][1] <= current
      /\ \A i \in 1..Len(queue) : queue[i][1] <= current
      /\ \A e \in Events : minedAt[e] \in 1..current =>
              IsDone(e) \/ minedAt[e] < fromBlockNumber
  BY <1>1 DEF OrderInv
<1>3. ASSUME NEW S \in SUBSET Events, NewBlock(S) PROVE OrderInv'
  <2>1. /\ UNCHANGED <<queue, handled, current, txDone>>
        /\ \A e \in Events : minedAt'[e] = IF e \in S THEN height + 1 ELSE minedAt[e]
    BY <1>3 DEF NewBlock
  <2>2. ASSUME NEW e \in Events, minedAt'[e] \in 1..current'
        PROVE  IsDone(e)' \/ minedAt'[e] < fromBlockNumber'
    <3>1. current <= height
      BY DEF BoundInv
    <3>2. minedAt'[e] = minedAt[e] /\ minedAt[e] \in 1..current
      BY <1>0, <2>1, <2>2, <3>1
    <3>3. IsDone(e)' <=> IsDone(e)
      BY <2>1, <3>2 DEF IsDone
    <3>4. fromBlockNumber' = fromBlockNumber
      BY <2>1 DEF fromBlockNumber
    <3> QED BY <1>2, <3>2, <3>3, <3>4
  <2> QED BY <1>2, <2>1, <2>2 DEF OrderInv, Ascending
<1>4. CASE Poll
  <2>1. /\ handled' = handled /\ minedAt' = minedAt /\ current' = height
        /\ current < height
    BY <1>4 DEF Poll, chainVars
  <2>2. /\ Len(queue') \in Nat /\ Len(queue) <= Len(queue')
        /\ \A i \in 1..Len(queue) : queue'[i] = queue[i]
    BY <1>4, PollQueue
  <2>3. ASSUME NEW i \in 1..Len(queue')
        PROVE  \/ /\ i \in 1..Len(queue) /\ queue'[i] = queue[i]
               \/ /\ i > Len(queue) /\ queue'[i] \in Items
                  /\ queue'[i][1] \in Nat /\ current < queue'[i][1] /\ queue'[i][1] <= height
    <3>1. i \in 1..Len(queue) \/ i > Len(queue)
      BY <1>0, <2>2
    <3>2. CASE i > Len(queue)
      <4>1. queue'[i] \in Changes(parseLogsToEvents)
        BY <1>4, <3>2, PollQueue
      <4> QED BY <1>1, <1>4, <3>2, <4>1, PolledLater, ChangesFinite, PolledSet
    <3> QED BY <2>2, <3>1, <3>2
  <2>4. ASSUME NEW i \in 1..Len(queue'), NEW j \in 1..Len(queue'), i < j
        PROVE  queue'[i][1] <= queue'[j][1]
    <3>1. CASE i > Len(queue)
      <4>1. j > Len(queue)
        BY <1>0, <2>2, <2>4, <3>1
      <4>2. Before(queue'[i], queue'[j])
        BY <1>4, <2>4, <3>1, PollQueue
      <4>3. queue'[i] \in Items /\ queue'[j] \in Items
        BY <1>0, <2>3, <3>1, <4>1
      <4> QED BY <4>2, <4>3, BeforeFacts
    <3>2. CASE i \in 1..Len(queue) /\ j \in 1..Len(queue)
      BY <1>2, <2>2, <2>4, <3>2 DEF Ascending
    <3>3. CASE i \in 1..Len(queue) /\ j > Len(queue)
      <4>1. queue'[i][1] \in Nat /\ queue'[i][1] <= current
        BY <1>0, <1>2, <2>2, <3>3
      <4>2. queue'[j][1] \in Nat /\ current < queue'[j][1]
        BY <1>0, <2>3, <3>3
      <4> QED BY <1>0, <4>1, <4>2
    <3> QED BY <2>3, <3>1, <3>2, <3>3
  <2>5. \A i \in 1..Len(handled), j \in 1..Len(queue') : handled[i][1] <= queue'[j][1]
    BY <1>0, <1>2, <2>3
  <2>6. \A i \in 1..Len(handled) : handled[i][1] <= height
    BY <1>0, <1>2, <2>1
  <2>7. \A i \in 1..Len(queue') : queue'[i][1] <= height
    BY <1>0, <1>2, <2>1, <2>3
  <2>8. \A e \in Events : minedAt[e] \in 1..height => IsDone(e)' \/ minedAt[e] < fromBlockNumber'
    BY <1>1, <1>4, PolledAll
  <2> QED BY <1>2, <2>1, <2>4, <2>5, <2>6, <2>7, <2>8 DEF OrderInv, Ascending
<1>5. CASE handleBlockNumber \/ OnBlockchainStateChange
  <2>1. /\ UNCHANGED <<minedAt, current, txDone>>
        /\ queue # <<>> /\ queue' = Tail(queue)
        /\ handled' = handled \/ OnBlockchainStateChange
    BY <1>5 DEF handleBlockNumber, OnBlockchainStateChange, chainVars
  <2>2. /\ 1 \in 1..Len(queue) /\ Len(queue') = Len(queue) - 1
        /\ \A i \in 1..Len(queue') : i + 1 \in 1..Len(queue) /\ queue'[i] = queue[i + 1]
    BY <1>0, <2>1, HeadQueue
  <2>3. ASSUME NEW i \in 1..Len(queue'), NEW j \in 1..Len(queue'), i < j
        PROVE  queue'[i][1] <= queue'[j][1]
    <3>1. i + 1 < j + 1
      BY <1>0, <2>2, <2>3
    <3> QED BY <1>2, <2>2, <3>1 DEF Ascending
  <2>4. /\ \A i \in 1..Len(queue') : queue[1][1] <= queue'[i][1] /\ queue'[i][1] <= current
    BY <1>0, <1>2, <2>2 DEF Ascending
  <2>5. ASSUME NEW i \in 1..Len(handled')
        PROVE  \/ i \in 1..Len(handled) /\ handled'[i] = handled[i]
               \/ i = Len(handled) + 1 /\ handled'[i] = queue[1]
    <3>1. CASE handled' = handled
      BY <2>5, <3>1
    <3>2. CASE OnBlockchainStateChange
      <4>1. i \in 1..Len(handled) \/ i = Len(handled) + 1
        BY <1>0, <2>5, <3>2, HandledAfter
      <4> QED BY <3>2, <4>1, HandledAfter
    <3> QED BY <2>1, <3>1, <3>2
  <2>6. ASSUME NEW i \in 1..Len(handled'), NEW j \in 1..Len(handled'), i < j
        PROVE  handled'[i][1] <= handled'[j][1]
    <3>1. i \in 1..Len(handled) /\ handled'[i] = handled[i]
      BY <1>0, <2>5, <2>6
    <3> QED BY <1>2, <2>2, <2>5, <2>6, <3>1 DEF Ascending
  <2>7. \A i \in 1..Len(handled'), j \in 1..Len(queue') : handled'[i][1] <= queue'[j][1]
    BY <1>2, <2>2, <2>4, <2>5
  <2>8. \A i \in 1..Len(handled') : handled'[i][1] <= current
    BY <1>2, <2>2, <2>5
  <2>9. \A e \in Events : (IsDone(e)' <=> IsDone(e))
    BY <2>1 DEF IsDone
  <2>10. fromBlockNumber' = fromBlockNumber
    BY <2>1 DEF fromBlockNumber
  <2> QED BY <1>2, <2>1, <2>3, <2>4, <2>6, <2>7, <2>8, <2>9, <2>10 DEF OrderInv, Ascending
<1>6. CASE UNCHANGED vars
  BY <1>2, <1>6 DEF OrderInv, Ascending, vars, chainVars, IsDone, fromBlockNumber
<1> QED BY <1>1, <1>3, <1>4, <1>5, <1>6 DEF Next

-----------------------------------------------------------------------------
(***************************************************************************)
(* The theorems.                                                           *)
(***************************************************************************)
ChainInv == TypeOK /\ BoundInv /\ DoneInv /\ DueInv /\ FinalInv /\ OrderInv

LEMMA ChainInit == Init => ChainInv
<1> SUFFICES ASSUME Init PROVE ChainInv
  OBVIOUS
<1> USE DEF Init
<1>1. TypeOK
  BY ChainEventsAssumption DEF TypeOK
<1>2. Len(queue) = 0 /\ Len(handled) = 0 /\ 1..0 = {}
  OBVIOUS
<1>3. BoundInv
  BY <1>1, <1>2, NumberFacts DEF BoundInv
<1>4. DoneInv /\ DueInv
  BY DEF DoneInv, DueInv
<1>5. FinalInv
  BY <1>2 DEF FinalInv
<1>6. OrderInv
  BY <1>2 DEF OrderInv, Ascending
<1> QED BY <1>1, <1>3, <1>4, <1>5, <1>6 DEF ChainInv

LEMMA ChainStep == ChainInv /\ [Next]_vars => ChainInv'
BY TypeStep, BoundStep, DoneStep, DueStep, FinalStep, OrderStep DEF ChainInv

LEMMA ChainAlways == Spec => []ChainInv
BY ChainInit, ChainStep, PTL DEF Spec

\* Every variable keeps its type, and only events, never bare blocks, are
\* handled by OnBlockchainStateChange.
THEOREM TypeCorrect == Spec => []TypeOK
<1>1. ChainInv => TypeOK
  BY DEF ChainInv
<1> QED BY <1>1, ChainAlways, PTL

\* No event on the chain is lost, through reorganisations, lost connections,
\* crashes and outages of any length, unless it needs confirmation and a poll
\* since its block passed over more than ForkConfirmNumber blocks.
THEOREM NeverLostTheorem == Spec => []NeverLost
<1>1. ASSUME ChainInv PROVE NeverLost
  <2> SUFFICES ASSUME NEW e \in Events, minedAt[e] > 0,
                      needConfirm(e) => minedAt[e] > jumpedAt
               PROVE  \/ <<minedAt[e], e>> \in Handled \cup ToSet(queue)
                      \/ minedAt[e] >= fromBlockNumber
    BY DEF NeverLost, Reached
  <2>1. TypeOK /\ DueInv
    BY <1>1 DEF ChainInv
  <2>3. Due(e)
    BY <2>1 DEF DueInv
  <2>4. ASSUME NEW k \in 1..(Len(queue) + 1), ComesAt(e, k)
        PROVE  <<minedAt[e], e>> \in ToSet(queue) \/ minedAt[e] >= fromBlockNumber
    <3>1. Len(queue) \in Nat /\ minedAt[e] \in Nat /\ fromBlockNumber \in Nat
      BY <2>1, QueueFacts, NumberFacts
    <3>2. CASE k \in 1..Len(queue)
      <4>1. queue[k] = <<minedAt[e], e>>
        BY <2>4, <3>1, <3>2 DEF ComesAt
      <4> QED BY <2>1, <3>2, <4>1, DeliveredFacts
    <3>3. CASE k > Len(queue)
      <4>1. current - Slack(e) <= minedAt[e]
        BY <2>4, <3>3 DEF ComesAt
      <4>2. fromBlockNumber <= minedAt[e]
        BY <2>1, <3>1, <4>1, NumberFacts
      <4> QED BY <3>1, <4>2
    <3> QED BY <3>1, <3>2, <3>3
  <2> QED BY <2>3, <2>4 DEF Due
<1> QED BY <1>1, ChainAlways, PTL

\* The main loop hears of a registered secret that is not held back for
\* confirmation before it hears of a block in which the lock of that secret would be removed.
THEOREM SecretTheorem == Spec => []SecretBeforeRemoval
<1>1. ASSUME ChainInv PROVE SecretBeforeRemoval
  <2> SUFFICES ASSUME NEW e \in Events, ~ needConfirm(e),
                      minedAt[e] \in 1..(blockNumber - ForkConfirmNumber - 1)
               PROVE  <<minedAt[e], e>> \in Handled
    BY DEF SecretBeforeRemoval
  <2>1. TypeOK /\ DueInv /\ BoundInv
    BY <1>1 DEF ChainInv
  <2>2. /\ minedAt[e] \in Nat /\ saved \in Nat /\ ForkConfirmNumber \in Nat
        /\ blockNumber = saved /\ Slack(e) = ForkConfirmNumber
    BY <2>1, NumberFacts, EventFacts DEF BoundInv, Slack, needConfirm
  <2>3. Due(e)
    BY <2>1, <2>2 DEF DueInv
  <2>4. ~ (saved - Slack(e) <= minedAt[e])
    BY <2>2
  <2> QED BY <2>3, <2>4 DEF Due, ComesAt
<1> QED BY <1>1, ChainAlways, PTL

\* With fork confirmation, an event that needs it and was handled stays in the
\* block it was handled with, whatever the chain reorganises.
THEOREM FinalTheorem == Spec => []ConfirmedIsFinal
<1>1. ASSUME ChainInv PROVE ConfirmedIsFinal
  <2>1. TypeOK /\ FinalInv
    BY <1>1 DEF ChainInv
  <2>2. \A i \in 1..Len(handled) : handled[i][2] # 0
    BY <2>1, QueueFacts, EventFacts
  <2> QED BY <2>1, <2>2 DEF FinalInv, Final, ConfirmedIsFinal
<1> QED BY <1>1, ChainAlways, PTL

\* Undisturbed, the main loop handles events in the order of their blocks.
THEOREM OrderTheorem == Spec => []InOrder
<1>1. ASSUME ChainInv PROVE InOrder
  BY <1>1 DEF ChainInv, OrderInv, Undisturbed, InOrder, Ascending
<1> QED BY <1>1, ChainAlways, PTL
=============================================================================
