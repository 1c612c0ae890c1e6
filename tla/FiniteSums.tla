----------------------------- MODULE FiniteSums -----------------------------
(***************************************************************************)
(* Induction for sets of numbers and of finite sets, and what the sum of   *)
(* the values of a function over a finite set is.  The proofs about        *)
(* channels and transfers use these facts for amounts of locks and for the *)
(* first element of a range.                                               *)
(***************************************************************************)
EXTENDS Integers, FiniteSetsExt, FiniteSetTheorems, WellFoundedInduction, TLAPS

\* A nonempty set of natural numbers has a least element.
LEMMA LeastNatural ==
    ASSUME NEW T \in SUBSET Nat, T # {}
    PROVE  \E x \in T : \A y \in T : x <= y
<1>1. PICK R : /\ R = OpToRel(<, Nat)
               /\ IsWellFoundedOn(R, Nat)
  BY NatLessThanWellFounded
<1>2. ASSUME NEW x \in Nat, NEW y \in Nat, x < y PROVE <<x, y>> \in R
  BY <1>1, <1>2 DEF OpToRel
<1>3. PICK x \in T : \A y \in T : ~(<<y, x>> \in R)
  <2>1. IsWellFoundedOn(R, Nat)
    BY <1>1
  <2>2. T \subseteq Nat
    OBVIOUS
  <2> QED BY <2>1, <2>2, WFMin, Zenon
<1>4. ASSUME NEW y \in T PROVE x <= y
  <2>1. x \in Nat /\ y \in Nat /\ ~(<<y, x>> \in R)
    BY <1>3
  <2>2. ~(y < x)
    BY <1>2, <2>1
  <2> QED BY <2>1, <2>2
<1> QED BY <1>4

\* A set of numbers that has 0 and every successor has all natural numbers.
LEMMA NumberInduction ==
    ASSUME NEW Z \in SUBSET Nat, 0 \in Z, \A n \in Z : n + 1 \in Z
    PROVE  Z = Nat
<1>1. ASSUME Nat \ Z # {} PROVE FALSE
  <2>1. PICK x \in Nat \ Z : \A y \in Nat \ Z : x <= y
    BY <1>1, LeastNatural
  <2>2. x # 0 /\ x - 1 \in Nat /\ ~(x <= x - 1)
    BY <2>1
  <2>3. x - 1 \in Z
    BY <2>1, <2>2
  <2>4. (x - 1) + 1 \in Z
    BY <2>3
  <2> QED BY <2>1, <2>2, <2>4
<1> QED BY <1>1

\* A family of subsets of a finite set that has every set whose smaller sets it
\* has is the family of all subsets.
LEMMA SubsetInduction ==
    ASSUME NEW U, IsFiniteSet(U), NEW Z \in SUBSET (SUBSET U),
           \A s \in SUBSET U :
               (\A t \in SUBSET U : Cardinality(t) < Cardinality(s) => t \in Z)
                   => s \in Z
    PROVE  Z = SUBSET U
<1>0. ASSUME NEW s \in SUBSET U PROVE Cardinality(s) \in Nat
  BY FS_Subset, FS_CardinalityType
<1>1. ASSUME (SUBSET U) \ Z # {} PROVE FALSE
  <2> DEFINE T == {Cardinality(s) : s \in (SUBSET U) \ Z}
  <2>1. T \in SUBSET Nat /\ T # {}
    BY <1>0, <1>1
  <2>2. PICK x \in T : \A y \in T : x <= y
    BY <2>1, LeastNatural
  <2>3. PICK s \in (SUBSET U) \ Z : x = Cardinality(s)
    BY <2>2
  <2>4. ASSUME NEW t \in SUBSET U, Cardinality(t) < Cardinality(s)
        PROVE  t \in Z
    <3>1. ASSUME t \notin Z PROVE FALSE
      <4>1. Cardinality(t) \in T
        BY <3>1
      <4>2. Cardinality(s) <= Cardinality(t)
        BY <2>2, <2>3, <4>1
      <4>3. Cardinality(s) \in Nat /\ Cardinality(t) \in Nat
        BY <1>0, <2>3
      <4> QED BY <2>4, <4>2, <4>3
    <3> QED BY <3>1
  <2> QED BY <2>3, <2>4
<1> QED BY <1>1

\* Taking an element out of a finite set.
LEMMA RemoveOne ==
    ASSUME NEW S, IsFiniteSet(S), NEW x \in S
    PROVE  /\ IsFiniteSet(S \ {x}) /\ Cardinality(S) \in Nat
           /\ Cardinality(S \ {x}) \in Nat /\ Cardinality(S \ {x}) < Cardinality(S)
<1>1. IsFiniteSet(S \ {x}) /\ Cardinality(S \ {x}) = Cardinality(S) - 1
  BY FS_RemoveElement
<1>2. Cardinality(S) \in Nat /\ Cardinality(S \ {x}) \in Nat
  BY <1>1, FS_CardinalityType
<1> QED BY <1>1, <1>2

-----------------------------------------------------------------------------
\* The sum of a[x] over the elements x of S.
SumOver(a, S) == MapThenSumSet(LAMBDA x : a[x], S)

pick(s) == CHOOSE x \in s : TRUE

\* g sums up the subsets of S, one element after the other.
Sums(g, a, S) ==
    g = [s \in SUBSET S |-> IF s = {} THEN 0 ELSE a[pick(s)] + g[s \ {pick(s)}]]

\* The element that is picked is one of the set.
LEMMA PickOne ==
    ASSUME NEW s, s # {}
    PROVE  pick(s) \in s
BY DEF pick

\* The library's fold, unfolded.
LEMMA SumUnfolds ==
    ASSUME NEW a, NEW S
    PROVE  SumOver(a, S) = (CHOOSE g : Sums(g, a, S))[S]
BY DEF SumOver, MapThenSumSet, MapThenFoldSet, Sums, pick

\* There is a function that sums up the subsets of a finite set.
LEMMA SumsExist ==
    ASSUME NEW U, IsFiniteSet(U), NEW a \in [U -> Nat]
    PROVE  \E g \in [SUBSET U -> Nat] : Sums(g, a, U)
<1> DEFINE Rec(g, s) == IF s = {} THEN 0 ELSE a[pick(s)] + g[s \ {pick(s)}]
           Good(g, n) == \A s \in SUBSET U : Cardinality(s) <= n => g[s] = Rec(g, s)
           Z == {n \in Nat : \E g \in [SUBSET U -> Nat] : Good(g, n)}
<1>0. ASSUME NEW s \in SUBSET U
      PROVE  /\ IsFiniteSet(s) /\ Cardinality(s) \in Nat
             /\ Cardinality(s) = 0 <=> s = {}
             /\ Cardinality(s) <= Cardinality(U)
             /\ s # {} => /\ pick(s) \in s /\ s \ {pick(s)} \in SUBSET U
                          /\ Cardinality(s \ {pick(s)}) \in Nat
                          /\ Cardinality(s \ {pick(s)}) < Cardinality(s)
                          /\ a[pick(s)] \in Nat
  <2>1. IsFiniteSet(s) /\ Cardinality(s) \in Nat /\ Cardinality(s) <= Cardinality(U)
    BY FS_Subset, FS_CardinalityType
  <2>2. Cardinality(s) = 0 <=> s = {}
    BY <2>1, FS_EmptySet
  <2>3. ASSUME s # {}
        PROVE  /\ pick(s) \in s /\ s \ {pick(s)} \in SUBSET U
               /\ Cardinality(s \ {pick(s)}) \in Nat
               /\ Cardinality(s \ {pick(s)}) < Cardinality(s)
               /\ a[pick(s)] \in Nat
    BY <2>1, <2>3, PickOne, RemoveOne
  <2> QED BY <2>1, <2>2, <2>3
<1>1. 0 \in Z
  <2> DEFINE g == [s \in SUBSET U |-> 0]
  <2>1. g \in [SUBSET U -> Nat]
    OBVIOUS
  <2>2. ASSUME NEW s \in SUBSET U, Cardinality(s) <= 0 PROVE g[s] = Rec(g, s)
    <3>1. Cardinality(s) \in Nat
      BY <1>0
    <3>2. Cardinality(s) = 0
      BY <2>2, <3>1
    <3>3. s = {}
      BY <1>0, <3>2
    <3> QED BY <3>3
  <2> HIDE DEF g
  <2>3. Good(g, 0)
    BY <2>2
  <2> QED BY <2>1, <2>3
<1>2. ASSUME NEW n \in Z PROVE n + 1 \in Z
  <2>1. PICK g \in [SUBSET U -> Nat] : Good(g, n)
    BY <1>2
  <2> DEFINE h == [s \in SUBSET U |-> Rec(g, s)]
  <2>2. h \in [SUBSET U -> Nat]
    <3>1. ASSUME NEW s \in SUBSET U PROVE Rec(g, s) \in Nat
      <4>1. CASE s = {}
        BY <4>1
      <4>2. CASE s # {}
        <5>1. a[pick(s)] \in Nat /\ g[s \ {pick(s)}] \in Nat
          BY <1>0, <4>2
        <5>2. a[pick(s)] + g[s \ {pick(s)}] \in Nat
          BY <5>1
        <5> QED BY <4>2, <5>2
      <4> QED BY <4>1, <4>2
    <3> QED BY <3>1
  <2>3. ASSUME NEW s \in SUBSET U, Cardinality(s) <= n + 1
        PROVE  h[s] = Rec(h, s)
    <3>1. CASE s = {}
      BY <3>1
    <3>2. CASE s # {}
      <4>1. s \ {pick(s)} \in SUBSET U /\ Cardinality(s \ {pick(s)}) <= n
        BY <1>0, <2>3, <3>2
      <4>2. g[s \ {pick(s)}] = Rec(g, s \ {pick(s)})
        BY <2>1, <4>1
      <4>3. h[s \ {pick(s)}] = Rec(g, s \ {pick(s)})
        BY <4>1
      <4>4. h[s] = a[pick(s)] + g[s \ {pick(s)}]
        BY <3>2
      <4> HIDE DEF h
      <4> QED BY <3>2, <4>2, <4>3, <4>4
    <3> QED BY <3>1, <3>2
  <2> HIDE DEF h
  <2>4. Good(h, n + 1)
    BY <2>3
  <2>5. n + 1 \in Nat
    BY <1>2
  <2> HIDE DEF Good
  <2> QED BY <2>2, <2>4, <2>5
<1>3. Z = Nat
  <2> HIDE DEF Z
  <2>1. Z \in SUBSET Nat
    BY DEF Z
  <2> QED BY <1>1, <1>2, <2>1, NumberInduction
<1>4. PICK g \in [SUBSET U -> Nat] : Good(g, Cardinality(U))
  <2>1. Cardinality(U) \in Z
    BY <1>3, FS_CardinalityType
  <2> QED BY <2>1
<1>5. \A s \in SUBSET U : g[s] = Rec(g, s)
  BY <1>0, <1>4
<1> QED BY <1>5 DEF Sums

\* Two such functions agree where both are defined.
LEMMA SumsAgree ==
    ASSUME NEW U, IsFiniteSet(U), NEW a, NEW g, Sums(g, a, U),
           NEW S \in SUBSET U, NEW h, Sums(h, a, S)
    PROVE  h[S] = g[S]
<1> DEFINE Z == {s \in SUBSET S : h[s] = g[s]}
<1>0. IsFiniteSet(S) /\ \A s \in SUBSET S : IsFiniteSet(s)
  BY FS_Subset
<1>1. ASSUME NEW s \in SUBSET S,
             \A t \in SUBSET S : Cardinality(t) < Cardinality(s) => t \in Z
      PROVE  s \in Z
  <2>1. /\ h[s] = IF s = {} THEN 0 ELSE a[pick(s)] + h[s \ {pick(s)}]
        /\ g[s] = IF s = {} THEN 0 ELSE a[pick(s)] + g[s \ {pick(s)}]
    BY DEF Sums
  <2>2. CASE s = {}
    BY <2>1, <2>2
  <2>3. CASE s # {}
    <3>1. s \ {pick(s)} \in SUBSET S /\ Cardinality(s \ {pick(s)}) < Cardinality(s)
      BY <1>0, <2>3, PickOne, RemoveOne
    <3>2. h[s \ {pick(s)}] = g[s \ {pick(s)}]
      BY <1>1, <3>1
    <3> QED BY <2>1, <2>3, <3>2
  <2> QED BY <2>2, <2>3
<1>2. Z = SUBSET S
  <2> HIDE DEF Z
  <2>1. Z \in SUBSET (SUBSET S)
    BY DEF Z
  <2> QED BY <1>0, <1>1, <2>1, SubsetInduction
<1> QED BY <1>2

\* The sum over a finite set is a natural number; it is 0 for the empty set,
\* and every element adds its value once.
LEMMA SumFacts ==
    ASSUME NEW U, IsFiniteSet(U), NEW a \in [U -> Nat]
    PROVE  /\ SumOver(a, {}) = 0
           /\ \A S \in SUBSET U : SumOver(a, S) \in Nat
           /\ \A S \in SUBSET U : \A x \in S :
                 SumOver(a, S) = a[x] + SumOver(a, S \ {x})
<1>1. PICK g \in [SUBSET U -> Nat] : Sums(g, a, U)
  BY SumsExist
<1>2. ASSUME NEW S \in SUBSET U PROVE SumOver(a, S) = g[S]
  <2>1. IsFiniteSet(S) /\ \E b : b = [x \in S |-> a[x]]
    BY FS_Subset
  <2>2. \E h : Sums(h, a, S)
    <3> DEFINE h == [s \in SUBSET S |-> g[s]]
    <3>1. ASSUME NEW s \in SUBSET S
          PROVE  h[s] = IF s = {} THEN 0 ELSE a[pick(s)] + h[s \ {pick(s)}]
      <4>1. g[s] = IF s = {} THEN 0 ELSE a[pick(s)] + g[s \ {pick(s)}]
        BY <1>1 DEF Sums
      <4> QED BY <4>1
    <3>2. h = [s \in SUBSET S |-> h[s]]
      OBVIOUS
    <3> HIDE DEF h
    <3>3. Sums(h, a, S)
      BY <3>1, <3>2 DEF Sums
    <3> QED BY <3>3
  <2>3. Sums((CHOOSE h : Sums(h, a, S)), a, S)
    BY <2>2
  <2>4. (CHOOSE h : Sums(h, a, S))[S] = g[S]
    BY <1>1, <2>3, SumsAgree
  <2> QED BY <2>4, SumUnfolds
<1>3. ASSUME NEW s \in SUBSET U
      PROVE  g[s] = IF s = {} THEN 0 ELSE a[pick(s)] + g[s \ {pick(s)}]
  BY <1>1 DEF Sums
<1> DEFINE Z == {s \in SUBSET U : \A x \in s : g[s] = a[x] + g[s \ {x}]}
<1>4. ASSUME NEW s \in SUBSET U,
             \A t \in SUBSET U : Cardinality(t) < Cardinality(s) => t \in Z
      PROVE  s \in Z
  <2> SUFFICES ASSUME NEW x \in s PROVE g[s] = a[x] + g[s \ {x}]
    OBVIOUS
  <2> DEFINE c == pick(s)
  <2>1. c \in s /\ g[s] = a[c] + g[s \ {c}]
    BY <1>3, PickOne
  <2> HIDE DEF c
  <2>2. CASE c = x
    BY <2>1, <2>2
  <2>3. CASE c # x
    <3>1. /\ s \ {c} \in SUBSET U /\ Cardinality(s \ {c}) < Cardinality(s)
          /\ s \ {x} \in SUBSET U /\ Cardinality(s \ {x}) < Cardinality(s)
      BY <2>1, FS_Subset, RemoveOne
    <3>2. g[s \ {c}] = a[x] + g[(s \ {c}) \ {x}]
      BY <1>4, <2>3, <3>1
    <3>3. g[s \ {x}] = a[c] + g[(s \ {x}) \ {c}]
      BY <1>4, <2>1, <2>3, <3>1
    <3> DEFINE r == (s \ {c}) \ {x}
    <3>4. (s \ {x}) \ {c} = r
      OBVIOUS
    <3>5. a[c] \in Nat /\ a[x] \in Nat /\ g[r] \in Nat
      BY <2>1
    <3>6. \A i, j, k \in Nat : i + (j + k) = j + (i + k)
      OBVIOUS
    <3>7. g[s] = a[c] + (a[x] + g[r])
      BY <2>1, <3>2
    <3>8. a[x] + g[s \ {x}] = a[x] + (a[c] + g[r])
      BY <3>3, <3>4
    <3> HIDE DEF r
    <3> QED BY <3>5, <3>6, <3>7, <3>8
  <2> QED BY <2>2, <2>3
<1>5. Z = SUBSET U
  <2> HIDE DEF Z
  <2>1. Z \in SUBSET (SUBSET U)
    BY DEF Z
  <2> QED BY <1>4, <2>1, SubsetInduction
<1>6. SumOver(a, {}) = 0
  BY <1>2, <1>3
<1>7. ASSUME NEW S \in SUBSET U, NEW x \in S
      PROVE  SumOver(a, S) = a[x] + SumOver(a, S \ {x})
  <2>1. S \ {x} \in SUBSET U /\ g[S] = a[x] + g[S \ {x}]
    BY <1>5
  <2> QED BY <1>2, <2>1
<1> QED BY <1>2, <1>6, <1>7

\* What two sets cover sums up to no more than they do together.
LEMMA SumCovered ==
    ASSUME NEW U, IsFiniteSet(U), NEW a \in [U -> Nat], NEW W \in SUBSET U,
           NEW X \in SUBSET U, NEW Y \in SUBSET U, W \subseteq X \cup Y
    PROVE  SumOver(a, W) <= SumOver(a, X) + SumOver(a, Y)
<1> DEFINE Z == {w \in SUBSET U : \A x, y \in SUBSET U :
                    w \subseteq x \cup y => SumOver(a, w) <= SumOver(a, x) + SumOver(a, y)}
<1>1. /\ SumOver(a, {}) = 0
      /\ \A S \in SUBSET U : SumOver(a, S) \in Nat
      /\ \A S \in SUBSET U : \A x \in S : SumOver(a, S) = a[x] + SumOver(a, S \ {x})
  BY SumFacts
<1>2. ASSUME NEW w \in SUBSET U,
             \A t \in SUBSET U : Cardinality(t) < Cardinality(w) => t \in Z
      PROVE  w \in Z
  <2> SUFFICES ASSUME NEW x \in SUBSET U, NEW y \in SUBSET U, w \subseteq x \cup y
               PROVE  SumOver(a, w) <= SumOver(a, x) + SumOver(a, y)
    OBVIOUS
  <2>1. CASE w = {}
    <3>1. SumOver(a, w) = 0 /\ SumOver(a, x) \in Nat /\ SumOver(a, y) \in Nat
      BY <1>1, <2>1
    <3> QED BY <3>1
  <2>2. CASE w # {}
    <3>1. PICK e \in w : TRUE
      BY <2>2
    <3> DEFINE v == w \ {e}
               z == x \ {e}
               r == y \ {e}
    <3>2. v \in Z /\ v \in SUBSET U /\ z \in SUBSET U /\ r \in SUBSET U
      <4>1. IsFiniteSet(w)
        BY FS_Subset
      <4>2. Cardinality(v) < Cardinality(w)
        BY <4>1, RemoveOne
      <4> QED BY <1>2, <4>2
    <3>3. /\ SumOver(a, w) = a[e] + SumOver(a, v) /\ a[e] \in Nat
          /\ e \in x => SumOver(a, x) = a[e] + SumOver(a, z)
          /\ e \in y => SumOver(a, y) = a[e] + SumOver(a, r)
          /\ SumOver(a, v) \in Nat /\ SumOver(a, x) \in Nat /\ SumOver(a, y) \in Nat
          /\ SumOver(a, z) \in Nat /\ SumOver(a, r) \in Nat
      BY <1>1, <3>2
    <3>4. CASE e \in x
      <4>1. SumOver(a, v) <= SumOver(a, z) + SumOver(a, y)
        BY <3>2
      <4> HIDE DEF v, z, r, Z
      <4> QED BY <3>3, <3>4, <4>1
    <3>5. CASE e \in y
      <4>1. SumOver(a, v) <= SumOver(a, x) + SumOver(a, r)
        BY <3>2
      <4> HIDE DEF v, z, r, Z
      <4> QED BY <3>3, <3>5, <4>1
    <3> QED BY <3>4, <3>5
  <2> QED BY <2>1, <2>2
<1>3. Z = SUBSET U
  <2> HIDE DEF Z
  <2>1. Z \in SUBSET (SUBSET U)
    BY DEF Z
  <2> QED BY <1>2, <2>1, SubsetInduction
<1> QED BY <1>3
=============================================================================
