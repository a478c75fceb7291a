----------------------------- MODULE OrderLemmas -----------------------------
(***************************************************************************)
(* Induction over the natural numbers, stated with sets: a set of numbers  *)
(* has a least element, and one that 0 and every successor is in is Nat.   *)
(* Then strict orders on finite sets, and what sorting a sequence or       *)
(* choosing some of its places keeps.                                      *)
(***************************************************************************)
EXTENDS Arrangements, WellFoundedInduction, SequenceTheorems, FiniteSetTheorems, TLAPS

\* A set of natural numbers has a least element.
LEMMA LeastNatural ==
    ASSUME NEW S \in SUBSET Nat, S # {}
    PROVE  \E j \in S : \A k \in S : j <= k
<1> DEFINE R == OpToRel(<, Nat)
<1>1. \A a, b \in Nat : <<a, b>> \in R <=> a < b
  BY DEF OpToRel
<1>2. IsWellFoundedOn(R, Nat)
  BY NatLessThanWellFounded
<1> HIDE DEF R
<1>3. PICK j \in S : \A k \in S : <<k, j>> \notin R
  BY <1>2, WFMin, Zenon
<1>4. \A k \in S : ~ (k < j)
  BY <1>1, <1>3
<1>5. \A k \in S : j \in Nat /\ k \in Nat
  OBVIOUS
<1> QED
  BY <1>4, <1>5

\* What holds of 0 and of n + 1 when of n holds of every natural number.
LEMMA SetInduction ==
    ASSUME NEW T \in SUBSET Nat, 0 \in T, \A n \in T : n + 1 \in T
    PROVE  T = Nat
<1> DEFINE S == Nat \ T
<1>1. ASSUME S # {}
      PROVE  FALSE
  <2>1. S \in SUBSET Nat
    OBVIOUS
  <2> HIDE DEF S
  <2>2. PICK j \in S : \A k \in S : j <= k
    BY <1>1, <2>1, LeastNatural
  <2>3. j \in Nat /\ j # 0 /\ j - 1 \notin S
    BY <2>1, <2>2 DEF S
  <2>4. j - 1 \in T
    BY <2>3 DEF S
  <2>5. j \in T
    BY <2>3, <2>4
  <2> QED
    BY <2>2, <2>5 DEF S
<1> QED
  BY <1>1

-----------------------------------------------------------------------------
(* Finite sets and orders *)

\* The image of a finite set is finite.
LEMMA ImageFinite ==
    ASSUME NEW S, IsFiniteSet(S), NEW f
    PROVE  IsFiniteSet({f[x] : x \in S})
<1> DEFINE g == [x \in S |-> f[x]]
           T == {f[x] : x \in S}
<1>1. g \in Surjection(S, T)
  BY DEF Surjection
<1> HIDE DEF g
<1> QED
  BY <1>1, FS_Surjection

\* A set of pairs orders a set strictly, and totally.
StrictOrder(S, before) ==
    /\ \A x \in S : <<x, x>> \notin before
    /\ \A x, y, z \in S : <<x, y>> \in before /\ <<y, z>> \in before => <<x, z>> \in before

TotalOrder(S, before) ==
    /\ StrictOrder(S, before)
    /\ \A x, y \in S : x # y => <<x, y>> \in before \/ <<y, x>> \in before

\* r has the elements that q has at some of its places, in some order.
Keeps(r, X, q, places) ==
    /\ r \in Seq(X)
    /\ Len(r) = Cardinality(places)
    /\ Len(r) <= Len(q)
    /\ \A k \in DOMAIN r : \E i \in places : r[k] = q[i]
    /\ \A i \in places : \E k \in DOMAIN r : r[k] = q[i]

\* The elements of a set that an order has before one.
Predecessors(S, before, x) == {y \in S : <<y, x>> \in before}

\* How many elements come before an element grows along a strict order.
LEMMA Ranks ==
    ASSUME NEW S, IsFiniteSet(S), NEW before, StrictOrder(S, before)
    PROVE  /\ Cardinality(S) \in Nat
           /\ \A x \in S : Cardinality(Predecessors(S, before, x)) \in 0 .. Cardinality(S) - 1
           /\ \A x, y \in S : <<x, y>> \in before =>
                Cardinality(Predecessors(S, before, x)) < Cardinality(Predecessors(S, before, y))
<1> DEFINE Earlier(x) == Predecessors(S, before, x)
<1>1. Cardinality(S) \in Nat
  BY FS_CardinalityType
<1>2. ASSUME NEW x \in S
      PROVE  IsFiniteSet(Earlier(x)) /\ Cardinality(Earlier(x)) \in 0 .. Cardinality(S) - 1
  <2>1. Earlier(x) \in SUBSET S /\ Earlier(x) # S
    BY DEF Predecessors, StrictOrder
  <2> HIDE DEF Earlier
  <2>2. IsFiniteSet(Earlier(x)) /\ Cardinality(Earlier(x)) <= Cardinality(S)
        /\ Cardinality(Earlier(x)) # Cardinality(S)
    BY <2>1, FS_Subset
  <2>3. Cardinality(Earlier(x)) \in Nat
    BY <2>2, FS_CardinalityType
  <2> QED
    BY <1>1, <2>2, <2>3
<1>3. ASSUME NEW x \in S, NEW y \in S, <<x, y>> \in before
      PROVE  Cardinality(Earlier(x)) < Cardinality(Earlier(y))
  <2>1. Earlier(x) \in SUBSET Earlier(y) /\ Earlier(x) # Earlier(y)
    BY <1>3 DEF Predecessors, StrictOrder
  <2>2. IsFiniteSet(Earlier(x)) /\ Cardinality(Earlier(x)) \in Nat
    BY <1>2
  <2>3. IsFiniteSet(Earlier(y)) /\ Cardinality(Earlier(y)) \in Nat
    BY <1>2
  <2> HIDE DEF Earlier
  <2>4. Cardinality(Earlier(x)) <= Cardinality(Earlier(y))
        /\ Cardinality(Earlier(x)) # Cardinality(Earlier(y))
    BY <2>1, <2>3, FS_Subset
  <2> QED
    BY <2>2, <2>3, <2>4
<1> QED
  BY <1>1, <1>2, <1>3

\* A finite set has an element with none before it in a strict order.
LEMMA MinimalElement ==
    ASSUME NEW S, IsFiniteSet(S), S # {}, NEW before, StrictOrder(S, before)
    PROVE  \E x \in S : \A y \in S : <<y, x>> \notin before
<1> DEFINE earlier == [x \in S |-> Cardinality(Predecessors(S, before, x))]
           ranks == {earlier[x] : x \in S}
<1>1. /\ \A x \in S : earlier[x] \in Nat
      /\ \A x, y \in S : <<x, y>> \in before => earlier[x] < earlier[y]
  BY Ranks
<1> HIDE DEF earlier
<1>2. ranks \in SUBSET Nat /\ ranks # {}
  BY <1>1
<1>3. PICK least \in ranks : \A r \in ranks : least <= r
  <2> HIDE DEF ranks
  <2> QED
    BY <1>2, LeastNatural
<1>4. PICK x \in S : least = earlier[x]
  OBVIOUS
<1>5. \A y \in S : ~ (earlier[y] < earlier[x])
  BY <1>1, <1>3, <1>4
<1> QED
  BY <1>1, <1>5

\* InOrder numbers the elements of a finite set that an order is total on.
LEMMA InOrderArranges ==
    ASSUME NEW S, IsFiniteSet(S), NEW before, TotalOrder(S, before)
    PROVE  /\ Cardinality(S) \in Nat
           /\ InOrder(S, before) \in [1 .. Cardinality(S) -> S]
           /\ \A x \in S : \E k \in 1 .. Cardinality(S) : InOrder(S, before)[k] = x
<1> DEFINE n == Cardinality(S)
           earlier == [x \in S |-> Cardinality(Predecessors(S, before, x))]
           order == [k \in 1 .. n |-> CHOOSE x \in S : earlier[x] = k - 1]
<1>1. /\ n \in Nat
      /\ earlier \in [S -> 0 .. n - 1]
      /\ \A x, y \in S : <<x, y>> \in before => earlier[x] < earlier[y]
  <2> HIDE DEF n
  <2>1. /\ n \in Nat
        /\ \A x \in S : Cardinality(Predecessors(S, before, x)) \in 0 .. n - 1
    BY Ranks DEF n, TotalOrder
  <2> QED
    BY <2>1, Ranks DEF TotalOrder
<1>2. InOrder(S, before) = order
  BY DEF InOrder, Predecessors
<1> HIDE DEF earlier, n
<1>3. \A x, y \in S : earlier[x] = earlier[y] => x = y
  <2> SUFFICES ASSUME NEW x \in S, NEW y \in S, earlier[x] = earlier[y], x # y
               PROVE  FALSE
    OBVIOUS
  <2>3. <<x, y>> \in before \/ <<y, x>> \in before
    BY DEF TotalOrder
  <2>1. CASE <<x, y>> \in before
    BY <1>1, <2>1
  <2>2. CASE <<y, x>> \in before
    BY <1>1, <2>2
  <2> QED
    BY <2>1, <2>2, <2>3
<1>4. earlier \in Injection(S, 0 .. n - 1)
  BY <1>1, <1>3 DEF Injection, IsInjective
<1>5. IsFiniteSet(0 .. n - 1) /\ Cardinality(0 .. n - 1) = n
  BY <1>1, FS_Interval
<1>6. earlier \in Surjection(S, 0 .. n - 1)
  <2>1. Cardinality(S) = Cardinality(0 .. n - 1)
    BY <1>5 DEF n
  <2> QED
    BY <1>4, <1>5, <2>1, FS_Injection
<1>7. \A r \in 0 .. n - 1 : \E x \in S : earlier[x] = r
  BY <1>6 DEF Surjection
<1>8. \A k \in 1 .. n : order[k] \in S /\ earlier[order[k]] = k - 1
  <2> TAKE k \in 1 .. n
  <2>1. k - 1 \in 0 .. n - 1
    BY <1>1
  <2>2. \E x \in S : earlier[x] = k - 1
    BY <1>7, <2>1
  <2> QED
    BY <2>2
<1>9. \A x \in S : \E k \in 1 .. n : order[k] = x
  <2> TAKE x \in S
  <2>1. earlier[x] + 1 \in 1 .. n /\ (earlier[x] + 1) - 1 = earlier[x]
    BY <1>1
  <2>2. order[earlier[x] + 1] \in S /\ earlier[order[earlier[x] + 1]] = earlier[x]
    BY <1>8, <2>1
  <2> HIDE DEF order
  <2>3. order[earlier[x] + 1] = x
    BY <1>3, <2>2
  <2> QED
    BY <2>1, <2>3
<1> QED
  BY <1>1, <1>2, <1>8, <1>9 DEF n

\* The places of a sequence of length n.
LEMMA Counted ==
    ASSUME NEW n \in Nat
    PROVE  IsFiniteSet(1 .. n) /\ Cardinality(1 .. n) = n
  BY FS_Interval

\* Taking the elements at some places of a sequence, in an order total on these,
\* keeps them, and makes the sequence no longer.
LEMMA ArrangementKeeps ==
    ASSUME NEW X, NEW q \in Seq(X), NEW places \in SUBSET DOMAIN q, NEW before,
           TotalOrder(places, before)
    PROVE  Keeps(Arranged(q, places, before), X, q, places)
<1> DEFINE n == Cardinality(places)
           order == InOrder(places, before)
           r == [k \in DOMAIN order |-> q[order[k]]]
<1>0. Arranged(q, places, before) = r
  BY DEF Arranged
<1>1. Len(q) \in Nat /\ DOMAIN q = 1 .. Len(q)
  BY LenProperties
<1>2. \A i \in places : i \in DOMAIN q /\ q[i] \in X
  BY <1>1, ElementOfSeq
<1>3. IsFiniteSet(DOMAIN q) /\ Cardinality(DOMAIN q) = Len(q)
  BY <1>1, Counted
<1>4. IsFiniteSet(places) /\ n <= Len(q)
  BY <1>3, FS_Subset
<1>5. /\ n \in Nat
      /\ order \in [1 .. n -> places]
      /\ \A i \in places : \E k \in 1 .. n : order[k] = i
  BY <1>4, InOrderArranges
<1> HIDE DEF n, order
<1>6. r = [k \in 1 .. n |-> q[order[k]]]
  BY <1>5
<1> HIDE DEF r
<1>7. r \in [1 .. n -> X]
  BY <1>2, <1>5, <1>6
<1>8. r \in Seq(X) /\ Len(r) = n /\ DOMAIN r = 1 .. n
  BY <1>5, <1>7
<1>9. \A k \in DOMAIN r : order[k] \in places /\ r[k] = q[order[k]]
  BY <1>5, <1>6, <1>8
<1>10. ASSUME NEW i \in places
       PROVE  \E k \in DOMAIN r : r[k] = q[i]
  <2>1. PICK k \in 1 .. n : order[k] = i
    BY <1>5
  <2> QED
    BY <1>8, <1>9, <2>1
<1>11. \A k \in DOMAIN r : \E i \in places : r[k] = q[i]
  BY <1>9
<1> QED
  BY <1>0, <1>4, <1>8, <1>10, <1>11 DEF n, Keeps

\* Elements put in a strict weak order, and where that leaves it open in the
\* order they had, are put in a total order.
LEMMA StableOrder ==
    ASSUME NEW D \in SUBSET Nat, NEW less \in SUBSET (D \X D),
           \A i, j \in D : <<i, j>> \in less => <<j, i>> \notin less,
           \A i, j, k \in D : <<i, k>> \in less => <<i, j>> \in less \/ <<j, k>> \in less,
           NEW pairs,
           \A i, j \in D : <<i, j>> \in pairs <=>
             <<i, j>> \in less \/ (<<j, i>> \notin less /\ i < j)
    PROVE  TotalOrder(D, pairs)
<1>1. \A i \in D : <<i, i>> \notin pairs
  OBVIOUS
<1>2. ASSUME NEW i \in D, NEW j \in D, i # j
      PROVE  <<i, j>> \in pairs \/ <<j, i>> \in pairs
  <2>1. i \in Nat /\ j \in Nat
    OBVIOUS
  <2> QED
    BY <1>2, <2>1
<1>3. ASSUME NEW i \in D, NEW j \in D, NEW k \in D, <<i, j>> \in pairs, <<j, k>> \in pairs
      PROVE  <<i, k>> \in pairs
  <2>1. i \in Nat /\ j \in Nat /\ k \in Nat
    OBVIOUS
  <2>2. <<i, j>> \in less \/ (<<j, i>> \notin less /\ i < j)
    BY <1>3
  <2>3. <<j, k>> \in less \/ (<<k, j>> \notin less /\ j < k)
    BY <1>3
  <2>4. <<i, k>> \in less \/ (<<k, i>> \notin less /\ i < k)
    BY <2>1, <2>2, <2>3
  <2> QED
    BY <2>4
<1> QED
  BY <1>1, <1>2, <1>3 DEF TotalOrder, StrictOrder

\* Sorting by a strict weak order, given as the pairs of places it puts in order,
\* keeps what is sorted.
LEMMA SortKeeps ==
    ASSUME NEW X, NEW q \in Seq(X), NEW less \in SUBSET ((DOMAIN q) \X (DOMAIN q)),
           \A i, j \in DOMAIN q : <<i, j>> \in less => <<j, i>> \notin less,
           \A i, j, k \in DOMAIN q : <<i, k>> \in less => <<i, j>> \in less \/ <<j, k>> \in less,
           NEW pairs, \A i, j \in DOMAIN q : <<i, j>> \in pairs <=>
                        <<i, j>> \in less \/ (<<j, i>> \notin less /\ i < j)
    PROVE  Keeps(Arranged(q, DOMAIN q, pairs), X, q, DOMAIN q)
<1>1. DOMAIN q \in SUBSET Nat /\ DOMAIN q \in SUBSET DOMAIN q
  BY LenProperties
<1> DEFINE D == DOMAIN q
<1>2. TotalOrder(D, pairs)
  BY <1>1, StableOrder
<1> QED
  BY <1>1, <1>2, ArrangementKeeps

\* Choosing the elements at some places keeps these.
LEMMA AtPlacesKeeps ==
    ASSUME NEW X, NEW q \in Seq(X), NEW places \in SUBSET DOMAIN q
    PROVE  Keeps(AtPlaces(q, places), X, q, places)
<1> DEFINE before == {pair \in places \X places : pair[1] < pair[2]}
<1>1. \A i \in places : i \in Nat
  BY LenProperties
<1>2. TotalOrder(places, before)
  BY <1>1 DEF TotalOrder, StrictOrder
<1>3. AtPlaces(q, places) = Arranged(q, places, before)
  BY DEF AtPlaces
<1> HIDE DEF before
<1> QED
  BY <1>2, <1>3, ArrangementKeeps
=============================================================================
