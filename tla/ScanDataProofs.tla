--------------------------- MODULE ScanDataProofs ---------------------------
(***************************************************************************)
(* What the operators that a scan is made of return, for every input: the  *)
(* sorts and folds first, then the parsers, the normaliser, the planner    *)
(* and the merging of tasks.  ScanPipelineProofs rests on these.           *)
(***************************************************************************)
EXTENDS ScanPipeline, OrderLemmas

-----------------------------------------------------------------------------
(* Sequences of what sets have *)

\* What SetToSeq makes of a finite set.
LEMMA SetToSeqLists ==
    ASSUME NEW S, IsFiniteSet(S)
    PROVE  /\ SetToSeq(S) \in Seq(S)
           /\ \A x \in S : \E i \in DOMAIN SetToSeq(S) : SetToSeq(S)[i] = x
<1> DEFINE n == Cardinality(S)
           q == SetToSeq(S)
<1>1. n \in Nat /\ ExistsBijection(1 .. n, S)
  BY FS_CardinalityType
<1>2. PICK f \in [1 .. n -> S] : IsInjective(f)
  BY <1>1 DEF ExistsBijection, Bijection, Injection
<1>3. q \in [1 .. n -> S] /\ IsInjective(q)
  <2>1. q = CHOOSE g \in [1 .. n -> S] : IsInjective(g)
    BY DEF SetToSeq
  <2> HIDE DEF q
  <2> QED
    BY <1>2, <2>1
<1> HIDE DEF n, q
<1>4. q \in Injection(1 .. n, S)
  BY <1>3 DEF Injection
<1>5. IsFiniteSet(1 .. n) /\ Cardinality(1 .. n) = n
  BY <1>1, Counted
<1>6. q \in Surjection(1 .. n, S)
  <2>1. Cardinality(1 .. n) = Cardinality(S)
    BY <1>5 DEF n
  <2> QED
    BY <1>4, <2>1, FS_Injection
<1>7. \A x \in S : \E i \in 1 .. n : q[i] = x
  BY <1>6 DEF Surjection
<1>8. q \in Seq(S) /\ DOMAIN q = 1 .. n
  BY <1>1, <1>3
<1> QED
  BY <1>7, <1>8 DEF q

-----------------------------------------------------------------------------
(* Folds *)

\* The largest and the least of some natural numbers.
LEMMA MaxIs ==
    ASSUME NEW S \in SUBSET Nat, NEW m \in S, \A i \in S : i <= m
    PROVE  Max(S) = m
<1>1. \A x \in S : x >= m => x = m
  OBVIOUS
<1>2. \A y \in S : m >= y
  OBVIOUS
<1> QED
  BY <1>1, <1>2 DEF Max

LEMMA MaxIn ==
    ASSUME NEW n \in Nat, NEW S \in SUBSET (1 .. n), S # {}
    PROVE  Max(S) \in S /\ \A i \in S : i <= Max(S)
<1> DEFINE T == {n - i : i \in S}
<1>1. T \in SUBSET Nat /\ T # {}
  <2>1. \A i \in S : i \in 1 .. n
    OBVIOUS
  <2>2. \A i \in 1 .. n : n - i \in Nat
    OBVIOUS
  <2> QED
    BY <2>1, <2>2
<1>2. PICK j \in T : \A k \in T : j <= k
  <2> HIDE DEF T
  <2> QED
    BY <1>1, LeastNatural
<1>3. PICK m \in S : j = n - m
  OBVIOUS
<1>4. \A i \in S : i <= m
  <2> TAKE i \in S
  <2>1. n - i \in T /\ i \in Nat /\ m \in Nat
    OBVIOUS
  <2>2. n - m <= n - i
    BY <1>2, <1>3, <2>1
  <2> QED
    BY <2>1, <2>2
<1>5. S \in SUBSET Nat
  OBVIOUS
<1> HIDE DEF T
<1>6. Max(S) = m
  BY <1>4, <1>5, MaxIs
<1> QED
  BY <1>4, <1>6

LEMMA MinIs ==
    ASSUME NEW S \in SUBSET Nat, S # {}
    PROVE  Min(S) \in S /\ \A i \in S : Min(S) <= i
  BY LeastNatural DEF Min

\* The values of a fold from the left by the places it has visited.
FoldIter(iter, op, base, n, q) ==
    \A s \in SUBSET (1 .. n) :
      iter[s] = IF s = {} THEN base ELSE op[<<iter[s \ {Max(s)}], q[Max(s)]>>]

\* What a fold from the left is defined by exists.
LEMMA FoldExists ==
    ASSUME NEW X, NEW Y, NEW op \in [X \X Y -> X], NEW base \in X,
           NEW n \in Nat, NEW q \in [1 .. n -> Y]
    PROVE  \E iter \in [SUBSET (1 .. n) -> X] : FoldIter(iter, op, base, n, q)
<1> DEFINE Fits(k, it) ==
             /\ it \in [SUBSET (1 .. k) -> X]
             /\ \A s \in SUBSET (1 .. k) :
                  it[s] = IF s = {} THEN base ELSE op[<<it[s \ {Max(s)}], q[Max(s)]>>]
           T == {k \in Nat : k <= n => \E it : Fits(k, it)}
<1>1. 0 \in T
  <2> DEFINE it == [s \in SUBSET (1 .. 0) |-> base]
  <2>1. 1 .. 0 = {}
    OBVIOUS
  <2>2. \A s \in SUBSET (1 .. 0) : s = {} /\ it[s] = base
    BY <2>1
  <2>3. Fits(0, it)
    BY <2>2
  <2> QED
    BY <2>3
<1> HIDE DEF Fits
<1>2. ASSUME NEW k \in T
      PROVE  k + 1 \in T
  <2> SUFFICES ASSUME k \in Nat, k + 1 <= n
               PROVE  \E it : Fits(k + 1, it)
    OBVIOUS
  <2>1. PICK it : Fits(k, it)
    OBVIOUS
  <2> USE DEF Fits
  <2> DEFINE more == [s \in SUBSET (1 .. k + 1) |->
                        IF k + 1 \in s THEN op[<<it[s \ {k + 1}], q[k + 1]>>] ELSE it[s]]
  <2>2. ASSUME NEW s \in SUBSET (1 .. k + 1)
        PROVE  /\ k + 1 \in s => /\ s \ {k + 1} \in SUBSET (1 .. k)
                                 /\ Max(s) = k + 1
               /\ k + 1 \notin s => s \in SUBSET (1 .. k)
    <3>1. k + 1 \in s => s \ {k + 1} \in SUBSET (1 .. k)
      OBVIOUS
    <3>2. ASSUME k + 1 \in s
          PROVE  Max(s) = k + 1
      <4>1. \A i \in s : i \in Nat /\ k + 1 >= i
        OBVIOUS
      <4> QED
        BY <3>2, <4>1, MaxIs
    <3>3. k + 1 \notin s => s \in SUBSET (1 .. k)
      OBVIOUS
    <3> QED
      BY <3>1, <3>2, <3>3
  <2>3. ASSUME NEW s \in SUBSET (1 .. k)
        PROVE  /\ s \in SUBSET (1 .. k + 1)
               /\ more[s] = it[s]
    OBVIOUS
  <2>4. more \in [SUBSET (1 .. k + 1) -> X]
    <3>1. ASSUME NEW s \in SUBSET (1 .. k + 1)
          PROVE  more[s] \in X
      <4>1. CASE k + 1 \in s
        <5>1. it[s \ {k + 1}] \in X /\ q[k + 1] \in Y
          BY <2>1, <2>2, <4>1
        <5> QED
          BY <4>1, <5>1
      <4>2. CASE k + 1 \notin s
        BY <2>1, <2>2, <4>2
      <4> QED
        BY <4>1, <4>2
    <3> QED
      BY <3>1
  <2>5. ASSUME NEW s \in SUBSET (1 .. k + 1)
        PROVE  more[s] = IF s = {} THEN base ELSE op[<<more[s \ {Max(s)}], q[Max(s)]>>]
    <3>1. CASE k + 1 \in s
      <4>1. /\ s # {} /\ Max(s) = k + 1
            /\ s \ {k + 1} \in SUBSET (1 .. k)
        BY <2>2, <3>1
      <4>2. more[s] = op[<<it[s \ {k + 1}], q[k + 1]>>]
        BY <3>1
      <4>3. more[s \ {k + 1}] = it[s \ {k + 1}]
        BY <2>3, <4>1
      <4> HIDE DEF more
      <4> QED
        BY <4>1, <4>2, <4>3
    <3>2. CASE k + 1 \notin s
      <4>1. s \in SUBSET (1 .. k) /\ s \ {Max(s)} \in SUBSET (1 .. k)
        BY <2>2, <3>2
      <4>2. more[s] = it[s] /\ more[s \ {Max(s)}] = it[s \ {Max(s)}]
        BY <2>3, <4>1
      <4> HIDE DEF more
      <4> QED
        BY <2>1, <4>1, <4>2
    <3> QED
      BY <3>1, <3>2
  <2> HIDE DEF more
  <2>6. Fits(k + 1, more)
    BY <2>4, <2>5
  <2> HIDE DEF Fits
  <2> QED
    BY <2>6
<1>3. T = Nat
  <2>1. T \in SUBSET Nat
    OBVIOUS
  <2> HIDE DEF T
  <2> QED
    BY <1>1, <1>2, <2>1, SetInduction
<1>4. PICK it : Fits(n, it)
  <2>1. n \in T
    BY <1>3
  <2> QED
    BY <2>1
<1> QED
  BY <1>4 DEF Fits, FoldIter

-----------------------------------------------------------------------------
(* The orders that things are sorted by *)

Digits == Seq(0 .. 9)

\* One sequence of digits sorts before another where they first differ.
LEMMA DigitsStrict ==
    ASSUME NEW s \in Digits, NEW t \in Digits, NEW u \in Digits
    PROVE  /\ ~ DigitsBefore(s, s)
           /\ DigitsBefore(s, t) /\ DigitsBefore(t, u) => DigitsBefore(s, u)
<1>1. /\ Len(s) \in Nat /\ DOMAIN s = 1 .. Len(s) /\ \A i \in 1 .. Len(s) : s[i] \in 0 .. 9
      /\ Len(t) \in Nat /\ DOMAIN t = 1 .. Len(t) /\ \A i \in 1 .. Len(t) : t[i] \in 0 .. 9
      /\ Len(u) \in Nat /\ DOMAIN u = 1 .. Len(u) /\ \A i \in 1 .. Len(u) : u[i] \in 0 .. 9
  BY LenProperties, ElementOfSeq DEF Digits
<1>2. ~ DigitsBefore(s, s)
  <2> SUFFICES ASSUME NEW i \in 1 .. Len(s), i - 1 = Len(s) \/ s[i] < s[i]
               PROVE  FALSE
    BY <1>1 DEF DigitsBefore
  <2> QED
    BY <1>1
<1>3. ASSUME DigitsBefore(s, t), DigitsBefore(t, u)
      PROVE  DigitsBefore(s, u)
  <2>1. PICK i \in 1 .. Len(t) : /\ i - 1 <= Len(s)
                                 /\ \A j \in 1 .. i - 1 : s[j] = t[j]
                                 /\ i - 1 = Len(s) \/ s[i] < t[i]
    BY <1>1, <1>3 DEF DigitsBefore
  <2>2. PICK k \in 1 .. Len(u) : /\ k - 1 <= Len(t)
                                 /\ \A j \in 1 .. k - 1 : t[j] = u[j]
                                 /\ k - 1 = Len(t) \/ t[k] < u[k]
    BY <1>1, <1>3 DEF DigitsBefore
  <2>3. CASE i < k
    <3>1. i \in 1 .. Len(u) /\ i \in 1 .. k - 1
      BY <1>1, <2>1, <2>2, <2>3
    <3>2. \A j \in 1 .. i - 1 : s[j] = u[j]
      <4> TAKE j \in 1 .. i - 1
      <4>1. j \in 1 .. k - 1
        BY <1>1, <2>1, <2>2, <2>3
      <4> QED
        BY <2>1, <2>2, <4>1
    <3>3. i - 1 = Len(s) \/ s[i] < u[i]
      BY <2>1, <2>2, <3>1
    <3> QED
      BY <1>1, <2>1, <3>1, <3>2, <3>3 DEF DigitsBefore
  <2>4. CASE i = k
    <3>1. t[i] < u[i]
      BY <1>1, <2>1, <2>2, <2>4
    <3>2. \A j \in 1 .. i - 1 : s[j] = u[j]
      BY <2>1, <2>2, <2>4
    <3>3. i \in 1 .. Len(u) /\ t[i] \in 0 .. 9 /\ u[i] \in 0 .. 9
      BY <1>1, <2>1, <2>2, <2>4
    <3>4. i - 1 = Len(s) \/ s[i] < u[i]
      <4>1. CASE i - 1 = Len(s)
        BY <4>1
      <4>2. CASE i - 1 # Len(s)
        <5> DEFINE n == Len(s)
        <5>1. s[i] < t[i] /\ i \in 1 .. n
          <6>1. n \in Nat /\ i \in Nat /\ 1 <= i /\ i - 1 <= n /\ i - 1 # n
            BY <1>1, <2>1, <4>2
          <6> HIDE DEF n
          <6>2. i \in 1 .. n
            BY <6>1
          <6> QED
            BY <2>1, <4>2, <6>2
        <5>2. s[i] \in Nat /\ t[i] \in Nat /\ u[i] \in Nat
          <6>1. s[i] \in 0 .. 9
            BY <1>1, <5>1
          <6>2. 0 .. 9 \subseteq Nat
            OBVIOUS
          <6> QED
            BY <3>3, <6>1, <6>2
        <5>3. s[i] < u[i]
          BY <3>1, <5>1, <5>2
        <5> QED
          BY <5>3
      <4> QED
        BY <4>1, <4>2
    <3>5. i \in DOMAIN u /\ i - 1 <= Len(s)
      BY <1>1, <2>1, <3>3
    <3> QED
      BY <3>2, <3>4, <3>5 DEF DigitsBefore
  <2>5. CASE k < i
    <3>1. k \in 1 .. i - 1 /\ k <= Len(s) /\ k - 1 # Len(t) /\ k - 1 <= Len(s)
      BY <1>1, <2>1, <2>2, <2>5
    <3>2. \A j \in 1 .. k - 1 : s[j] = u[j]
      <4> TAKE j \in 1 .. k - 1
      <4>1. j \in 1 .. i - 1
        BY <1>1, <2>1, <2>2, <2>5
      <4> QED
        BY <2>1, <2>2, <4>1
    <3>3. s[k] < u[k]
      BY <2>1, <2>2, <3>1
    <3> QED
      BY <1>1, <2>2, <3>1, <3>2, <3>3 DEF DigitsBefore
  <2> QED
    BY <1>1, <2>1, <2>2, <2>3, <2>4, <2>5
<1> QED
  BY <1>2, <1>3

\* Of two different sequences of digits one sorts before the other.
LEMMA DigitsTotal ==
    ASSUME NEW s \in Digits, NEW t \in Digits, s # t
    PROVE  DigitsBefore(s, t) \/ DigitsBefore(t, s)
<1> DEFINE Differs(i) == i > Len(s) \/ i > Len(t) \/ s[i] # t[i]
           D == {i \in Nat \ {0} : Differs(i)}
<1>1. /\ Len(s) \in Nat /\ DOMAIN s = 1 .. Len(s) /\ \A i \in 1 .. Len(s) : s[i] \in 0 .. 9
      /\ Len(t) \in Nat /\ DOMAIN t = 1 .. Len(t) /\ \A i \in 1 .. Len(t) : t[i] \in 0 .. 9
  BY LenProperties, ElementOfSeq DEF Digits
<1>2. D \in SUBSET Nat /\ Len(s) + 1 \in D
  BY <1>1
<1>3. PICK i \in D : \A j \in D : i <= j
  <2> HIDE DEF D
  <2> QED
    BY <1>2, LeastNatural
<1>4. \A j \in 1 .. i - 1 : j <= Len(s) /\ j <= Len(t) /\ s[j] = t[j]
  <2> TAKE j \in 1 .. i - 1
  <2>1. j \in Nat \ {0} /\ ~ (i <= j)
    OBVIOUS
  <2>2. ~ Differs(j)
    BY <1>3, <2>1
  <2> QED
    BY <1>1, <2>1, <2>2
<1>5. i \in Nat \ {0} /\ Differs(i)
  OBVIOUS
<1>6. i - 1 <= Len(s) /\ i - 1 <= Len(t)
  <2>1. CASE i = 1
    BY <1>1, <2>1
  <2>2. CASE i # 1
    <3>1. i - 1 \in 1 .. i - 1
      BY <1>5, <2>2
    <3> QED
      BY <1>4, <3>1
  <2> QED
    BY <2>1, <2>2
<1>7. CASE i <= Len(s) /\ i <= Len(t)
  <2>1. i \in DOMAIN s /\ i \in DOMAIN t
    BY <1>1, <1>5, <1>7
  <2>2. s[i] \in 0 .. 9 /\ t[i] \in 0 .. 9 /\ s[i] # t[i]
    BY <1>1, <1>5, <1>7, <2>1
  <2>3. s[i] < t[i] \/ t[i] < s[i]
    BY <2>2
  <2> HIDE DEF D
  <2> QED
    BY <1>4, <1>6, <2>1, <2>3 DEF DigitsBefore
<1>8. CASE i > Len(s) /\ i <= Len(t)
  <2>1. i - 1 = Len(s) /\ i \in DOMAIN t
    BY <1>1, <1>5, <1>6, <1>8
  <2> HIDE DEF D
  <2> QED
    BY <1>4, <1>6, <2>1 DEF DigitsBefore
<1>9. CASE i <= Len(s) /\ i > Len(t)
  <2>1. i - 1 = Len(t) /\ i \in DOMAIN s
    BY <1>1, <1>5, <1>6, <1>9
  <2>2. \A j \in 1 .. i - 1 : t[j] = s[j]
    BY <1>4
  <2> HIDE DEF D
  <2> QED
    BY <1>6, <2>1, <2>2 DEF DigitsBefore
<1>10. CASE i > Len(s) /\ i > Len(t)
  <2>1. Len(s) = i - 1 /\ Len(t) = i - 1
    BY <1>1, <1>5, <1>6, <1>10
  <2>2. \A j \in 1 .. Len(s) : s[j] = t[j]
    BY <1>4, <2>1
  <2>3. s = t
    BY <2>1, <2>2, SeqEqual DEF Digits
  <2> QED
    BY <2>3
<1> QED
  BY <1>1, <1>5, <1>7, <1>8, <1>9, <1>10

\* Versions, and what no version is known of, are in a strict total order.
LEMMA VersionsOrdered ==
    ASSUME NEW v \in Versions \union {None}, NEW w \in Versions \union {None},
           NEW x \in Versions \union {None}
    PROVE  /\ ~ VersionBefore(v, v)
           /\ VersionBefore(v, w) /\ VersionBefore(w, x) => VersionBefore(v, x)
           /\ v # w => VersionBefore(v, w) \/ VersionBefore(w, v)
<1>1. \A u \in Versions : u.parts \in Digits /\ u.pre \in Digits /\ u \in [parts : Digits, pre : Digits]
  BY ParserAssumption DEF Digits
<1>2. \A u \in {v, w, x} : u = None \/ u \in Versions
  OBVIOUS
<1>3. \A a, b, c \in Digits : /\ ~ DigitsBefore(a, a)
                              /\ DigitsBefore(a, b) /\ DigitsBefore(b, c) => DigitsBefore(a, c)
                              /\ a # b => DigitsBefore(a, b) \/ DigitsBefore(b, a)
  BY DigitsStrict, DigitsTotal
<1>4. ~ VersionBefore(v, v)
  BY <1>1, <1>2, <1>3 DEF VersionBefore
<1>5. VersionBefore(v, w) /\ VersionBefore(w, x) => VersionBefore(v, x)
  BY <1>1, <1>2, <1>3 DEF VersionBefore
<1>6. v # w => VersionBefore(v, w) \/ VersionBefore(w, v)
  <2>1. CASE v = None \/ w = None
    BY <2>1 DEF VersionBefore
  <2>2. CASE v # None /\ w # None
    <3>1. v # w => v.parts # w.parts \/ v.pre # w.pre
      BY <1>1, <1>2, <2>2
    <3> QED
      BY <1>1, <1>2, <1>3, <2>2, <3>1 DEF VersionBefore
  <2> QED
    BY <2>1, <2>2
<1> QED
  BY <1>4, <1>5, <1>6

\* The types a parser of manifests gives, and their order.
Types == {"dependencies", "devDependency", "peerDependency", "optionalDependency"}

LEMMA TypesOrdered ==
    /\ Range(DependencyGroups) = Types
    /\ DOMAIN DependencyGroups = 1 .. 4
    /\ \A i \in 1 .. 4 : DependencyGroups[i] \in Types
    /\ \A a, b \in Types : TypeBefore(a, b) => ~ TypeBefore(b, a)
    /\ \A a, b, c \in Types : TypeBefore(a, c) => TypeBefore(a, b) \/ TypeBefore(b, c)
<1> DEFINE g == DependencyGroups
           s == SortedTypes
<1>1. /\ DOMAIN g = 1 .. 4
      /\ g[1] = "dependencies" /\ g[2] = "devDependency"
      /\ g[3] = "peerDependency" /\ g[4] = "optionalDependency"
  BY DEF DependencyGroups
<1>2. /\ DOMAIN s = 1 .. 4
      /\ s[1] = "dependencies" /\ s[2] = "devDependency"
      /\ s[3] = "optionalDependency" /\ s[4] = "peerDependency"
  BY DEF SortedTypes
<1>3. \A i \in 1 .. 4 : i = 1 \/ i = 2 \/ i = 3 \/ i = 4
  OBVIOUS
<1>4. \A i \in 1 .. 4 : g[i] \in Types
  BY <1>1, <1>3 DEF Types
<1> HIDE DEF g, s
<1>5. Range(g) = Types
  <2>1. \A a \in Types : \E i \in DOMAIN g : g[i] = a
    BY <1>1 DEF Types
  <2> QED
    BY <1>1, <1>4, <2>1 DEF Range
<1>6. \A i, j \in 1 .. 4 : s[i] = s[j] => i = j
  BY <1>2, <1>3
<1>7. ASSUME NEW a \in Types, NEW b \in Types
      PROVE  TypeBefore(a, b) <=> \E i, j \in 1 .. 4 : i < j /\ s[i] = a /\ s[j] = b
  BY <1>2 DEF TypeBefore, s
<1>8. \A a, b \in Types : TypeBefore(a, b) => ~ TypeBefore(b, a)
  BY <1>6, <1>7
<1>9. ASSUME NEW a \in Types, NEW b \in Types, NEW c \in Types, TypeBefore(a, c)
      PROVE  TypeBefore(a, b) \/ TypeBefore(b, c)
  <2>1. PICK i, k \in 1 .. 4 : i < k /\ s[i] = a /\ s[k] = c
    BY <1>7, <1>9
  <2>2. PICK j \in 1 .. 4 : s[j] = b
    BY <1>2 DEF Types
  <2>3. i < j \/ j < k
    BY <2>1, <2>2
  <2> QED
    BY <1>7, <2>1, <2>2, <2>3
<1> QED
  BY <1>1, <1>4, <1>5, <1>8, <1>9 DEF g

\* What the parsers list: what a manifest or a requirement asks for has no parent.
Listed ==
    {d \in Dependencies :
       /\ d.is_direct => d.parent = None
       /\ d.ecosystem = "PyPI" => d.parent = None /\ d.dependency_type \in Types}

\* The sort key of the parser is a strict weak order of what is listed.
LEMMA SortedBeforeWeak ==
    ASSUME NEW d \in Listed, NEW e \in Listed, NEW f \in Listed
    PROVE  /\ SortedBefore(d, e) => ~ SortedBefore(e, d)
           /\ SortedBefore(d, f) => SortedBefore(d, e) \/ SortedBefore(e, f)
<1> DEFINE PB(x, y) == ParentBefore(x.parent, y.parent)
                       \/ (x.ecosystem = "PyPI" /\ TypeBefore(x.dependency_type, y.dependency_type))
<1>1. \A x \in Listed :
        /\ x.ecosystem = "npm" \/ (x.ecosystem = "PyPI" /\ x.parent = None
                                   /\ x.dependency_type \in Types)
        /\ x.is_direct \in BOOLEAN /\ x.name \in Nat
        /\ x.version \in Versions \union {None}
        /\ x.parent \in Nat \/ x.parent = None
  BY ParserAssumption DEF Listed, Dependencies
<1>2. ASSUME NEW x \in Listed, NEW y \in Listed, x.ecosystem = y.ecosystem
      PROVE  PB(x, y) => ~ PB(y, x)
  BY <1>1, <1>2, TypesOrdered DEF ParentBefore
<1>3. ASSUME NEW x \in Listed, NEW y \in Listed, NEW z \in Listed,
             x.ecosystem = y.ecosystem, y.ecosystem = z.ecosystem
      PROVE  PB(x, z) => PB(x, y) \/ PB(y, z)
  BY <1>1, <1>3, TypesOrdered DEF ParentBefore
<1>4. \A x, y \in Listed : SortedBefore(x, y) <=>
        IF x.ecosystem # y.ecosystem THEN x.ecosystem = "PyPI"
        ELSE IF x.is_direct # y.is_direct THEN x.is_direct
        ELSE IF x.name # y.name THEN x.name < y.name
        ELSE IF x.version # y.version THEN VersionBefore(x.version, y.version)
        ELSE PB(x, y)
  BY DEF SortedBefore
<1>5. /\ \A x, y, z \in Listed :
           /\ ~ VersionBefore(x.version, x.version)
           /\ VersionBefore(x.version, y.version) /\ VersionBefore(y.version, z.version)
                => VersionBefore(x.version, z.version)
           /\ x.version # y.version =>
                VersionBefore(x.version, y.version) \/ VersionBefore(y.version, x.version)
  BY <1>1, VersionsOrdered
<1> HIDE DEF PB
<1>6. SortedBefore(d, e) => ~ SortedBefore(e, d)
  BY <1>1, <1>2, <1>4, <1>5
<1>7. SortedBefore(d, f) => SortedBefore(d, e) \/ SortedBefore(e, f)
  BY <1>1, <1>3, <1>4, <1>5
<1> QED
  BY <1>6, <1>7

LEMMA ListedSorted ==
    ASSUME NEW q \in Seq(Listed)
    PROVE  Keeps(Sorted(q, SortedBefore), Listed, q, DOMAIN q)
<1> DEFINE less == {pair \in (DOMAIN q) \X (DOMAIN q) : SortedBefore(q[pair[1]], q[pair[2]])}
           pairs == SortedPairs(q, SortedBefore)
<1>1. \A i \in DOMAIN q : q[i] \in Listed
  BY LenProperties, ElementOfSeq
<1>2. \A i, j \in DOMAIN q : <<i, j>> \in less <=> SortedBefore(q[i], q[j])
  OBVIOUS
<1>3. \A i, j \in DOMAIN q : <<i, j>> \in pairs <=>
        <<i, j>> \in less \/ (<<j, i>> \notin less /\ i < j)
  BY DEF SortedPairs
<1>4. less \in SUBSET ((DOMAIN q) \X (DOMAIN q))
  OBVIOUS
<1> HIDE DEF less
<1>5. /\ \A i, j \in DOMAIN q : <<i, j>> \in less => <<j, i>> \notin less
      /\ \A i, j, k \in DOMAIN q : <<i, k>> \in less => <<i, j>> \in less \/ <<j, k>> \in less
  BY <1>1, <1>2, SortedBeforeWeak
<1> HIDE DEF pairs
<1>6. Keeps(Arranged(q, DOMAIN q, pairs), Listed, q, DOMAIN q)
  BY <1>3, <1>4, <1>5, SortKeeps
<1> QED
  BY <1>6 DEF Sorted, pairs

\* The numbers that a task has.
LEMMA TaskNumbers ==
    ASSUME NEW t \in Tasks
    PROVE  /\ t.rank \in 0 .. 4 /\ t.score \in 0 .. 100
           /\ t.rank \in Nat /\ t.score \in Nat /\ t.name \in Nat
<1>1. t.name \in Names
  BY DEF Tasks
<1>2. t.rank \in 0 .. 4 /\ t.score \in 0 .. 100
  BY DEF Tasks
<1>3. \A n \in 0 .. 100 : n \in Nat
  OBVIOUS
<1>4. \A n \in 0 .. 4 : n \in Nat
  OBVIOUS
<1>5. Names \subseteq Nat
  BY ParserAssumption
<1> QED
  BY <1>1, <1>2, <1>3, <1>4, <1>5, Zenon

\* The sort keys of vulnerabilities and of tasks are strict weak orders, too.
LEMMA TaskBeforeWeak ==
    ASSUME NEW t, NEW u, NEW v,
           t.rank \in Nat, t.score \in Nat, t.name \in Nat,
           u.rank \in Nat, u.score \in Nat, u.name \in Nat,
           v.rank \in Nat, v.score \in Nat, v.name \in Nat
    PROVE  /\ TaskBefore(t, u) => ~ TaskBefore(u, t)
           /\ TaskBefore(t, v) => TaskBefore(t, u) \/ TaskBefore(u, v)
  BY DEF TaskBefore, MoreUrgent

LEMMA SortsBeforeWeak ==
    ASSUME NEW t, NEW u, NEW v,
           t.name \in Nat, u.name \in Nat, v.name \in Nat,
           t.canonical[2] \in Nat, u.canonical[2] \in Nat, v.canonical[2] \in Nat
    PROVE  /\ SortsBefore(t, u) => ~ SortsBefore(u, t)
           /\ SortsBefore(t, v) => SortsBefore(t, u) \/ SortsBefore(u, v)
  BY DEF SortsBefore, IdBefore

LEMMA TasksSorted ==
    ASSUME NEW q \in Seq(Tasks)
    PROVE  Keeps(Sorted(q, TaskBefore), Tasks, q, DOMAIN q)
<1> DEFINE less == {pair \in (DOMAIN q) \X (DOMAIN q) : TaskBefore(q[pair[1]], q[pair[2]])}
           pairs == SortedPairs(q, TaskBefore)
<1>1. \A i \in DOMAIN q : q[i].rank \in Nat /\ q[i].score \in Nat /\ q[i].name \in Nat
  <2>1. \A t \in Tasks : t.rank \in Nat /\ t.score \in Nat /\ t.name \in Nat
    BY TaskNumbers, Zenon
  <2> QED
    BY <2>1, LenProperties, ElementOfSeq
<1>2. \A i, j \in DOMAIN q : <<i, j>> \in less <=> TaskBefore(q[i], q[j])
  OBVIOUS
<1>3. \A i, j \in DOMAIN q : <<i, j>> \in pairs <=>
        <<i, j>> \in less \/ (<<j, i>> \notin less /\ i < j)
  BY DEF SortedPairs
<1>4. less \in SUBSET ((DOMAIN q) \X (DOMAIN q))
  OBVIOUS
<1> HIDE DEF less
<1>5. /\ \A i, j \in DOMAIN q : <<i, j>> \in less => <<j, i>> \notin less
      /\ \A i, j, k \in DOMAIN q : <<i, k>> \in less => <<i, j>> \in less \/ <<j, k>> \in less
  BY <1>1, <1>2, TaskBeforeWeak
<1> HIDE DEF pairs
<1>6. Keeps(Arranged(q, DOMAIN q, pairs), Tasks, q, DOMAIN q)
  BY <1>3, <1>4, <1>5, SortKeeps
<1> QED
  BY <1>6 DEF Sorted, pairs

LEMMA VulnerabilitiesSorted ==
    ASSUME NEW q \in Seq(Vulnerabilities)
    PROVE  Keeps(Sorted(q, SortsBefore), Vulnerabilities, q, DOMAIN q)
<1> DEFINE less == {pair \in (DOMAIN q) \X (DOMAIN q) : SortsBefore(q[pair[1]], q[pair[2]])}
           pairs == SortedPairs(q, SortsBefore)
<1>1. \A i \in DOMAIN q : q[i].name \in Nat /\ q[i].canonical[2] \in Nat
  <2>1. \A v \in Vulnerabilities : v.name \in Nat /\ v.canonical[2] \in Nat
    BY ParserAssumption, IdsAssumption DEF Vulnerabilities
  <2> QED
    BY <2>1, LenProperties, ElementOfSeq
<1>2. \A i, j \in DOMAIN q : <<i, j>> \in less <=> SortsBefore(q[i], q[j])
  OBVIOUS
<1>3. \A i, j \in DOMAIN q : <<i, j>> \in pairs <=>
        <<i, j>> \in less \/ (<<j, i>> \notin less /\ i < j)
  BY DEF SortedPairs
<1>4. less \in SUBSET ((DOMAIN q) \X (DOMAIN q))
  OBVIOUS
<1> HIDE DEF less
<1>5. /\ \A i, j \in DOMAIN q : <<i, j>> \in less => <<j, i>> \notin less
      /\ \A i, j, k \in DOMAIN q : <<i, k>> \in less => <<i, j>> \in less \/ <<j, k>> \in less
  BY <1>1, <1>2, SortsBeforeWeak
<1> HIDE DEF pairs
<1>6. Keeps(Arranged(q, DOMAIN q, pairs), Vulnerabilities, q, DOMAIN q)
  BY <1>3, <1>4, <1>5, SortKeeps
<1> QED
  BY <1>6 DEF Sorted, pairs

-----------------------------------------------------------------------------
(* DependencyParser *)

Manifests == [Range(DependencyGroups) -> SUBSET Names]

AllTypes == Types \union {"transitive"}

\* The group of a name that a manifest lists is one of the manifest's.
LEMMA DirectTyped ==
    ASSUME NEW manifest \in Manifests, NEW name \in DirectNames(manifest)
    PROVE  DirectType(manifest, name) \in Types /\ name \in Names
<1> DEFINE listing == {i \in DOMAIN DependencyGroups : name \in manifest[DependencyGroups[i]]}
<1>1. PICK group \in Range(DependencyGroups) : name \in manifest[group]
  BY DEF DirectNames
<1>2. PICK i \in DOMAIN DependencyGroups : DependencyGroups[i] = group
  BY DEF Range
<1>3. listing \in SUBSET (1 .. 4) /\ listing # {}
  BY <1>1, <1>2, TypesOrdered
<1> HIDE DEF listing
<1>4. Max(listing) \in 1 .. 4
  BY <1>3, MaxIn
<1>5. DirectType(manifest, name) = DependencyGroups[Max(listing)]
  BY DEF DirectType, listing
<1> QED
  BY <1>1, <1>4, <1>5, TypesOrdered DEF Manifests

\* What one entry of a lockfile says, whatever its type.
LEMMA EntryFacts ==
    ASSUME NEW entry \in LockEntries, NEW manifest \in Manifests
    PROVE  /\ NameOf(entry) \in Names
           /\ ParentOf(entry) \in Names \union {None}
           /\ entry.version \in Versions \union {None}
           /\ IsDirect(entry, manifest) \in BOOLEAN
           /\ IsDirect(entry, manifest) =>
                /\ ParentOf(entry) = None
                /\ DirectType(manifest, NameOf(entry)) \in Types
<1>1. entry.path \in Seq(Names) /\ entry.path # <<>> /\ entry.version \in Versions \union {None}
  BY DEF LockEntries
<1>2. /\ Len(entry.path) \in Nat \ {0}
      /\ \A i \in 1 .. Len(entry.path) : entry.path[i] \in Names
  BY <1>1, EmptySeq, LenProperties, ElementOfSeq
<1>3. NameOf(entry) \in Names
  BY <1>2 DEF NameOf, Last
<1>4. ParentOf(entry) \in Names \union {None}
  BY <1>2 DEF ParentOf
<1>5. IsDirect(entry, manifest) => Len(entry.path) = 1 /\ NameOf(entry) \in DirectNames(manifest)
  BY DEF IsDirect
<1>6. IsDirect(entry, manifest) \in BOOLEAN
  BY DEF IsDirect
<1>7. ASSUME IsDirect(entry, manifest)
      PROVE  ParentOf(entry) = None
  <2>1. Len(entry.path) = 1
    BY <1>5, <1>7
  <2> QED
    BY <2>1 DEF ParentOf
<1>8. IsDirect(entry, manifest) => DirectType(manifest, NameOf(entry)) \in Types
  BY <1>5, DirectTyped
<1> QED
  BY <1>1, <1>3, <1>4, <1>6, <1>7, <1>8

\* The type of an entry of an old lockfile, from the types of entries before it.
WalkedType(entries, manifest, Type, i) ==
    LET entry == entries[i]
        outer == {j \in 1 .. i - 1 : entries[j].path = Front(entry.path)}
    IN IF IsDirect(entry, manifest) THEN DirectType(manifest, NameOf(entry))
       ELSE IF entry.dev \/ \E j \in outer : Type[j] = "devDependency"
       THEN "devDependency"
       ELSE "transitive"

LEMMA WalkedTyped ==
    ASSUME NEW entries \in Seq(LockEntries), NEW manifest \in Manifests
    PROVE  \A i \in DOMAIN entries : WalkedTypes(entries, manifest)[i] \in AllTypes
<1> DEFINE n == Len(entries)
           Fits(k, ty) == \A i \in 1 .. k : ty[i] = WalkedType(entries, manifest, ty, i)
           T == {k \in Nat : \E ty : Fits(k, ty)}
<1>1. n \in Nat /\ DOMAIN entries = 1 .. n /\ \A i \in 1 .. n : entries[i] \in LockEntries
  BY LenProperties, ElementOfSeq
<1>2. 0 \in T
  <2>1. Fits(0, <<>>)
    OBVIOUS
  <2> QED
    BY <2>1
<1>3. ASSUME NEW k \in T
      PROVE  k + 1 \in T
  <2>1. PICK ty : Fits(k, ty)
    OBVIOUS
  <2> DEFINE more == [i \in 1 .. k + 1 |->
                        IF i = k + 1 THEN WalkedType(entries, manifest, ty, i) ELSE ty[i]]
  <2>2. ASSUME NEW i \in 1 .. k + 1
        PROVE  WalkedType(entries, manifest, more, i) = WalkedType(entries, manifest, ty, i)
    <3>1. \A j \in 1 .. i - 1 : more[j] = ty[j]
      OBVIOUS
    <3> HIDE DEF more
    <3> QED
      BY <3>1 DEF WalkedType
  <2>3. ASSUME NEW i \in 1 .. k + 1
        PROVE  more[i] = WalkedType(entries, manifest, ty, i)
    BY <2>1
  <2> HIDE DEF more
  <2>4. Fits(k + 1, more)
    BY <2>2, <2>3
  <2> QED
    BY <2>4
<1>4. T = Nat
  <2>1. T \in SUBSET Nat
    OBVIOUS
  <2> HIDE DEF T
  <2> QED
    BY <1>2, <1>3, <2>1, SetInduction
<1>5. PICK ty : Fits(n, ty)
  BY <1>1, <1>4
<1> DEFINE Is(Type) == Type = [i \in DOMAIN entries |-> WalkedType(entries, manifest, Type, i)]
           chosen == CHOOSE Type : Is(Type)
           whole == [i \in 1 .. n |-> ty[i]]
<1>6. Is(whole)
  <2>1. ASSUME NEW i \in 1 .. n
        PROVE  whole[i] = WalkedType(entries, manifest, whole, i)
    <3>1. \A j \in 1 .. i - 1 : whole[j] = ty[j]
      BY <1>1
    <3>2. WalkedType(entries, manifest, whole, i) = WalkedType(entries, manifest, ty, i)
      <4> HIDE DEF whole
      <4> QED
        BY <3>1 DEF WalkedType
    <3> QED
      BY <1>5, <3>2
  <2> QED
    BY <1>1, <2>1
<1>7. Is(chosen)
  <2> HIDE DEF Is, whole
  <2> QED
    BY <1>6
<1>8. WalkedTypes(entries, manifest) = chosen
  BY DEF WalkedTypes, WalkedType
<1> HIDE DEF chosen
<1>9. ASSUME NEW i \in 1 .. n
      PROVE  WalkedType(entries, manifest, chosen, i) \in AllTypes
  BY <1>1, EntryFacts DEF WalkedType, AllTypes, Types
<1> QED
  BY <1>1, <1>7, <1>8, <1>9

\* What a lockfile lists: a dependency for each of its entries.
LEMMA LockedListed ==
    ASSUME NEW lock \in Lockfiles, NEW manifest \in Manifests
    PROVE  LET locked == LockedDependencies(lock, manifest)
           IN /\ locked \in Seq(Listed)
              /\ DOMAIN locked = DOMAIN lock.entries
              /\ \A i \in DOMAIN locked :
                   /\ locked[i].ecosystem = "npm"
                   /\ locked[i].name = NameOf(lock.entries[i])
                   /\ locked[i].version = lock.entries[i].version
<1> DEFINE entries == lock.entries
           Type == IF lock.kind = "dependencies" THEN WalkedTypes(lock.entries, manifest)
                   ELSE [i \in DOMAIN lock.entries |-> PackageType(lock.entries[i], manifest)]
           Locked(i) ==
             [ecosystem |-> "npm", name |-> NameOf(lock.entries[i]),
              version |-> lock.entries[i].version, dependency_type |-> Type[i],
              is_direct |-> IsDirect(lock.entries[i], manifest),
              parent |-> ParentOf(lock.entries[i])]
           locked == LockedDependencies(lock, manifest)
<1>1. entries \in Seq(LockEntries)
  BY DEF Lockfiles
<1>2. Len(entries) \in Nat /\ DOMAIN entries = 1 .. Len(entries)
      /\ \A i \in DOMAIN entries : entries[i] \in LockEntries
  BY <1>1, LenProperties, ElementOfSeq
<1>3. \A i \in DOMAIN entries : Type[i] \in AllTypes
  <2>1. CASE lock.kind = "dependencies"
    BY <1>1, <2>1, WalkedTyped
  <2>2. CASE lock.kind # "dependencies"
    <3> SUFFICES ASSUME NEW i \in DOMAIN entries
                 PROVE  PackageType(entries[i], manifest) \in AllTypes
      BY <2>2
    <3> QED
      BY <1>2, EntryFacts DEF PackageType, AllTypes, Types
  <2> QED
    BY <2>1, <2>2
<1>4. locked = [i \in DOMAIN entries |-> Locked(i)]
  BY DEF LockedDependencies
<1> HIDE DEF locked, Type
<1>5. ASSUME NEW i \in DOMAIN entries
      PROVE  Locked(i) \in Listed
  <2>1. Type[i] \in Range(DependencyGroups) \union {"transitive"}
    BY <1>3, TypesOrdered DEF AllTypes
  <2>2. Locked(i) \in Dependencies
    BY <1>2, <2>1, EntryFacts DEF Dependencies
  <2>3. Locked(i).is_direct => Locked(i).parent = None
    BY <1>2, EntryFacts
  <2>4. Locked(i).ecosystem # "PyPI"
    OBVIOUS
  <2> QED
    BY <2>2, <2>3, <2>4 DEF Listed
<1>6. \A i \in DOMAIN entries :
        /\ locked[i] = Locked(i)
        /\ locked[i].ecosystem = "npm"
        /\ locked[i].name = NameOf(entries[i])
        /\ locked[i].version = entries[i].version
  BY <1>4
<1> HIDE DEF Locked
<1>7. locked \in [1 .. Len(entries) -> Listed]
  BY <1>2, <1>4, <1>5
<1>8. locked \in Seq(Listed) /\ DOMAIN locked = DOMAIN entries
  BY <1>2, <1>7
<1>9. \A i \in DOMAIN locked :
        /\ locked[i].ecosystem = "npm"
        /\ locked[i].name = NameOf(entries[i])
        /\ locked[i].version = entries[i].version
  BY <1>6, <1>8
<1> QED
  BY <1>8, <1>9 DEF locked

\* Of the entries of one key the last is taken, so each key stays.
LEMMA ByKeyKeeps ==
    ASSUME NEW locked \in Seq(Listed)
    PROVE  /\ ByKey(locked) \subseteq Listed
           /\ IsFiniteSet(ByKey(locked))
           /\ \A i \in DOMAIN locked : \E d \in ByKey(locked) :
                \E j \in DOMAIN locked :
                  d = locked[j] /\ d.name = locked[i].name /\ d.version = locked[i].version
           /\ \A d \in ByKey(locked) : \E j \in DOMAIN locked : d = locked[j]
<1>1. /\ Len(locked) \in Nat /\ DOMAIN locked = 1 .. Len(locked)
      /\ \A i \in DOMAIN locked : locked[i] \in Listed
  BY LenProperties, ElementOfSeq
<1> DEFINE lasts == {j \in DOMAIN locked : \A later \in j + 1 .. Len(locked) :
                       DependencyKey(locked[later]) # DependencyKey(locked[j])}
<1>2. ByKey(locked) = {locked[j] : j \in lasts}
  BY DEF ByKey
<1>3. lasts \subseteq DOMAIN locked
  OBVIOUS
<1>4. IsFiniteSet(lasts)
  <2>1. IsFiniteSet(DOMAIN locked)
    BY <1>1, Counted
  <2> HIDE DEF lasts
  <2> QED
    BY <1>3, <2>1, FS_Subset
<1>5. IsFiniteSet(ByKey(locked))
  <2> HIDE DEF lasts
  <2> QED
    BY <1>2, <1>4, ImageFinite
<1>6. ASSUME NEW i \in DOMAIN locked
      PROVE  \E j \in lasts : DependencyKey(locked[j]) = DependencyKey(locked[i])
  <2> DEFINE same == {j \in DOMAIN locked : DependencyKey(locked[j]) = DependencyKey(locked[i])}
             j == Max(same)
  <2>1. same \in SUBSET (1 .. Len(locked)) /\ same # {}
    BY <1>1
  <2>2. j \in same /\ \A k \in same : k <= j
    <3> HIDE DEF same
    <3> QED
      BY <1>1, <2>1, MaxIn
  <2> HIDE DEF j
  <2>3. \A later \in j + 1 .. Len(locked) :
          later \in DOMAIN locked /\ ~ (later <= j)
    BY <1>1, <2>2
  <2>4. j \in lasts
    BY <2>2, <2>3
  <2> QED
    BY <2>2, <2>4
<1>7. ASSUME NEW i \in DOMAIN locked
      PROVE  \E d \in ByKey(locked) : \E j \in DOMAIN locked :
               d = locked[j] /\ d.name = locked[i].name /\ d.version = locked[i].version
  <2>1. PICK j \in lasts : DependencyKey(locked[j]) = DependencyKey(locked[i])
    BY <1>6
  <2>2. locked[j].name = locked[i].name /\ locked[j].version = locked[i].version
    BY <2>1 DEF DependencyKey
  <2> HIDE DEF lasts
  <2> QED
    BY <1>2, <1>3, <2>2
<1>8. \A d \in ByKey(locked) : \E j \in DOMAIN locked : d = locked[j]
  <2> HIDE DEF lasts
  <2> QED
    BY <1>2, <1>3
<1> QED
  BY <1>1, <1>5, <1>7, <1>8

\* What the parser lists of a Node project: every version that the lockfile has
\* installed is there, and every name that package.json lists, as a direct one.
LEMMA NodeListed ==
    ASSUME NEW manifest \in Manifests,
           \A group \in Range(DependencyGroups) : IsFiniteSet(manifest[group]),
           NEW lock, lock = None \/ lock \in Lockfiles
    PROVE  LET node == NodeDependencies(manifest, lock)
           IN /\ node \subseteq Listed
              /\ IsFiniteSet(node)
              /\ \A name \in DirectNames(manifest) : \E d \in node :
                   d.ecosystem = "npm" /\ d.name = name /\ d.is_direct
              /\ lock # None => \A i \in DOMAIN lock.entries : \E d \in node :
                   /\ d.ecosystem = "npm" /\ d.name = NameOf(lock.entries[i])
                   /\ d.version = lock.entries[i].version
<1> DEFINE locked == IF lock = None THEN {} ELSE ByKey(LockedDependencies(lock, manifest))
           added == AddedFromManifest(manifest, locked)
           node == NodeDependencies(manifest, lock)
<1>1. /\ locked \subseteq Listed
      /\ IsFiniteSet(locked)
      /\ \A d \in locked : d.ecosystem = "npm"
      /\ lock # None => \A i \in DOMAIN lock.entries : \E d \in locked :
           d.name = NameOf(lock.entries[i]) /\ d.version = lock.entries[i].version
  <2>1. CASE lock = None
    BY <2>1, FS_EmptySet
  <2>2. CASE lock # None
    <3> DEFINE all == LockedDependencies(lock, manifest)
    <3>1. /\ all \in Seq(Listed)
          /\ DOMAIN all = DOMAIN lock.entries
          /\ \A i \in DOMAIN all :
               /\ all[i].ecosystem = "npm"
               /\ all[i].name = NameOf(lock.entries[i])
               /\ all[i].version = lock.entries[i].version
      BY <2>2, LockedListed
    <3>2. locked = ByKey(all)
      BY <2>2
    <3> HIDE DEF all, locked
    <3>3. /\ locked \subseteq Listed
          /\ IsFiniteSet(locked)
          /\ \A i \in DOMAIN all : \E d \in locked :
               d.name = all[i].name /\ d.version = all[i].version
          /\ \A d \in locked : \E j \in DOMAIN all : d = all[j]
      BY <3>1, <3>2, ByKeyKeeps
    <3>4. \A d \in locked : d.ecosystem = "npm"
      BY <3>1, <3>3
    <3>5. \A i \in DOMAIN lock.entries : \E d \in locked :
            d.name = NameOf(lock.entries[i]) /\ d.version = lock.entries[i].version
      BY <3>1, <3>3
    <3> QED
      BY <3>3, <3>4, <3>5
  <2> QED
    BY <2>1, <2>2
<1>2. node = {d \in locked : \A a \in added : DependencyKey(a) # DependencyKey(d)} \union added
  BY DEF NodeDependencies
<1> DEFINE missing == DirectNames(manifest) \ {d.name : d \in {e \in locked : e.is_direct}}
<1>3. added = {ManifestOnly(manifest, name) : name \in missing}
  BY DEF AddedFromManifest
<1> HIDE DEF locked, node, added, missing
<1>4. ASSUME NEW name \in DirectNames(manifest)
      PROVE  LET d == ManifestOnly(manifest, name)
             IN /\ d \in Listed /\ d.ecosystem = "npm" /\ d.name = name
                /\ d.is_direct /\ d.version = None
  <2>1. DirectType(manifest, name) \in Types /\ name \in Names
    BY DirectTyped
  <2>2. ManifestOnly(manifest, name) \in Dependencies
    BY <2>1, TypesOrdered DEF ManifestOnly, Dependencies
  <2> QED
    BY <2>2 DEF ManifestOnly, Listed
<1>5. missing \subseteq DirectNames(manifest)
  BY DEF missing
<1>6. IsFiniteSet(added)
  <2>1. IsFiniteSet(DirectNames(manifest))
    <3> DEFINE parts == {manifest[group] : group \in Range(DependencyGroups)}
    <3>1. IsFiniteSet(Range(DependencyGroups))
      <4>1. IsFiniteSet(1 .. 4)
        BY Counted
      <4>2. Range(DependencyGroups) = {DependencyGroups[i] : i \in 1 .. 4}
        BY TypesOrdered DEF Range
      <4> QED
        BY <4>1, <4>2, ImageFinite
    <3>2. IsFiniteSet(parts)
      BY <3>1, ImageFinite
    <3>3. \A part \in parts : IsFiniteSet(part)
      OBVIOUS
    <3>4. DirectNames(manifest) = UNION parts
      BY DEF DirectNames
    <3> HIDE DEF parts
    <3> QED
      BY <3>2, <3>3, <3>4, FS_UNION
  <2>2. IsFiniteSet(missing)
    BY <1>5, <2>1, FS_Subset
  <2> DEFINE f == [name \in missing |-> ManifestOnly(manifest, name)]
  <2>3. added = {f[name] : name \in missing}
    BY <1>3
  <2> HIDE DEF f
  <2> QED
    BY <2>2, <2>3, ImageFinite
<1>7. \A a \in added : a \in Listed /\ a.ecosystem = "npm" /\ a.version = None /\ a.is_direct
  BY <1>3, <1>4, <1>5
<1>8. node \subseteq Listed
  BY <1>1, <1>2, <1>7
<1>9. IsFiniteSet(node)
  <2>1. node \in SUBSET (locked \union added)
    BY <1>2
  <2>2. IsFiniteSet(locked \union added)
    BY <1>1, <1>6, FS_Union
  <2> QED
    BY <2>1, <2>2, FS_Subset
<1>10. ASSUME NEW name \in DirectNames(manifest)
       PROVE  \E d \in node : d.ecosystem = "npm" /\ d.name = name /\ d.is_direct
  <2>1. CASE name \in missing
    BY <1>2, <1>3, <1>4, <2>1
  <2>2. CASE name \notin missing
    <3>1. PICK d \in locked : d.is_direct /\ d.name = name
      BY <2>2 DEF missing
    <3>2. ASSUME NEW a \in added, DependencyKey(a) = DependencyKey(d)
          PROVE  FALSE
      <4>1. PICK n \in missing : a = ManifestOnly(manifest, n)
        BY <1>3
      <4>2. a.name = n /\ a.name = name
        BY <1>4, <1>5, <3>1, <3>2, <4>1 DEF DependencyKey
      <4> QED
        BY <2>2, <4>2
    <3> QED
      BY <1>1, <1>2, <3>1, <3>2
  <2> QED
    BY <2>1, <2>2
<1>11. ASSUME lock # None, NEW i \in DOMAIN lock.entries
       PROVE  \E d \in node : /\ d.ecosystem = "npm" /\ d.name = NameOf(lock.entries[i])
                              /\ d.version = lock.entries[i].version
  <2>1. PICK d \in locked : d.name = NameOf(lock.entries[i]) /\ d.version = lock.entries[i].version
    BY <1>1, <1>11
  <2>2. CASE \A a \in added : DependencyKey(a) # DependencyKey(d)
    BY <1>1, <1>2, <2>1, <2>2
  <2>3. ASSUME NEW a \in added, DependencyKey(a) = DependencyKey(d)
        PROVE  a \in node /\ a.ecosystem = "npm" /\ a.name = d.name /\ a.version = d.version
    BY <1>2, <1>7, <2>3 DEF DependencyKey
  <2> QED
    BY <2>1, <2>2, <2>3
<1> QED
  BY <1>8, <1>9, <1>10, <1>11 DEF node

\* What the parser lists of Python requirements: every one that it supports.
LEMMA PythonListed ==
    ASSUME NEW requirements \in Seq(Requirements)
    PROVE  LET python == PythonDependencies(requirements)
           IN /\ IsFiniteSet(python)
              /\ \A pair \in python : pair[1] \in Listed
              /\ \A line \in {l \in Range(requirements) : l.supported} : \E pair \in python :
                   /\ pair[1].ecosystem = "PyPI" /\ pair[1].name = line.name
                   /\ pair[1].version = line.pin /\ pair[1].is_direct
<1> DEFINE lines == {line \in Range(requirements) : line.supported}
           Pair(r) == <<[ecosystem |-> "PyPI", name |-> r.name, version |-> r.pin,
                         dependency_type |-> r.group, is_direct |-> TRUE, parent |-> None],
                        r.spec>>
           f == [r \in lines |-> Pair(r)]
<1>1. PythonDependencies(requirements) = {f[r] : r \in lines}
  BY DEF PythonDependencies
<1>2. IsFiniteSet(lines) /\ lines \subseteq Requirements
  <2>1. /\ Len(requirements) \in Nat /\ DOMAIN requirements = 1 .. Len(requirements)
        /\ \A i \in DOMAIN requirements : requirements[i] \in Requirements
    BY LenProperties, ElementOfSeq
  <2>2. IsFiniteSet(DOMAIN requirements)
    BY <2>1, Counted
  <2>3. Range(requirements) = {requirements[i] : i \in DOMAIN requirements}
    BY DEF Range
  <2>4. IsFiniteSet(Range(requirements))
    BY <2>2, <2>3, ImageFinite
  <2>5. lines \in SUBSET Range(requirements)
    OBVIOUS
  <2>6. Range(requirements) \subseteq Requirements
    BY <2>1, <2>3
  <2> HIDE DEF lines
  <2> QED
    BY <2>4, <2>5, <2>6, FS_Subset
<1>3. ASSUME NEW r \in lines
      PROVE  /\ f[r] = Pair(r)
             /\ f[r][1] \in Listed
             /\ f[r][1].ecosystem = "PyPI" /\ f[r][1].name = r.name
             /\ f[r][1].version = r.pin /\ f[r][1].is_direct
  <2>1. r \in Requirements
    BY <1>2
  <2>2. /\ r.name \in Names /\ r.pin \in Versions \union {None}
        /\ r.group \in Range(DependencyGroups)
    BY <2>1 DEF Requirements
  <2>3. Pair(r)[1] \in Dependencies
    BY <2>2 DEF Dependencies
  <2>4. Pair(r)[1] \in Listed
    BY <2>2, <2>3, TypesOrdered DEF Listed
  <2> QED
    BY <2>4
<1> HIDE DEF f, lines
<1>4. IsFiniteSet(PythonDependencies(requirements))
  BY <1>1, <1>2, ImageFinite
<1>5. \A pair \in PythonDependencies(requirements) : pair[1] \in Listed
  BY <1>1, <1>3
<1>6. \A line \in lines : \E pair \in PythonDependencies(requirements) :
        /\ pair[1].ecosystem = "PyPI" /\ pair[1].name = line.name
        /\ pair[1].version = line.pin /\ pair[1].is_direct
  <2>1. \A line \in lines : f[line] \in PythonDependencies(requirements)
    BY <1>1
  <2> QED
    BY <1>3, <2>1
<1> QED
  BY <1>4, <1>5, <1>6 DEF lines

\* The dependencies that a scan looks up: well-formed, those asked for with no
\* parent, and with all that the files of the repository name among them.
LEMMA ParsedListed ==
    ASSUME NEW r \in Repositories, Readable(r)
    PROVE  LET parsed == ParseDependencies(r)
           IN /\ parsed \in Seq(Listed)
              /\ \A wanted \in InRepository(r) : \E i \in DOMAIN parsed :
                   /\ parsed[i].ecosystem = wanted[1] /\ parsed[i].name = wanted[2]
                   /\ \/ parsed[i].version = wanted[3]
                      \/ wanted[3] = None /\ parsed[i].is_direct
<1> DEFINE node == IF r.manifest = None THEN {} ELSE NodeDependencies(r.manifest, r.lock)
           python == PythonDependencies(r.requirements)
           all == {<<d, None>> : d \in node} \union python
           listed == SetToSeq(all)
           firsts == [i \in DOMAIN listed |-> listed[i][1]]
           parsed == ParseDependencies(r)
<1>1. /\ r.manifest # None => r.manifest \in Manifests /\ (r.lock = None \/ r.lock \in Lockfiles)
      /\ r.manifest # None => \A group \in Range(DependencyGroups) : IsFiniteSet(r.manifest[group])
      /\ r.requirements \in Seq(Requirements)
  BY PipelineAssumption DEF Readable, Manifests
<1>2. /\ node \subseteq Listed
      /\ IsFiniteSet(node)
      /\ r.manifest # None => \A name \in DirectNames(r.manifest) : \E d \in node :
           d.ecosystem = "npm" /\ d.name = name /\ d.is_direct
      /\ r.manifest # None /\ r.lock # None => \A i \in DOMAIN r.lock.entries : \E d \in node :
           /\ d.ecosystem = "npm" /\ d.name = NameOf(r.lock.entries[i])
           /\ d.version = r.lock.entries[i].version
  <2>1. CASE r.manifest = None
    BY <2>1, FS_EmptySet
  <2>2. CASE r.manifest # None
    <3>1. node = NodeDependencies(r.manifest, r.lock)
      BY <2>2
    <3> HIDE DEF node
    <3> QED
      BY <1>1, <2>2, <3>1, NodeListed
  <2> QED
    BY <2>1, <2>2
<1>3. /\ IsFiniteSet(python)
      /\ \A pair \in python : pair[1] \in Listed
      /\ \A line \in {l \in Range(r.requirements) : l.supported} : \E pair \in python :
           /\ pair[1].ecosystem = "PyPI" /\ pair[1].name = line.name
           /\ pair[1].version = line.pin /\ pair[1].is_direct
  BY <1>1, PythonListed
<1>4. parsed = Sorted(firsts, SortedBefore)
  BY DEF ParseDependencies
<1> HIDE DEF node, python
<1>5. IsFiniteSet(all)
  <2> DEFINE f == [d \in node |-> <<d, None>>]
             pairs == {f[d] : d \in node}
  <2>1. all = pairs \union python
    OBVIOUS
  <2> HIDE DEF f
  <2>2. IsFiniteSet(pairs)
    BY <1>2, ImageFinite
  <2> HIDE DEF pairs, all
  <2> QED
    BY <1>3, <2>1, <2>2, FS_Union
<1>6. \A pair \in all : pair[1] \in Listed
  BY <1>2, <1>3
<1>7. \A d \in node : <<d, None>> \in all
  OBVIOUS
<1>8. python \subseteq all
  OBVIOUS
<1> HIDE DEF all
<1>9. /\ listed \in Seq(all)
      /\ \A pair \in all : \E i \in DOMAIN listed : listed[i] = pair
  BY <1>5, SetToSeqLists
<1> HIDE DEF listed
<1>10. Len(listed) \in Nat /\ DOMAIN listed = 1 .. Len(listed)
       /\ \A i \in DOMAIN listed : listed[i] \in all
  BY <1>9, LenProperties, ElementOfSeq
<1>11. firsts \in Seq(Listed) /\ DOMAIN firsts = DOMAIN listed
       /\ \A i \in DOMAIN listed : firsts[i] = listed[i][1]
  <2>1. firsts \in [1 .. Len(listed) -> Listed]
    BY <1>6, <1>10
  <2> QED
    BY <1>10, <2>1
<1> HIDE DEF firsts
<1>12. Keeps(parsed, Listed, firsts, DOMAIN firsts)
  BY <1>4, <1>11, ListedSorted
<1> HIDE DEF parsed
<1>13. parsed \in Seq(Listed) /\ \A i \in DOMAIN firsts : \E k \in DOMAIN parsed : parsed[k] = firsts[i]
  BY <1>12 DEF Keeps
<1>14. ASSUME NEW pair \in all
       PROVE  \E k \in DOMAIN parsed : parsed[k] = pair[1]
  BY <1>9, <1>11, <1>13
<1>15. ASSUME NEW d \in node
       PROVE  \E k \in DOMAIN parsed : parsed[k] = d
  BY <1>7, <1>14
<1>16. ASSUME NEW wanted \in InRepository(r)
       PROVE  \E i \in DOMAIN parsed :
                /\ parsed[i].ecosystem = wanted[1] /\ parsed[i].name = wanted[2]
                /\ \/ parsed[i].version = wanted[3]
                   \/ wanted[3] = None /\ parsed[i].is_direct
  <2>1. ASSUME r.manifest # None,
               NEW name \in DirectNames(r.manifest), wanted = <<"npm", name, None>>
        PROVE  \E i \in DOMAIN parsed :
                 /\ parsed[i].ecosystem = wanted[1] /\ parsed[i].name = wanted[2]
                 /\ wanted[3] = None /\ parsed[i].is_direct
    <3>1. PICK d \in node : d.ecosystem = "npm" /\ d.name = name /\ d.is_direct
      BY <1>2, <2>1
    <3> QED
      BY <1>15, <2>1, <3>1
  <2>2. ASSUME r.manifest # None, r.lock # None, NEW e \in Range(r.lock.entries),
               wanted = <<"npm", Last(e.path), e.version>>
        PROVE  \E i \in DOMAIN parsed :
                 /\ parsed[i].ecosystem = wanted[1] /\ parsed[i].name = wanted[2]
                 /\ parsed[i].version = wanted[3]
    <3>1. PICK j \in DOMAIN r.lock.entries : e = r.lock.entries[j]
      BY DEF Range
    <3>2. PICK d \in node : /\ d.ecosystem = "npm" /\ d.name = NameOf(r.lock.entries[j])
                            /\ d.version = r.lock.entries[j].version
      BY <1>2, <2>2
    <3> QED
      BY <1>15, <2>2, <3>1, <3>2 DEF NameOf
  <2>3. ASSUME NEW line \in {l \in Range(r.requirements) : l.supported},
               wanted = <<"PyPI", line.name, line.pin>>
        PROVE  \E i \in DOMAIN parsed :
                 /\ parsed[i].ecosystem = wanted[1] /\ parsed[i].name = wanted[2]
                 /\ parsed[i].version = wanted[3]
    <3>1. PICK pair \in python : /\ pair[1].ecosystem = "PyPI" /\ pair[1].name = line.name
                                 /\ pair[1].version = line.pin
      BY <1>3
    <3> QED
      BY <1>8, <1>14, <2>3, <3>1
  <2>4. \/ r.manifest # None /\ \E name \in DirectNames(r.manifest) : wanted = <<"npm", name, None>>
        \/ /\ r.manifest # None /\ r.lock # None
           /\ \E e \in Range(r.lock.entries) : wanted = <<"npm", Last(e.path), e.version>>
        \/ \E line \in {l \in Range(r.requirements) : l.supported} :
             wanted = <<"PyPI", line.name, line.pin>>
    BY DEF InRepository
  <2> QED
    BY <2>1, <2>2, <2>3, <2>4
<1> QED
  BY <1>13, <1>16 DEF parsed

-----------------------------------------------------------------------------
(* VulnerabilityNormalizer *)

\* An id is chosen among those there are.
LEMMA CanonicalTyped ==
    ASSUME NEW source \in AdvisoryIds, NEW aliases \in SUBSET AdvisoryIds
    PROVE  CanonicalId(source, aliases) \in AdvisoryIds
<1> DEFINE ids == {source} \union aliases
           best == {id \in ids : \A other \in ids : PrefixRank(id) <= PrefixRank(other)}
<1>1. \A id : PrefixRank(id) \in Nat
  BY DEF PrefixRank
<1>2. best # {}
  <2> DEFINE ranks == {PrefixRank(id) : id \in ids}
  <2>1. ranks \in SUBSET Nat /\ ranks # {}
    BY <1>1
  <2>2. PICK least \in ranks : \A rank \in ranks : least <= rank
    <3> HIDE DEF ranks
    <3> QED
      BY <2>1, LeastNatural
  <2>3. PICK id \in ids : least = PrefixRank(id)
    OBVIOUS
  <2>4. id \in best
    BY <2>2, <2>3
  <2> QED
    BY <2>4
<1>3. best \subseteq AdvisoryIds
  OBVIOUS
<1> DEFINE first == CHOOSE id \in best : \A other \in best \ {id} : IdBefore(id, other)
<1>4. CanonicalId(source, aliases) = IF source \in best THEN source ELSE first
  BY DEF CanonicalId
<1> HIDE DEF best
<1>5. \A id \in AdvisoryIds : id[2] \in Nat
  BY IdsAssumption
<1>6. \E id \in best : \A other \in best \ {id} : IdBefore(id, other)
  <2> DEFINE numbers == {id[2] : id \in best}
  <2>1. numbers \in SUBSET Nat /\ numbers # {}
    BY <1>2, <1>3, <1>5
  <2>2. PICK least \in numbers : \A number \in numbers : least <= number
    <3> HIDE DEF numbers
    <3> QED
      BY <2>1, LeastNatural
  <2>3. PICK id \in best : least = id[2]
    OBVIOUS
  <2>4. ASSUME NEW other \in best \ {id}
        PROVE  id[2] < other[2]
    <3>1. id[2] <= other[2] /\ id \in AdvisoryIds /\ other \in AdvisoryIds
      BY <1>3, <2>2, <2>3
    <3>2. id[2] # other[2]
      BY <3>1, IdsAssumption
    <3> QED
      BY <1>5, <3>1, <3>2
  <2> QED
    BY <2>4 DEF IdBefore
<1>7. first \in best
  BY <1>6
<1> QED
  BY <1>3, <1>4, <1>7

\* The severities there are, and how strong those are that call for action.
LEMMA SeveritiesOrdered ==
    /\ Severities = {"UNKNOWN", "LOW", "MODERATE", "MEDIUM", "HIGH", "CRITICAL"}
    /\ \A s \in Severities : SeverityOrder[s] \in 0 .. 4
    /\ \A s \in Severities : Severe(s) <=> SeverityOrder[s] >= 3
  BY DEF Severities, SeverityOrder, Severe

\* The stronger one of two severities: severe where either is.
LEMMA StrongerIsSevere ==
    ASSUME NEW s \in Severities, NEW t \in Severities
    PROVE  /\ StrongerSeverity(s, t) \in Severities
           /\ Severe(s) \/ Severe(t) => Severe(StrongerSeverity(s, t))
  BY SeveritiesOrdered DEF StrongerSeverity

LEMMA SeverityTyped ==
    ASSUME NEW advisory \in Advisories
    PROVE  InferSeverity(advisory) \in Severities
<1> DEFINE understood == {i \in DOMAIN advisory.vectors : advisory.vectors[i] # None}
<1>1. advisory.stated \in Severities \union {None}
      /\ advisory.vectors \in Seq(Severities \union {None})
  BY DEF Advisories
<1>2. DOMAIN advisory.vectors = 1 .. Len(advisory.vectors) /\ Len(advisory.vectors) \in Nat
      /\ \A i \in DOMAIN advisory.vectors : advisory.vectors[i] \in Severities \union {None}
  BY <1>1, LenProperties, ElementOfSeq
<1>3. ASSUME understood # {}
      PROVE  advisory.vectors[Min(understood)] \in Severities
  <2>1. understood \in SUBSET Nat
    BY <1>2
  <2> HIDE DEF understood
  <2>2. Min(understood) \in understood
    BY <1>3, <2>1, MinIs
  <2> QED
    BY <1>2, <2>2 DEF understood
<1>4. "UNKNOWN" \in Severities
  BY SeveritiesOrdered
<1> QED
  BY <1>1, <1>3, <1>4 DEF InferSeverity

\* An advisory about a dependency makes a vulnerability of it.
LEMMA NormalizedTyped ==
    ASSUME NEW advisory \in Advisories, NEW d \in Dependencies
    PROVE  /\ Normalized(advisory, d) \in Vulnerabilities
           /\ Normalized(advisory, d).ecosystem = d.ecosystem
           /\ Normalized(advisory, d).name = d.name
           /\ Normalized(advisory, d).severity = InferSeverity(advisory)
           /\ Normalized(advisory, d).fixed = FixedVersions(advisory, d)
<1>1. /\ advisory.source \in AdvisoryIds /\ advisory.aliases \in SUBSET AdvisoryIds
      /\ advisory.urls \in SUBSET Urls /\ advisory.other_urls \in SUBSET Urls
      /\ advisory.affected \in
           SUBSET [ecosystem : {"PyPI", "npm"}, name : Names, fixed : SUBSET Versions]
  BY DEF Advisories
<1>2. FixedVersions(advisory, d) \in SUBSET Versions
  <2>1. \A entry \in advisory.affected : entry.fixed \in SUBSET Versions
    BY <1>1
  <2> QED
    BY <2>1 DEF FixedVersions, MatchingEntries
<1>3. CanonicalId(advisory.source, advisory.aliases) \in AdvisoryIds
  BY <1>1, CanonicalTyped
<1>4. d.ecosystem \in {"PyPI", "npm"} /\ d.name \in Names
  BY DEF Dependencies
<1>5. InferSeverity(advisory) \in Severities
  BY SeverityTyped
<1>6. Normalized(advisory, d) \in Vulnerabilities
  BY <1>1, <1>2, <1>3, <1>4, <1>5 DEF Normalized, Vulnerabilities
<1> QED
  BY <1>6 DEF Normalized

\* What merging two vulnerabilities makes of the first.
LEMMA MergedVulnerability ==
    ASSUME NEW v \in Vulnerabilities, NEW w \in Vulnerabilities
    PROVE  LET m == MergeVulnerabilities(v, w)
           IN /\ m \in Vulnerabilities
              /\ m.ecosystem = v.ecosystem /\ m.name = v.name
              /\ m.fixed = v.fixed \union w.fixed
              /\ m.severity = StrongerSeverity(v.severity, w.severity)
<1> DEFINE aliases == (Identity(v) \union Identity(w)) \ {v.canonical}
           m == MergeVulnerabilities(v, w)
<1>1. \A x \in {v, w} :
        /\ x.canonical \in AdvisoryIds /\ x.source \in AdvisoryIds
        /\ x.aliases \in SUBSET AdvisoryIds /\ x.fixed \in SUBSET Versions
        /\ x.urls \in SUBSET Urls /\ x.other_urls \in SUBSET Urls /\ x.severity \in Severities
        /\ x.ecosystem \in {"PyPI", "npm"} /\ x.name \in Names
  BY DEF Vulnerabilities
<1>2. aliases \in SUBSET AdvisoryIds
  BY <1>1 DEF Identity
<1>3. CanonicalId(v.canonical, aliases) \in AdvisoryIds
  <2> HIDE DEF aliases
  <2> QED
    BY <1>1, <1>2, CanonicalTyped
<1>4. StrongerSeverity(v.severity, w.severity) \in Severities
  BY <1>1, StrongerIsSevere
<1>5. (IF v.source # Unknown THEN v.source ELSE w.source) \in AdvisoryIds
  BY <1>1
<1>6. m = [v EXCEPT
             !.canonical = CanonicalId(v.canonical, aliases),
             !.source = IF v.source # Unknown THEN v.source ELSE w.source,
             !.aliases = aliases,
             !.severity = StrongerSeverity(v.severity, w.severity),
             !.fixed = v.fixed \union w.fixed,
             !.urls = v.urls \union (w.urls \ v.other_urls),
             !.other_urls = v.other_urls \union (w.other_urls \ v.urls)]
  BY DEF MergeVulnerabilities
<1> HIDE DEF aliases, m
<1>7. m \in Vulnerabilities
  BY <1>1, <1>2, <1>3, <1>4, <1>5, <1>6 DEF Vulnerabilities
<1>8. /\ m.ecosystem = v.ecosystem /\ m.name = v.name
      /\ m.fixed = v.fixed \union w.fixed
      /\ m.severity = StrongerSeverity(v.severity, w.severity)
  BY <1>6 DEF Vulnerabilities
<1> QED
  BY <1>7, <1>8 DEF m

\* A set of vulnerabilities that merging does not leave.
MergeClosed(G) ==
    /\ G \subseteq Vulnerabilities
    /\ \A v, w \in G : MergeVulnerabilities(v, w) \in G

SomeSevere(deduped) == \E i \in DOMAIN deduped : Severe(deduped[i].severity)

\* A vulnerability that is added keeps what is severe severe.
LEMMA AddVulnerabilityKeeps ==
    ASSUME NEW G, MergeClosed(G), NEW deduped \in Seq(G), NEW v \in G
    PROVE  /\ AddVulnerability(deduped, v) \in Seq(G)
           /\ SomeSevere(deduped) => SomeSevere(AddVulnerability(deduped, v))
           /\ Severe(v.severity) => SomeSevere(AddVulnerability(deduped, v))
<1> DEFINE matches == {i \in DOMAIN deduped : ShouldMerge(deduped[i], v)}
           n == Len(deduped)
           r == AddVulnerability(deduped, v)
<1>1. n \in Nat /\ DOMAIN deduped = 1 .. n /\ \A i \in 1 .. n : deduped[i] \in G
  BY LenProperties, ElementOfSeq
<1>2. CASE matches = {}
  <2>1. r = Append(deduped, v)
    BY <1>2 DEF AddVulnerability
  <2> HIDE DEF r
  <2>2. r \in Seq(G) /\ DOMAIN r = 1 .. n + 1
        /\ r[n + 1] = v /\ \A i \in 1 .. n : r[i] = deduped[i]
    BY <1>1, <2>1
  <2>3. \A i \in 1 .. n : i \in DOMAIN r
    BY <1>1, <2>2
  <2>4. n + 1 \in DOMAIN r
    BY <1>1, <2>2
  <2> QED
    BY <1>1, <2>2, <2>3, <2>4 DEF SomeSevere, r
<1>3. CASE matches # {}
  <2> DEFINE first == Min(matches)
             m == MergeVulnerabilities(deduped[first], v)
  <2>1. first \in 1 .. n
    <3>1. matches \in SUBSET Nat /\ matches \subseteq 1 .. n
      BY <1>1
    <3> HIDE DEF matches
    <3> QED
      BY <1>3, <3>1, MinIs
  <2>2. r = [deduped EXCEPT ![first] = m]
    BY <1>3 DEF AddVulnerability
  <2> HIDE DEF first, r, matches
  <2>3. /\ m \in G
        /\ deduped[first].severity \in Severities /\ v.severity \in Severities
        /\ m.severity = StrongerSeverity(deduped[first].severity, v.severity)
    <3>1. deduped[first] \in G /\ deduped[first] \in Vulnerabilities /\ v \in Vulnerabilities
      BY <1>1, <2>1 DEF MergeClosed
    <3>2. m \in G
      BY <3>1 DEF MergeClosed
    <3>3. m.severity = StrongerSeverity(deduped[first].severity, v.severity)
      BY <3>1, MergedVulnerability
    <3>4. \A w \in Vulnerabilities : w.severity \in Severities
      BY DEF Vulnerabilities
    <3> QED
      BY <3>1, <3>2, <3>3, <3>4
  <2>4. Severe(deduped[first].severity) \/ Severe(v.severity) => Severe(m.severity)
    BY <2>3, StrongerIsSevere
  <2> HIDE DEF m
  <2>5. r \in Seq(G) /\ DOMAIN r = 1 .. n /\ r[first] = m
        /\ \A i \in 1 .. n : i # first => r[i] = deduped[i]
    BY <1>1, <2>1, <2>2, <2>3
  <2> QED
    BY <1>1, <2>1, <2>4, <2>5 DEF SomeSevere, r
<1> QED
  BY <1>2, <1>3

\* The values a fold over a sequence of vulnerabilities goes through.
LEMMA VulnerabilityFold ==
    ASSUME NEW G, MergeClosed(G), NEW q \in Seq(G)
    PROVE  \E m : /\ m[0] = <<>>
                  /\ \A k \in 1 .. Len(q) : m[k] = AddVulnerability(m[k - 1], q[k])
                  /\ FoldLeft(AddVulnerability, <<>>, q) = m[Len(q)]
<1> DEFINE n == Len(q)
           X == Seq(G)
           op == [p \in X \X G |-> AddVulnerability(p[1], p[2])]
           Is(iter) == iter = [s \in SUBSET DOMAIN q |->
                                 IF s = {} THEN <<>>
                                 ELSE AddVulnerability(iter[s \ {Max(s)}], q[Max(s)])]
           chosen == CHOOSE iter : Is(iter)
<1>1. n \in Nat /\ DOMAIN q = 1 .. n /\ q \in [1 .. n -> G]
  BY LenProperties
<1>2. op \in [X \X G -> X] /\ \A x \in X, y \in G : op[<<x, y>>] = AddVulnerability(x, y)
  BY AddVulnerabilityKeeps
<1>3. <<>> \in X
  OBVIOUS
<1> HIDE DEF op, X, n, Is
<1>4. PICK iter \in [SUBSET (1 .. n) -> X] : FoldIter(iter, op, <<>>, n, q)
  BY <1>1, <1>2, <1>3, FoldExists
<1>5. ASSUME NEW s \in SUBSET (1 .. n)
      PROVE  iter[s] = IF s = {} THEN <<>> ELSE AddVulnerability(iter[s \ {Max(s)}], q[Max(s)])
  <2>1. CASE s # {}
    <3>1. Max(s) \in s
      BY <1>1, <2>1, MaxIn
    <3>2. iter[s \ {Max(s)}] \in X /\ q[Max(s)] \in G
      BY <1>1, <1>4, <3>1
    <3> QED
      BY <1>2, <1>4, <2>1, <3>2 DEF FoldIter
  <2> QED
    BY <1>4, <2>1 DEF FoldIter
<1>6. Is(iter)
  BY <1>1, <1>4, <1>5 DEF Is
<1>7. FoldLeft(AddVulnerability, <<>>, q) = chosen[DOMAIN q]
  BY DEF FoldLeft, MapThenFoldSet, Is
<1>8. Is(chosen)
  BY <1>6
<1> HIDE DEF chosen
<1> DEFINE m == [k \in 0 .. n |-> chosen[1 .. k]]
<1>9. \A s \in SUBSET (1 .. n) :
        chosen[s] = IF s = {} THEN <<>> ELSE AddVulnerability(chosen[s \ {Max(s)}], q[Max(s)])
  BY <1>1, <1>8 DEF Is
<1>10. m[0] = <<>>
  <2>1. 1 .. 0 = {} /\ 0 \in 0 .. n
    BY <1>1
  <2>2. chosen[{}] = <<>>
    BY <1>9
  <2> QED
    BY <2>1, <2>2
<1>11. ASSUME NEW k \in 1 .. n
       PROVE  m[k] = AddVulnerability(m[k - 1], q[k])
  <2>1. /\ 1 .. k \in SUBSET (1 .. n) /\ 1 .. k # {} /\ (1 .. k) \ {k} = 1 .. k - 1
        /\ k - 1 \in 0 .. n /\ k \in 0 .. n
    <3>1. k \in Nat /\ 1 <= k /\ k <= n
      BY <1>1
    <3>2. \A i \in 1 .. k : i \in 1 .. n
      BY <1>1, <3>1
    <3>3. (1 .. k) \ {k} = 1 .. k - 1
      BY <3>1
    <3>4. k \in 1 .. k /\ k - 1 \in 0 .. n /\ k \in 0 .. n
      BY <1>1, <3>1
    <3> QED
      BY <3>2, <3>3, <3>4
  <2>2. Max(1 .. k) = k
    <3>1. k \in Nat /\ 1 <= k
      BY <1>1
    <3> QED
      BY <3>1, MaxIs
  <2>3. chosen[1 .. k] = AddVulnerability(chosen[1 .. k - 1], q[k])
    BY <1>9, <2>1, <2>2
  <2>4. m[k] = chosen[1 .. k] /\ m[k - 1] = chosen[1 .. k - 1]
    BY <2>1
  <2> QED
    BY <2>3, <2>4
<1>12. FoldLeft(AddVulnerability, <<>>, q) = m[n]
  BY <1>1, <1>7
<1> HIDE DEF m
<1> QED
  BY <1>10, <1>11, <1>12 DEF n

\* Deduplication leaves no set that merging does not leave, and what is severe
\* stays severe under some finding.
LEMMA DeduplicationKeeps ==
    ASSUME NEW G, MergeClosed(G), NEW all \in Seq(G)
    PROVE  /\ DeduplicatedVulnerabilities(all) \in Seq(G)
           /\ SomeSevere(all) => SomeSevere(DeduplicatedVulnerabilities(all))
<1> DEFINE n == Len(all)
           sorted == DeduplicatedVulnerabilities(all)
<1>1. n \in Nat /\ DOMAIN all = 1 .. n /\ \A i \in 1 .. n : all[i] \in G
  BY LenProperties, ElementOfSeq
<1>2. PICK m : /\ m[0] = <<>>
               /\ \A k \in 1 .. n : m[k] = AddVulnerability(m[k - 1], all[k])
               /\ FoldLeft(AddVulnerability, <<>>, all) = m[n]
  BY VulnerabilityFold
<1> HIDE DEF n
<1> DEFINE Holds(k) == /\ m[k] \in Seq(G)
                       /\ (\E i \in 1 .. k : Severe(all[i].severity)) => SomeSevere(m[k])
           T == {k \in Nat : k <= n => Holds(k)}
<1>3. 0 \in T
  <2>1. m[0] \in Seq(G)
    BY <1>2
  <2>2. Holds(0)
    BY <2>1
  <2> HIDE DEF Holds
  <2> QED
    BY <2>2
<1>4. ASSUME NEW k \in T
      PROVE  k + 1 \in T
  <2> SUFFICES ASSUME k \in Nat, k + 1 <= n
               PROVE  Holds(k + 1)
    OBVIOUS
  <2>1. Holds(k)
    BY <1>1
  <2>2. k + 1 \in 1 .. n /\ (k + 1) - 1 = k
    BY <1>1
  <2>3. m[k + 1] = AddVulnerability(m[k], all[k + 1]) /\ all[k + 1] \in G
    BY <1>1, <1>2, <2>2
  <2>4. /\ m[k + 1] \in Seq(G)
        /\ SomeSevere(m[k]) => SomeSevere(m[k + 1])
        /\ Severe(all[k + 1].severity) => SomeSevere(m[k + 1])
    BY <2>1, <2>3, AddVulnerabilityKeeps
  <2>5. \A i \in 1 .. k + 1 : i \in 1 .. k \/ i = k + 1
    OBVIOUS
  <2> QED
    BY <2>1, <2>4, <2>5
<1>5. T = Nat
  <2>1. T \in SUBSET Nat
    OBVIOUS
  <2> HIDE DEF T
  <2> QED
    BY <1>3, <1>4, <2>1, SetInduction
<1> HIDE DEF Holds
<1>6. Holds(n)
  <2>1. n \in T
    BY <1>1, <1>5
  <2> QED
    BY <1>1, <2>1
<1> DEFINE folded == m[n]
<1>7. folded \in Seq(G) /\ (SomeSevere(all) => SomeSevere(folded))
  BY <1>1, <1>6 DEF Holds, SomeSevere
<1>8. sorted = Sorted(folded, SortsBefore)
  BY <1>2 DEF DeduplicatedVulnerabilities
<1> HIDE DEF folded, sorted
<1>9. folded \in Seq(Vulnerabilities)
  BY <1>7, SeqMonotonic DEF MergeClosed
<1>10. Keeps(sorted, Vulnerabilities, folded, DOMAIN folded)
  BY <1>8, <1>9, VulnerabilitiesSorted
<1>11. /\ sorted \in Seq(Vulnerabilities)
       /\ \A k \in DOMAIN sorted : \E i \in DOMAIN folded : sorted[k] = folded[i]
       /\ \A i \in DOMAIN folded : \E k \in DOMAIN sorted : sorted[k] = folded[i]
  BY <1>10 DEF Keeps
<1>12. \A i \in DOMAIN folded : folded[i] \in G
  BY <1>7, LenProperties, ElementOfSeq
<1>13. sorted \in Seq(G)
  <2>1. Len(sorted) \in Nat /\ DOMAIN sorted = 1 .. Len(sorted)
        /\ sorted \in [1 .. Len(sorted) -> Vulnerabilities]
    BY <1>11, LenProperties
  <2>2. \A k \in 1 .. Len(sorted) : sorted[k] \in G
    BY <1>11, <1>12, <2>1
  <2>3. sorted \in [1 .. Len(sorted) -> G]
    BY <2>1, <2>2
  <2> QED
    BY <2>1, <2>3
<1>14. SomeSevere(folded) => SomeSevere(sorted)
  BY <1>11 DEF SomeSevere
<1> QED
  BY <1>7, <1>13, <1>14 DEF sorted

\* All vulnerabilities, and those of one package with fixes among some.
VulnerabilitiesOf(d, fixes) ==
    {v \in Vulnerabilities :
       v.ecosystem = d.ecosystem /\ v.name = d.name /\ v.fixed \subseteq fixes}

LEMMA ClosedSets ==
    /\ MergeClosed(Vulnerabilities)
    /\ \A d, fixes : MergeClosed(VulnerabilitiesOf(d, fixes))
<1>1. MergeClosed(Vulnerabilities)
  BY MergedVulnerability DEF MergeClosed
<1>2. ASSUME NEW d, NEW fixes
      PROVE  MergeClosed(VulnerabilitiesOf(d, fixes))
  <2>1. VulnerabilitiesOf(d, fixes) \subseteq Vulnerabilities
    BY DEF VulnerabilitiesOf
  <2>2. ASSUME NEW v \in VulnerabilitiesOf(d, fixes), NEW w \in VulnerabilitiesOf(d, fixes)
        PROVE  MergeVulnerabilities(v, w) \in VulnerabilitiesOf(d, fixes)
    <3>1. v \in Vulnerabilities /\ w \in Vulnerabilities
      BY <2>1
    <3>2. /\ MergeVulnerabilities(v, w) \in Vulnerabilities
          /\ MergeVulnerabilities(v, w).ecosystem = v.ecosystem
          /\ MergeVulnerabilities(v, w).name = v.name
          /\ MergeVulnerabilities(v, w).fixed = v.fixed \union w.fixed
      BY <3>1, MergedVulnerability
    <3> QED
      BY <3>2 DEF VulnerabilitiesOf
  <2> QED
    BY <2>1, <2>2 DEF MergeClosed
<1> QED
  BY <1>1, <1>2

-----------------------------------------------------------------------------
(* PatchPlanner, ReportValidator and RiskScoring *)

\* Semantic versions are in a strict order.
LEMMA SemverStrict ==
    ASSUME NEW v \in Versions, NEW w \in Versions, NEW x \in Versions
    PROVE  /\ ~ SemverBefore(v, v)
           /\ SemverBefore(v, w) /\ SemverBefore(w, x) => SemverBefore(v, x)
<1>1. \A u \in Versions : u.parts \in Digits /\ u.pre \in Digits
  BY ParserAssumption DEF Digits
<1>2. \A a, b, c \in Digits : /\ ~ DigitsBefore(a, a)
                              /\ DigitsBefore(a, b) /\ DigitsBefore(b, c) => DigitsBefore(a, c)
  BY DigitsStrict
<1> QED
  BY <1>1, <1>2 DEF SemverBefore

\* A target is a fix, of three parts as the version it is for, and not before it.
LEMMA TargetChosen ==
    ASSUME NEW current, current = None \/ current \in Versions,
           NEW fixed \in SUBSET Versions, IsFiniteSet(fixed),
           ChooseTargetVersion(current, fixed) # None
    PROVE  LET target == ChooseTargetVersion(current, fixed)
           IN /\ target \in fixed
              /\ IsSemver(current) /\ IsSemver(target)
              /\ ~ SemverBefore(target, current)
<1> DEFINE candidates == {v \in fixed : /\ IsSemver(v)
                                        /\ ~ SemverBefore(v, current)
                                        /\ PrereleaseTargetAllowed(current, v)}
           before == {pair \in candidates \X candidates : SemverBefore(pair[1], pair[2])}
           lowest == CHOOSE v \in candidates : \A w \in candidates : ~ SemverBefore(w, v)
<1>1. ChooseTargetVersion(current, fixed) =
        IF ~ IsSemver(current) \/ candidates = {} THEN None ELSE lowest
  BY DEF ChooseTargetVersion
<1>2. IsSemver(current) /\ candidates # {}
  BY <1>1
<1>3. \A v \in candidates : /\ v \in fixed /\ v \in Versions /\ IsSemver(v)
                            /\ ~ SemverBefore(v, current)
  OBVIOUS
<1>4. IsFiniteSet(candidates)
  <2>1. candidates \in SUBSET fixed
    OBVIOUS
  <2> HIDE DEF candidates
  <2> QED
    BY <2>1, FS_Subset
<1> HIDE DEF candidates
<1>5. \A v, w \in candidates : <<v, w>> \in before <=> SemverBefore(v, w)
  OBVIOUS
<1> HIDE DEF before
<1>6. StrictOrder(candidates, before)
  BY <1>3, <1>5, SemverStrict DEF StrictOrder
<1>7. PICK v \in candidates : \A w \in candidates : <<w, v>> \notin before
  BY <1>2, <1>4, <1>6, MinimalElement
<1>8. lowest \in candidates
  BY <1>5, <1>7
<1> HIDE DEF lowest
<1> QED
  BY <1>1, <1>2, <1>3, <1>8

\* Planner and validator agree on versions of three parts.
LEMMA SameOrderOfVersions ==
    ASSUME NEW v \in Versions, NEW w \in Versions, IsSemver(v), IsSemver(w)
    PROVE  OlderVersion(v, w) <=> SemverBefore(v, w)
<1>1. ASSUME NEW u \in Versions, IsSemver(u)
      PROVE  Release(u) = u.parts
  <2>1. u.parts \in Digits /\ Len(u.parts) = 3
    BY <1>1, ParserAssumption DEF Digits, IsSemver
  <2>2. u.parts = [i \in 1 .. 3 |-> u.parts[i]]
    BY <2>1 DEF Digits
  <2>3. Release(u) = [i \in 1 .. 3 |-> u.parts[i]]
    BY <2>1 DEF Release
  <2> QED
    BY <2>2, <2>3
<1>2. Release(v) = v.parts /\ Release(w) = w.parts
  BY <1>1
<1> QED
  BY <1>2 DEF OlderVersion, SemverBefore

\* What the planner says of a vulnerability passes the gate on versions.
LEMMA PlanSound ==
    ASSUME NEW d \in Dependencies, NEW v, v.fixed \in SUBSET Versions, IsFiniteSet(v.fixed)
    PROVE  LET plan == PatchPlan(d, v)
           IN /\ plan.target \in Versions \union {None}
              /\ plan.action \in {"needs_human_review", "upgrade", "upgrade_parent_package",
                                  "override_or_resolution"}
              /\ plan.target # None => plan.target \in v.fixed
              /\ ~ IsDowngrade(d.version, plan.target)
<1> DEFINE target == ChooseTargetVersion(d.version, v.fixed)
           plan == PatchPlan(d, v)
<1>1. plan.target = target /\ plan.action = RecommendedActionFor(d, target)
  BY DEF PatchPlan
<1>2. d.version = None \/ d.version \in Versions
  BY DEF Dependencies
<1> HIDE DEF target
<1>3. ASSUME target # None
      PROVE  /\ target \in v.fixed /\ target \in Versions
             /\ ~ IsDowngrade(d.version, target)
  <2>1. /\ target \in v.fixed
        /\ IsSemver(d.version) /\ IsSemver(target)
        /\ ~ SemverBefore(target, d.version)
    BY <1>2, <1>3, TargetChosen DEF target
  <2>2. target \in Versions
    BY <2>1
  <2>3. d.version \in Versions
    BY <1>2, <2>1 DEF IsSemver
  <2>4. ~ OlderVersion(target, d.version)
    BY <2>1, <2>2, <2>3, SameOrderOfVersions
  <2> QED
    BY <2>1, <2>2, <2>4 DEF IsDowngrade
<1>4. target = None => ~ IsDowngrade(d.version, target)
  BY DEF IsDowngrade
<1>5. plan.action \in {"needs_human_review", "upgrade", "upgrade_parent_package",
                       "override_or_resolution"}
  BY <1>1 DEF RecommendedActionFor
<1> HIDE DEF plan
<1> QED
  BY <1>1, <1>3, <1>4, <1>5 DEF plan

\* What a scan gives the scoring.
RiskInputs ==
    [severity : Severities, known_exploited : {FALSE},
     runtime_scope : {"production", "development", "unknown"},
     reachability : {"possibly_reachable", "unlikely_reachable", "unknown"},
     dependency_type : AllTypes, is_direct : BOOLEAN, fix_available : BOOLEAN]

LEMMA ReachTyped ==
    ASSUME NEW sources, NEW d
    PROVE  LET reach == AnalyzeReachability(sources, d)
           IN /\ reach.runtime_scope \in {"production", "development", "unknown"}
              /\ reach.reachability \in {"possibly_reachable", "unlikely_reachable", "unknown"}
  BY DEF AnalyzeReachability

\* A package of development that no production code is seen to import.
OnlyForDevelopment(sources, d) ==
    /\ d.dependency_type = "devDependency"
    /\ \A file \in sources :
         d.name \in file.quoted_imports /\ IsRead(file) => ~ IsProductionSource(file)

\* Whatever code imports, any other package is taken to matter.
Matters(reach) ==
    reach.runtime_scope # "development" /\ reach.reachability # "unlikely_reachable"

LEMMA OthersMatter ==
    ASSUME NEW sources, NEW d, ~ OnlyForDevelopment(sources, d)
    PROVE  Matters(AnalyzeReachability(sources, d))
<1>1. CASE \E file \in ImportHits(sources, d.name) : IsProductionSource(file)
  BY <1>1 DEF AnalyzeReachability, Matters
<1>2. CASE ~ \E file \in ImportHits(sources, d.name) : IsProductionSource(file)
  <2>1. d.dependency_type # "devDependency"
    BY <1>2 DEF OnlyForDevelopment, ImportHits
  <2> QED
    BY <1>2, <2>1 DEF AnalyzeReachability, Matters
<1> QED
  BY <1>1, <1>2

\* Scores and ranks keep their ranges, and what is severe, matters and can be
\* fixed is not deferred.
LEMMA ScoreTyped ==
    ASSUME NEW input \in RiskInputs
    PROVE  /\ ScoreRisk(input).rank \in 0 .. 4
           /\ ScoreRisk(input).score \in 0 .. 100
           /\ Severe(input.severity) /\ Matters(input) /\ input.fix_available
                => ScoreRisk(input).rank \in 0 .. 3
<1> DEFINE sum == WeightedScore(input)
           score == RiskScore(input)
           severity == SeverityScore[input.severity]
           scope == RuntimeScopeScore[input.runtime_scope]
           reach == ReachabilityScore[input.reachability]
           direct == IF input.is_direct THEN 100 ELSE 45
           fix == IF input.fix_available THEN 100 ELSE 15
<1>1. /\ input.severity \in Severities
      /\ input.known_exploited = FALSE
      /\ input.runtime_scope \in {"production", "development", "unknown"}
      /\ input.reachability \in {"possibly_reachable", "unlikely_reachable", "unknown"}
  BY DEF RiskInputs
<1>2. /\ severity \in 0 .. 100
      /\ Severe(input.severity) => severity >= 78
  BY <1>1, SeveritiesOrdered DEF SeverityScore, Severe
<1>3. /\ scope \in 0 .. 100
      /\ input.runtime_scope # "development" => scope >= 35
  BY <1>1 DEF RuntimeScopeScore
<1>4. /\ reach \in 0 .. 100
      /\ input.reachability # "unlikely_reachable" => reach >= 35
  BY <1>1 DEF ReachabilityScore
<1>5. direct \in 45 .. 100 /\ fix \in 15 .. 100 /\ (input.fix_available => fix = 100)
  OBVIOUS
<1>6. sum = 20 * severity + 15 * 20 + 15 * 0 + 15 * scope + 15 * reach
            + 10 * direct + 5 * fix + 5 * 55
  BY <1>1 DEF WeightedScore
<1> HIDE DEF severity, scope, reach, direct, fix, sum
<1>7. sum \in 0 .. 9000
  <2>1. /\ severity \in Nat /\ scope \in Nat /\ reach \in Nat /\ direct \in Nat /\ fix \in Nat
        /\ severity <= 100 /\ scope <= 100 /\ reach <= 100 /\ direct <= 100 /\ fix <= 100
    <3>1. \A x \in 0 .. 100 : x \in Nat /\ x <= 100
      OBVIOUS
    <3>2. direct \in 0 .. 100 /\ fix \in 0 .. 100
      BY <1>5
    <3>3. severity \in 0 .. 100 /\ scope \in 0 .. 100 /\ reach \in 0 .. 100
      BY <1>2, <1>3, <1>4
    <3> QED
      BY <3>1, <3>2, <3>3
  <2>2. sum \in Nat
    BY <1>6, <2>1
  <2>3. sum <= 9000
    BY <1>6, <2>1
  <2> QED
    BY <2>2, <2>3
<1>8. Severe(input.severity) /\ Matters(input) /\ input.fix_available => sum >= 4000
  BY <1>2, <1>3, <1>4, <1>5, <1>6 DEF Matters
<1>9. score = IF sum = 5550 THEN 55 ELSE (sum + 50) \div 100
  BY DEF RiskScore, sum
<1> HIDE DEF score
<1>10. score \in 0 .. 100 /\ (sum >= 4000 => score >= 40)
  <2>1. sum \in Nat /\ sum <= 9000 /\ sum + 50 \in Nat /\ sum + 50 <= 9050
    BY <1>7
  <2>2. \A x \in Nat : x <= 9050 => x \div 100 \in 0 .. 100
    OBVIOUS
  <2>3. \A x \in Nat : x >= 4050 => x \div 100 >= 40
    OBVIOUS
  <2>4. (sum + 50) \div 100 \in 0 .. 100
    BY <2>1, <2>2
  <2>5. sum >= 4000 => (sum + 50) \div 100 >= 40
    BY <2>1, <2>3
  <2> QED
    BY <1>9, <2>4, <2>5
<1>11. ScoreRisk(input).score = score /\ ScoreRisk(input).rank = AssignPriority(score, input)
  BY DEF ScoreRisk, score
<1>12. AssignPriority(score, input) \in 0 .. 4
  BY DEF AssignPriority, P0_RELEASE_BLOCKER, P1_FIX_THIS_SPRINT, NEEDS_HUMAN_REVIEW,
         P2_SCHEDULE_SOON, P3_MONITOR_DEFER
<1>13. ASSUME Severe(input.severity), Matters(input), input.fix_available
       PROVE  AssignPriority(score, input) \in 0 .. 3
  <2>1. score >= 40
    BY <1>8, <1>10, <1>13
  <2>2. ~ DevelopmentOnly(input)
    BY <1>13 DEF DevelopmentOnly, Matters
  <2> QED
    BY <2>1, <2>2 DEF AssignPriority, P0_RELEASE_BLOCKER, P1_FIX_THIS_SPRINT,
         NEEDS_HUMAN_REVIEW, P2_SCHEDULE_SOON, P3_MONITOR_DEFER
<1> QED
  BY <1>10, <1>11, <1>12, <1>13

-----------------------------------------------------------------------------
(* Merging tasks *)

TaskActions ==
    {"needs_human_review", "upgrade", "upgrade_parent_package", "override_or_resolution"}

LEMMA TaskFields ==
    ASSUME NEW t \in Tasks
    PROVE  /\ t.ecosystem \in {"PyPI", "npm"} /\ t.name \in Names /\ t.version \in Versions
           /\ t.dependency_type \in Range(DependencyGroups) \union {"transitive"}
           /\ t.is_direct \in BOOLEAN /\ t.parent \in Names \union {None}
           /\ t.canonical \in AdvisoryIds /\ t.source \in AdvisoryIds
           /\ t.aliases \in SUBSET AdvisoryIds /\ t.fixed \in SUBSET Versions
           /\ t.rank \in 0 .. 4 /\ t.score \in 0 .. 100
           /\ t.target \in Versions \union {None} /\ t.action \in TaskActions
  BY DEF Tasks, TaskActions

\* Whether a task stands for another: the same package, and at least as urgent.
Covers(t, b) == SamePackage(t, b) /\ t.rank <= b.rank /\ t.score >= b.score

\* The task that two are merged to stands for both.
LEMMA MergedTask ==
    ASSUME NEW t \in Tasks, NEW u \in Tasks, ShouldMergeTasks(t, u)
    PROVE  LET m == MergeTasks(t, u)
               w == HigherPriorityTask(t, u)
           IN /\ m \in Tasks
              /\ Covers(m, t) /\ Covers(m, u)
              /\ w \in {t, u}
              /\ m.rank = w.rank
              /\ m.fixed = t.fixed \union u.fixed
              /\ m.target = MergedTarget(t, u, w)
              /\ m.is_direct = (t.is_direct \/ u.is_direct)
              /\ m.parent = MergedParent(t, u, w)
<1> DEFINE w == HigherPriorityTask(t, u)
           parent == MergedParent(t, u, w)
           type == MergedType(t, u, w)
           score == IF t.score > u.score THEN t.score ELSE u.score
           target == MergedTarget(t, u, w)
           direct == t.is_direct \/ u.is_direct
           m == MergeTasks(t, u)
<1>1. w \in {t, u}
  BY DEF HigherPriorityTask
<1>2. w.rank <= t.rank /\ w.rank <= u.rank
  BY TaskNumbers DEF HigherPriorityTask, MoreUrgent
<1>3. w \in Tasks
  BY <1>1
<1>4. m = [w EXCEPT !.is_direct = direct, !.parent = parent, !.dependency_type = type,
                    !.aliases = t.aliases \union u.aliases,
                    !.fixed = t.fixed \union u.fixed, !.score = score, !.target = target]
  BY DEF MergeTasks
<1>5. parent \in Names \union {None}
  BY <1>3, TaskFields DEF MergedParent
<1>6. type \in Range(DependencyGroups) \union {"transitive"}
  BY <1>3, TaskFields, TypesOrdered DEF MergedType, Types
<1>7. target \in Versions \union {None}
  BY <1>3, TaskFields DEF MergedTarget
<1>8. score \in 0 .. 100 /\ score >= t.score /\ score >= u.score
  BY TaskNumbers
<1>9. direct \in BOOLEAN
  OBVIOUS
<1>10. /\ t.aliases \union u.aliases \in SUBSET AdvisoryIds
       /\ t.fixed \union u.fixed \in SUBSET Versions
  BY TaskFields
<1> HIDE DEF w, parent, type, score, target, direct, m
<1>11. m \in Tasks
  <2> DEFINE a == [w EXCEPT !.is_direct = direct, !.parent = parent, !.dependency_type = type]
             b == [a EXCEPT !.aliases = t.aliases \union u.aliases,
                            !.fixed = t.fixed \union u.fixed]
  <2>1. a \in Tasks
    BY <1>3, <1>5, <1>6, <1>9 DEF Tasks
  <2>2. b \in Tasks
    <3> HIDE DEF a
    <3> QED
      BY <2>1, <1>10 DEF Tasks
  <2>3. m = [b EXCEPT !.score = score, !.target = target]
    BY <1>4
  <2> HIDE DEF b
  <2> QED
    BY <1>7, <1>8, <2>2, <2>3 DEF Tasks
<1>12. /\ m.rank = w.rank /\ m.fixed = t.fixed \union u.fixed /\ m.score = score
       /\ m.target = target /\ m.is_direct = direct /\ m.parent = parent
       /\ m.ecosystem = w.ecosystem /\ m.name = w.name /\ m.version = w.version
  BY <1>3, <1>4 DEF Tasks
<1>13. Covers(m, t) /\ Covers(m, u)
  BY <1>1, <1>2, <1>8, <1>12 DEF Covers, SamePackage, ShouldMergeTasks
<1> QED
  BY <1>1, <1>11, <1>12, <1>13 DEF w, parent, target, direct, m

\* A set of tasks that merging does not leave.
TaskMergeClosed(G) ==
    /\ G \subseteq Tasks
    /\ \A t, u \in G : ShouldMergeTasks(t, u) => MergeTasks(t, u) \in G

Covered(deduped, b) == \E i \in DOMAIN deduped : Covers(deduped[i], b)

LEMMA CoversTransitive ==
    ASSUME NEW t \in Tasks, NEW u \in Tasks, NEW b \in Tasks, Covers(t, u), Covers(u, b)
    PROVE  Covers(t, b)
  BY TaskNumbers DEF Covers, SamePackage

\* A task that is added keeps what stands for a task.
LEMMA AddTaskKeeps ==
    ASSUME NEW G, TaskMergeClosed(G), NEW deduped \in Seq(G), NEW t \in G
    PROVE  /\ AddTask(deduped, t) \in Seq(G)
           /\ Covered(AddTask(deduped, t), t)
           /\ \A b \in Tasks : Covered(deduped, b) => Covered(AddTask(deduped, t), b)
<1> DEFINE matches == {i \in DOMAIN deduped : ShouldMergeTasks(deduped[i], t)}
           n == Len(deduped)
           r == AddTask(deduped, t)
<1>1. n \in Nat /\ DOMAIN deduped = 1 .. n /\ \A i \in 1 .. n : deduped[i] \in G
  BY LenProperties, ElementOfSeq
<1>2. t \in Tasks /\ \A i \in 1 .. n : deduped[i] \in Tasks
  BY <1>1 DEF TaskMergeClosed
<1>3. CASE matches = {}
  <2>1. r = Append(deduped, t)
    BY <1>3 DEF AddTask
  <2> HIDE DEF r
  <2>2. r \in Seq(G) /\ DOMAIN r = 1 .. n + 1
        /\ r[n + 1] = t /\ \A i \in 1 .. n : r[i] = deduped[i]
    BY <1>1, <2>1
  <2>3. (\A i \in 1 .. n : i \in DOMAIN r) /\ n + 1 \in DOMAIN r
    BY <1>1, <2>2
  <2>4. Covers(t, t)
    BY <1>2, TaskNumbers DEF Covers, SamePackage
  <2>5. Covered(r, t)
    BY <2>2, <2>3, <2>4 DEF Covered
  <2>6. \A b \in Tasks : Covered(deduped, b) => Covered(r, b)
    BY <1>1, <2>2, <2>3 DEF Covered
  <2> QED
    BY <2>2, <2>5, <2>6 DEF r
<1>4. CASE matches # {}
  <2> DEFINE first == Min(matches)
             m == MergeTasks(deduped[first], t)
  <2>1. first \in 1 .. n /\ ShouldMergeTasks(deduped[first], t)
    <3>1. matches \in SUBSET Nat /\ matches \subseteq 1 .. n
      BY <1>1
    <3>2. \A i \in matches : ShouldMergeTasks(deduped[i], t)
      OBVIOUS
    <3> HIDE DEF matches
    <3> QED
      BY <1>4, <3>1, <3>2, MinIs
  <2>2. r = [deduped EXCEPT ![first] = m]
    BY <1>4 DEF AddTask
  <2> HIDE DEF first, r, matches
  <2>3. m \in G /\ m \in Tasks
    BY <1>1, <2>1 DEF TaskMergeClosed
  <2>4. Covers(m, deduped[first]) /\ Covers(m, t)
    BY <1>2, <2>1, MergedTask
  <2> HIDE DEF m
  <2>5. r \in Seq(G) /\ DOMAIN r = 1 .. n /\ r[first] = m
        /\ \A i \in 1 .. n : i # first => r[i] = deduped[i]
    BY <1>1, <2>1, <2>2, <2>3
  <2>6. ASSUME NEW b \in Tasks, Covered(deduped, b)
        PROVE  Covered(r, b)
    <3>1. PICK i \in 1 .. n : Covers(deduped[i], b)
      BY <1>1, <2>6 DEF Covered
    <3>2. CASE i = first
      <4>1. Covers(m, b)
        BY <1>2, <2>3, <2>4, <3>1, <3>2, CoversTransitive
      <4> QED
        BY <2>1, <2>5, <4>1 DEF Covered
    <3>3. CASE i # first
      BY <2>5, <3>1, <3>3 DEF Covered
    <3> QED
      BY <3>2, <3>3
  <2>7. Covered(r, t)
    BY <2>1, <2>4, <2>5 DEF Covered
  <2> QED
    BY <2>5, <2>6, <2>7 DEF r
<1> QED
  BY <1>3, <1>4

\* The values a fold over a sequence of tasks goes through.
LEMMA TaskFold ==
    ASSUME NEW G, TaskMergeClosed(G), NEW q \in Seq(G)
    PROVE  \E m : /\ m[0] = <<>>
                  /\ \A k \in 1 .. Len(q) : m[k] = AddTask(m[k - 1], q[k])
                  /\ FoldLeft(AddTask, <<>>, q) = m[Len(q)]
<1> DEFINE n == Len(q)
           X == Seq(G)
           op == [p \in X \X G |-> AddTask(p[1], p[2])]
           Is(iter) == iter = [s \in SUBSET DOMAIN q |->
                                 IF s = {} THEN <<>>
                                 ELSE AddTask(iter[s \ {Max(s)}], q[Max(s)])]
           chosen == CHOOSE iter : Is(iter)
<1>1. n \in Nat /\ DOMAIN q = 1 .. n /\ q \in [1 .. n -> G]
  BY LenProperties
<1>2. op \in [X \X G -> X] /\ \A x \in X, y \in G : op[<<x, y>>] = AddTask(x, y)
  BY AddTaskKeeps
<1>3. <<>> \in X
  OBVIOUS
<1> HIDE DEF op, X, n, Is
<1>4. PICK iter \in [SUBSET (1 .. n) -> X] : FoldIter(iter, op, <<>>, n, q)
  BY <1>1, <1>2, <1>3, FoldExists
<1>5. ASSUME NEW s \in SUBSET (1 .. n)
      PROVE  iter[s] = IF s = {} THEN <<>> ELSE AddTask(iter[s \ {Max(s)}], q[Max(s)])
  <2>1. CASE s # {}
    <3>1. Max(s) \in s
      BY <1>1, <2>1, MaxIn
    <3>2. iter[s \ {Max(s)}] \in X /\ q[Max(s)] \in G
      BY <1>1, <1>4, <3>1
    <3> QED
      BY <1>2, <1>4, <2>1, <3>2 DEF FoldIter
  <2> QED
    BY <1>4, <2>1 DEF FoldIter
<1>6. Is(iter)
  BY <1>1, <1>4, <1>5 DEF Is
<1>7. FoldLeft(AddTask, <<>>, q) = chosen[DOMAIN q]
  BY DEF FoldLeft, MapThenFoldSet, Is
<1>8. Is(chosen)
  BY <1>6
<1> HIDE DEF chosen
<1> DEFINE m == [k \in 0 .. n |-> chosen[1 .. k]]
<1>9. \A s \in SUBSET (1 .. n) :
        chosen[s] = IF s = {} THEN <<>> ELSE AddTask(chosen[s \ {Max(s)}], q[Max(s)])
  BY <1>1, <1>8 DEF Is
<1>10. m[0] = <<>>
  <2>1. 1 .. 0 = {} /\ 0 \in 0 .. n
    BY <1>1
  <2>2. chosen[{}] = <<>>
    BY <1>9
  <2> QED
    BY <2>1, <2>2
<1>11. ASSUME NEW k \in 1 .. n
       PROVE  m[k] = AddTask(m[k - 1], q[k])
  <2>1. /\ 1 .. k \in SUBSET (1 .. n) /\ 1 .. k # {} /\ (1 .. k) \ {k} = 1 .. k - 1
        /\ k - 1 \in 0 .. n /\ k \in 0 .. n
    <3>1. k \in Nat /\ 1 <= k /\ k <= n
      BY <1>1
    <3>2. \A i \in 1 .. k : i \in 1 .. n
      BY <1>1, <3>1
    <3>3. (1 .. k) \ {k} = 1 .. k - 1
      BY <3>1
    <3>4. k \in 1 .. k /\ k - 1 \in 0 .. n /\ k \in 0 .. n
      BY <1>1, <3>1
    <3> QED
      BY <3>2, <3>3, <3>4
  <2>2. Max(1 .. k) = k
    <3>1. k \in Nat /\ 1 <= k
      BY <1>1
    <3> QED
      BY <3>1, MaxIs
  <2>3. chosen[1 .. k] = AddTask(chosen[1 .. k - 1], q[k])
    BY <1>9, <2>1, <2>2
  <2>4. m[k] = chosen[1 .. k] /\ m[k - 1] = chosen[1 .. k - 1]
    BY <2>1
  <2> QED
    BY <2>3, <2>4
<1>12. FoldLeft(AddTask, <<>>, q) = m[n]
  BY <1>1, <1>7
<1> HIDE DEF m
<1> QED
  BY <1>10, <1>11, <1>12 DEF n

\* Deduplication leaves no set that merging does not leave, and there is a task in
\* the result that stands for each.
LEMMA TaskDeduplicationKeeps ==
    ASSUME NEW G, TaskMergeClosed(G), NEW all \in Seq(G)
    PROVE  /\ DeduplicatedTasks(all) \in Seq(G)
           /\ \A i \in DOMAIN all : Covered(DeduplicatedTasks(all), all[i])
<1> DEFINE n == Len(all)
           sorted == DeduplicatedTasks(all)
<1>1. n \in Nat /\ DOMAIN all = 1 .. n /\ \A i \in 1 .. n : all[i] \in G
  BY LenProperties, ElementOfSeq
<1>2. PICK m : /\ m[0] = <<>>
               /\ \A k \in 1 .. n : m[k] = AddTask(m[k - 1], all[k])
               /\ FoldLeft(AddTask, <<>>, all) = m[n]
  BY TaskFold
<1> HIDE DEF n
<1> DEFINE Holds(k) == /\ m[k] \in Seq(G)
                       /\ \A i \in 1 .. k : Covered(m[k], all[i])
           T == {k \in Nat : k <= n => Holds(k)}
<1>3. 0 \in T
  <2>1. m[0] \in Seq(G)
    BY <1>2
  <2>2. Holds(0)
    BY <2>1
  <2> HIDE DEF Holds
  <2> QED
    BY <2>2
<1>4. ASSUME NEW k \in T
      PROVE  k + 1 \in T
  <2> SUFFICES ASSUME k \in Nat, k + 1 <= n
               PROVE  Holds(k + 1)
    OBVIOUS
  <2>1. Holds(k)
    BY <1>1
  <2>2. k + 1 \in 1 .. n /\ (k + 1) - 1 = k
    BY <1>1
  <2>3. m[k + 1] = AddTask(m[k], all[k + 1]) /\ all[k + 1] \in G
    BY <1>1, <1>2, <2>2
  <2>4. /\ m[k + 1] \in Seq(G)
        /\ \A b \in Tasks : Covered(m[k], b) => Covered(m[k + 1], b)
        /\ Covered(m[k + 1], all[k + 1])
    <3> DEFINE before == m[k]
               added == all[k + 1]
               after == m[k + 1]
    <3>1. before \in Seq(G) /\ added \in G /\ after = AddTask(before, added)
      BY <2>1, <2>3
    <3> HIDE DEF before, added, after
    <3>2. /\ after \in Seq(G)
          /\ \A b \in Tasks : Covered(before, b) => Covered(after, b)
          /\ Covered(after, added)
      BY <3>1, AddTaskKeeps
    <3> QED
      BY <3>2 DEF before, added, after
  <2>5. \A i \in 1 .. k + 1 : i = k + 1 \/ (i \in 1 .. k /\ i \in 1 .. n)
    <3>1. n \in Nat /\ k \in Nat /\ k + 1 <= n
      BY <1>1
    <3> QED
      BY <3>1
  <2>6. \A i \in 1 .. n : all[i] \in Tasks
    BY <1>1 DEF TaskMergeClosed
  <2> QED
    BY <2>1, <2>4, <2>5, <2>6
<1>5. T = Nat
  <2>1. T \in SUBSET Nat
    OBVIOUS
  <2> HIDE DEF T
  <2> QED
    BY <1>3, <1>4, <2>1, SetInduction
<1> HIDE DEF Holds
<1>6. Holds(n)
  <2>1. n \in T
    BY <1>1, <1>5
  <2> QED
    BY <1>1, <2>1
<1> DEFINE folded == m[n]
<1>7. folded \in Seq(G) /\ \A i \in 1 .. n : Covered(folded, all[i])
  BY <1>6 DEF Holds
<1>8. sorted = Sorted(folded, TaskBefore)
  BY <1>2 DEF DeduplicatedTasks
<1> HIDE DEF folded, sorted
<1>9. folded \in Seq(Tasks)
  BY <1>7, SeqMonotonic DEF TaskMergeClosed
<1>10. Keeps(sorted, Tasks, folded, DOMAIN folded)
  BY <1>8, <1>9, TasksSorted
<1>11. /\ sorted \in Seq(Tasks)
       /\ \A k \in DOMAIN sorted : \E i \in DOMAIN folded : sorted[k] = folded[i]
       /\ \A i \in DOMAIN folded : \E k \in DOMAIN sorted : sorted[k] = folded[i]
  BY <1>10 DEF Keeps
<1>12. \A i \in DOMAIN folded : folded[i] \in G
  BY <1>7, LenProperties, ElementOfSeq
<1>13. sorted \in Seq(G)
  <2>1. Len(sorted) \in Nat /\ DOMAIN sorted = 1 .. Len(sorted)
        /\ sorted \in [1 .. Len(sorted) -> Tasks]
    BY <1>11, LenProperties
  <2>2. \A k \in 1 .. Len(sorted) : sorted[k] \in G
    BY <1>11, <1>12, <2>1
  <2>3. sorted \in [1 .. Len(sorted) -> G]
    BY <2>1, <2>2
  <2> QED
    BY <2>1, <2>3
<1>14. \A i \in 1 .. n : Covered(sorted, all[i])
  BY <1>7, <1>11 DEF Covered
<1> QED
  BY <1>1, <1>13, <1>14 DEF sorted

-----------------------------------------------------------------------------
(* One dependency *)

\* The versions that what OSV knows of a package names as its fixes.
FixesIn(raw, t) == UNION {FixedVersions(advisory, t) : advisory \in Range(raw)}
FixesKnown(database, t) == FixesIn(Known(database, t), t)

\* What OSV knows is a sequence of advisories, which name finitely many fixes.
LEMMA KnownTyped ==
    ASSUME NEW database \in Databases, NEW t
    PROVE  /\ Known(database, t) \in Seq(Advisories)
           /\ IsFiniteSet(FixesKnown(database, t))
<1> DEFINE raw == Known(database, t)
           fixes == [advisory \in Range(raw) |-> FixedVersions(advisory, t)]
<1>1. CASE raw = <<>>
  <2>1. Range(raw) = {}
    BY <1>1 DEF Range
  <2>2. FixesKnown(database, t) = {}
    BY <2>1 DEF FixesKnown, FixesIn
  <2> QED
    BY <1>1, <2>2, FS_EmptySet
<1>2. CASE raw # <<>>
  <2>1. raw \in Range(database)
    BY <1>2 DEF Known, Range
  <2>2. /\ raw \in Seq(Advisories)
        /\ \A advisory \in Range(raw) : /\ IsFiniteSet(advisory.affected)
                                        /\ \A entry \in advisory.affected : IsFiniteSet(entry.fixed)
    BY <2>1, PipelineAssumption
  <2> HIDE DEF raw
  <2>3. IsFiniteSet(DOMAIN raw)
    <3>1. Len(raw) \in Nat /\ DOMAIN raw = 1 .. Len(raw)
      BY <2>2, LenProperties
    <3> QED
      BY <3>1, Counted
  <2>4. IsFiniteSet(Range(raw))
    BY <2>3, ImageFinite DEF Range
  <2>5. ASSUME NEW advisory \in Range(raw)
        PROVE  IsFiniteSet(FixedVersions(advisory, t))
    <3> DEFINE entries == MatchingEntries(advisory, t)
               named == [entry \in entries |-> entry.fixed]
               sets == {named[entry] : entry \in entries}
    <3>1. entries \in SUBSET advisory.affected
      BY DEF MatchingEntries
    <3>2. IsFiniteSet(entries)
      BY <2>2, <3>1, FS_Subset
    <3>3. \A s \in sets : IsFiniteSet(s)
      BY <2>2, <3>1
    <3>4. FixedVersions(advisory, t) = UNION sets
      BY DEF FixedVersions
    <3> HIDE DEF entries
    <3>5. IsFiniteSet(sets)
      <4> HIDE DEF named
      <4> QED
        BY <3>2, ImageFinite
    <3> HIDE DEF sets
    <3> QED
      BY <3>3, <3>4, <3>5, FS_UNION
  <2> DEFINE sets == {fixes[advisory] : advisory \in Range(raw)}
  <2>6. \A s \in sets : IsFiniteSet(s)
    BY <2>5
  <2>7. FixesKnown(database, t) = UNION sets
    BY DEF FixesKnown, FixesIn, raw
  <2>8. IsFiniteSet(sets)
    <3> HIDE DEF fixes
    <3> QED
      BY <2>4, ImageFinite
  <2> HIDE DEF sets
  <2>9. IsFiniteSet(FixesKnown(database, t))
    BY <2>6, <2>7, <2>8, FS_UNION
  <2> QED
    BY <2>2, <2>9 DEF raw
<1> QED
  BY <1>1, <1>2

\* The advisories that are about a dependency, and the vulnerabilities they make.
Matching(raw, d) == AtPlaces(raw, {i \in DOMAIN raw : MatchesPackage(raw[i], d)})
Found(raw, d) ==
    LET matching == Matching(raw, d)
    IN DeduplicatedVulnerabilities([i \in DOMAIN matching |-> Normalized(matching[i], d)])

\* The vulnerabilities of a dependency have only fixes that advisories about it
\* name, and one is severe if one of the advisories is.
LEMMA FoundTyped ==
    ASSUME NEW raw \in Seq(Advisories), NEW d \in Dependencies
    PROVE  /\ Len(Matching(raw, d)) \in Nat /\ Len(Matching(raw, d)) <= Len(raw)
           /\ Found(raw, d) \in Seq(VulnerabilitiesOf(d, FixesIn(raw, d)))
           /\ \A advisory \in Range(raw) :
                MatchesPackage(advisory, d) /\ Severe(InferSeverity(advisory))
                  => SomeSevere(Found(raw, d))
<1> DEFINE places == {i \in DOMAIN raw : MatchesPackage(raw[i], d)}
           matching == Matching(raw, d)
           normalized == [i \in DOMAIN matching |-> Normalized(matching[i], d)]
           G == VulnerabilitiesOf(d, FixesIn(raw, d))
<1>1. Keeps(matching, Advisories, raw, places)
  <2>1. places \in SUBSET DOMAIN raw
    OBVIOUS
  <2>2. matching = AtPlaces(raw, places)
    BY DEF Matching
  <2> HIDE DEF places, matching
  <2> QED
    BY <2>1, <2>2, AtPlacesKeeps
<1>2. Found(raw, d) = DeduplicatedVulnerabilities(normalized)
  BY DEF Found
<1> HIDE DEF matching
<1>3. /\ matching \in Seq(Advisories) /\ Len(matching) <= Len(raw)
      /\ \A k \in DOMAIN matching : \E i \in places : matching[k] = raw[i]
      /\ \A i \in places : \E k \in DOMAIN matching : matching[k] = raw[i]
  BY <1>1 DEF Keeps
<1>4. /\ Len(matching) \in Nat /\ DOMAIN matching = 1 .. Len(matching)
      /\ \A k \in DOMAIN matching : matching[k] \in Advisories
  BY <1>3, LenProperties, ElementOfSeq
<1>5. ASSUME NEW k \in DOMAIN matching
      PROVE  /\ Normalized(matching[k], d) \in G
             /\ Normalized(matching[k], d).severity = InferSeverity(matching[k])
  <2>1. matching[k] \in Range(raw)
    BY <1>3 DEF Range
  <2>2. FixedVersions(matching[k], d) \subseteq FixesIn(raw, d)
    BY <2>1 DEF FixesIn
  <2> QED
    BY <1>4, <2>2, NormalizedTyped DEF VulnerabilitiesOf
<1>6. normalized \in Seq(G)
  <2> HIDE DEF G
  <2>1. normalized \in [1 .. Len(matching) -> G]
    BY <1>4, <1>5
  <2> QED
    BY <1>4, <2>1
<1>7. MergeClosed(G)
  BY ClosedSets
<1>8. ASSUME NEW advisory \in Range(raw), MatchesPackage(advisory, d),
             Severe(InferSeverity(advisory))
      PROVE  SomeSevere(normalized)
  <2>1. PICK i \in places : raw[i] = advisory
    BY <1>8 DEF Range
  <2>2. PICK k \in DOMAIN matching : matching[k] = advisory
    BY <1>3, <2>1
  <2>3. k \in DOMAIN normalized /\ Severe(normalized[k].severity)
    BY <1>5, <1>8, <2>2
  <2> QED
    BY <2>3 DEF SomeSevere
<1> HIDE DEF normalized, G
<1>9. /\ DeduplicatedVulnerabilities(normalized) \in Seq(G)
      /\ SomeSevere(normalized) => SomeSevere(DeduplicatedVulnerabilities(normalized))
  BY <1>6, <1>7, DeduplicationKeeps
<1> QED
  BY <1>2, <1>3, <1>4, <1>8, <1>9 DEF matching, G

\* The gate finds nothing wrong with a task but a target that it cannot read.
PassesGate(t) ==
    TaskQualityFindings(t) \subseteq
      {code \in {"invalid_patch_target_version"} : t.target \in OddlyWritten}

\* The tasks a scan may come to about a set of dependencies: the gate finds
\* nothing else wrong with them, their fixes are those of advisories OSV has on the
\* package, a target is among these, and they name a dependency of the set.
FoundTasks(database, dependencies) ==
    {t \in Tasks :
       /\ PassesGate(t)
       /\ t.fixed \subseteq FixesKnown(database, t)
       /\ t.target # None => t.target \in t.fixed
       /\ \E d \in dependencies :
            SamePackage(t, d) /\ d.parent = t.parent /\ d.is_direct = t.is_direct}

\* What the gate asks of a task.
LEMMA QualityIs ==
    ASSUME NEW t
    PROVE  PassesGate(t) <=>
             /\ ~ IsDowngrade(t.version, t.target)
             /\ t.rank = NEEDS_HUMAN_REVIEW \/ t.target # None
  BY DEF PassesGate, TaskQualityFindings, NonReviewFindings

\* Merging two such tasks gives another: the target may be the other's, but it
\* is for the same version, and where one of the paths is direct so is the task.
LEMMA FoundTasksClosed ==
    ASSUME NEW database, NEW dependencies \in SUBSET Listed
    PROVE  TaskMergeClosed(FoundTasks(database, dependencies))
<1> DEFINE G == FoundTasks(database, dependencies)
<1>1. ASSUME NEW t \in G, NEW u \in G, ShouldMergeTasks(t, u)
      PROVE  MergeTasks(t, u) \in G
  <2> DEFINE m == MergeTasks(t, u)
             w == HigherPriorityTask(t, u)
  <2>1. t \in Tasks /\ u \in Tasks
    BY DEF FoundTasks
  <2>2. /\ m \in Tasks
        /\ Covers(m, t) /\ Covers(m, u)
        /\ w \in {t, u}
        /\ m.rank = w.rank
        /\ m.fixed = t.fixed \union u.fixed
        /\ m.target = MergedTarget(t, u, w)
        /\ m.is_direct = (t.is_direct \/ u.is_direct)
        /\ m.parent = MergedParent(t, u, w)
    BY <1>1, <2>1, MergedTask
  <2> HIDE DEF m, w
  <2>3. \A v \in {t, u} :
          /\ ~ IsDowngrade(v.version, v.target)
          /\ v.rank = NEEDS_HUMAN_REVIEW \/ v.target # None
          /\ v.fixed \subseteq FixesKnown(database, v)
          /\ v.target # None => v.target \in v.fixed
    BY QualityIs DEF FoundTasks
  <2>4. \A v \in {t, u} : m.ecosystem = v.ecosystem /\ m.name = v.name /\ m.version = v.version
    BY <2>2 DEF Covers, SamePackage
  <2>5. m.target = None \/ \E v \in {t, u} : m.target = v.target
    BY <2>2 DEF MergedTarget
  <2>6. ~ IsDowngrade(m.version, m.target)
    <3>1. CASE m.target = None
      BY <3>1 DEF IsDowngrade
    <3>2. CASE m.target # None
      BY <2>3, <2>4, <2>5, <3>2
    <3> QED
      BY <3>1, <3>2
  <2>7. m.rank = NEEDS_HUMAN_REVIEW \/ m.target # None
    BY <2>2, <2>3 DEF MergedTarget
  <2>8. m.target # None => m.target \in m.fixed
    BY <2>2, <2>3, <2>5
  <2>9. m.fixed \subseteq FixesKnown(database, m)
    <3>1. \A v \in {t, u} : FixesKnown(database, m) = FixesKnown(database, v)
      BY <2>4 DEF FixesKnown, FixesIn, FixedVersions, MatchingEntries, Known
    <3> QED
      BY <2>2, <2>3, <3>1
  <2>10. \E d \in dependencies :
           SamePackage(m, d) /\ d.parent = m.parent /\ d.is_direct = m.is_direct
    <3>1. PICK v \in {t, u} : m.parent = (IF m.is_direct THEN None ELSE v.parent)
                              /\ m.is_direct = v.is_direct
      <4>1. CASE t.is_direct
        BY <2>1, <2>2, <4>1, TaskFields DEF MergedParent
      <4>2. CASE ~ t.is_direct
        BY <2>1, <2>2, <4>2, TaskFields DEF MergedParent
      <4> QED
        BY <4>1, <4>2
    <3>2. PICK d \in dependencies :
            SamePackage(v, d) /\ d.parent = v.parent /\ d.is_direct = v.is_direct
      BY <3>1 DEF FoundTasks
    <3>3. d.is_direct => d.parent = None
      BY DEF Listed
    <3>4. SamePackage(m, d)
      BY <2>4, <3>2 DEF SamePackage
    <3> QED
      BY <3>1, <3>2, <3>3, <3>4
  <2> QED
    BY <2>2, <2>6, <2>7, <2>8, <2>9, <2>10, QualityIs DEF m, FoundTasks
<1>2. G \subseteq Tasks
  BY DEF FoundTasks
<1> QED
  BY <1>1, <1>2 DEF TaskMergeClosed

\* What there is to score about a vulnerability of a dependency.
LEMMA RiskInputTyped ==
    ASSUME NEW d \in Dependencies, NEW v \in Vulnerabilities, NEW sources, NEW plan
    PROVE  RiskInput(d, v, AnalyzeReachability(sources, d), plan) \in RiskInputs
<1>1. v.severity \in Severities
  BY DEF Vulnerabilities
<1>2. d.dependency_type \in AllTypes /\ d.is_direct \in BOOLEAN
  BY TypesOrdered DEF Dependencies, AllTypes
<1> QED
  BY <1>1, <1>2, ReachTyped DEF RiskInput, RiskInputs

\* The task of one vulnerability of a dependency.
LEMMA TaskOutputFound ==
    ASSUME NEW database \in Databases, NEW dependencies \in SUBSET Listed,
           NEW d \in dependencies, d.version # None, NEW sources,
           NEW v \in VulnerabilitiesOf(d, FixesKnown(database, d))
    PROVE  LET plan == PatchPlan(d, v)
               reach == AnalyzeReachability(sources, d)
               t == TaskOutput(d, v, ScoreRisk(RiskInput(d, v, reach, plan)), plan)
           IN /\ t \in FoundTasks(database, dependencies)
              /\ SamePackage(t, d)
              /\ Severe(v.severity) /\ Matters(reach) => t.rank \in 0 .. 3
<1> DEFINE plan == PatchPlan(d, v)
           reach == AnalyzeReachability(sources, d)
           input == RiskInput(d, v, reach, plan)
           risk == ScoreRisk(input)
           t == TaskOutput(d, v, risk, plan)
<1>1. d \in Listed /\ d \in Dependencies /\ d.version \in Versions
  <2>1. d \in Listed /\ d \in Dependencies
    BY DEF Listed
  <2> QED
    BY <2>1 DEF Dependencies
<1>2. /\ v \in Vulnerabilities /\ v.fixed \in SUBSET Versions
      /\ v.fixed \subseteq FixesKnown(database, d)
  BY DEF VulnerabilitiesOf, Vulnerabilities
<1>3. IsFiniteSet(v.fixed)
  BY <1>2, KnownTyped, FS_Subset
<1>4. /\ plan.target \in Versions \union {None}
      /\ plan.action \in TaskActions
      /\ plan.target # None => plan.target \in v.fixed
      /\ ~ IsDowngrade(d.version, plan.target)
  BY <1>1, <1>2, <1>3, PlanSound DEF TaskActions
<1>5. input \in RiskInputs
  BY <1>1, <1>2, RiskInputTyped
<1>6. /\ input.severity = v.severity /\ input.runtime_scope = reach.runtime_scope
      /\ input.reachability = reach.reachability
      /\ plan.target # None => input.fix_available
  BY DEF RiskInput
<1> HIDE DEF plan, reach, input
<1>7. /\ risk.rank \in 0 .. 4 /\ risk.score \in 0 .. 100
      /\ Severe(input.severity) /\ Matters(input) /\ input.fix_available
           => risk.rank \in 0 .. 3
  BY <1>5, ScoreTyped
<1>8. /\ Escalated(risk, plan).score = risk.score
      /\ Escalated(risk, plan).rank =
           IF plan.target # None THEN risk.rank ELSE NEEDS_HUMAN_REVIEW
  BY DEF Escalated, ScoreRisk
<1> DEFINE rank == Escalated(risk, plan).rank
           score == Escalated(risk, plan).score
<1>9. rank \in 0 .. 4 /\ score \in 0 .. 100
  BY <1>7, <1>8 DEF NEEDS_HUMAN_REVIEW
<1>10. Severe(v.severity) /\ Matters(reach) => rank \in 0 .. 3
  <2>1. CASE plan.target = None
    BY <1>8, <2>1 DEF NEEDS_HUMAN_REVIEW
  <2>2. CASE plan.target # None
    <3>1. input.fix_available
      BY <1>6, <2>2
    <3>2. Severe(v.severity) /\ Matters(reach) => Severe(input.severity) /\ Matters(input)
      BY <1>6 DEF Matters
    <3> QED
      BY <1>7, <1>8, <2>2, <3>1, <3>2
  <2> QED
    BY <2>1, <2>2
<1>11. rank = NEEDS_HUMAN_REVIEW \/ plan.target # None
  BY <1>8
<1>12. t = [ecosystem |-> d.ecosystem, name |-> d.name, version |-> d.version,
            dependency_type |-> d.dependency_type, is_direct |-> d.is_direct,
            parent |-> d.parent, canonical |-> v.canonical, source |-> v.source,
            aliases |-> v.aliases, fixed |-> v.fixed, rank |-> rank, score |-> score,
            target |-> plan.target, action |-> plan.action]
  BY DEF TaskOutput
<1> HIDE DEF rank, score, t
<1>13. t \in Tasks
  <2>1. /\ d.ecosystem \in {"PyPI", "npm"} /\ d.name \in Names
        /\ d.dependency_type \in Range(DependencyGroups) \union {"transitive"}
        /\ d.is_direct \in BOOLEAN /\ d.parent \in Names \union {None}
    BY <1>1 DEF Dependencies
  <2>2. /\ v.canonical \in AdvisoryIds /\ v.source \in AdvisoryIds
        /\ v.aliases \in SUBSET AdvisoryIds
    BY <1>2 DEF Vulnerabilities
  <2> QED
    BY <1>1, <1>2, <1>4, <1>9, <1>12, <2>1, <2>2 DEF Tasks, TaskActions
<1>14. SamePackage(t, d)
  BY <1>12 DEF SamePackage
<1>15. PassesGate(t)
  BY <1>4, <1>11, <1>12, QualityIs
<1>16. t.fixed \subseteq FixesKnown(database, t)
  <2>1. FixesKnown(database, t) = FixesKnown(database, d)
    BY <1>12 DEF FixesKnown, FixesIn, FixedVersions, MatchingEntries, Known
  <2> QED
    BY <1>2, <1>12, <2>1
<1>17. t.target # None => t.target \in t.fixed
  BY <1>4, <1>12
<1>18. d.parent = t.parent /\ d.is_direct = t.is_direct /\ t.rank = rank
  BY <1>12
<1>19. t \in FoundTasks(database, dependencies)
  BY <1>13, <1>14, <1>15, <1>16, <1>17, <1>18 DEF FoundTasks
<1> QED
  BY <1>10, <1>14, <1>18, <1>19 DEF t, risk, input, reach, plan

\* The tasks of a dependency: what is severe and matters is not deferred.
LEMMA TasksOfFound ==
    ASSUME NEW database \in Databases, NEW dependencies \in SUBSET Listed,
           NEW d \in dependencies, d.version # None, NEW sources,
           NEW deduped \in Seq(VulnerabilitiesOf(d, FixesKnown(database, d)))
    PROVE  LET outputs == TasksOf(d, deduped, sources)
               reach == AnalyzeReachability(sources, d)
           IN /\ outputs \in Seq(FoundTasks(database, dependencies))
              /\ SomeSevere(deduped) /\ Matters(reach) =>
                   \E i \in DOMAIN outputs :
                     SamePackage(outputs[i], d) /\ outputs[i].rank \in 0 .. 3
<1> DEFINE reach == AnalyzeReachability(sources, d)
           Task(v) == LET plan == PatchPlan(d, v)
                      IN TaskOutput(d, v, ScoreRisk(RiskInput(d, v, reach, plan)), plan)
           outputs == TasksOf(d, deduped, sources)
           G == FoundTasks(database, dependencies)
<1>1. outputs = [i \in DOMAIN deduped |-> Task(deduped[i])]
  BY DEF TasksOf
<1>2. /\ Len(deduped) \in Nat /\ DOMAIN deduped = 1 .. Len(deduped)
      /\ \A i \in DOMAIN deduped : deduped[i] \in VulnerabilitiesOf(d, FixesKnown(database, d))
  BY LenProperties, ElementOfSeq
<1>3. ASSUME NEW i \in DOMAIN deduped
      PROVE  /\ Task(deduped[i]) \in G
             /\ SamePackage(Task(deduped[i]), d)
             /\ Severe(deduped[i].severity) /\ Matters(reach) => Task(deduped[i]).rank \in 0 .. 3
  <2> DEFINE v == deduped[i]
  <2>1. v \in VulnerabilitiesOf(d, FixesKnown(database, d))
    BY <1>2
  <2> HIDE DEF v
  <2>2. /\ Task(v) \in G
        /\ SamePackage(Task(v), d)
        /\ Severe(v.severity) /\ Matters(reach) => Task(v).rank \in 0 .. 3
    BY <2>1, TaskOutputFound
  <2> QED
    BY <2>2 DEF v
<1> HIDE DEF Task, outputs, G, reach
<1>4. outputs \in Seq(G)
  <2>1. outputs \in [1 .. Len(deduped) -> G]
    BY <1>1, <1>2, <1>3
  <2> QED
    BY <1>2, <2>1
<1>5. ASSUME SomeSevere(deduped), Matters(reach)
      PROVE  \E i \in DOMAIN outputs : SamePackage(outputs[i], d) /\ outputs[i].rank \in 0 .. 3
  <2>1. PICK i \in DOMAIN deduped : Severe(deduped[i].severity)
    BY <1>5 DEF SomeSevere
  <2>2. i \in DOMAIN outputs /\ outputs[i] = Task(deduped[i])
    BY <1>1
  <2> QED
    BY <1>3, <1>5, <2>1, <2>2
<1> QED
  BY <1>4, <1>5 DEF outputs, G, reach
=============================================================================
