--------------------------- MODULE InductionFacts ---------------------------
(***************************************************************************)
(* Induction over the natural numbers for a set instead of a predicate,    *)
(* and functions defined by recursion on them.                             *)
(***************************************************************************)
EXTENDS Integers, FiniteSetTheorems, TLAPS

\* A set of numbers has a least element: intervals are ordered by inclusion.
LEMMA LeastNatural ==
  ASSUME NEW T \in SUBSET Nat, T # {}
  PROVE  \E x \in T : \A y \in T : x <= y
<1> DEFINE I == {0..n : n \in T}
<1>1. I \subseteq FiniteSubsetsOf(Nat)
  <2>1. ASSUME NEW n \in T PROVE 0..n \in FiniteSubsetsOf(Nat)
    <3>1. 0..n \in SUBSET Nat /\ IsFiniteSet(0..n)
      BY FS_Interval
    <3>2. QED
      BY <3>1 DEF FiniteSubsetsOf
  <2>2. QED
    BY <2>1
<1>2. I # {}
  OBVIOUS
<1>3. IsWellFoundedOn(StrictSubsetOrdering(Nat), FiniteSubsetsOf(Nat))
  BY FS_StrictSubsetOrderingWellFounded
<1>4. PICK X \in I : \A Y \in I : <<Y, X>> \notin StrictSubsetOrdering(Nat)
  <2> HIDE DEF I
  <2>1. QED
    BY <1>1, <1>2, <1>3, WFMin
<1>5. PICK x \in T : X = 0..x
  OBVIOUS
<1>6. ASSUME NEW y \in T PROVE x <= y
  <2>1. <<0..y, 0..x>> \notin StrictSubsetOrdering(Nat)
    BY <1>4, <1>5
  <2>2. 0..y \in SUBSET Nat /\ 0..x \in SUBSET Nat /\ y \in Nat /\ x \in Nat
    OBVIOUS
  <2>3. SUFFICES ASSUME y < x PROVE FALSE
    BY <2>2
  <2>4. 0..y \subseteq 0..x /\ x \in 0..x /\ x \notin 0..y
    BY <2>2, <2>3
  <2>5. <<0..y, 0..x>> \in StrictSubsetOrdering(Nat)
    BY <2>2, <2>4, Zenon DEF StrictSubsetOrdering
  <2>6. QED
    BY <2>1, <2>5
<1>7. QED
  BY <1>6

\* Induction: a set that has 0 and every successor of a member has every number.
LEMMA SetInduction ==
  ASSUME NEW S, 0 \in S, \A n \in Nat : n \in S => n + 1 \in S
  PROVE  \A n \in Nat : n \in S
<1> DEFINE T == {n \in Nat : n \notin S}
<1>1. SUFFICES ASSUME T # {} PROVE FALSE
  OBVIOUS
<1>2. PICK x \in T : \A y \in T : x <= y
  BY <1>1, LeastNatural
<1>3. x \in Nat /\ x # 0
  OBVIOUS
<1>4. x - 1 \in Nat /\ x - 1 \notin T
  BY <1>2, <1>3
<1>5. x - 1 \in S /\ (x - 1) + 1 = x
  BY <1>3, <1>4
<1>6. QED
  BY <1>4, <1>5

\* A function that sums the sizes of v's elements, defined by recursion, is the
\* one its equation describes: there is just one such sum for each prefix.
LEMMA SumDefined ==
  ASSUME NEW v, NEW f,
         f = CHOOSE g : g = [i \in Nat |-> IF i = 0 THEN 0 ELSE g[i - 1] + v[i].size]
  PROVE  /\ f[0] = 0
         /\ \A i \in Nat : f[i + 1] = f[i] + v[i + 1].size
<1> DEFINE D(x, i) == x + v[i].size
           Sol(g, n) == /\ g = [i \in 0..n |-> g[i]]
                        /\ g[0] = 0
                        /\ \A i \in 0..n - 1 : g[i + 1] = D(g[i], i + 1)
<1> HIDE DEF D
<1>1. \A n \in Nat : \E g : Sol(g, n)
  <2> DEFINE S == {n \in Nat : \E g : Sol(g, n)}
  <2>1. 0 \in S
    <3>1. Sol([i \in 0..0 |-> 0], 0)
      OBVIOUS
    <3>2. QED
      BY <3>1
  <2>2. ASSUME NEW n \in Nat, n \in S PROVE n + 1 \in S
    <3>1. PICK g : Sol(g, n)
      BY <2>2
    <3> DEFINE h == [i \in 0..n + 1 |-> IF i = n + 1 THEN D(g[n], n + 1) ELSE g[i]]
    <3>2. h[0] = 0 /\ h = [i \in 0..n + 1 |-> h[i]]
      BY <3>1
    <3>3. ASSUME NEW i \in 0..n PROVE h[i + 1] = D(h[i], i + 1)
      <4>1. h[i] = g[i]
        OBVIOUS
      <4>2. CASE i = n
        <5>1. h[n + 1] = D(g[n], n + 1)
          OBVIOUS
        <5>2. QED
          BY <4>1, <4>2, <5>1
      <4>3. CASE i \in 0..n - 1
        <5>1. h[i + 1] = g[i + 1]
          BY <4>3
        <5>2. g[i + 1] = D(g[i], i + 1)
          BY <3>1, <4>3
        <5>3. QED
          BY <4>1, <5>1, <5>2
      <4>4. QED
        BY <4>2, <4>3
    <3> HIDE DEF h
    <3>4. (n + 1) - 1 = n
      OBVIOUS
    <3>5. Sol(h, n + 1)
      BY <3>2, <3>3, <3>4
    <3>6. QED
      <4>1. \E k : Sol(k, n + 1)
        BY <3>5
      <4> HIDE DEF Sol
      <4>2. QED
        BY <4>1
  <2> HIDE DEF S
  <2>3. \A n \in Nat : n \in S
    BY <2>1, <2>2, SetInduction
  <2>4. QED
    BY <2>3 DEF S
<1>2. ASSUME NEW g, NEW m \in Nat, Sol(g, m), NEW h, NEW n \in Nat, Sol(h, n)
      PROVE  \A i \in Nat : i <= m /\ i <= n => g[i] = h[i]
  <2> DEFINE S == {i \in Nat : i <= m /\ i <= n => g[i] = h[i]}
  <2>1. 0 \in S
    BY <1>2
  <2>2. ASSUME NEW i \in Nat, i \in S PROVE i + 1 \in S
    <3>1. SUFFICES ASSUME i + 1 <= m, i + 1 <= n PROVE g[i + 1] = h[i + 1]
      OBVIOUS
    <3>2. g[i] = h[i] /\ i \in 0..m - 1 /\ i \in 0..n - 1
      BY <2>2, <3>1
    <3>3. QED
      BY <1>2, <3>2
  <2> HIDE DEF S
  <2>3. \A i \in Nat : i \in S
    BY <2>1, <2>2, SetInduction
  <2>4. QED
    BY <2>3 DEF S
<1> DEFINE G(n) == CHOOSE g : Sol(g, n)
           F == [n \in Nat |-> G(n)[n]]
<1>3. \A n \in Nat : Sol(G(n), n)
  <2> HIDE DEF Sol
  <2>1. QED
    BY <1>1
<1>4. \A n \in Nat : G(n + 1)[n] = G(n)[n]
  <2> TAKE n \in Nat
  <2> HIDE DEF Sol, G
  <2>1. Sol(G(n), n) /\ Sol(G(n + 1), n + 1) /\ n + 1 \in Nat
    BY <1>3
  <2>2. QED
    BY <1>2, <2>1
<1> HIDE DEF G
<1>5. /\ F[0] = 0
      /\ \A n \in Nat : F[n + 1] = D(F[n], n + 1)
  <2>1. G(0)[0] = 0
    BY <1>3
  <2>2. ASSUME NEW n \in Nat PROVE G(n + 1)[n + 1] = D(G(n + 1)[n], n + 1)
    <3>1. n \in 0..(n + 1) - 1 /\ n + 1 \in Nat
      OBVIOUS
    <3>2. Sol(G(n + 1), n + 1)
      <4> HIDE DEF Sol
      <4>1. QED
        BY <1>3, <3>1
    <3>3. QED
      BY <3>1, <3>2
  <2>3. QED
    BY <1>4, <2>1, <2>2
<1> DEFINE Eq(g) == g = [i \in Nat |-> IF i = 0 THEN 0 ELSE D(g[i - 1], i)]
<1>6. Eq(F)
  <2>1. ASSUME NEW i \in Nat PROVE F[i] = IF i = 0 THEN 0 ELSE D(F[i - 1], i)
    <3>1. CASE i = 0
      BY <1>5, <3>1
    <3>2. CASE i # 0
      <4>1. i - 1 \in Nat /\ (i - 1) + 1 = i
        BY <3>2
      <4>2. F[(i - 1) + 1] = D(F[i - 1], (i - 1) + 1)
        BY <1>5, <4>1
      <4> HIDE DEF F
      <4>3. QED
        BY <3>2, <4>1, <4>2
    <3>3. QED
      BY <3>1, <3>2
  <2>2. F = [i \in Nat |-> F[i]]
    OBVIOUS
  <2> HIDE DEF F
  <2>3. QED
    BY <2>1, <2>2
<1> HIDE DEF F
<1>7. f = CHOOSE g : Eq(g)
  BY DEF D
<1>8. Eq(f)
  <2> HIDE DEF Eq
  <2>1. QED
    BY <1>6, <1>7
<1>9. f[0] = 0 /\ \A i \in Nat : f[i + 1] = D(f[i], i + 1)
  <2>1. \A i \in Nat : f[i] = IF i = 0 THEN 0 ELSE D(f[i - 1], i)
    BY <1>8
  <2>2. ASSUME NEW i \in Nat PROVE f[i + 1] = D(f[i], i + 1)
    <3>1. i + 1 \in Nat /\ i + 1 # 0 /\ (i + 1) - 1 = i
      OBVIOUS
    <3>2. QED
      BY <2>1, <3>1
  <2>3. QED
    BY <2>1, <2>2
<1>10. QED
  BY <1>9 DEF D

\* The members of a set of numbers can be listed in order.
LEMMA ListedInOrder ==
  ASSUME NEW n \in Nat, NEW M \in SUBSET (1..n)
  PROVE  /\ IsFiniteSet(M) /\ Cardinality(M) \in Nat
         /\ \E s \in [1..Cardinality(M) -> M] :
              \A i, j \in DOMAIN s : i < j => s[i] < s[j]
<1> DEFINE Up(k) == M \cap (1..k)
           Listed(T) == \E s \in [1..Cardinality(T) -> T] :
                          \A i, j \in DOMAIN s : i < j => s[i] < s[j]
           K == {k \in Nat : Listed(Up(k))}
<1> HIDE DEF Listed
<1>1. \A k \in Nat : IsFiniteSet(Up(k)) /\ Cardinality(Up(k)) \in Nat
  <2>1. ASSUME NEW k \in Nat PROVE IsFiniteSet(1..k)
    BY FS_Interval
  <2>2. ASSUME NEW k \in Nat PROVE Up(k) \in SUBSET (1..k)
    OBVIOUS
  <2> HIDE DEF Up
  <2>3. QED
    BY <2>1, <2>2, FS_Subset, FS_CardinalityType
<1>2. 0 \in K
  <2>1. Up(0) = {} /\ Cardinality({}) = 0
    BY FS_EmptySet
  <2>2. Listed({})
    <3>1. <<>> \in [1..0 -> {}] /\ DOMAIN <<>> = {}
      OBVIOUS
    <3>2. QED
      BY <2>1, <3>1 DEF Listed
  <2>3. QED
    BY <2>1, <2>2
<1>3. ASSUME NEW k \in Nat, k \in K PROVE k + 1 \in K
  <2>1. CASE k + 1 \notin M
    <3>1. Up(k + 1) = Up(k)
      BY <2>1
    <3> HIDE DEF Up
    <3>2. QED
      BY <1>3, <3>1
  <2>2. CASE k + 1 \in M
    <3>1. Up(k + 1) = Up(k) \cup {k + 1} /\ k + 1 \notin Up(k)
      BY <2>2
    <3> DEFINE c == Cardinality(Up(k))
    <3>2. c \in Nat /\ Cardinality(Up(k + 1)) = c + 1
      <4> HIDE DEF Up
      <4>1. QED
        BY <1>1, <3>1, FS_AddElement
    <3>3. PICK s \in [1..c -> Up(k)] : \A i, j \in DOMAIN s : i < j => s[i] < s[j]
      <4>1. Listed(Up(k))
        BY <1>3
      <4> HIDE DEF Up
      <4>2. QED
        BY <4>1 DEF Listed
    <3> DEFINE r == [i \in 1..c + 1 |-> IF i = c + 1 THEN k + 1 ELSE s[i]]
    <3>4. \A x \in Up(k) : x \in Nat /\ x < k + 1
      OBVIOUS
    <3> HIDE DEF Up, c
    <3>5. r \in [1..c + 1 -> Up(k + 1)]
      BY <3>1, <3>2
    <3>6. ASSUME NEW i \in 1..c + 1, NEW j \in 1..c + 1, i < j PROVE r[i] < r[j]
      <4>1. i \in 1..c /\ r[i] = s[i] /\ s[i] \in Up(k)
        BY <3>2, <3>6
      <4>2. CASE j = c + 1
        BY <3>4, <4>1, <4>2
      <4>3. CASE j # c + 1
        <5>1. j \in 1..c /\ r[j] = s[j]
          BY <3>2, <4>3
        <5> HIDE DEF r
        <5>2. QED
          BY <3>3, <3>6, <4>1, <5>1
      <4>4. QED
        BY <4>2, <4>3
    <3>7. DOMAIN r = 1..c + 1
      OBVIOUS
    <3> HIDE DEF r
    <3>8. Listed(Up(k + 1))
      BY <3>2, <3>5, <3>6, <3>7 DEF Listed
    <3>9. QED
      BY <3>8
  <2>3. QED
    BY <2>1, <2>2
<1> HIDE DEF K
<1>4. \A k \in Nat : k \in K
  BY <1>2, <1>3, SetInduction
<1>5. Listed(Up(n))
  BY <1>4 DEF K
<1>6. Up(n) = M
  OBVIOUS
<1> HIDE DEF Up
<1>7. QED
  BY <1>1, <1>5, <1>6 DEF Listed

\* Induction along the numbers up to n, from all smaller ones.
LEMMA UpTo ==
  ASSUME NEW n \in Nat, NEW S, \A i \in 1..n : (\A j \in 1..i - 1 : j \in S) => i \in S
  PROVE  \A i \in 1..n : i \in S
<1> DEFINE T == {i \in 1..n : i \notin S}
<1>1. SUFFICES ASSUME T # {} PROVE FALSE
  OBVIOUS
<1>2. T \in SUBSET Nat
  OBVIOUS
<1> HIDE DEF T
<1>3. PICK i \in T : \A j \in T : i <= j
  BY <1>1, <1>2, LeastNatural
<1>4. i \in 1..n /\ i \notin S
  BY DEF T
<1>5. ASSUME NEW j \in 1..i - 1 PROVE j \in S
  <2>1. j \in 1..n /\ ~(i <= j)
    BY <1>4
  <2>2. QED
    BY <1>3, <2>1 DEF T
<1>6. QED
  BY <1>4, <1>5
=============================================================================
