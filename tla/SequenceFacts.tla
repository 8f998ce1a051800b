---------------------------- MODULE SequenceFacts ----------------------------
(***************************************************************************)
(* Sequences that grow: lemmas for the proofs about both transports.       *)
(***************************************************************************)
EXTENDS Integers, Sequences, Functions, SequencesExt, SequenceTheorems, InductionFacts, TLAPS

\* A function on 1..n is a sequence of length n.
LEMMA FunctionIsSeq ==
  ASSUME NEW S, NEW n \in Nat, NEW f \in [1..n -> S]
  PROVE  f \in Seq(S) /\ Len(f) = n
OBVIOUS

\* What is appended is the last element, and joins the range.
LEMMA AppendFacts ==
  ASSUME NEW S, NEW s \in Seq(S), NEW e \in S
  PROVE  /\ Append(s, e) \in Seq(S) /\ Len(Append(s, e)) = Len(s) + 1 /\ Len(s) \in Nat
         /\ \A i \in 1..Len(s) : Append(s, e)[i] = s[i]
         /\ Append(s, e)[Len(s) + 1] = e
         /\ Range(Append(s, e)) = Range(s) \cup {e}
<1>1. /\ Append(s, e) \in Seq(S) /\ Len(Append(s, e)) = Len(s) + 1 /\ Len(s) \in Nat
      /\ \A i \in 1..Len(s) : Append(s, e)[i] = s[i]
      /\ Append(s, e)[Len(s) + 1] = e
  BY AppendProperties
<1>2. DOMAIN s = 1..Len(s) /\ DOMAIN Append(s, e) = 1..Len(s) + 1
  BY <1>1
<1>3. Range(Append(s, e)) = Range(s) \cup {e}
  BY <1>1, <1>2 DEF Range
<1>4. QED
  BY <1>1, <1>3

\* A concatenation keeps the elements of the first sequence.
LEMMA ConcatGrows ==
  ASSUME NEW S, NEW s \in Seq(S), NEW t \in Seq(S)
  PROVE  s \o t \in Seq(S) /\ Range(s) \subseteq Range(s \o t)
<1>1. /\ s \o t \in Seq(S) /\ Len(s \o t) = Len(s) + Len(t)
      /\ Len(s) \in Nat /\ Len(t) \in Nat
      /\ \A i \in 1..Len(s) : (s \o t)[i] = s[i]
  BY ConcatProperties
<1>2. DOMAIN s = 1..Len(s) /\ DOMAIN (s \o t) = 1..Len(s) + Len(t)
  BY <1>1
<1>3. QED
  BY <1>1, <1>2 DEF Range

\* The elements of a concatenation are those of the two sequences.
LEMMA ConcatRange ==
  ASSUME NEW S, NEW s \in Seq(S), NEW t \in Seq(S), NEW x \in Range(s \o t)
  PROVE  x \in Range(s) \/ \E k \in 1..Len(t) : x = t[k]
<1>1. /\ s \o t \in Seq(S) /\ Len(s \o t) = Len(s) + Len(t) /\ Len(s) \in Nat /\ Len(t) \in Nat
      /\ \A m \in 1..Len(s) + Len(t) :
           (s \o t)[m] = IF m <= Len(s) THEN s[m] ELSE t[m - Len(s)]
  BY ConcatProperties
<1>2. DOMAIN (s \o t) = 1..Len(s) + Len(t)
  BY <1>1
<1>3. PICK m \in 1..Len(s) + Len(t) : x = (s \o t)[m]
  BY <1>2 DEF Range
<1>4. CASE m <= Len(s)
  BY <1>1, <1>3, <1>4 DEF Range
<1>5. CASE m > Len(s)
  <2>1. m - Len(s) \in 1..Len(t) /\ x = t[m - Len(s)]
    BY <1>1, <1>3, <1>5
  <2>2. QED
    BY <2>1
<1>6. QED
  BY <1>1, <1>4, <1>5

\* The three ways in which one element gets behind a concatenation.
LEMMA ConcatAppend ==
  ASSUME NEW S, NEW s \in Seq(S), NEW t \in Seq(S), NEW e \in S
  PROVE  /\ s \o Append(t, e) = Append(s \o t, e)
         /\ (s \o t) \o <<e>> = Append(s \o t, e)
         /\ Append(s, e) \o <<>> = Append(s \o <<>>, e)
<1>1. s \o t \in Seq(S) /\ <<e>> \in Seq(S) /\ Append(s, e) \in Seq(S)
  BY ConcatProperties
<1>2. Append(t, e) = t \o <<e>> /\ Append(s \o t, e) = (s \o t) \o <<e>>
  BY <1>1, AppendIsConcat
<1>3. s \o (t \o <<e>>) = (s \o t) \o <<e>>
  BY <1>1, ConcatAssociative
<1>4. s \o <<>> = s /\ Append(s, e) \o <<>> = Append(s, e)
  BY <1>1, ConcatEmptySeq
<1>5. QED
  BY <1>2, <1>3, <1>4

-----------------------------------------------------------------------------
(* FlattenSeq *)

\* g joins the first n sequences of s, one by one.
Joins(g, s, n) == \A i \in 1..n : g[i] = IF i = 1 THEN s[1] ELSE g[i - 1] \o s[i]

\* Such a function exists, and its last value is what FlattenSeq returns.
LEMMA JoinsExist ==
  ASSUME NEW S, NEW n \in Nat, NEW s \in [1..n -> Seq(S)]
  PROVE  \E g \in [1..n -> Seq(S)] : Joins(g, s, n)
<1> DEFINE M == {m \in Nat : m <= n => \E g \in [1..m -> Seq(S)] : Joins(g, s, m)}
<1>1. 0 \in M
  <2>1. [i \in 1..0 |-> <<>>] \in [1..0 -> Seq(S)]
    OBVIOUS
  <2>2. Joins([i \in 1..0 |-> <<>>], s, 0)
    BY DEF Joins
  <2>3. QED
    BY <2>1, <2>2
<1>2. ASSUME NEW m \in Nat, m \in M PROVE m + 1 \in M
  <2>1. SUFFICES ASSUME m + 1 <= n PROVE \E g \in [1..m + 1 -> Seq(S)] : Joins(g, s, m + 1)
    OBVIOUS
  <2>2. PICK g \in [1..m -> Seq(S)] : Joins(g, s, m)
    BY <1>2, <2>1
  <2> DEFINE new == IF m = 0 THEN s[1] ELSE g[m] \o s[m + 1]
             h == [i \in 1..m + 1 |-> IF i = m + 1 THEN new ELSE g[i]]
  <2>3. new \in Seq(S)
    <3>1. CASE m = 0
      BY <2>1, <3>1
    <3>2. CASE m # 0
      <4>1. g[m] \in Seq(S) /\ s[m + 1] \in Seq(S)
        BY <2>1, <3>2
      <4>2. QED
        BY <3>2, <4>1, ConcatProperties
    <3>3. QED
      BY <3>1, <3>2
  <2>4. h \in [1..m + 1 -> Seq(S)]
    <3> HIDE DEF new
    <3>1. QED
      BY <2>3
  <2>5. Joins(h, s, m + 1)
    <3> SUFFICES ASSUME NEW i \in 1..m + 1
                 PROVE  h[i] = IF i = 1 THEN s[1] ELSE h[i - 1] \o s[i]
      BY DEF Joins
    <3>1. CASE i = m + 1 /\ m = 0
      BY <3>1
    <3>2. CASE i = m + 1 /\ m # 0
      <4>1. i - 1 = m /\ i - 1 \in 1..m + 1 /\ i - 1 # m + 1 /\ i # 1
        BY <3>2
      <4>2. h[i - 1] = g[m]
        BY <4>1
      <4>3. h[i] = g[m] \o s[m + 1]
        BY <3>2
      <4> HIDE DEF h
      <4>4. QED
        BY <3>2, <4>1, <4>2, <4>3
    <3>3. CASE i # m + 1
      <4>1. i \in 1..m /\ h[i] = g[i]
        BY <3>3
      <4>2. CASE i = 1
        BY <2>2, <4>1, <4>2 DEF Joins
      <4>3. CASE i # 1
        <5>1. i - 1 \in 1..m /\ i - 1 # m + 1
          BY <4>1, <4>3
        <5>2. h[i - 1] = g[i - 1]
          BY <5>1
        <5>3. g[i] = g[i - 1] \o s[i]
          BY <2>2, <4>1, <4>3 DEF Joins
        <5> HIDE DEF h
        <5>4. QED
          BY <4>1, <4>3, <5>2, <5>3
      <4>4. QED
        BY <4>2, <4>3
    <3>4. QED
      BY <3>1, <3>2, <3>3
  <2> HIDE DEF h
  <2>6. QED
    BY <2>4, <2>5
<1> HIDE DEF M
<1>3. \A m \in Nat : m \in M
  BY <1>1, <1>2, SetInduction
<1>4. QED
  BY <1>3 DEF M

\* FlattenSeq returns the last value of such a function.
LEMMA FlattenIsLastJoin ==
  ASSUME NEW S, NEW n \in Nat, NEW s \in [1..n -> Seq(S)], n > 0,
         NEW g \in [1..n -> Seq(S)],
         Joins(g, s, n)
  PROVE  FlattenSeq(s) = g[n]
<1> DEFINE Eq(f) == f = [i \in 1..Len(s) |-> IF i = 1 THEN s[i] ELSE f[i - 1] \o s[i]]
           flatten == CHOOSE f : Eq(f)
<1>1. Len(s) = n
  OBVIOUS
<1>2. Eq(g)
  BY <1>1 DEF Joins
<1>3. Eq(flatten)
  <2> HIDE DEF Eq
  <2>1. QED
    BY <1>2
<1>4. FlattenSeq(s) = flatten[n]
  BY <1>1 DEF FlattenSeq
<1>5. \A i \in 1..n : flatten[i] = IF i = 1 THEN s[1] ELSE flatten[i - 1] \o s[i]
  BY <1>1, <1>3
<1> HIDE DEF flatten, Eq
<1>6. flatten[n] = g[n]
  <2> DEFINE K == {i \in Nat : i \in 1..n => flatten[i] = g[i]}
  <2>1. 0 \in K
    OBVIOUS
  <2>2. ASSUME NEW i \in Nat, i \in K PROVE i + 1 \in K
    <3>1. SUFFICES ASSUME i + 1 \in 1..n PROVE flatten[i + 1] = g[i + 1]
      OBVIOUS
    <3>2. CASE i = 0
      BY <1>5, <3>1, <3>2 DEF Joins
    <3>3. CASE i # 0
      <4>1. i \in 1..n /\ flatten[i] = g[i] /\ (i + 1) - 1 = i /\ i + 1 # 1
        BY <2>2, <3>1, <3>3
      <4>2. flatten[i + 1] = flatten[i] \o s[i + 1]
        BY <1>5, <3>1, <4>1
      <4>3. g[i + 1] = g[i] \o s[i + 1]
        BY <3>1, <4>1 DEF Joins
      <4>4. QED
        BY <4>1, <4>2, <4>3
    <3>4. QED
      BY <3>2, <3>3
  <2> HIDE DEF K
  <2>3. \A i \in Nat : i \in K
    BY <2>1, <2>2, SetInduction
  <2>4. QED
    BY <2>3 DEF K
<1>7. QED
  BY <1>4, <1>6

\* The last sequence comes behind what the ones before give.
LEMMA FlattenStep ==
  ASSUME NEW S, NEW n \in Nat, NEW s \in [1..n + 1 -> Seq(S)]
  PROVE  /\ FlattenSeq([k \in 1..n |-> s[k]]) \in Seq(S)
         /\ FlattenSeq(s) = FlattenSeq([k \in 1..n |-> s[k]]) \o s[n + 1]
<1> DEFINE r == [k \in 1..n |-> s[k]]
<1>1. r \in [1..n -> Seq(S)] /\ s[n + 1] \in Seq(S)
  OBVIOUS
<1>2. PICK g \in [1..n + 1 -> Seq(S)] : Joins(g, s, n + 1)
  BY JoinsExist
<1>3. FlattenSeq(s) = g[n + 1]
  <2>1. n + 1 \in Nat /\ n + 1 > 0
    OBVIOUS
  <2>2. QED
    BY <1>2, <2>1, FlattenIsLastJoin, Zenon
<1>4. CASE n = 0
  <2>1. r = <<>> /\ Len(r) = 0
    BY <1>4
  <2>2. FlattenSeq(r) = <<>>
    BY <2>1 DEF FlattenSeq
  <2>3. FlattenSeq(s) = s[n + 1]
    BY <1>2, <1>3, <1>4 DEF Joins
  <2>4. QED
    BY <1>1, <2>2, <2>3, ConcatEmptySeq, EmptySeq
<1>5. CASE n > 0
  <2> DEFINE h == [i \in 1..n |-> g[i]]
  <2>1. h \in [1..n -> Seq(S)]
    OBVIOUS
  <2>2. Joins(h, r, n)
    <3> SUFFICES ASSUME NEW i \in 1..n
                 PROVE  h[i] = IF i = 1 THEN r[1] ELSE h[i - 1] \o r[i]
      BY DEF Joins
    <3>1. i \in 1..n + 1 /\ h[i] = g[i] /\ r[i] = s[i] /\ r[1] = s[1]
      BY <1>5
    <3>2. i # 1 => h[i - 1] = g[i - 1]
      OBVIOUS
    <3> HIDE DEF h, r
    <3>3. QED
      BY <1>2, <3>1, <3>2 DEF Joins
  <2>3. h[n] = g[n] /\ g[n + 1] = g[n] \o s[n + 1] /\ g[n] \in Seq(S)
    <3>1. n \in 1..n + 1 /\ n + 1 \in 1..n + 1 /\ n + 1 # 1 /\ (n + 1) - 1 = n
      BY <1>5
    <3>2. g[n + 1] = g[n] \o s[n + 1]
      BY <1>2, <3>1 DEF Joins
    <3>3. QED
      BY <1>5, <3>2
  <2> HIDE DEF h, r
  <2>4. FlattenSeq(r) = h[n]
    BY <1>1, <1>5, <2>1, <2>2, FlattenIsLastJoin
  <2>5. QED
    BY <1>3, <2>3, <2>4 DEF r
<1>6. QED
  BY <1>4, <1>5

\* What FlattenSeq returns of no sequence, and that it returns a sequence.
LEMMA FlattenType ==
  ASSUME NEW S, NEW n \in Nat, NEW s \in [1..n -> Seq(S)]
  PROVE  FlattenSeq(s) \in Seq(S) /\ (n = 0 => FlattenSeq(s) = <<>>)
<1>1. CASE n = 0
  <2>1. s = <<>> /\ Len(s) = 0
    BY <1>1
  <2>2. QED
    BY <2>1, EmptySeq DEF FlattenSeq
<1>2. CASE n > 0
  <2>1. PICK g \in [1..n -> Seq(S)] : Joins(g, s, n)
    BY JoinsExist
  <2>2. FlattenSeq(s) = g[n]
    BY <1>2, <2>1, FlattenIsLastJoin, Zenon
  <2>3. QED
    BY <1>2, <2>2
<1>3. QED
  BY <1>1, <1>2

\* A list that is cut gives the concatenation of what its parts give.
LEMMA FlattenSplit ==
  ASSUME NEW S, NEW s \in Seq(Seq(S)), NEW f \in Seq(Seq(S)), NEW g \in Seq(Seq(S)),
         Len(s) = Len(f) + Len(g),
         \A k \in 1..Len(f) : f[k] = s[k], \A k \in 1..Len(g) : g[k] = s[Len(f) + k]
  PROVE  FlattenSeq(s) = FlattenSeq(f) \o FlattenSeq(g)
<1> DEFINE m == Len(f)
           n == Len(g)
<1>0. /\ m \in Nat /\ n \in Nat /\ s \in [1..m + n -> Seq(S)]
      /\ f \in [1..m -> Seq(S)] /\ g \in [1..n -> Seq(S)]
      /\ \A k \in 1..m : f[k] = s[k]
      /\ \A k \in 1..n : g[k] = s[m + k]
  OBVIOUS
<1> HIDE DEF m, n
<1> DEFINE first == [k \in 1..m |-> s[k]]
           Rest(i) == [k \in 1..i |-> s[m + k]]
           Front_(i) == [k \in 1..m + i |-> s[k]]
           Split(i) == FlattenSeq(Front_(i)) = FlattenSeq(first) \o FlattenSeq(Rest(i))
           K == {i \in Nat : i <= n => Split(i)}
<1>1. first \in [1..m -> Seq(S)] /\ FlattenSeq(first) \in Seq(S)
  <2>1. first \in [1..m -> Seq(S)]
    BY <1>0
  <2>2. QED
    BY <1>0, <2>1, FlattenType
<1>2. 0 \in K
  <2>1. Front_(0) = first
    BY <1>0
  <2>2. Rest(0) \in [1..0 -> Seq(S)]
    OBVIOUS
  <2> HIDE DEF first, Rest, Front_
  <2>3. FlattenSeq(Rest(0)) = <<>>
    BY <2>2, FlattenType
  <2>4. QED
    BY <1>1, <2>1, <2>3, ConcatEmptySeq
<1>3. ASSUME NEW i \in Nat, i \in K PROVE i + 1 \in K
  <2>1. SUFFICES ASSUME i + 1 <= n
                 PROVE  Split(i + 1)
    <3> HIDE DEF Split
    <3>1. QED
      OBVIOUS
  <2>2. Front_(i + 1) \in [1..(m + i) + 1 -> Seq(S)] /\ m + i \in Nat
    BY <1>0, <2>1
  <2>3. Rest(i + 1) \in [1..i + 1 -> Seq(S)]
    BY <1>0, <2>1
  <2>4. /\ [k \in 1..m + i |-> Front_(i + 1)[k]] = Front_(i)
        /\ [k \in 1..i |-> Rest(i + 1)[k]] = Rest(i)
        /\ Front_(i + 1)[(m + i) + 1] = s[(m + i) + 1]
        /\ Rest(i + 1)[i + 1] = s[(m + i) + 1]
    BY <1>0, <2>1
  <2>5. s[(m + i) + 1] \in Seq(S)
    BY <1>0, <2>1
  <2>6. FlattenSeq(Front_(i)) = FlattenSeq(first) \o FlattenSeq(Rest(i))
    <3> HIDE DEF Split
    <3>1. Split(i)
      BY <1>0, <1>3, <2>1
    <3>2. QED
      BY <3>1 DEF Split
  <2> HIDE DEF first, Rest, Front_, K
  <2>7. FlattenSeq(Front_(i + 1)) = FlattenSeq(Front_(i)) \o s[(m + i) + 1]
    BY <2>2, <2>4, FlattenStep
  <2>8. /\ FlattenSeq(Rest(i + 1)) = FlattenSeq(Rest(i)) \o s[(m + i) + 1]
        /\ FlattenSeq(Rest(i)) \in Seq(S)
    BY <2>3, <2>4, FlattenStep
  <2>9. (FlattenSeq(first) \o FlattenSeq(Rest(i))) \o s[(m + i) + 1]
        = FlattenSeq(first) \o (FlattenSeq(Rest(i)) \o s[(m + i) + 1])
    <3> DEFINE a == FlattenSeq(first)
               b == FlattenSeq(Rest(i))
               c == s[(m + i) + 1]
    <3>1. a \in Seq(S) /\ b \in Seq(S) /\ c \in Seq(S)
      BY <1>1, <2>5, <2>8
    <3> HIDE DEF a, b, c
    <3>2. (a \o b) \o c = a \o (b \o c)
      BY <3>1, ConcatAssociative
    <3>3. QED
      BY <3>2 DEF a, b, c
  <2>10. QED
    BY <2>6, <2>7, <2>8, <2>9
<1>4. Front_(n) = s /\ first = f /\ Rest(n) = g
  BY <1>0
<1> HIDE DEF K, Split
<1>5. \A i \in Nat : i \in K
  BY <1>2, <1>3, SetInduction
<1>6. Split(n)
  BY <1>0, <1>5 DEF K
<1>7. QED
  BY <1>4, <1>6 DEF Split

\* A list of sequences of one element each.
LEMMA FlattenSingles ==
  ASSUME NEW S, NEW n \in Nat, NEW f \in [1..n -> S]
  PROVE  FlattenSeq([k \in 1..n |-> <<f[k]>>]) = f
<1> DEFINE Up(i) == [k \in 1..i |-> <<f[k]>>]
           To(i) == [k \in 1..i |-> f[k]]
           K == {i \in Nat : i <= n => FlattenSeq(Up(i)) = To(i)}
<1>1. 0 \in K
  <2>1. Up(0) \in [1..0 -> Seq(S)] /\ To(0) = <<>>
    OBVIOUS
  <2> HIDE DEF Up, To
  <2>2. QED
    BY <2>1, FlattenType
<1>2. ASSUME NEW i \in Nat, i \in K PROVE i + 1 \in K
  <2>1. SUFFICES ASSUME i + 1 <= n PROVE FlattenSeq(Up(i + 1)) = To(i + 1)
    OBVIOUS
  <2>2. Up(i + 1) \in [1..i + 1 -> Seq(S)]
    <3>1. ASSUME NEW k \in 1..i + 1 PROVE <<f[k]>> \in Seq(S)
      BY <2>1
    <3>2. QED
      BY <3>1
  <2>3. [k \in 1..i |-> Up(i + 1)[k]] = Up(i) /\ Up(i + 1)[i + 1] = <<f[i + 1]>>
    OBVIOUS
  <2>4. To(i) \in Seq(S) /\ Len(To(i)) = i
    BY <2>1
  <2>5. To(i + 1) \in Seq(S) /\ Len(To(i + 1)) = i + 1
    BY <2>1
  <2>6. f[i + 1] \in S /\ <<f[i + 1]>> \in Seq(S) /\ Len(<<f[i + 1]>>) = 1
    BY <2>1
  <2>7. To(i) \o <<f[i + 1]>> = To(i + 1)
    <3>1. /\ To(i) \o <<f[i + 1]>> \in Seq(S) /\ Len(To(i) \o <<f[i + 1]>>) = i + 1
          /\ \A k \in 1..i + 1 : (To(i) \o <<f[i + 1]>>)[k] =
                IF k <= i THEN To(i)[k] ELSE <<f[i + 1]>>[k - i]
      <4> HIDE DEF To
      <4>1. QED
        BY <2>4, <2>6, ConcatProperties
    <3>2. ASSUME NEW k \in 1..i + 1 PROVE (To(i) \o <<f[i + 1]>>)[k] = To(i + 1)[k]
      <4>1. CASE k <= i
        <5>1. To(i)[k] = f[k] /\ To(i + 1)[k] = f[k]
          BY <4>1
        <5> HIDE DEF To
        <5>2. QED
          BY <3>1, <4>1, <5>1
      <4>2. CASE k = i + 1
        <5>1. k - i = 1 /\ To(i + 1)[k] = f[i + 1]
          BY <4>2
        <5> HIDE DEF To
        <5>2. QED
          BY <3>1, <4>2, <5>1
      <4>3. QED
        BY <4>1, <4>2
    <3> HIDE DEF To
    <3>3. QED
      BY <2>5, <3>1, <3>2, SeqEqual
  <2>8. FlattenSeq(Up(i)) = To(i)
    BY <1>2, <2>1
  <2> HIDE DEF Up, To
  <2>9. QED
    BY <2>2, <2>3, <2>7, <2>8, FlattenStep
<1> HIDE DEF K
<1>3. \A i \in Nat : i \in K
  BY <1>1, <1>2, SetInduction
<1>4. FlattenSeq(Up(n)) = To(n)
  BY <1>3 DEF K
<1>5. QED
  BY <1>4

\* What FlattenSeq returns has the elements of its sequences alone.
LEMMA FlattenRange ==
  ASSUME NEW S, NEW n \in Nat, NEW s \in [1..n -> Seq(S)], NEW x \in Range(FlattenSeq(s))
  PROVE  \E k \in 1..n : x \in Range(s[k])
<1> DEFINE Up(i) == [k \in 1..i |-> s[k]]
           Found(i) == x \in Range(FlattenSeq(Up(i))) => \E k \in 1..i : x \in Range(s[k])
           K == {i \in Nat : i <= n => Found(i)}
<1>1. ASSUME NEW i \in Nat, i <= n PROVE Up(i) \in [1..i -> Seq(S)]
  BY <1>1
<1>2. 0 \in K
  <2>1. Up(0) \in [1..0 -> Seq(S)]
    BY <1>1
  <2> HIDE DEF Up
  <2>2. FlattenSeq(Up(0)) = <<>>
    BY <2>1, FlattenType
  <2>3. Range(<<>>) = {}
    BY DEF Range
  <2>4. QED
    BY <2>2, <2>3
<1>3. ASSUME NEW i \in Nat, i \in K PROVE i + 1 \in K
  <2>1. SUFFICES ASSUME i + 1 <= n, x \in Range(FlattenSeq(Up(i + 1)))
                 PROVE  \E k \in 1..i + 1 : x \in Range(s[k])
    OBVIOUS
  <2>2. Found(i)
    <3> HIDE DEF Found
    <3>1. QED
      BY <1>3, <2>1
  <2>3. Up(i + 1) \in [1..i + 1 -> Seq(S)]
    BY <1>1, <2>1
  <2>4. [k \in 1..i |-> Up(i + 1)[k]] = Up(i) /\ Up(i + 1)[i + 1] = s[i + 1]
    OBVIOUS
  <2>5. s[i + 1] \in Seq(S)
    BY <2>1
  <2> DEFINE a == FlattenSeq(Up(i))
             b == s[i + 1]
  <2>6. FlattenSeq(Up(i + 1)) = a \o b /\ a \in Seq(S)
    <3> HIDE DEF Up
    <3>1. QED
      BY <2>3, <2>4, FlattenStep
  <2>7. x \in Range(a \o b)
    BY <2>1, <2>6
  <2>8. x \in Range(a) \/ x \in Range(b)
    <3>1. a \in Seq(S) /\ b \in Seq(S)
      BY <2>5, <2>6
    <3> HIDE DEF a, b
    <3>2. x \in Range(a) \/ \E k \in 1..Len(b) : x = b[k]
      BY <2>7, <3>1, ConcatRange
    <3>3. DOMAIN b = 1..Len(b)
      BY <3>1
    <3>4. QED
      BY <3>2, <3>3 DEF Range
  <2>9. QED
    BY <2>2, <2>8
<1> HIDE DEF K, Found
<1>4. \A i \in Nat : i \in K
  BY <1>2, <1>3, SetInduction
<1>5. Found(n)
  BY <1>4 DEF K
<1>6. Up(n) = s
  OBVIOUS
<1>7. QED
  BY <1>5, <1>6 DEF Found
=============================================================================
