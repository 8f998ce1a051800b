-------------------------- MODULE Redaction_proof --------------------------
(***************************************************************************)
(* The proofs about Redaction: the types; what a scan passes on of a       *)
(* string, of a secret only what the end of a window splits, and of the    *)
(* rest what one pass passes on; that the depth check leaves unread what   *)
(* is too deep and nothing else; and which nodes the walk visits.          *)
(***************************************************************************)
EXTENDS Redaction, SequenceFacts, InductionFacts

-----------------------------------------------------------------------------
(* What is replaced in a part of a text *)

Cut(t, from, to) == {s \in t.secrets : from < s.first /\ s.last <= to}
Character(t, m, from, to, p) ==
  IF \E s \in Cut(t, from, to) : p = s.first THEN [k \in 1..m |-> 0]
  ELSE IF \E s \in Cut(t, from, to) : p \in s.first..s.last THEN <<>>
  ELSE <<p>>
Piece(t, m, from, to) ==
  FlattenSeq([k \in 1..to - from |-> Character(t, m, from, to, from + k)])

\* Pieces are what Subn makes of the text and the replacement.
LEMMA SubnIsPiece ==
  ASSUME NEW a, NEW b
  PROVE  Subn(a, b) = Piece(text, mark, a, b) /\ Matches(a, b) = Cut(text, a, b)
BY DEF Subn, Piece, Character, Cut, Matches, Mark

\* A text has finitely many secrets: their first places differ.
LEMMA SecretsFinite ==
  ASSUME NEW t, IsText(t), NEW a, NEW b
  PROVE  IsFiniteSet(Cut(t, a, b))
<1> DEFINE f == [s \in t.secrets |-> s.first]
<1>1. f \in [t.secrets -> 1..t.len]
  BY DEF IsText
<1>2. ASSUME NEW r \in t.secrets, NEW s \in t.secrets, f[r] = f[s] PROVE r = s
  <2>1. /\ r.first = s.first /\ t.len \in Nat
        /\ r.first \in 1..t.len /\ r.last \in r.first..t.len
        /\ s.first \in 1..t.len /\ s.last \in s.first..t.len
        /\ r = s \/ r.last < s.first \/ s.last < r.first
    BY <1>2 DEF IsText
  <2>2. ~(r.last < s.first) /\ ~(s.last < r.first)
    BY <2>1
  <2>3. QED
    BY <2>1, <2>2
<1>3. f \in Injection(t.secrets, 1..t.len)
  <2> HIDE DEF f
  <2>1. DOMAIN f = t.secrets
    BY <1>1
  <2>2. QED
    BY <1>1, <1>2, <2>1 DEF Injection, IsInjective
<1>4. IsFiniteSet(1..t.len)
  BY FS_Interval DEF IsText
<1>5. IsFiniteSet(t.secrets)
  BY <1>3, <1>4, FS_Injection
<1>6. Cut(t, a, b) \subseteq t.secrets
  BY DEF Cut
<1>7. QED
  BY <1>5, <1>6, FS_Subset

\* What one character becomes.
LEMMA CharacterType ==
  ASSUME NEW t, IsText(t), NEW m \in Nat, NEW a, NEW b, NEW p \in 1..t.len
  PROVE  /\ Character(t, m, a, b, p) \in Seq(0..t.len)
         /\ \A x \in Range(Character(t, m, a, b, p)) :
              x = 0 \/ (x = p /\ \A s \in Cut(t, a, b) : p \notin s.first..s.last)
<1>1. t.len \in Nat /\ \A s \in Cut(t, a, b) : s.first \in s.first..s.last
  BY DEF IsText, Cut
<1>2. CASE \E s \in Cut(t, a, b) : p = s.first
  <2>1. Character(t, m, a, b, p) = [k \in 1..m |-> 0]
    BY <1>2 DEF Character
  <2>2. [k \in 1..m |-> 0] \in Seq(0..t.len)
    BY <1>1
  <2>3. QED
    BY <2>1, <2>2 DEF Range
<1>3. CASE /\ ~\E s \in Cut(t, a, b) : p = s.first
           /\ \E s \in Cut(t, a, b) : p \in s.first..s.last
  <2>1. Character(t, m, a, b, p) = <<>>
    BY <1>3 DEF Character
  <2>2. Range(<<>>) = {}
    BY DEF Range
  <2>3. QED
    BY <2>1, <2>2, EmptySeq
<1>4. CASE ~\E s \in Cut(t, a, b) : p \in s.first..s.last
  <2>1. Character(t, m, a, b, p) = <<p>>
    BY <1>1, <1>4 DEF Character
  <2>2. <<p>> \in Seq(0..t.len) /\ Range(<<p>>) = {p}
    BY <1>1 DEF Range
  <2>3. QED
    BY <1>4, <2>1, <2>2
<1>5. QED
  BY <1>2, <1>3, <1>4

\* A piece is a sequence of places; each is one of its part of the text, and in
\* none of the secrets that were replaced.
LEMMA PieceType ==
  ASSUME NEW t, IsText(t), NEW m \in Nat, NEW a \in Nat, NEW b \in Nat, b <= t.len
  PROVE  /\ Piece(t, m, a, b) \in Seq(0..t.len)
         /\ \A x \in Range(Piece(t, m, a, b)) :
              x = 0 \/ (/\ x \in Nat /\ a < x /\ x <= b
                        /\ \A s \in Cut(t, a, b) : x \notin s.first..s.last)
<1> DEFINE f == [k \in 1..b - a |-> Character(t, m, a, b, a + k)]
<1>1. t.len \in Nat
  BY DEF IsText
<1>2. CASE b < a
  <2>1. f \in [1..0 -> Seq(0..t.len)] /\ Piece(t, m, a, b) = FlattenSeq(f)
    BY <1>2 DEF Piece
  <2> HIDE DEF f
  <2>2. Piece(t, m, a, b) = <<>>
    BY <2>1, FlattenType
  <2>3. Range(<<>>) = {}
    BY DEF Range
  <2>4. QED
    BY <2>2, <2>3, EmptySeq
<1>3. CASE a <= b
  <2>1. \A k \in 1..b - a : a + k \in 1..t.len /\ a < a + k /\ a + k <= b /\ a + k \in Nat
    BY <1>1
  <2>2. b - a \in Nat
    BY <1>3
  <2>3. \A k \in 1..b - a : f[k] = Character(t, m, a, b, a + k)
    OBVIOUS
  <2>4. f \in [1..b - a -> Seq(0..t.len)]
    BY <2>1, CharacterType
  <2>5. Piece(t, m, a, b) = FlattenSeq(f)
    BY DEF Piece
  <2> HIDE DEF f
  <2>6. Piece(t, m, a, b) \in Seq(0..t.len)
    BY <2>2, <2>4, <2>5, FlattenType
  <2>7. ASSUME NEW x \in Range(Piece(t, m, a, b)), x # 0
        PROVE  /\ x \in Nat /\ a < x /\ x <= b
               /\ \A s \in Cut(t, a, b) : x \notin s.first..s.last
    <3>1. PICK k \in 1..b - a : x \in Range(f[k])
      BY <2>2, <2>4, <2>5, <2>7, FlattenRange
    <3>2. x = a + k /\ \A s \in Cut(t, a, b) : a + k \notin s.first..s.last
      BY <2>1, <2>3, <2>7, <3>1, CharacterType
    <3>3. QED
      BY <2>1, <3>2
  <2>8. QED
    BY <2>6, <2>7
<1>4. QED
  BY <1>2, <1>3

\* A piece can be cut wherever no secret is cut.
Uncut(t, a, c, b) == \A s \in Cut(t, a, b) : s.last <= c \/ c < s.first

\* A part is split where no secret of it lies across.
LEMMA PieceSplit ==
  ASSUME NEW t, IsText(t), NEW m \in Nat,
         NEW a \in Nat, NEW c \in Nat, NEW b \in Nat, a <= c, c <= b, b <= t.len,
         Uncut(t, a, c, b)
  PROVE  Piece(t, m, a, b) = Piece(t, m, a, c) \o Piece(t, m, c, b)
<1> DEFINE f == [k \in 1..b - a |-> Character(t, m, a, b, a + k)]
           g == [k \in 1..c - a |-> Character(t, m, a, c, a + k)]
           h == [k \in 1..b - c |-> Character(t, m, c, b, c + k)]
<1>1. t.len \in Nat /\ c - a \in Nat /\ b - c \in Nat /\ (c - a) + (b - c) = b - a
  BY DEF IsText
<1>2. /\ \A s \in Cut(t, a, b) : /\ s.first \in Nat /\ s.last \in Nat /\ s.first <= s.last
                                 /\ a < s.first /\ s.last <= b
      /\ \A s \in Cut(t, a, c) : s.first \in Nat /\ s.last \in Nat /\ s.last <= c
      /\ \A s \in Cut(t, c, b) : s.first \in Nat /\ s.last \in Nat /\ c < s.first
      /\ Cut(t, a, b) = Cut(t, a, c) \cup Cut(t, c, b)
  <2>1. \A s \in t.secrets : s.first \in Nat /\ s.last \in Nat /\ s.first <= s.last
    BY DEF IsText
  <2>2. QED
    BY <2>1 DEF Cut, Uncut
<1>3. ASSUME NEW p \in Nat, p <= c PROVE Character(t, m, a, b, p) = Character(t, m, a, c, p)
  <2>1. \A s \in Cut(t, c, b) : p # s.first /\ p \notin s.first..s.last
    BY <1>2, <1>3
  <2>2. QED
    BY <1>2, <2>1 DEF Character
<1>4. ASSUME NEW p \in Nat, c < p PROVE Character(t, m, a, b, p) = Character(t, m, c, b, p)
  <2>1. \A s \in Cut(t, a, c) : s.first <= s.last /\ p # s.first /\ p \notin s.first..s.last
    <3>1. \A s \in Cut(t, a, c) : s \in Cut(t, a, b)
      BY <1>2
    <3>2. QED
      BY <1>2, <1>4, <3>1
  <2>2. QED
    BY <1>2, <2>1 DEF Character
<1>5. f \in [1..(c - a) + (b - c) -> Seq(0..t.len)]
  <2>1. \A k \in 1..b - a : a + k \in 1..t.len
    BY <1>1
  <2>2. f \in [1..b - a -> Seq(0..t.len)]
    BY <2>1, CharacterType
  <2> HIDE DEF f
  <2>3. QED
    BY <1>1, <2>2
<1>6. g \in [1..c - a -> Seq(0..t.len)] /\ h \in [1..b - c -> Seq(0..t.len)]
  <2>1. /\ \A k \in 1..c - a : a + k \in 1..t.len
        /\ \A k \in 1..b - c : c + k \in 1..t.len
    BY <1>1
  <2>2. QED
    BY <2>1, CharacterType
<1>7. ASSUME NEW k \in 1..c - a PROVE g[k] = f[k]
  <2>1. k \in 1..b - a /\ a + k \in Nat /\ a + k <= c
    BY <1>1
  <2>2. QED
    BY <1>3, <2>1
<1>8. ASSUME NEW k \in 1..b - c PROVE h[k] = f[(c - a) + k]
  <2>1. /\ (c - a) + k \in 1..b - a /\ a + ((c - a) + k) = c + k
        /\ c + k \in Nat /\ c < c + k
    BY <1>1
  <2>2. f[(c - a) + k] = Character(t, m, a, b, a + ((c - a) + k))
    BY <2>1
  <2>3. h[k] = Character(t, m, c, b, c + k)
    OBVIOUS
  <2>4. Character(t, m, a, b, c + k) = Character(t, m, c, b, c + k)
    BY <1>4, <2>1
  <2> HIDE DEF f, h
  <2>5. QED
    BY <2>1, <2>2, <2>3, <2>4
<1>9. /\ Piece(t, m, a, b) = FlattenSeq(f)
      /\ Piece(t, m, a, c) = FlattenSeq(g) /\ Piece(t, m, c, b) = FlattenSeq(h)
  BY DEF Piece
<1> HIDE DEF f, g, h
<1>10. FlattenSeq(f) = FlattenSeq(g) \o FlattenSeq(h)
  <2>1. f \in Seq(Seq(0..t.len)) /\ Len(f) = (c - a) + (b - c)
    <3>1. (c - a) + (b - c) \in Nat
      BY <1>1
    <3>2. QED
      BY <1>5, <3>1, FunctionIsSeq
  <2>2. g \in Seq(Seq(0..t.len)) /\ Len(g) = c - a
    BY <1>1, <1>6, FunctionIsSeq
  <2>3. h \in Seq(Seq(0..t.len)) /\ Len(h) = b - c
    BY <1>1, <1>6, FunctionIsSeq
  <2>4. /\ Len(f) = Len(g) + Len(h)
        /\ \A k \in 1..Len(g) : g[k] = f[k]
        /\ \A k \in 1..Len(h) : h[k] = f[Len(g) + k]
    BY <1>7, <1>8, <2>1, <2>2, <2>3
  <2>5. QED
    BY <2>1, <2>2, <2>3, <2>4, FlattenSplit
<1>11. QED
  BY <1>9, <1>10

\* The same, with all that is needed of the three places in one operator.
Splits(t, a, c, b) ==
  a \in Nat /\ c \in Nat /\ b \in Nat /\ a <= c /\ c <= b /\ b <= t.len /\ Uncut(t, a, c, b)

Joined(t, m, a, c, b) == Piece(t, m, a, b) = Piece(t, m, a, c) \o Piece(t, m, c, b)

\* A part is two parts.
LEMMA PieceParts ==
  ASSUME NEW t, IsText(t), NEW m \in Nat, NEW a, NEW c, NEW b, Splits(t, a, c, b)
  PROVE  Joined(t, m, a, c, b)
<1>1. a \in Nat /\ c \in Nat /\ b \in Nat /\ a <= c /\ c <= b /\ b <= t.len
  BY DEF Splits
<1>2. Uncut(t, a, c, b)
  BY DEF Splits
<1>3. QED
  BY <1>1, <1>2, PieceSplit DEF Joined

\* The characters of a part of the text.
Plain(a, b) == [k \in 1..b - a |-> a + k]

\* Where no secret is, nothing is replaced.
LEMMA PieceClean ==
  ASSUME NEW t, IsText(t), NEW m \in Nat,
         NEW a \in Nat, NEW b \in Nat, a <= b, b <= t.len, Cut(t, a, b) = {}
  PROVE  Piece(t, m, a, b) = Plain(a, b)
<1> DEFINE f == Plain(a, b)
<1>1. b - a \in Nat /\ t.len \in Nat
  BY DEF IsText
<1>2. f \in [1..b - a -> 0..t.len]
  BY <1>1 DEF Plain
<1>3. [k \in 1..b - a |-> Character(t, m, a, b, a + k)] = [k \in 1..b - a |-> <<f[k]>>]
  BY DEF Character, Plain
<1> HIDE DEF f
<1>4. FlattenSeq([k \in 1..b - a |-> <<f[k]>>]) = f
  BY <1>1, <1>2, FlattenSingles
<1>5. QED
  BY <1>3, <1>4 DEF Piece, f

-----------------------------------------------------------------------------
(* Types *)

Entry == [node : Node, level : Nat]

TreeInv ==
  /\ \E n \in 1..MaxNodes : IsTree(tree, n)
  /\ native \in BOOLEAN /\ mark \in MarkLengths
ControlInv ==
  /\ pc \in {"depth", "walk", "scan", "scanned", "done"}
  /\ verdict \in {"none", "unread", "redact", "allow"}
WalkInv ==
  /\ stack \in Seq(Entry) /\ deepest \in Nat
  /\ visited \subseteq Node /\ redacted \subseteq visited \cap tree.strings
  /\ at \in visited \cup {0}
  /\ pc \in {"scan", "scanned"} => at \in visited \cap tree.strings
TextInv ==
  /\ IsText(text)
  /\ start \in Nat /\ (start > 0 => start + Overlap < text.len)
  /\ out \in Seq(0..text.len) /\ found \in Nat /\ late \in BOOLEAN
TypeInv == TreeInv /\ ControlInv /\ WalkInv /\ TextInv

\* The nodes are numbered from 1 on.
LEMMA NodesNumbered ==
  ASSUME NEW n \in Nat, IsTree(tree, n)
  PROVE  Node = 1..n /\ IsFiniteSet(Node) /\ Cardinality(Node) = n
<1>1. Node = 1..n
  BY DEF IsTree, Node
<1>2. IsFiniteSet(1..n) /\ Cardinality(1..n) = n
  BY FS_Interval
<1>3. QED
  BY <1>1, <1>2

\* The members of a list, each once and in order.
LEMMA ChildrenInOrder ==
  ASSUME NEW n \in Nat, IsTree(tree, n), NEW m
  PROVE  /\ Children(m) \in Seq(Node) /\ Len(Children(m)) \in Nat
         /\ \A c \in Node :
              (tree.parent[c] = m) <=> \E k \in 1..Len(Children(m)) : c = Children(m)[k]
         /\ \A k \in 1..Len(Children(m)) :
              Children(m)[k] \in Node /\ tree.parent[Children(m)[k]] = m
         /\ \A i, j \in 1..Len(Children(m)) : i < j => Children(m)[i] < Children(m)[j]
<1> DEFINE kids == {c \in Node : tree.parent[c] = m}
           Sorted(s) == \A i, j \in DOMAIN s : i < j => s[i] < s[j]
<1>1. kids \in SUBSET (1..n) /\ Node = 1..n
  BY NodesNumbered
<1>2. /\ IsFiniteSet(kids) /\ Cardinality(kids) \in Nat
      /\ \E s \in [1..Cardinality(kids) -> kids] : Sorted(s)
  <2> HIDE DEF kids
  <2>1. QED
    BY <1>1, ListedInOrder
<1> HIDE DEF Sorted
<1>3. Children(m) = CHOOSE s \in [1..Cardinality(kids) -> kids] : Sorted(s)
  BY DEF Children, Sorted
<1> HIDE DEF kids
<1>4. Children(m) \in [1..Cardinality(kids) -> kids] /\ Sorted(Children(m))
  BY <1>2, <1>3
<1> DEFINE c == Cardinality(kids)
<1>5. Children(m) \in Seq(kids) /\ Len(Children(m)) = c /\ c \in Nat
  BY <1>2, <1>4, FunctionIsSeq
<1>6. \A i, j \in 1..c : i < j => Children(m)[i] < Children(m)[j]
  BY <1>4 DEF Sorted
<1>7. \A i \in 1..c : Children(m)[i] \in kids
  BY <1>4
<1>8. ASSUME NEW x \in kids PROVE \E k \in 1..c : x = Children(m)[k]
  <2>1. ASSUME NEW i \in 1..c, NEW j \in 1..c, Children(m)[i] = Children(m)[j] PROVE i = j
    <3>1. Children(m)[i] \in Nat /\ Children(m)[j] \in Nat
      <4>1. kids \subseteq Nat
        BY <1>1
      <4>2. QED
        BY <1>7, <4>1
    <3>2. ~(i < j) /\ ~(j < i)
      BY <1>6, <2>1, <3>1
    <3>3. QED
      BY <1>5, <3>2
  <2>2. Children(m) \in Injection(1..c, kids)
    <3>1. DOMAIN Children(m) = 1..c
      BY <1>4
    <3>2. QED
      BY <1>4, <2>1, <3>1 DEF Injection, IsInjective
  <2>3. IsFiniteSet(1..c) /\ Cardinality(1..c) = c
    BY <1>5, FS_Interval
  <2>4. Children(m) \in Surjection(1..c, kids)
    BY <1>2, <2>2, <2>3, FS_Injection
  <2>5. QED
    BY <2>4 DEF Surjection
<1>9. QED
  <2>1. \A x : x \in kids <=> x \in Node /\ tree.parent[x] = m
    BY DEF kids
  <2>2. Children(m) \in Seq(Node)
    <3>1. kids \subseteq Node
      BY DEF kids
    <3>2. QED
      BY <1>5, <3>1, SeqMonotonic
  <2>3. QED
    BY <1>5, <1>6, <1>7, <1>8, <2>1, <2>2

\* The stack without its last entry, and with that one's members instead.
LEMMA StackMoves ==
  ASSUME TreeInv, stack \in Seq(Entry), stack # <<>>
  PROVE  /\ Last(stack) \in Entry /\ Last(stack).node \in Node
         /\ Front(stack) \in Seq(Entry) /\ Pushed(Last(stack)) \in Seq(Entry)
<1> DEFINE cur == Last(stack)
           kids == Children(cur.node)
           new == [k \in 1..Len(kids) |-> [node |-> kids[k], level |-> cur.level + 1]]
<1>1. Len(stack) \in Nat /\ Len(stack) # 0
  BY EmptySeq
<1>2. cur \in Entry
  BY <1>1, ElementOfSeq DEF Last
<1>3. cur.node \in Node /\ cur.level \in Nat
  BY <1>2 DEF Entry
<1>4. Front(stack) \in Seq(Entry)
  BY <1>1 DEF Front
<1>5. kids \in Seq(Node) /\ Len(kids) \in Nat
  <2>1. PICK n \in 1..MaxNodes : IsTree(tree, n)
    BY DEF TreeInv
  <2>2. n \in Nat
    BY LimitsAssumption
  <2>3. QED
    BY <2>1, <2>2, ChildrenInOrder
<1>6. new \in Seq(Entry)
  <2>1. ASSUME NEW k \in 1..Len(kids) PROVE [node |-> kids[k], level |-> cur.level + 1] \in Entry
    <3>1. kids[k] \in Node /\ cur.level + 1 \in Nat
      BY <1>3, <1>5, ElementOfSeq
    <3> HIDE DEF kids, cur
    <3>2. QED
      BY <3>1 DEF Entry
  <2> HIDE DEF kids, cur
  <2>2. new \in [1..Len(kids) -> Entry]
    BY <2>1
  <2> HIDE DEF new
  <2>3. QED
    BY <1>5, <2>2, FunctionIsSeq
<1>7. Pushed(cur) = Front(stack) \o new
  BY DEF Pushed
<1> HIDE DEF kids, new, cur
<1>8. Pushed(cur) \in Seq(Entry)
  BY <1>4, <1>6, <1>7, ConcatProperties
<1>9. QED
  BY <1>2, <1>3, <1>4, <1>8 DEF cur

\* A node that is pushed at last.
LEMMA RootEntry ==
  ASSUME TreeInv
  PROVE  1 \in Node /\ <<[node |-> 1, level |-> ArgumentsLevel]>> \in Seq(Entry)
<1>1. PICK n \in 1..MaxNodes : IsTree(tree, n)
  BY DEF TreeInv
<1>2. n \in Nat /\ 1 \in 1..n
  BY LimitsAssumption
<1>3. 1 \in Node
  BY <1>1, <1>2, NodesNumbered
<1>4. [node |-> 1, level |-> ArgumentsLevel] \in Entry
  BY <1>3 DEF Entry, ArgumentsLevel
<1>5. QED
  BY <1>3, <1>4

\* What is left of a piece behind its overlap.
LEMMA OverlapDropped ==
  ASSUME NEW S, NEW p \in Seq(S)
  PROVE  /\ WithoutOverlap(p) \in Seq(S)
         /\ Range(WithoutOverlap(p)) \subseteq Range(p)
         /\ Len(p) >= Overlap => /\ Len(WithoutOverlap(p)) = Len(p) - Overlap
                                 /\ \A i \in 1..Len(p) - Overlap :
                                      WithoutOverlap(p)[i] = p[Overlap + i]
         /\ Len(p) < Overlap => WithoutOverlap(p) = <<>>
<1>1. Len(p) \in Nat /\ Overlap \in Nat
  BY WindowAssumption
<1> DEFINE d == Smaller(Overlap, Len(p))
<1>2. d \in Nat /\ d <= Len(p) /\ (Len(p) >= Overlap => d = Overlap)
      /\ (Len(p) < Overlap => d = Len(p))
  BY <1>1 DEF Smaller
<1>3. WithoutOverlap(p) = SubSeq(p, d + 1, Len(p))
  BY DEF WithoutOverlap
<1> HIDE DEF d
<1>4. \A i \in d + 1..Len(p) : p[i] \in S
  BY <1>1, <1>2, ElementOfSeq
<1>5. /\ SubSeq(p, d + 1, Len(p)) \in Seq(S)
      /\ Len(SubSeq(p, d + 1, Len(p))) = Len(p) - d
      /\ \A i \in 1..Len(p) - d : SubSeq(p, d + 1, Len(p))[i] = p[d + i]
  <2>1. d + 1 \in Int /\ Len(p) \in Int
    BY <1>1, <1>2
  <2>2. /\ SubSeq(p, d + 1, Len(p)) \in Seq(S)
        /\ Len(SubSeq(p, d + 1, Len(p))) =
             IF d + 1 <= Len(p) THEN Len(p) - (d + 1) + 1 ELSE 0
        /\ \A i \in 1..Len(p) - (d + 1) + 1 :
             SubSeq(p, d + 1, Len(p))[i] = p[(d + 1) + i - 1]
    BY <1>4, <2>1, SubSeqProperties
  <2>3. Len(SubSeq(p, d + 1, Len(p))) = Len(p) - d
    BY <1>1, <1>2, <2>2
  <2>4. ASSUME NEW i \in 1..Len(p) - d PROVE SubSeq(p, d + 1, Len(p))[i] = p[d + i]
    <3>1. i \in 1..Len(p) - (d + 1) + 1 /\ (d + 1) + i - 1 = d + i
      BY <1>1, <1>2
    <3>2. QED
      BY <2>2, <3>1
  <2>5. QED
    BY <2>2, <2>3, <2>4
<1>6. Range(WithoutOverlap(p)) \subseteq Range(p)
  <2>1. DOMAIN WithoutOverlap(p) = 1..Len(p) - d /\ DOMAIN p = 1..Len(p)
    BY <1>1, <1>2, <1>3, <1>5
  <2>2. \A i \in 1..Len(p) - d : d + i \in 1..Len(p)
    BY <1>1, <1>2
  <2>3. QED
    BY <1>3, <1>5, <2>1, <2>2 DEF Range
<1>7. Len(p) < Overlap => WithoutOverlap(p) = <<>>
  <2>1. SUFFICES ASSUME Len(p) < Overlap PROVE WithoutOverlap(p) = <<>>
    OBVIOUS
  <2>2. Len(SubSeq(p, d + 1, Len(p))) = 0
    BY <1>1, <1>2, <1>5, <2>1
  <2>3. QED
    BY <1>3, <1>5, <2>2, EmptySeq
<1>8. QED
  BY <1>2, <1>3, <1>5, <1>6, <1>7

\* All variables have their types at first.
LEMMA TypeInit == Init => TypeInv
<1> SUFFICES ASSUME Init PROVE TypeInv
  OBVIOUS
<1>1. TreeInv
  BY DEF Init, TreeInv, Trees
<1>2. ControlInv
  BY DEF Init, ControlInv
<1>3. WalkInv
  BY <1>1, RootEntry DEF Init, WalkInv
<1>4. TextInv
  <2>1. IsText(NoText)
    BY DEF IsText, NoText
  <2>2. out \in Seq(0..text.len)
    BY EmptySeq DEF Init
  <2>3. IsText(text) /\ start = 0 /\ found = 0
    BY <2>1 DEF Init
  <2>4. late \in BOOLEAN
    BY Zenon DEF Init
  <2>5. QED
    BY <2>2, <2>3, <2>4 DEF TextInv
<1>5. QED
  BY <1>1, <1>2, <1>3, <1>4 DEF TypeInv

\* The tree, the patterns' engine and the replacement stay.
LEMMA TreeStays ==
  ASSUME TreeInv, [Next]_vars
  PROVE  TreeInv' /\ tree' = tree /\ native' = native /\ mark' = mark /\ Entry' = Entry
<1>1. tree' = tree /\ native' = native /\ mark' = mark
  BY DEF Next, MeasureNode, Measured, VisitNode, VisitString, Decide, ScanWhole, NativeTimeout,
         ScanWindow, Deadline, Store, vars
<1>2. QED
  BY <1>1 DEF TreeInv, Entry, Node

\* Every step leaves the control variables typed.
LEMMA ControlStep ==
  ASSUME ControlInv, [Next]_vars
  PROVE  ControlInv'
BY DEF ControlInv, Next, MeasureNode, Measured, Judge, VisitNode, VisitString, Decide, ScanWhole,
       NativeTimeout, ScanWindow, Deadline, Store, vars

\* And what the two walks keep.
LEMMA WalkStep ==
  ASSUME TypeInv, [Next]_vars
  PROVE  WalkInv'
<1>1. TreeInv /\ ControlInv /\ WalkInv /\ tree' = tree /\ Entry' = Entry /\ Node' = Node
  BY TreeStays DEF TypeInv, Node
<1>2. CASE MeasureNode
  <2>1. Last(stack) \in Entry /\ Pushed(Last(stack)) \in Seq(Entry)
    BY <1>1, <1>2, StackMoves DEF WalkInv, MeasureNode
  <2>2. deepest' \in Nat
    BY <1>1, <1>2, <2>1 DEF WalkInv, MeasureNode, Larger, Entry
  <2>3. /\ stack' \in {stack, Pushed(Last(stack)), <<[node |-> 1, level |-> ArgumentsLevel]>>}
        /\ pc' \in {"depth", "walk", "done"}
    BY <1>2 DEF MeasureNode, Judge
  <2>4. stack' \in Seq(Entry)
    BY <1>1, <2>1, <2>3, RootEntry DEF WalkInv
  <2>5. UNCHANGED <<visited, redacted, at>>
    BY <1>2 DEF MeasureNode, scanVars
  <2> HIDE DEF Entry
  <2>6. QED
    BY <1>1, <2>2, <2>3, <2>4, <2>5 DEF WalkInv
<1>3. CASE Measured
  <2>1. /\ stack' \in {stack, <<[node |-> 1, level |-> ArgumentsLevel]>>}
        /\ pc' \in {"walk", "done"}
    BY <1>3 DEF Measured, Judge
  <2>2. stack' \in Seq(Entry)
    BY <1>1, <2>1, RootEntry DEF WalkInv
  <2>3. UNCHANGED <<visited, redacted, at, deepest>>
    BY <1>3 DEF Measured, scanVars
  <2>4. QED
    BY <1>1, <2>1, <2>2, <2>3 DEF WalkInv
<1>4. CASE VisitNode
  <2>1. Last(stack).node \in Node /\ Pushed(Last(stack)) \in Seq(Entry)
    BY <1>1, <1>4, StackMoves DEF WalkInv, VisitNode, Walking
  <2>2. /\ stack' = Pushed(Last(stack)) /\ visited' = visited \cup {Last(stack).node}
        /\ UNCHANGED <<redacted, at, deepest, pc>>
    BY <1>4 DEF VisitNode, scanVars
  <2>3. QED
    BY <1>1, <2>1, <2>2 DEF WalkInv
<1>5. CASE VisitString
  <2>1. Last(stack).node \in Node /\ Front(stack) \in Seq(Entry)
    BY <1>1, <1>5, StackMoves DEF WalkInv, VisitString, Walking
  <2>2. /\ stack' = Front(stack) /\ visited' = visited \cup {Last(stack).node}
        /\ at' = Last(stack).node /\ at' \in tree.strings
        /\ UNCHANGED <<redacted, deepest>>
    BY <1>5 DEF VisitString
  <2>3. QED
    BY <1>1, <2>1, <2>2 DEF WalkInv
<1>6. CASE Decide
  BY <1>1, <1>6 DEF WalkInv, Decide, scanVars
<1>7. CASE ScanWhole
  BY <1>1, <1>7 DEF WalkInv, ScanWhole
<1>8. CASE NativeTimeout
  BY <1>1, <1>8 DEF WalkInv, NativeTimeout
<1>9. CASE ScanWindow
  BY <1>1, <1>9 DEF WalkInv, ScanWindow
<1>10. CASE Deadline
  BY <1>1, <1>10 DEF WalkInv, Deadline
<1>11. CASE Store
  BY <1>1, <1>11 DEF WalkInv, Store
<1>12. CASE UNCHANGED vars
  BY <1>1, <1>12 DEF WalkInv, vars, scanVars
<1>13. QED
  BY <1>2, <1>3, <1>4, <1>5, <1>6, <1>7, <1>8, <1>9, <1>10, <1>11, <1>12 DEF Next

\* The replacement is no text.
LEMMA MarkType ==
  ASSUME TreeInv, NEW n \in Nat
  PROVE  Mark \in Seq(0..n) /\ \A x \in Range(Mark) : x = 0
<1>1. mark \in Nat
  BY MarksAssumption DEF TreeInv
<1>2. Mark \in [1..mark -> 0..n] /\ \A i \in 1..mark : Mark[i] = 0
  BY DEF Mark
<1>3. QED
  BY <1>1, <1>2, FunctionIsSeq DEF Range

\* And what a scan keeps.
LEMMA TextStep ==
  ASSUME TypeInv, [Next]_vars
  PROVE  TextInv'
<1>1. TextInv /\ TreeInv /\ text.len \in Nat /\ mark \in Nat
  BY MarksAssumption DEF TypeInv, TextInv, IsText, TreeInv
<1>2. Mark \in Seq(0..text.len)
  BY <1>1, MarkType
<1>3. CASE VisitString \/ Store
  <2>1. IsText(text') /\ start' = 0 /\ out' = <<>> /\ found' = 0 /\ late' = FALSE
    BY <1>3, TextsAssumption DEF VisitString, Store, IsText, NoText
  <2>2. out' \in Seq(0..text'.len)
    BY <2>1, EmptySeq
  <2>3. late' \in BOOLEAN
    BY <2>1, Zenon
  <2>4. QED
    BY <2>1, <2>2, <2>3 DEF TextInv
<1>4. CASE ScanWhole
  <2>1. Subn(0, text.len) \in Seq(0..text.len)
    <3>1. IsText(text) /\ 0 \in Nat /\ text.len <= text.len
      BY <1>1 DEF TextInv
    <3>2. Piece(text, mark, 0, text.len) \in Seq(0..text.len)
      BY <1>1, <3>1, PieceType, Zenon
    <3>3. QED
      BY <3>2, SubnIsPiece
  <2>2. Cardinality(Matches(0, text.len)) \in Nat
    BY <1>1, SubnIsPiece, SecretsFinite, FS_CardinalityType DEF TextInv
  <2>3. /\ out' = Subn(0, text.len) /\ found' = Cardinality(Matches(0, text.len))
        /\ UNCHANGED <<text, start, late>>
    BY <1>4 DEF ScanWhole
  <2>4. QED
    BY <1>1, <2>1, <2>2, <2>3 DEF TextInv
<1>5. CASE NativeTimeout
  BY <1>1, <1>2, <1>5 DEF NativeTimeout, TextInv
<1>6. CASE ScanWindow
  <2> DEFINE end == Smaller(start + Window, text.len)
             piece == Subn(start, end)
             more == IF start = 0 THEN piece ELSE WithoutOverlap(piece)
  <2>1. /\ end \in Nat /\ end <= text.len /\ start \in Nat
        /\ end # text.len => end = start + Window /\ end < text.len
    BY <1>1, WindowAssumption DEF TextInv, Smaller
  <2>2. /\ out' = out \o more /\ UNCHANGED <<text, late>>
        /\ found' = found + Cardinality(Matches(start, end))
        /\ start' = start \/ (end # text.len /\ start' = end - Overlap)
    BY <1>6 DEF ScanWindow, NextStart
  <2> HIDE DEF end
  <2>3. piece \in Seq(0..text.len) /\ Cardinality(Matches(start, end)) \in Nat
    <3>1. Piece(text, mark, start, end) \in Seq(0..text.len)
      BY <1>1, <2>1, PieceType DEF TextInv
    <3>2. Cardinality(Cut(text, start, end)) \in Nat
      BY <1>1, SecretsFinite, FS_CardinalityType DEF TextInv
    <3>3. QED
      BY <3>1, <3>2, SubnIsPiece
  <2> HIDE DEF piece
  <2>4. more \in Seq(0..text.len)
    BY <2>3, OverlapDropped
  <2> HIDE DEF more
  <2>5. out' \in Seq(0..text.len) /\ found' \in Nat
    BY <1>1, <2>2, <2>3, <2>4, ConcatProperties DEF TextInv
  <2>6. start' \in Nat /\ (start' > 0 => start' + Overlap < text.len)
    BY <1>1, <2>1, <2>2, WindowAssumption DEF TextInv
  <2>7. QED
    BY <1>1, <2>2, <2>5, <2>6 DEF TextInv
<1>7. CASE Deadline
  <2>1. out \o Mark \in Seq(0..text.len)
    BY <1>1, <1>2, ConcatProperties DEF TextInv
  <2>2. QED
    BY <1>1, <1>7, <2>1 DEF Deadline, Rest, TextInv
<1>8. CASE UNCHANGED scanVars
  BY <1>1, <1>8 DEF TextInv, scanVars
<1>9. QED
  <2>1. MeasureNode \/ Measured \/ VisitNode \/ Decide \/ UNCHANGED vars => UNCHANGED scanVars
    BY DEF MeasureNode, Measured, VisitNode, Decide, vars, scanVars
  <2>2. QED
    BY <1>3, <1>4, <1>5, <1>6, <1>7, <1>8, <2>1 DEF Next

\* So all of them always have their types.
LEMMA TypeInvariant == Spec => []TypeInv
<1>1. TypeInv /\ [Next]_vars => TypeInv'
  BY TreeStays, ControlStep, WalkStep, TextStep DEF TypeInv
<1>2. QED
  BY <1>1, TypeInit, PTL DEF Spec

\* Every variable keeps its type, and no window but the last one ends at the
\* end of the string.
THEOREM TypeCorrect == Spec => []TypeOK
<1>1. TypeInv => TypeOK
  <2> SUFFICES ASSUME TypeInv PROVE TypeOK
    OBVIOUS
  <2>1. PICK n \in 1..MaxNodes : IsTree(tree, n)
    BY DEF TypeInv, TreeInv
  <2>2. Cardinality(Node) = n /\ n <= MaxNodes
    BY <2>1, NodesNumbered, LimitsAssumption
  <2>3. QED
    BY <2>1, <2>2 DEF TypeInv, TreeInv, ControlInv, WalkInv, TextInv, TypeOK, Entry
<1>2. QED
  BY <1>1, TypeInvariant, PTL

-----------------------------------------------------------------------------
(* What a window adds *)

\* Where windows end within the text.
SeamsOf(n, t) ==
  IF n THEN {}
  ELSE {e \in 1..t.len - 1 : \E k \in 1..t.len : e = Overlap + k * (Window - Overlap)}

\* From one seam, a whole window leads to the next.
LEMMA NextSeam ==
  ASSUME NEW n \in BOOLEAN, ~n, NEW t, t.len \in Nat, NEW a \in Nat,
         a = 0 \/ a + Overlap \in SeamsOf(n, t), a + Window < t.len
  PROVE  a + Window \in SeamsOf(n, t)
<1> DEFINE step == Window - Overlap
<1>1. step \in Nat /\ step > 0 /\ Overlap \in Nat /\ Window \in Nat /\ Window = Overlap + step
  BY WindowAssumption
<1> HIDE DEF step
<1>2. PICK k \in Nat : a = k * step
  <2>1. CASE a = 0
    <3>1. 0 * step = 0
      BY <1>1
    <3>2. QED
      BY <2>1, <3>1
  <2>2. CASE a + Overlap \in SeamsOf(n, t)
    <3>1. PICK k \in 1..t.len : a + Overlap = Overlap + k * step
      BY <2>2 DEF SeamsOf, step
    <3>2. k * step \in Nat
      BY <1>1
    <3>3. a = k * step
      BY <1>1, <3>1, <3>2
    <3>4. QED
      BY <3>3
  <2>3. QED
    BY <2>1, <2>2
<1>3. (k + 1) * step = k * step + step /\ k * step \in Nat /\ k <= k * step
  BY <1>1
<1>4. a + Window = Overlap + (k + 1) * step /\ k + 1 \in 1..t.len /\ a + Window \in 1..t.len - 1
  BY <1>1, <1>2, <1>3
<1>5. QED
  BY <1>4 DEF SeamsOf, step

\* If no more than the overlap comes first, it is dropped.
LEMMA OverlapDropsFirst ==
  ASSUME NEW S, NEW x \in Seq(S), NEW y \in Seq(S), Len(x) <= Overlap
  PROVE  /\ Range(WithoutOverlap(x \o y)) \subseteq Range(y)
         /\ Len(x) = Overlap => WithoutOverlap(x \o y) = y
<1> DEFINE p == x \o y
<1>1. /\ p \in Seq(S) /\ Len(p) = Len(x) + Len(y) /\ Len(x) \in Nat /\ Len(y) \in Nat
      /\ \A i \in 1..Len(x) + Len(y) : p[i] = IF i <= Len(x) THEN x[i] ELSE y[i - Len(x)]
  BY ConcatProperties
<1>2. Overlap \in Nat
  BY WindowAssumption
<1> HIDE DEF p
<1>3. /\ WithoutOverlap(p) \in Seq(S)
      /\ Len(p) >= Overlap => /\ Len(WithoutOverlap(p)) = Len(p) - Overlap
                              /\ \A i \in 1..Len(p) - Overlap :
                                   WithoutOverlap(p)[i] = p[Overlap + i]
      /\ Len(p) < Overlap => WithoutOverlap(p) = <<>>
  BY <1>1, OverlapDropped
<1>4. CASE Len(p) < Overlap
  <2>1. Range(<<>>) = {}
    BY DEF Range
  <2>2. QED
    BY <1>1, <1>2, <1>3, <1>4, <2>1 DEF p
<1>5. CASE Len(p) >= Overlap
  <2>1. ASSUME NEW i \in 1..Len(p) - Overlap
        PROVE  /\ (Overlap - Len(x)) + i \in 1..Len(y)
               /\ WithoutOverlap(p)[i] = y[(Overlap - Len(x)) + i]
    <3>1. /\ Overlap + i \in 1..Len(x) + Len(y) /\ ~(Overlap + i <= Len(x))
          /\ (Overlap + i) - Len(x) = (Overlap - Len(x)) + i
          /\ (Overlap - Len(x)) + i \in 1..Len(y)
      BY <1>1, <1>2, <1>5
    <3>2. QED
      BY <1>1, <1>3, <1>5, <3>1
  <2>2. DOMAIN WithoutOverlap(p) = 1..Len(p) - Overlap /\ DOMAIN y = 1..Len(y)
    BY <1>1, <1>3, <1>5
  <2>3. Range(WithoutOverlap(p)) \subseteq Range(y)
    BY <2>1, <2>2 DEF Range
  <2>4. ASSUME Len(x) = Overlap PROVE WithoutOverlap(p) = y
    <3>1. Len(WithoutOverlap(p)) = Len(y)
      BY <1>1, <1>2, <1>3, <1>5, <2>4
    <3>2. ASSUME NEW i \in 1..Len(y) PROVE WithoutOverlap(p)[i] = y[i]
      <4>1. i \in 1..Len(p) - Overlap /\ (Overlap - Len(x)) + i = i
        BY <1>1, <1>2, <2>4
      <4>2. QED
        BY <2>1, <4>1
    <3>3. QED
      BY <1>3, <3>1, <3>2, SeqEqual
  <2>5. QED
    BY <2>3, <2>4 DEF p
<1>6. QED
  BY <1>1, <1>2, <1>4, <1>5

\* A character of a secret is shown in a window that has not the whole secret.
LEMMA PieceShows ==
  ASSUME NEW t, IsText(t), NEW m \in Nat, NEW a \in Nat, NEW b \in Nat, b <= t.len,
         NEW s \in t.secrets, NEW p \in s.first..s.last, p \in Range(Piece(t, m, a, b))
  PROVE  /\ a < p /\ p <= b
         /\ s.first <= a \/ s.last > b
<1>1. s.first \in Nat /\ s.last \in Nat /\ s.first > 0 /\ p \in Nat /\ p # 0
  BY DEF IsText
<1>2. a < p /\ p <= b /\ s \notin Cut(t, a, b)
  BY <1>1, PieceType
<1>3. QED
  BY <1>1, <1>2 DEF Cut

\* And one of a secret that the window has the end of is dropped, if the secret
\* ends within the overlap.
LEMMA RestShows ==
  ASSUME NEW t, IsText(t), NEW m \in Nat, NEW a \in Nat, NEW b \in Nat, b <= t.len,
         NEW s \in t.secrets, NEW p \in s.first..s.last,
         p \in Range(WithoutOverlap(Piece(t, m, a, b))), s.first <= a, s.last <= b
  PROVE  s.last > a + Overlap
<1>1. /\ s.first \in Nat /\ s.last \in Nat /\ s.first > 0 /\ p \in Nat /\ p # 0
      /\ Overlap \in Nat /\ t.len \in Nat
  BY WindowAssumption DEF IsText
<1>2. SUFFICES ASSUME s.last <= a + Overlap PROVE FALSE
  BY <1>1
<1> DEFINE c == s.last
<1>3. Piece(t, m, a, b) \in Seq(0..t.len)
  BY PieceType
<1>4. p \in Range(Piece(t, m, a, b))
  BY <1>3, OverlapDropped
<1>5. a < p
  BY <1>4, PieceShows
<1>6. a <= c /\ c <= b /\ c \in Nat /\ p <= c
  BY <1>1, <1>5
<1>7. ASSUME NEW r \in Cut(t, a, b) PROVE c < r.first
  <2>1. /\ r \in t.secrets /\ a < r.first /\ r.first \in Nat /\ r.last \in Nat /\ r.first <= r.last
        /\ r = s \/ r.last < s.first \/ s.last < r.first
    BY DEF Cut, IsText
  <2>2. r # s /\ ~(r.last < s.first)
    BY <1>1, <2>1
  <2>3. QED
    BY <2>1, <2>2
<1>8. Cut(t, a, c) = {}
  <2>1. SUFFICES ASSUME NEW r \in Cut(t, a, c) PROVE FALSE
    OBVIOUS
  <2>2. r \in Cut(t, a, b) /\ r.last <= c /\ r.first <= r.last /\ r.first \in Nat /\ r.last \in Nat
    BY <1>1, <1>6, <2>1 DEF Cut, IsText
  <2>3. QED
    BY <1>6, <1>7, <2>2
<1> HIDE DEF c
<1>9. Piece(t, m, a, b) = Piece(t, m, a, c) \o Piece(t, m, c, b)
  <2>1. Uncut(t, a, c, b)
    BY <1>7 DEF Uncut
  <2>2. Splits(t, a, c, b)
    BY <1>6, <2>1 DEF Splits
  <2>3. Joined(t, m, a, c, b)
    BY <2>2, PieceParts
  <2>4. QED
    BY <2>3 DEF Joined
<1>10. Piece(t, m, a, c) = Plain(a, c)
  BY <1>1, <1>6, <1>8, PieceClean
<1>11. /\ Piece(t, m, a, c) \in Seq(0..t.len) /\ Piece(t, m, c, b) \in Seq(0..t.len)
       /\ Len(Piece(t, m, a, c)) = c - a
  <2>1. c - a \in Nat /\ Plain(a, c) \in [1..c - a -> Nat]
    BY <1>6 DEF Plain
  <2>2. Len(Plain(a, c)) = c - a
    BY <2>1, FunctionIsSeq
  <2>3. c <= t.len
    BY <1>1, <1>6
  <2>4. QED
    BY <1>6, <1>10, <2>2, <2>3, PieceType
<1>12. c - a <= Overlap
  BY <1>1, <1>2, <1>6 DEF c
<1>13. p \in Range(Piece(t, m, c, b))
  BY <1>9, <1>11, <1>12, OverlapDropsFirst
<1>14. c < p
  BY <1>6, <1>13, PieceShows
<1>15. QED
  BY <1>1, <1>6, <1>14

\* What one window adds shows of a secret that lies across one of the seams.
LEMMA WindowShows ==
  ASSUME NEW n \in BOOLEAN, ~n, NEW t, IsText(t), NEW m \in Nat, NEW a \in Nat,
         a = 0 \/ a + Overlap \in SeamsOf(n, t),
         NEW b \in Nat, b = Smaller(a + Window, t.len),
         NEW more, more = IF a = 0 THEN Piece(t, m, a, b) ELSE WithoutOverlap(Piece(t, m, a, b)),
         NEW s \in t.secrets, NEW p \in s.first..s.last, p \in Range(more)
  PROVE  \E e \in SeamsOf(n, t) : s.first <= e /\ e < s.last
<1>1. /\ s.first \in Nat /\ s.last \in Nat /\ s.first > 0 /\ s.last <= t.len /\ p \in Nat
      /\ Overlap \in Nat /\ Window \in Nat /\ t.len \in Nat
  BY WindowAssumption DEF IsText
<1>2. b <= t.len /\ (b < t.len => b = a + Window)
  BY <1>1 DEF Smaller
<1>3. Piece(t, m, a, b) \in Seq(0..t.len)
  BY <1>2, PieceType
<1>4. p \in Range(Piece(t, m, a, b))
  BY <1>3, OverlapDropped
<1>5. a < p /\ p <= b /\ (s.first <= a \/ s.last > b)
  BY <1>2, <1>4, PieceShows
<1>6. CASE s.last > b
  <2>1. b = a + Window /\ a + Window < t.len
    BY <1>1, <1>2, <1>6
  <2>2. b \in SeamsOf(n, t)
    BY <1>1, <2>1, NextSeam
  <2>3. s.first <= b /\ b < s.last
    BY <1>1, <1>5, <1>6
  <2>4. QED
    BY <2>2, <2>3
<1>7. CASE s.first <= a /\ s.last <= b
  <2>1. a # 0
    BY <1>1, <1>7
  <2>2. p \in Range(WithoutOverlap(Piece(t, m, a, b))) /\ a + Overlap \in SeamsOf(n, t)
    BY <2>1
  <2>3. s.last > a + Overlap
    BY <1>2, <1>7, <2>2, RestShows
  <2>4. s.first <= a + Overlap
    BY <1>1, <1>7
  <2>5. QED
    BY <2>2, <2>3, <2>4
<1>8. QED
  BY <1>1, <1>5, <1>6, <1>7

-----------------------------------------------------------------------------
(* What is shown of a secret *)

Shown(S, t, o) ==
  \A s \in t.secrets : (\E p \in s.first..s.last : p \in Range(o)) =>
    \E e \in S : s.first <= e /\ e < s.last

\* A window begins at the front, or a window ended behind what the two share.
PositionInv ==
  pc = "scan" =>
    /\ late = FALSE
    /\ IF start = 0 THEN out = <<>> /\ found = 0 ELSE start + Overlap \in SeamsOf(native, text)
ShownInv == pc \in {"scan", "scanned"} => Shown(SeamsOf(native, text), text, out)

\* Nothing of a secret is shown by a sequence that has none of its places.
LEMMA NoneShown ==
  ASSUME NEW S, NEW t, IsText(t), NEW o, \A x \in Range(o) : x = 0
  PROVE  Shown(S, t, o)
<1>1. \A s \in t.secrets : \A p \in s.first..s.last : p # 0
  BY DEF IsText
<1>2. QED
  BY <1>1 DEF Shown

\* A window keeps the position, and the scan runs out of time but at its end.
LEMMA PositionStep ==
  ASSUME TypeInv, PositionInv, [Next]_vars
  PROVE  PositionInv'
<1>1. /\ TextInv /\ native' = native /\ native \in BOOLEAN
      /\ text.len \in Nat /\ Overlap \in Nat /\ Window \in Nat /\ Overlap < Window
  BY TreeStays, WindowAssumption DEF TypeInv, TreeInv, TextInv, IsText
<1>2. CASE VisitString
  BY <1>2 DEF VisitString, PositionInv
<1>3. CASE ScanWindow
  <2> DEFINE end == Smaller(start + Window, text.len)
  <2>1. CASE end = text.len
    BY <1>3, <2>1 DEF ScanWindow, PositionInv
  <2>2. CASE end # text.len
    <3>1. /\ pc = "scan" /\ ~native /\ start' = end - Overlap /\ text' = text /\ late' = late
      BY <1>3, <2>2 DEF ScanWindow, NextStart
    <3>2. end = start + Window /\ start + Window < text.len /\ start \in Nat
      BY <1>1, <2>2 DEF TextInv, Smaller
    <3>3. start = 0 \/ start + Overlap \in SeamsOf(native, text)
      BY <3>1 DEF PositionInv
    <3>4. start + Window \in SeamsOf(native, text)
      BY <1>1, <3>1, <3>2, <3>3, NextSeam
    <3> HIDE DEF end
    <3>5. start' + Overlap = start + Window /\ start' # 0
      BY <1>1, <3>1, <3>2
    <3>6. late' = FALSE
      BY <3>1 DEF PositionInv
    <3>7. QED
      BY <1>1, <3>1, <3>4, <3>5, <3>6 DEF PositionInv
  <2>3. QED
    BY <2>1, <2>2
<1>4. CASE pc' # "scan"
  BY <1>4 DEF PositionInv
<1>5. CASE UNCHANGED vars
  BY <1>5 DEF PositionInv, vars, scanVars
<1>6. QED
  <2>1. \/ VisitString \/ ScanWindow \/ UNCHANGED vars
        \/ pc' # "scan"
    BY DEF Next, MeasureNode, Measured, Judge, VisitNode, Decide, ScanWhole, NativeTimeout,
           Deadline, Store, Walking
  <2>2. QED
    BY <1>2, <1>3, <1>4, <1>5, <2>1

\* Every step keeps what is shown.
LEMMA ShownStep ==
  ASSUME TypeInv, PositionInv, ShownInv, [Next]_vars
  PROVE  ShownInv'
<1>1. /\ TextInv /\ TreeInv /\ native' = native /\ native \in BOOLEAN /\ mark \in Nat
      /\ text.len \in Nat /\ Overlap \in Nat /\ Window \in Nat /\ Overlap < Window
  BY TreeStays, WindowAssumption, MarksAssumption DEF TypeInv, TreeInv, TextInv, IsText
<1>2. Mark \in Seq(0..text.len) /\ \A x \in Range(Mark) : x = 0
  BY <1>1, MarkType
<1>3. CASE VisitString
  <2>1. out' = <<>> /\ Range(<<>>) = {}
    BY <1>3 DEF VisitString, Range
  <2>2. QED
    BY <2>1 DEF ShownInv, Shown
<1>4. CASE ScanWhole
  <2>1. out' = Piece(text, mark, 0, text.len) /\ text' = text
    BY <1>4, SubnIsPiece DEF ScanWhole
  <2>2. ASSUME NEW s \in text.secrets, NEW p \in s.first..s.last,
               p \in Range(Piece(text, mark, 0, text.len))
        PROVE  FALSE
    <3>1. s.first \in Nat /\ s.first > 0 /\ s.last <= text.len /\ s.last \in Nat
      BY <1>1 DEF TextInv, IsText
    <3>2. IsText(text) /\ 0 \in Nat /\ text.len <= text.len
      BY <1>1 DEF TextInv
    <3>3. s.first <= 0 \/ s.last > text.len
      BY <1>1, <2>2, <3>2, PieceShows
    <3>4. QED
      BY <1>1, <3>1, <3>3
  <2>3. QED
    BY <2>1, <2>2 DEF ShownInv, Shown
<1>5. CASE NativeTimeout
  <2>1. out' = Mark /\ text' = text
    BY <1>5 DEF NativeTimeout
  <2>2. Shown(SeamsOf(native, text), text, Mark)
    BY <1>1, <1>2, NoneShown DEF TextInv
  <2>3. QED
    BY <1>1, <2>1, <2>2 DEF ShownInv
<1>6. CASE ScanWindow
  <2>1. PICK end : end = Smaller(start + Window, text.len)
    OBVIOUS
  <2>2. PICK more : more = IF start = 0 THEN Piece(text, mark, start, end)
                           ELSE WithoutOverlap(Piece(text, mark, start, end))
    OBVIOUS
  <2>3. end \in Nat /\ end <= text.len /\ start \in Nat /\ IsText(text)
    BY <1>1, <2>1 DEF TextInv, Smaller
  <2>4. out' = out \o more /\ text' = text /\ pc = "scan" /\ ~native
    BY <1>6, <2>1, <2>2, SubnIsPiece DEF ScanWindow
  <2>5. out \in Seq(0..text.len) /\ more \in Seq(0..text.len)
    <3>1. Piece(text, mark, start, end) \in Seq(0..text.len)
      BY <1>1, <2>3, PieceType
    <3>2. QED
      BY <1>1, <2>2, <3>1, OverlapDropped DEF TextInv
  <2>6. start = 0 \/ start + Overlap \in SeamsOf(native, text)
    BY <2>4 DEF PositionInv
  <2>7. ASSUME NEW s \in text.secrets, NEW p \in s.first..s.last, p \in Range(out \o more)
        PROVE  \E e \in SeamsOf(native, text) : s.first <= e /\ e < s.last
    <3>1. p \in Range(out) \/ p \in Range(more)
      <4>1. p \in Range(out) \/ \E k \in 1..Len(more) : p = more[k]
        BY <2>5, <2>7, ConcatRange
      <4>2. DOMAIN more = 1..Len(more)
        BY <2>5
      <4>3. QED
        BY <4>1, <4>2 DEF Range
    <3>2. CASE p \in Range(out)
      BY <2>4, <3>2 DEF ShownInv, Shown
    <3>3. CASE p \in Range(more)
      BY <1>1, <2>1, <2>2, <2>3, <2>4, <2>6, <3>3, WindowShows
    <3>4. QED
      BY <3>1, <3>2, <3>3
  <2>8. QED
    BY <1>1, <2>4, <2>7 DEF ShownInv, Shown
<1>7. CASE Deadline
  <2>1. out' = out \o Mark /\ text' = text /\ pc = "scan"
    BY <1>7 DEF Deadline, Rest
  <2>2. ASSUME NEW s \in text.secrets, NEW p \in s.first..s.last, p \in Range(out \o Mark)
        PROVE  p \in Range(out)
    <3>1. p # 0
      BY <1>1 DEF TextInv, IsText
    <3>2. p \in Range(out) \/ \E k \in 1..Len(Mark) : p = Mark[k]
      BY <1>1, <1>2, <2>2, ConcatRange DEF TextInv
    <3>3. DOMAIN Mark = 1..Len(Mark)
      BY <1>2
    <3>4. QED
      BY <1>2, <3>1, <3>2, <3>3 DEF Range
  <2>3. QED
    BY <1>1, <2>1, <2>2 DEF ShownInv, Shown
<1>8. CASE pc' \notin {"scan", "scanned"}
  BY <1>8 DEF ShownInv
<1>9. CASE UNCHANGED vars
  BY <1>9 DEF ShownInv, vars, scanVars
<1>10. QED
  <2>1. \/ VisitString \/ ScanWhole \/ NativeTimeout \/ ScanWindow \/ Deadline \/ UNCHANGED vars
        \/ pc' \notin {"scan", "scanned"}
    BY DEF Next, MeasureNode, Measured, Judge, VisitNode, Decide, Store, Walking
  <2>2. QED
    BY <1>3, <1>4, <1>5, <1>6, <1>7, <1>8, <1>9, <2>1

\* Whatever a scan passes on of a secret, an end of a window splits that secret.
THEOREM OnlySplitSecretsAreShown == Spec => []OnlySplitSecretsShow
<1>1. Init => PositionInv /\ ShownInv
  BY DEF Init, PositionInv, ShownInv
<1>2. TypeInv /\ PositionInv /\ ShownInv /\ [Next]_vars => PositionInv' /\ ShownInv'
  BY PositionStep, ShownStep
<1>3. ShownInv => OnlySplitSecretsShow
  BY DEF ShownInv, Shown, OnlySplitSecretsShow, Seams, SeamsOf
<1>4. QED
  BY <1>1, <1>2, <1>3, TypeInvariant, PTL DEF Spec

-----------------------------------------------------------------------------
(* What is kept of the text *)

Clear(S, t) == \A s \in t.secrets, e \in S : s.last <= e - Overlap \/ e < s.first

\* How far the output has come, where a window begins at a.
Done(a) == IF a = 0 THEN 0 ELSE a + Overlap

\* What a window adds to the output.
Added(t, m, a, b) == IF a = 0 THEN Piece(t, m, a, b) ELSE WithoutOverlap(Piece(t, m, a, b))

\* Where a scan has come to, at its first window or at a seam.
Reached(S, a) == a = 0 \/ Done(a) \in S

\* Text as it is can be split anywhere.
LEMMA PlainSplit ==
  ASSUME NEW a \in Nat, NEW c \in Nat, NEW b \in Nat, a <= c, c <= b
  PROVE  /\ Plain(a, c) \in Seq(Nat) /\ Plain(c, b) \in Seq(Nat) /\ Len(Plain(a, c)) = c - a
         /\ Plain(a, c) \o Plain(c, b) = Plain(a, b)
<1>1. /\ Plain(a, c) \in Seq(Nat) /\ Len(Plain(a, c)) = c - a
      /\ Plain(c, b) \in Seq(Nat) /\ Len(Plain(c, b)) = b - c
      /\ Plain(a, b) \in Seq(Nat) /\ Len(Plain(a, b)) = b - a
  <2>1. ASSUME NEW i \in Nat, NEW j \in Nat, i <= j
        PROVE  Plain(i, j) \in Seq(Nat) /\ Len(Plain(i, j)) = j - i
    <3>1. j - i \in Nat /\ Plain(i, j) \in [1..j - i -> Nat]
      BY <2>1 DEF Plain
    <3>2. QED
      BY <3>1, FunctionIsSeq
  <2>2. a <= b
    OBVIOUS
  <2>3. QED
    BY <2>1, <2>2
<1> DEFINE p == Plain(a, c) \o Plain(c, b)
<1>2. /\ p \in Seq(Nat) /\ Len(p) = (c - a) + (b - c)
      /\ \A i \in 1..(c - a) + (b - c) :
           p[i] = IF i <= c - a THEN Plain(a, c)[i] ELSE Plain(c, b)[i - (c - a)]
  <2>1. /\ p \in Seq(Nat) /\ Len(p) = Len(Plain(a, c)) + Len(Plain(c, b))
        /\ \A i \in 1..Len(Plain(a, c)) + Len(Plain(c, b)) :
             p[i] = IF i <= Len(Plain(a, c)) THEN Plain(a, c)[i]
                    ELSE Plain(c, b)[i - Len(Plain(a, c))]
    BY <1>1, ConcatProperties
  <2> HIDE DEF p
  <2>2. QED
    BY <1>1, <2>1
<1> HIDE DEF p
<1>3. ASSUME NEW i \in 1..b - a PROVE p[i] = Plain(a, b)[i]
  <2>1. i \in 1..(c - a) + (b - c)
    OBVIOUS
  <2>2. Plain(a, b)[i] = a + i
    BY DEF Plain
  <2>3. CASE i <= c - a
    <3>1. Plain(a, c)[i] = a + i
      BY <2>3 DEF Plain
    <3>2. QED
      BY <1>2, <2>1, <2>2, <2>3, <3>1
  <2>4. CASE ~(i <= c - a)
    <3>1. i - (c - a) \in 1..b - c /\ c + (i - (c - a)) = a + i
      BY <2>4
    <3>2. Plain(c, b)[i - (c - a)] = c + (i - (c - a))
      BY <3>1 DEF Plain
    <3>3. QED
      BY <1>2, <2>1, <2>2, <2>4, <3>1, <3>2
  <2>5. QED
    BY <2>3, <2>4
<1>4. Len(p) = b - a
  BY <1>2
<1>5. p = Plain(a, b)
  BY <1>1, <1>2, <1>3, <1>4, SeqEqual
<1>6. QED
  BY <1>1, <1>5 DEF p

\* What a window adds to plain text is the text that follows.
LEMMA WindowIsPlain ==
  ASSUME NEW t, IsText(t), NEW m \in Nat, NEW a \in Nat, NEW b \in Nat, b <= t.len,
         Done(a) <= b, a <= b, Cut(t, a, b) = {}
  PROVE  Plain(0, Done(a)) \o Added(t, m, a, b) = Plain(0, b)
<1> DEFINE more == Added(t, m, a, b)
<1>1. Overlap \in Nat /\ a + Overlap \in Nat /\ a <= a + Overlap
  BY WindowAssumption
<1>2. Piece(t, m, a, b) = Plain(a, b)
  BY PieceClean
<1>3. CASE a = 0
  <2>1. Done(a) = a /\ more = Plain(a, b)
    BY <1>2, <1>3 DEF Done, Added
  <2>2. Plain(a, a) \o Plain(a, b) = Plain(a, b)
    <3>1. a <= a
      OBVIOUS
    <3>2. QED
      BY <3>1, PlainSplit
  <2>3. QED
    BY <1>3, <2>1, <2>2
<1>4. CASE a # 0
  <2> DEFINE c == a + Overlap
  <2>1. Done(a) = c /\ c \in Nat /\ c <= b /\ a <= c /\ c - a = Overlap /\ 0 <= c
    BY <1>1, <1>4 DEF Done
  <2> HIDE DEF c
  <2>2. /\ Plain(a, c) \in Seq(Nat) /\ Plain(c, b) \in Seq(Nat) /\ Len(Plain(a, c)) = Overlap
        /\ Plain(a, c) \o Plain(c, b) = Plain(a, b)
    BY <2>1, PlainSplit
  <2>3. Len(Plain(a, c)) <= Overlap
    BY <1>1, <2>2
  <2>4. WithoutOverlap(Plain(a, c) \o Plain(c, b)) = Plain(c, b)
    BY <2>2, <2>3, OverlapDropsFirst
  <2>5. more = Plain(c, b)
    BY <1>2, <1>4, <2>2, <2>4 DEF Added
  <2>6. Plain(0, c) \o Plain(c, b) = Plain(0, b)
    BY <2>1, PlainSplit
  <2>7. QED
    BY <2>1, <2>5, <2>6
<1>5. QED
  BY <1>3, <1>4

\* Where the output has come to, no secret is split.
LEMMA ClearSplit ==
  ASSUME NEW S, NEW t, IsText(t), Clear(S, t), NEW m \in Nat,
         NEW a \in Nat, Reached(S, a),
         NEW b \in Nat, b <= t.len, Done(a) <= b
  PROVE  Piece(t, m, 0, b) = Piece(t, m, 0, Done(a)) \o Piece(t, m, Done(a), b)
<1> DEFINE c == Done(a)
<1>1. Overlap \in Nat /\ c \in Nat /\ 0 <= c /\ (a = 0 => c = 0)
  BY WindowAssumption DEF Done
<1>2. ASSUME NEW s \in Cut(t, 0, b) PROVE s.last <= c \/ c < s.first
  <2>1. s \in t.secrets /\ s.first \in Nat /\ s.last \in Nat /\ 0 < s.first
    BY DEF Cut, IsText
  <2>2. CASE a = 0
    BY <1>1, <2>1, <2>2
  <2>3. CASE c \in S
    <3>1. s.last <= c - Overlap \/ c < s.first
      BY <2>1, <2>3 DEF Clear
    <3> HIDE DEF c
    <3>2. QED
      BY <1>1, <2>1, <3>1
  <2>4. QED
    BY <2>2, <2>3 DEF Reached
<1>3. c <= b /\ 0 \in Nat
  OBVIOUS
<1> HIDE DEF c
<1>4. Piece(t, m, 0, b) = Piece(t, m, 0, c) \o Piece(t, m, c, b)
  <2>1. Uncut(t, 0, c, b)
    BY <1>2 DEF Uncut
  <2>2. Splits(t, 0, c, b)
    BY <1>1, <1>3, <2>1 DEF Splits
  <2>3. Joined(t, m, 0, c, b)
    BY <2>2, PieceParts
  <2>4. QED
    BY <2>3 DEF Joined
<1>5. QED
  BY <1>4 DEF c

\* Without the overlap, what one pass makes of the text behind it is left.
LEMMA OverlapIsPiece ==
  ASSUME NEW t, IsText(t), NEW m \in Nat,
         NEW a \in Nat, a # 0, NEW b \in Nat, Done(a) <= b, b <= t.len,
         \A s \in t.secrets : s.last <= a \/ Done(a) < s.first
  PROVE  WithoutOverlap(Piece(t, m, a, b)) = Piece(t, m, Done(a), b)
<1>1. /\ a <= Done(a) /\ Done(a) <= b /\ Done(a) <= t.len /\ b <= t.len /\ Done(a) \in Nat
  BY WindowAssumption DEF IsText, Done
<1>2. \A s \in t.secrets : s.first \in Nat /\ s.last \in Nat /\ s.first <= s.last
  BY DEF IsText
<1>3. Cut(t, a, Done(a)) = {}
  BY <1>1, <1>2 DEF Cut
<1>4. Uncut(t, a, Done(a), b)
  BY <1>1, <1>2 DEF Cut, Uncut
<1>5. Piece(t, m, a, b) = Piece(t, m, a, Done(a)) \o Piece(t, m, Done(a), b)
  <2>1. Splits(t, a, Done(a), b)
    BY <1>1, <1>4 DEF Splits
  <2>2. Joined(t, m, a, Done(a), b)
    BY <2>1, PieceParts
  <2>3. QED
    BY <2>2 DEF Joined
<1>6. Piece(t, m, a, Done(a)) = Plain(a, Done(a))
  BY <1>1, <1>3, PieceClean
<1>7. Len(Plain(a, Done(a))) = Done(a) - a
  BY <1>1, PlainSplit
<1>8. /\ Piece(t, m, a, Done(a)) \in Seq(0..t.len)
      /\ Piece(t, m, Done(a), b) \in Seq(0..t.len)
  BY <1>1, PieceType
<1>9. /\ Len(Piece(t, m, a, Done(a))) = Overlap
      /\ Len(Piece(t, m, a, Done(a))) <= Overlap
  BY <1>6, <1>7, WindowAssumption DEF Done
<1>10. QED
  BY <1>5, <1>8, <1>9, OverlapDropsFirst

\* What a window adds is what one pass makes of the text that follows.
LEMMA WindowIsPiece ==
  ASSUME NEW S, NEW t, IsText(t), Clear(S, t), NEW m \in Nat,
         NEW a \in Nat, Reached(S, a),
         NEW b \in Nat, b <= t.len, Done(a) <= b
  PROVE  Piece(t, m, 0, Done(a)) \o Added(t, m, a, b) = Piece(t, m, 0, b)
<1>1. Added(t, m, a, b) = Piece(t, m, Done(a), b)
  <2>1. CASE a = 0
    BY <2>1 DEF Done, Added
  <2>2. CASE a # 0
    <3>1. Done(a) \in S /\ Done(a) - Overlap = a
      BY <2>2, WindowAssumption DEF Done, Reached
    <3>2. \A s \in t.secrets : s.last <= a \/ Done(a) < s.first
      BY <3>1 DEF Clear
    <3>3. WithoutOverlap(Piece(t, m, a, b)) = Piece(t, m, Done(a), b)
      BY <2>2, <3>2, OverlapIsPiece
    <3>4. QED
      BY <2>2, <3>3 DEF Added
  <2>3. QED
    BY <2>1, <2>2
<1>2. Piece(t, m, 0, b) = Piece(t, m, 0, Done(a)) \o Piece(t, m, Done(a), b)
  BY ClearSplit
<1>3. QED
  BY <1>1, <1>2

\* The output is what one pass makes of the text up to c, or of the whole text.
KeptTo(c) ==
  /\ Clear(SeamsOf(native, text), text) => out = Piece(text, mark, 0, c)
  /\ found = 0 => out = Plain(0, c)
CutOff(t, m, o) ==
  \E n \in 0..Len(Piece(t, m, 0, t.len)) :
    o = SubSeq(Piece(t, m, 0, t.len), 1, n) \o [k \in 1..m |-> 0]
KeptInv ==
  /\ pc = "scan" => KeptTo(Done(start))
  /\ pc = "scanned" /\ ~late => KeptTo(text.len)
  /\ pc = "scanned" /\ late =>
       /\ found > 0
       /\ Clear(SeamsOf(native, text), text) => CutOff(text, mark, out)

\* The places that are scanned are within the text.
LEMMA ScanFacts ==
  ASSUME TypeInv, [Next]_vars
  PROVE  /\ IsText(text) /\ text.len \in Nat /\ mark \in Nat /\ start \in Nat /\ found \in Nat
         /\ Done(start) \in Nat /\ Done(start) <= text.len /\ (start = 0 => Done(start) = 0)
         /\ (start # 0 => Done(start) < text.len)
         /\ native \in BOOLEAN /\ native' = native /\ mark' = mark
         /\ 0 \in Nat /\ out \in Seq(0..text.len)
         /\ Overlap \in Nat /\ Window \in Nat /\ Overlap < Window
<1>1. TreeInv /\ TextInv /\ native' = native /\ mark' = mark
  BY TreeStays DEF TypeInv
<1>2. text.len \in Nat /\ mark \in Nat
  BY <1>1, MarksAssumption DEF TreeInv, TextInv, IsText
<1>3. QED
  BY <1>1, <1>2, WindowAssumption DEF TreeInv, TextInv, Done

\* A window keeps what the output is.
LEMMA WindowKeeps ==
  ASSUME TypeInv, PositionInv, KeptInv, ScanWindow
  PROVE  KeptInv'
<1>1. /\ IsText(text) /\ text.len \in Nat /\ mark \in Nat /\ start \in Nat /\ found \in Nat
      /\ Done(start) \in Nat /\ Done(start) <= text.len /\ (start = 0 => Done(start) = 0)
      /\ (start # 0 => Done(start) < text.len)
      /\ native \in BOOLEAN /\ native' = native /\ mark' = mark
      /\ Overlap \in Nat /\ Window \in Nat /\ Overlap < Window
  <2>1. [Next]_vars
    BY DEF Next
  <2>2. QED
    BY <2>1, ScanFacts
<1>2. PICK end : end = Smaller(start + Window, text.len)
  OBVIOUS
<1>3. PICK more : more = Added(text, mark, start, end)
  OBVIOUS
<1>4. /\ out' = out \o more /\ text' = text /\ late' = late /\ pc = "scan"
      /\ found' = found + Cardinality(Cut(text, start, end))
      /\ \/ end = text.len /\ pc' = "scanned"
         \/ end # text.len /\ pc' = "scan" /\ start' = end - Overlap
  BY <1>2, <1>3, SubnIsPiece DEF ScanWindow, NextStart, Added
<1>5. /\ end \in Nat /\ end <= text.len /\ Done(start) <= end /\ start <= end
      /\ end # text.len => end = start + Window
  BY <1>1, <1>2 DEF Smaller, Done
<1>6. KeptTo(Done(start)) /\ late = FALSE /\ Reached(SeamsOf(native, text), start)
  BY <1>4 DEF KeptInv, PositionInv, Done, Reached
<1>7. ASSUME Clear(SeamsOf(native, text), text) PROVE out \o more = Piece(text, mark, 0, end)
  <2>1. out = Piece(text, mark, 0, Done(start))
    BY <1>6, <1>7 DEF KeptTo
  <2>2. Piece(text, mark, 0, Done(start)) \o more = Piece(text, mark, 0, end)
    <3>1. /\ IsText(text) /\ mark \in Nat /\ start \in Nat /\ end \in Nat
          /\ end <= text.len /\ Done(start) <= end
      BY <1>1, <1>5
    <3>2. Reached(SeamsOf(native, text), start)
      BY <1>6
    <3>3. Piece(text, mark, 0, Done(start)) \o Added(text, mark, start, end)
            = Piece(text, mark, 0, end)
      BY <1>7, <3>1, <3>2, WindowIsPiece
    <3>4. QED
      BY <1>3, <3>3
  <2>3. QED
    BY <2>1, <2>2
<1>8. ASSUME found' = 0 PROVE out \o more = Plain(0, end)
  <2>1. IsFiniteSet(Cut(text, start, end)) /\ Cardinality(Cut(text, start, end)) \in Nat
    BY <1>1, SecretsFinite, FS_CardinalityType
  <2>2. found = 0 /\ Cardinality(Cut(text, start, end)) = 0
    BY <1>1, <1>4, <1>8, <2>1
  <2>3. Cut(text, start, end) = {}
    BY <2>1, <2>2, FS_EmptySet
  <2>4. out = Plain(0, Done(start))
    BY <1>6, <2>2 DEF KeptTo
  <2>5. Plain(0, Done(start)) \o more = Plain(0, end)
    <3>1. /\ IsText(text) /\ mark \in Nat /\ start \in Nat /\ end \in Nat
          /\ end <= text.len /\ Done(start) <= end /\ start <= end
      BY <1>1, <1>5
    <3>2. Plain(0, Done(start)) \o Added(text, mark, start, end) = Plain(0, end)
      BY <2>3, <3>1, WindowIsPlain
    <3>3. QED
      BY <1>3, <3>2
  <2>6. QED
    BY <2>4, <2>5
<1>9. /\ Clear(SeamsOf(native', text'), text') => out' = Piece(text', mark', 0, end)
      /\ found' = 0 => out' = Plain(0, end)
  BY <1>1, <1>4, <1>7, <1>8
<1>10. CASE end = text.len
  BY <1>4, <1>6, <1>9, <1>10 DEF KeptInv, KeptTo
<1>11. CASE end # text.len
  <2>1. start' \in Nat /\ start' # 0 /\ Done(start') = end
    BY <1>1, <1>4, <1>5, <1>11 DEF Done
  <2>2. QED
    BY <1>4, <1>9, <1>11, <2>1 DEF KeptInv, KeptTo
<1>12. QED
  BY <1>10, <1>11

\* And so does every other step.
LEMMA KeptStep ==
  ASSUME TypeInv, PositionInv, KeptInv, [Next]_vars
  PROVE  KeptInv'
<1>1. /\ IsText(text) /\ text.len \in Nat /\ mark \in Nat /\ start \in Nat /\ found \in Nat
      /\ Done(start) \in Nat /\ Done(start) <= text.len /\ (start = 0 => Done(start) = 0)
      /\ native \in BOOLEAN /\ native' = native /\ mark' = mark
      /\ 0 \in Nat /\ out \in Seq(0..text.len)
  BY ScanFacts
<1> DEFINE one == Piece(text, mark, 0, text.len)
<1>2. one \in Seq(0..text.len) /\ Len(one) \in Nat
  <2>1. text.len <= text.len
    BY <1>1
  <2>2. one \in Seq(0..text.len)
    BY <1>1, <2>1, PieceType
  <2>3. QED
    BY <2>2
<1>3. CASE VisitString
  <2>1. pc' = "scan" /\ start' = 0 /\ out' = <<>> /\ Done(start') = 0 /\ IsText(text')
    BY <1>3, TextsAssumption DEF VisitString, Done
  <2>2. Piece(text', mark', 0, 0) = <<>> /\ Plain(0, 0) = <<>>
    <3>1. PICK t, m : t = text' /\ m = mark'
      OBVIOUS
    <3>2. IsText(t) /\ m \in Nat /\ 0 <= t.len /\ 0 \in Nat /\ 0 <= 0
      BY <1>1, <2>1, <3>1 DEF IsText
    <3>3. Cut(t, 0, 0) = {}
      BY <3>2 DEF Cut, IsText
    <3>4. Piece(t, m, 0, 0) = Plain(0, 0)
      BY <3>2, <3>3, PieceClean
    <3>5. Plain(0, 0) = <<>>
      BY DEF Plain
    <3>6. QED
      BY <3>1, <3>4, <3>5
  <2>3. QED
    BY <2>1, <2>2 DEF KeptInv, KeptTo
<1>4. CASE ScanWhole
  <2>1. /\ out' = one /\ text' = text /\ late' = late /\ pc = "scan" /\ pc' = "scanned"
        /\ found' = Cardinality(Cut(text, 0, text.len))
    BY <1>4, SubnIsPiece DEF ScanWhole
  <2>2. late = FALSE
    BY <2>1 DEF PositionInv
  <2>3. found' = 0 => out' = Plain(0, text.len)
    <3>1. SUFFICES ASSUME found' = 0 PROVE one = Plain(0, text.len)
      BY <2>1
    <3>2. Cut(text, 0, text.len) = {}
      BY <1>1, <2>1, <3>1, SecretsFinite, FS_EmptySet
    <3>3. 0 <= text.len /\ text.len <= text.len
      BY <1>1
    <3>4. QED
      BY <1>1, <3>2, <3>3, PieceClean
  <2>4. QED
    BY <1>1, <2>1, <2>2, <2>3 DEF KeptInv, KeptTo
<1>5. CASE NativeTimeout
  <2>1. /\ out' = [k \in 1..mark |-> 0] /\ text' = text /\ late' = TRUE
        /\ pc' = "scanned" /\ found' = 1
    BY <1>5 DEF NativeTimeout, Mark
  <2>2. SubSeq(one, 1, 0) = <<>>
    BY SubSeqEmpty
  <2>3. [k \in 1..mark |-> 0] \in Seq(0..0)
    BY <1>1
  <2>4. SubSeq(one, 1, 0) \o [k \in 1..mark |-> 0] = [k \in 1..mark |-> 0]
    BY <2>2, <2>3, ConcatEmptySeq
  <2>5. 0 \in 0..Len(one)
    BY <1>2
  <2>6. CutOff(text, mark, [k \in 1..mark |-> 0])
    BY <2>4, <2>5 DEF CutOff
  <2>7. QED
    BY <1>1, <2>1, <2>6 DEF KeptInv
<1>6. CASE ScanWindow
  BY <1>6, WindowKeeps
<1>7. CASE Deadline
  <2>1. /\ out' = out \o [k \in 1..mark |-> 0] /\ text' = text /\ late' = TRUE
        /\ pc = "scan" /\ pc' = "scanned" /\ found' = found + 1
    BY <1>7 DEF Deadline, Rest, Mark
  <2>2. ASSUME Clear(SeamsOf(native, text), text)
        PROVE  CutOff(text, mark, out \o [k \in 1..mark |-> 0])
    <3>1. Reached(SeamsOf(native, text), start)
      BY <2>1 DEF PositionInv, Done, Reached
    <3>2. one = Piece(text, mark, 0, Done(start)) \o Piece(text, mark, Done(start), text.len)
      <4>1. PICK b : b = text.len
        OBVIOUS
      <4>2. /\ IsText(text) /\ mark \in Nat /\ start \in Nat /\ b \in Nat
            /\ b <= text.len /\ Done(start) <= b
        BY <1>1, <4>1
      <4>3. Piece(text, mark, 0, b)
              = Piece(text, mark, 0, Done(start)) \o Piece(text, mark, Done(start), b)
        BY <2>2, <3>1, <4>2, ClearSplit
      <4>4. QED
        BY <4>1, <4>3
    <3>3. out = Piece(text, mark, 0, Done(start))
      BY <2>1, <2>2 DEF KeptInv, KeptTo
    <3>4. Piece(text, mark, Done(start), text.len) \in Seq(0..text.len)
      <4>1. /\ IsText(text) /\ mark \in Nat /\ Done(start) \in Nat /\ text.len \in Nat
            /\ text.len <= text.len /\ Done(start) <= text.len
        BY <1>1
      <4>2. QED
        BY <4>1, PieceType
    <3>5. SubSeq(one, 1, Len(out)) = out /\ Len(out) \in 0..Len(one)
      <4> DEFINE x == Piece(text, mark, Done(start), text.len)
      <4>1. /\ Len(out \o x) = Len(out) + Len(x) /\ Len(out) \in Nat /\ Len(x) \in Nat
            /\ \A i \in 1..Len(out) + Len(x) :
                 (out \o x)[i] = IF i <= Len(out) THEN out[i] ELSE x[i - Len(out)]
        BY <1>1, <3>4, ConcatProperties
      <4>2. \A i \in 1..Len(out) : one[i] = out[i] /\ out[i] \in 0..text.len
        BY <1>1, <3>2, <3>3, <4>1, ElementOfSeq
      <4> HIDE DEF one
      <4>3. /\ SubSeq(one, 1, Len(out)) \in Seq(0..text.len)
            /\ Len(SubSeq(one, 1, Len(out))) = IF 1 <= Len(out) THEN Len(out) - 1 + 1 ELSE 0
            /\ \A i \in 1..Len(out) - 1 + 1 : SubSeq(one, 1, Len(out))[i] = one[1 + i - 1]
        <5>1. 1 \in Int /\ Len(out) \in Int /\ \A i \in 1..Len(out) : one[i] \in 0..text.len
          BY <4>1, <4>2
        <5>2. QED
          BY <5>1, SubSeqProperties
      <4>4. /\ Len(SubSeq(one, 1, Len(out))) = Len(out)
            /\ \A i \in 1..Len(out) : SubSeq(one, 1, Len(out))[i] = out[i]
        BY <4>1, <4>2, <4>3
      <4>5. SubSeq(one, 1, Len(out)) = out
        BY <1>1, <4>3, <4>4, SeqEqual
      <4>6. Len(out) \in 0..Len(one)
        BY <3>2, <3>3, <4>1
      <4>7. QED
        BY <4>5, <4>6
    <3>6. QED
      BY <3>5 DEF CutOff
  <2>3. found' > 0
    BY <1>1, <2>1
  <2>4. QED
    BY <1>1, <2>1, <2>2, <2>3 DEF KeptInv
<1>8. CASE pc' \notin {"scan", "scanned"}
  BY <1>8 DEF KeptInv
<1>9. CASE UNCHANGED vars
  BY <1>9 DEF KeptInv, KeptTo, vars, scanVars
<1>10. QED
  <2>1. \/ VisitString \/ ScanWhole \/ NativeTimeout \/ ScanWindow \/ Deadline \/ UNCHANGED vars
        \/ pc' \notin {"scan", "scanned"}
    BY DEF Next, MeasureNode, Measured, Judge, VisitNode, Decide, Store, Walking
  <2>2. QED
    BY <1>3, <1>4, <1>5, <1>6, <1>7, <1>8, <1>9, <2>1

\* The windows give what one pass gives where no secret touches what two of them
\* share, in time or up to where the deadline cut it off; and text in which nothing
\* was counted is kept as it was.
THEOREM ScanKeepsText == Spec => []TextIsKept
<1>1. Init => PositionInv /\ KeptInv
  BY DEF Init, PositionInv, KeptInv
<1>2. TypeInv /\ PositionInv /\ KeptInv /\ [Next]_vars => PositionInv' /\ KeptInv'
  BY PositionStep, KeptStep
<1>3. TypeInv /\ KeptInv => TextIsKept
  <2> SUFFICES ASSUME TypeInv, KeptInv, pc = "scanned"
               PROVE  /\ SeamsAreClear /\ ~late => out = OnePass
                      /\ SeamsAreClear /\ late =>
                           \E n \in 0..Len(OnePass) : out = SubSeq(OnePass, 1, n) \o Mark
                      /\ found = 0 => out = [p \in 1..text.len |-> p]
    BY DEF TextIsKept
  <2>1. OnePass = Piece(text, mark, 0, text.len)
    BY SubnIsPiece DEF OnePass
  <2>2. Clear(SeamsOf(native, text), text) <=> SeamsAreClear
    BY DEF Clear, SeamsAreClear, Seams, SeamsOf
  <2>3. Plain(0, text.len) = [p \in 1..text.len |-> p]
    <3>1. text.len \in Nat /\ text.len - 0 = text.len
      BY DEF TypeInv, TextInv, IsText
    <3>2. QED
      BY <3>1 DEF Plain
  <2>4. CASE ~late
    BY <2>1, <2>2, <2>3, <2>4 DEF KeptInv, KeptTo
  <2>5. CASE late
    <3>1. found # 0
      BY <2>5 DEF KeptInv, TypeInv, TextInv
    <3>2. SeamsAreClear => CutOff(text, mark, out)
      BY <2>2, <2>5 DEF KeptInv
    <3>3. QED
      BY <2>1, <2>5, <3>1, <3>2 DEF CutOff, Mark
  <2>6. QED
    BY <2>4, <2>5
<1>4. QED
  BY <1>1, <1>2, <1>3, TypeInvariant, PTL DEF Spec

-----------------------------------------------------------------------------
(* The paths of a tree *)

\* The parents of the nodes 1..n, and the path to each node.
Parents(p, n) == p \in [1..n -> 0..n] /\ p[1] = 0 /\ \A i \in 2..n : p[i] \in 1..i - 1
AllPaths(P, p, n) == P = [i \in (1..n) \cup {0} |-> IF i = 0 THEN {} ELSE P[p[i]] \cup {i}]
Paths(P, p, n) == P[0] = {} /\ \A i \in 1..n : P[i] = P[p[i]] \cup {i}

\* A parent comes before its members.
LEMMA ParentFirst ==
  ASSUME NEW n \in Nat, NEW p, Parents(p, n), NEW i \in 1..n
  PROVE  p[i] \in 0..i - 1 /\ p[i] \in 0..n /\ (i # 1 => p[i] \in 1..n /\ p[i] # 0)
<1>1. CASE i = 1
  BY <1>1 DEF Parents
<1>2. CASE i # 1
  BY <1>2 DEF Parents
<1>3. QED
  BY <1>1, <1>2

\* There are such paths.
LEMMA PathsExist ==
  ASSUME NEW n \in Nat, NEW p, Parents(p, n)
  PROVE  \E P : AllPaths(P, p, n)
<1> DEFINE Is(P, m) == /\ DOMAIN P = 0..m /\ P = [i \in DOMAIN P |-> P[i]] /\ P[0] = {}
                       /\ \A i \in 1..m : P[i] = P[p[i]] \cup {i}
           Some(m) == \E P : Is(P, m)
           M == {m \in Nat : m <= n => Some(m)}
<1>1. 0 \in M
  <2>1. Is([i \in 0..0 |-> {}], 0)
    OBVIOUS
  <2>2. QED
    BY <2>1
<1> HIDE DEF Some
<1>2. ASSUME NEW m \in Nat, m \in M PROVE m + 1 \in M
  <2>1. SUFFICES ASSUME m + 1 <= n PROVE Some(m + 1)
    OBVIOUS
  <2>2. PICK P : Is(P, m)
    <3>1. Some(m)
      BY <1>2, <2>1
    <3> HIDE DEF Is
    <3>2. QED
      BY <3>1 DEF Some
  <2> DEFINE Q == [i \in 0..m + 1 |-> IF i = m + 1 THEN P[p[i]] \cup {i} ELSE P[i]]
  <2>3. DOMAIN Q = 0..m + 1 /\ Q = [i \in DOMAIN Q |-> Q[i]]
    OBVIOUS
  <2>4. Q[m + 1] = P[p[m + 1]] \cup {m + 1} /\ \A j \in 0..m : Q[j] = P[j]
    OBVIOUS
  <2> HIDE DEF Q
  <2>5. Q[0] = {} /\ 0 \in 0..m
    BY <2>2, <2>4
  <2>6. ASSUME NEW i \in 1..m + 1 PROVE Q[i] = Q[p[i]] \cup {i}
    <3>1. i \in 1..n
      BY <2>1
    <3>2. p[i] \in 0..m
      BY <3>1, ParentFirst
    <3>3. Q[p[i]] = P[p[i]]
      BY <2>4, <3>2
    <3>4. CASE i = m + 1
      BY <2>4, <3>3, <3>4
    <3>5. CASE i # m + 1
      <4>1. i \in 1..m /\ i \in 0..m
        BY <3>5
      <4>2. Q[i] = P[i]
        BY <2>4, <4>1
      <4>3. P[i] = P[p[i]] \cup {i}
        BY <2>2, <4>1
      <4> HIDE DEF Is
      <4>4. QED
        BY <3>3, <4>2, <4>3
    <3>6. QED
      BY <3>4, <3>5
  <2>7. Is(Q, m + 1)
    BY <2>3, <2>5, <2>6
  <2> HIDE DEF Is
  <2>8. QED
    BY <2>7 DEF Some
<1> HIDE DEF M
<1>3. \A m \in Nat : m \in M
  BY <1>1, <1>2, SetInduction
<1>4. PICK P : Is(P, n)
  <2>1. Some(n)
    BY <1>3 DEF M
  <2> HIDE DEF Is
  <2>2. QED
    BY <2>1 DEF Some
<1>5. DOMAIN P = (1..n) \cup {0} /\ P = [i \in DOMAIN P |-> P[i]]
  BY <1>4
<1>6. \A i \in (1..n) \cup {0} : P[i] = IF i = 0 THEN {} ELSE P[p[i]] \cup {i}
  BY <1>4
<1> HIDE DEF Is
<1>7. AllPaths(P, p, n)
  BY <1>5, <1>6 DEF AllPaths
<1>8. QED
  BY <1>7

\* Path is made of the paths of the arguments.
LEMMA PathIsPaths ==
  ASSUME TreeInv
  PROVE  \E n \in 1..MaxNodes :
           Parents(tree.parent, n) /\ Node = 1..n /\ Paths(Path, tree.parent, n)
<1>1. PICK n \in 1..MaxNodes : IsTree(tree, n)
  BY DEF TreeInv
<1>2. n \in Nat /\ Parents(tree.parent, n) /\ Node = 1..n
  BY <1>1, LimitsAssumption DEF IsTree, Parents, Node
<1>3. \E P : AllPaths(P, tree.parent, n)
  BY <1>2, PathsExist
<1>4. Path = CHOOSE P : AllPaths(P, tree.parent, n)
  BY <1>2 DEF Path, AllPaths
<1>5. AllPaths(Path, tree.parent, n)
  BY <1>3, <1>4
<1>6. \A i \in (1..n) \cup {0} : Path[i] = IF i = 0 THEN {} ELSE Path[tree.parent[i]] \cup {i}
  BY <1>5 DEF AllPaths
<1>7. Paths(Path, tree.parent, n)
  <2>1. Path[0] = {}
    BY <1>6
  <2>2. ASSUME NEW i \in 1..n PROVE Path[i] = Path[tree.parent[i]] \cup {i}
    <3>1. i \in (1..n) \cup {0} /\ i # 0
      BY <1>2
    <3>2. Path[i] = IF i = 0 THEN {} ELSE Path[tree.parent[i]] \cup {i}
      BY <1>6, <3>1
    <3>3. QED
      BY <3>1, <3>2, Zenon
  <2>3. QED
    BY <2>1, <2>2 DEF Paths
<1>8. QED
  BY <1>2, <1>7

\* A path leads from the root to its node, and down.
LEMMA PathEnds ==
  ASSUME NEW n \in Nat, NEW p, NEW P, Parents(p, n), Paths(P, p, n)
  PROVE  \A i \in 1..n : P[i] \subseteq 1..i /\ i \in P[i] /\ 1 \in P[i]
<1> DEFINE S == {i \in 1..n : P[i] \subseteq 1..i /\ i \in P[i] /\ 1 \in P[i]}
<1>1. ASSUME NEW i \in 1..n, \A j \in 1..i - 1 : j \in S PROVE i \in S
  <2>1. P[i] = P[p[i]] \cup {i}
    BY DEF Paths
  <2>2. CASE i = 1
    <3>1. P[p[i]] = {}
      BY <2>2 DEF Parents, Paths
    <3>2. QED
      BY <2>1, <2>2, <3>1
  <2>3. CASE i # 1
    <3>1. p[i] \in 1..i - 1
      BY <2>3 DEF Parents
    <3>2. P[p[i]] \subseteq 1..p[i] /\ 1 \in P[p[i]]
      BY <1>1, <3>1
    <3>3. 1..p[i] \subseteq 1..i /\ i \in 1..i
      BY <3>1
    <3>4. QED
      BY <2>1, <3>2, <3>3
  <2>4. QED
    BY <2>2, <2>3
<1> HIDE DEF S
<1>2. \A i \in 1..n : i \in S
  BY <1>1, UpTo
<1>3. QED
  BY <1>2 DEF S

\* A path is one longer than that of the parent.
Grows(P, p, i) == /\ IsFiniteSet(P[i]) /\ Cardinality(P[i]) \in Nat
                  /\ i = 1 => Cardinality(P[i]) = 1
                  /\ i # 1 => \E k \in Nat : /\ Cardinality(P[p[i]]) = k
                                            /\ Cardinality(P[i]) = k + 1
\* A member is one level below its parent.
LEMMA PathGrows ==
  ASSUME NEW n \in Nat, NEW p, NEW P, Parents(p, n), Paths(P, p, n)
  PROVE  \A i \in 1..n : Grows(P, p, i)
<1> SUFFICES ASSUME NEW i \in 1..n PROVE Grows(P, p, i)
  OBVIOUS
<1>1. ASSUME NEW j \in 1..n PROVE IsFiniteSet(P[j]) /\ Cardinality(P[j]) \in Nat
  <2>1. P[j] \subseteq 1..j
    BY PathEnds
  <2>2. IsFiniteSet(1..j)
    BY FS_Interval
  <2>3. QED
    BY <2>1, <2>2, FS_Subset, FS_CardinalityType
<1>2. P[i] = P[p[i]] \cup {i}
  BY DEF Paths
<1>3. CASE i = 1
  <2>1. P[i] = {i}
    BY <1>2, <1>3 DEF Parents, Paths
  <2>2. QED
    BY <1>1, <1>3, <2>1, FS_Singleton DEF Grows
<1>4. CASE i # 1
  <2>1. p[i] \in 1..i - 1 /\ p[i] \in 1..n
    BY <1>4 DEF Parents
  <2>2. P[p[i]] \subseteq 1..p[i]
    BY <2>1, PathEnds
  <2>3. i \notin P[p[i]]
    BY <2>1, <2>2
  <2>4. PICK k \in Nat : IsFiniteSet(P[p[i]]) /\ Cardinality(P[p[i]]) = k
    BY <1>1, <2>1
  <2>5. Cardinality(P[i]) = k + 1
    BY <1>2, <2>3, <2>4, FS_AddElement
  <2>6. QED
    BY <1>1, <1>4, <2>4, <2>5 DEF Grows
<1>5. QED
  BY <1>3, <1>4

\* A path that goes through a node goes on to a member of it, has that node's
\* whole path, and goes through one member of a list.
LEMMA PathMeets ==
  ASSUME NEW n \in Nat, NEW p, NEW P, Parents(p, n), Paths(P, p, n)
  PROVE  \A i \in 1..n :
           /\ \A c \in P[i] : c # i => \E k \in P[i] : p[k] = c
           /\ \A c \in P[i] : P[c] \subseteq P[i]
           /\ \A c, d \in P[i] : p[c] = p[d] => c = d
<1> DEFINE Good(i) == /\ \A c \in P[i] : c # i => \E k \in P[i] : p[k] = c
                      /\ \A c \in P[i] : P[c] \subseteq P[i]
                      /\ \A c, d \in P[i] : p[c] = p[d] => c = d
           S == {i \in 1..n : Good(i)}
<1>1. ASSUME NEW i \in 1..n, \A j \in 1..i - 1 : j \in S PROVE i \in S
  <2>1. P[i] = P[p[i]] \cup {i}
    BY DEF Paths
  <2>2. CASE i = 1
    <3>1. P[i] = {i}
      BY <2>1, <2>2 DEF Parents, Paths
    <3>2. QED
      BY <3>1
  <2>3. CASE i # 1
    <3>1. p[i] \in 1..i - 1 /\ p[i] \in 1..n
      BY <2>3 DEF Parents
    <3>2. Good(p[i])
      <4> HIDE DEF Good
      <4>1. QED
        BY <1>1, <3>1
    <3>3. P[p[i]] \subseteq 1..p[i] /\ p[i] \in P[p[i]]
      BY <3>1, PathEnds
    <3>4. ASSUME NEW c \in P[i], c # i PROVE \E k \in P[i] : p[k] = c
      <4>1. c \in P[p[i]]
        BY <2>1, <3>4
      <4>2. CASE c = p[i]
        BY <2>1, <4>2
      <4>3. CASE c # p[i]
        BY <2>1, <3>2, <4>1, <4>3
      <4>4. QED
        BY <4>2, <4>3
    <3>5. ASSUME NEW c \in P[i] PROVE P[c] \subseteq P[i]
      BY <2>1, <3>2
    <3>6. ASSUME NEW c \in P[i], NEW d \in P[i], p[c] = p[d] PROVE c = d
      <4>1. ASSUME NEW e \in P[p[i]] PROVE p[e] # p[i]
        <5>1. e \in 1..n /\ e \in 1..p[i]
          BY <3>1, <3>3
        <5>2. p[e] \in 0..e - 1
          BY <5>1, ParentFirst
        <5>3. QED
          BY <3>1, <5>1, <5>2
      <4>2. QED
        BY <2>1, <3>2, <3>6, <4>1
    <3>7. Good(i)
      BY <3>4, <3>5, <3>6
    <3> HIDE DEF Good
    <3>8. QED
      BY <3>7
  <2>4. QED
    BY <2>2, <2>3
<1> HIDE DEF S
<1>2. \A i \in 1..n : i \in S
  BY <1>1, UpTo
<1>3. QED
  BY <1>2 DEF S

-----------------------------------------------------------------------------
(* The depth of the arguments *)

\* The paths and levels of the arguments.
LEMMA TreeFacts ==
  ASSUME TreeInv
  PROVE  /\ 1 \in Node /\ Level(1) = ArgumentsLevel /\ Node \subseteq Nat /\ IsFiniteSet(Node)
         /\ \A n \in Node : Level(n) \in Nat /\ n \in Path[n] /\ 1 \in Path[n]
         /\ \A n \in Node, c \in Node : tree.parent[c] = n => Level(c) = Level(n) + 1
         /\ \A n \in Node, c \in Node : tree.parent[c] = n => c > n /\ n \in Path[c]
         /\ \A n \in Node : \A c \in Path[n] :
              /\ c \in Node /\ c <= n /\ Path[c] \subseteq Path[n]
              /\ c # n => \E k \in Path[n] : tree.parent[k] = c
         /\ \A n \in Node : \A c, d \in Path[n] : tree.parent[c] = tree.parent[d] => c = d
<1>1. PICK n \in 1..MaxNodes :
        Parents(tree.parent, n) /\ Node = 1..n /\ Paths(Path, tree.parent, n)
  BY PathIsPaths
<1>2. n \in Nat /\ 1 \in 1..n
  BY LimitsAssumption
<1>3. \A i \in 1..n : Path[i] \subseteq 1..i /\ i \in Path[i] /\ 1 \in Path[i]
  BY <1>1, <1>2, PathEnds
<1>4. \A i \in 1..n : Grows(Path, tree.parent, i)
  BY <1>1, <1>2, PathGrows
<1>5. \A i \in 1..n :
        /\ \A c \in Path[i] : c # i => \E k \in Path[i] : tree.parent[k] = c
        /\ \A c \in Path[i] : Path[c] \subseteq Path[i]
        /\ \A c, d \in Path[i] : tree.parent[c] = tree.parent[d] => c = d
  BY <1>1, <1>2, PathMeets
<1>6. ASSUME NEW i \in 1..n PROVE tree.parent[i] \in 0..i - 1 /\ (i = 1 => tree.parent[i] = 0)
  BY <1>1, <1>2, ParentFirst
<1>7. Level(1) = ArgumentsLevel
  BY <1>2, <1>4 DEF Grows, Level, ArgumentsLevel
<1>8. ASSUME NEW i \in 1..n PROVE Level(i) \in Nat /\ i \in Path[i] /\ 1 \in Path[i]
  BY <1>3, <1>4 DEF Grows, Level, ArgumentsLevel
<1>9. ASSUME NEW i \in 1..n, NEW c \in 1..n, tree.parent[c] = i
      PROVE  Level(c) = Level(i) + 1 /\ c > i /\ i \in Path[c]
  <2>1. c # 1 /\ i < c
    BY <1>6, <1>9
  <2>2. \E k \in Nat : Cardinality(Path[i]) = k /\ Cardinality(Path[c]) = k + 1
    BY <1>4, <1>9, <2>1 DEF Grows
  <2>3. Path[c] = Path[i] \cup {c} /\ i \in Path[i]
    BY <1>1, <1>3, <1>9 DEF Paths
  <2>4. QED
    BY <2>1, <2>2, <2>3 DEF Level, ArgumentsLevel
<1>10. ASSUME NEW i \in 1..n, NEW c \in Path[i] PROVE c \in 1..n /\ c <= i
  <2>1. c \in 1..i
    BY <1>3
  <2>2. QED
    BY <2>1
<1>11. 1..n \subseteq Nat /\ IsFiniteSet(1..n)
  BY FS_Interval
<1>12. QED
  BY <1>1, <1>2, <1>5, <1>7, <1>8, <1>9, <1>10, <1>11

\* What is on the stack after a node was popped and its members were pushed.
LEMMA PushedEntries ==
  ASSUME TreeInv, stack \in Seq(Entry), stack # <<>>
  PROVE  \E m \in Nat, c \in Nat :
           /\ Len(stack) = m + 1 /\ DOMAIN stack = 1..m + 1 /\ Last(stack) = stack[m + 1]
           /\ c = Len(Children(Last(stack).node))
           /\ DOMAIN Pushed(Last(stack)) = 1..m + c
           /\ \A k \in 1..m : Pushed(Last(stack))[k] = stack[k]
           /\ \A k \in m + 1..m + c :
                /\ Pushed(Last(stack))[k].node = Children(Last(stack).node)[k - m]
                /\ Pushed(Last(stack))[k].level = Last(stack).level + 1
<1> DEFINE cur == Last(stack)
           kids == Children(cur.node)
           new == [k \in 1..Len(kids) |-> [node |-> kids[k], level |-> cur.level + 1]]
<1>1. PICK m \in Nat : Len(stack) = m + 1 /\ Len(stack) # 0
  <2>1. Len(stack) \in Nat /\ Len(stack) # 0
    BY EmptySeq
  <2>2. Len(stack) - 1 \in Nat /\ Len(stack) = (Len(stack) - 1) + 1
    BY <2>1
  <2>3. QED
    BY <2>1, <2>2
<1>2. DOMAIN stack = 1..m + 1 /\ cur = stack[m + 1]
  BY <1>1 DEF Last
<1>3. Len(kids) \in Nat
  <2>1. PICK n \in 1..MaxNodes : IsTree(tree, n)
    BY DEF TreeInv
  <2>2. n \in Nat
    BY LimitsAssumption
  <2>3. QED
    BY <2>1, <2>2, ChildrenInOrder
<1>4. Front(stack) \in Seq(Entry) /\ Len(Front(stack)) = m
      /\ \A k \in 1..m : Front(stack)[k] = stack[k]
  <2>1. Front(stack) \in Seq(Entry)
    BY StackMoves
  <2>2. 1 \in Int /\ m \in Int /\ \A i \in 1..m : stack[i] \in Entry
    BY <1>1, ElementOfSeq
  <2>3. /\ Len(SubSeq(stack, 1, m)) = IF 1 <= m THEN m - 1 + 1 ELSE 0
        /\ \A i \in 1..m - 1 + 1 : SubSeq(stack, 1, m)[i] = stack[1 + i - 1]
    BY <2>2, SubSeqProperties
  <2>4. Front(stack) = SubSeq(stack, 1, m)
    BY <1>1 DEF Front
  <2>5. QED
    BY <2>1, <2>3, <2>4
<1>5. new \in Seq(Entry) /\ Len(new) = Len(kids)
  <2>1. Pushed(cur) \in Seq(Entry) /\ cur \in Entry
    BY StackMoves
  <2>2. PICK n \in 1..MaxNodes : IsTree(tree, n)
    BY DEF TreeInv
  <2>3. n \in Nat
    BY LimitsAssumption
  <2>4. \A k \in 1..Len(kids) : kids[k] \in Node
    BY <2>2, <2>3, ChildrenInOrder
  <2>5. cur.level + 1 \in Nat
    BY <2>1 DEF Entry
  <2> HIDE DEF kids, cur
  <2>6. new \in [1..Len(kids) -> Entry]
    BY <2>4, <2>5 DEF Entry
  <2> HIDE DEF new
  <2>7. QED
    BY <1>3, <2>6, FunctionIsSeq
<1>6. Pushed(cur) = Front(stack) \o new
  BY DEF Pushed
<1>7. \A k \in 1..Len(kids) : new[k] = [node |-> kids[k], level |-> cur.level + 1]
  OBVIOUS
<1> HIDE DEF new
<1>8. /\ DOMAIN Pushed(cur) = 1..m + Len(kids)
      /\ \A k \in 1..m : Pushed(cur)[k] = stack[k]
      /\ \A k \in m + 1..m + Len(kids) : Pushed(cur)[k] = new[k - m]
  <2>1. /\ Front(stack) \o new \in Seq(Entry)
        /\ Len(Front(stack) \o new) = Len(Front(stack)) + Len(new)
        /\ \A i \in 1..Len(Front(stack)) + Len(new) :
             (Front(stack) \o new)[i] = IF i <= Len(Front(stack)) THEN Front(stack)[i]
                                        ELSE new[i - Len(Front(stack))]
    BY <1>4, <1>5, ConcatProperties
  <2> HIDE DEF kids, cur
  <2>2. \A i \in 1..m + Len(kids) :
          Pushed(cur)[i] = IF i <= m THEN Front(stack)[i] ELSE new[i - m]
    BY <1>4, <1>5, <1>6, <2>1
  <2>3. DOMAIN Pushed(cur) = 1..m + Len(kids)
    BY <1>4, <1>5, <1>6, <2>1
  <2>4. ASSUME NEW k \in 1..m PROVE Pushed(cur)[k] = stack[k]
    BY <1>3, <1>4, <2>2
  <2>5. ASSUME NEW k \in m + 1..m + Len(kids) PROVE Pushed(cur)[k] = new[k - m]
    <3>1. k \in 1..m + Len(kids) /\ ~(k <= m)
      BY <1>3
    <3>2. QED
      BY <2>2, <3>1
  <2>6. QED
    BY <2>3, <2>4, <2>5
<1>9. ASSUME NEW k \in m + 1..m + Len(kids)
      PROVE  Pushed(cur)[k].node = kids[k - m] /\ Pushed(cur)[k].level = cur.level + 1
  <2>1. k - m \in 1..Len(kids)
    BY <1>3
  <2>2. Pushed(cur)[k] = [node |-> kids[k - m], level |-> cur.level + 1]
    BY <1>7, <1>8, <2>1
  <2> HIDE DEF cur, kids
  <2>3. QED
    BY <2>2
<1>10. QED
  BY <1>1, <1>2, <1>3, <1>8, <1>9

\* While the depth is measured, a node is measured or below one that waits on the
\* stack, and the levels there are those of the nodes.
MeasureInv ==
  /\ pc = "depth" =>
       /\ verdict = "none" /\ visited = {} /\ deepest <= MaxDepth
       /\ \A k \in DOMAIN stack : stack[k].level = Level(stack[k].node)
       /\ \A n \in Node :
            Level(n) <= deepest \/ \E k \in DOMAIN stack : stack[k].node \in Path[n]
  /\ pc \in {"walk", "scan", "scanned"} => verdict = "none"
  /\ DepthAgrees

\* Nothing is measured at first.
LEMMA MeasureInit == Init => MeasureInv
<1> SUFFICES ASSUME Init PROVE MeasureInv
  OBVIOUS
<1>1. /\ pc = "depth" /\ verdict = "none" /\ visited = {} /\ deepest = 0
      /\ stack = <<[node |-> 1, level |-> ArgumentsLevel]>>
  BY DEF Init
<1>2. Level(1) = ArgumentsLevel /\ \A n \in Node : 1 \in Path[n]
  BY TypeInit, TreeFacts DEF TypeInv
<1>3. DOMAIN stack = {1} /\ stack[1].node = 1 /\ stack[1].level = ArgumentsLevel
  BY <1>1
<1>4. 0 <= MaxDepth
  BY LimitsAssumption
<1>5. QED
  BY <1>1, <1>2, <1>3, <1>4 DEF MeasureInv, DepthAgrees

\* A node is measured: its level counts, and its members wait instead of it.
LEMMA MeasureNodeStep ==
  ASSUME TypeInv, MeasureInv, MeasureNode
  PROVE  MeasureInv'
<1> DEFINE cur == Last(stack)
<1>1. /\ TreeInv /\ stack \in Seq(Entry) /\ stack # <<>> /\ deepest \in Nat
      /\ tree' = tree /\ visited' = visited /\ pc = "depth" /\ MaxDepth \in Nat
  BY LimitsAssumption DEF TypeInv, WalkInv, MeasureNode
<1>2. /\ verdict = "none" /\ visited = {} /\ deepest <= MaxDepth
      /\ \A k \in DOMAIN stack : stack[k].level = Level(stack[k].node)
      /\ \A n \in Node :
           Level(n) <= deepest \/ \E k \in DOMAIN stack : stack[k].node \in Path[n]
  BY <1>1 DEF MeasureInv
<1>3. PICK m \in Nat, c \in Nat :
        /\ Len(stack) = m + 1 /\ DOMAIN stack = 1..m + 1 /\ cur = stack[m + 1]
        /\ c = Len(Children(cur.node))
        /\ DOMAIN Pushed(cur) = 1..m + c
        /\ \A k \in 1..m : Pushed(cur)[k] = stack[k]
        /\ \A k \in m + 1..m + c : /\ Pushed(cur)[k].node = Children(cur.node)[k - m]
                                   /\ Pushed(cur)[k].level = cur.level + 1
  BY <1>1, PushedEntries
<1>4. cur.node \in Node /\ cur.level \in Nat /\ cur.level = Level(cur.node)
  <2>1. cur.node \in Node /\ cur.level \in Nat
    BY <1>1, StackMoves DEF Entry
  <2>2. m + 1 \in DOMAIN stack
    BY <1>3
  <2>3. QED
    BY <1>2, <1>3, <2>1, <2>2
<1>5. /\ deepest' = Larger(deepest, cur.level)
      /\ \/ deepest' >= Cap /\ Judge(deepest')
         \/ ~(deepest' >= Cap) /\ stack' = Pushed(cur) /\ UNCHANGED <<pc, verdict>>
  BY DEF MeasureNode
<1>6. deepest' \in Nat /\ deepest <= deepest' /\ cur.level <= deepest'
      /\ (deepest' = deepest \/ deepest' = cur.level)
  BY <1>1, <1>4, <1>5 DEF Larger
<1>7. Node' = Node /\ Path' = Path /\ \A n : Level(n)' = Level(n)
  BY <1>1 DEF Node, Path, Level
<1>8. CASE deepest' >= Cap
  <2>1. deepest' > MaxDepth /\ deepest' = Level(cur.node)
    BY <1>1, <1>2, <1>4, <1>6, <1>8 DEF Cap
  <2>2. pc' = "done" /\ verdict' = "unread"
    BY <1>5, <1>8, <2>1 DEF Judge
  <2>3. \E n \in Node : Level(n) > MaxDepth
    BY <1>4, <2>1
  <2>4. QED
    BY <1>7, <2>2, <2>3 DEF MeasureInv, DepthAgrees
<1>9. CASE ~(deepest' >= Cap)
  <2>1. stack' = Pushed(cur) /\ pc' = "depth" /\ verdict' = "none" /\ visited' = {}
    BY <1>1, <1>2, <1>5, <1>9
  <2>2. deepest' <= MaxDepth
    BY <1>1, <1>6, <1>9 DEF Cap
  <2> HIDE DEF cur
  <2>3. /\ \A d \in Node : (tree.parent[d] = cur.node)
             <=> \E k \in 1..c : d = Children(cur.node)[k]
        /\ \A k \in 1..c : Children(cur.node)[k] \in Node
                           /\ tree.parent[Children(cur.node)[k]] = cur.node
    <3>1. PICK n \in 1..MaxNodes : IsTree(tree, n)
      BY <1>1 DEF TreeInv
    <3>2. n \in Nat
      BY LimitsAssumption
    <3>3. QED
      BY <1>3, <3>1, <3>2, ChildrenInOrder
  <2>4. ASSUME NEW k \in 1..m + c PROVE Pushed(cur)[k].level = Level(Pushed(cur)[k].node)
    <3>1. CASE k \in 1..m
      BY <1>2, <1>3, <3>1
    <3>2. CASE k \notin 1..m
      <4>1. k - m \in 1..c /\ k \in m + 1..m + c
        BY <3>2
      <4>2. PICK d : d = Children(cur.node)[k - m]
        OBVIOUS
      <4>3. Pushed(cur)[k].node = d /\ Pushed(cur)[k].level = cur.level + 1
        BY <1>3, <4>1, <4>2
      <4>4. d \in Node /\ tree.parent[d] = cur.node
        BY <2>3, <4>1, <4>2
      <4>5. Level(d) = Level(cur.node) + 1
        BY <1>1, <1>4, <4>4, TreeFacts
      <4>6. QED
        BY <1>4, <4>3, <4>5
    <3>3. QED
      BY <3>1, <3>2
  <2>5. ASSUME NEW n \in Node, ~(Level(n) <= deepest')
        PROVE  \E k \in 1..m + c : Pushed(cur)[k].node \in Path[n]
    <3>1. Level(n) \in Nat
      BY <1>1, TreeFacts
    <3>2. PICK k \in 1..m + 1 : stack[k].node \in Path[n]
      BY <1>1, <1>2, <1>3, <1>6, <2>5, <3>1
    <3>3. CASE k \in 1..m
      BY <1>3, <3>2, <3>3
    <3>4. CASE k \notin 1..m
      <4>1. k = m + 1 /\ cur.node \in Path[n]
        BY <1>3, <3>2, <3>4
      <4>2. n # cur.node
        BY <1>4, <1>6, <2>5
      <4>3. PICK d \in Path[n] : tree.parent[d] = cur.node
        BY <1>1, <4>1, <4>2, TreeFacts
      <4>4. d \in Node
        BY <1>1, TreeFacts
      <4>5. PICK j \in 1..c : d = Children(cur.node)[j]
        BY <2>3, <4>3, <4>4
      <4>6. PICK l : l = m + j
        OBVIOUS
      <4>7. l \in m + 1..m + c /\ l \in 1..m + c /\ l - m = j
        BY <4>6
      <4>8. Pushed(cur)[l].node = d
        BY <1>3, <4>5, <4>7
      <4>9. QED
        BY <4>3, <4>7, <4>8
    <3>5. QED
      BY <3>3, <3>4
  <2>6. QED
    BY <1>3, <1>7, <2>1, <2>2, <2>4, <2>5 DEF MeasureInv, DepthAgrees
<1>10. QED
  BY <1>8, <1>9

\* Every step keeps that.
LEMMA MeasureStep ==
  ASSUME TypeInv, MeasureInv, [Next]_vars
  PROVE  MeasureInv'
<1>1. tree' = tree /\ TreeInv
  BY TreeStays DEF TypeInv
<1>2. Node' = Node /\ Path' = Path /\ \A n : Level(n)' = Level(n)
  BY <1>1 DEF Node, Path, Level
<1>3. CASE MeasureNode
  BY <1>3, MeasureNodeStep
<1>4. CASE Measured
  <2>1. /\ pc = "depth" /\ stack = <<>> /\ Judge(deepest) /\ deepest \in Nat
        /\ MaxDepth \in Nat
    BY <1>4, LimitsAssumption DEF Measured, TypeInv, WalkInv
  <2>2. /\ verdict = "none" /\ deepest <= MaxDepth
        /\ \A n \in Node : Level(n) <= deepest
    BY <2>1 DEF MeasureInv
  <2>3. pc' = "walk" /\ verdict' = "none"
    BY <2>1, <2>2 DEF Judge
  <2>4. ASSUME NEW n \in Node PROVE ~(Level(n) > MaxDepth)
    <3>1. Level(n) \in Nat
      BY <1>1, TreeFacts
    <3>2. QED
      BY <2>1, <2>2, <3>1
  <2>5. QED
    BY <1>2, <2>3, <2>4 DEF MeasureInv, DepthAgrees
<1>5. CASE /\ pc \in {"walk", "scan", "scanned"} /\ pc' \in {"walk", "scan", "scanned"}
           /\ verdict' = verdict
  BY <1>2, <1>5 DEF MeasureInv, DepthAgrees
<1>6. CASE Decide
  <2>1. pc = "walk" /\ pc' = "done" /\ verdict' # "unread"
    BY <1>6 DEF Decide
  <2>2. QED
    BY <1>2, <2>1 DEF MeasureInv, DepthAgrees
<1>7. CASE UNCHANGED vars
  BY <1>2, <1>7 DEF MeasureInv, DepthAgrees, vars
<1>8. QED
  <2>1. \/ MeasureNode \/ Measured \/ Decide \/ UNCHANGED vars
        \/ /\ pc \in {"walk", "scan", "scanned"} /\ pc' \in {"walk", "scan", "scanned"}
           /\ verdict' = verdict
    BY DEF Next, VisitNode, VisitString, Walking, ScanWhole, NativeTimeout, ScanWindow, Deadline,
           Store
  <2>2. QED
    BY <1>3, <1>4, <1>5, <1>6, <1>7, <2>1

\* The depth check, which goes by a stack of its own and stops at its cap, leaves
\* unread just the arguments that have a node below the deepest level allowed: these
\* are passed on as they came, and all others are walked.
THEOREM DepthIsJudged == Spec => []DepthAgrees
<1>1. MeasureInv => DepthAgrees
  BY DEF MeasureInv
<1>2. Spec => []MeasureInv
  BY MeasureInit, MeasureStep, TypeInvariant, PTL DEF Spec
<1>3. QED
  BY <1>1, <1>2, PTL

-----------------------------------------------------------------------------
(* What the walk covers *)

\* The paths part, and a's has the later member of the list.
Apart(a, b) ==
  \E i \in Path[a] \ Path[b], j \in Path[b] \ Path[a] :
    tree.parent[i] = tree.parent[j] /\ i > j

\* A node that was not visited is below just one that waits, or is that one; none
\* that waits is above a visited one; and those that wait lie in order.
WaitInv ==
  /\ \A n \in Node \ visited : \E k \in DOMAIN stack :
       /\ stack[k].node \in Path[n]
       /\ \A l \in DOMAIN stack : stack[l].node \in Path[n] => l = k
  /\ \A n \in visited, k \in DOMAIN stack : stack[k].node \notin Path[n]
  /\ \A k, l \in DOMAIN stack : k < l => Apart(stack[l].node, stack[k].node)
OrderInv == \A m \in visited, n \in Node \ visited : Before(m, n)
BudgetInv ==
  /\ Cardinality(visited) <= Budget
  /\ verdict # "none" => visited = Node \/ Cardinality(visited) = Budget
CoverInv == Walked => WaitInv /\ OrderInv /\ BudgetInv

\* Paths that part do not meet again.
LEMMA ApartBelow ==
  ASSUME TreeInv, NEW a, NEW b, NEW c \in Node, NEW d \in Node,
         a \in Path[c], b \in Path[d], Apart(a, b)
  PROVE  Apart(c, d)
<1>1. PICK i \in Path[a] \ Path[b], j \in Path[b] \ Path[a] :
        tree.parent[i] = tree.parent[j] /\ i > j
  BY DEF Apart
<1>2. Path[a] \subseteq Path[c] /\ Path[b] \subseteq Path[d]
  BY TreeFacts
<1>3. i \in Path[c] /\ j \in Path[d] /\ i # j
  BY <1>1, <1>2
<1>4. i \notin Path[d] /\ j \notin Path[c]
  BY <1>1, <1>3, TreeFacts
<1>5. QED
  BY <1>1, <1>3, <1>4 DEF Apart

\* A visit keeps that: the members of the node take its place.
LEMMA VisitKeeps ==
  ASSUME TreeInv, stack \in Seq(Entry), stack # <<>>, visited \subseteq Node, WaitInv, OrderInv,
         tree' = tree, stack' = Pushed(Last(stack)),
         visited' = visited \cup {Last(stack).node}
  PROVE  WaitInv' /\ OrderInv'
<1>1. PICK s, x : s = Pushed(Last(stack)) /\ x = Last(stack).node
  OBVIOUS
<1>2. PICK m \in Nat, c \in Nat :
        /\ Len(stack) = m + 1 /\ DOMAIN stack = 1..m + 1 /\ Last(stack) = stack[m + 1]
        /\ c = Len(Children(x)) /\ DOMAIN s = 1..m + c
        /\ \A k \in 1..m : s[k] = stack[k]
        /\ \A k \in m + 1..m + c : s[k].node = Children(x)[k - m]
  BY <1>1, PushedEntries
<1>3. x \in Node /\ stack[m + 1].node = x /\ m + 1 \in DOMAIN stack
  BY <1>1, <1>2, StackMoves
<1>4. /\ \A d \in Node : tree.parent[d] = x => \E k \in m + 1..m + c : s[k].node = d
      /\ \A k \in m + 1..m + c : s[k].node \in Node /\ tree.parent[s[k].node] = x
      /\ \A i, j \in m + 1..m + c : i < j => s[i].node < s[j].node
  <2>1. PICK n \in 1..MaxNodes : IsTree(tree, n)
    BY DEF TreeInv
  <2>2. n \in Nat
    BY LimitsAssumption
  <2>3. PICK kids : kids = Children(x)
    OBVIOUS
  <2>4. /\ \A d \in Node : (tree.parent[d] = x) <=> \E k \in 1..c : d = kids[k]
        /\ \A k \in 1..c : kids[k] \in Node /\ tree.parent[kids[k]] = x
        /\ \A i, j \in 1..c : i < j => kids[i] < kids[j]
    BY <1>2, <2>1, <2>2, <2>3, ChildrenInOrder
  <2>5. ASSUME NEW d \in Node, tree.parent[d] = x PROVE \E k \in m + 1..m + c : s[k].node = d
    <3>1. PICK j \in 1..c : d = kids[j]
      BY <2>4, <2>5
    <3>2. PICK k : k = m + j
      OBVIOUS
    <3>3. k \in m + 1..m + c /\ k - m = j
      BY <3>2
    <3>4. QED
      BY <1>2, <2>3, <3>1, <3>3
  <2>6. ASSUME NEW k \in m + 1..m + c PROVE k - m \in 1..c /\ s[k].node = kids[k - m]
    BY <1>2, <2>3
  <2>7. ASSUME NEW i \in m + 1..m + c, NEW j \in m + 1..m + c, i < j
        PROVE  s[i].node < s[j].node
    <3>1. i - m < j - m
      BY <2>7
    <3>2. QED
      BY <2>4, <2>6, <3>1
  <2>8. QED
    BY <2>4, <2>5, <2>6, <2>7
<1>5. /\ \A n \in Node : n \in Path[n] /\ n \in Nat
      /\ \A d \in Node : tree.parent[d] = x => d > x /\ x \in Path[d]
      /\ \A n \in Node : \A d \in Path[n] : d <= n /\ Path[d] \subseteq Path[n] /\ d \in Node
      /\ \A n \in Node : x \in Path[n] /\ x # n => \E d \in Path[n] : tree.parent[d] = x
      /\ \A n \in Node : \A d, e \in Path[n] : tree.parent[d] = tree.parent[e] => d = e
  BY <1>3, TreeFacts
<1>6. x \notin visited
  BY <1>3, <1>5 DEF WaitInv
<1>7. ASSUME NEW k \in m + 1..m + c, NEW n \in Node, s[k].node \in Path[n]
      PROVE  x \in Path[n]
  BY <1>4, <1>5, <1>7
<1>8. ASSUME NEW n \in visited \cup {x}, NEW k \in 1..m + c
      PROVE  s[k].node \notin Path[n]
  <2>1. n \in Node
    BY <1>3
  <2>2. CASE k \in 1..m
    <3>1. s[k] = stack[k] /\ k \in DOMAIN stack /\ k # m + 1
      BY <1>2, <2>2
    <3>2. CASE n \in visited
      BY <3>1, <3>2 DEF WaitInv
    <3>3. CASE n = x
      BY <1>3, <1>5, <1>6, <3>1, <3>3 DEF WaitInv
    <3>4. QED
      BY <3>2, <3>3
  <2>3. CASE k \notin 1..m
    <3>1. k \in m + 1..m + c
      BY <2>3
    <3>2. SUFFICES ASSUME s[k].node \in Path[n] PROVE FALSE
      OBVIOUS
    <3>3. x \in Path[n]
      BY <1>7, <2>1, <3>1, <3>2
    <3>4. n = x
      BY <1>3, <3>3 DEF WaitInv
    <3>5. s[k].node > x /\ s[k].node <= x /\ s[k].node \in Nat /\ x \in Nat
      BY <1>3, <1>4, <1>5, <3>1, <3>2, <3>4
    <3>6. QED
      BY <3>5
  <2>4. QED
    BY <2>2, <2>3
<1>9. ASSUME NEW n \in Node \ (visited \cup {x})
      PROVE  \E k \in 1..m + c :
               s[k].node \in Path[n] /\ \A l \in 1..m + c : s[l].node \in Path[n] => l = k
  <2>1. PICK k \in 1..m + 1 :
          stack[k].node \in Path[n] /\ \A l \in 1..m + 1 : stack[l].node \in Path[n] => l = k
    BY <1>2 DEF WaitInv
  <2>2. CASE k \in 1..m
    <3>1. x \notin Path[n]
      <4>1. m + 1 \in 1..m + 1 /\ m + 1 # k
        BY <2>2
      <4>2. QED
        BY <1>3, <2>1, <4>1
    <3>2. ASSUME NEW l \in 1..m + c, s[l].node \in Path[n] PROVE l = k
      <4>1. l \notin m + 1..m + c
        BY <1>7, <3>1, <3>2
      <4>2. l \in 1..m /\ l \in 1..m + 1
        BY <4>1
      <4>3. QED
        BY <1>2, <2>1, <3>2, <4>2
    <3>3. k \in 1..m + c /\ s[k].node \in Path[n]
      BY <1>2, <2>1, <2>2
    <3>4. QED
      BY <3>2, <3>3
  <2>3. CASE k \notin 1..m
    <3>1. k = m + 1 /\ x \in Path[n] /\ x # n
      BY <1>3, <2>1, <2>3
    <3>2. PICK d \in Path[n] : tree.parent[d] = x
      BY <1>5, <3>1
    <3>3. PICK j \in m + 1..m + c : s[j].node = d
      BY <1>4, <1>5, <3>2
    <3>4. ASSUME NEW l \in 1..m + c, s[l].node \in Path[n] PROVE l = j
      <4>1. l \notin 1..m
        <5>1. SUFFICES ASSUME l \in 1..m PROVE FALSE
          OBVIOUS
        <5>2. l \in 1..m + 1 /\ l # k /\ s[l] = stack[l]
          BY <1>2, <3>1, <5>1
        <5>3. QED
          BY <2>1, <3>4, <5>2
      <4>2. l \in m + 1..m + c
        BY <4>1
      <4>3. s[l].node = d
        BY <1>4, <1>5, <3>2, <3>4, <4>2
      <4>4. d \in Nat /\ ~(d < d)
        BY <1>5, <3>2
      <4>5. ~(l < j) /\ ~(j < l)
        BY <1>4, <3>3, <4>2, <4>3, <4>4
      <4>6. QED
        BY <4>5
    <3>5. j \in 1..m + c /\ s[j].node \in Path[n]
      BY <3>2, <3>3
    <3>6. QED
      BY <3>4, <3>5
  <2>4. QED
    BY <2>2, <2>3
<1>10. ASSUME NEW k \in 1..m + c, NEW l \in 1..m + c, k < l
       PROVE  Apart(s[l].node, s[k].node)
  <2>1. CASE l \in 1..m
    <3>1. k \in 1..m /\ k \in DOMAIN stack /\ l \in DOMAIN stack
      BY <1>2, <1>10, <2>1
    <3>2. s[k] = stack[k] /\ s[l] = stack[l]
      BY <1>2, <2>1, <3>1
    <3>3. QED
      BY <1>10, <3>1, <3>2 DEF WaitInv
  <2>2. CASE l \notin 1..m /\ k \in 1..m
    <3>1. l \in m + 1..m + c /\ k \in DOMAIN stack /\ k < m + 1
      BY <1>2, <2>2
    <3>2. Apart(x, stack[k].node)
      BY <1>3, <3>1 DEF WaitInv
    <3>3. s[l].node \in Node /\ x \in Path[s[l].node]
      BY <1>4, <1>5, <3>1
    <3>4. stack[k].node \in Node
      <4>1. stack[k] \in Entry
        BY <1>2, <3>1, ElementOfSeq
      <4>2. QED
        BY <4>1 DEF Entry
    <3>5. stack[k].node \in Path[stack[k].node]
      BY <1>5, <3>4
    <3>6. PICK y, z : y = s[l].node /\ z = stack[k].node
      OBVIOUS
    <3>7. Apart(y, z)
      BY <3>2, <3>3, <3>4, <3>5, <3>6, ApartBelow
    <3>8. QED
      BY <1>2, <2>2, <3>6, <3>7
  <2>3. CASE l \notin 1..m /\ k \notin 1..m
    <3>1. l \in m + 1..m + c /\ k \in m + 1..m + c
      BY <2>3
    <3>2. PICK y, z : y = s[l].node /\ z = s[k].node
      OBVIOUS
    <3>3. /\ y \in Node /\ z \in Node /\ z < y
          /\ tree.parent[y] = x /\ tree.parent[z] = x
      BY <1>4, <1>10, <3>1, <3>2
    <3>4. y \in Path[y] /\ z \in Path[z] /\ y \in Nat /\ z \in Nat /\ y # z
      BY <1>5, <3>3
    <3>5. y \notin Path[z] /\ z \notin Path[y]
      BY <1>5, <3>3, <3>4
    <3>6. QED
      BY <3>2, <3>3, <3>4, <3>5 DEF Apart
  <2>4. QED
    BY <2>1, <2>2, <2>3
<1>11. ASSUME NEW v \in visited \cup {x}, NEW n \in Node \ (visited \cup {x})
       PROVE  Before(v, n)
  <2>1. CASE v \in visited
    BY <2>1 DEF OrderInv
  <2>2. CASE v = x
    <3>1. PICK k \in 1..m + 1 : stack[k].node \in Path[n]
      BY <1>2 DEF WaitInv
    <3>2. CASE k = m + 1
      BY <1>3, <2>2, <3>1, <3>2 DEF Before
    <3>3. CASE k # m + 1
      <4>1. k < m + 1 /\ k \in DOMAIN stack
        BY <1>2, <3>3
      <4>2. Apart(x, stack[k].node)
        BY <1>3, <4>1 DEF WaitInv
      <4>3. x \in Path[x]
        BY <1>3, <1>5
      <4>4. PICK b : b = stack[k].node
        OBVIOUS
      <4>5. b \in Path[n] /\ Apart(x, b) /\ n \in Node
        BY <3>1, <4>2, <4>4
      <4>6. Apart(x, n)
        BY <1>3, <4>3, <4>5, ApartBelow
      <4>7. QED
        BY <2>2, <4>6 DEF Apart, Before
    <3>4. QED
      BY <3>2, <3>3
  <2>3. QED
    BY <2>1, <2>2
<1>12. /\ Node' = Node /\ Path' = Path
       /\ stack' = s /\ visited' = visited \cup {x} /\ DOMAIN s = 1..m + c
  BY <1>1, <1>2 DEF Node, Path
<1>13. WaitInv'
  BY <1>8, <1>9, <1>10, <1>12 DEF WaitInv, Apart
<1>14. OrderInv'
  BY <1>11, <1>12 DEF OrderInv, Before
<1>15. QED
  BY <1>13, <1>14

\* A string has no members.
LEMMA StringIsLeaf ==
  ASSUME TreeInv, stack \in Seq(Entry), stack # <<>>, Last(stack).node \in tree.strings
  PROVE  Pushed(Last(stack)) = Front(stack)
<1> DEFINE cur == Last(stack)
           new == [k \in 1..Len(Children(cur.node)) |->
                     [node |-> Children(cur.node)[k], level |-> cur.level + 1]]
<1>1. PICK n \in 1..MaxNodes : IsTree(tree, n)
  BY DEF TreeInv
<1>2. n \in Nat /\ Node = 1..n
  BY <1>1, LimitsAssumption, NodesNumbered
<1>3. /\ Len(Children(cur.node)) \in Nat
      /\ \A k \in 1..Len(Children(cur.node)) :
           /\ Children(cur.node)[k] \in Node
           /\ tree.parent[Children(cur.node)[k]] = cur.node
  BY <1>1, <1>2, ChildrenInOrder
<1>4. \A i \in 1..n : tree.parent[i] # cur.node
  BY <1>1 DEF IsTree
<1>5. 1..Len(Children(cur.node)) = {}
  BY <1>2, <1>3, <1>4
<1>6. Len(Children(cur.node)) = 0
  BY <1>3, <1>5
<1>7. new = <<>>
  BY <1>5
<1>8. Front(stack) \in Seq(Entry) /\ Pushed(cur) = Front(stack) \o new
  BY StackMoves DEF Pushed
<1> HIDE DEF cur, new
<1>9. Front(stack) \o <<>> = Front(stack)
  BY <1>8, ConcatEmptySeq
<1>10. QED
  BY <1>7, <1>8, <1>9 DEF cur

\* One more node is within the budget.
LEMMA BudgetKept ==
  ASSUME TypeInv, Walking, WaitInv, BudgetInv, visited' = visited \cup {Last(stack).node},
         verdict' = "none"
  PROVE  BudgetInv'
<1>1. /\ TreeInv /\ stack \in Seq(Entry) /\ stack # <<>> /\ visited \subseteq Node
      /\ Budget \in Nat
  BY LimitsAssumption DEF TypeInv, WalkInv, Walking
<1>2. IsFiniteSet(visited) /\ Cardinality(visited) \in Nat
  BY <1>1, TreeFacts, FS_Subset, FS_CardinalityType
<1>3. Cardinality(visited) < Budget
  BY <1>1, <1>2 DEF Walking, OutOfBudget
<1>4. PICK v, x : v = visited /\ x = Last(stack).node
  OBVIOUS
<1>5. Cardinality(v \cup {x}) = Cardinality(v) \/ Cardinality(v \cup {x}) = Cardinality(v) + 1
  <2>1. CASE x \in v
    <3>1. v \cup {x} = v
      BY <2>1
    <3>2. QED
      BY <3>1
  <2>2. CASE x \notin v
    BY <1>2, <1>4, <2>2, FS_AddElement
  <2>3. QED
    BY <2>1, <2>2
<1>6. Cardinality(v \cup {x}) <= Budget
  BY <1>1, <1>2, <1>3, <1>4, <1>5
<1>7. visited' = v \cup {x}
  BY <1>4
<1>8. QED
  BY <1>6, <1>7 DEF BudgetInv

\* The walk begins with the root.
LEMMA WalkBegins ==
  ASSUME TypeInv, visited' = {}, verdict' = "none", tree' = tree,
         stack' = <<[node |-> 1, level |-> ArgumentsLevel]>>
  PROVE  CoverInv'
<1>1. TreeInv /\ \A n \in Node : 1 \in Path[n]
  BY TreeFacts DEF TypeInv
<1>2. Node' = Node /\ Path' = Path
  BY DEF Node, Path
<1>3. DOMAIN stack' = {1} /\ stack'[1].node = 1
  OBVIOUS
<1>4. WaitInv'
  BY <1>1, <1>2, <1>3 DEF WaitInv
<1>5. OrderInv'
  BY DEF OrderInv
<1>6. BudgetInv'
  <2>1. Cardinality({}) = 0 /\ 0 <= Budget
    BY FS_EmptySet, LimitsAssumption
  <2>2. QED
    BY <2>1 DEF BudgetInv
<1>7. QED
  BY <1>4, <1>5, <1>6 DEF CoverInv

\* Every step keeps what the walk covers.
LEMMA CoverStep ==
  ASSUME TypeInv, MeasureInv, CoverInv, [Next]_vars
  PROVE  CoverInv'
<1>1. /\ TreeInv /\ tree' = tree /\ stack \in Seq(Entry) /\ visited \subseteq Node
      /\ Node' = Node /\ Path' = Path
  BY TreeStays DEF TypeInv, WalkInv, Node, Path
<1>2. CASE MeasureNode \/ Measured
  <2>1. /\ pc = "depth" /\ visited' = visited
        /\ \/ pc' = "depth"
           \/ pc' = "done" /\ verdict' = "unread"
           \/ /\ verdict' = verdict
              /\ stack' = <<[node |-> 1, level |-> ArgumentsLevel]>>
    BY <1>2 DEF MeasureNode, Measured, Judge
  <2>2. visited = {} /\ verdict = "none"
    BY <2>1 DEF MeasureInv
  <2>3. CASE pc' = "depth" \/ verdict' = "unread"
    BY <2>3 DEF CoverInv, Walked
  <2>4. CASE verdict' = verdict /\ stack' = <<[node |-> 1, level |-> ArgumentsLevel]>>
    BY <1>1, <2>1, <2>2, <2>4, WalkBegins
  <2>5. QED
    BY <2>1, <2>3, <2>4
<1>3. CASE VisitNode \/ VisitString
  <2>1. /\ Walking /\ stack # <<>> /\ verdict' = verdict
        /\ visited' = visited \cup {Last(stack).node}
    BY <1>3 DEF VisitNode, VisitString, Walking
  <2>2. stack' = Pushed(Last(stack))
    BY <1>1, <1>3, <2>1, StringIsLeaf DEF VisitNode, VisitString
  <2>3. verdict = "none" /\ Walked
    BY <2>1 DEF MeasureInv, Walking, Walked
  <2>4. WaitInv /\ OrderInv /\ BudgetInv
    BY <2>3 DEF CoverInv
  <2>5. WaitInv' /\ OrderInv'
    BY <1>1, <2>1, <2>2, <2>4, VisitKeeps
  <2>6. BudgetInv'
    BY <2>1, <2>3, <2>4, BudgetKept
  <2>7. QED
    BY <2>5, <2>6 DEF CoverInv
<1>4. CASE Decide
  <2>1. /\ pc = "walk" /\ stack' = stack /\ visited' = visited /\ verdict' # "unread"
        /\ stack = <<>> \/ OutOfBudget
    BY <1>4 DEF Decide
  <2>2. WaitInv /\ OrderInv /\ BudgetInv
    BY <2>1 DEF MeasureInv, Walked, CoverInv
  <2>3. ASSUME stack = <<>> PROVE visited = Node
    <3>1. DOMAIN stack = {}
      BY <2>3
    <3>2. Node \ visited = {}
      BY <2>2, <3>1 DEF WaitInv
    <3>3. QED
      BY <1>1, <3>2
  <2>4. OutOfBudget => Cardinality(visited) = Budget
    <3>1. IsFiniteSet(visited) /\ Cardinality(visited) \in Nat
      BY <1>1, TreeFacts, FS_Subset, FS_CardinalityType
    <3>2. QED
      BY <2>2, <3>1, LimitsAssumption DEF BudgetInv, OutOfBudget
  <2>5. BudgetInv'
    BY <1>1, <2>1, <2>2, <2>3, <2>4 DEF BudgetInv
  <2>6. WaitInv' /\ OrderInv'
    BY <1>1, <2>1, <2>2 DEF WaitInv, OrderInv, Apart, Before
  <2>7. QED
    BY <2>5, <2>6 DEF CoverInv
<1>5. CASE UNCHANGED <<stack, visited, verdict>> /\ (Walked' => Walked)
  <2>1. SUFFICES ASSUME Walked PROVE WaitInv' /\ OrderInv' /\ BudgetInv'
    BY <1>5 DEF CoverInv
  <2>2. WaitInv /\ OrderInv /\ BudgetInv
    BY <2>1 DEF CoverInv
  <2>3. QED
    BY <1>1, <1>5, <2>2 DEF WaitInv, OrderInv, BudgetInv, Apart, Before
<1>6. QED
  <2>1. \/ MeasureNode \/ Measured \/ VisitNode \/ VisitString \/ Decide
        \/ UNCHANGED <<stack, visited, verdict>> /\ (Walked' => Walked)
    BY DEF Next, ScanWhole, NativeTimeout, ScanWindow, Deadline, Store, Walked, vars
  <2>2. QED
    BY <1>2, <1>3, <1>4, <1>5, <2>1

\* The walk visits its nodes from the last member of a list to the first, each
\* once; what a budget leaves out is what comes last, all below nodes that wait.
THEOREM WalkCoversArguments == Spec => []WalkCovers
<1>1. Init => CoverInv
  BY DEF Init, CoverInv, Walked
<1>2. TypeInv /\ CoverInv => WalkCovers
  <2> SUFFICES ASSUME TypeInv, CoverInv, Walked
               PROVE  /\ BudgetInv
                      /\ \A n \in Node \ visited :
                           /\ Cardinality({k \in DOMAIN stack : stack[k].node \in Path[n]}) = 1
                           /\ \A m \in visited : Before(m, n)
                      /\ \A k \in DOMAIN stack : stack[k].node \notin visited
    BY DEF WalkCovers, BudgetInv
  <2>1. WaitInv /\ OrderInv /\ BudgetInv
    BY DEF CoverInv
  <2>2. ASSUME NEW n \in Node \ visited
        PROVE  Cardinality({k \in DOMAIN stack : stack[k].node \in Path[n]}) = 1
    <3>1. PICK k \in DOMAIN stack : /\ stack[k].node \in Path[n]
                                    /\ \A l \in DOMAIN stack : stack[l].node \in Path[n] => l = k
      BY <2>1 DEF WaitInv
    <3>2. {l \in DOMAIN stack : stack[l].node \in Path[n]} = {k}
      BY <3>1
    <3>3. Cardinality({k}) = 1
      BY FS_Singleton
    <3>4. QED
      BY <3>2, <3>3
  <2>3. ASSUME NEW k \in DOMAIN stack PROVE stack[k].node \notin visited
    <3>1. SUFFICES ASSUME stack[k].node \in visited PROVE FALSE
      OBVIOUS
    <3>2. stack[k].node \in Path[stack[k].node]
      BY <3>1, TreeFacts DEF TypeInv, WalkInv
    <3>3. QED
      BY <2>1, <3>1, <3>2 DEF WaitInv
  <2>4. QED
    BY <2>1, <2>2, <2>3 DEF OrderInv
<1>3. TypeInv /\ MeasureInv /\ CoverInv /\ [Next]_vars => CoverInv'
  BY CoverStep
<1>4. TypeInv /\ MeasureInv /\ [Next]_vars => MeasureInv'
  BY MeasureStep
<1>5. QED
  BY <1>1, <1>2, <1>3, <1>4, MeasureInit, TypeInvariant, PTL DEF Spec
=============================================================================
