----------------------------- MODULE Redaction -----------------------------
(***************************************************************************)
(* What happens to the arguments of one tools/call request: _json_depth    *)
(* measures them, _redact_in_place walks them with a budget of nodes, and  *)
(* _redact_string scans each string it meets, the regex package in one     *)
(* pass and the standard library's re in overlapping windows               *)
(* (_chunked_subn).                                                        *)
(*                                                                         *)
(* The arguments are a tree; an inner node is a list or an object.  A      *)
(* string is its length and the places of what the one rule's pattern      *)
(* matches, which it does not match in part.  A character of the output is *)
(* its place in the string, or 0 for one of the replacement.               *)
(***************************************************************************)
EXTENDS Integers, Sequences, FiniteSets, SequencesExt

CONSTANTS
  MaxDepth,         \* MAX_JSON_DEPTH
  Budget,           \* MAX_REDACT_NODES
  Window, Overlap,  \* REDACT_WINDOW_BYTES, MAX_REGEX_PATTERN_LEN
  Texts,            \* the strings: [len, secrets], secrets a set of [first, last]
  MarkLengths,      \* the lengths of a rule's replacement
  MaxNodes          \* bound: nodes of the arguments

\* What a pattern matches does not overlap.
IsText(t) ==
  /\ t.len \in Nat
  /\ \A s \in t.secrets : s.first \in 1..t.len /\ s.last \in s.first..t.len
  /\ \A r, s \in t.secrets : r = s \/ r.last < s.first \/ s.last < r.first

ASSUME TextsAssumption == \A t \in Texts : IsText(t)
ASSUME MarksAssumption == MarkLengths \subseteq Nat
ASSUME LimitsAssumption ==
  MaxDepth \in Nat \ {0} /\ Budget \in Nat \ {0} /\ MaxNodes \in Nat \ {0}
\* Both are set by the environment, one by one; if the overlap were not smaller,
\* the scan would not advance and end with its deadline.
ASSUME WindowAssumption == Overlap \in Nat /\ Window \in Nat /\ Overlap < Window

ArgumentsLevel == 2   \* the payload is at level 0, params at level 1

VARIABLES
  tree,      \* the arguments: [parent, strings]; node 1 is the root
  native,    \* the regex package is installed
  mark,      \* the length of the replacement
  pc,        \* "depth", "walk", "scan" (a string), "scanned", "done"
  stack,     \* of the depth check or of the walk: [node, level]
  deepest,   \* max_depth
  visited,   \* the nodes the walk has popped
  at, text,  \* the string that is scanned, and its place in the tree
  start,     \* where its next window begins
  out,       \* pieces
  found,     \* the matches counted in it
  late,      \* its scan ran out of time
  redacted,  \* the strings that were replaced
  verdict    \* "none", "unread" (passed on as it came), "redact", "allow"

scanVars == <<at, text, start, out, found, late>>
vars == <<tree, native, mark, pc, stack, deepest, visited, scanVars, redacted, verdict>>

NoText == [len |-> 0, secrets |-> {}]

\* The trees with nodes 1..n, numbered from the root on and along each list.
IsTree(t, n) ==
  /\ t.parent \in [1..n -> 0..n] /\ t.strings \subseteq 1..n
  /\ t.parent[1] = 0 /\ \A i \in 2..n : t.parent[i] \in 1..i - 1
  /\ \A i \in 1..n : t.parent[i] \notin t.strings
Trees(n) ==
  {t \in [parent : [1..n -> 0..n], strings : SUBSET (1..n)] : IsTree(t, n)}

Node == DOMAIN tree.parent
Children(n) ==
  LET members == {c \in Node : tree.parent[c] = n}
  IN  CHOOSE s \in [1..Cardinality(members) -> members] :
        \A i, j \in DOMAIN s : i < j => s[i] < s[j]

-----------------------------------------------------------------------------
(* _json_depth *)

Init ==
  /\ \E n \in 1..MaxNodes : tree \in Trees(n)
  /\ native \in BOOLEAN /\ mark \in MarkLengths
  /\ pc = "depth"
  /\ stack = <<[node |-> 1, level |-> ArgumentsLevel]>>
  /\ deepest = 0
  /\ visited = {}
  /\ at = 0 /\ text = NoText /\ start = 0 /\ out = <<>> /\ found = 0 /\ late = FALSE
  /\ redacted = {}
  /\ verdict = "none"

Larger(a, b) == IF a > b THEN a ELSE b
Smaller(a, b) == IF a < b THEN a ELSE b

Pushed(entry) ==
  Front(stack) \o [k \in 1..Len(Children(entry.node)) |->
                     [node |-> Children(entry.node)[k], level |-> entry.level + 1]]

\* parse_frame calls a payload that is too deep INVALID, and evaluate() lets such
\* a frame pass as it came; any other is walked from its arguments on.
Judge(depth) ==
  IF depth > MaxDepth
  THEN /\ pc' = "done" /\ verdict' = "unread"
       /\ UNCHANGED stack
  ELSE /\ pc' = "walk" /\ stack' = <<[node |-> 1, level |-> ArgumentsLevel]>>
       /\ UNCHANGED verdict

\* Mutant: the cap is the limit itself.
CapAtLimit == MaxDepth

Cap == MaxDepth + 1

MeasureNode ==
  /\ pc = "depth" /\ stack # <<>>
  /\ LET cur == Last(stack) IN
     /\ deepest' = Larger(deepest, cur.level)
     /\ IF deepest' >= Cap THEN Judge(deepest')
        ELSE stack' = Pushed(cur) /\ UNCHANGED <<pc, verdict>>
  /\ UNCHANGED <<tree, native, mark, visited, scanVars, redacted>>

Measured ==
  /\ pc = "depth" /\ stack = <<>>
  /\ Judge(deepest)
  /\ UNCHANGED <<tree, native, mark, deepest, visited, scanVars, redacted>>

-----------------------------------------------------------------------------
(* _redact_in_place *)

\* Mutant: the budget is looked at after a node was popped.
BudgetChecked == Cardinality(visited) > Budget

OutOfBudget == Cardinality(visited) >= Budget
Walking == pc = "walk" /\ stack # <<>> /\ ~OutOfBudget

\* A list or an object: its members are visited later, the last one first; or
\* another scalar, which is skipped.
VisitNode ==
  /\ Walking /\ Last(stack).node \notin tree.strings
  /\ visited' = visited \cup {Last(stack).node}
  /\ stack' = Pushed(Last(stack))
  /\ UNCHANGED <<tree, native, mark, pc, deepest, scanVars, redacted, verdict>>

VisitString ==
  /\ Walking /\ Last(stack).node \in tree.strings
  /\ visited' = visited \cup {Last(stack).node}
  /\ stack' = Front(stack)
  /\ at' = Last(stack).node /\ text' \in Texts
  /\ pc' = "scan"
  /\ start' = 0 /\ out' = <<>> /\ found' = 0 /\ late' = FALSE
  /\ UNCHANGED <<tree, native, mark, deepest, redacted, verdict>>

\* The walk is over, and evaluate() returns.
Decide ==
  /\ pc = "walk" /\ (stack = <<>> \/ OutOfBudget)
  /\ pc' = "done"
  /\ verdict' = IF redacted # {} THEN "redact" ELSE "allow"
  /\ UNCHANGED <<tree, native, mark, stack, deepest, visited, scanVars, redacted>>

-----------------------------------------------------------------------------
(* _redact_string, _chunked_subn *)

Mark == [k \in 1..mark |-> 0]
Matches(from, to) == {s \in text.secrets : from < s.first /\ s.last <= to}

\* pattern.subn on the characters behind `from` up to `to`.
Subn(from, to) ==
  LET character(p) ==
        IF \E s \in Matches(from, to) : p = s.first THEN Mark
        ELSE IF \E s \in Matches(from, to) : p \in s.first..s.last THEN <<>>
        ELSE <<p>>
  IN  FlattenSeq([k \in 1..to - from |-> character(from + k)])

\* One pass: the regex package, or a string that fits in a window.
ScanWhole ==
  /\ pc = "scan" /\ (native \/ text.len <= Window)
  /\ out' = Subn(0, text.len)
  /\ found' = Cardinality(Matches(0, text.len))
  /\ pc' = "scanned"
  /\ UNCHANGED <<tree, native, mark, stack, deepest, visited, at, text, start, late,
                 redacted, verdict>>

\* The regex package gives up: the replacement takes the place of the string.
NativeTimeout ==
  /\ pc = "scan" /\ native
  /\ out' = Mark /\ found' = 1 /\ late' = TRUE
  /\ pc' = "scanned"
  /\ UNCHANGED <<tree, native, mark, stack, deepest, visited, at, text, start, redacted, verdict>>

\* Mutant: nothing is dropped.
WithOverlap(piece) == piece

\* The first Overlap characters of the replaced window are dropped.
WithoutOverlap(piece) == SubSeq(piece, Smaller(Overlap, Len(piece)) + 1, Len(piece))

\* Mutant: the windows do not overlap.
NextAtEnd(end) == end

NextStart(end) == end - Overlap

ScanWindow ==
  /\ pc = "scan" /\ ~native /\ text.len > Window
  /\ LET end == Smaller(start + Window, text.len)
         piece == Subn(start, end) IN
     /\ out' = out \o (IF start = 0 THEN piece ELSE WithoutOverlap(piece))
     /\ found' = found + Cardinality(Matches(start, end))
     /\ IF end = text.len
        THEN pc' = "scanned" /\ UNCHANGED start
        ELSE start' = NextStart(end) /\ UNCHANGED pc
  /\ UNCHANGED <<tree, native, mark, stack, deepest, visited, at, text, late, redacted, verdict>>

\* Mutant: the rest is passed on as it is.
RestAsIs == [k \in 1..text.len - start |-> start + k]

\* The deadline is over: the replacement takes the place of the rest.
Rest == Mark

Deadline ==
  /\ pc = "scan" /\ ~native /\ text.len > Window
  /\ out' = out \o Rest
  /\ found' = found + 1 /\ late' = TRUE
  /\ pc' = "scanned"
  /\ UNCHANGED <<tree, native, mark, stack, deepest, visited, at, text, start, redacted, verdict>>

\* The string is replaced if anything was counted.
Store ==
  /\ pc = "scanned"
  /\ redacted' = IF found > 0 THEN redacted \cup {at} ELSE redacted
  /\ pc' = "walk"
  /\ at' = 0 /\ text' = NoText /\ start' = 0 /\ out' = <<>> /\ found' = 0 /\ late' = FALSE
  /\ UNCHANGED <<tree, native, mark, stack, deepest, visited, verdict>>

Next ==
  \/ MeasureNode \/ Measured
  \/ VisitNode \/ VisitString \/ Decide
  \/ ScanWhole \/ NativeTimeout \/ ScanWindow \/ Deadline \/ Store

Spec == Init /\ [][Next]_vars

-----------------------------------------------------------------------------
(* Properties *)

\* Every variable has its type, and each window has characters that the ones
\* before had not.
TypeOK ==
  /\ IsTree(tree, Cardinality(Node)) /\ Cardinality(Node) <= MaxNodes
  /\ native \in BOOLEAN /\ mark \in MarkLengths
  /\ pc \in {"depth", "walk", "scan", "scanned", "done"}
  /\ stack \in Seq([node : Node, level : Nat]) /\ deepest \in Nat
  /\ visited \subseteq Node /\ redacted \subseteq visited \cap tree.strings
  /\ at \in visited \cup {0} /\ IsText(text)
  /\ start \in Nat /\ (start > 0 => start + Overlap < text.len)
  /\ out \in Seq(0..text.len) /\ found \in Nat /\ late \in BOOLEAN
  /\ verdict \in {"none", "unread", "redact", "allow"}

\* The path from the root to a node.
Path[n \in Node \cup {0}] == IF n = 0 THEN {} ELSE Path[tree.parent[n]] \cup {n}
Level(n) == ArgumentsLevel + Cardinality(Path[n]) - 1

\* The arguments go unread just if some node is too deep, although the check stops
\* at its cap and looks at the last members first: the rules are applied to what
\* is within the limit, and to nothing else.  SECURITY.md's "secrets at any tree
\* depth are redacted" does not hold of what is too deep.
DepthAgrees ==
  pc # "depth" => (verdict = "unread" <=> \E n \in Node : Level(n) > MaxDepth)

\* m comes before n if it is on n's path, or where their paths part, m's has the
\* later member of the list.
Before(m, n) ==
  \/ m \in Path[n]
  \/ \E i \in Path[m] \ Path[n], j \in Path[n] \ Path[m] :
       tree.parent[i] = tree.parent[j] /\ i > j

Walked == pc # "depth" /\ verdict # "unread"

\* The walk visits nodes within the budget, each once, from the last member of a
\* list to the first; those the budget leaves out are the first ones, and below
\* just one node that waits on the stack; and without need it leaves out none.
WalkCovers ==
  Walked =>
    /\ Cardinality(visited) <= Budget
    /\ verdict # "none" => visited = Node \/ Cardinality(visited) = Budget
    /\ \A n \in Node \ visited :
         /\ Cardinality({k \in DOMAIN stack : stack[k].node \in Path[n]}) = 1
         /\ \A m \in visited : Before(m, n)
    /\ \A k \in DOMAIN stack : stack[k].node \notin visited

\* The ends of the windows within the text.
Seams ==
  IF native THEN {}
  ELSE {e \in 1..text.len - 1 :
          \E k \in 1..text.len : e = Overlap + k * (Window - Overlap)}

\* What a secret is shown of, once the string was scanned, is of one that lies
\* across the end of a window, whatever the deadline cut off.  That windows overlap
\* "to avoid splitting matches at boundaries" is of no help: the head of a split
\* match was put out with the window before.
OnlySplitSecretsShow ==
  pc = "scanned" =>
    \A s \in text.secrets :
      (\E p \in s.first..s.last : p \in Range(out)) =>
        \E e \in Seams : s.first <= e /\ e < s.last

\* No secret touches what two windows share.
SeamsAreClear ==
  \A s \in text.secrets, e \in Seams : s.last <= e - Overlap \/ e < s.first

\* What one pass makes of the string: its text with each secret replaced.
OnePass == Subn(0, text.len)

\* The windows leave no text out, double none and replace each secret once,
\* as long as no secret touches what two of them share: a scan in time gives what
\* one pass gives, and a late one its beginning and the replacement.  And the text
\* that is kept because nothing was counted is the text itself.
TextIsKept ==
  pc = "scanned" =>
    /\ SeamsAreClear /\ ~late => out = OnePass
    /\ SeamsAreClear /\ late => \E n \in 0..Len(OnePass) : out = SubSeq(OnePass, 1, n) \o Mark
    /\ found = 0 => out = [p \in 1..text.len |-> p]
=============================================================================
