--------------------------- MODULE AuditLog_proof ---------------------------
(***************************************************************************)
(* Theorems about AuditLog, for any number of processes, entries, rows and *)
(* faults.  The inductive invariant says who may hold an open transaction  *)
(* and what the locals of an append() under way stand for.                 *)
(***************************************************************************)
EXTENDS AuditLog, SequenceTheorems, TLAPS

-----------------------------------------------------------------------------
(* Types *)

\* The row built from typed locals is a row, and hashes to its entry_hash.
LEMMA RowOfType ==
  ASSUME TypeOK, NEW p \in Proc
  PROVE  /\ RowOf(p) \in Row
         /\ RowOf(p).body = entry[p]
         /\ RowOf(p).prev_hash = prev[p]
         /\ RowOf(p).entry_hash = HashBody(prev[p], entry[p])
<1>1. entry[p] \in Entry /\ prev[p] \in Seq(Entry)
  BY DEF TypeOK, Hash
<1>2. HashBody(prev[p], entry[p]) \in Seq(Entry)
  BY <1>1, AppendProperties DEF HashBody
<1>3. QED
  BY <1>1, <1>2 DEF RowOf, Row, Hash

\* The last hash of a table is a hash.
LEMMA LastHashType ==
  ASSUME NEW table \in Seq(Row)
  PROVE  LastHash(table) \in Hash
<1>1. CASE table = <<>>
  BY <1>1, EmptySeq DEF LastHash, Hash, Genesis
<1>2. CASE table # <<>>
  <2>1. Len(table) \in 1..Len(table)
    BY <1>2, EmptySeq, LenProperties
  <2>2. table[Len(table)] \in Row
    BY <2>1, ElementOfSeq
  <2>3. QED
    BY <1>2, <2>2 DEF LastHash, Row
<1>3. QED
  BY <1>1, <1>2

\* A row returned to the caller has its type.
LEMMA ReturnType ==
  ASSUME TypeOK, NEW p \in Proc, Return(p)
  PROVE  returned' \subseteq [seq : Nat, body : Entry, entry_hash : Hash]
<1>1. RowOf(p).entry_hash \in Hash /\ entry[p] \in Entry
  BY RowOfType DEF Row, TypeOK
<1>2. QED
  BY <1>1 DEF Return, TypeOK

\* Publishing an open transaction keeps the tables' types.
LEMMA PublishType ==
  ASSUME TypeOK, NEW p \in Proc, Publish(p)
  PROVE  audit' \in Seq(Row) /\ pending' \in [Proc -> Seq(Row)]
<1>1. audit' \in Seq(Row)
  BY ConcatProperties DEF Publish, TypeOK
<1>2. <<>> \in Seq(Row)
  BY EmptySeq
<1>3. QED
  BY <1>1, <1>2 DEF Publish, TypeOK

\* The initial values have their types.
LEMMA TypeInit == Init => TypeOK
<1>1. <<>> \in Seq(Row) /\ <<>> \in Seq(AnchorLine)
  BY EmptySeq
<1>2. Genesis \in Hash
  BY EmptySeq DEF Genesis, Hash
<1>3. 0 \in 0..MaxFaults
  BY BoundsAssumption
<1> SUFFICES ASSUME Init PROVE TypeOK
  OBVIOUS
<1>4. audit \in Seq(Row) /\ anchor \in Seq(AnchorLine)
  BY <1>1 DEF Init
<1>5. pending \in [Proc -> Seq(Row)]
  BY <1>1 DEF Init
<1>6. pc \in [Proc -> PC] /\ entry \in [Proc -> Entry] /\ prev \in [Proc -> Hash]
  BY <1>2 DEF Init, PC
<1>7. seq \in [Proc -> Nat] /\ torn \in BOOLEAN /\ faults \in 0..MaxFaults
  BY <1>3 DEF Init
<1>8. returned \subseteq [seq : Nat, body : Entry, entry_hash : Hash]
  BY DEF Init
<1>9. QED
  BY <1>4, <1>5, <1>6, <1>7, <1>8 DEF TypeOK

\* Every step keeps the types.
LEMMA TypeStep == TypeOK /\ [Next]_vars => TypeOK'
<1> SUFFICES ASSUME TypeOK, [Next]_vars
             PROVE  TypeOK'
  OBVIOUS
<1> USE DEF PC
<1>1. ASSUME NEW p \in Proc, ReadLastHash(p)
      PROVE  TypeOK'
  <2>1. View(p) \in Seq(Row)
    BY ConcatProperties DEF View, TypeOK
  <2>2. LastHash(View(p)) \in Hash
    BY <2>1, LastHashType
  <2>3. QED
    BY <1>1, <2>2 DEF ReadLastHash, Goto, TypeOK, anchorVars
<1>2. ASSUME NEW p \in Proc, Insert(p)
      PROVE  TypeOK'
  <2>1. RowOf(p) \in Row /\ pending[p] \in Seq(Row)
    BY RowOfType DEF TypeOK
  <2>2. Append(pending[p], RowOf(p)) \in Seq(Row)
    BY <2>1, AppendProperties
  <2>3. Len(audit) + Len(pending[p]) + 1 \in Nat
    BY LenProperties DEF TypeOK
  <2>4. QED
    BY <1>2, <2>2, <2>3 DEF Insert, Goto, TypeOK, anchorVars
<1>3. ASSUME NEW p \in Proc, InsertBusy(p)
      PROVE  TypeOK'
  BY <1>3 DEF InsertBusy, Goto, TypeOK, anchorVars
<1>4. ASSUME NEW p \in Proc, Commit(p)
      PROVE  TypeOK'
  <2>1. audit' \in Seq(Row) /\ pending' \in [Proc -> Seq(Row)]
    BY <1>4, PublishType DEF Commit
  <2>2. QED
    BY <1>4, <2>1 DEF Commit, Goto, TypeOK, anchorVars
<1>5. ASSUME NEW p \in Proc, CommitBusy(p)
      PROVE  TypeOK'
  BY <1>5, BoundsAssumption DEF CommitBusy, Fault, Goto, TypeOK, anchorVars
<1>6. ASSUME NEW p \in Proc, CommitByPin(p)
      PROVE  TypeOK'
  <2>1. audit' \in Seq(Row) /\ pending' \in [Proc -> Seq(Row)]
    BY <1>6, PublishType DEF CommitByPin
  <2>2. QED
    BY <1>6, <2>1 DEF CommitByPin, TypeOK, procVars, anchorVars
<1>7. ASSUME NEW p \in Proc, SkipAnchor(p)
      PROVE  TypeOK'
  <2>1. returned' \subseteq [seq : Nat, body : Entry, entry_hash : Hash]
    BY <1>7, ReturnType DEF SkipAnchor
  <2>2. QED
    BY <1>7, <2>1 DEF SkipAnchor, Return, Goto, TypeOK, anchorVars
<1>8. ASSUME NEW p \in Proc, WriteAnchor(p)
      PROVE  TypeOK'
  <2>1. returned' \subseteq [seq : Nat, body : Entry, entry_hash : Hash]
    BY <1>8, ReturnType DEF WriteAnchor
  <2>2. Garbled \in AnchorLine
    BY EmptySeq DEF Garbled, AnchorLine, Hash, Genesis
  <2>3. [seq |-> seq[p], entry_hash |-> RowOf(p).entry_hash] \in AnchorLine
    BY RowOfType DEF AnchorLine, Row, TypeOK
  <2>4. anchor' \in Seq(AnchorLine)
    BY <1>8, <2>2, <2>3, AppendProperties DEF WriteAnchor, TypeOK
  <2>5. QED
    BY <1>8, <2>1, <2>4 DEF WriteAnchor, Return, Goto, TypeOK
<1>9. ASSUME NEW p \in Proc, AnchorOpenFails(p)
      PROVE  TypeOK'
  <2>1. returned' \subseteq [seq : Nat, body : Entry, entry_hash : Hash]
    BY <1>9, ReturnType DEF AnchorOpenFails
  <2>2. QED
    BY <1>9, <2>1, BoundsAssumption
       DEF AnchorOpenFails, Return, Fault, Goto, TypeOK, anchorVars
<1>10. ASSUME NEW p \in Proc, AnchorShortWrite(p)
       PROVE  TypeOK'
  <2>1. returned' \subseteq [seq : Nat, body : Entry, entry_hash : Hash]
    BY <1>10, ReturnType DEF AnchorShortWrite
  <2>2. QED
    BY <1>10, <2>1, BoundsAssumption
       DEF AnchorShortWrite, Return, Fault, Goto, TypeOK
<1>11. ASSUME NEW p \in Proc, AnchorWriteRaises(p)
       PROVE  TypeOK'
  BY <1>11, BoundsAssumption
     DEF AnchorWriteRaises, Fault, Goto, TypeOK, anchorVars
<1>12. ASSUME NEW p \in Proc, Crash(p)
       PROVE  TypeOK'
  BY <1>12, BoundsAssumption, EmptySeq DEF Crash, Fault, Goto, TypeOK, anchorVars
<1>13. CASE UNCHANGED vars
  BY <1>13 DEF vars, procVars, anchorVars, TypeOK
<1>14. QED
  BY <1>1, <1>2, <1>3, <1>4, <1>5, <1>6, <1>7, <1>8, <1>9, <1>10, <1>11,
     <1>12, <1>13 DEF Next, Step, Failure

\* Type correctness: every variable keeps its type, so that every row in the
\* table was built by append() from an entry and a hash.
THEOREM TypeCorrect == Spec => []TypeOK
BY TypeInit, TypeStep, PTL DEF Spec

-----------------------------------------------------------------------------
(* The write lock and the anchors *)

\* At most one process has rows in an open transaction.
OneTransaction ==
  \A p, q \in Proc : pending[p] # <<>> /\ pending[q] # <<>> => p = q

\* Between INSERT and COMMIT, seq is the place the row will have in the table.
InsertedInv ==
  \A p \in Proc : pc[p] = "inserted" =>
    /\ Len(pending[p]) > 0
    /\ seq[p] = Len(audit) + Len(pending[p])
    /\ pending[p][Len(pending[p])] = RowOf(p)

\* After COMMIT, the row is in the table at that place.
CommittedInv ==
  \A p \in Proc : pc[p] = "committed" =>
    /\ seq[p] \in 1..Len(audit)
    /\ audit[seq[p]] = RowOf(p)

\* What append() has returned is in the table.
AckedInv ==
  \A r \in returned :
    /\ r.seq \in 1..Len(audit)
    /\ audit[r.seq].body = r.body
    /\ audit[r.seq].entry_hash = r.entry_hash

WriterInv ==
  /\ TypeOK
  /\ OneTransaction
  /\ InsertedInv
  /\ CommittedInv
  /\ AckedInv
  /\ AnchorsMatchRows

\* A step leaves the table alone or publishes one process's transaction.
LEMMA TableStep ==
  ASSUME [Next]_vars
  PROVE  audit' = audit \/ \E p \in Proc : Publish(p)
BY DEF Next, Step, Failure, vars, ReadLastHash, Insert, InsertBusy, Commit,
       CommitBusy, CommitByPin, SkipAnchor, WriteAnchor, AnchorOpenFails,
       AnchorShortWrite, AnchorWriteRaises, Crash, Return

\* Publishing appends: the table grows at its end and keeps what it has.
LEMMA PublishGrows ==
  ASSUME TypeOK, NEW p \in Proc, Publish(p)
  PROVE  /\ Len(audit) \in Nat /\ Len(pending[p]) \in Nat
         /\ Len(audit') = Len(audit) + Len(pending[p])
         /\ \A i \in 1..Len(audit) : audit'[i] = audit[i]
         /\ \A i \in 1..Len(pending[p]) : audit'[Len(audit) + i] = pending[p][i]
<1>1. audit \in Seq(Row) /\ pending[p] \in Seq(Row)
  BY DEF TypeOK
<1>2. Len(audit) \in Nat /\ Len(pending[p]) \in Nat
  BY <1>1, LenProperties
<1>3. audit' = audit \o pending[p]
  BY DEF Publish
<1>4. Len(audit') = Len(audit) + Len(pending[p])
  BY <1>1, <1>3, ConcatProperties
<1>5. \A i \in 1..(Len(audit) + Len(pending[p])) :
        audit'[i] = IF i <= Len(audit) THEN audit[i] ELSE pending[p][i - Len(audit)]
  BY <1>1, <1>3, ConcatProperties
<1>6. QED
  BY <1>2, <1>4, <1>5

\* Rows are final: a step never removes or rewrites a committed row.
LEMMA RowsAreFinal ==
  ASSUME TypeOK, [Next]_vars
  PROVE  /\ Len(audit) \in Nat /\ Len(audit') \in Nat
         /\ Len(audit) <= Len(audit')
         /\ \A i \in 1..Len(audit) : audit'[i] = audit[i]
<1>1. Len(audit) \in Nat
  BY LenProperties DEF TypeOK
<1>2. CASE audit' = audit
  BY <1>1, <1>2
<1>3. CASE \E p \in Proc : Publish(p)
  BY <1>1, <1>3, PublishGrows
<1>4. QED
  BY <1>2, <1>3, TableStep

\* A step of another process leaves what the invariant says of q's locals
\* alone, and a step that does not publish leaves the table alone too.
LEMMA LocalsOfOthers ==
  ASSUME TypeOK, NEW q \in Proc,
         entry'[q] = entry[q], prev'[q] = prev[q]
  PROVE  RowOf(q)' = RowOf(q)
BY DEF RowOf, HashBody

\* OneTransaction is kept: only Insert opens one, and only when none is open.
LEMMA OneTransactionStep ==
  ASSUME WriterInv, [Next]_vars
  PROVE  OneTransaction'
<1> USE DEF OneTransaction
<1>1. ASSUME NEW p \in Proc, Insert(p)
      PROVE  OneTransaction'
  BY <1>1 DEF Insert, Locked, WriterInv, TypeOK
<1>2. ASSUME NEW p \in Proc, pending' = [pending EXCEPT ![p] = <<>>]
      PROVE  OneTransaction'
  BY <1>2 DEF WriterInv, TypeOK
<1>3. CASE pending' = pending
  BY <1>3 DEF WriterInv
<1>4. \/ \E p \in Proc : Insert(p)
      \/ \E p \in Proc : pending' = [pending EXCEPT ![p] = <<>>]
      \/ pending' = pending
  BY DEF Next, Step, Failure, vars, ReadLastHash, InsertBusy, Commit,
         CommitBusy, CommitByPin, SkipAnchor, WriteAnchor, AnchorOpenFails,
         AnchorShortWrite, AnchorWriteRaises, Crash, Return, Publish
<1>5. QED
  BY <1>1, <1>2, <1>3, <1>4

\* InsertedInv is kept: while p is between INSERT and COMMIT no other process
\* can publish, so the length that gave p its seq does not change.
LEMMA InsertedStep ==
  ASSUME WriterInv, [Next]_vars
  PROVE  InsertedInv'
<1> USE DEF WriterInv
<1>0. /\ Len(audit) \in Nat
      /\ \A p \in Proc : Len(pending[p]) \in Nat /\ pending[p] \in Seq(Row)
  BY LenProperties DEF TypeOK
<1>1. ASSUME NEW p \in Proc, Insert(p)
      PROVE  InsertedInv'
  <2>1. RowOf(p) \in Row
    BY RowOfType
  <2>2. /\ pending'[p] = Append(pending[p], RowOf(p))
        /\ Len(pending'[p]) = Len(pending[p]) + 1
        /\ pending'[p][Len(pending[p]) + 1] = RowOf(p)
    BY <1>0, <1>1, <2>1, AppendProperties DEF Insert, TypeOK
  <2>3. RowOf(p)' = RowOf(p)
    BY <1>1, LocalsOfOthers DEF Insert
  <2>4. ASSUME NEW q \in Proc, q # p, pc'[q] = "inserted"
        PROVE  FALSE
    <3>1. pc[q] = "inserted" /\ pending[q] = <<>>
      BY <1>1, <2>4 DEF Insert, Goto, Locked, TypeOK
    <3>2. QED
      BY <3>1, EmptySeq DEF InsertedInv
  <2>5. seq'[p] = Len(audit') + Len(pending'[p])
    BY <1>0, <1>1, <2>2 DEF Insert, TypeOK
  <2>6. /\ Len(pending'[p]) > 0
        /\ pending'[p][Len(pending'[p])] = RowOf(p)'
    BY <1>0, <2>2, <2>3
  <2>7. SUFFICES ASSUME NEW q \in Proc, pc'[q] = "inserted"
                 PROVE  /\ Len(pending'[q]) > 0
                        /\ seq'[q] = Len(audit') + Len(pending'[q])
                        /\ pending'[q][Len(pending'[q])] = RowOf(q)'
    BY DEF InsertedInv
  <2>8. q = p
    BY <2>4, <2>7
  <2>9. QED
    BY <2>5, <2>6, <2>8
<1>2. ASSUME NEW p \in Proc, Publish(p), pc'[p] # "inserted", pending[p] # <<>>,
             \A q \in Proc \ {p} : pc'[q] = pc[q]
      PROVE  InsertedInv'
  <2>1. ASSUME NEW q \in Proc, pc'[q] = "inserted"
        PROVE  FALSE
    <3>1. q # p /\ pc[q] = "inserted"
      BY <1>2, <2>1
    <3>2. Len(pending[q]) > 0
      BY <3>1 DEF InsertedInv
    <3>3. pending[q] # <<>>
      BY <3>2, EmptySeq
    <3>4. QED
      BY <1>2, <3>1, <3>3 DEF OneTransaction
  <2>2. QED
    BY <2>1 DEF InsertedInv
<1>3. ASSUME NEW p \in Proc, audit' = audit, pc'[p] # "inserted",
             \A q \in Proc \ {p} : /\ pc'[q] = pc[q]
                                   /\ pending'[q] = pending[q]
                                   /\ seq'[q] = seq[q]
                                   /\ entry'[q] = entry[q]
                                   /\ prev'[q] = prev[q]
      PROVE  InsertedInv'
  <2>1. SUFFICES ASSUME NEW q \in Proc, pc'[q] = "inserted"
                 PROVE  /\ Len(pending'[q]) > 0
                        /\ seq'[q] = Len(audit') + Len(pending'[q])
                        /\ pending'[q][Len(pending'[q])] = RowOf(q)'
    BY DEF InsertedInv
  <2>2. q # p
    BY <1>3, <2>1
  <2>3. RowOf(q)' = RowOf(q)
    BY <1>3, <2>2, LocalsOfOthers
  <2>4. QED
    BY <1>3, <2>1, <2>2, <2>3 DEF InsertedInv
<1>4. ASSUME NEW p \in Proc, Commit(p)
      PROVE  InsertedInv'
  <2>1. pending[p] # <<>>
    BY <1>4, EmptySeq DEF Commit, InsertedInv
  <2>2. pc'[p] # "inserted" /\ \A q \in Proc \ {p} : pc'[q] = pc[q]
    BY <1>4 DEF Commit, Goto, TypeOK
  <2>3. QED
    BY <1>2, <1>4, <2>1, <2>2 DEF Commit
<1>5. ASSUME NEW p \in Proc, CommitByPin(p)
      PROVE  InsertedInv'
  BY <1>2, <1>5 DEF CommitByPin, procVars
<1>6. ASSUME NEW p \in Proc,
             \/ ReadLastHash(p) \/ InsertBusy(p) \/ SkipAnchor(p)
             \/ WriteAnchor(p) \/ Failure(p)
      PROVE  InsertedInv'
  <2>1. /\ audit' = audit
        /\ pc'[p] # "inserted"
        /\ \A q \in Proc \ {p} : /\ pc'[q] = pc[q]
                                 /\ pending'[q] = pending[q]
                                 /\ seq'[q] = seq[q]
                                 /\ entry'[q] = entry[q]
                                 /\ prev'[q] = prev[q]
    BY <1>6
       DEF TypeOK, ReadLastHash, InsertBusy, SkipAnchor, WriteAnchor, Failure,
           CommitBusy, AnchorOpenFails, AnchorShortWrite, AnchorWriteRaises,
           Crash, Return, Goto
  <2>2. QED
    BY <1>3, <2>1
<1>7. CASE UNCHANGED vars
  BY <1>7 DEF vars, procVars, InsertedInv, RowOf, HashBody
<1>8. QED
  BY <1>1, <1>4, <1>5, <1>6, <1>7 DEF Next, Step

\* CommittedInv is kept: Commit puts the row where seq says, and rows are final.
LEMMA CommittedStep ==
  ASSUME WriterInv, [Next]_vars
  PROVE  CommittedInv'
<1> USE DEF WriterInv
<1>1. ASSUME NEW q \in Proc, pc[q] = "committed",
             seq'[q] = seq[q], entry'[q] = entry[q], prev'[q] = prev[q]
      PROVE  seq'[q] \in 1..Len(audit') /\ audit'[seq'[q]] = RowOf(q)'
  <2>1. RowOf(q)' = RowOf(q)
    BY <1>1, LocalsOfOthers
  <2>2. seq[q] \in 1..Len(audit) /\ audit[seq[q]] = RowOf(q)
    BY <1>1 DEF CommittedInv
  <2>3. QED
    BY <1>1, <2>1, <2>2, RowsAreFinal
<1>2. SUFFICES ASSUME NEW q \in Proc, pc'[q] = "committed"
               PROVE  seq'[q] \in 1..Len(audit') /\ audit'[seq'[q]] = RowOf(q)'
  BY DEF CommittedInv
<1>3. CASE Commit(q)
  <2>1. /\ Len(pending[q]) > 0
        /\ seq[q] = Len(audit) + Len(pending[q])
        /\ pending[q][Len(pending[q])] = RowOf(q)
    BY <1>3 DEF Commit, InsertedInv
  <2>2. seq' = seq /\ RowOf(q)' = RowOf(q)
    BY <1>3, LocalsOfOthers DEF Commit
  <2>3. /\ Len(audit) \in Nat /\ Len(pending[q]) \in Nat
        /\ Len(audit') = Len(audit) + Len(pending[q])
        /\ \A i \in 1..Len(pending[q]) : audit'[Len(audit) + i] = pending[q][i]
    BY <1>3, PublishGrows DEF Commit
  <2>4. QED
    BY <2>1, <2>2, <2>3
<1>4. CASE ~Commit(q)
  <2>1. /\ pc[q] = "committed"
        /\ seq'[q] = seq[q] /\ entry'[q] = entry[q] /\ prev'[q] = prev[q]
    BY <1>2, <1>4
       DEF TypeOK, Next, Step, Failure, vars, procVars, ReadLastHash, Insert,
           InsertBusy, Commit, CommitBusy, CommitByPin, SkipAnchor, WriteAnchor,
           AnchorOpenFails, AnchorShortWrite, AnchorWriteRaises, Crash, Return,
           Goto
  <2>2. QED
    BY <1>1, <2>1
<1>5. QED
  BY <1>3, <1>4

\* AckedInv is kept: only a process past its COMMIT returns a row.
LEMMA AckedStep ==
  ASSUME WriterInv, [Next]_vars
  PROVE  AckedInv'
<1> USE DEF WriterInv
<1>1. \A r \in returned : /\ r.seq \in 1..Len(audit')
                          /\ audit'[r.seq].body = r.body
                          /\ audit'[r.seq].entry_hash = r.entry_hash
  BY RowsAreFinal DEF AckedInv
<1>2. ASSUME NEW p \in Proc, pc[p] = "committed", Return(p)
      PROVE  AckedInv'
  <2>1. /\ seq[p] \in 1..Len(audit) /\ audit[seq[p]] = RowOf(p)
        /\ RowOf(p).body = entry[p]
    BY <1>2, RowOfType DEF CommittedInv
  <2>2. audit' = audit
    BY <1>2 DEF Return
  <2>3. SUFFICES ASSUME NEW r \in returned'
                 PROVE  /\ r.seq \in 1..Len(audit')
                        /\ audit'[r.seq].body = r.body
                        /\ audit'[r.seq].entry_hash = r.entry_hash
    BY DEF AckedInv
  <2>4. CASE r \in returned
    BY <1>1, <2>4
  <2>5. CASE r = [seq |-> seq[p], body |-> entry[p],
                  entry_hash |-> RowOf(p).entry_hash]
    BY <2>1, <2>2, <2>5
  <2>6. QED
    BY <1>2, <2>4, <2>5 DEF Return
<1>3. CASE returned' = returned
  BY <1>1, <1>3 DEF AckedInv
<1>4. returned' = returned \/ \E p \in Proc : pc[p] = "committed" /\ Return(p)
  BY DEF Next, Step, Failure, vars, ReadLastHash, Insert, InsertBusy, Commit,
         CommitBusy, CommitByPin, SkipAnchor, WriteAnchor, AnchorOpenFails,
         AnchorShortWrite, AnchorWriteRaises, Crash
<1>5. QED
  BY <1>2, <1>3, <1>4

\* AnchorsMatchRows is kept: a line is written after the commit of its row.
LEMMA AnchorsStep ==
  ASSUME WriterInv, [Next]_vars
  PROVE  AnchorsMatchRows'
<1> USE DEF WriterInv
<1>0. anchor \in Seq(AnchorLine) /\ Len(anchor) \in Nat
  BY LenProperties DEF TypeOK
<1>1. ASSUME NEW line \in AnchorLine, MatchesRow(line, audit)
      PROVE  MatchesRow(line, audit')
  BY <1>1, RowsAreFinal DEF MatchesRow
<1>2. ASSUME NEW k \in 1..Len(anchor), anchor[k] # Garbled
      PROVE  MatchesRow(anchor[k], audit')
  <2>1. anchor[k] \in AnchorLine
    BY <1>0, ElementOfSeq
  <2>2. MatchesRow(anchor[k], audit)
    BY <1>2 DEF AnchorsMatchRows
  <2>3. QED
    BY <2>1, <2>2, <1>1
<1>3. ASSUME NEW p \in Proc, WriteAnchor(p)
      PROVE  AnchorsMatchRows'
  <2> DEFINE line == [seq |-> seq[p], entry_hash |-> RowOf(p).entry_hash]
  <2>1. audit' = audit /\ seq[p] \in 1..Len(audit) /\ audit[seq[p]] = RowOf(p)
    BY <1>3 DEF WriteAnchor, Return, CommittedInv
  <2>2. MatchesRow(line, audit')
    BY <2>1 DEF MatchesRow
  <2>3. Garbled \in AnchorLine /\ line \in AnchorLine
    BY EmptySeq, RowOfType DEF Garbled, AnchorLine, Hash, Genesis, Row, TypeOK
  <2>4. PICK new \in {Garbled, line} : anchor' = Append(anchor, new)
    BY <1>3 DEF WriteAnchor
  <2>5. /\ Len(anchor') = Len(anchor) + 1
        /\ \A k \in 1..Len(anchor) : anchor'[k] = anchor[k]
        /\ anchor'[Len(anchor) + 1] = new
    BY <1>0, <2>3, <2>4, AppendProperties
  <2>6. SUFFICES ASSUME NEW k \in 1..Len(anchor'), anchor'[k] # Garbled
                 PROVE  MatchesRow(anchor'[k], audit')
    BY DEF AnchorsMatchRows
  <2>7. CASE k \in 1..Len(anchor)
    BY <1>2, <2>5, <2>6, <2>7 DEF MatchesRow
  <2>8. CASE k = Len(anchor) + 1
    BY <2>2, <2>4, <2>5, <2>6, <2>8 DEF MatchesRow
  <2>9. QED
    BY <1>0, <2>5, <2>7, <2>8
<1>4. CASE anchor' = anchor
  BY <1>2, <1>4 DEF AnchorsMatchRows, MatchesRow
<1>5. anchor' = anchor \/ \E p \in Proc : WriteAnchor(p)
  BY DEF Next, Step, Failure, vars, anchorVars, ReadLastHash, Insert,
         InsertBusy, Commit, CommitBusy, CommitByPin, SkipAnchor,
         AnchorOpenFails, AnchorShortWrite, AnchorWriteRaises, Crash
<1>6. QED
  BY <1>3, <1>4, <1>5

\* The invariant of the write lock, of the seq an append() holds, of the rows
\* it has returned and of the anchors it has written.
THEOREM WriterInvariant == Spec => []WriterInv
<1>1. Init => WriterInv
  <2>1. Init => TypeOK
    BY TypeInit
  <2>2. QED
    BY <2>1, EmptySeq
       DEF Init, WriterInv, OneTransaction, InsertedInv, CommittedInv, AckedInv,
           AnchorsMatchRows
<1>2. WriterInv /\ [Next]_vars => WriterInv'
  BY TypeStep, OneTransactionStep, InsertedStep, CommittedStep, AckedStep,
     AnchorsStep DEF WriterInv
<1>3. QED
  BY <1>1, <1>2, PTL DEF Spec

\* verify_anchor never reports the writers' own interleavings as tampering:
\* every intact anchor line agrees with its row, for any number of writers.
THEOREM AnchorsAgree == Spec => []AnchorsMatchRows
<1>1. WriterInv => AnchorsMatchRows
  BY DEF WriterInv
<1>2. QED
  BY <1>1, WriterInvariant, PTL

-----------------------------------------------------------------------------
(* The anchors of a run without faults *)

\* Row i has its line in the anchor file, or the writer of the row is about to
\* write it.
AnchoredBy(i) ==
  \/ \E k \in 1..Len(anchor) : anchor[k].seq = i
  \/ \E p \in Proc : pc[p] = "committed" /\ seq[p] = i

\* As long as nothing failed, a transaction is one row of a process between its
\* INSERT and its COMMIT, so that no row gets into the table behind the back of
\* the process that inserted it.
OneRowInv ==
  \A p \in Proc : pending[p] # <<>> => pc[p] = "inserted" /\ Len(pending[p]) = 1
WholeLinesInv ==
  ~torn /\ \A k \in 1..Len(anchor) : anchor[k] # Garbled
DueInv == \A i \in 1..Len(audit) : AnchorDue(i) => AnchoredBy(i)

CleanInv == faults = 0 => OneRowInv /\ WholeLinesInv /\ DueInv

\* A step after which nothing has failed is no fault.
LEMMA CleanSteps ==
  ASSUME TypeOK, [Next]_vars, faults' = 0
  PROVE  /\ faults = 0
         /\ \/ UNCHANGED vars
            \/ \E p \in Proc : ReadLastHash(p) \/ Step(p) \/ CommitByPin(p)
<1>1. faults \in Nat
  BY BoundsAssumption DEF TypeOK
<1>2. ~Fault
  BY <1>1 DEF Fault
<1>3. \A p \in Proc : ~Failure(p)
  BY <1>2 DEF Failure, CommitBusy, AnchorOpenFails, AnchorShortWrite, AnchorWriteRaises, Crash
<1>4. QED
  BY <1>3 DEF Next, Step, vars, ReadLastHash, Insert, InsertBusy, Commit, CommitByPin,
              SkipAnchor, WriteAnchor

\* Without a fault, transactions have one row.
LEMMA OneRowStep ==
  ASSUME WriterInv, OneRowInv, faults' = 0, [Next]_vars
  PROVE  OneRowInv'
<1> USE DEF WriterInv
<1>1. ASSUME NEW p \in Proc, Insert(p) PROVE OneRowInv'
  <2>1. pending[p] = <<>>
    BY <1>1 DEF Insert, OneRowInv
  <2>2. RowOf(p) \in Row
    BY RowOfType
  <2>3. pending' = [pending EXCEPT ![p] = Append(<<>>, RowOf(p))] /\ Len(Append(<<>>, RowOf(p))) = 1
    BY <1>1, <2>1, <2>2, AppendProperties, EmptySeq DEF Insert
  <2>4. pc' = [pc EXCEPT ![p] = "inserted"]
    BY <1>1 DEF Insert, Goto
  <2>5. QED
    BY <2>3, <2>4 DEF OneRowInv, TypeOK
<1>2. ASSUME NEW p \in Proc, Commit(p) \/ CommitByPin(p) PROVE OneRowInv'
  <2>1. /\ pending' = [pending EXCEPT ![p] = <<>>]
        /\ \A q \in Proc \ {p} : pc'[q] = pc[q]
    BY <1>2 DEF Commit, CommitByPin, Publish, Goto, procVars, TypeOK
  <2>2. QED
    BY <2>1 DEF OneRowInv, TypeOK
<1>3. ASSUME NEW p \in Proc, ReadLastHash(p) \/ InsertBusy(p) \/ SkipAnchor(p) \/ WriteAnchor(p)
      PROVE  OneRowInv'
  <2>1. UNCHANGED pending /\ pc[p] # "inserted" /\ \E l : pc' = [pc EXCEPT ![p] = l]
    BY <1>3 DEF ReadLastHash, InsertBusy, SkipAnchor, WriteAnchor, Return, Goto
  <2>2. QED
    BY <2>1 DEF OneRowInv, TypeOK
<1>4. CASE UNCHANGED vars
  BY <1>4 DEF vars, procVars, OneRowInv
<1>5. QED
  BY <1>1, <1>2, <1>3, <1>4, CleanSteps DEF Step

\* Without a fault, every line of the anchor file is whole.
LEMMA WholeLinesStep ==
  ASSUME WriterInv, WholeLinesInv, faults' = 0, [Next]_vars
  PROVE  WholeLinesInv'
<1> USE DEF WriterInv
<1>1. ASSUME NEW p \in Proc, WriteAnchor(p) PROVE WholeLinesInv'
  <2> DEFINE line == [seq |-> seq[p], entry_hash |-> RowOf(p).entry_hash]
  <2>1. anchor' = Append(anchor, line) /\ torn' = FALSE
    BY <1>1 DEF WriteAnchor, WholeLinesInv
  <2>2. line \in AnchorLine /\ anchor \in Seq(AnchorLine)
    BY RowOfType DEF AnchorLine, Row, TypeOK
  <2>3. line.seq # 0
    BY <1>1 DEF WriteAnchor, CommittedInv
  <2>4. line # Garbled
    BY <2>3 DEF Garbled
  <2> HIDE DEF line
  <2>5. /\ Len(anchor') = Len(anchor) + 1 /\ Len(anchor) \in Nat
        /\ \A k \in 1..Len(anchor) : anchor'[k] = anchor[k]
        /\ anchor'[Len(anchor) + 1] = line
    BY <2>1, <2>2, AppendProperties, LenProperties
  <2>6. QED
    BY <2>1, <2>4, <2>5 DEF WholeLinesInv, Garbled, Genesis
<1>2. CASE UNCHANGED anchorVars
  BY <1>2 DEF WholeLinesInv, anchorVars, Garbled, Genesis
<1>3. UNCHANGED anchorVars \/ \E p \in Proc : WriteAnchor(p)
  BY CleanSteps DEF Step, vars, ReadLastHash, Insert, InsertBusy, Commit, CommitByPin, SkipAnchor
<1>4. QED
  BY <1>1, <1>2, <1>3

\* What is anchored, or about to be, stays so, unless the writer skips it.
LEMMA DueStep ==
  ASSUME WriterInv, OneRowInv, WholeLinesInv, DueInv, faults' = 0, [Next]_vars
  PROVE  DueInv'
<1> USE DEF WriterInv
<1>0. Len(anchor) \in Nat /\ Len(audit) \in Nat
  BY LenProperties DEF TypeOK
<1>1. ASSUME NEW p \in Proc, Commit(p) PROVE DueInv'
  <2>1. /\ Len(pending[p]) = 1 /\ seq[p] = Len(audit) + 1
        /\ Len(audit') = Len(audit) + 1
    <3>1. pending[p] # <<>> /\ seq[p] = Len(audit) + Len(pending[p])
      BY <1>1, EmptySeq DEF Commit, InsertedInv
    <3>2. Len(audit') = Len(audit) + Len(pending[p])
      BY <1>1, PublishGrows DEF Commit
    <3>3. QED
      BY <3>1, <3>2 DEF OneRowInv
  <2>2. /\ pc' = [pc EXCEPT ![p] = "committed"] /\ pc[p] # "committed"
        /\ UNCHANGED <<seq, anchor>>
    BY <1>1 DEF Commit, Goto, anchorVars
  <2>3. SUFFICES ASSUME NEW i \in 1..Len(audit'), AnchorDue(i) PROVE AnchoredBy(i)'
    BY DEF DueInv, AnchorDue
  <2>4. CASE i = Len(audit) + 1
    BY <2>1, <2>2, <2>4 DEF AnchoredBy, TypeOK
  <2>5. CASE i \in 1..Len(audit)
    <3>1. AnchoredBy(i)
      BY <2>3, <2>5 DEF DueInv
    <3>2. QED
      BY <2>2, <3>1 DEF AnchoredBy, TypeOK
  <2>6. QED
    BY <1>0, <2>1, <2>4, <2>5
<1>2. ASSUME NEW p \in Proc, SkipAnchor(p) PROVE DueInv'
  <2>1. /\ pc' = [pc EXCEPT ![p] = "idle"] /\ ~AnchorDue(seq[p])
        /\ UNCHANGED <<seq, anchor, audit>>
    BY <1>2 DEF SkipAnchor, Return, Goto, anchorVars
  <2>2. SUFFICES ASSUME NEW i \in 1..Len(audit), AnchorDue(i) PROVE AnchoredBy(i)'
    BY <2>1 DEF DueInv, AnchorDue
  <2>3. AnchoredBy(i)
    BY <2>2 DEF DueInv
  <2>4. QED
    BY <2>1, <2>2, <2>3 DEF AnchoredBy, TypeOK
<1>3. ASSUME NEW p \in Proc, WriteAnchor(p) PROVE DueInv'
  <2> DEFINE line == [seq |-> seq[p], entry_hash |-> RowOf(p).entry_hash]
  <2>1. /\ pc' = [pc EXCEPT ![p] = "idle"] /\ UNCHANGED <<seq, audit>>
        /\ anchor' = Append(anchor, line)
    BY <1>3 DEF WriteAnchor, Return, Goto, WholeLinesInv
  <2>2. line \in AnchorLine /\ anchor \in Seq(AnchorLine) /\ line.seq = seq[p]
    BY RowOfType DEF AnchorLine, Row, TypeOK
  <2> HIDE DEF line
  <2>3. /\ Len(anchor') = Len(anchor) + 1
        /\ \A k \in 1..Len(anchor) : anchor'[k] = anchor[k]
        /\ anchor'[Len(anchor) + 1] = line
    BY <2>1, <2>2, AppendProperties
  <2>4. SUFFICES ASSUME NEW i \in 1..Len(audit), AnchorDue(i) PROVE AnchoredBy(i)'
    BY <2>1 DEF DueInv, AnchorDue
  <2>5. AnchoredBy(i)
    BY <2>4 DEF DueInv
  <2>6. CASE \E k \in 1..Len(anchor) : anchor[k].seq = i
    BY <1>0, <2>3, <2>6 DEF AnchoredBy
  <2>7. CASE i = seq[p]
    BY <1>0, <2>2, <2>3, <2>7 DEF AnchoredBy
  <2>8. CASE \E q \in Proc \ {p} : pc[q] = "committed" /\ seq[q] = i
    BY <2>1, <2>8 DEF AnchoredBy, TypeOK
  <2>9. QED
    BY <2>5, <2>6, <2>7, <2>8 DEF AnchoredBy
<1>4. ASSUME NEW p \in Proc, ReadLastHash(p) \/ Insert(p) \/ InsertBusy(p) PROVE DueInv'
  <2>1. /\ UNCHANGED <<audit, anchor>> /\ pc[p] # "committed"
        /\ \E l : pc' = [pc EXCEPT ![p] = l]
        /\ \A q \in Proc \ {p} : seq'[q] = seq[q]
    BY <1>4 DEF ReadLastHash, Insert, InsertBusy, Goto, anchorVars, TypeOK
  <2>2. SUFFICES ASSUME NEW i \in 1..Len(audit), AnchorDue(i) PROVE AnchoredBy(i)'
    BY <2>1 DEF DueInv, AnchorDue
  <2>3. AnchoredBy(i)
    BY <2>2 DEF DueInv
  <2>4. QED
    BY <2>1, <2>3 DEF AnchoredBy, TypeOK
<1>5. \A p \in Proc : ~CommitByPin(p)
  BY DEF CommitByPin, OneRowInv
<1>6. CASE UNCHANGED vars
  BY <1>6 DEF vars, procVars, anchorVars, DueInv, AnchoredBy, AnchorDue
<1>7. QED
  BY <1>1, <1>2, <1>3, <1>4, <1>5, <1>6, CleanSteps DEF Step

\* AnchorsComplete: as long as nothing failed the anchor file verifies, and when
\* no append is under way it has every line that is due, for any AnchorEvery.
THEOREM AnchorsNeverMissing == Spec => []AnchorsComplete
<1>1. Init => CleanInv
  BY EmptySeq DEF Init, CleanInv, OneRowInv, WholeLinesInv, DueInv
<1>2. WriterInv /\ CleanInv /\ [Next]_vars => CleanInv'
  <2> SUFFICES ASSUME WriterInv, CleanInv, [Next]_vars, faults' = 0
               PROVE  (OneRowInv /\ WholeLinesInv /\ DueInv)'
    BY DEF CleanInv
  <2>1. faults = 0
    BY CleanSteps DEF WriterInv
  <2>2. QED
    BY <2>1, OneRowStep, WholeLinesStep, DueStep DEF CleanInv
<1>3. WriterInv /\ CleanInv => AnchorsComplete
  BY DEF WriterInv, CleanInv, WholeLinesInv, DueInv, AnchoredBy, AnchorDue, AnchorsMatchRows,
         AnchorsComplete, VerifyAnchor
<1>4. QED
  BY <1>1, <1>2, <1>3, WriterInvariant, PTL DEF Spec

-----------------------------------------------------------------------------
(* The hash chains *)

\* Appending to the second of two concatenated sequences.
LEMMA ConcatAppend ==
  ASSUME NEW S, NEW s \in Seq(S), NEW t \in Seq(S), NEW x \in S
  PROVE  s \o Append(t, x) = Append(s \o t, x)
<1>1. Append(t, x) \in Seq(S) /\ s \o t \in Seq(S)
  BY AppendProperties, ConcatProperties
<1>2. s \o Append(t, x) \in Seq(S) /\ Append(s \o t, x) \in Seq(S)
  BY <1>1, AppendProperties, ConcatProperties
<1>3. Len(s) \in Nat /\ Len(t) \in Nat
  BY LenProperties
<1>4. /\ Len(s \o Append(t, x)) = Len(s) + Len(t) + 1
      /\ Len(Append(s \o t, x)) = Len(s) + Len(t) + 1
  BY <1>1, <1>3, AppendProperties, ConcatProperties
<1>5. ASSUME NEW i \in 1..(Len(s) + Len(t) + 1)
      PROVE  (s \o Append(t, x))[i] = Append(s \o t, x)[i]
  BY <1>1, <1>3, AppendProperties, ConcatProperties
<1>6. QED
  BY <1>2, <1>4, <1>5, SeqEqual

\* How a step changes what the connections see.
LEMMA ViewInsert ==
  ASSUME TypeOK, NEW p \in Proc, Insert(p)
  PROVE  /\ View(p) \in Seq(Row) /\ RowOf(p) \in Row
         /\ View(p)' = Append(View(p), RowOf(p))
         /\ \A q \in Proc \ {p} : View(q)' = View(q)
<1>1. audit \in Seq(Row) /\ pending[p] \in Seq(Row) /\ RowOf(p) \in Row
  BY RowOfType DEF TypeOK
<1>2. View(p) \in Seq(Row)
  BY <1>1, ConcatProperties DEF View
<1>3. pending'[p] = Append(pending[p], RowOf(p)) /\ audit' = audit
  BY DEF Insert, TypeOK
<1>4. View(p)' = Append(View(p), RowOf(p))
  BY <1>1, <1>3, ConcatAppend DEF View
<1>5. \A q \in Proc \ {p} : View(q)' = View(q)
  BY DEF Insert, View, TypeOK
<1>6. QED
  BY <1>1, <1>2, <1>4, <1>5

\* What a process publishes is what it saw; the others saw the table before.
LEMMA ViewPublish ==
  ASSUME WriterInv, NEW p \in Proc, Publish(p), pending[p] # <<>>
  PROVE  /\ audit' = View(p)
         /\ \A q \in Proc : View(q)' = View(p)
         /\ \A q \in Proc \ {p} : View(q) = audit
<1> USE DEF WriterInv
<1>1. audit' = View(p) /\ audit' \in Seq(Row)
  BY PublishType DEF Publish, View
<1>2. \A q \in Proc \ {p} : pending[q] = <<>>
  BY DEF OneTransaction
<1>3. \A q \in Proc : pending'[q] = <<>>
  BY <1>2 DEF Publish, TypeOK
<1>4. QED
  BY <1>1, <1>2, <1>3, ConcatEmptySeq DEF View, TypeOK

\* No other step changes the table.
LEMMA ViewOther ==
  ASSUME TypeOK, NEW p \in Proc,
         ReadLastHash(p) \/ InsertBusy(p) \/ SkipAnchor(p) \/ WriteAnchor(p)
           \/ Failure(p)
  PROVE  /\ audit' = audit
         /\ View(p)' \in {View(p), audit}
         /\ \A q \in Proc \ {p} : View(q)' = View(q) /\ pc'[q] = pc[q]
                                  /\ prev'[q] = prev[q]
         /\ pc'[p] = "read" => ReadLastHash(p)
<1>1. audit' = audit /\ \A q \in Proc \ {p} : pending'[q] = pending[q]
                          /\ pc'[q] = pc[q] /\ prev'[q] = prev[q]
  BY DEF TypeOK, ReadLastHash, InsertBusy, SkipAnchor, WriteAnchor, Failure,
         CommitBusy, AnchorOpenFails, AnchorShortWrite, AnchorWriteRaises,
         Crash, Return, Goto
<1>2. pending'[p] = pending[p] \/ pending'[p] = <<>>
  BY DEF TypeOK, ReadLastHash, InsertBusy, SkipAnchor, WriteAnchor, Failure,
         CommitBusy, AnchorOpenFails, AnchorShortWrite, AnchorWriteRaises,
         Crash, Return
<1>3. pc'[p] = "read" => ReadLastHash(p)
  BY DEF TypeOK, InsertBusy, SkipAnchor, WriteAnchor, Failure,
         CommitBusy, AnchorOpenFails, AnchorShortWrite, AnchorWriteRaises,
         Crash, Return, Goto
<1>4. audit \o <<>> = audit
  BY ConcatEmptySeq DEF TypeOK
<1>5. QED
  BY <1>1, <1>2, <1>3, <1>4 DEF View

\* A hash that a row of the table, or an empty table, would hand to the next.
KnownIn(table, h) ==
  h = Genesis \/ \E j \in 1..Len(table) : h = table[j].entry_hash

\* What every connection sees is a tree, and prev is one of its hashes.
TreeInv ==
  /\ FormsTree(audit)
  /\ \A p \in Proc : FormsTree(View(p))
  /\ \A p \in Proc : pc[p] = "read" => KnownIn(View(p), prev[p])

\* A row that extends a known hash keeps a tree a tree.
LEMMA TreeAppend ==
  ASSUME NEW table \in Seq(Row), FormsTree(table), NEW row \in Row,
         row.entry_hash = HashBody(row.prev_hash, row.body),
         KnownIn(table, row.prev_hash)
  PROVE  FormsTree(Append(table, row))
<1> DEFINE new == Append(table, row)
<1>1. /\ Len(table) \in Nat
      /\ Len(new) = Len(table) + 1
      /\ \A i \in 1..Len(table) : new[i] = table[i]
      /\ new[Len(table) + 1] = row
  BY AppendProperties, LenProperties
<1> HIDE DEF new
<1>2. \A i \in 1..Len(table) :
        /\ new[i].entry_hash = HashBody(new[i].prev_hash, new[i].body)
        /\ \/ new[i].prev_hash = Genesis
           \/ \E j \in 1..(i - 1) : new[i].prev_hash = new[j].entry_hash
  BY <1>1 DEF FormsTree
<1>3. row.prev_hash = Genesis \/ \E j \in 1..Len(table) : row.prev_hash = new[j].entry_hash
  BY <1>1 DEF KnownIn
<1>4. FormsTree(new)
  BY <1>1, <1>2, <1>3 DEF FormsTree
<1>5. QED
  BY <1>4 DEF new

\* The last hash of a table is one of its hashes.
LEMMA LastHashKnown ==
  ASSUME NEW table \in Seq(Row)
  PROVE  KnownIn(table, LastHash(table))
<1>1. CASE table = <<>>
  BY <1>1 DEF LastHash, KnownIn
<1>2. CASE table # <<>>
  BY <1>2, EmptySeq DEF LastHash, KnownIn
<1>3. QED
  BY <1>1, <1>2

\* TreeInv is inductive, given the write lock.
LEMMA TreeStep ==
  ASSUME WriterInv, TreeInv, [Next]_vars
  PROVE  TreeInv'
<1> USE DEF WriterInv
<1>0. \A p \in Proc : View(p) \in Seq(Row) /\ prev[p] \in Hash
  BY ConcatProperties DEF View, TypeOK
<1>1. ASSUME NEW p \in Proc, Insert(p)
      PROVE  TreeInv'
  <2>1. FormsTree(Append(View(p), RowOf(p)))
    <3>1. KnownIn(View(p), RowOf(p).prev_hash) /\ FormsTree(View(p))
      BY <1>1, RowOfType DEF Insert, TreeInv
    <3>2. RowOf(p).entry_hash = HashBody(RowOf(p).prev_hash, RowOf(p).body)
      BY RowOfType
    <3>3. QED
      BY <1>1, <3>1, <3>2, ViewInsert, TreeAppend
  <2>2. \A q \in Proc : FormsTree(View(q)')
    BY <1>1, <2>1, ViewInsert DEF TreeInv
  <2>3. ASSUME NEW q \in Proc, pc'[q] = "read"
        PROVE  KnownIn(View(q)', prev'[q])
    <3>1. q # p /\ pc[q] = "read" /\ prev'[q] = prev[q]
      BY <1>1, <2>3 DEF Insert, Goto, TypeOK
    <3>2. QED
      BY <1>1, <3>1, ViewInsert DEF TreeInv
  <2>4. audit' = audit
    BY <1>1 DEF Insert
  <2>5. QED
    BY <2>2, <2>3, <2>4 DEF TreeInv, FormsTree, KnownIn
<1>2. ASSUME NEW p \in Proc, Publish(p), pending[p] # <<>>, prev' = prev,
             \A q \in Proc : pc'[q] = "read" => q # p /\ pc[q] = "read"
      PROVE  TreeInv'
  <2>1. FormsTree(audit') /\ \A q \in Proc : FormsTree(View(q)')
    BY <1>2, ViewPublish DEF TreeInv
  <2>2. ASSUME NEW q \in Proc, pc'[q] = "read"
        PROVE  KnownIn(View(q)', prev'[q])
    <3>1. KnownIn(audit, prev[q])
      BY <1>2, <2>2, ViewPublish DEF TreeInv
    <3>2. KnownIn(audit', prev[q])
      BY <1>2, <3>1, PublishGrows DEF KnownIn
    <3>3. QED
      BY <1>2, <3>2, ViewPublish
  <2>3. QED
    BY <2>1, <2>2 DEF TreeInv, FormsTree, KnownIn
<1>3. ASSUME NEW p \in Proc, Commit(p) \/ CommitByPin(p)
      PROVE  TreeInv'
  <2>1. pending[p] # <<>> /\ Publish(p) /\ prev' = prev
    BY <1>3, EmptySeq DEF Commit, CommitByPin, InsertedInv, procVars
  <2>2. \A q \in Proc : pc'[q] = "read" => q # p /\ pc[q] = "read"
    BY <1>3 DEF Commit, CommitByPin, procVars, Goto, TypeOK
  <2>3. QED
    BY <1>2, <2>1, <2>2
<1>4. ASSUME NEW p \in Proc,
             ReadLastHash(p) \/ InsertBusy(p) \/ SkipAnchor(p) \/ WriteAnchor(p)
               \/ Failure(p)
      PROVE  TreeInv'
  <2>1. /\ audit' = audit
        /\ View(p)' \in {View(p), audit}
        /\ \A q \in Proc \ {p} : View(q)' = View(q) /\ pc'[q] = pc[q]
                                 /\ prev'[q] = prev[q]
        /\ pc'[p] = "read" => ReadLastHash(p)
    BY <1>4, ViewOther
  <2>2. \A q \in Proc : FormsTree(View(q)')
    BY <2>1 DEF TreeInv
  <2>3. ReadLastHash(p) => KnownIn(View(p)', prev'[p])
    <3>1. KnownIn(View(p), LastHash(View(p)))
      BY <1>0, LastHashKnown
    <3>2. ReadLastHash(p) => View(p)' = View(p) /\ prev'[p] = LastHash(View(p))
      BY DEF ReadLastHash, View, TypeOK
    <3>3. QED
      BY <3>1, <3>2
  <2>4. \A q \in Proc : pc'[q] = "read" => KnownIn(View(q)', prev'[q])
    BY <2>1, <2>3 DEF TreeInv
  <2>5. QED
    BY <2>1, <2>2, <2>4 DEF TreeInv, FormsTree, KnownIn
<1>5. CASE UNCHANGED vars
  BY <1>5 DEF vars, procVars, TreeInv, View, FormsTree, KnownIn, HashBody, Genesis
<1>6. QED
  BY <1>1, <1>3, <1>4, <1>5 DEF Next, Step

\* However many writers race, crash and retry, the committed table is always a
\* tree of hash chains: no row refers to a row that is not committed before it.
THEOREM RowsAlwaysFormTree == Spec => []RowsFormTree
<1>1. Init => TreeInv
  <2> SUFFICES ASSUME Init PROVE TreeInv
    OBVIOUS
  <2>1. audit = <<>> /\ \A p \in Proc : View(p) = <<>>
    BY ConcatEmptySeq, EmptySeq DEF Init, View
  <2>2. QED
    BY <2>1, EmptySeq DEF Init, TreeInv, FormsTree
<1>2. WriterInv /\ TreeInv /\ [Next]_vars => TreeInv'
  BY TreeStep
<1>3. TreeInv => RowsFormTree
  BY DEF TreeInv, RowsFormTree
<1>4. QED
  BY <1>1, <1>2, <1>3, WriterInvariant, PTL DEF Spec

-----------------------------------------------------------------------------
(* One writer *)

\* A single process uses the database.
SingleWriter == \A p, q \in Proc : p = q

\* What the connection sees verifies, and prev is the hash the next row needs.
ChainInv ==
  /\ VerifyChain(audit)
  /\ \A p \in Proc : VerifyChain(View(p))
  /\ \A p \in Proc : pc[p] = "read" => prev[p] = LastHash(View(p))

\* A row that extends the last hash of a table that verifies verifies.
LEMMA ChainAppend ==
  ASSUME NEW table \in Seq(Row), VerifyChain(table), NEW row \in Row,
         row.entry_hash = HashBody(row.prev_hash, row.body),
         row.prev_hash = LastHash(table)
  PROVE  VerifyChain(Append(table, row))
<1> DEFINE new == Append(table, row)
<1>1. /\ Len(table) \in Nat
      /\ Len(new) = Len(table) + 1
      /\ \A i \in 1..Len(table) : new[i] = table[i]
      /\ new[Len(table) + 1] = row
      /\ table # <<>> <=> Len(table) # 0
  BY AppendProperties, LenProperties, EmptySeq
<1> HIDE DEF new
<1>2. \A i \in 1..Len(table) : i \notin BrokenAt(new)
  BY <1>1 DEF VerifyChain, BrokenAt
<1>3. Len(table) + 1 \notin BrokenAt(new)
  BY <1>1 DEF BrokenAt, LastHash
<1>4. VerifyChain(new)
  BY <1>1, <1>2, <1>3 DEF VerifyChain, BrokenAt
<1>5. QED
  BY <1>4 DEF new

\* ChainInv is inductive for one writer.
LEMMA ChainStep ==
  ASSUME SingleWriter, WriterInv, ChainInv, [Next]_vars
  PROVE  ChainInv'
<1> USE DEF WriterInv
<1>1. ASSUME NEW p \in Proc, Insert(p)
      PROVE  ChainInv'
  <2>1. View(p) \in Seq(Row) /\ RowOf(p) \in Row
    BY <1>1, ViewInsert
  <2>2. VerifyChain(Append(View(p), RowOf(p)))
    BY <1>1, <2>1, RowOfType, ChainAppend DEF Insert, ChainInv
  <2>3. VerifyChain(View(p)') /\ pc'[p] # "read" /\ VerifyChain(audit')
    BY <1>1, <2>2, ViewInsert DEF ChainInv, Insert, Goto, TypeOK
  <2>4. \A q \in Proc : q = p
    BY DEF SingleWriter
  <2>5. QED
    BY <2>3, <2>4 DEF ChainInv, VerifyChain, BrokenAt
<1>2. ASSUME NEW p \in Proc, Commit(p) \/ CommitByPin(p)
      PROVE  ChainInv'
  <2>1. pending[p] # <<>> /\ Publish(p) /\ pc'[p] # "read"
    BY <1>2, EmptySeq DEF Commit, CommitByPin, InsertedInv, procVars, Goto, TypeOK
  <2>2. audit' = View(p) /\ View(p)' = View(p)
    BY <2>1, ViewPublish
  <2>3. \A q \in Proc : q = p
    BY DEF SingleWriter
  <2>4. QED
    BY <2>1, <2>2, <2>3 DEF ChainInv, VerifyChain, BrokenAt
<1>3. ASSUME NEW p \in Proc,
             ReadLastHash(p) \/ InsertBusy(p) \/ SkipAnchor(p) \/ WriteAnchor(p)
               \/ Failure(p)
      PROVE  ChainInv'
  <2>1. /\ audit' = audit
        /\ View(p)' \in {View(p), audit}
        /\ pc'[p] = "read" => ReadLastHash(p)
    BY <1>3, ViewOther
  <2>2. ReadLastHash(p) => View(p)' = View(p) /\ prev'[p] = LastHash(View(p))
    BY DEF ReadLastHash, View, TypeOK
  <2>3. \A q \in Proc : q = p
    BY DEF SingleWriter
  <2>4. VerifyChain(audit') /\ VerifyChain(View(p)')
    BY <2>1 DEF ChainInv
  <2>5. pc'[p] = "read" => prev'[p] = LastHash(View(p)')
    BY <2>1, <2>2
  <2>6. QED
    BY <2>3, <2>4, <2>5 DEF ChainInv, VerifyChain, BrokenAt, LastHash
<1>4. CASE UNCHANGED vars
  BY <1>4 DEF vars, procVars, ChainInv, View, VerifyChain, BrokenAt, HashBody,
              Genesis, LastHash
<1>5. QED
  BY <1>1, <1>2, <1>3, <1>4 DEF Next, Step

\* With one process on the database, verify_chain accepts the table in every
\* state: across crashes, busy commits and the rows they leave uncommitted.
THEOREM SingleWriterChain == ASSUME SingleWriter PROVE Spec => []ChainVerifies
<1>1. Init => ChainInv
  <2> SUFFICES ASSUME Init PROVE ChainInv
    OBVIOUS
  <2>1. audit = <<>> /\ \A p \in Proc : View(p) = <<>> /\ pc[p] # "read"
    BY ConcatEmptySeq, EmptySeq DEF Init, View
  <2>2. QED
    BY <2>1, EmptySeq DEF ChainInv, VerifyChain, BrokenAt
<1>2. WriterInv /\ ChainInv /\ [Next]_vars => ChainInv'
  BY ChainStep
<1>3. ChainInv => ChainVerifies
  BY DEF ChainInv, ChainVerifies
<1>4. QED
  BY <1>1, <1>2, <1>3, WriterInvariant, PTL DEF Spec

-----------------------------------------------------------------------------
(* Damage *)

\* A hash differs from the one it extends, and commits to the body.
LEMMA HashCommits ==
  ASSUME NEW h \in Hash, NEW b \in Entry, NEW e \in Entry
  PROVE  /\ HashBody(h, b) # h
         /\ HashBody(h, b) = HashBody(h, e) => b = e
<1>1. /\ Len(Append(h, b)) = Len(h) + 1 /\ Len(h) \in Nat
      /\ Append(h, b)[Len(h) + 1] = b /\ Append(h, e)[Len(h) + 1] = e
  BY AppendProperties, LenProperties DEF Hash
<1>2. QED
  BY <1>1 DEF HashBody

\* A table without row i is the rows before it and, one place up, those behind.
LEMMA WithoutFacts ==
  ASSUME NEW table \in Seq(Row), NEW i \in 1..Len(table)
  PROVE  /\ Len(Without(table, i)) = Len(table) - 1 /\ Len(table) \in Nat
         /\ \A j \in 1..i - 1 : Without(table, i)[j] = table[j]
         /\ \A j \in i..Len(table) - 1 : Without(table, i)[j] = table[j + 1]
<1> DEFINE n == Len(table)
           s == SubSeq(table, 1, i - 1)
           t == SubSeq(table, i + 1, n)
<1>1. n \in Nat /\ i \in 1..n /\ \A j \in 1..n : table[j] \in Row
  BY LenProperties, ElementOfSeq
<1>2. s \in Seq(Row) /\ Len(s) = i - 1 /\ \A j \in 1..i - 1 : s[j] = table[j]
  BY <1>1, SubSeqProperties
<1>3. t \in Seq(Row) /\ Len(t) = n - i /\ \A j \in 1..n - i : t[j] = table[i + j]
  <2>1. \A j \in i + 1..n : table[j] \in Row
    BY <1>1
  <2>2. /\ t \in Seq(Row) /\ Len(t) = IF i + 1 <= n THEN n - (i + 1) + 1 ELSE 0
        /\ \A j \in 1..n - (i + 1) + 1 : t[j] = table[(i + 1) + j - 1]
    BY <1>1, <2>1, SubSeqProperties
  <2>3. n - (i + 1) + 1 = n - i /\ \A j \in Nat : (i + 1) + j - 1 = i + j
    BY <1>1
  <2> HIDE DEF t
  <2>4. Len(t) = n - i
    BY <1>1, <2>2
  <2>5. ASSUME NEW j \in 1..n - i PROVE t[j] = table[i + j]
    <3>1. j \in 1..n - (i + 1) + 1 /\ j \in Nat
      BY <1>1, <2>3
    <3>2. t[j] = table[(i + 1) + j - 1] /\ (i + 1) + j - 1 = i + j
      BY <2>2, <2>3, <3>1
    <3>3. QED
      BY <3>2
  <2>6. QED
    BY <2>2, <2>4, <2>5
<1>4. /\ Len(s \o t) = Len(s) + Len(t)
      /\ \A j \in 1..Len(s) + Len(t) :
           (s \o t)[j] = IF j <= Len(s) THEN s[j] ELSE t[j - Len(s)]
  BY <1>2, <1>3, ConcatProperties
<1> HIDE DEF s, t
<1>5. /\ Len(s \o t) = n - 1
      /\ \A j \in 1..i - 1 : (s \o t)[j] = table[j]
      /\ \A j \in i..n - 1 : (s \o t)[j] = table[j + 1]
  BY <1>1, <1>2, <1>3, <1>4
<1>6. QED
  BY <1>1, <1>5 DEF Without, s, t

\* Rows before the damaged one verify as they did, and verify_chain reports the
\* damaged one.
LEMMA DamageReported ==
  ASSUME NEW table, VerifyChain(table), Len(table) \in Nat,
         NEW left, Len(left) \in Nat, NEW i \in 1..Len(left), i <= Len(table),
         \A j \in 1..i - 1 : left[j] = table[j], i \in BrokenAt(left)
  PROVE  ~VerifyChain(left) /\ BrokenSeq(left) = i
<1>1. \A j \in 1..i - 1 : j \notin BrokenAt(left)
  BY DEF VerifyChain, BrokenAt
<1>2. BrokenAt(left) \subseteq 1..Len(left)
  BY DEF BrokenAt
<1>3. \A j \in BrokenAt(left) : i <= j
  BY <1>1, <1>2
<1>4. \A k \in BrokenAt(left) : (\A j \in BrokenAt(left) : k <= j) => k = i
  BY <1>2, <1>3
<1>5. QED
  BY <1>3, <1>4 DEF VerifyChain, BrokenSeq

\* DamageIsFlagged: with one writer, of any table it has written a row left out
\* is reported at the row that followed it, and a row with another body where
\* it stands.
THEOREM DamageAlwaysFlagged == ASSUME SingleWriter PROVE Spec => []DamageIsFlagged
<1>1. ASSUME TypeOK, ChainVerifies PROVE DamageIsFlagged
  <2>1. Len(audit) \in Nat /\ audit \in Seq(Row) /\ \A i \in 1..Len(audit) : audit[i] \in Row
    BY <1>1, LenProperties, ElementOfSeq DEF TypeOK
  <2>2. \A i \in 1..Len(audit) :
          /\ audit[i].body \in Entry /\ audit[i].prev_hash \in Hash
          /\ audit[i].prev_hash = IF i = 1 THEN Genesis ELSE audit[i - 1].entry_hash
          /\ audit[i].entry_hash = HashBody(audit[i].prev_hash, audit[i].body)
    BY <1>1, <2>1 DEF ChainVerifies, VerifyChain, BrokenAt, Row
  <2>3. ASSUME NEW i \in 1..Len(audit) - 1
        PROVE  ~VerifyChain(Without(audit, i)) /\ BrokenSeq(Without(audit, i)) = i
    <3> DEFINE left == Without(audit, i)
    <3>1. /\ Len(left) = Len(audit) - 1
          /\ \A j \in 1..i - 1 : left[j] = audit[j]
          /\ left[i] = audit[i + 1]
      BY <2>1, WithoutFacts
    <3>2. left[i].prev_hash = audit[i].entry_hash
      BY <2>1, <2>2, <3>1
    <3>3. audit[i].entry_hash # audit[i].prev_hash
      BY <2>1, <2>2, HashCommits
    <3>4. left[i].prev_hash # IF i = 1 THEN Genesis ELSE left[i - 1].entry_hash
      BY <2>1, <2>2, <3>1, <3>2, <3>3
    <3> HIDE DEF left
    <3>5. i \in BrokenAt(left) /\ i \in 1..Len(left) /\ Len(left) \in Nat
      BY <2>1, <3>1, <3>4 DEF BrokenAt
    <3>6. QED
      <4>1. ~VerifyChain(left) /\ BrokenSeq(left) = i
        BY <1>1, <2>1, <3>1, <3>5, DamageReported DEF ChainVerifies
      <4>2. QED
        BY <4>1 DEF left
  <2>4. ASSUME NEW i \in 1..Len(audit), NEW e \in Entry \ {audit[i].body}
        PROVE  ~VerifyChain(WithBody(audit, i, e)) /\ BrokenSeq(WithBody(audit, i, e)) = i
    <3> DEFINE left == WithBody(audit, i, e)
    <3>1. /\ Len(left) = Len(audit)
          /\ \A j \in 1..i - 1 : left[j] = audit[j]
          /\ left[i] = [audit[i] EXCEPT !.body = e]
      BY <2>1 DEF WithBody
    <3>2. /\ left[i].prev_hash = audit[i].prev_hash /\ left[i].entry_hash = audit[i].entry_hash
          /\ left[i].body = e
      BY <2>1, <3>1 DEF Row
    <3>3. left[i].entry_hash # HashBody(left[i].prev_hash, left[i].body)
      BY <2>2, <3>2, HashCommits
    <3> HIDE DEF left
    <3>4. i \in BrokenAt(left)
      BY <3>1, <3>3 DEF BrokenAt
    <3>5. QED
      <4>1. ~VerifyChain(left) /\ BrokenSeq(left) = i
        BY <1>1, <2>1, <3>1, <3>4, DamageReported DEF ChainVerifies
      <4>2. QED
        BY <4>1 DEF left
  <2>5. QED
    BY <2>3, <2>4 DEF DamageIsFlagged
<1>2. QED
  BY <1>1, TypeCorrect, SingleWriterChain, PTL

-----------------------------------------------------------------------------
(* The promise *)

\* A function on 1..n is a sequence of length n.
LEMMA FunctionIsSeq ==
  ASSUME NEW S, NEW n \in Nat, NEW f \in [1..n -> S]
  PROVE  f \in Seq(S) /\ Len(f) = n
<1>1. f \in Seq(S)
  OBVIOUS
<1>2. DOMAIN f = 1..n
  OBVIOUS
<1>3. QED
  BY <1>1, <1>2, LenProperties

\* The abstract log of a table: its bodies, in order.
Bodies(table) == [i \in 1..Len(table) |-> table[i].body]

\* The bodies of a table are a log of bodies.
LEMMA BodiesType ==
  ASSUME NEW table \in Seq(Row)
  PROVE  /\ Bodies(table) \in Seq(Entry)
         /\ Len(Bodies(table)) = Len(table)
         /\ \A i \in 1..Len(table) : Bodies(table)[i] = table[i].body
<1>1. Len(table) \in Nat
  BY LenProperties
<1>2. ASSUME NEW i \in 1..Len(table)
      PROVE  table[i].body \in Entry
  <2>1. table[i] \in Row
    BY ElementOfSeq
  <2>2. QED
    BY <2>1 DEF Row
<1>3. Bodies(table) \in [1..Len(table) -> Entry]
  BY <1>2 DEF Bodies
<1>4. QED
  BY <1>1, <1>3, FunctionIsSeq DEF Bodies

\* The acknowledged entries: what append() has returned.
Acked(rs) == {[seq |-> r.seq, body |-> r.body] : r \in rs}

\* A step of the code is a step of the abstract log, or changes neither the
\* entries recorded nor the ones acknowledged.
LEMMA PromiseStep ==
  ASSUME WriterInv, [Next]_vars
  PROVE  [Promise!Next]_(Promise!vars)
<1> USE DEF WriterInv
<1>0. audit \in Seq(Row) /\ audit' \in Seq(Row)
  BY TypeStep DEF TypeOK
<1>1. ASSUME NEW p \in Proc, Publish(p), pending[p] # <<>>, returned' = returned
      PROVE  Promise!Publish
  <2>1. Len(audit) \in Nat /\ Len(pending[p]) \in Nat \ {0}
        /\ Len(audit') = Len(audit) + Len(pending[p])
    BY <1>1, PublishGrows, EmptySeq DEF TypeOK
  <2>2. Bodies(audit') \in Seq(Entry) /\ Len(Bodies(audit')) > Len(Bodies(audit))
    BY <1>0, <2>1, BodiesType
  <2>3. ASSUME NEW i \in 1..Len(Bodies(audit))
        PROVE  Bodies(audit')[i] = Bodies(audit)[i]
    <3>1. i \in 1..Len(audit) /\ i \in 1..Len(audit')
      BY <1>0, <2>1, BodiesType
    <3>2. audit'[i] = audit[i]
      BY <1>1, <3>1, PublishGrows
    <3>3. QED
      BY <1>0, <3>1, <3>2, BodiesType
  <2>4. QED
    BY <1>1, <2>2, <2>3 DEF Promise!Publish, Bodies
<1>2. ASSUME NEW p \in Proc, pc[p] = "committed", Return(p)
      PROVE  Promise!Acknowledge
  <2>1. /\ seq[p] \in 1..Len(audit)
        /\ audit[seq[p]].body = entry[p]
    BY <1>2, RowOfType DEF CommittedInv
  <2>2. seq[p] \in 1..Len(Bodies(audit)) /\ Bodies(audit)[seq[p]] = entry[p]
    BY <1>0, <2>1, BodiesType
  <2>3. Acked(returned') = Acked(returned)
                             \cup {[seq |-> seq[p], body |-> entry[p]]}
    <3> DEFINE new == [seq |-> seq[p], body |-> entry[p],
                       entry_hash |-> RowOf(p).entry_hash]
    <3>1. returned' = returned \cup {new}
      BY <1>2 DEF Return
    <3>2. new.seq = seq[p] /\ new.body = entry[p]
      OBVIOUS
    <3> HIDE DEF new
    <3>3. Acked(returned') = Acked(returned) \cup {[seq |-> new.seq, body |-> new.body]}
      BY <3>1, Zenon DEF Acked
    <3>4. QED
      BY <3>2, <3>3
  <2>4. audit' = audit
    BY <1>2 DEF Return
  <2>5. QED
    BY <2>2, <2>3, <2>4 DEF Promise!Acknowledge, Bodies, Acked
<1>3. CASE audit' = audit /\ returned' = returned
  BY <1>3 DEF Promise!vars
<1>4. \/ audit' = audit /\ returned' = returned
      \/ \E p \in Proc : pc[p] = "committed" /\ Return(p)
      \/ \E p \in Proc : Commit(p) \/ CommitByPin(p)
  BY DEF Next, Step, Failure, vars, ReadLastHash, Insert, InsertBusy,
         CommitBusy, SkipAnchor, WriteAnchor, AnchorOpenFails,
         AnchorShortWrite, AnchorWriteRaises, Crash
<1>5. ASSUME NEW p \in Proc, Commit(p) \/ CommitByPin(p)
      PROVE  Publish(p) /\ pending[p] # <<>> /\ returned' = returned
  BY <1>5, EmptySeq DEF Commit, CommitByPin, InsertedInv
<1>6. QED
  BY <1>1, <1>2, <1>3, <1>4, <1>5 DEF Promise!Next

\* The implementation keeps the promise: for any number of writers and faults
\* the table only grows at its end, and a row append() has returned is in it,
\* at the seq it returned.
THEOREM ImplementsPromise == Spec => KeepsPromise
<1>1. Init => Promise!Init
  <2> SUFFICES ASSUME Init PROVE Promise!Init
    OBVIOUS
  <2>1. audit = <<>> /\ returned = {} /\ Len(audit) = 0
    BY EmptySeq DEF Init
  <2>2. QED
    BY <2>1 DEF Promise!Init
<1>2. WriterInv /\ [Next]_vars => [Promise!Next]_(Promise!vars)
  BY PromiseStep
<1>3. QED
  BY <1>1, <1>2, WriterInvariant, PTL DEF Spec, KeepsPromise, Promise!Spec
=============================================================================
