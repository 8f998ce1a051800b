------------------------------ MODULE AuditLog ------------------------------
(***************************************************************************)
(* The tamper-evident audit log of audit.py: a SQLite table of hash-       *)
(* chained rows and a sidecar anchor file, both shared by every            *)
(* `mcp-bastion up` process that runs under the same policy file.          *)
(*                                                                         *)
(* append() is synchronous inside a process, but between processes its     *)
(* steps interleave: the SELECT of the last hash runs in autocommit, the   *)
(* INSERT opens a transaction and takes SQLite's write lock, COMMIT        *)
(* releases it, and the anchor line is written after the commit.           *)
(*                                                                         *)
(* SHA-256 is modelled as a collision-free constructor: the hash of a body *)
(* with a given prev_hash is the sequence of entries it commits to.        *)
(***************************************************************************)
EXTENDS Integers, Sequences

CONSTANTS
  Proc,          \* the processes that opened the database
  Entry,         \* row bodies without prev_hash: timestamp, frame, decision
  AnchorEvery,   \* anchor_every (100 in the code, at least 1)
  MaxRows,       \* bound: rows ever inserted
  MaxFaults      \* bound: crashes, busy commits and failed anchor writes

ASSUME AnchorEveryAssumption == AnchorEvery \in Nat \ {0}
ASSUME BoundsAssumption == MaxRows \in Nat /\ MaxFaults \in Nat

VARIABLES
  audit,      \* the committed rows; row i has seq = i
  pending,    \* per process, the rows of its open transaction
  pc,         \* per process, where it is in append()
  entry,      \* per process, the entry being appended
  prev,       \* per process, prev_hash as _last_hash returned it
  seq,        \* per process, cur.lastrowid
  anchor,     \* the complete lines of the anchor file
  torn,       \* the anchor file ends in a part of a line
  returned,   \* history: the AuditRows append() has returned
  faults      \* how many faults have happened

procVars == <<pc, entry, prev, seq>>
anchorVars == <<anchor, torn>>
vars == <<audit, pending, procVars, anchorVars, returned, faults>>

Hash == Seq(Entry)
Genesis == <<>>
\* Mutants: the hash leaves out the previous one, or is the bare body.
HashWithoutPrev(prevHash, body) == <<body>>
BareBody(prevHash, body) == body

HashBody(prevHash, body) == Append(prevHash, body)

Row == [body : Entry, prev_hash : Hash, entry_hash : Hash]
AnchorLine == [seq : Nat, entry_hash : Hash]
Garbled == [seq |-> 0, entry_hash |-> Genesis]   \* a line that is not JSON

PC == {"idle", "read", "inserted", "committed"}

-----------------------------------------------------------------------------
(* Operators *)

LastHash(table) ==
  IF table = <<>> THEN Genesis ELSE table[Len(table)].entry_hash

\* Mutant: the first row is not anchored.
AnchorDueOnMultiples(n) == n % AnchorEvery = 0

AnchorDue(n) == n = 1 \/ n % AnchorEvery = 0

\* Mutant: SQLite lets two transactions write at a time.
NoLock(p) == FALSE

\* Another connection holds SQLite's write lock.
Locked(p) == \E q \in Proc \ {p} : pending[q] # <<>>

\* Mutants: what another connection has not committed is read, or what this one
\* has not committed is not.
DirtyView(p) ==
  LET writers == {q \in Proc : pending[q] # <<>>} IN
  IF writers = {} THEN audit ELSE audit \o pending[CHOOSE q \in writers : TRUE]
CommittedView(p) == audit

\* The rows process p's connection sees: its own open transaction included.
View(p) == audit \o pending[p]

\* The rows at which verify_chain would stop, by position in the table.
BrokenAt(table) ==
  {i \in 1..Len(table) :
     \/ table[i].prev_hash # (IF i = 1 THEN Genesis ELSE table[i - 1].entry_hash)
     \/ table[i].entry_hash # HashBody(table[i].prev_hash, table[i].body)}

VerifyChain(table) == BrokenAt(table) = {}

\* broken_seq: the first row of the table that does not verify.
BrokenSeq(table) ==
  CHOOSE i \in BrokenAt(table) : \A j \in BrokenAt(table) : i <= j

\* The row process p builds from its locals.
RowOf(p) ==
  [body |-> entry[p], prev_hash |-> prev[p],
   entry_hash |-> HashBody(prev[p], entry[p])]

MatchesRow(line, table) ==
  /\ line.seq \in 1..Len(table)
  /\ line.entry_hash = table[line.seq].entry_hash

VerifyAnchor == ~torn /\ \A k \in 1..Len(anchor) : MatchesRow(anchor[k], audit)

-----------------------------------------------------------------------------
(* append() *)

Init ==
  /\ audit = <<>>
  /\ pending = [p \in Proc |-> <<>>]
  /\ pc = [p \in Proc |-> "idle"]
  /\ entry \in [Proc -> Entry]
  /\ prev = [p \in Proc |-> Genesis]
  /\ seq = [p \in Proc |-> 0]
  /\ anchor = <<>>
  /\ torn = FALSE
  /\ returned = {}
  /\ faults = 0

Fault == faults < MaxFaults /\ faults' = faults + 1

Goto(p, label) == pc' = [pc EXCEPT ![p] = label]

\* append() is called: SELECT entry_hash ... LIMIT 1, outside any transaction
\* unless a busy commit left one open, whose rows the connection then sees.
ReadLastHash(p) ==
  /\ pc[p] = "idle"
  /\ Len(audit) + Len(pending[p]) < MaxRows
  /\ \E e \in Entry : entry' = [entry EXCEPT ![p] = e]
  /\ prev' = [prev EXCEPT ![p] = LastHash(View(p))]
  /\ Goto(p, "read")
  /\ UNCHANGED <<audit, pending, seq, anchorVars, returned, faults>>

\* The row is hashed and inserted; AUTOINCREMENT picks its seq.
Insert(p) ==
  /\ pc[p] = "read"
  /\ ~Locked(p)
  /\ pending' = [pending EXCEPT ![p] = Append(@, RowOf(p))]
  /\ seq' = [seq EXCEPT ![p] = Len(audit) + Len(pending[p]) + 1]
  /\ Goto(p, "inserted")
  /\ UNCHANGED <<audit, entry, prev, anchorVars, returned, faults>>

\* Mutant: append() waits for the lock for ever.
WaitForLock(p) == FALSE

\* The write lock was not free within sqlite3's timeout: append() raises.
InsertBusy(p) ==
  /\ pc[p] = "read"
  /\ Locked(p)
  /\ Goto(p, "idle")
  /\ UNCHANGED <<audit, pending, entry, prev, seq, anchorVars, returned, faults>>

Publish(p) ==
  /\ audit' = audit \o pending[p]
  /\ pending' = [pending EXCEPT ![p] = <<>>]

Commit(p) ==
  /\ pc[p] = "inserted"
  /\ Publish(p)
  /\ Goto(p, "committed")
  /\ UNCHANGED <<entry, prev, seq, anchorVars, returned, faults>>

\* Mutant: the exception of a busy commit is swallowed.
CommitBusySwallowed(p) ==
  /\ pc[p] = "inserted"
  /\ Fault
  /\ Goto(p, "committed")
  /\ UNCHANGED <<audit, pending, entry, prev, seq, anchorVars, returned>>

\* A reader (inspect-log) kept its lock past the timeout: append() raises and
\* the transaction stays open until the connection next commits.
CommitBusy(p) ==
  /\ pc[p] = "inserted"
  /\ Fault
  /\ Goto(p, "idle")
  /\ UNCHANGED <<audit, pending, entry, prev, seq, anchorVars, returned>>

\* A pin is persisted on the same connection: its commit() publishes the rows
\* a busy commit left in the transaction.
CommitByPin(p) ==
  /\ pc[p] = "idle"
  /\ pending[p] # <<>>
  /\ Publish(p)
  /\ UNCHANGED <<procVars, anchorVars, returned, faults>>

\* append() returns its AuditRow to the proxy.
Return(p) ==
  /\ returned' = returned \cup {[seq |-> seq[p], body |-> entry[p],
                                 entry_hash |-> RowOf(p).entry_hash]}
  /\ Goto(p, "idle")
  /\ UNCHANGED <<audit, pending, entry, prev, seq>>

SkipAnchor(p) ==
  /\ pc[p] = "committed"
  /\ ~AnchorDue(seq[p])
  /\ Return(p)
  /\ UNCHANGED <<anchorVars, faults>>

\* One O_APPEND write of the line; after a torn line it completes garbage.
WriteAnchor(p) ==
  /\ pc[p] = "committed"
  /\ AnchorDue(seq[p])
  /\ anchor' = Append(anchor,
       IF torn THEN Garbled
       ELSE [seq |-> seq[p], entry_hash |-> RowOf(p).entry_hash])
  /\ torn' = FALSE
  /\ Return(p)
  /\ UNCHANGED faults

\* mkdir or open fails: _write_anchor returns without a word.
AnchorOpenFails(p) ==
  /\ pc[p] = "committed"
  /\ AnchorDue(seq[p])
  /\ Fault
  /\ Return(p)
  /\ UNCHANGED anchorVars

\* os.write writes a part of the line; its result is not looked at.
AnchorShortWrite(p) ==
  /\ pc[p] = "committed"
  /\ AnchorDue(seq[p])
  /\ Fault
  /\ torn' = TRUE
  /\ Return(p)
  /\ UNCHANGED anchor

\* os.write raises: the row is committed, the caller gets an exception.
AnchorWriteRaises(p) ==
  /\ pc[p] = "committed"
  /\ AnchorDue(seq[p])
  /\ Fault
  /\ Goto(p, "idle")
  /\ UNCHANGED <<audit, pending, entry, prev, seq, anchorVars, returned>>

\* The process dies (or a stdio proxy exits on an exception) and is started
\* again; SQLite rolls its transaction back and frees the lock.
Crash(p) ==
  /\ pc[p] # "idle" \/ pending[p] # <<>>
  /\ Fault
  /\ Goto(p, "idle")
  /\ pending' = [pending EXCEPT ![p] = <<>>]
  /\ UNCHANGED <<audit, entry, prev, seq, anchorVars, returned>>

\* The steps of an append() under way.
Step(p) ==
  \/ Insert(p) \/ InsertBusy(p) \/ Commit(p)
  \/ SkipAnchor(p) \/ WriteAnchor(p)

Failure(p) ==
  \/ CommitBusy(p) \/ AnchorOpenFails(p) \/ AnchorShortWrite(p)
  \/ AnchorWriteRaises(p) \/ Crash(p)

Next == \E p \in Proc : ReadLastHash(p) \/ Step(p) \/ CommitByPin(p) \/ Failure(p)

Spec == Init /\ [][Next]_vars

\* append() is straight-line code: once called, it runs on.
FairSpec == Spec /\ \A p \in Proc : WF_vars(Step(p))

-----------------------------------------------------------------------------
(* Properties *)

\* Every variable has its type; this also bounds what a row can hold.
TypeOK ==
  /\ audit \in Seq(Row)
  /\ pending \in [Proc -> Seq(Row)]
  /\ pc \in [Proc -> PC]
  /\ entry \in [Proc -> Entry]
  /\ prev \in [Proc -> Hash]
  /\ seq \in [Proc -> Nat]
  /\ anchor \in Seq(AnchorLine)
  /\ torn \in BOOLEAN
  /\ returned \subseteq [seq : Nat, body : Entry, entry_hash : Hash]
  /\ faults \in 0..MaxFaults

\* However the writers interleave, crash and retry, every committed row hashes
\* to its own entry_hash and extends either the genesis hash or an earlier
\* committed row: the table is a tree of chains, none of them dangling.
FormsTree(table) ==
  \A i \in 1..Len(table) :
    /\ table[i].entry_hash = HashBody(table[i].prev_hash, table[i].body)
    /\ \/ table[i].prev_hash = Genesis
       \/ \E j \in 1..(i - 1) : table[i].prev_hash = table[j].entry_hash

RowsFormTree == FormsTree(audit)

\* Every intact line of the anchor file names a committed row by its seq and
\* holds that row's hash, so verify_anchor never takes the writers' own races
\* for a truncation (the write comes after the commit, seq after the lock).
AnchorsMatchRows ==
  \A k \in 1..Len(anchor) : anchor[k] # Garbled => MatchesRow(anchor[k], audit)

\* As long as nothing failed, the anchor file verifies, and once no append is
\* under way it has a line for the first and for every AnchorEvery-th row.
AnchorsComplete ==
  faults = 0 =>
    /\ VerifyAnchor
    /\ (\A p \in Proc : pc[p] = "idle") =>
         \A i \in 1..Len(audit) : i = 1 \/ i % AnchorEvery = 0 =>
           \E k \in 1..Len(anchor) : anchor[k].seq = i

\* The promise to every writer: what append() returned is in the table, at the
\* seq it returned, and the table only ever grows at its end.
Promise == INSTANCE AppendOnlyLog
  WITH log <- [i \in 1..Len(audit) |-> audit[i].body],
       acked <- {[seq |-> r.seq, body |-> r.body] : r \in returned}

KeepsPromise == Promise!Spec

\* An append() that was called comes to an end, even when another process sits
\* on the write lock with a transaction it never manages to commit.
AppendReturns == \A p \in Proc : pc[p] = "read" ~> pc[p] = "idle"

\* The log a verifier accepts: inspect-log --verify says OK in every state.
\* True of one writer; the documented deployment has several.
ChainVerifies == VerifyChain(audit)

\* "A single missing or modified row breaks the chain": with the rows as the
\* code wrote them, dropping any row but the last is reported at the row that
\* followed it, and another body in any row is reported at that row.
Without(table, i) == SubSeq(table, 1, i - 1) \o SubSeq(table, i + 1, Len(table))
WithBody(table, i, e) == [table EXCEPT ![i].body = e]

DamageIsFlagged ==
  /\ \A i \in 1..(Len(audit) - 1) :
       LET left == Without(audit, i) IN ~VerifyChain(left) /\ BrokenSeq(left) = i
  /\ \A i \in 1..Len(audit) : \A e \in Entry \ {audit[i].body} :
       LET left == WithBody(audit, i, e) IN ~VerifyChain(left) /\ BrokenSeq(left) = i
=============================================================================
