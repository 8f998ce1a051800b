------------------------------ MODULE ToolPins ------------------------------
(***************************************************************************)
(* Tool-description pinning: PolicyEngine._check_tools_list_drift() with   *)
(* its pins in memory, _persist_pin() and the tool_pins table, which every *)
(* process that runs under the same policy shares and reads only when it   *)
(* starts (attach_pin_store).                                              *)
(*                                                                         *)
(* A tools/list response is scanned one listing at a time, because each    *)
(* first sight commits to the shared table; the decision follows, and the  *)
(* response is forwarded only after its audit row was appended.  A         *)
(* description stands for its SHA-256 digest.                              *)
(***************************************************************************)
EXTENDS Integers, Sequences

CONSTANTS
  Proc,         \* processes that share the database
  Tool, Desc,   \* tool names and descriptions
  NoPin,        \* a tool without a pin
  Suspicious,   \* the descriptions the classifier scores above the threshold
  Lists,        \* the tools/list results upstream may send
  Policies,     \* the policies considered
  MaxLists,     \* bound: responses received
  MaxFaults     \* bound: restarts, and pins or audit rows that cannot be stored

Listing == [tool : Tool, desc : Desc]
Policy == [on_drift : {"alert", "block"}, on_match : {"alert", "block"},
           classifier : BOOLEAN]

ASSUME NoPinAssumption == NoPin \notin Desc
ASSUME ListsAssumption == Lists \subseteq Seq(Listing)
ASSUME PoliciesAssumption == Policies \subseteq Policy
ASSUME BoundsAssumption == MaxLists \in Nat /\ MaxFaults \in Nat

VARIABLES
  policy,
  db,           \* tool_pins: tool -> digest
  pins,         \* per process, PolicyEngine._pins
  late,         \* per process, tools whose INSERT awaits the next commit
  pc,           \* per process: "down", "idle" or "scan"
  list, next,   \* per process, the result being scanned and the next listing
  drifted,      \* per process, a listing differed from its pin
  flagged,      \* per process, the classifier flagged a listing
  seen,         \* history: the listings scanned so far, by any process
  quiet,        \* history: per process, those it forwarded without an alert
                \* since it started
  everQuiet,    \* history: all listings ever forwarded without an alert
  storeFailed,  \* history: a pin could not be stored
  overlapped,   \* history: two processes have used the database at a time
  lists, faults

scanVars == <<list, next, drifted, flagged>>
shownVars == <<quiet, everQuiet>>
histVars == <<storeFailed, overlapped>>
vars == <<policy, db, pins, late, pc, scanVars, seen, shownVars, histVars, lists,
          faults>>

Pins == [Tool -> Desc \cup {NoPin}]
Fault == faults < MaxFaults /\ faults' = faults + 1
Goto(p, label) == pc' = [pc EXCEPT ![p] = label]

Init ==
  /\ policy \in Policies
  /\ db = [t \in Tool |-> NoPin]
  /\ pins = [p \in Proc |-> [t \in Tool |-> NoPin]]
  /\ late = [p \in Proc |-> {}]
  /\ pc = [p \in Proc |-> "down"]
  /\ list = [p \in Proc |-> <<>>]
  /\ next = [p \in Proc |-> 1]
  /\ drifted = [p \in Proc |-> FALSE]
  /\ flagged = [p \in Proc |-> FALSE]
  /\ seen = {}
  /\ quiet = [p \in Proc |-> {}]
  /\ everQuiet = {}
  /\ storeFailed = FALSE /\ overlapped = FALSE
  /\ lists = 0 /\ faults = 0

\* attach_pin_store: the pins of the table are read once, into memory.
AttachPinStore(p) ==
  /\ pc[p] = "down"
  /\ pins' = [pins EXCEPT ![p] = db]
  /\ overlapped' = (overlapped \/ \E q \in Proc \ {p} : pc[q] # "down")
  /\ Goto(p, "idle")
  /\ UNCHANGED <<policy, db, late, scanVars, seen, shownVars, storeFailed, lists,
                 faults>>

\* Mutant: the scan goes on where the last one stopped.
ReceiveListMidway(p) ==
  /\ pc[p] = "idle"
  /\ lists < MaxLists /\ lists' = lists + 1
  /\ \E l \in Lists : list' = [list EXCEPT ![p] = l]
  /\ drifted' = [drifted EXCEPT ![p] = FALSE]
  /\ flagged' = [flagged EXCEPT ![p] = FALSE]
  /\ Goto(p, "scan")
  /\ UNCHANGED <<policy, db, pins, late, next, seen, shownVars, histVars, faults>>

\* A tools/list response arrives.
ReceiveList(p) ==
  /\ pc[p] = "idle"
  /\ lists < MaxLists /\ lists' = lists + 1
  /\ \E l \in Lists : list' = [list EXCEPT ![p] = l]
  /\ next' = [next EXCEPT ![p] = 1]
  /\ drifted' = [drifted EXCEPT ![p] = FALSE]
  /\ flagged' = [flagged EXCEPT ![p] = FALSE]
  /\ Goto(p, "scan")
  /\ UNCHANGED <<policy, db, pins, late, seen, shownVars, histVars, faults>>

Current(p) == list[p][next[p]]
Scanning(p) == pc[p] = "scan" /\ next[p] <= Len(list[p])

\* The classifier scores the description; it fails open when unavailable.
Classify(p) ==
  \E available \in BOOLEAN :
    flagged' = [flagged EXCEPT ![p] =
      @ \/ (policy.classifier /\ available /\ Current(p).desc \in Suspicious)]

\* A commit on the connection of p stores what its transaction holds; until
\* then no other connection can write.
Committed(p) == [t \in Tool |-> IF t \in late[p] THEN pins[p][t] ELSE db[t]]
Unlocked(p) == \A q \in Proc \ {p} : late[q] = {}

Commit(p) ==
  /\ db' = Committed(p)
  /\ late' = [late EXCEPT ![p] = {}]

\* Mutants: the pin stays in memory, or is that of the last listing.
FirstSightInMemory(p) ==
  /\ Scanning(p)
  /\ pins[p][Current(p).tool] = NoPin
  /\ Classify(p)
  /\ pins' = [pins EXCEPT ![p][Current(p).tool] = Current(p).desc]
  /\ next' = [next EXCEPT ![p] = @ + 1]
  /\ seen' = seen \cup {Current(p)}
  /\ UNCHANGED <<policy, db, late, pc, list, drifted, shownVars, histVars, lists,
                 faults>>

FirstSightOfLast(p) ==
  LET last == list[p][Len(list[p])].desc IN
  /\ Scanning(p) /\ Unlocked(p)
  /\ pins[p][Current(p).tool] = NoPin
  /\ Classify(p)
  /\ pins' = [pins EXCEPT ![p][Current(p).tool] = last]
  /\ db' = [Committed(p) EXCEPT ![Current(p).tool] = last]
  /\ late' = [late EXCEPT ![p] = {}]
  /\ next' = [next EXCEPT ![p] = @ + 1]
  /\ seen' = seen \cup {Current(p)}
  /\ UNCHANGED <<policy, pc, list, drifted, shownVars, histVars, lists, faults>>

\* First sight: pinned in memory, then INSERT OR REPLACE and commit.
FirstSight(p) ==
  /\ Scanning(p) /\ Unlocked(p)
  /\ pins[p][Current(p).tool] = NoPin
  /\ Classify(p)
  /\ pins' = [pins EXCEPT ![p][Current(p).tool] = Current(p).desc]
  /\ db' = [Committed(p) EXCEPT ![Current(p).tool] = Current(p).desc]
  /\ late' = [late EXCEPT ![p] = {}]
  /\ next' = [next EXCEPT ![p] = @ + 1]
  /\ seen' = seen \cup {Current(p)}
  /\ UNCHANGED <<policy, pc, list, drifted, shownVars, histVars, lists, faults>>

\* The INSERT or the commit fails: evaluate() raises with the pin in memory,
\* and in the second case also in a transaction that stays open.  The response
\* is lost; a process that serves HTTP goes on.
PersistFails(p) ==
  /\ Scanning(p)
  /\ pins[p][Current(p).tool] = NoPin
  /\ Fault
  /\ pins' = [pins EXCEPT ![p][Current(p).tool] = Current(p).desc]
  /\ \/ late' = late
     \/ Unlocked(p) /\ late' = [late EXCEPT ![p] = @ \cup {Current(p).tool}]
  /\ storeFailed' = TRUE
  /\ seen' = seen \cup {Current(p)}
  /\ Goto(p, "idle")
  /\ UNCHANGED <<policy, db, scanVars, shownVars, overlapped, lists>>

\* Mutants: the last listing decides, or a drift pins the tool anew.
CompareLast(p) ==
  /\ Scanning(p)
  /\ pins[p][Current(p).tool] # NoPin
  /\ Classify(p)
  /\ drifted' = [drifted EXCEPT ![p] = pins[p][Current(p).tool] # Current(p).desc]
  /\ next' = [next EXCEPT ![p] = @ + 1]
  /\ seen' = seen \cup {Current(p)}
  /\ UNCHANGED <<policy, db, pins, late, pc, list, shownVars, histVars, lists, faults>>

CompareAndRepin(p) ==
  /\ Scanning(p) /\ Unlocked(p)
  /\ pins[p][Current(p).tool] # NoPin
  /\ Classify(p)
  /\ drifted' = [drifted EXCEPT ![p] =
       @ \/ pins[p][Current(p).tool] # Current(p).desc]
  /\ pins' = [pins EXCEPT ![p][Current(p).tool] = Current(p).desc]
  /\ db' = [Committed(p) EXCEPT ![Current(p).tool] = Current(p).desc]
  /\ late' = [late EXCEPT ![p] = {}]
  /\ next' = [next EXCEPT ![p] = @ + 1]
  /\ seen' = seen \cup {Current(p)}
  /\ UNCHANGED <<policy, pc, list, shownVars, histVars, lists, faults>>

\* A listing of a pinned tool drifts or matches.
Compare(p) ==
  /\ Scanning(p)
  /\ pins[p][Current(p).tool] # NoPin
  /\ Classify(p)
  /\ drifted' = [drifted EXCEPT ![p] =
       @ \/ pins[p][Current(p).tool] # Current(p).desc]
  /\ next' = [next EXCEPT ![p] = @ + 1]
  /\ seen' = seen \cup {Current(p)}
  /\ UNCHANGED <<policy, db, pins, late, pc, list, shownVars, histVars, lists, faults>>

Scanned(p) == pc[p] = "scan" /\ next[p] > Len(list[p])

\* The decision: a classifier match to block comes before a drift to block.
Denied(p) ==
  \/ flagged[p] /\ policy.on_match = "block"
  \/ drifted[p] /\ policy.on_drift = "block"

\* The audit row is appended, and its commit stores what was pending.
Record(p) ==
  /\ Scanned(p) /\ Unlocked(p)
  /\ Commit(p)
  /\ Goto(p, "idle")
  /\ UNCHANGED <<policy, pins, scanVars, seen, histVars, lists, faults>>

Deny(p) == Record(p) /\ Denied(p) /\ UNCHANGED shownVars

\* Allowed with DRIFT ALERT as its reason: the client sees it all the same.
ForwardWithAlert(p) ==
  Record(p) /\ ~Denied(p) /\ drifted[p] /\ UNCHANGED shownVars

ListingsOf(l) == {l[i] : i \in 1..Len(l)}

ForwardQuietly(p) ==
  /\ Record(p) /\ ~Denied(p) /\ ~drifted[p]
  /\ quiet' = [quiet EXCEPT ![p] = @ \cup ListingsOf(list[p])]
  /\ everQuiet' = everQuiet \cup ListingsOf(list[p])

\* Another frame is recorded meanwhile, with the same effect on the pins.
RecordOther(p) ==
  /\ pc[p] = "idle" /\ late[p] # {}
  /\ Commit(p)
  /\ UNCHANGED <<policy, pins, pc, scanVars, seen, shownVars, histVars, lists,
                 faults>>

\* The audit row cannot be appended: the response is not forwarded.
AppendRaises(p) ==
  /\ Scanned(p)
  /\ Fault
  /\ Goto(p, "idle")
  /\ UNCHANGED <<policy, db, pins, late, scanVars, seen, shownVars, histVars, lists>>

\* The process ends, in the middle of a scan or not; what it knew is lost.
Stop(p) ==
  /\ pc[p] # "down"
  /\ Fault
  /\ Goto(p, "down")
  /\ quiet' = [quiet EXCEPT ![p] = {}]
  /\ late' = [late EXCEPT ![p] = {}]
  /\ UNCHANGED <<policy, db, pins, scanVars, seen, everQuiet, histVars, lists>>

Scan(p) == FirstSight(p) \/ PersistFails(p) \/ Compare(p)
Decide(p) == Deny(p) \/ ForwardWithAlert(p) \/ ForwardQuietly(p) \/ AppendRaises(p)

Next == \E p \in Proc :
  \/ AttachPinStore(p) \/ ReceiveList(p) \/ Scan(p) \/ Decide(p)
  \/ RecordOther(p) \/ Stop(p)

Spec == Init /\ [][Next]_vars

-----------------------------------------------------------------------------
(* Properties *)

\* Every variable has its type; a scan stays within its list.
TypeOK ==
  /\ policy \in Policies
  /\ db \in Pins
  /\ pins \in [Proc -> Pins]
  /\ late \in [Proc -> SUBSET Tool]
  /\ pc \in [Proc -> {"down", "idle", "scan"}]
  /\ list \in [Proc -> Seq(Listing)]
  /\ next \in [Proc -> Nat \ {0}]
  /\ \A p \in Proc : next[p] <= Len(list[p]) + 1
  /\ drifted \in [Proc -> BOOLEAN] /\ flagged \in [Proc -> BOOLEAN]
  /\ seen \subseteq Listing
  /\ quiet \in [Proc -> SUBSET Listing]
  /\ everQuiet \subseteq Listing
  /\ storeFailed \in BOOLEAN /\ overlapped \in BOOLEAN
  /\ lists \in 0..MaxLists /\ faults \in 0..MaxFaults

\* One tool, one description: what a set of listings says of a tool agrees.
Consistent(listings) ==
  \A x, y \in listings : x.tool = y.tool => x.desc = y.desc

\* While a process runs, its client is never shown two descriptions of a tool
\* without an alert, over any number of lists, duplicates within a list and
\* pins that could not be stored.
QuietWhileRunning == \A p \in Proc : Consistent(quiet[p])

\* An alarm is justified: a list is found to have drifted only if two different
\* descriptions of one tool have really been received, by it or by a process
\* that shared its pins.
DriftIsReal == \A p \in Proc : drifted[p] => ~Consistent(seen)

\* "alerts/blocks if a tool's description changes after first sight", across
\* restarts: over the life of the database no two descriptions of a tool are
\* shown without an alert.
QuietForever == Consistent(everQuiet)

\* What the code can keep of it: processes that use the database one after
\* the other, and every pin stored.
DurableFirstSight == ~storeFailed /\ ~overlapped => QuietForever

\* First sight wins: as long as no two processes overlap, a stored pin is never
\* replaced, although _persist_pin says INSERT OR REPLACE and a pin may be
\* stored late.
StoredPinsAreFinal ==
  [][\A t \in Tool : ~overlapped /\ db[t] # NoPin => db'[t] = db[t]]_vars
=============================================================================
