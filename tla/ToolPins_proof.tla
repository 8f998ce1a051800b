--------------------------- MODULE ToolPins_proof ---------------------------
(***************************************************************************)
(* Theorems about ToolPins, for any number of processes, tools, lists,     *)
(* policies, restarts and pins that could not be stored.                   *)
(***************************************************************************)
EXTENDS ToolPins, TLAPS

-----------------------------------------------------------------------------
(* The inductive invariant *)

PinOf(table, t) == [tool |-> t, desc |-> table[t]]

\* A pin is something that was received, and a drift two things that were.
SeenInv ==
  /\ \A t \in Tool : db[t] # NoPin => PinOf(db, t) \in seen
  /\ \A p \in Proc, t \in Tool : pins[p][t] # NoPin => PinOf(pins[p], t) \in seen
  /\ \A p \in Proc : drifted[p] => ~Consistent(seen)

\* What a process scanned or has shown agrees with its pins, as long as it found
\* no drift.
MemoryInv ==
  /\ \A p \in Proc : pc[p] = "scan" => \A i \in 1..(next[p] - 1) :
       /\ pins[p][list[p][i].tool] # NoPin
       /\ ~drifted[p] => pins[p][list[p][i].tool] = list[p][i].desc
  /\ \A p \in Proc : \A x \in quiet[p] : pins[p][x.tool] = x.desc
  /\ \A p \in Proc : pc[p] = "down" => quiet[p] = {} /\ late[p] = {}

\* While no two processes overlap, the one that runs knows every stored pin; and
\* if all of its pins could be stored, it has no others.
StoreInv ==
  /\ ~storeFailed => \A p \in Proc : late[p] = {}
  /\ ~overlapped =>
       /\ \A p, q \in Proc : pc[p] # "down" /\ pc[q] # "down" => p = q
       /\ \A p \in Proc, t \in Tool :
            pc[p] # "down" /\ db[t] # NoPin => pins[p][t] = db[t]
       /\ ~storeFailed =>
            /\ \A p \in Proc : pc[p] # "down" => db = pins[p]
            /\ \A x \in everQuiet : db[x.tool] = x.desc

PinInv == TypeOK /\ SeenInv /\ MemoryInv /\ StoreInv

-----------------------------------------------------------------------------
(* Types *)

\* The listing under the scan is a listing.
LEMMA CurrentType ==
  ASSUME TypeOK, NEW p \in Proc, Scanning(p)
  PROVE  /\ Current(p) \in Listing
         /\ Current(p).tool \in Tool /\ Current(p).desc \in Desc
         /\ Current(p).desc # NoPin
         /\ next[p] \in 1..Len(list[p])
<1>1. next[p] \in 1..Len(list[p])
  BY DEF TypeOK, Scanning
<1>2. Current(p) \in Listing
  BY <1>1 DEF TypeOK, Current
<1>3. QED
  BY <1>1, <1>2, NoPinAssumption DEF Listing

\* A commit keeps the type of the table.
LEMMA CommittedType ==
  ASSUME TypeOK, NEW p \in Proc
  PROVE  Committed(p) \in Pins
BY DEF TypeOK, Pins, Committed

\* The listings of a list.
LEMMA ListingsType ==
  ASSUME NEW l \in Seq(Listing)
  PROVE  ListingsOf(l) \subseteq Listing
BY DEF ListingsOf

\* The initial values have their types.
LEMMA TypeInit == Init => TypeOK
<1> SUFFICES ASSUME Init PROVE TypeOK
  OBVIOUS
<1>1. lists \in 0..MaxLists /\ faults \in 0..MaxFaults
  BY BoundsAssumption DEF Init
<1>2. db \in Pins /\ pins \in [Proc -> Pins]
  BY DEF Init, Pins
<1>3. list \in [Proc -> Seq(Listing)] /\ next \in [Proc -> Nat \ {0}]
      /\ \A p \in Proc : next[p] <= Len(list[p]) + 1
  BY DEF Init
<1>4. pc \in [Proc -> {"down", "idle", "scan"}]
  BY DEF Init
<1>5. late \in [Proc -> SUBSET Tool] /\ quiet \in [Proc -> SUBSET Listing]
  BY DEF Init
<1>6. drifted \in [Proc -> BOOLEAN] /\ flagged \in [Proc -> BOOLEAN]
  BY DEF Init
<1>7. QED
  BY <1>1, <1>2, <1>3, <1>4, <1>5, <1>6 DEF Init, TypeOK

\* Every step keeps the types.
LEMMA TypeStep == TypeOK /\ [Next]_vars => TypeOK'
<1> SUFFICES ASSUME TypeOK, [Next]_vars
             PROVE  TypeOK'
  OBVIOUS
<1> USE DEF Goto, scanVars, shownVars, histVars
<1>0. Fault => faults' \in 0..MaxFaults
  BY BoundsAssumption DEF Fault, TypeOK
<1>1. ASSUME NEW p \in Proc, AttachPinStore(p)
      PROVE  TypeOK'
  BY <1>1 DEF AttachPinStore, TypeOK
<1>2. ASSUME NEW p \in Proc, ReceiveList(p)
      PROVE  TypeOK'
  <2>1. PICK l \in Lists : list' = [list EXCEPT ![p] = l]
    BY <1>2 DEF ReceiveList
  <2>2. l \in Seq(Listing) /\ Len(l) \in Nat
    BY ListsAssumption
  <2>3. list' \in [Proc -> Seq(Listing)] /\ next' \in [Proc -> Nat \ {0}]
    BY <1>2, <2>1, <2>2 DEF ReceiveList, TypeOK
  <2>4. \A q \in Proc : next'[q] <= Len(list'[q]) + 1
    BY <1>2, <2>1, <2>2 DEF ReceiveList, TypeOK
  <2>5. lists' \in 0..MaxLists
    BY <1>2, BoundsAssumption DEF ReceiveList, TypeOK
  <2>6. QED
    BY <1>2, <2>3, <2>4, <2>5 DEF ReceiveList, TypeOK
<1>3. ASSUME NEW p \in Proc, FirstSight(p)
      PROVE  TypeOK'
  <2>1. /\ Current(p) \in Listing /\ Current(p).tool \in Tool
        /\ Current(p).desc \in Desc /\ next[p] \in 1..Len(list[p])
    BY <1>3, CurrentType DEF FirstSight
  <2>2. db' \in Pins /\ pins' \in [Proc -> Pins]
    BY <1>3, <2>1, CommittedType DEF FirstSight, TypeOK, Pins
  <2>3. next' \in [Proc -> Nat \ {0}] /\ \A q \in Proc : next'[q] <= Len(list'[q]) + 1
    BY <1>3, <2>1 DEF FirstSight, TypeOK
  <2>4. flagged' \in [Proc -> BOOLEAN]
    BY <1>3 DEF FirstSight, Classify, TypeOK
  <2>5. late' \in [Proc -> SUBSET Tool] /\ seen' \subseteq Listing
    BY <1>3, <2>1 DEF FirstSight, TypeOK
  <2>6. QED
    BY <1>3, <2>2, <2>3, <2>4, <2>5 DEF FirstSight, TypeOK
<1>4. ASSUME NEW p \in Proc, PersistFails(p)
      PROVE  TypeOK'
  <2>1. /\ Current(p) \in Listing /\ Current(p).tool \in Tool
        /\ Current(p).desc \in Desc
    BY <1>4, CurrentType DEF PersistFails
  <2>2. pins' \in [Proc -> Pins]
    BY <1>4, <2>1 DEF PersistFails, TypeOK, Pins
  <2>3. late' \in [Proc -> SUBSET Tool] /\ seen' \subseteq Listing
    BY <1>4, <2>1 DEF PersistFails, TypeOK
  <2>4. QED
    BY <1>0, <1>4, <2>2, <2>3 DEF PersistFails, TypeOK
<1>5. ASSUME NEW p \in Proc, Compare(p)
      PROVE  TypeOK'
  <2>1. Current(p) \in Listing /\ next[p] \in 1..Len(list[p])
    BY <1>5, CurrentType DEF Compare
  <2>2. next' \in [Proc -> Nat \ {0}] /\ \A q \in Proc : next'[q] <= Len(list'[q]) + 1
    BY <1>5, <2>1 DEF Compare, TypeOK
  <2>3. flagged' \in [Proc -> BOOLEAN] /\ drifted' \in [Proc -> BOOLEAN]
    BY <1>5 DEF Compare, Classify, TypeOK
  <2>4. seen' \subseteq Listing
    BY <1>5, <2>1 DEF Compare, TypeOK
  <2>5. QED
    BY <1>5, <2>2, <2>3, <2>4 DEF Compare, TypeOK
<1>6. ASSUME NEW p \in Proc, Commit(p)
      PROVE  db' \in Pins /\ late' \in [Proc -> SUBSET Tool]
  BY <1>6, CommittedType DEF Commit, TypeOK
<1>7. ASSUME NEW p \in Proc, Deny(p) \/ ForwardWithAlert(p) \/ RecordOther(p)
      PROVE  TypeOK'
  <2>1. db' \in Pins /\ late' \in [Proc -> SUBSET Tool]
    BY <1>6, <1>7 DEF Deny, ForwardWithAlert, Record, RecordOther
  <2>2. CASE RecordOther(p)
    BY <2>1, <2>2 DEF RecordOther, TypeOK
  <2>3. CASE Deny(p) \/ ForwardWithAlert(p)
    BY <2>1, <2>3 DEF Deny, ForwardWithAlert, Record, TypeOK
  <2>4. QED
    BY <1>7, <2>2, <2>3
<1>8. ASSUME NEW p \in Proc, ForwardQuietly(p)
      PROVE  TypeOK'
  <2>1. db' \in Pins /\ late' \in [Proc -> SUBSET Tool]
    BY <1>6, <1>8 DEF ForwardQuietly, Record
  <2>2. ListingsOf(list[p]) \subseteq Listing
    BY ListingsType DEF TypeOK
  <2>3. quiet' \in [Proc -> SUBSET Listing] /\ everQuiet' \subseteq Listing
    BY <1>8, <2>2 DEF ForwardQuietly, TypeOK
  <2>4. QED
    BY <1>8, <2>1, <2>3 DEF ForwardQuietly, Record, TypeOK
<1>9. ASSUME NEW p \in Proc, AppendRaises(p) \/ Stop(p)
      PROVE  TypeOK'
  BY <1>0, <1>9 DEF AppendRaises, Stop, TypeOK
<1>10. CASE UNCHANGED vars
  BY <1>10 DEF vars, TypeOK
<1>11. QED
  BY <1>1, <1>2, <1>3, <1>4, <1>5, <1>7, <1>8, <1>9, <1>10 DEF Next, Scan, Decide

-----------------------------------------------------------------------------
(* The invariant is inductive *)

\* The initial state satisfies the invariant.
LEMMA PinInit == Init => PinInv
<1> SUFFICES ASSUME Init PROVE PinInv
  OBVIOUS
<1>1. SeenInv
  BY DEF Init, SeenInv
<1>2. MemoryInv
  BY DEF Init, MemoryInv
<1>3. StoreInv
  BY DEF Init, StoreInv
<1>4. QED
  BY <1>1, <1>2, <1>3, TypeInit DEF PinInv

\* Receiving more never makes two descriptions agree again.
LEMMA SeenGrows ==
  ASSUME NEW S, NEW T, S \subseteq T, ~Consistent(S)
  PROVE  ~Consistent(T)
BY DEF Consistent

\* A step that pins at most what it has scanned, and sets no drift, keeps
\* SeenInv.
LEMMA SeenKept ==
  ASSUME SeenInv,
         seen \subseteq seen',
         \A p \in Proc : drifted'[p] => drifted[p],
         \A t \in Tool : db'[t] # NoPin =>
           \/ db'[t] = db[t]
           \/ \E p \in Proc : db'[t] = pins[p][t]
           \/ PinOf(db', t) \in seen',
         \A p \in Proc, t \in Tool : pins'[p][t] # NoPin =>
           \/ pins'[p][t] = pins[p][t]
           \/ pins'[p][t] = db[t]
           \/ PinOf(pins'[p], t) \in seen'
  PROVE  SeenInv'
<1>1. \A p \in Proc : drifted'[p] => ~Consistent(seen')
  BY SeenGrows DEF SeenInv
<1>2. ASSUME NEW t \in Tool, db'[t] # NoPin
      PROVE  PinOf(db', t) \in seen'
  BY <1>2 DEF SeenInv, PinOf
<1>3. ASSUME NEW p \in Proc, NEW t \in Tool, pins'[p][t] # NoPin
      PROVE  PinOf(pins'[p], t) \in seen'
  BY <1>3 DEF SeenInv, PinOf
<1>4. QED
  BY <1>1, <1>2, <1>3 DEF SeenInv

\* What a process pins, and what drifts from its pins, has been received.
LEMMA SeenStep ==
  ASSUME PinInv, [Next]_vars
  PROVE  SeenInv'
<1> USE DEF Goto, scanVars, shownVars, histVars
<1>0. TypeOK /\ SeenInv
  BY DEF PinInv
<1>1. ASSUME NEW p \in Proc, AttachPinStore(p)
      PROVE  SeenInv'
  <2>1. \A q \in Proc, t \in Tool : pins'[q][t] = pins[q][t] \/ pins'[q][t] = db[t]
    BY <1>0, <1>1 DEF AttachPinStore, TypeOK
  <2>2. QED
    BY <1>0, <1>1, <2>1, SeenKept DEF AttachPinStore
<1>2. ASSUME NEW p \in Proc, ReceiveList(p) \/ AppendRaises(p) \/ Stop(p)
      PROVE  SeenInv'
  <2>1. \A q \in Proc : drifted'[q] => drifted[q]
    BY <1>0, <1>2 DEF ReceiveList, AppendRaises, Stop, TypeOK
  <2>2. db' = db /\ pins' = pins /\ seen' = seen
    BY <1>2 DEF ReceiveList, AppendRaises, Stop
  <2>3. QED
    BY <1>0, <2>1, <2>2, SeenKept
<1>3. ASSUME NEW p \in Proc, FirstSight(p) \/ PersistFails(p)
      PROVE  SeenInv'
  <2>1. Current(p) \in Listing /\ Current(p) \in seen' /\ seen \subseteq seen'
    BY <1>0, <1>3, CurrentType DEF FirstSight, PersistFails
  <2>2. Current(p) = [tool |-> Current(p).tool, desc |-> Current(p).desc]
    BY <2>1 DEF Listing
  <2>3. pins' = [pins EXCEPT ![p][Current(p).tool] = Current(p).desc]
        /\ drifted' = drifted
    BY <1>3 DEF FirstSight, PersistFails
  <2>4. ASSUME NEW q \in Proc, NEW t \in Tool
        PROVE  pins'[q][t] = pins[q][t] \/ PinOf(pins'[q], t) \in seen'
    BY <1>0, <2>1, <2>2, <2>3 DEF TypeOK, Pins, PinOf
  <2>5. ASSUME NEW t \in Tool
        PROVE  \/ db'[t] = db[t] \/ db'[t] = pins[p][t]
               \/ PinOf(db', t) \in seen'
    <3>1. CASE FirstSight(p)
      <4>1. db' = [Committed(p) EXCEPT ![Current(p).tool] = Current(p).desc]
        BY <3>1 DEF FirstSight
      <4>2. Committed(p)[t] = db[t] \/ Committed(p)[t] = pins[p][t]
        BY DEF Committed
      <4>3. QED
        BY <1>0, <2>1, <2>2, <4>1, <4>2, CommittedType DEF Pins, PinOf
    <3>2. CASE PersistFails(p)
      BY <3>2 DEF PersistFails
    <3>3. QED
      BY <1>3, <3>1, <3>2
  <2>6. QED
    BY <1>0, <2>1, <2>3, <2>4, <2>5, SeenKept
<1>4. ASSUME NEW p \in Proc, Compare(p)
      PROVE  SeenInv'
  <2>1. /\ Current(p) \in Listing /\ Current(p).tool \in Tool
        /\ Current(p) \in seen' /\ seen \subseteq seen'
    BY <1>0, <1>4, CurrentType DEF Compare
  <2>2. db' = db /\ pins' = pins /\ pins[p][Current(p).tool] # NoPin
    BY <1>4 DEF Compare
  <2>3. PinOf(pins[p], Current(p).tool) \in seen
    BY <1>0, <2>1, <2>2 DEF SeenInv
  <2>4. pins[p][Current(p).tool] # Current(p).desc => ~Consistent(seen')
    BY <2>1, <2>3 DEF Consistent, PinOf
  <2>5. ASSUME NEW q \in Proc, drifted'[q]
        PROVE  ~Consistent(seen')
    <3>1. drifted[q] \/ (q = p /\ pins[p][Current(p).tool] # Current(p).desc)
      BY <1>0, <1>4, <2>5 DEF Compare, TypeOK
    <3>2. drifted[q] => ~Consistent(seen')
      BY <1>0, <2>1, SeenGrows DEF SeenInv
    <3>3. QED
      BY <2>4, <3>1, <3>2
  <2>6. QED
    BY <1>0, <2>1, <2>2, <2>5 DEF SeenInv, PinOf
<1>5. ASSUME NEW p \in Proc, Decide(p) \/ RecordOther(p), ~AppendRaises(p)
      PROVE  SeenInv'
  <2>1. db' = Committed(p) /\ pins' = pins /\ seen' = seen /\ drifted' = drifted
    BY <1>5 DEF Decide, Deny, ForwardWithAlert, ForwardQuietly, Record, RecordOther,
                Commit
  <2>2. ASSUME NEW t \in Tool
        PROVE  db'[t] = db[t] \/ db'[t] = pins[p][t]
    BY <2>1 DEF Committed
  <2>3. QED
    BY <1>0, <2>1, <2>2, SeenKept
<1>6. CASE UNCHANGED vars
  BY <1>0, <1>6 DEF vars, SeenInv, PinOf
<1>7. QED
  BY <1>1, <1>2, <1>3, <1>4, <1>5, <1>6 DEF Next, Scan, Decide

\* A pin is set once while a process runs, so what it scanned and has shown
\* keeps agreeing with its pins.
LEMMA PinsStay ==
  ASSUME PinInv, NEW p \in Proc, FirstSight(p) \/ PersistFails(p)
  PROVE  /\ pins'[p][Current(p).tool] = Current(p).desc
         /\ \A q \in Proc, t \in Tool : pins[q][t] # NoPin => pins'[q][t] = pins[q][t]
<1>1. Current(p).tool \in Tool /\ TypeOK /\ pins[p][Current(p).tool] = NoPin
  BY CurrentType DEF PinInv, FirstSight, PersistFails
<1>2. pins' = [pins EXCEPT ![p][Current(p).tool] = Current(p).desc]
  BY DEF FirstSight, PersistFails
<1>3. QED
  BY <1>1, <1>2 DEF TypeOK, Pins

\* What was scanned and shown still agrees with the pins after a step that keeps
\* the pins there are.
LEMMA MatchesStay ==
  ASSUME TypeOK, MemoryInv,
         \A q \in Proc, t \in Tool : pins[q][t] # NoPin => pins'[q][t] = pins[q][t]
  PROVE  /\ \A q \in Proc : pc[q] = "scan" => \A i \in 1..(next[q] - 1) :
              /\ pins'[q][list[q][i].tool] # NoPin
              /\ ~drifted[q] => pins'[q][list[q][i].tool] = list[q][i].desc
         /\ \A q \in Proc : \A x \in quiet[q] : pins'[q][x.tool] = x.desc
<1>1. ASSUME NEW q \in Proc, pc[q] = "scan", NEW i \in 1..(next[q] - 1)
      PROVE  /\ pins'[q][list[q][i].tool] # NoPin
             /\ ~drifted[q] => pins'[q][list[q][i].tool] = list[q][i].desc
  <2>1. i \in 1..Len(list[q]) /\ list[q] \in Seq(Listing)
    BY <1>1 DEF TypeOK
  <2>2. list[q][i] \in Listing
    BY <2>1
  <2>3. list[q][i].tool \in Tool
    BY <2>2 DEF Listing
  <2>4. /\ pins[q][list[q][i].tool] # NoPin
        /\ ~drifted[q] => pins[q][list[q][i].tool] = list[q][i].desc
    BY <1>1 DEF MemoryInv
  <2>5. QED
    BY <2>3, <2>4
<1>2. ASSUME NEW q \in Proc, NEW x \in quiet[q]
      PROVE  pins'[q][x.tool] = x.desc
  <2>1. x \in Listing
    BY <1>2 DEF TypeOK
  <2>2. x.tool \in Tool /\ x.desc # NoPin
    BY <2>1, NoPinAssumption DEF Listing
  <2>3. pins[q][x.tool] = x.desc
    BY <1>2 DEF MemoryInv
  <2>4. QED
    BY <2>2, <2>3
<1>3. QED
  BY <1>1, <1>2

\* What a process scanned and has shown keeps agreeing with its pins.
LEMMA MemoryStep ==
  ASSUME PinInv, [Next]_vars
  PROVE  MemoryInv'
<1> USE DEF Goto, scanVars, shownVars, histVars
<1>0. TypeOK /\ MemoryInv
  BY DEF PinInv
<1>1. ASSUME NEW p \in Proc, AttachPinStore(p) \/ ReceiveList(p)
      PROVE  MemoryInv'
  <2>1. CASE AttachPinStore(p)
    BY <1>0, <2>1 DEF AttachPinStore, TypeOK, MemoryInv
  <2>2. CASE ReceiveList(p)
    BY <1>0, <2>2 DEF ReceiveList, TypeOK, MemoryInv
  <2>3. QED
    BY <1>1, <2>1, <2>2
<1>2. ASSUME NEW p \in Proc, FirstSight(p) \/ Compare(p)
      PROVE  MemoryInv'
  <2>1. /\ Current(p).desc # NoPin /\ next[p] \in 1..Len(list[p])
        /\ pins[p] \in Pins /\ Current(p).tool \in Tool
    BY <1>0, <1>2, CurrentType DEF FirstSight, Compare, TypeOK
  <2>2. /\ list' = list /\ pc' = pc /\ quiet' = quiet
        /\ next' = [next EXCEPT ![p] = @ + 1]
    BY <1>2 DEF FirstSight, Compare
  <2>3. /\ \A q \in Proc, t \in Tool : pins[q][t] # NoPin => pins'[q][t] = pins[q][t]
        /\ pins'[p][Current(p).tool] # NoPin
        /\ ~drifted'[p] => pins'[p][Current(p).tool] = Current(p).desc
    <3>1. CASE FirstSight(p)
      BY <2>1, <3>1, PinsStay
    <3>2. CASE Compare(p)
      BY <1>0, <3>2 DEF Compare, TypeOK
    <3>3. QED
      BY <1>2, <3>1, <3>2
  <2>4. \A q \in Proc : drifted[q] => drifted'[q]
    BY <1>0, <1>2 DEF FirstSight, Compare, TypeOK
  <2>5. ASSUME NEW q \in Proc, pc'[q] = "scan", NEW i \in 1..(next'[q] - 1)
        PROVE  /\ pins'[q][list'[q][i].tool] # NoPin
               /\ ~drifted'[q] => pins'[q][list'[q][i].tool] = list'[q][i].desc
    <3>1. CASE q = p /\ i = next[p]
      BY <2>2, <2>3, <3>1 DEF Current
    <3>2. CASE ~(q = p /\ i = next[p])
      <4>1. i \in 1..(next[q] - 1) /\ pc[q] = "scan"
        BY <1>0, <2>2, <2>5, <3>2 DEF TypeOK
      <4>2. /\ pins'[q][list[q][i].tool] # NoPin
            /\ ~drifted[q] => pins'[q][list[q][i].tool] = list[q][i].desc
        BY <1>0, <2>3, <4>1, MatchesStay
      <4>3. QED
        BY <2>2, <2>4, <4>2
    <3>3. QED
      BY <3>1, <3>2
  <2>6. \A q \in Proc : \A x \in quiet'[q] : pins'[q][x.tool] = x.desc
    BY <1>0, <2>2, <2>3, MatchesStay
  <2>7. \A q \in Proc : pc'[q] = "down" => quiet'[q] = {} /\ late'[q] = {}
    BY <1>0, <1>2 DEF FirstSight, Compare, TypeOK, MemoryInv
  <2>8. QED
    BY <2>5, <2>6, <2>7 DEF MemoryInv
<1>3. ASSUME NEW p \in Proc, PersistFails(p)
      PROVE  MemoryInv'
  <2>1. \A q \in Proc, t \in Tool : pins[q][t] # NoPin => pins'[q][t] = pins[q][t]
    BY <1>3, PinsStay
  <2>2. /\ list' = list /\ drifted' = drifted /\ quiet' = quiet /\ next' = next
        /\ pc' = [pc EXCEPT ![p] = "idle"]
    BY <1>3 DEF PersistFails
  <2>3. \A q \in Proc : pc'[q] = "scan" => pc[q] = "scan"
    BY <1>0, <2>2 DEF TypeOK
  <2>4. \A q \in Proc : pc'[q] = "down" => quiet'[q] = {} /\ late'[q] = {}
    BY <1>0, <1>3, <2>2 DEF PersistFails, TypeOK, MemoryInv, Scanning
  <2>5. /\ \A q \in Proc : pc'[q] = "scan" => \A i \in 1..(next'[q] - 1) :
             /\ pins'[q][list'[q][i].tool] # NoPin
             /\ ~drifted'[q] => pins'[q][list'[q][i].tool] = list'[q][i].desc
        /\ \A q \in Proc : \A x \in quiet'[q] : pins'[q][x.tool] = x.desc
    BY <1>0, <2>1, <2>2, <2>3, MatchesStay
  <2>6. QED
    BY <2>4, <2>5 DEF MemoryInv
<1>4. ASSUME NEW p \in Proc, Decide(p) \/ RecordOther(p) \/ Stop(p)
      PROVE  MemoryInv'
  <2>1. /\ pins' = pins /\ list' = list /\ next' = next /\ drifted' = drifted
        /\ \A q \in Proc : pc'[q] = "scan" => pc[q] = "scan"
    <3>1. CASE Decide(p)
      BY <1>0, <3>1 DEF Decide, Deny, ForwardWithAlert, ForwardQuietly, Record,
                        AppendRaises, TypeOK
    <3>2. CASE RecordOther(p) \/ Stop(p)
      BY <1>0, <3>2 DEF RecordOther, Stop, TypeOK
    <3>3. QED
      BY <1>4, <3>1, <3>2
  <2>2. \A q \in Proc : \A x \in quiet'[q] : pins[q][x.tool] = x.desc
    <3>1. CASE ForwardQuietly(p)
      <4>1. ASSUME NEW x \in ListingsOf(list[p])
            PROVE  pins[p][x.tool] = x.desc
        <5>1. PICK i \in 1..Len(list[p]) : x = list[p][i]
          BY <4>1 DEF ListingsOf
        <5>2. pc[p] = "scan" /\ ~drifted[p] /\ i \in 1..(next[p] - 1)
          BY <1>0, <3>1, <5>1 DEF ForwardQuietly, Record, Scanned, TypeOK
        <5>3. QED
          BY <1>0, <5>1, <5>2 DEF MemoryInv
      <4>2. quiet' = [quiet EXCEPT ![p] = @ \cup ListingsOf(list[p])]
        BY <3>1 DEF ForwardQuietly
      <4>3. QED
        BY <1>0, <4>1, <4>2 DEF TypeOK, MemoryInv
    <3>2. CASE ~ForwardQuietly(p)
      <4>1. \A q \in Proc : quiet'[q] \subseteq quiet[q]
        BY <1>0, <1>4, <3>2 DEF Decide, Deny, ForwardWithAlert, AppendRaises,
                                RecordOther, Stop, TypeOK
      <4>2. QED
        BY <1>0, <4>1 DEF MemoryInv
    <3>3. QED
      BY <3>1, <3>2
  <2>3. \A q \in Proc : pc'[q] = "down" => quiet'[q] = {} /\ late'[q] = {}
    <3>1. CASE ForwardQuietly(p)
      BY <1>0, <3>1 DEF ForwardQuietly, Record, Commit, TypeOK, MemoryInv
    <3>2. CASE Deny(p) \/ ForwardWithAlert(p)
      BY <1>0, <3>2 DEF Deny, ForwardWithAlert, Record, Commit, TypeOK, MemoryInv
    <3>3. CASE RecordOther(p) \/ AppendRaises(p) \/ Stop(p)
      BY <1>0, <3>3 DEF RecordOther, AppendRaises, Stop, Commit, TypeOK, MemoryInv
    <3>4. QED
      BY <1>4, <3>1, <3>2, <3>3 DEF Decide
  <2>4. QED
    BY <1>0, <2>1, <2>2, <2>3 DEF MemoryInv
<1>5. CASE UNCHANGED vars
  BY <1>0, <1>5 DEF vars, MemoryInv
<1>6. QED
  BY <1>1, <1>2, <1>3, <1>4, <1>5 DEF Next, Scan

\* What a commit stores are pins of the process that commits; if every pin could
\* be stored, there is nothing left to store.
LEMMA CommittedPins ==
  ASSUME TypeOK, StoreInv, NEW p \in Proc, pc[p] # "down"
  PROVE  /\ ~overlapped => \A t \in Tool :
              Committed(p)[t] # NoPin => pins[p][t] = Committed(p)[t]
         /\ ~storeFailed => Committed(p) = db
<1>1. ASSUME ~overlapped, NEW t \in Tool, Committed(p)[t] # NoPin
      PROVE  pins[p][t] = Committed(p)[t]
  BY <1>1 DEF StoreInv, Committed
<1>2. ASSUME ~storeFailed
      PROVE  Committed(p) = db
  <2>1. late[p] = {} /\ db \in Pins
    BY <1>2 DEF StoreInv, TypeOK
  <2>2. QED
    BY <2>1 DEF Pins, Committed
<1>3. QED
  BY <1>1, <1>2

\* The process that runs alone knows every stored pin, and if all could be stored
\* it has no others.
LEMMA StoreStep ==
  ASSUME PinInv, [Next]_vars
  PROVE  StoreInv'
<1> USE DEF Goto, scanVars, shownVars, histVars
<1>0. TypeOK /\ MemoryInv /\ StoreInv /\ MemoryInv'
  BY MemoryStep DEF PinInv
<1>1. ASSUME NEW p \in Proc, AttachPinStore(p)
      PROVE  StoreInv'
  <2>1. /\ pins' = [pins EXCEPT ![p] = db] /\ pc' = [pc EXCEPT ![p] = "idle"]
        /\ db' = db /\ late' = late /\ everQuiet' = everQuiet
        /\ storeFailed' = storeFailed
    BY <1>1 DEF AttachPinStore
  <2>2. ~overlapped' => ~overlapped /\ \A q \in Proc \ {p} : pc[q] = "down"
    BY <1>1 DEF AttachPinStore
  <2>3. ~overlapped' => \A q \in Proc : pc'[q] # "down" => q = p
    BY <1>0, <2>1, <2>2 DEF TypeOK
  <2>4. pins'[p] = db
    BY <1>0, <2>1 DEF TypeOK
  <2>5. QED
    BY <1>0, <2>1, <2>2, <2>3, <2>4 DEF StoreInv
<1>2. ASSUME NEW p \in Proc, FirstSight(p)
      PROVE  StoreInv'
  <2> DEFINE tool == Current(p).tool
             desc == Current(p).desc
  <2>1. tool \in Tool /\ desc \in Desc /\ desc # NoPin
    BY <1>0, <1>2, CurrentType DEF FirstSight
  <2>2. pc[p] = "scan" /\ pins[p][tool] = NoPin
    BY <1>2 DEF FirstSight, Scanning
  <2>3. /\ pins' = [pins EXCEPT ![p][tool] = desc]
        /\ db' = [Committed(p) EXCEPT ![tool] = desc]
        /\ late' = [late EXCEPT ![p] = {}]
        /\ UNCHANGED <<pc, everQuiet, storeFailed, overlapped>>
    BY <1>2 DEF FirstSight
  <2> HIDE DEF tool, desc
  <2>4. pins'[p] = [pins[p] EXCEPT ![tool] = desc] /\ pins[p] \in Pins
    BY <1>0, <2>3 DEF TypeOK
  <2>5. ASSUME ~overlapped, NEW t \in Tool, db'[t] # NoPin
        PROVE  pins'[p][t] = db'[t]
    BY <1>0, <2>1, <2>2, <2>3, <2>4, <2>5, CommittedType, CommittedPins DEF Pins
  <2>6. ASSUME ~overlapped, ~storeFailed
        PROVE  db' = pins'[p] /\ \A x \in everQuiet : db'[x.tool] = x.desc
    <3>1. db = pins[p] /\ Committed(p) = db
      BY <1>0, <2>2, <2>6, CommittedPins DEF StoreInv
    <3>2. db' = pins'[p]
      BY <2>3, <2>4, <3>1
    <3>3. ASSUME NEW x \in everQuiet
          PROVE  db'[x.tool] = x.desc
      <4>1. x \in Listing
        BY <1>0, <3>3 DEF TypeOK
      <4>2. x.tool \in Tool /\ x.desc # NoPin
        BY <4>1, NoPinAssumption DEF Listing
      <4>3. db[x.tool] = x.desc
        BY <1>0, <2>6, <3>3 DEF StoreInv
      <4>4. QED
        BY <2>2, <2>3, <2>4, <3>1, <4>2, <4>3 DEF Pins
    <3>4. QED
      BY <3>2, <3>3
  <2>7. ~overlapped => \A q \in Proc : pc'[q] # "down" => q = p
    BY <1>0, <2>2, <2>3 DEF StoreInv
  <2>8. ~storeFailed => \A q \in Proc : late'[q] = {}
    BY <1>0, <2>3 DEF StoreInv, TypeOK
  <2>9. QED
    BY <1>0, <2>3, <2>5, <2>6, <2>7, <2>8 DEF StoreInv
<1>3. ASSUME NEW p \in Proc, PersistFails(p)
      PROVE  StoreInv'
  <2> DEFINE tool == Current(p).tool
             desc == Current(p).desc
  <2>1. tool \in Tool
    BY <1>0, <1>3, CurrentType DEF PersistFails
  <2>2. pc[p] = "scan" /\ pins[p][tool] = NoPin
    BY <1>3 DEF PersistFails, Scanning
  <2>3. /\ pins' = [pins EXCEPT ![p][tool] = desc] /\ storeFailed' = TRUE
        /\ pc' = [pc EXCEPT ![p] = "idle"]
        /\ db' = db /\ overlapped' = overlapped
    BY <1>3 DEF PersistFails
  <2> HIDE DEF tool, desc
  <2>4. \A q \in Proc : pc'[q] # "down" => pc[q] # "down"
    BY <1>0, <2>2, <2>3 DEF TypeOK
  <2>5. ASSUME ~overlapped, NEW q \in Proc, NEW t \in Tool, pc'[q] # "down", db[t] # NoPin
        PROVE  pins'[q][t] = db[t]
    <3>1. pins[q][t] = db[t]
      BY <1>0, <2>4, <2>5 DEF StoreInv
    <3>2. ~(q = p /\ t = tool)
      BY <2>2, <2>5, <3>1
    <3>3. pins'[q][t] = pins[q][t]
      BY <1>0, <2>1, <2>3, <2>5, <3>2 DEF TypeOK, Pins
    <3>4. QED
      BY <3>1, <3>3
  <2>6. QED
    BY <1>0, <2>3, <2>4, <2>5 DEF StoreInv
<1>4. ASSUME NEW p \in Proc, Decide(p) \/ RecordOther(p), ~AppendRaises(p)
      PROVE  StoreInv'
  <2>1. /\ pins' = pins /\ db' = Committed(p) /\ late' = [late EXCEPT ![p] = {}]
        /\ storeFailed' = storeFailed /\ overlapped' = overlapped
    BY <1>4 DEF Decide, Deny, ForwardWithAlert, ForwardQuietly, Record, RecordOther,
                Commit
  <2>2. pc[p] # "down"
    BY <1>4 DEF Decide, Deny, ForwardWithAlert, ForwardQuietly, Record, RecordOther,
                Scanned
  <2>3. \A q \in Proc : pc'[q] # "down" => pc[q] # "down"
    <3>1. pc' = [pc EXCEPT ![p] = "idle"] \/ pc' = pc
      BY <1>4 DEF Decide, Deny, ForwardWithAlert, ForwardQuietly, Record, RecordOther
    <3>2. QED
      BY <1>0, <2>2, <3>1 DEF TypeOK
  <2>4. ~overlapped => \A q \in Proc : pc'[q] # "down" => q = p
    BY <1>0, <2>2, <2>3 DEF StoreInv
  <2>5. ~overlapped => \A t \in Tool : db'[t] # NoPin => pins'[p][t] = db'[t]
    BY <1>0, <2>1, <2>2, CommittedPins
  <2>6. ASSUME ~overlapped, ~storeFailed
        PROVE  db' = pins'[p] /\ \A x \in everQuiet' : db'[x.tool] = x.desc
    <3>1. db' = db /\ db = pins[p]
      BY <1>0, <2>1, <2>2, <2>6, CommittedPins DEF StoreInv
    <3>2. \A x \in everQuiet' : x \in everQuiet \/ x \in quiet'[p]
      BY <1>0, <1>4 DEF Decide, Deny, ForwardWithAlert, ForwardQuietly, RecordOther,
                        TypeOK
    <3>3. \A x \in quiet'[p] : pins'[p][x.tool] = x.desc
      BY <1>0 DEF MemoryInv
    <3>4. \A x \in everQuiet : db[x.tool] = x.desc
      BY <1>0, <2>6 DEF StoreInv
    <3>5. QED
      BY <2>1, <3>1, <3>2, <3>3, <3>4
  <2>7. ~storeFailed => \A q \in Proc : late'[q] = {}
    BY <1>0, <2>1 DEF StoreInv, TypeOK
  <2>8. QED
    BY <2>1, <2>4, <2>5, <2>6, <2>7 DEF StoreInv
<1>5. ASSUME NEW p \in Proc, ReceiveList(p) \/ Compare(p) \/ AppendRaises(p) \/ Stop(p)
      PROVE  StoreInv'
  <2>1. /\ pins' = pins /\ db' = db /\ everQuiet' = everQuiet
        /\ storeFailed' = storeFailed /\ overlapped' = overlapped
    BY <1>5 DEF ReceiveList, Compare, AppendRaises, Stop
  <2>2. \A q \in Proc : pc'[q] # "down" => pc[q] # "down"
    BY <1>0, <1>5 DEF ReceiveList, Compare, AppendRaises, Stop, Scanned, TypeOK
  <2>3. \A q \in Proc : late'[q] \subseteq late[q]
    BY <1>0, <1>5 DEF ReceiveList, Compare, AppendRaises, Stop, TypeOK
  <2>4. QED
    BY <1>0, <2>1, <2>2, <2>3 DEF StoreInv
<1>6. CASE UNCHANGED vars
  BY <1>0, <1>6 DEF vars, StoreInv
<1>7. QED
  BY <1>1, <1>2, <1>3, <1>4, <1>5, <1>6 DEF Next, Scan, Decide

-----------------------------------------------------------------------------
(* The theorems *)

\* The strengthening from which the properties follow holds in every state.
THEOREM PinInvariant == Spec => []PinInv
<1>1. PinInv /\ [Next]_vars => PinInv'
  <2> SUFFICES ASSUME PinInv, [Next]_vars
               PROVE  PinInv'
    OBVIOUS
  <2>1. TypeOK'
    BY TypeStep DEF PinInv
  <2>2. QED
    BY <2>1, SeenStep, MemoryStep, StoreStep DEF PinInv
<1>2. QED
  BY PinInit, <1>1, PTL DEF Spec

\* The types, and a scan that stays within the tools of its response.
THEOREM TypeCorrect == Spec => []TypeOK
<1>1. PinInv => TypeOK
  BY DEF PinInv
<1>2. QED
  BY PinInvariant, <1>1, PTL

\* While a process runs, whatever other processes do with the shared table and
\* whichever pins could not be stored, its client is never shown two
\* descriptions of a tool without an alert.
THEOREM QuietCorrect == Spec => []QuietWhileRunning
<1>1. PinInv => QuietWhileRunning
  BY DEF PinInv, MemoryInv, QuietWhileRunning, Consistent
<1>2. QED
  BY PinInvariant, <1>1, PTL

\* _check_tools_list_drift() reports no drift unless two descriptions of a tool
\* have been received.
THEOREM DriftCorrect == Spec => []DriftIsReal
<1>1. PinInv => DriftIsReal
  BY DEF PinInv, SeenInv, DriftIsReal
<1>2. QED
  BY PinInvariant, <1>1, PTL

\* Across any number of restarts, a tool is shown with one description or an
\* alert, if _persist_pin() never failed and no two processes shared the table.
THEOREM DurableCorrect == Spec => []DurableFirstSight
<1>1. PinInv => DurableFirstSight
  BY DEF PinInv, StoreInv, DurableFirstSight, QuietForever, Consistent
<1>2. QED
  BY PinInvariant, <1>1, PTL

\* INSERT OR REPLACE replaces no pin as long as no two processes share the table,
\* also when earlier pins could not be stored or were stored late.
THEOREM FinalCorrect == Spec => StoredPinsAreFinal
<1>1. PinInv /\ [Next]_vars
        => [\A t \in Tool : ~overlapped /\ db[t] # NoPin => db'[t] = db[t]]_vars
  <2> SUFFICES ASSUME PinInv, [Next]_vars, ~overlapped,
                      NEW t \in Tool, db[t] # NoPin
               PROVE  db'[t] = db[t]
    OBVIOUS
  <2>0. TypeOK /\ StoreInv
    BY DEF PinInv
  <2>1. ASSUME NEW p \in Proc, pc[p] # "down"
        PROVE  pins[p][t] = db[t] /\ Committed(p)[t] = db[t]
    BY <2>0, <2>1 DEF StoreInv, Committed
  <2>2. ASSUME NEW p \in Proc, FirstSight(p)
        PROVE  db'[t] = db[t]
    <3>1. pc[p] # "down" /\ t # Current(p).tool
      BY <2>1, <2>2 DEF FirstSight, Scanning
    <3>2. QED
      BY <2>0, <2>1, <2>2, <3>1, CommittedType DEF FirstSight, Pins
  <2>3. ASSUME NEW p \in Proc, Decide(p) \/ RecordOther(p), ~AppendRaises(p)
        PROVE  db'[t] = db[t]
    <3>1. db' = Committed(p) /\ pc[p] # "down"
      BY <2>3 DEF Decide, Deny, ForwardWithAlert, ForwardQuietly, Record, RecordOther,
                  Commit, Scanned
    <3>2. QED
      BY <2>1, <3>1
  <2>4. ASSUME NEW p \in Proc,
               \/ AttachPinStore(p) \/ ReceiveList(p) \/ PersistFails(p)
               \/ Compare(p) \/ AppendRaises(p) \/ Stop(p)
        PROVE  db' = db
    BY <2>4 DEF AttachPinStore, ReceiveList, PersistFails, Compare, AppendRaises, Stop
  <2>5. CASE UNCHANGED vars
    BY <2>5 DEF vars
  <2>6. QED
    BY <2>2, <2>3, <2>4, <2>5 DEF Next, Scan, Decide
<1>2. QED
  BY PinInvariant, <1>1, PTL DEF Spec, StoredPinsAreFinal
=============================================================================
