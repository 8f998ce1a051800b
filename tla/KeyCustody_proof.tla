-------------------------- MODULE KeyCustody_proof --------------------------
(***************************************************************************)
(* Theorems about KeyCustody, for any number of processes, keys, crashes   *)
(* and restarts, and for every kind of keyring.                            *)
(***************************************************************************)
EXTENDS KeyCustody, TLAPS

-----------------------------------------------------------------------------
(* Types *)

\* The initial values have their types.
LEMMA TypeInit == Init => TypeOK
<1> SUFFICES ASSUME Init PROVE TypeOK
  OBVIOUS
<1>1. starts \in 0..MaxStarts /\ faults \in 0..MaxFaults
  BY BoundsAssumption DEF Init
<1>2. pc \in [Proc -> PC]
  BY DEF Init, PC
<1>3. own \in [Proc -> Key \cup {Absent}] /\ pk \in [Proc -> File] /\ sk \in [Proc -> File]
  BY DEF Init, File
<1>4. QED
  BY <1>1, <1>2, <1>3 DEF Init, TypeOK, File

\* Every step keeps the types.
LEMMA TypeStep == TypeOK /\ [Next]_vars => TypeOK'
<1> SUFFICES ASSUME TypeOK, [Next]_vars
             PROVE  TypeOK'
  OBVIOUS
<1> USE DEF TypeOK, File, PC, Goto, shared, locals, counters
<1>1. ASSUME NEW p \in Proc, Load(p)
      PROVE  TypeOK'
  <2>1. CASE CheckPublic(p)
    BY <2>1 DEF CheckPublic
  <2>2. CASE KeyringGet(p)
    BY <2>2 DEF KeyringGet
  <2>3. CASE CheckSecret(p)
    BY <2>3 DEF CheckSecret
  <2>4. CASE ReadPublic(p)
    BY <2>4 DEF ReadPublic
  <2>5. CASE ReadSecret(p)
    BY <2>5 DEF ReadSecret
  <2>6. QED
    BY <1>1, <2>1, <2>2, <2>3, <2>4, <2>5 DEF Load
<1>2. ASSUME NEW p \in Proc, Create(p)
      PROVE  TypeOK'
  <2>1. CASE Generate(p)
    BY <2>1 DEF Generate
  <2>2. CASE KeyringSet(p)
    BY <2>2 DEF KeyringSet
  <2>3. CASE OpenSecret(p)
    BY <2>3 DEF OpenSecret
  <2>4. CASE WriteSecret(p)
    BY <2>4 DEF WriteSecret
  <2>5. CASE OpenPublic(p)
    BY <2>5 DEF OpenPublic
  <2>6. CASE WritePublic(p)
    BY <2>6 DEF WritePublic
  <2>7. CASE ChmodPublic(p)
    BY <2>7 DEF ChmodPublic
  <2>8. QED
    BY <1>2, <2>1, <2>2, <2>3, <2>4, <2>5, <2>6, <2>7 DEF Create
<1>3. ASSUME NEW p \in Proc, Enforce(p)
      PROVE  TypeOK'
  <2>1. CASE CheckPin(p)
    BY <2>1 DEF CheckPin
  <2>2. CASE InsertPin(p)
    BY <2>2 DEF InsertPin
  <2>3. QED
    BY <1>3, <2>1, <2>2 DEF Enforce
<1>4. ASSUME NEW p \in Proc, StartAgain(p),
             starts' \in 0..MaxStarts, faults' \in 0..MaxFaults
      PROVE  TypeOK'
  BY <1>4 DEF StartAgain
<1>5. ASSUME NEW p \in Proc,
             InitSchema(p) \/ Failure(p) \/ Restart(p) \/ KeepLock(p) \/ ReleaseLock(p)
      PROVE  TypeOK'
  <2>1. Fault => faults' \in 0..MaxFaults
    BY BoundsAssumption DEF Fault
  <2>2. CASE WriteSecretFails(p)
    BY <2>1, <2>2 DEF WriteSecretFails
  <2>3. CASE WritePublicFails(p)
    BY <2>1, <2>3 DEF WritePublicFails
  <2>4. CASE Crash(p)
    BY <1>4, <2>1, <2>4 DEF Crash
  <2>5. CASE Restart(p)
    <3>1. starts' \in 0..MaxStarts
      BY <2>5, BoundsAssumption DEF Restart
    <3>2. QED
      BY <1>4, <2>5, <3>1 DEF Restart
  <2>6. CASE WriteBusy(p)
    BY <2>1, <2>6 DEF WriteBusy
  <2>7. CASE KeepLock(p)
    BY <2>1, <2>7 DEF KeepLock
  <2>8. CASE InitSchema(p) \/ ReleaseLock(p)
    BY <2>8 DEF InitSchema, ReleaseLock
  <2>9. QED
    BY <1>5, <2>2, <2>3, <2>4, <2>5, <2>6, <2>7, <2>8 DEF Failure
<1>6. CASE UNCHANGED vars
  BY <1>6 DEF vars
<1>7. QED
  BY <1>1, <1>2, <1>3, <1>4, <1>5, <1>6 DEF Next, Step

-----------------------------------------------------------------------------
(* Invariants *)

\* O_EXCL at work: a file under construction is empty and has one writer.
ExclusiveInv ==
  /\ \A p \in Proc : pc[p] = "writeSecret" => secret = Empty
  /\ \A p \in Proc : pc[p] = "writePublic" => public = Empty
  /\ \A p, q \in Proc : pc[p] = "writeSecret" /\ pc[q] = "writeSecret" => p = q
  /\ \A p, q \in Proc : pc[p] = "writePublic" /\ pc[q] = "writePublic" => p = q
  /\ \A p \in Proc : pc[p] \in {"keyringSet", "openSecret", "writeSecret",
                                "openPublic", "writePublic", "chmodPublic"}
                       => own[p] \in Key

\* The pin is inserted once and every process that runs was compared with it.
PinInv ==
  \A p \in Proc :
    /\ pc[p] \in {"readSecret", "checkPin", "insertPin", "running"} => pk[p] # Absent
    /\ pc[p] = "running" => pk[p] = pinned

\* Without a keyring the secret file decides: only the process that wrote it
\* goes on to the public file, and everyone else loads it.
FileInv ==
  backend = "absent" =>
    /\ public \in Key => public = secret
    /\ public # Absent => secret \in Key
    /\ \A p \in Proc : pc[p] \in {"openPublic", "writePublic", "chmodPublic"}
                         => secret = own[p]
    /\ \A p \in Proc : pc[p] \notin {"checkPin", "insertPin", "running", "failed"}
                         => sk[p] = Absent
    /\ \A p \in Proc : pc[p] = "readSecret"
                         => secret \in Key /\ pk[p] \in {Empty, secret}
    /\ \A p \in Proc : pc[p] \in {"checkPin", "insertPin", "running"}
                         => /\ secret \in Key /\ sk[p] = secret
                            /\ pk[p] \in {Empty, secret}

KeyInv == TypeOK /\ ExclusiveInv /\ PinInv /\ FileInv

\* The initial state satisfies the invariant.
LEMMA KeyInit == Init => KeyInv
<1> SUFFICES ASSUME Init PROVE KeyInv
  OBVIOUS
<1>1. TypeOK
  BY TypeInit
<1>2. \A p \in Proc : pc[p] = "initSchema" /\ sk[p] = Absent
  BY DEF Init
<1>3. ExclusiveInv /\ PinInv /\ FileInv
  BY <1>2, MarksAssumption DEF Init, ExclusiveInv, PinInv, FileInv
<1>4. QED
  BY <1>1, <1>3 DEF KeyInv

\* Only the process that created a file writes or unlinks it.
LEMMA ExclusiveStep ==
  ASSUME KeyInv, [Next]_vars
  PROVE  ExclusiveInv'
<1> USE MarksAssumption
        DEF KeyInv, TypeOK, File, PC, Goto, shared, locals, counters, Answers,
            ExclusiveInv
<1>1. ASSUME NEW p \in Proc, Load(p)
      PROVE  ExclusiveInv'
  <2>1. CASE CheckPublic(p)
    BY <2>1 DEF CheckPublic
  <2>2. CASE KeyringGet(p)
    BY <2>2 DEF KeyringGet
  <2>3. CASE CheckSecret(p)
    BY <2>3 DEF CheckSecret
  <2>4. CASE ReadPublic(p)
    BY <2>4 DEF ReadPublic
  <2>5. CASE ReadSecret(p)
    BY <2>5 DEF ReadSecret
  <2>6. QED
    BY <1>1, <2>1, <2>2, <2>3, <2>4, <2>5 DEF Load
<1>2. ASSUME NEW p \in Proc, Create(p)
      PROVE  ExclusiveInv'
  <2>1. CASE Generate(p)
    BY <2>1 DEF Generate
  <2>2. CASE KeyringSet(p)
    BY <2>2 DEF KeyringSet
  <2>3. CASE OpenSecret(p)
    BY <2>3 DEF OpenSecret
  <2>4. CASE WriteSecret(p)
    BY <2>4 DEF WriteSecret
  <2>5. CASE OpenPublic(p)
    BY <2>5 DEF OpenPublic
  <2>6. CASE WritePublic(p)
    BY <2>6 DEF WritePublic
  <2>7. CASE ChmodPublic(p)
    BY <2>7 DEF ChmodPublic
  <2>8. QED
    BY <1>2, <2>1, <2>2, <2>3, <2>4, <2>5, <2>6, <2>7 DEF Create
<1>3. ASSUME NEW p \in Proc, Enforce(p)
      PROVE  ExclusiveInv'
  <2>1. CASE CheckPin(p)
    BY <2>1 DEF CheckPin
  <2>2. CASE InsertPin(p)
    BY <2>2 DEF InsertPin
  <2>3. QED
    BY <1>3, <2>1, <2>2 DEF Enforce
<1>4. ASSUME NEW p \in Proc, Failure(p)
      PROVE  ExclusiveInv'
  <2>1. CASE WriteSecretFails(p)
    BY <2>1 DEF WriteSecretFails, Fault
  <2>2. CASE WritePublicFails(p)
    BY <2>2 DEF WritePublicFails, Fault
  <2>3. CASE WriteBusy(p)
    BY <2>3 DEF WriteBusy, Fault
  <2>4. CASE Crash(p)
    BY <2>4 DEF Crash, StartAgain, Fault
  <2>5. QED
    BY <1>4, <2>1, <2>2, <2>3, <2>4 DEF Failure
<1>5. ASSUME NEW p \in Proc,
             InitSchema(p) \/ Restart(p) \/ KeepLock(p) \/ ReleaseLock(p)
      PROVE  ExclusiveInv'
  <2>1. CASE InitSchema(p)
    BY <2>1 DEF InitSchema
  <2>2. CASE Restart(p)
    BY <2>2 DEF Restart, StartAgain
  <2>3. CASE KeepLock(p)
    BY <2>3 DEF KeepLock
  <2>4. CASE ReleaseLock(p)
    BY <2>4 DEF ReleaseLock
  <2>5. QED
    BY <1>5, <2>1, <2>2, <2>3, <2>4
<1>6. CASE UNCHANGED vars
  BY <1>6 DEF vars
<1>7. QED
  BY <1>1, <1>2, <1>3, <1>4, <1>5, <1>6 DEF Next, Step

\* A process runs only with the pinned key, and the pin never changes.
LEMMA PinStep ==
  ASSUME KeyInv, [Next]_vars
  PROVE  PinInv'
<1> USE MarksAssumption
        DEF KeyInv, TypeOK, File, PC, Goto, shared, locals, counters, Answers,
            ExclusiveInv, PinInv
<1>1. ASSUME NEW p \in Proc, Load(p)
      PROVE  PinInv'
  <2>1. CASE CheckPublic(p)
    BY <2>1 DEF CheckPublic
  <2>2. CASE KeyringGet(p)
    BY <2>2 DEF KeyringGet
  <2>3. CASE CheckSecret(p)
    BY <2>3 DEF CheckSecret
  <2>4. CASE ReadPublic(p)
    BY <2>4 DEF ReadPublic
  <2>5. CASE ReadSecret(p)
    BY <2>5 DEF ReadSecret
  <2>6. QED
    BY <1>1, <2>1, <2>2, <2>3, <2>4, <2>5 DEF Load
<1>2. ASSUME NEW p \in Proc, Create(p)
      PROVE  PinInv'
  <2>1. CASE Generate(p)
    BY <2>1 DEF Generate
  <2>2. CASE KeyringSet(p)
    BY <2>2 DEF KeyringSet
  <2>3. CASE OpenSecret(p)
    BY <2>3 DEF OpenSecret
  <2>4. CASE WriteSecret(p)
    BY <2>4 DEF WriteSecret
  <2>5. CASE OpenPublic(p)
    BY <2>5 DEF OpenPublic
  <2>6. CASE WritePublic(p)
    BY <2>6 DEF WritePublic
  <2>7. CASE ChmodPublic(p)
    BY <2>7 DEF ChmodPublic
  <2>8. QED
    BY <1>2, <2>1, <2>2, <2>3, <2>4, <2>5, <2>6, <2>7 DEF Create
<1>3. ASSUME NEW p \in Proc, Enforce(p)
      PROVE  PinInv'
  <2>1. CASE CheckPin(p)
    BY <2>1 DEF CheckPin
  <2>2. CASE InsertPin(p)
    BY <2>2 DEF InsertPin
  <2>3. QED
    BY <1>3, <2>1, <2>2 DEF Enforce
<1>4. ASSUME NEW p \in Proc, Failure(p)
      PROVE  PinInv'
  <2>1. CASE WriteSecretFails(p)
    BY <2>1 DEF WriteSecretFails, Fault
  <2>2. CASE WritePublicFails(p)
    BY <2>2 DEF WritePublicFails, Fault
  <2>3. CASE WriteBusy(p)
    BY <2>3 DEF WriteBusy, Fault
  <2>4. CASE Crash(p)
    BY <2>4 DEF Crash, StartAgain, Fault
  <2>5. QED
    BY <1>4, <2>1, <2>2, <2>3, <2>4 DEF Failure
<1>5. ASSUME NEW p \in Proc,
             InitSchema(p) \/ Restart(p) \/ KeepLock(p) \/ ReleaseLock(p)
      PROVE  PinInv'
  <2>1. CASE InitSchema(p)
    BY <2>1 DEF InitSchema
  <2>2. CASE Restart(p)
    BY <2>2 DEF Restart, StartAgain
  <2>3. CASE KeepLock(p)
    BY <2>3 DEF KeepLock
  <2>4. CASE ReleaseLock(p)
    BY <2>4 DEF ReleaseLock
  <2>5. QED
    BY <1>5, <2>1, <2>2, <2>3, <2>4
<1>6. CASE UNCHANGED vars
  BY <1>6 DEF vars
<1>7. QED
  BY <1>1, <1>2, <1>3, <1>4, <1>5, <1>6 DEF Next, Step

\* Who reaches the public file wrote the secret file.
LEMMA FileStep ==
  ASSUME KeyInv, [Next]_vars
  PROVE  FileInv'
<1> USE MarksAssumption
        DEF KeyInv, TypeOK, File, PC, Goto, shared, locals, counters, Answers,
            ExclusiveInv, FileInv
<1>1. ASSUME NEW p \in Proc, Load(p)
      PROVE  FileInv'
  <2>1. CASE CheckPublic(p)
    BY <2>1 DEF CheckPublic
  <2>2. CASE KeyringGet(p)
    BY <2>2 DEF KeyringGet
  <2>3. CASE CheckSecret(p)
    BY <2>3 DEF CheckSecret
  <2>4. CASE ReadPublic(p)
    BY <2>4 DEF ReadPublic
  <2>5. CASE ReadSecret(p)
    BY <2>5 DEF ReadSecret
  <2>6. QED
    BY <1>1, <2>1, <2>2, <2>3, <2>4, <2>5 DEF Load
<1>2. ASSUME NEW p \in Proc, Create(p)
      PROVE  FileInv'
  <2>1. CASE Generate(p)
    BY <2>1 DEF Generate
  <2>2. CASE KeyringSet(p)
    BY <2>2 DEF KeyringSet
  <2>3. CASE OpenSecret(p)
    BY <2>3 DEF OpenSecret
  <2>4. CASE WriteSecret(p)
    BY <2>4 DEF WriteSecret
  <2>5. CASE OpenPublic(p)
    BY <2>5 DEF OpenPublic
  <2>6. CASE WritePublic(p)
    BY <2>6 DEF WritePublic
  <2>7. CASE ChmodPublic(p)
    BY <2>7 DEF ChmodPublic
  <2>8. QED
    BY <1>2, <2>1, <2>2, <2>3, <2>4, <2>5, <2>6, <2>7 DEF Create
<1>3. ASSUME NEW p \in Proc, Enforce(p)
      PROVE  FileInv'
  <2>1. CASE CheckPin(p)
    BY <2>1 DEF CheckPin
  <2>2. CASE InsertPin(p)
    BY <2>2 DEF InsertPin
  <2>3. QED
    BY <1>3, <2>1, <2>2 DEF Enforce
<1>4. ASSUME NEW p \in Proc, Failure(p)
      PROVE  FileInv'
  <2>1. CASE WriteSecretFails(p)
    BY <2>1 DEF WriteSecretFails, Fault
  <2>2. CASE WritePublicFails(p)
    BY <2>2 DEF WritePublicFails, Fault
  <2>3. CASE WriteBusy(p)
    BY <2>3 DEF WriteBusy, Fault
  <2>4. CASE Crash(p)
    BY <2>4 DEF Crash, StartAgain, Fault
  <2>5. QED
    BY <1>4, <2>1, <2>2, <2>3, <2>4 DEF Failure
<1>5. ASSUME NEW p \in Proc,
             InitSchema(p) \/ Restart(p) \/ KeepLock(p) \/ ReleaseLock(p)
      PROVE  FileInv'
  <2>1. CASE InitSchema(p)
    BY <2>1 DEF InitSchema
  <2>2. CASE Restart(p)
    BY <2>2 DEF Restart, StartAgain
  <2>3. CASE KeepLock(p)
    BY <2>3 DEF KeepLock
  <2>4. CASE ReleaseLock(p)
    BY <2>4 DEF ReleaseLock
  <2>5. QED
    BY <1>5, <2>1, <2>2, <2>3, <2>4
<1>6. CASE UNCHANGED vars
  BY <1>6 DEF vars
<1>7. QED
  BY <1>1, <1>2, <1>3, <1>4, <1>5, <1>6 DEF Next, Step

-----------------------------------------------------------------------------
(* Theorems *)

\* Type correctness, with the invariants of the start-up protocol.
THEOREM KeyInvariant == Spec => []KeyInv
<1>1. KeyInv /\ [Next]_vars => KeyInv'
  BY TypeStep, ExclusiveStep, PinStep, FileStep DEF KeyInv
<1>2. QED
  BY <1>1, KeyInit, PTL DEF Spec

THEOREM TypeCorrect == Spec => []TypeOK
<1>1. KeyInv => TypeOK
  BY DEF KeyInv
<1>2. QED
  BY <1>1, KeyInvariant, PTL

\* Every process that runs does so with the pinned public key, however the
\* SELECT and the INSERT of the pin interleave, and with any keyring.
THEOREM OnePinnedKey == Spec => []PinnedKeyAgreement
<1>1. KeyInv => PinnedKeyAgreement
  BY DEF KeyInv, PinInv, PinnedKeyAgreement
<1>2. QED
  BY <1>1, KeyInvariant, PTL

\* Without a keyring the stored halves always match: racing starts and crashes
\* between the two files cannot mix two pairs.
THEOREM StoredPairAlwaysMatches == Spec => []StoredPairMatches
<1>1. KeyInv => StoredPairMatches
  BY DEF KeyInv, FileInv, StoredPairMatches
<1>2. QED
  BY <1>1, KeyInvariant, PTL

\* Without a keyring a running process has the secret half, and the public half
\* that fits it or an empty public key read from an unfinished file.
THEOREM RunningPairAlwaysFits == Spec => []RunningPairFits
<1>1. KeyInv => RunningPairFits
  BY DEF KeyInv, FileInv, RunningPairFits
<1>2. QED
  BY <1>1, KeyInvariant, PTL

\* No process ever replaces or removes a key file that has been written.
THEOREM FilesNeverClobbered == Spec => FilesAreFinal
<1>1. KeyInv /\ [Next]_vars =>
        [/\ secret \in Key => secret' = secret
         /\ public \in Key => public' = public]_vars
  <2> SUFFICES ASSUME KeyInv, Next
               PROVE  /\ secret \in Key => secret' = secret
                      /\ public \in Key => public' = public
    BY DEF vars
  <2> USE MarksAssumption DEF KeyInv, ExclusiveInv, shared
  <2>1. PICK p \in Proc : Step(p) \/ Failure(p) \/ Restart(p) \/ KeepLock(p) \/ ReleaseLock(p)
    BY DEF Next
  <2>2. CASE OpenSecret(p) \/ WriteSecret(p) \/ WriteSecretFails(p)
    BY <2>2 DEF OpenSecret, WriteSecret, WriteSecretFails
  <2>3. CASE OpenPublic(p) \/ WritePublic(p) \/ WritePublicFails(p)
    BY <2>3 DEF OpenPublic, WritePublic, WritePublicFails
  <2>4. CASE \/ InitSchema(p) \/ Load(p) \/ Generate(p) \/ KeyringSet(p) \/ ChmodPublic(p)
             \/ Enforce(p) \/ WriteBusy(p) \/ Crash(p) \/ Restart(p) \/ KeepLock(p)
             \/ ReleaseLock(p)
    BY <2>4 DEF InitSchema, WriteBusy, KeepLock, ReleaseLock, Load, CheckPublic, KeyringGet, CheckSecret, ReadPublic, ReadSecret,
                Generate, KeyringSet, ChmodPublic, Enforce, CheckPin, InsertPin,
                Crash, Restart, StartAgain
  <2>5. QED
    BY <2>1, <2>2, <2>3, <2>4 DEF Step, Create, Failure
<1>2. QED
  BY <1>1, KeyInvariant, PTL DEF Spec, FilesAreFinal
=============================================================================
