----------------------------- MODULE KeyCustody -----------------------------
(***************************************************************************)
(* The signing key of the audit log: crypto.ensure_keypair() and the       *)
(* fingerprint pin of AuditLog._enforce_pinned_fingerprint(), as processes *)
(* that start at the same time, crash and are started again run them on    *)
(* one key directory, one OS keyring and one database.  A neighbour that   *)
(* runs may leave the database locked (module AuditLog, CommitBusy).       *)
(*                                                                         *)
(* One action per file-system, keyring or database call, because nothing   *)
(* holds a lock across two of them.  A key pair is one element of Key: its *)
(* public and its secret half match iff they are the same element.         *)
(***************************************************************************)
EXTENDS Integers

CONSTANTS
  Proc,        \* processes that open the audit log
  Key,         \* key pairs generate_keypair() may return
  Absent,      \* no file, no keyring entry, no pinned fingerprint
  Empty,       \* a file that was created and not yet written
  Backends,    \* the kinds of OS keyring considered
  MaxStarts,   \* bound: how often processes are started again
  MaxFaults    \* bound: crashes, failed writes and busy commits

ASSUME MarksAssumption == Absent # Empty /\ {Absent, Empty} \cap Key = {}
ASSUME BackendsAssumption == Backends \subseteq {"absent", "present", "flaky"}
ASSUME BoundsAssumption == MaxStarts \in Nat /\ MaxFaults \in Nat

VARIABLES
  backend,     \* the keyring of this host: absent or disabled, present, flaky
  keyring,     \* the secret stored in it
  public,      \* audit_signing.pub
  secret,      \* audit_signing.key
  pinned,      \* audit_meta.public_key_fingerprint
  keeper,      \* the process, if any, that a busy commit left with SQLite's
               \* PENDING lock, which lets nobody else read
  used,        \* history: the pairs generated so far
  pc,          \* per process, the call it makes next
  own,         \* per process, the pair it generated
  pk, sk,      \* per process, the two halves it loaded
  starts, faults

shared == <<keyring, public, secret, pinned, keeper, used>>
locals == <<own, pk, sk>>
counters == <<starts, faults>>
vars == <<backend, shared, pc, locals, counters>>

PC == {"initSchema", "checkPublic", "keyringGet", "checkSecret", "readPublic",
       "readSecret", "generate", "keyringSet", "openSecret",
       "writeSecret", "openPublic", "writePublic", "chmodPublic",
       "checkPin", "insertPin", "running", "failed"}

File == Key \cup {Absent, Empty}

\* What a keyring call may do: succeed or fail.
Answers == CASE backend = "absent"  -> {FALSE}
             [] backend = "present" -> {TRUE}
             [] backend = "flaky"   -> BOOLEAN

Goto(p, label) == pc' = [pc EXCEPT ![p] = label]
Fault == faults < MaxFaults /\ faults' = faults + 1

Init ==
  /\ backend \in Backends
  /\ keyring = Absent /\ public = Absent /\ secret = Absent /\ pinned = Absent
  /\ keeper = {}
  /\ used = {}
  /\ pc = [p \in Proc |-> "initSchema"]
  /\ own = [p \in Proc |-> Absent]
  /\ pk = [p \in Proc |-> Absent]
  /\ sk = [p \in Proc |-> Absent]
  /\ starts = 0 /\ faults = 0

-----------------------------------------------------------------------------
(* AuditLog.__init__() up to the keys *)

Unlocked == keeper = {}

\* CREATE TABLE IF NOT EXISTS reads the schema, and raises "database is locked"
\* if it cannot.
InitSchema(p) ==
  /\ pc[p] = "initSchema"
  /\ Goto(p, IF Unlocked THEN "checkPublic" ELSE "failed")
  /\ UNCHANGED <<backend, shared, locals, counters>>

-----------------------------------------------------------------------------
(* ensure_keypair(): loading a pair *)

CheckPublic(p) ==
  /\ pc[p] = "checkPublic"
  /\ Goto(p, IF public # Absent THEN "keyringGet" ELSE "generate")
  /\ UNCHANGED <<backend, shared, locals, counters>>

\* _try_keyring_get: None when disabled, failing or without an entry.
KeyringGet(p) ==
  /\ pc[p] = "keyringGet"
  /\ \E ok \in Answers :
       IF ok /\ keyring # Absent
       THEN sk' = [sk EXCEPT ![p] = keyring] /\ Goto(p, "readPublic")
       ELSE sk' = sk /\ Goto(p, "checkSecret")
  /\ UNCHANGED <<backend, shared, own, pk, counters>>

CheckSecret(p) ==
  /\ pc[p] = "checkSecret"
  /\ Goto(p, IF secret # Absent THEN "readPublic" ELSE "generate")
  /\ UNCHANGED <<backend, shared, locals, counters>>

\* read_bytes() of the public key: raises when the file is not there, and
\* returns nothing when another process has only just created it.
ReadPublic(p) ==
  /\ pc[p] = "readPublic"
  /\ IF public = Absent
     THEN pk' = pk /\ Goto(p, "failed")
     ELSE /\ pk' = [pk EXCEPT ![p] = public]
          /\ Goto(p, IF sk[p] = Absent THEN "readSecret" ELSE "checkPin")
  /\ UNCHANGED <<backend, shared, own, sk, counters>>

ReadSecret(p) ==
  /\ pc[p] = "readSecret"
  /\ IF secret = Absent
     THEN sk' = sk /\ Goto(p, "failed")
     ELSE sk' = [sk EXCEPT ![p] = secret] /\ Goto(p, "checkPin")
  /\ UNCHANGED <<backend, shared, own, pk, counters>>

-----------------------------------------------------------------------------
(* ensure_keypair(): generating one *)

Generate(p) ==
  /\ pc[p] = "generate"
  /\ \E k \in Key \ used :
       used' = used \cup {k} /\ own' = [own EXCEPT ![p] = k]
  /\ Goto(p, "keyringSet")
  /\ UNCHANGED <<backend, keyring, public, secret, pinned, keeper, pk, sk, counters>>

\* Mutant: the keyring entry is created before the secret is known.
KeyringSetEmpty(p) ==
  /\ pc[p] = "keyringSet"
  /\ keyring' = IF TRUE \in Answers THEN Empty ELSE keyring
  /\ Goto(p, "openSecret")
  /\ UNCHANGED <<backend, public, secret, pinned, keeper, used, locals, counters>>

KeyringSet(p) ==
  /\ pc[p] = "keyringSet"
  /\ \E ok \in Answers :
       IF ok THEN keyring' = own[p] /\ Goto(p, "openPublic")
             ELSE keyring' = keyring /\ Goto(p, "openSecret")
  /\ UNCHANGED <<backend, public, secret, pinned, keeper, used, locals, counters>>

\* Mutants: without O_EXCL, or going on when the file exists.
OpenSecretTruncates(p) ==
  /\ pc[p] = "openSecret"
  /\ secret' = Empty /\ Goto(p, "writeSecret")
  /\ UNCHANGED <<backend, keyring, public, pinned, keeper, used, locals, counters>>

OpenSecretGoesOn(p) ==
  /\ pc[p] = "openSecret"
  /\ IF secret = Absent
     THEN secret' = Empty /\ Goto(p, "writeSecret")
     ELSE secret' = secret /\ Goto(p, "openPublic")
  /\ UNCHANGED <<backend, keyring, public, pinned, keeper, used, locals, counters>>

\* O_CREAT | O_EXCL; when the file exists, load what the other process wrote.
OpenSecret(p) ==
  /\ pc[p] = "openSecret"
  /\ IF secret = Absent
     THEN secret' = Empty /\ Goto(p, "writeSecret")
     ELSE secret' = secret /\ Goto(p, "readPublic")
  /\ UNCHANGED <<backend, keyring, public, pinned, keeper, used, locals, counters>>

WriteSecret(p) ==
  /\ pc[p] = "writeSecret"
  /\ secret' = own[p]
  /\ Goto(p, "openPublic")
  /\ UNCHANGED <<backend, keyring, public, pinned, keeper, used, locals, counters>>

\* The write raises: the file is unlinked and ensure_keypair() raises.
WriteSecretFails(p) ==
  /\ pc[p] = "writeSecret"
  /\ Fault
  /\ secret' = Absent
  /\ Goto(p, "failed")
  /\ UNCHANGED <<backend, keyring, public, pinned, keeper, used, locals, starts>>

\* Mutant: without O_EXCL.
OpenPublicTruncates(p) ==
  /\ pc[p] = "openPublic"
  /\ public' = Empty /\ Goto(p, "writePublic")
  /\ UNCHANGED <<backend, keyring, secret, pinned, keeper, used, locals, counters>>

OpenPublic(p) ==
  /\ pc[p] = "openPublic"
  /\ IF public = Absent
     THEN public' = Empty /\ Goto(p, "writePublic")
     ELSE public' = public /\ Goto(p, "chmodPublic")
  /\ UNCHANGED <<backend, keyring, secret, pinned, keeper, used, locals, counters>>

WritePublic(p) ==
  /\ pc[p] = "writePublic"
  /\ public' = own[p]
  /\ Goto(p, "chmodPublic")
  /\ UNCHANGED <<backend, keyring, secret, pinned, keeper, used, locals, counters>>

WritePublicFails(p) ==
  /\ pc[p] = "writePublic"
  /\ Fault
  /\ public' = Absent
  /\ Goto(p, "failed")
  /\ UNCHANGED <<backend, keyring, secret, pinned, keeper, used, locals, starts>>

\* chmod, which raises if the file is gone, and the generated pair is returned,
\* whatever the public file of another process holds.
ChmodPublic(p) ==
  /\ pc[p] = "chmodPublic"
  /\ IF public = Absent
     THEN UNCHANGED locals /\ Goto(p, "failed")
     ELSE /\ pk' = [pk EXCEPT ![p] = own[p]]
          /\ sk' = [sk EXCEPT ![p] = own[p]]
          /\ own' = own
          /\ Goto(p, "checkPin")
  /\ UNCHANGED <<backend, shared, counters>>

-----------------------------------------------------------------------------
(* _enforce_pinned_fingerprint() *)

\* Mutant: INSERT without looking for the pin first.
CheckPinNever(p) ==
  /\ pc[p] = "checkPin"
  /\ Goto(p, "insertPin")
  /\ UNCHANGED <<backend, shared, locals, counters>>

\* SELECT, which raises if the database is locked.
CheckPin(p) ==
  /\ pc[p] = "checkPin"
  /\ Goto(p, IF ~Unlocked THEN "failed"
             ELSE IF pinned = Absent THEN "insertPin"
             ELSE IF pinned = pk[p] THEN "running" ELSE "failed")
  /\ UNCHANGED <<backend, shared, locals, counters>>

\* Mutant: INSERT OR REPLACE.
InsertOrReplacePin(p) ==
  /\ pc[p] = "insertPin"
  /\ pinned' = pk[p] /\ Goto(p, "running")
  /\ UNCHANGED <<backend, keyring, public, secret, keeper, used, locals, counters>>

\* INSERT and commit; the primary key rejects it when another process was first,
\* and it raises if the database is locked.
InsertPin(p) ==
  /\ pc[p] = "insertPin"
  /\ IF Unlocked /\ pinned = Absent
     THEN pinned' = pk[p] /\ Goto(p, "running")
     ELSE pinned' = pinned /\ Goto(p, "failed")
  /\ UNCHANGED <<backend, keyring, public, secret, keeper, used, locals, counters>>

\* A statement that writes (the tables are created before anything is pinned)
\* waits for a neighbour's transaction, or its commit for a reader, in vain.
WriteBusy(p) ==
  /\ pc[p] \in {"initSchema", "insertPin"} /\ pinned = Absent
  /\ Fault
  /\ Goto(p, "failed")
  /\ UNCHANGED <<backend, shared, locals, starts>>

-----------------------------------------------------------------------------
(* Processes come and go *)

\* append() of a process that runs finds a reader at its commit, and raises with
\* its transaction open; a later commit of that process ends it.
KeepLock(p) ==
  /\ pc[p] = "running" /\ Unlocked
  /\ Fault
  /\ keeper' = {p}
  /\ UNCHANGED <<backend, keyring, public, secret, pinned, used, pc, locals, starts>>

ReleaseLock(p) ==
  /\ p \in keeper
  /\ keeper' = {}
  /\ UNCHANGED <<backend, keyring, public, secret, pinned, used, pc, locals, counters>>

\* The process ends, by a crash in the middle of a call or otherwise, and is
\* started again with fresh locals; what it had locked is free.
StartAgain(p) ==
  /\ Goto(p, "initSchema")
  /\ own' = [own EXCEPT ![p] = Absent]
  /\ pk' = [pk EXCEPT ![p] = Absent]
  /\ sk' = [sk EXCEPT ![p] = Absent]
  /\ keeper' = keeper \ {p}
  /\ UNCHANGED <<backend, keyring, public, secret, pinned, used>>

Restart(p) ==
  /\ pc[p] \in {"running", "failed"}
  /\ starts < MaxStarts /\ starts' = starts + 1
  /\ StartAgain(p)
  /\ UNCHANGED faults

Crash(p) ==
  /\ pc[p] \notin {"initSchema", "checkPublic", "running", "failed"}
  /\ Fault
  /\ StartAgain(p)
  /\ UNCHANGED starts

Load(p) == CheckPublic(p) \/ KeyringGet(p) \/ CheckSecret(p) \/ ReadPublic(p)
             \/ ReadSecret(p)

Create(p) == Generate(p) \/ KeyringSet(p) \/ OpenSecret(p) \/ WriteSecret(p)
               \/ OpenPublic(p) \/ WritePublic(p) \/ ChmodPublic(p)

Enforce(p) == CheckPin(p) \/ InsertPin(p)

Step(p) == InitSchema(p) \/ Load(p) \/ Create(p) \/ Enforce(p)

Failure(p) == WriteSecretFails(p) \/ WritePublicFails(p) \/ WriteBusy(p) \/ Crash(p)

Next ==
  \E p \in Proc : Step(p) \/ Failure(p) \/ Restart(p) \/ KeepLock(p) \/ ReleaseLock(p)

Spec == Init /\ [][Next]_vars

\* A process that is starting runs on.
FairSpec == Spec /\ \A p \in Proc : WF_vars(Step(p))

-----------------------------------------------------------------------------
(* Properties *)

\* Every variable has its type; a file holds nothing, or one half of a pair.
TypeOK ==
  /\ backend \in Backends
  /\ keyring \in Key \cup {Absent}
  /\ public \in File /\ secret \in File
  /\ pinned \in File
  /\ keeper \subseteq Proc
  /\ used \subseteq Key
  /\ pc \in [Proc -> PC]
  /\ own \in [Proc -> Key \cup {Absent}]
  /\ pk \in [Proc -> File]
  /\ sk \in [Proc -> File]
  /\ starts \in 0..MaxStarts /\ faults \in 0..MaxFaults

\* All processes that run on one database do so with one public key, the one
\* whose fingerprint is pinned, although the pin is read and inserted in two
\* steps.  Only the public halves are pinned and compared: with a keyring, secret
\* halves may be of another pair (RunningPairMatches).
PinnedKeyAgreement ==
  \A p \in Proc : pc[p] = "running" => pk[p] = pinned /\ pinned # Absent

\* Without a keyring, the two files never hold halves of different pairs,
\* whoever raced to create them and whatever crashed in between.
StoredPairMatches ==
  backend = "absent" /\ public \in Key /\ secret \in Key => public = secret

\* Without a keyring, a process that runs signs with a complete secret key, and
\* its public key is the matching half, unless it read a public file that was
\* created and not written yet (or ever, after a crash).
RunningPairFits ==
  backend = "absent" =>
    \A p \in Proc : pc[p] = "running" => sk[p] \in Key /\ pk[p] \in {sk[p], Empty}

\* "two concurrent processes cannot ... clobber each other": a key file, once
\* written, is never replaced or removed, with or without a keyring.
FilesAreFinal ==
  [][ /\ secret \in Key => secret' = secret
      /\ public \in Key => public' = public ]_vars

\* A host that is provisioned (the stored pair and the pin agree) comes up again
\* after any crash and whatever its neighbours are doing, unless one of them has
\* the database locked at that time.
Provisioned ==
  /\ public \in Key
  /\ pinned = public
  /\ \/ backend = "absent" /\ secret = public
     \/ backend = "present" /\ keyring = public

ProvisionedComesUp ==
  \A p \in Proc :
    Provisioned /\ pc[p] = "initSchema"
      ~> pc[p] = "running" \/ (pc[p] = "failed" /\ ~Unlocked)

\* What verifying needs: a running process signs with the secret half of the
\* public key that is pinned.  "Load (or atomically generate + persist)".  With a
\* keyring there are two ways to fail: the public file is read before it is
\* written, or the keyring holds the secret that another process stored last.
RunningPairMatches ==
  \A p \in Proc : pc[p] = "running" => pk[p] \in Key /\ sk[p] = pk[p]
=============================================================================
