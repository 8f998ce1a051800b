# Verification of mcp-bastion

mcp-bastion is a proxy between an MCP client and an upstream MCP server. It
reads every JSON-RPC frame in both directions, decides by a policy what to do
with it (forward, redact, refuse, ask for approval), records the decision in a
hash-chained, signed SQLite log, and carries the decision out. This directory
holds TLA+ models of its stateful parts, the TLC configurations that check them,
and TLAPS proofs of the properties that matter most.

## 1. The system

| part | state | operations | talks to |
|---|---|---|---|
| audit log (`audit.py`) | table `audit`, table `audit_meta`, anchor file | open, `append`, `verify_chain`, `verify_anchor`, `tail` | SQLite, key custody |
| key custody (`crypto.py`, `audit.py:91`) | two key files, keyring entry, pinned fingerprint | `ensure_keypair`, `_enforce_pinned_fingerprint` | file system, OS keyring, SQLite |
| policy engine (`policy.py`) | `_pins` in memory, table `tool_pins` | `attach_pin_store`, `evaluate` | SQLite (the audit log's connection), classifier |
| redaction (`policy.py:325-439`) | the budget and the deadline of one evaluation | `_redact_in_place`, `_redact_string`, `_chunked_subn` | policy engine |
| stdio proxy (`stdio_proxy.py`) | two pumps, child process, buffers of the pipes | `run`, `_pump_lines`, `_drain_oversized` | engine, log, client, server |
| http proxy (`http_proxy.py`) | one session, one coroutine per request, one SSE buffer per stream | `_handle_post`, `_handle_get`, `_handle_delete` | engine, log, upstream |
| `jsonrpc.py`, `limits.py`, `types.py` | none | `parse_frame`, `serialize_frame`, `_json_depth` | both proxies |
| `classifier.py` | one lazily loaded model | `score`, `get_classifier` | policy engine |
| `nitro_enclave.py`, `cli.py` | none | attestation; `up`, `wrap`, `inspect-log` | |

For one frame the path is: a pump or handler reads it, `parse_frame` gives it a
kind, `PolicyEngine.evaluate` decides (and may pin tool descriptions through the
audit log's connection), `AuditLog.append` commits a row, and only then is the
frame forwarded, rewritten, answered with an error or dropped.

What makes it hard:

* **Several processes.** `docs/claude-desktop-setup.md` wraps each of several
  servers with `mcp-bastion up` under one `policy.yaml`. All of them share the
  database, the key directory, the keyring and the anchor file, with no lock but
  SQLite's. `append`, `ensure_keypair`, the fingerprint pin and the tool pins are
  all read-then-write.
* **Failure between two steps.** Crashes between commit and anchor, between two
  key files, between the audit row and the write; commits that find the database
  busy and leave a transaction open; anchor writes that fail or are short.
* **Two pumps on one event loop** that share stdout's buffer, an exception in one
  of them, a client that does not read, and the end of either side while the other
  still has work.
* **Oversized lines**, whose drain does not know where the next line begins, nor, when it
  gives up, that what follows is no line.
* **POST handlers that wait** for the server between the row of a request and that of
  its answer, while other handlers, and the stream, evaluate and pin on the same
  engine; and a server that answers late, with an error, or never.
* **Streams in chunks**, whose lines straddle them, in a buffer that is dropped when
  it grows too long; and events of several lines.
* **Budgets**: the redaction walk ends after so many nodes, a long string is scanned in
  windows, and both stop at a deadline.

What makes each part correct: the log is append-only, keeps what it returned, is
a chain (a tree, with several writers) and its anchors agree with it; whoever runs
does so with one public key, and files are never clobbered; a client never sees
two descriptions of a tool without an alert; no line or body gets through either proxy
against the policy or unrecorded, in order; the stdio proxy ends when a side ends, every POST
returns and no part of a stream is held back; and redaction leaves nothing unseen that
the decision does not admit.

## 2. Modules

| module | models | checked by |
|---|---|---|
| `AppendOnlyLog` | what an audit log promises, in the abstract | as a property of `AuditLog` |
| `AuditLog` | `audit.py`: `append`, anchors, the verifiers | `MCAuditLog`, 3 runs |
| `AuditLog_proof` | proofs about `AuditLog` | TLAPS |
| `KeyCustody` | `crypto.ensure_keypair`, the fingerprint pin | 2 runs |
| `KeyCustody_proof` | proofs about `KeyCustody` | TLAPS |
| `ToolPins` | `_check_tools_list_drift`, `_persist_pin`, `attach_pin_store` | `MCToolPins`, 2 runs |
| `ToolPins_proof` | proofs about `ToolPins` | TLAPS |
| `PolicyRules` | the order of the rules in `evaluate` for a `tools/call` | part of both proxies |
| `Gateway` | what the firewall promises on either transport, in the abstract | as a property of both proxies |
| `StdioProxy` | `stdio_proxy.py` | `MCStdioProxy`, 3 runs |
| `StdioProxy_proof` | proofs about `StdioProxy` | TLAPS |
| `HttpProxy` | `http_proxy.py`: POST handlers and the GET stream | `MCHttpProxy`, 1 run |
| `HttpProxy_proof` | proofs about `HttpProxy` | TLAPS |
| `Redaction` | `_redact_in_place`, `_redact_string`, `_chunked_subn`, `_json_depth` | `MCRedaction`, 1 run |
| `Redaction_proof` | proofs about `Redaction` | TLAPS |
| `SequenceFacts` | lemmas on sequences, for the proofs about the proxies and redaction | TLAPS |
| `InductionFacts` | induction over the numbers, sums, sorted lists, paths: lemmas for the same proofs | TLAPS |

Definitions introduced by a comment "Mutant" are faulty variants of the
definition that follows. No specification uses them; substituted for it, each
makes one property fail, which shows that the property depends on that code.

### AuditLog

`audit` is the committed table, in which row *i* has `seq` *i* (no row is ever
deleted, and a rolled-back insert gives its number back). `pending[p]` is the open
transaction of process *p*, `pc`, `entry`, `prev` and `seq` are the locals of
`append()`, and `anchor` and `torn` are the complete lines of the anchor file and
whether a part of a line follows them.

SHA-256 is taken to be free of collisions: the hash of a body is the sequence of
entries it commits to, so `HashBody(prev, body) = Append(prev, body)`. A row's
fields other than the two hashes are one element of `Entry`.

The steps follow what SQLite makes visible to another process: the SELECT of the
last hash runs in autocommit (`ReadLastHash`), the INSERT opens a transaction and
takes the write lock (`Insert`; `InsertBusy` when it is not free in time), COMMIT
publishes (`Commit`; `CommitBusy` when a reader holds its lock, which raises and
leaves the transaction open), and the anchor is written after the commit
(`WriteAnchor`, and three ways for it to fail). A pin that is stored on the same
connection commits what is pending too (`CommitByPin`). `Crash` may happen at any
of these points and rolls back.

### KeyCustody

One action per call on the file system, the keyring or the database, because no
lock spans two of them. A key pair is one element of `Key`; a file is `Absent`,
`Empty` (created with `O_EXCL`, not written yet) or holds a half of a pair. The
keyring is absent, present, or flaky (each call may fail). `ensure_keypair` keeps
its branches: the fast path through the keyring, the two files, the
`FileExistsError` path that loads another process' files, and the two cleanup paths
that unlink.

Before the keys a process creates its tables (`InitSchema`), after them it reads and
inserts the pin (`CheckPin`, `InsertPin`). Each of these raises when the database is
locked, which ends the start: because a statement that writes waited in vain
(`WriteBusy`), or because a neighbour that runs had a commit that found it busy (the
`CommitBusy` of `AuditLog`) and keeps SQLite's PENDING lock, which stops readers too, until
it commits again or ends (`keeper`, `KeepLock`, `ReleaseLock`).

### ToolPins

`pins[p]` is `PolicyEngine._pins` of a process and `db` the table they share, which
a process reads only in `AttachPinStore`. A scan runs one listing per step, because
each first sight commits. `late[p]` are the pins whose INSERT ran but whose commit
failed: they are stored by the next commit on that connection. The decision keeps
the code's order: a classifier match to block, then drift to block, then allow with or
without an alert. The response is forwarded only after its audit row was appended.

### StdioProxy

`sent[d]` is what the source of a direction wrote, `taken[d]` how far the pump has
read it. A handler, from the end of one `readuntil` to the next, has no await, so
one handler runs at a time (`turn`), but it is two steps, the row and the write, since
the process may be killed between them. `buffer` is `sys.stdout.buffer`; `toClient`
is what was written to the pipe and `seen` how much of it the client has read: the pipe
holds `PipeSize` messages, and a write to a full one blocks the event loop, with both
pumps, until there is room (`HasRoom`). `Flush` is the part of a write that empties the
buffer. An oversized line is drained in chunks: lines that
follow it in the last chunk go with it, and the tail of a line that the chunk cut
(or of the oversized line itself, when the drain gives up) is read as a line. What
`evaluate()` says of a tail depends on bytes that the model does not have, so it may say
anything (`Judgements`), and rows and messages tell a tail from a whole line (`whole`).
`HandlerRaises` is an `evaluate()` or `append()` that raises: without a row, or, as
`append()` commits before it writes the anchor, with one.
`Stop` is `asyncio.wait(FIRST_COMPLETED)` with the cancellation and `terminate()`.

### Gateway

Two variables: the records, and what left the proxy. A step records items that have
no record yet (one line, or the lines that a chunk completes), or passes things on, each
after its record and in the form that the verdict allows. `KeepsPromise` of `StdioProxy`
and of `HttpProxy` is this specification under a refinement mapping. All rows are mapped,
those of the stream too. Of what is passed on, blank lines and empty answers are left
out, which have no rows, and the stream's lines, which go to the client in chunks,
before or after their row and whatever it says.

### HttpProxy

A handler is a coroutine, so what happens between two awaits is one action. A POST goes
from `idle` by `Evaluate` (parse, evaluate, row; a refusal is returned at once) to
`sending`, by `Send` to `waiting`, by `HandleAnswer` (evaluate the answer against the
pins of *that* moment, row, refusal or answer) to `replying`, and by `Deliver` to
`done`. Between any two of these the other handlers run. `UpstreamFails` stands for
every exception of `session.post` and `read()`, the session's timeout among them;
`EvaluateRaises` and `HandleAnswerRaises` for an engine or a log that raises, before or
after the row is committed. `Redirect` is aiohttp following a 307 or 308, which sends
the request once more. `pin` is the engine's pin of one listed tool, which a list sets
whatever direction it comes from.

The stream is a sequence of `data:` lines with lengths. An event may be spread over several
of them, and the code parses every line for itself, so that a part of an event is a frame of
kind "other" whatever the event is (`Part`). There are three positions in its bytes:
`base` to `fed` is in the buffer, and what is before `written` was given to the client.
`Scan` takes a chunk of any size, drops the buffer if it grows beyond `Limit`, and
otherwise evaluates and records the lines that are now complete (`FirstWhole`: a line whose
beginning was dropped is not one). `WriteChunk` gives the chunk to the client whatever
was decided. The functions that add rows for several lines (`LineRows`, `PinAfterLines`)
give what the loop of the code gives: the first list pins.

### Redaction

The arguments of a call are a tree of nodes, and a string is a length and the places at
which the one rule matches. `MeasureNode` is a turn of `_json_depth`, which stops at its
cap; arguments that are too deep make the frame INVALID, which `evaluate()` allows at
once (`Judge`, verdict "unread"). `VisitNode` and `VisitString` are the turns of
`_redact_in_place`: the last node of the stack is popped, and its members are pushed;
`Decide` is its end, with the stack empty or the budget used up. A string is scanned in
one pass (`ScanWhole`, or `NativeTimeout` when the regex package gives up) or, with the
standard library's `re`, one window per `ScanWindow`, each reaching `Overlap` characters
back, until `Deadline`; `Store` puts the result in its place. A replacement has a length
of its own (`mark`), which is what the arithmetic of the overlap meets. The reference
definitions are `Level` (depth by the path from the root), `Before` (the order of a
walk) and `OnePass` (the string with each secret replaced).

## 3. Runs

| run | instance | what it shows |
|---|---|---|
| `audit_shared` | 2 processes, 2 entries, 3 rows, anchors every 2 rows, 2 faults | rows form a tree of chains (`RowsFormTree`), anchors agree (`AnchorsMatchRows`), are complete without faults (`AnchorsComplete`), the log implements `AppendOnlyLog` (`KeepsPromise`), `append()` returns (`AppendReturns`) |
| `audit_single` | 1 process, 2 entries, 4 rows, 3 faults | the chain verifies in every state (`ChainVerifies`); a removed or altered row is reported, at its place (`DamageIsFlagged`) |
| `audit_two_writers` | 2 processes, no fault | **finding**: the chain forks (`ChainVerifies` fails) |
| `keys` | 2 processes, 3 pairs, every keyring, 2 restarts, 1 fault | one public key for all (`PinnedKeyAgreement`), no mixed pair (`StoredPairMatches`, `RunningPairFits`), no file clobbered (`FilesAreFinal`), provisioned hosts come up unless a neighbour has the database locked (`ProvisionedComesUp`) |
| `keys_keyring` | 2 processes, keyring present, no fault | **finding**: a process runs with an empty public key (`RunningPairMatches` fails) |
| `pins` | 2 processes, 2 tools, 2 descriptions, lists of up to 2 listings, 3 policies, 2 lists, 2 faults | `QuietWhileRunning`, `DriftIsReal`, `DurableFirstSight`, `StoredPinsAreFinal` |
| `pins_shared` | 2 processes, no fault | **finding**: two processes show two descriptions without an alert (`QuietForever` fails) |
| `stdio` | 6 kinds of client lines, 4 of server lines, 2 lines in all, a pipe of 1 message, 2 faults | `PolicyUpheld`, `InOrder`, `LossHasCause`, `AnsweredByExit`, `ShutsDown`, `NothingStarves`, and `Gateway` is implemented (`KeepsPromise`) |
| `stdio_refused` | as above, no fault | **finding**: the answer to a refused request is never flushed (`RefusedIsAnswered` fails) |
| `stdio_drain` | as above, no fault | **finding**: whole lines vanish behind an oversized one (`OnlyOversizedDropped` fails) |
| `http` | 2 POSTs; POSTs, lines of the stream and faults 3 together, 1 of them a fault; lines of 2 and 5 bytes that are a list or a part of one, chunks of up to 2, a buffer of 3, drift blocked and not | `PolicyUpheld`, `BlockedNeverAnswered`, `DriftOnRecord`, `UnseenHasCause`, `KeepsPromise` (POSTs and the rows of the stream implement `Gateway`), `EveryPostReturns`, `StreamFlows` |
| `redact` | values of up to 5 nodes and depth 3, a budget of 3 nodes, strings of up to 8 characters, windows of 4 that overlap by 2, secrets of 1 to 3 characters, replacements of 0, 1 and 3 | arguments go unread just if they are too deep (`DepthAgrees`); the walk leaves out only what the budget left, in order (`WalkCovers`); secrets show only where a window ends in them (`OnlySplitSecretsShow`); windows lose and double no text if no secret touches what two of them share (`TextIsKept`) |

**Bounds.** Each race above needs two processes, and a third only repeats one of the
two. Three rows reach a fork, a dangling row and two anchors; four rows by one writer
reach a row built on a row left by a busy commit, and a removal in the middle. Two
faults allow a failure and a crash while it is being handled. Three pairs are enough for
two first starts and a restart that generates again. Two lists of two listings allow a
repeat within a list, a drift between lists and a restart between them. Two lines let an
oversized line swallow or cut another, two errors overtake each other and both pumps
meet in stdout's buffer; a pipe of one message is full whenever the client is one
behind. Two POSTs allow answers out of order, and a list between a request and its
answer; with a line of the stream, a list pinned or drifting between the two, and a
drift between the stream and a reply; two lines, one of 5 bytes that overflows a buffer
of 3 and one of 2 behind it in its last chunk. A third POST or line is one more
bystander, and the theorems hold for any number. Three windows, the last one short, are
the first, the middle and the last case of `_chunked_subn`; secrets of up to 3
characters fit the overlap, straddle it and exceed it. A bound appears in a guard
(`MaxRows`, `MaxStarts`, `MaxLists`, `MaxSent`, `MaxPosts`, `MaxTraffic`, `MaxFaults`)
or in the set of initial values (`MaxNodes`, `MaxLen`) and nowhere else. Runs do not
check for deadlock: clients may always stop sending, and a system that has used up its
bounds stands still.

**Symmetry** is used where no liveness is checked: processes and tools in `pins`,
entries in `audit_single`.

**Fairness.** `append()` and `ensure_keypair()` are straight-line code, so a process
that is in one takes its next step (`WF` per process). Faults and new calls need never
happen, so a lock that a neighbour keeps may never be released. In `StdioProxy` the
event loop runs every pump that has something to read (`WF` per pump; asyncio's ready
queue is first in, first out) and the task that waits for them, and a child that was
told to terminate does. Neither side need ever send, close or exit. `WF(ClientReads)` is
an assumption on the client: one that stays reads what it is sent. Nothing in the proxy
guards against one that does not: without it TLC refutes `ShutsDown`, since the event
loop is blocked in a write (`stdio_proxy.py:80`). In `HttpProxy` the server need not
answer: that every POST returns rests on the timeout of aiohttp's session (300 s unless
set), `WF(UpstreamFails)`, and on the event loop, which runs what is ready.

## 4. Findings

1. **Two writers fork the chain** (`audit.py:159`). The last hash is read before
   the INSERT takes the lock. Two processes then append two rows with one
   `prev_hash`, and `inspect-log --verify` reports a mismatch on an intact log.
   `RowsFormTree` is what remains true: the rows form a tree.
2. **An empty public key** (`crypto.py:120`). With a keyring, the public file may be
   read between its creation and its write.
3. **Pins are not shared while running** (`policy.py:182`, `policy.py:318`). Two
   processes pin different descriptions, and the table keeps the last.
4. **The error for a refused request is not flushed** (`stdio_proxy.py:73`).
   `write(...) or flush()` never flushes, since `write` returns a positive number. The
   answer leaves with the next server message or at exit (`AnsweredByExit`); a client
   that waits for it first, waits.
5. **The drain swallows more than the oversized line** (`stdio_proxy.py:183`).

Five more disagreements with a document or a comment show in what the properties that hold
have to except; each has its exception stated at the property.

* **A secret of another pair** (`crypto.py:137`; `SECURITY.md:82`: "Atomic O_EXCL keypair
  generation (no TOCTOU)"). Two processes that generate at a time both store their secret
  in the keyring; the last one stays, beside the public file and the pin of the first. A
  process started later passes the pin, which compares public keys only, and signs what
  nobody can verify. `PinnedKeyAgreement` is about public keys and no more;
  `RunningPairMatches` compares the halves, and fails for this reason too.
* **The tail of an oversized line is passed on** (`stdio_proxy.py:181`, against line 128:
  "never forward it"). The drain gives up after 16 chunks without a newline; the rest of the
  line is read as a line, judged by its own bytes and passed on. So may be the tail of a line
  that the last chunk cut, of a refused call as well. `PolicyUpheld` speaks of lines that
  were read whole, and says of a tail only that it has its row.
* **A list spread over several `data:` lines** (`http_proxy.py:214`; the docstring in lines
  9-10 has it that "we buffer until" the blank line that ends an event). The lines are parsed
  one by one, and none is a list: no pin, no comparison, and a changed description is shown
  with no drift on record. `DriftOnRecord` is about lists on one line.
* **What is too deep is not redacted** (`policy.py:187`; `SECURITY.md:134`: "Secrets at any
  tree depth are redacted"). Beyond `MAX_JSON_DEPTH` a frame is INVALID, and such a frame is
  passed on as it came, a denied call too. `DepthAgrees` says that this happens to those
  frames and to no others.
* **Windows split matches** (`policy.py:380`; `limits.py:49-50` has them overlap "to avoid
  splitting matches at boundaries"). The head of a match that ends beyond a window was put out
  with that window, before the next one finds it whole. `OnlySplitSecretsShow` is what remains
  true. This is the fallback without the `regex` package.

Also observed, and promised nowhere: a host that crashed between the two key files
never comes up again without help (`crypto.py:149-153` misses the public file); the
end of the client's input cancels the pump that carries the answers
(`stdio_proxy.py:86-91`). In the proxies:

* A drifted list on the stream is recorded as denied and shown (`http_proxy.py:219`);
  what is guaranteed is that it is on record (`DriftOnRecord`), unless its line went by
  while the buffer was dropped (`UnseenHasCause`).
* An answer to a POST in SSE format, a batch, or a body longer than a frame may be is
  parsed as invalid, like one that is too deep: it has a row and is passed on, and is
  not compared with a pin (`BlockedNeverAnswered` is about answers the parser reads),
  where `stdio_proxy` drops a line that is too long. A refusal for a body beyond
  `client_max_size`, and a DELETE, have no row.
* A response that a *client* posts pins the tools it lists: the engine does not ask for
  the direction.
* A `tools/call` that a *server* sends in its answer is evaluated like a client's, but
  only `deny` is carried out (`http_proxy.py:158`): with any other verdict it is handed
  on as it came. In the protocol calls come from clients alone; the refinement is proved
  for servers that keep to it (`ServersSendNoSuchCall`).
* Rows are in the order of evaluation, requests are sent in the order in which the
  session finds a connection; a redirected request is sent twice.
* `append()` may raise with its row committed, when the anchor cannot be written
  (`audit.py:279`): the row says what was decided, and neither the request nor an error
  gets through. `AnsweredByExit` excepts the request at which the pump failed so.
* `parse_frame` says it never raises; `json.loads` may raise `RecursionError`
  (`HandlerRaises`, `EvaluateRaises`).

In redaction:

* The overlap is cut off the text *after* replacement (`policy.py:378-380`): if a
  replacement is shorter than the secret, text behind it is lost, if it is longer, text is
  doubled. `TextIsKept` holds where no secret touches an overlap.
* An overlap that is set to the window's size or more never advances, until the deadline.

## 5. Proofs

TLC checks the instances above; the theorems hold for any number of processes,
entries, keys, tools, rows, lines, nodes and faults. Every safety property of a passing
run is proved. The theorems assume the named assumptions on constants in the modules, and
three of them a hypothesis: `SingleWriterChain` and `DamageAlwaysFlagged` that one
process writes (`SingleWriter`; with two, finding 1), and `ImplementsPromise` of
`HttpProxy_proof` that servers do not send a call that has to be redacted or approved
(`ServersSendNoSuchCall`).

**AuditLog.** `WriterInv` strengthens `AnchorsMatchRows`: at most one transaction is
open (SQLite's write lock), a process between INSERT and COMMIT has its own row at the
end of its transaction and knows its `seq`, a process past COMMIT finds its row in
the table at that `seq`, and so does whoever was returned one. Without the lock's
conjunct it is not inductive: another commit in between would shift the `seq`.
`AnchorsAgree` follows. `TreeInv` extends `RowsFormTree` to what each connection sees
and says that the hash a process has read is the genesis hash or that of a row it
still sees; `RowsAlwaysFormTree` follows. For one process `ChainInv` says that this
hash is the *last* one of the view, which gives `SingleWriterChain`: exactly the
conjunct a second writer breaks. `ImplementsPromise` is the refinement of
`AppendOnlyLog`, step by step: a publishing step appends, a returning step
acknowledges what `WriterInv` says is there, all others stutter. `AnchorsNeverMissing`
adds `CleanInv`, which holds while nothing has failed: a transaction is the one row of a
process between its INSERT and its COMMIT, no anchor line is cut, and a row that is due
for an anchor has it or its writer is about to write it. `DamageAlwaysFlagged` rests on
`SingleWriterChain`: as a hash differs from the one it extends and commits to the body,
a row that is left out breaks the link behind it, and another body its own hash; the rows
before it verify as they did, so that is the first place `verify_chain` reports.

**KeyCustody.** `KeyInv` says who may write a file (only the process that created it,
while its `pc` is at the write), that a process runs only with the pinned public key and the pin
never changes, and that without a keyring whoever reaches the public file wrote the
secret file. From it follow `OnePinnedKey`, `StoredPairAlwaysMatches`,
`RunningPairAlwaysFits` and `FilesNeverClobbered`.

**ToolPins.** `PinInv` has three parts. `SeenInv`: every pin, stored or in memory, was
received, and a drift means that two descriptions were; `DriftCorrect` follows.
`MemoryInv`: what a process scanned without a drift, and what it has shown quietly,
equals its pins; `QuietCorrect` follows, whatever the table holds. `StoreInv` relates
memory and table: while no two processes overlap, the one that runs knows every stored
pin, which is why `INSERT OR REPLACE` replaces nothing (`FinalCorrect`); if also every
pin was stored, its pins *are* the table and the table agrees with everything ever
shown (`DurableCorrect`). The pending transaction is part of it: a commit stores only
pins of the process that commits. Without the condition on processes `QuietForever`
fails, as `pins_shared` shows.

**StdioProxy.** All of its safety properties. `GateInv` says that a row is about a line
that was read and has that line's verdict (`RowsInv`), that the unread tail of a line
has no row yet (`TailInv`: without it two rows could be about one item), that the line
in hand has its row or is blank (`TurnInv`), and that whatever was written, buffered or
not, answers a row (`OutInv`). The verdict on a tail is any, which is why
`PolicyCorrect` says of it that its message has a row that allows its form, and no more.
`WriteStep` does the work once for all actions: a step adds to either side nothing, or
the answer to the line in hand at the end. From it follow `PolicyCorrect` and, with the
mapping of rows and messages, `ImplementsPromise`. `OrderKept` adds `FreshInv`: what was
written is older than the line in hand and than a tail that is still to be read.
`LossExplained` adds `CutInv`: there is a tail only behind an oversized line.
`AllAnswered` adds that a refusal is in hand, answered, the one at which its pump
failed, or the client has gone, and that the proxy stops with no line in hand and exits
with an empty buffer. The size of the pipe is part of `TypeCorrect`.

**HttpProxy.** `SendInv` says that a POST that waits to be sent has its row and may be
sent, whatever the pins have become meanwhile, and that what was sent was such a POST and
is past that point; `PolicyCorrect` follows for any number of POSTs. `PinnedInv` says that
under block a list that a POST is answered with shows what is pinned; as a pin stays once
it is there (`PinStays`, through the stream's scan as well), all such lists agree
(`DriftIsBlocked`). `StreamType` says how the stream's three positions lie to each other
and to the ends of its lines, which are sums of lengths; `TypeCorrect` follows, and with it
the bound on the buffer. `LookInv` says where the buffer may begin: where a line that was
read ends, or within the next one, and then a line that is too long has dropped its
beginning. `UnseenExplained` follows. `ShownInv` traces every list that was shown, by a
reply or by a recorded line of the stream, to the pin or to a drift on record
(`DriftRecorded`). For `ImplementsPromise`, `ServeInv` says whose row a row is (no
frame of a later POST or line has one), and that a POST that waits to be sent or
answered has the row whose verdict allows the form; `Advances` says that no step goes
back. A chunk may complete several lines: their rows are one step of `Gateway`.

**Redaction.** `TypeInv` gives `TypeCorrect`, and that a window other than the first
begins more than the overlap before the string's end. For the windows, `PositionInv` says
that a window begins at the front, or the overlap before a *seam* (an end of a window
inside the string). `OnlySplitSecretsAreShown` follows with `ShownInv`: of a secret that no seam
splits, the part that one window shows is none. For `ScanKeepsText`, `KeptInv` says what
the output is while no secret touches an overlap: what one pass makes of the text up to
the window (`Piece`), whatever lengths secrets and replacement have; the lemmas on
`FlattenSeq` (it may be split where the sequence is) join the pieces. For the depth check,
`MeasureInv` says that every node is measured or below one on the stack, with that
node's level, so that an empty stack means that all are measured (`DepthIsJudged`). For the
walk, `WaitInv` says that a node that was not visited is below exactly one that waits on
the stack, that none waits above a visited one, and that those that wait are in the
order of the walk; with `OrderInv` (what was visited is before what was not) and
`BudgetInv` it gives `WalkCoversArguments`. Paths in the tree are reached by induction
along the parents (`PathsExist`).

**Induction.** The library's induction theorems take a predicate, which the provers
cannot be given. `InductionFacts` states induction for a *set* of numbers instead
(`SetInduction`, and `UpTo` for the numbers up to a node, both from the well-foundedness
of finite sets under inclusion). From it come that a sum defined by recursion exists and
satisfies its equation (`SumDefined`, for the ends of a stream's lines) and that a finite
set of numbers can be listed in order (`ListedInOrder`, for `Children`). `Level` and
`Before` have their equations by the same means.

**Only model-checked**: the six liveness properties (`AppendReturns`,
`ProvisionedComesUp`, `ShutsDown`, `NothingStarves`, `EveryPostReturns`, `StreamFlows`),
because TLAPS proves no liveness under fairness.

## 6. Not modelled

Signatures of rows and anchors (a signature follows its hash), `tail`, the schema
migration; YAML parsing, glob and regular-expression matching (sets, flags and places
stand for their results), several redaction rules on one string; `DELETE`, `/healthz` and
the attestation endpoint of the http proxy, which keep no state and write no rows; URLs
and headers; the command line (`cli.py`) and the enclave's attestation
(`nitro_enclave.py`), which are stateless calls; memory: a `StreamWriter` without
`drain()` never refuses a line (`stdio_proxy.py:106`). A fragment of a stream's line whose
beginning was dropped is taken to be no event.

## 7. Plan

1. done: `AuditLog`, `KeyCustody`, `ToolPins`, `StdioProxy`, `HttpProxy`, `Redaction`,
   `Gateway` as the promise of both proxies, and proofs of all their safety properties.
2. Refinement: `ToolPins` and `HttpProxy` share what a pin promises; an abstract module of
   its own would state it once, and both would be proved to implement it.
3. Anchors: a bound on the lines that faults may lose, checked and proved, where
   `AnchorsComplete` says nothing once something has failed.
