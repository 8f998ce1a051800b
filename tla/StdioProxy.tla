----------------------------- MODULE StdioProxy -----------------------------
(***************************************************************************)
(* stdio_proxy.StdioProxy: two pumps on one event loop between a client    *)
(* and the upstream server it spawned.                                     *)
(*                                                                         *)
(*   client --- sent["c2s"] ---> [pump] --- toServer ---> server           *)
(*   client <-- toClient <-- buffer <-- [pump] <-- sent["s2c"] --- server  *)
(*                                                                         *)
(* A handler runs from the end of one readuntil() to the next without an   *)
(* await, so the pumps alternate in whole handlers (variable turn); but    *)
(* the process may be killed within one, between the audit row and the     *)
(* write.  A line is its direction and its place in what was sent.         *)
(***************************************************************************)
EXTENDS Integers, Sequences, Functions, PolicyRules

CONSTANTS
  Frames,                    \* per direction, the lines its source may send
  BufferSize,                \* messages sys.stdout.buffer holds before it spills
  PipeSize,                  \* messages the pipe to the client holds unread
  MaxSent,                   \* bound: lines sent, in both directions together
  MaxFaults                  \* bound: handlers that raise, and kills

Dir == {"c2s", "s2c"}

\* "call": a tools/call request; "drifted": a tools/list result that drifted
\* under a policy that blocks (module ToolPins); "other": any other frame or
\* non-JSON line; a line is oversized beyond MAX_FRAME_BYTES.  secret: a
\* redaction rule matches in the arguments.
Line == [kind : {"call", "drifted", "other", "blank", "oversized"},
         tool : Tool, secret : BOOLEAN]

ASSUME FramesAssumption == Frames \in [Dir -> SUBSET Line]
ASSUME BoundsAssumption ==
  /\ BufferSize \in Nat \ {0} /\ PipeSize \in Nat /\ BufferSize <= PipeSize
  /\ MaxSent \in Nat /\ MaxFaults \in Nat

VARIABLES
  sent,        \* per direction, the lines its source wrote
  eof,         \* per direction, the source closed its end
  gone,        \* the client no longer reads
  child,       \* the upstream process: "running" or "exited"
  taken,       \* per direction, the lines read so far
  cut,         \* per direction, the tail of the last line taken is still unread
  turn,        \* the row of the handler that is running, or Idle
  pump,        \* per direction: "reading", "ended" or "failed"
  audit,       \* the rows appended
  toServer,    \* what was written to the server
  buffer,      \* what was written to sys.stdout.buffer and not flushed
  toClient,    \* what was written to the pipe to the client
  seen,        \* how much of that the client has read
  status,      \* run(): "running", "stopping", "exited"; or "killed"
  faults

pipeVars == <<sent, eof, gone>>
readVars == <<taken, cut>>
outVars == <<toServer, buffer, toClient>>
vars == <<pipeVars, seen, child, readVars, turn, pump, audit, outVars, status, faults>>

Forms == {"verbatim", "blank", "redacted", "error"}

\* whole: the line was read from its first byte on; otherwise it is the tail of
\* a line, which the pump takes for a line.
Row == [dir : Dir, n : Nat, whole : BOOLEAN, verdict : Verdicts]
Turn == [dir : Dir, n : Nat, whole : BOOLEAN, verdict : Verdicts \cup {"blank"}]
Message == [dir : Dir, n : Nat, whole : BOOLEAN, form : Forms]
Idle == [dir |-> "c2s", n |-> 0, whole |-> TRUE, verdict |-> "allow"]

-----------------------------------------------------------------------------
(* The policy *)

\* PolicyEngine.evaluate.
Verdict(line) ==
  IF line.kind = "call" THEN CallVerdict(line)
  ELSE IF line.kind = "drifted" THEN "deny" ELSE "allow"

-----------------------------------------------------------------------------
(* The client and the server *)

Init ==
  /\ sent = [d \in Dir |-> <<>>]
  /\ eof = [d \in Dir |-> FALSE]
  /\ gone = FALSE
  /\ seen = 0
  /\ child = "running"
  /\ taken = [d \in Dir |-> 0]
  /\ cut = [d \in Dir |-> FALSE]
  /\ turn = Idle
  /\ pump = [d \in Dir |-> "reading"]
  /\ audit = <<>>
  /\ toServer = <<>> /\ buffer = <<>> /\ toClient = <<>>
  /\ status = "running"
  /\ faults = 0

proxyVars == <<readVars, turn, pump, audit, outVars, status, faults>>

Send(d) ==
  /\ ~eof[d] /\ Len(sent["c2s"]) + Len(sent["s2c"]) < MaxSent
  /\ \E line \in Frames[d] : sent' = [sent EXCEPT ![d] = Append(@, line)]
  /\ UNCHANGED <<eof, gone, seen, child, proxyVars>>

Close(d) ==
  /\ ~eof[d]
  /\ eof' = [eof EXCEPT ![d] = TRUE]
  /\ UNCHANGED <<sent, gone, seen, child, proxyVars>>

ClientReads ==
  /\ ~gone /\ seen < Len(toClient)
  /\ seen' = seen + 1
  /\ UNCHANGED <<pipeVars, child, proxyVars>>

ClientLeaves ==
  /\ ~gone /\ gone' = TRUE
  /\ eof' = [eof EXCEPT !["c2s"] = TRUE]
  /\ UNCHANGED <<sent, seen, child, proxyVars>>

ChildExits ==
  /\ child = "running" /\ child' = "exited"
  /\ eof' = [eof EXCEPT !["s2c"] = TRUE]
  /\ UNCHANGED <<sent, gone, seen, proxyVars>>

-----------------------------------------------------------------------------
(* A pump *)

Reading(d) == status = "running" /\ turn = Idle /\ pump[d] = "reading"
NextAt(d) == IF cut[d] THEN taken[d] ELSE taken[d] + 1
NextLine(d) == sent[d][NextAt(d)]
Available(d) == cut[d] \/ taken[d] < Len(sent[d])
Fault == faults < MaxFaults /\ faults' = faults + 1

\* What evaluate() says of what the next readuntil() returns: of the rest of a
\* line that was cut, whose bytes may be a frame of any kind or none, anything.
Judgements(d) == IF cut[d] THEN Verdicts ELSE {Verdict(NextLine(d))}

NextRow(d, verdict) ==
  [dir |-> d, n |-> NextAt(d), whole |-> ~cut[d], verdict |-> verdict]

\* A tail may be blank, and is oversized only if its line was.
Blank(d) == Available(d) /\ (cut[d] \/ NextLine(d).kind = "blank")
Oversized(d) == Available(d) /\ NextLine(d).kind = "oversized"
Parsable(d) ==
  Available(d) /\ (cut[d] \/ NextLine(d).kind \notin {"blank", "oversized"})

\* parse_frame, evaluate, audit.append.
Handle(d) ==
  /\ Reading(d) /\ Parsable(d)
  /\ \E verdict \in Judgements(d) :
       /\ turn' = NextRow(d, verdict)
       /\ audit' = Append(audit, NextRow(d, verdict))
  /\ taken' = [taken EXCEPT ![d] = NextAt(d)]
  /\ cut' = [cut EXCEPT ![d] = FALSE]
  /\ UNCHANGED <<pipeVars, seen, child, pump, outVars, status, faults>>

\* Mutant: the exception is caught and the pump goes on.
HandlerSkips(d) ==
  /\ Reading(d) /\ Parsable(d)
  /\ Fault
  /\ taken' = [taken EXCEPT ![d] = NextAt(d)]
  /\ cut' = [cut EXCEPT ![d] = FALSE]
  /\ UNCHANGED <<pipeVars, seen, child, turn, pump, audit, outVars, status>>

\* Mutant: the exception is caught and the line is passed on.
HandlerPassesOn(d) ==
  /\ Reading(d) /\ Parsable(d)
  /\ Fault
  /\ \E verdict \in Judgements(d) : turn' = NextRow(d, verdict)
  /\ taken' = [taken EXCEPT ![d] = NextAt(d)]
  /\ cut' = [cut EXCEPT ![d] = FALSE]
  /\ UNCHANGED <<pipeVars, seen, child, pump, audit, outVars, status>>

\* evaluate() or append() raises: the exception ends the pump.  A pin that cannot
\* be stored, or a busy database, leaves no row; but append() also raises when it
\* cannot write the anchor of a row that is committed, and a row whose commit was
\* busy is published by the other pump's next one (module AuditLog).
HandlerRaises(d) ==
  /\ Reading(d) /\ Parsable(d)
  /\ Fault
  /\ \/ UNCHANGED audit
     \/ \E verdict \in Judgements(d) : audit' = Append(audit, NextRow(d, verdict))
  /\ taken' = [taken EXCEPT ![d] = NextAt(d)]
  /\ cut' = [cut EXCEPT ![d] = FALSE]
  /\ pump' = [pump EXCEPT ![d] = "failed"]
  /\ UNCHANGED <<pipeVars, seen, child, turn, outVars, status>>

\* dst_write of the pump towards the server: a StreamWriter, which discards
\* what is written after the process has gone.
WriteToServer(message) ==
  /\ toServer' = IF child = "running" THEN Append(toServer, message) ELSE toServer
  /\ UNCHANGED <<buffer, toClient, pump>>

\* Writing to the client blocks the event loop, with both pumps, until the pipe
\* has room.
HasRoom(n) == Len(toClient) - seen + n <= PipeSize

\* dst_write of the pump towards the client: write and flush, which raises when
\* the client has gone; what waits in the buffer goes first (Flush).
WriteToClient(message) ==
  /\ IF gone
     THEN /\ buffer' = Append(buffer, message)
          /\ pump' = [pump EXCEPT !["s2c"] = "failed"]
          /\ UNCHANGED toClient
     ELSE /\ buffer = <<>> /\ HasRoom(1)
          /\ toClient' = Append(toClient, message)
          /\ UNCHANGED <<buffer, pump>>
  /\ UNCHANGED toServer

Write(d, message) ==
  IF d = "c2s" THEN WriteToServer(message) ELSE WriteToClient(message)

\* Mutant: a full buffer is passed by.
ErrorPassesBuffer(message) ==
  /\ IF Len(buffer) < BufferSize
     THEN buffer' = Append(buffer, message) /\ UNCHANGED toClient
     ELSE toClient' = Append(toClient, message) /\ UNCHANGED buffer
  /\ UNCHANGED <<pump, toServer>>

\* error_back: write(...) or flush().  write() returns the number of bytes, so
\* flush() is not called; what is buffered leaves when the buffer is full.
ErrorBack(message) ==
  /\ IF Len(buffer) < BufferSize
     THEN buffer' = Append(buffer, message) /\ UNCHANGED <<toClient, pump>>
     ELSE IF gone
     THEN /\ pump' = [pump EXCEPT !["c2s"] = "failed"]
          /\ UNCHANGED <<buffer, toClient>>
     ELSE /\ HasRoom(Len(buffer))
          /\ toClient' = toClient \o buffer
          /\ buffer' = <<message>>
          /\ UNCHANGED pump
  /\ UNCHANGED toServer

Finish(d) ==
  /\ status = "running" /\ turn # Idle /\ turn.dir = d
  /\ turn' = Idle
  /\ UNCHANGED <<pipeVars, seen, child, readVars, audit, status, faults>>

As(form) == [dir |-> turn.dir, n |-> turn.n, whole |-> turn.whole, form |-> form]
Refuses(row) == row.verdict \in {"deny", "approval"}

Flush ==
  /\ status = "running" /\ turn # Idle /\ turn.dir = "s2c" /\ ~Refuses(turn)
  /\ ~gone /\ buffer # <<>> /\ HasRoom(Len(buffer))
  /\ toClient' = toClient \o buffer /\ buffer' = <<>>
  /\ UNCHANGED <<pipeVars, seen, child, readVars, turn, pump, audit, toServer, status, faults>>

Forward(d) ==
  Finish(d) /\ turn.verdict = "allow" /\ Write(d, As("verbatim"))

ForwardRedacted(d) ==
  Finish(d) /\ turn.verdict = "redact" /\ Write(d, As("redacted"))

AnswerRefusal ==
  Finish("c2s") /\ Refuses(turn) /\ ErrorBack(As("error"))

\* Towards the client an error is never injected: the line is dropped.
DropRefused ==
  Finish("s2c") /\ Refuses(turn) /\ UNCHANGED <<pump, outVars>>

\* A blank line is passed on without an audit row.
HandleBlank(d) ==
  /\ Reading(d) /\ Blank(d)
  /\ turn' = NextRow(d, "blank")
  /\ taken' = [taken EXCEPT ![d] = NextAt(d)]
  /\ cut' = [cut EXCEPT ![d] = FALSE]
  /\ UNCHANGED <<pipeVars, seen, child, pump, audit, outVars, status, faults>>

ForwardBlank(d) ==
  Finish(d) /\ turn.verdict = "blank" /\ Write(d, As("blank"))

\* Mutants: the drain looks for a newline too many; or waits for the next line.
DrainTooFar(d) ==
  /\ Reading(d) /\ Oversized(d)
  /\ \E k \in NextAt(d) .. Len(sent[d]), tail \in BOOLEAN :
       /\ taken' = [taken EXCEPT ![d] = k + 1]
       /\ cut' = [cut EXCEPT ![d] = tail]
  /\ UNCHANGED <<pipeVars, seen, child, turn, pump, audit, outVars, status, faults>>

DrainWaits(d) ==
  /\ Reading(d) /\ Oversized(d)
  /\ \E k \in NextAt(d) + 1 .. Len(sent[d]), tail \in BOOLEAN :
       /\ taken' = [taken EXCEPT ![d] = k]
       /\ cut' = [cut EXCEPT ![d] = tail]
  /\ UNCHANGED <<pipeVars, seen, child, turn, pump, audit, outVars, status, faults>>

\* An oversized line: _drain_oversized() reads chunks until one has a newline.
\* The last chunk may hold lines behind the oversized one and a part of the
\* next; or the drain gives up within the line.  So lines up to some k are
\* dropped, and the tail of k may be left to be read.
Drain(d) ==
  /\ Reading(d) /\ Oversized(d)
  /\ \E k \in NextAt(d) .. Len(sent[d]), tail \in BOOLEAN :
       /\ taken' = [taken EXCEPT ![d] = k]
       /\ cut' = [cut EXCEPT ![d] = tail]
  /\ UNCHANGED <<pipeVars, seen, child, turn, pump, audit, outVars, status, faults>>

PumpEnds(d) ==
  /\ Reading(d) /\ ~Available(d) /\ eof[d]
  /\ pump' = [pump EXCEPT ![d] = "ended"]
  /\ UNCHANGED <<pipeVars, seen, child, readVars, turn, audit, outVars, status, faults>>

-----------------------------------------------------------------------------
(* run() *)

\* Mutant: wait for all tasks instead of the first.
StopWhenAllDone ==
  /\ status = "running" /\ turn = Idle
  /\ (\A d \in Dir : pump[d] # "reading") /\ child = "exited"
  /\ status' = "stopping"
  /\ UNCHANGED <<pipeVars, seen, child, readVars, turn, pump, audit, outVars, faults>>

\* wait(FIRST_COMPLETED) returns: the pumps are cancelled, at an await, and the
\* child is told to terminate.
Stop ==
  /\ status = "running" /\ turn = Idle
  /\ (\E d \in Dir : pump[d] # "reading") \/ child = "exited"
  /\ status' = "stopping"
  /\ UNCHANGED <<pipeVars, seen, child, readVars, turn, pump, audit, outVars, faults>>

\* Mutant: the process leaves without flushing.
ExitUnflushed ==
  /\ status = "stopping" /\ child = "exited"
  /\ status' = "exited"
  /\ UNCHANGED <<pipeVars, seen, child, readVars, turn, pump, audit, outVars, faults>>

\* run() returns once the child is gone, and the interpreter flushes stdout.
Exit ==
  /\ status = "stopping" /\ child = "exited"
  /\ status' = "exited"
  /\ IF gone THEN UNCHANGED <<buffer, toClient>>
     ELSE HasRoom(Len(buffer)) /\ buffer' = <<>> /\ toClient' = toClient \o buffer
  /\ UNCHANGED <<pipeVars, seen, child, readVars, turn, pump, audit, toServer, faults>>

\* The process is killed; its buffer is lost and the pipes close.
Kill ==
  /\ status \in {"running", "stopping"}
  /\ Fault
  /\ status' = "killed"
  /\ UNCHANGED <<pipeVars, seen, child, readVars, turn, pump, audit, outVars>>

Respond(d) ==
  \/ Forward(d) \/ ForwardRedacted(d) \/ ForwardBlank(d)
  \/ d = "c2s" /\ AnswerRefusal
  \/ d = "s2c" /\ (Flush \/ DropRefused)

Pump(d) ==
  Handle(d) \/ HandleBlank(d) \/ Respond(d) \/ Drain(d) \/ PumpEnds(d)

Environment ==
  (\E d \in Dir : Send(d) \/ Close(d)) \/ ClientReads \/ ClientLeaves \/ ChildExits

Next ==
  \/ Environment
  \/ \E d \in Dir : Pump(d) \/ HandlerRaises(d)
  \/ Stop \/ Exit \/ Kill

Spec == Init /\ [][Next]_vars

\* The event loop runs what is ready, and a child that was told to terminate
\* does.  Neither side need ever send, close or exit; but a client that stays
\* reads what it is sent: nothing in the proxy guards against one that does not.
FairSpec ==
  /\ Spec
  /\ \A d \in Dir : WF_vars(Pump(d))
  /\ WF_vars(ClientReads)
  /\ WF_vars(Stop \/ Exit \/ (status = "stopping" /\ ChildExits))

-----------------------------------------------------------------------------
(* Properties *)

\* Every variable has its type, and no pump is ahead of its source.
TypeOK ==
  /\ sent \in [Dir -> Seq(Line)] /\ eof \in [Dir -> BOOLEAN] /\ gone \in BOOLEAN
  /\ child \in {"running", "exited"}
  /\ taken \in [Dir -> Nat] /\ cut \in [Dir -> BOOLEAN]
  /\ \A d \in Dir : taken[d] <= Len(sent[d]) /\ (cut[d] => taken[d] > 0)
  /\ turn \in Turn
  /\ pump \in [Dir -> {"reading", "ended", "failed"}]
  /\ audit \in Seq(Row)
  /\ toServer \in Seq(Message) /\ buffer \in Seq(Message)
  /\ toClient \in Seq(Message)
  /\ seen \in 0..Len(toClient) /\ Len(toClient) - seen <= PipeSize
  /\ status \in {"running", "stopping", "exited", "killed"}
  /\ faults \in 0..MaxFaults

ForClient == toClient \o buffer
Written == Range(toServer) \cup Range(ForClient)
HasRow(d, n, whole, verdicts) ==
  \E row \in Range(audit) :
    row.dir = d /\ row.n = n /\ row.whole = whole /\ row.verdict \in verdicts

\* The verdicts that allow a form.
Allowing == [verbatim |-> {"allow"}, redacted |-> {"redact"},
             error |-> {"deny", "approval"}]

\* "Frames that violate policy never reach the destination": of a line that was
\* read whole, nothing but an error leaves the proxy if it is a denied or gated
\* call or a drifted list, and nothing but an error or the redacted form if it is
\* a call with a secret; only what was refused is answered with an error; and
\* each message, that of a tail too, has the row that allows its form, whatever
\* is killed, fails to be appended or was left of an oversized line.  Of a tail
\* it says no more: a tail is judged by its own bytes, so that the end of a line
\* that would have been refused or redacted, or of an oversized one ("never
\* forward it"), may be passed on.
PolicyUpheld ==
  \A m \in Written :
    LET line == sent[m.dir][m.n]
        call == line.kind = "call"
        refused == (call /\ Refused(line)) \/ line.kind = "drifted" IN
    /\ m.form # "blank" => HasRow(m.dir, m.n, m.whole, Allowing[m.form])
    /\ m.whole => /\ refused <=> m.form = "error"
                  /\ call /\ Redacted(line) => m.form \in {"redacted", "error"}

Ascending(out) ==
  \A i, j \in 1..Len(out) : i < j /\ out[i].dir = out[j].dir => out[i].n < out[j].n

\* Each side sees the lines of the other in the order they were sent, and the
\* client the answers to its refused requests in the order of the requests;
\* nothing is sent twice, and nothing reaches a side that is not meant for it.
InOrder ==
  /\ Ascending(toServer) /\ Ascending(ForClient)
  /\ \A m \in Range(toServer) : m.dir = "c2s" /\ m.form # "error"
  /\ \A m \in Range(ForClient) : m.dir = "s2c" \/ m.form = "error"

\* Line n was read and left neither a row nor, being blank, a need for one.
Lost(d, n) ==
  /\ n <= taken[d] /\ sent[d][n].kind # "blank"
  /\ ~ \E verdict \in Verdicts : HasRow(d, n, TRUE, {verdict})

\* No line is lost but an oversized one, those behind it, and the one at which
\* the pump failed.
LossHasCause ==
  \A d \in Dir : \A n \in 1..Len(sent[d]) :
    Lost(d, n) => \/ \E m \in 1..n : sent[d][m].kind = "oversized"
                  \/ pump[d] = "failed" /\ n = taken[d]

\* Once the proxy has left in an orderly way, a client that still reads has an
\* error for each request, or tail, whose row refuses it; but for the one at which
\* the pump failed, which may have its row and no answer.
AnsweredByExit ==
  status = "exited" /\ ~gone =>
    \A row \in Range(audit) :
      row.dir = "c2s" /\ Refuses(row) =>
        \/ [dir |-> "c2s", n |-> row.n, whole |-> row.whole, form |-> "error"]
             \in Range(toClient)
        \/ pump["c2s"] = "failed" /\ row.n = taken["c2s"]

FormOf(m) == IF m.form = "verbatim" THEN "original" ELSE m.form

\* The pumps keep the firewall's promise: what they pass on, or answer, follows
\* its one row, in the form the row's verdict allows; blank lines have no rows.
Promise == INSTANCE Gateway WITH
  rows <- [i \in 1..Len(audit) |->
             [item |-> <<audit[i].dir, audit[i].n, audit[i].whole>>,
              verdict |-> audit[i].verdict]],
  passed <- {[item |-> <<m.dir, m.n, m.whole>>, form |-> FormOf(m)] :
               m \in {w \in Written : w.form # "blank"}}
KeepsPromise == Promise!Spec

Over == status \in {"exited", "killed"}

\* When the client closes its end, the server exits or a pump fails, the proxy
\* ends.
ShutsDown ==
  /\ eof["c2s"] ~> Over
  /\ child = "exited" ~> Over
  /\ (\E d \in Dir : pump[d] = "failed") ~> Over

\* While the proxy runs, each line that is sent is read: neither pump starves
\* the other.
NothingStarves ==
  \A d \in Dir : \A n \in 1..MaxSent :
    Len(sent[d]) >= n ~> taken[d] >= n \/ status # "running"

\* "the proxy synthesizes a JSON-RPC error response back to the client
\* instead": a client that waits for the answer to a refused request gets it.
RefusedIsAnswered ==
  \A n \in 1..MaxSent :
    HasRow("c2s", n, TRUE, {"deny", "approval"})
      ~> \/ [dir |-> "c2s", n |-> n, whole |-> TRUE, form |-> "error"]
              \in Range(toClient)
         \/ gone \/ status # "running"

\* "we drain the rest of the offending line + drop it": only oversized lines are
\* dropped.
OnlyOversizedDropped ==
  \A d \in Dir : \A n \in 1..Len(sent[d]) :
    Lost(d, n) => sent[d][n].kind = "oversized" \/ pump[d] = "failed"
=============================================================================
