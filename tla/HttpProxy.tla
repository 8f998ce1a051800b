----------------------------- MODULE HttpProxy -----------------------------
(***************************************************************************)
(* http_proxy.HttpProxy: POST handlers and the GET stream as coroutines on *)
(* one event loop, over one policy engine and one audit log.               *)
(*                                                                         *)
(*   client --- POST ---> [evaluate, row] --- toUpstream ---> server       *)
(*   client <-- reply --- [evaluate, row] <-- answer --------- server      *)
(*   client <-- chunks -- [evaluate, rows] <-- events -------- server      *)
(*                                                                         *)
(* A handler runs without interruption from one await to the next: one     *)
(* action.  Between the row of a request and its sending, and between that *)
(* and the answer, the other handlers run.  A crash only stops all of      *)
(* them, in a state that the invariants already cover.  One tool is listed *)
(* (its pin is the state of the policy engine); the classifier and stored  *)
(* pins are in module ToolPins.                                            *)
(***************************************************************************)
EXTENDS Integers, Sequences, FiniteSets, Functions, PolicyRules

CONSTANTS
  Desc,          \* descriptions of the listed tool
  NoPin,         \* it has not been listed yet
  Bodies,        \* what clients may POST
  Answers,       \* what the server may answer a POST with, or send as an event
  Sizes,         \* the lengths of a line of the stream
  Limit,         \* MAX_HTTP_BODY_BYTES, the bound of the stream's buffer
  ChunkSize,     \* the longest chunk that is read from the stream
  MaxPosts,      \* bounds: POSTs;
  MaxFaults,     \*   handlers that raise, and redirects;
  MaxTraffic     \*   POSTs, lines of the stream and faults together

\* "list": a response whose result has tools; "other": any other frame,
\* notification or response, or a body that is no frame (too long, too deep, a
\* batch); "empty": nothing but whitespace.
Frame == [kind : {"call", "list", "other", "empty"},
          tool : Tool, secret : BOOLEAN, desc : Desc]

ASSUME PinAssumption == NoPin \notin Desc
ASSUME FramesAssumption == Bodies \subseteq Frame /\ Answers \subseteq Frame
ASSUME StreamAssumption ==
  Limit \in Nat /\ ChunkSize \in Nat \ {0} /\ Sizes \subseteq Nat \ {0}
ASSUME BoundsAssumption ==
  MaxPosts \in Nat /\ MaxTraffic \in Nat /\ MaxFaults \in Nat

Post == 1..MaxPosts
NoFrame == [kind |-> "none"]

VARIABLES
  block,       \* policy.pinning_on_drift = "block", and not "alert"
  pin,         \* engine._pins of the tool
  rows,        \* the audit log
  pc,          \* per POST: "idle", "sending", "waiting" (for the answer),
               \* "replying", "done"
  request,     \* per POST, its body
  answer,      \* per POST, the server's answer
  reply,       \* per POST, the form of the reply that its handler returned
  toUpstream,  \* the requests as they were sent to the server
  events,      \* the "data:" lines of the stream: the frame that a line is parsed as,
               \* and its size
  base, fed,   \* the buffer holds the bytes of the stream from base to fed
  written,     \* the bytes of the stream the client was given
  stream,      \* the GET handler: "reading", "writing" (a chunk), "over"
  faults

postVars == <<pc, request, answer, reply, toUpstream>>
streamVars == <<events, base, fed, written, stream>>
vars == <<block, pin, rows, postVars, streamVars, faults>>

DataLine == [frame : Frame, size : Sizes]
Item == [at : {"request", "answer", "event"}, n : Nat]
Row == [item : Item, verdict : Verdicts, drift : BOOLEAN]

-----------------------------------------------------------------------------
(* The policy engine *)

\* Mutant: a drifted description becomes the pin.
Repin(frame, current) == IF frame.kind = "list" THEN frame.desc ELSE current

\* The pin after a frame was evaluated, whichever direction it came from.
PinAfter(frame, current) ==
  IF frame.kind = "list" /\ current = NoPin THEN frame.desc ELSE current

Drifts(frame, current) == frame.kind = "list" /\ current \notin {NoPin, frame.desc}

Verdict(frame, current) ==
  IF frame.kind = "call" THEN CallVerdict(frame)
  ELSE IF block /\ Drifts(frame, current) THEN "deny" ELSE "allow"

RowOf(at, n, frame, current) ==
  [item |-> [at |-> at, n |-> n], verdict |-> Verdict(frame, current),
   drift |-> Drifts(frame, current)]

-----------------------------------------------------------------------------
(* POST *)

Init ==
  /\ block \in BOOLEAN
  /\ pin = NoPin
  /\ rows = <<>>
  /\ pc = [p \in Post |-> "idle"]
  /\ request = [p \in Post |-> NoFrame] /\ answer = [p \in Post |-> NoFrame]
  /\ reply = [p \in Post |-> "none"]
  /\ toUpstream = <<>>
  /\ events = <<>>
  /\ base = 0 /\ fed = 0 /\ written = 0
  /\ stream = "reading"
  /\ faults = 0

Started == {p \in Post : pc[p] # "idle"}
Traffic == Cardinality(Started) + Len(events) + faults

Fault == faults < MaxFaults /\ Traffic < MaxTraffic /\ faults' = faults + 1

\* POSTs are numbered in the order their bodies are complete.
Arrives(p) ==
  /\ pc[p] = "idle" /\ \A q \in 1..p - 1 : q \in Started
  /\ Traffic < MaxTraffic

Return(p, form) ==
  pc' = [pc EXCEPT ![p] = "replying"] /\ reply' = [reply EXCEPT ![p] = form]

\* aiohttp writes what a handler returned, or finds that the client has left.
Deliver(p) ==
  /\ pc[p] = "replying"
  /\ pc' = [pc EXCEPT ![p] = "done"]
  /\ UNCHANGED <<block, pin, rows, request, answer, reply, toUpstream, streamVars, faults>>

\* The body exceeds client_max_size: the call is refused without a row.
RefuseLarge(p) ==
  /\ Arrives(p)
  /\ Return(p, "refused")
  /\ UNCHANGED <<block, pin, rows, request, answer, toUpstream, streamVars, faults>>

\* parse_frame, evaluate, audit.append; then a refusal is returned.
Evaluate(p) ==
  /\ Arrives(p)
  /\ \E body \in Bodies :
       /\ request' = [request EXCEPT ![p] = body]
       /\ pin' = PinAfter(body, pin)
       /\ rows' = Append(rows, RowOf("request", p, body, pin))
       /\ IF Verdict(body, pin) \in {"deny", "approval"}
          THEN Return(p, "error")
          ELSE pc' = [pc EXCEPT ![p] = "sending"] /\ UNCHANGED reply
  /\ UNCHANGED <<block, answer, toUpstream, streamVars, faults>>

\* evaluate() or append() raises, before or after its commit (module AuditLog):
\* the client gets a plain 500.
EvaluateRaises(p) ==
  /\ Arrives(p) /\ Fault
  /\ \E body \in Bodies :
       /\ request' = [request EXCEPT ![p] = body]
       /\ pin' = PinAfter(body, pin)
       /\ rows' \in {rows, Append(rows, RowOf("request", p, body, pin))}
  /\ Return(p, "failed")
  /\ UNCHANGED <<block, answer, toUpstream, streamVars>>

\* Mutant: the body is sent as it was received.
SendAsReceived(p) ==
  /\ pc[p] = "sending"
  /\ toUpstream' = Append(toUpstream, [post |-> p, form |-> "original"])
  /\ pc' = [pc EXCEPT ![p] = "waiting"]
  /\ UNCHANGED <<block, pin, rows, request, answer, reply, streamVars, faults>>

\* session.post has a connection.
Send(p) ==
  /\ pc[p] = "sending"
  /\ toUpstream' =
       Append(toUpstream,
              [post |-> p,
               form |-> IF Verdict(request[p], pin) = "redact"
                        THEN "redacted" ELSE "original"])
  /\ pc' = [pc EXCEPT ![p] = "waiting"]
  /\ UNCHANGED <<block, pin, rows, request, answer, reply, streamVars, faults>>

\* The server answers 307 or 308: session.post sends the request once more.
Redirect(p) ==
  /\ pc[p] = "waiting" /\ Fault
  /\ \E m \in Range(toUpstream) : m.post = p /\ toUpstream' = Append(toUpstream, m)
  /\ UNCHANGED <<block, pin, rows, pc, request, answer, reply, streamVars>>

\* Mutant: no timeout.
NoTimeout(p) == FALSE /\ UNCHANGED vars

\* session.post or read raises: the server cannot be reached, resets the
\* connection, or takes longer than the session's timeout.
UpstreamFails(p) ==
  /\ pc[p] \in {"sending", "waiting"}
  /\ Return(p, "failed")
  /\ UNCHANGED <<block, pin, rows, request, answer, toUpstream, streamVars, faults>>

\* Mutant: only a drift is recorded.
RecordDriftOnly(p) ==
  /\ pc[p] = "waiting"
  /\ \E frame \in Answers :
       /\ answer' = [answer EXCEPT ![p] = frame]
       /\ pin' = PinAfter(frame, pin)
       /\ rows' = IF Drifts(frame, pin)
                  THEN Append(rows, RowOf("answer", p, frame, pin)) ELSE rows
       /\ Return(p, IF Verdict(frame, pin) = "deny" THEN "error" ELSE "original")
  /\ UNCHANGED <<block, request, toUpstream, streamVars, faults>>

\* The answer is complete: evaluated against the pins of now, recorded unless it
\* is empty, and handed on unless it is denied.
HandleAnswer(p) ==
  /\ pc[p] = "waiting"
  /\ \E frame \in Answers :
       /\ answer' = [answer EXCEPT ![p] = frame]
       /\ pin' = PinAfter(frame, pin)
       /\ rows' = IF frame.kind = "empty" THEN rows
                  ELSE Append(rows, RowOf("answer", p, frame, pin))
       /\ Return(p, IF Verdict(frame, pin) = "deny" THEN "error" ELSE "original")
  /\ UNCHANGED <<block, request, toUpstream, streamVars, faults>>

\* evaluate() or append() of the answer raises, before or after its commit: the
\* client gets a 500 for a request that was carried out, and the pin stays in
\* memory.
HandleAnswerRaises(p) ==
  /\ pc[p] = "waiting" /\ Fault
  /\ \E frame \in {f \in Answers : f.kind # "empty"} :
       /\ answer' = [answer EXCEPT ![p] = frame]
       /\ pin' = PinAfter(frame, pin)
       /\ rows' \in {rows, Append(rows, RowOf("answer", p, frame, pin))}
  /\ Return(p, "failed")
  /\ UNCHANGED <<block, request, toUpstream, streamVars>>

-----------------------------------------------------------------------------
(* GET: the stream *)

Line == 1..Len(events)
End[i \in Nat] == IF i = 0 THEN 0 ELSE End[i - 1] + events[i].size
Start(i) == End[i - 1]
Complete(to) == Cardinality({i \in Line : End[i] <= to})

\* What the parser makes of a line that holds a part of an event: no frame, and
\* so no description.
Part(event) == [event EXCEPT !.kind = "other", !.desc = CHOOSE d \in Desc : TRUE]

\* The server writes a "data:" line; comments and other fields have no rows.  An
\* event may be spread over several such lines: each of them is parsed for itself.
Emit ==
  /\ stream # "over" /\ Traffic < MaxTraffic
  /\ \E event \in {f \in Answers : f.kind # "empty"}, size \in Sizes :
       \E frame \in {event, Part(event)} :
         events' = Append(events, [frame |-> frame, size |-> size])
  /\ UNCHANGED <<block, pin, rows, postVars, base, fed, written, stream, faults>>

\* Mutant: lines are looked for in the chunk alone.
LineOfChunk ==
  LET i == Complete(fed) + 1 IN IF fed > Start(i) THEN i + 1 ELSE i

\* The first line to end beyond fed, or the one behind it if its beginning was
\* dropped from the buffer: what is left of it does not start with "data:".
FirstWhole ==
  LET i == Complete(fed) + 1 IN IF base > Start(i) THEN i + 1 ELSE i

\* evaluate() on the lines from i to j, in their order: the first list pins, and
\* compared with itself it does not drift.
PinAfterLines(i, j) ==
  LET lists == {k \in i..j : events[k].frame.kind = "list"}
  IN  IF lists = {} THEN pin
      ELSE PinAfter(events[CHOOSE k \in lists : \A l \in lists : k <= l].frame, pin)

\* The rows of the lines from i to j, with the pin as it is then.
LineRows(i, j, current) ==
  [k \in 1..j - i + 1 |-> RowOf("event", i + k - 1, events[i + k - 1].frame, current)]

\* Mutant: what the lines list is not pinned.
AppendUnpinned(i, j) ==
  pin' = pin /\ rows' = rows \o LineRows(i, j, pin)

AppendLines(i, j) ==
  pin' = PinAfterLines(i, j) /\ rows' = rows \o LineRows(i, j, pin')

\* Mutant: the buffer is measured before it grows.
OverflowsLate(to) == fed - base > Limit

Overflows(to) == to - base > Limit

\* Mutant: full chunks only.
FullChunks == {ChunkSize}

\* The sizes of a chunk that iter_chunked returns.
Chunks == 1..ChunkSize

\* A chunk goes to the buffer, which is dropped if it grows beyond its limit; the
\* lines that are now complete are evaluated and recorded.
Scan ==
  /\ stream = "reading"
  /\ \E size \in Chunks :
       LET to == fed + size IN
       /\ to <= End[Len(events)]
       /\ fed' = to
       /\ IF Overflows(to)
          THEN base' = to /\ UNCHANGED <<pin, rows>>
          ELSE /\ AppendLines(FirstWhole, Complete(to))
               /\ base' = IF Complete(to) = Complete(fed) THEN base ELSE End[Complete(to)]
  /\ stream' = "writing"
  /\ UNCHANGED <<block, postVars, events, written, faults>>

\* evaluate() or append() raises at line i, and ends the stream: the lines before
\* it, and perhaps line i, have their rows, and the chunk is not written.
ScanRaises ==
  /\ stream = "reading" /\ Fault
  /\ \E size \in Chunks :
       LET to == fed + size IN
       /\ to <= End[Len(events)] /\ ~Overflows(to)
       /\ \E i \in FirstWhole..Complete(to) :
            /\ pin' = PinAfterLines(FirstWhole, i)
            /\ \E j \in {i - 1, i} : rows' = rows \o LineRows(FirstWhole, j, pin')
  /\ stream' = "over"
  /\ UNCHANGED <<block, postVars, events, base, fed, written>>

\* Whatever was decided, the chunk is written.
WriteChunk ==
  /\ stream = "writing"
  /\ written' = fed
  /\ stream' = "reading"
  /\ UNCHANGED <<block, pin, rows, postVars, events, base, fed, faults>>

\* The server ends the stream, the session's timeout cuts it, or the client
\* has left and the write raises.
StreamEnds ==
  /\ stream # "over"
  /\ stream' = "over"
  /\ UNCHANGED <<block, pin, rows, postVars, events, base, fed, written, faults>>

-----------------------------------------------------------------------------

HandlePost(p) ==
  \/ RefuseLarge(p) \/ Evaluate(p) \/ EvaluateRaises(p)
  \/ Send(p) \/ Redirect(p) \/ UpstreamFails(p)
  \/ HandleAnswer(p) \/ HandleAnswerRaises(p) \/ Deliver(p)

HandleGet == Scan \/ ScanRaises \/ WriteChunk \/ StreamEnds

Next == (\E p \in Post : HandlePost(p)) \/ Emit \/ HandleGet

Spec == Init /\ [][Next]_vars

\* The event loop runs what is ready; the session of aiohttp has a timeout; and
\* the client of the stream reads what it is sent.  The server need not answer,
\* and the stream need not end.
FairSpec ==
  /\ Spec
  /\ \A p \in Post : WF_vars(UpstreamFails(p)) /\ WF_vars(Deliver(p))
  /\ WF_vars(Scan \/ WriteChunk)

-----------------------------------------------------------------------------
(* Properties *)

\* Every variable has its type, and the stream's positions their order.
TypeOK ==
  /\ block \in BOOLEAN /\ pin \in Desc \cup {NoPin}
  /\ rows \in Seq(Row)
  /\ pc \in [Post -> {"idle", "sending", "waiting", "replying", "done"}]
  /\ request \in [Post -> Bodies \cup {NoFrame}]
  /\ answer \in [Post -> Answers \cup {NoFrame}]
  /\ reply \in [Post -> {"none", "refused", "error", "failed", "original"}]
  /\ toUpstream \in Seq([post : Post, form : {"original", "redacted"}])
  /\ events \in Seq(DataLine)
  /\ base \in Nat /\ fed \in Nat /\ written \in Nat
  /\ base <= fed /\ written <= fed /\ fed <= End[Len(events)]
  /\ fed - base <= Limit
  /\ stream \in {"reading", "writing", "over"}
  /\ faults \in 0..MaxFaults

Recorded(at, n, verdicts) ==
  \E row \in Range(rows) :
    row.item = [at |-> at, n |-> n] /\ row.verdict \in verdicts

\* Whatever runs between the row of a request and its sending: no denied or gated
\* call reaches the server in any form, and no secret but redacted, though it is
\* redirected; and each request it gets has its row.
PolicyUpheld ==
  \A m \in Range(toUpstream) :
    LET body == request[m.post] IN
    /\ Recorded("request", m.post, {"allow", "redact"})
    /\ body.kind = "call" =>
         ~Refused(body) /\ (Redacted(body) <=> m.form = "redacted")

IsList(frame) == frame # NoFrame /\ frame.kind = "list"
ListsReplied ==
  {p \in Post : pc[p] = "done" /\ reply[p] = "original" /\ IsList(answer[p])}
ListsStreamed == {i \in Line : End[i] <= written /\ IsList(events[i].frame)}
DescsReplied == {answer[p].desc : p \in ListsReplied}
DescsShown == DescsReplied \cup {events[i].frame.desc : i \in ListsStreamed}

\* When drift is blocked, all lists that POSTs were answered with carry one
\* description, whichever order they were asked for and came in, and whatever
\* failed in between.  An answer in which the parser finds no list (one in the
\* format of a stream, a batch) is not a list here, though a client may read one.
BlockedNeverAnswered ==
  block => \A c, d \in DescsReplied : c = d

\* A description that changed under the eyes of the clients, by replies or by the
\* stream, is on record as a drift, unless a list of the stream went unseen.  The
\* lists of the stream are those on one "data:" line: of a list that is spread over
\* several lines of its event, which clients join and the proxy does not, nothing
\* is promised.
DriftOnRecord ==
  (\E c, d \in DescsShown : c # d) =>
    \/ \E row \in Range(rows) : row.drift
    \/ \E i \in ListsStreamed : ~Recorded("event", i, Verdicts)

\* A line of the stream is shown without a row only if a line before it, or
\* itself, filled the buffer, and it is in the chunk that did.
UnseenHasCause ==
  \A i \in Line :
    End[i] <= written /\ ~Recorded("event", i, Verdicts) =>
      \E j \in 1..i : /\ events[j].size > Limit - ChunkSize + 1
                      /\ Start(i) < End[j] + ChunkSize

Requests == {[item |-> [at |-> "request", n |-> m.post], form |-> m.form] :
               m \in Range(toUpstream)}
Replies ==
  {[item |-> [at |-> IF answer[p] = NoFrame THEN "request" ELSE "answer", n |-> p],
    form |-> reply[p]] :
     p \in {q \in Post : /\ pc[q] = "done" /\ reply[q] \in {"error", "original"}
                         /\ answer[q] = NoFrame \/ answer[q].kind # "empty"}}

\* The firewall's promise: no frame has two rows, whether of a POST or of the
\* stream, and what a POST sends to the server or back follows its row, in the
\* form the row's verdict allows.
Promise == INSTANCE Gateway WITH
  rows <- [i \in 1..Len(rows) |-> [item |-> rows[i].item, verdict |-> rows[i].verdict]],
  passed <- Requests \cup Replies
KeepsPromise == Promise!Spec

InFlight == {p \in Post : pc[p] \notin {"idle", "done"}}

\* POSTs return, even if the server never answers: once no more come, none is
\* in flight.
EveryPostReturns == InFlight # {} ~> InFlight = {}

\* What the server emits is shown to a client that reads: once the server pauses,
\* no part of a line waits for the next one, unless the stream is over.
StreamFlows == written < End[Len(events)] ~> written = End[Len(events)] \/ stream = "over"
=============================================================================
