--------------------------- MODULE HttpProxy_proof ---------------------------
(***************************************************************************)
(* Theorems about HttpProxy, for any policy, any bodies and answers, any   *)
(* number of POSTs and any interleaving of them with the stream.           *)
(***************************************************************************)
EXTENDS HttpProxy, SequenceFacts, InductionFacts

-----------------------------------------------------------------------------
(* Types, of what the POSTs use *)

Asked == [post : Post, form : {"original", "redacted"}]

PostType ==
  /\ rows \in Seq(Row)
  /\ pc \in [Post -> {"idle", "sending", "waiting", "replying", "done"}]
  /\ request \in [Post -> Bodies \cup {NoFrame}]
  /\ answer \in [Post -> Answers \cup {NoFrame}]
  /\ reply \in [Post -> {"none", "refused", "error", "failed", "original"}]
  /\ toUpstream \in Seq(Asked)
  /\ events \in Seq(DataLine)

\* The row of a frame is a row.
LEMMA RowType ==
  ASSUME NEW at \in {"request", "answer", "event"}, NEW n \in Nat, NEW frame, NEW current
  PROVE  RowOf(at, n, frame, current) \in Row
<1>1. Verdict(frame, current) \in Verdicts
  BY DEF Verdict, CallVerdict, Verdicts
<1>2. Drifts(frame, current) \in BOOLEAN
  BY DEF Drifts
<1>3. QED
  BY <1>1, <1>2 DEF RowOf, Row, Item

\* Positions in the stream are numbers.
LEMMA CompleteType ==
  ASSUME NEW to, Len(events) \in Nat
  PROVE  Complete(to) \in Nat
<1>1. IsFiniteSet(Line)
  BY FS_Interval DEF Line
<1>2. {i \in Line : End[i] <= to} \subseteq Line
  OBVIOUS
<1>3. QED
  BY <1>1, <1>2, FS_Subset, FS_CardinalityType DEF Complete

\* The rows of the lines of the stream are rows.
LEMMA LineRowsType ==
  ASSUME NEW i \in Nat, i >= 1, NEW j \in Int, NEW current
  PROVE  LineRows(i, j, current) \in Seq(Row)
<1> DEFINE n == IF j - i + 1 >= 0 THEN j - i + 1 ELSE 0
<1>1. n \in Nat /\ 1..j - i + 1 = 1..n
  OBVIOUS
<1>2. ASSUME NEW k \in 1..n
      PROVE  RowOf("event", i + k - 1, events[i + k - 1].frame, current) \in Row
  <2>1. i + k - 1 \in Nat
    BY <1>1
  <2>2. QED
    BY <2>1, RowType
<1>3. LineRows(i, j, current) \in [1..n -> Row]
  BY <1>1, <1>2 DEF LineRows
<1>4. QED
  BY <1>1, <1>3

\* The stream adds rows, and leaves a pin as it is.
LEMMA StreamRecords ==
  ASSUME PostType, Scan \/ ScanRaises
  PROVE  /\ rows' \in Seq(Row) /\ Range(rows) \subseteq Range(rows')
         /\ pin # NoPin => pin' = pin
<1>1. \A to : Complete(to) \in Nat
  <2>1. Len(events) \in Nat
    BY DEF PostType
  <2>2. QED
    BY <2>1, CompleteType
<1>2. FirstWhole \in Nat /\ FirstWhole >= 1
  BY <1>1 DEF FirstWhole
<1>3. ASSUME NEW i \in Int, NEW j \in Int, pin # NoPin PROVE PinAfterLines(i, j) = pin
  BY <1>3 DEF PinAfterLines, PinAfter
<1>4. ASSUME NEW j \in Int, rows' = rows \o LineRows(FirstWhole, j, pin')
      PROVE  rows' \in Seq(Row) /\ Range(rows) \subseteq Range(rows')
  <2>1. LineRows(FirstWhole, j, pin') \in Seq(Row)
    BY <1>2, LineRowsType
  <2>2. rows \in Seq(Row)
    BY DEF PostType
  <2>3. QED
    BY <1>4, <2>1, <2>2, ConcatGrows
<1>5. CASE Scan
  <2>1. \/ UNCHANGED <<pin, rows>>
        \/ \E to : AppendLines(FirstWhole, Complete(to))
    BY <1>5 DEF Scan
  <2>2. CASE UNCHANGED <<pin, rows>>
    BY <2>2 DEF PostType
  <2>3. CASE \E to : AppendLines(FirstWhole, Complete(to))
    <3>1. PICK to : AppendLines(FirstWhole, Complete(to))
      BY <2>3
    <3>2. Complete(to) \in Int /\ FirstWhole \in Int
      BY <1>1, <1>2
    <3>3. /\ pin' = PinAfterLines(FirstWhole, Complete(to))
          /\ rows' = rows \o LineRows(FirstWhole, Complete(to), pin')
      BY <3>1 DEF AppendLines
    <3>4. QED
      BY <1>3, <1>4, <3>2, <3>3
  <2>4. QED
    BY <2>1, <2>2, <2>3
<1>6. CASE ScanRaises
  <2>1. PICK size \in Chunks : \E i \in FirstWhole..Complete(fed + size) :
           /\ pin' = PinAfterLines(FirstWhole, i)
           /\ \E j \in {i - 1, i} : rows' = rows \o LineRows(FirstWhole, j, pin')
    BY <1>6 DEF ScanRaises
  <2>2. PICK i \in FirstWhole..Complete(fed + size) :
           /\ pin' = PinAfterLines(FirstWhole, i)
           /\ \E j \in {i - 1, i} : rows' = rows \o LineRows(FirstWhole, j, pin')
    BY <2>1
  <2>3. PICK j \in {i - 1, i} : rows' = rows \o LineRows(FirstWhole, j, pin')
    BY <2>2
  <2>4. i \in Int /\ j \in Int /\ FirstWhole \in Int
    BY <1>1, <1>2, <2>2, <2>3
  <2>5. QED
    BY <1>3, <1>4, <2>2, <2>3, <2>4
<1>7. QED
  BY <1>5, <1>6

\* A handler adds the row of its frame.
LEMMA FrameRecords ==
  ASSUME PostType, NEW at \in {"request", "answer", "event"}, NEW n \in Nat, NEW frame,
         rows' = Append(rows, RowOf(at, n, frame, pin))
  PROVE  rows' \in Seq(Row) /\ Range(rows') = Range(rows) \cup {RowOf(at, n, frame, pin)}
<1>1. RowOf(at, n, frame, pin) \in Row
  BY RowType
<1>2. rows \in Seq(Row)
  BY DEF PostType
<1>3. QED
  BY <1>1, <1>2, AppendFacts

\* A handler that raises may leave its row.
LEMMA RaiseRecords ==
  ASSUME PostType, NEW at \in {"request", "answer", "event"}, NEW n \in Nat, NEW frame,
         rows' \in {rows, Append(rows, RowOf(at, n, frame, pin))}
  PROVE  rows' \in Seq(Row) /\ Range(rows) \subseteq Range(rows')
<1>1. CASE UNCHANGED rows
  BY <1>1 DEF PostType
<1>2. CASE rows' = Append(rows, RowOf(at, n, frame, pin))
  BY <1>2, FrameRecords
<1>3. QED
  BY <1>1, <1>2

\* The initial values have their types.
LEMMA TypeInit == Init => PostType
BY DEF Init, PostType

\* A line is added to the stream.
LEMMA EmitType ==
  ASSUME PostType, Emit
  PROVE  events' \in Seq(DataLine)
<1>1. PICK event \in Answers, size \in Sizes :
        \E frame \in {event, Part(event)} :
          events' = Append(events, [frame |-> frame, size |-> size])
  BY DEF Emit
<1>2. event \in Frame
  BY FramesAssumption
<1>3. Part(event) \in Frame
  <2>1. (CHOOSE d \in Desc : TRUE) \in Desc
    BY <1>2 DEF Frame
  <2>2. QED
    BY <1>2, <2>1 DEF Frame, Part
<1>4. \A frame \in {event, Part(event)} : [frame |-> frame, size |-> size] \in DataLine
  BY <1>2, <1>3 DEF DataLine
<1>5. PICK l \in DataLine : events' = Append(events, l)
  BY <1>1, <1>4
<1>6. events \in Seq(DataLine)
  BY DEF PostType
<1>7. QED
  BY <1>5, <1>6

\* Every step keeps the types.
LEMMA TypeStep == PostType /\ [Next]_vars => PostType'
<1> SUFFICES ASSUME PostType, [Next]_vars PROVE PostType'
  OBVIOUS
<1> USE DEF PostType
<1>1. \A p \in Post : p \in Nat
  BY BoundsAssumption DEF Post
<1>2. ASSUME NEW p \in Post, RefuseLarge(p) PROVE PostType'
  BY <1>2 DEF RefuseLarge, Return, streamVars
<1>3. ASSUME NEW p \in Post, Evaluate(p) PROVE PostType'
  <2>1. PICK body \in Bodies : /\ request' = [request EXCEPT ![p] = body]
                               /\ rows' = Append(rows, RowOf("request", p, body, pin))
    BY <1>3 DEF Evaluate
  <2>2. rows' \in Seq(Row)
    BY <1>1, <2>1, FrameRecords
  <2>3. /\ pc' \in [Post -> {"idle", "sending", "waiting", "replying", "done"}]
        /\ reply' \in [Post -> {"none", "refused", "error", "failed", "original"}]
    BY <1>3 DEF Evaluate, Return
  <2>4. QED
    BY <1>3, <2>1, <2>2, <2>3 DEF Evaluate, streamVars
<1>4. ASSUME NEW p \in Post, EvaluateRaises(p) PROVE PostType'
  <2>1. PICK body \in Bodies : /\ request' = [request EXCEPT ![p] = body]
                               /\ rows' \in {rows, Append(rows, RowOf("request", p, body, pin))}
    BY <1>4 DEF EvaluateRaises
  <2>2. rows' \in Seq(Row)
    BY <1>1, <2>1, RaiseRecords
  <2>3. QED
    BY <1>4, <2>1, <2>2 DEF EvaluateRaises, Return, streamVars
<1>5. ASSUME NEW p \in Post, Send(p) PROVE PostType'
  <2>1. PICK form \in {"original", "redacted"} :
           toUpstream' = Append(toUpstream, [post |-> p, form |-> form])
    BY <1>5 DEF Send
  <2>2. toUpstream' \in Seq(Asked)
    <3>1. [post |-> p, form |-> form] \in Asked
      BY DEF Asked
    <3>2. QED
      BY <2>1, <3>1
  <2>3. QED
    BY <1>5, <2>2 DEF Send, streamVars
<1>6. ASSUME NEW p \in Post, UpstreamFails(p) PROVE PostType'
  BY <1>6 DEF UpstreamFails, Return, streamVars
<1>7. ASSUME NEW p \in Post, HandleAnswer(p) PROVE PostType'
  <2>1. PICK frame \in Answers :
          /\ answer' = [answer EXCEPT ![p] = frame]
          /\ rows' = IF frame.kind = "empty" THEN rows
                     ELSE Append(rows, RowOf("answer", p, frame, pin))
          /\ Return(p, IF Verdict(frame, pin) = "deny" THEN "error" ELSE "original")
    BY <1>7 DEF HandleAnswer
  <2>2. rows' \in Seq(Row)
    BY <1>1, <2>1, FrameRecords
  <2>3. /\ pc' \in [Post -> {"idle", "sending", "waiting", "replying", "done"}]
        /\ reply' \in [Post -> {"none", "refused", "error", "failed", "original"}]
    BY <2>1 DEF Return
  <2>4. QED
    BY <1>7, <2>1, <2>2, <2>3 DEF HandleAnswer, streamVars
<1>8. ASSUME NEW p \in Post, HandleAnswerRaises(p) PROVE PostType'
  <2>1. PICK frame \in Answers :
          /\ answer' = [answer EXCEPT ![p] = frame]
          /\ rows' \in {rows, Append(rows, RowOf("answer", p, frame, pin))}
    BY <1>8 DEF HandleAnswerRaises
  <2>2. rows' \in Seq(Row)
    BY <1>1, <2>1, RaiseRecords
  <2>3. QED
    BY <1>8, <2>1, <2>2 DEF HandleAnswerRaises, Return, streamVars
<1>9. ASSUME NEW p \in Post, Deliver(p) PROVE PostType'
  BY <1>9 DEF Deliver, streamVars
<1>10. CASE Emit
  <2>1. events' \in Seq(DataLine)
    BY <1>10, EmitType
  <2>2. UNCHANGED <<rows, postVars>>
    BY <1>10 DEF Emit
  <2>3. QED
    BY <2>1, <2>2 DEF postVars
<1>11. CASE Scan \/ ScanRaises
  BY <1>11, StreamRecords DEF Scan, ScanRaises, postVars
<1>12. CASE WriteChunk \/ StreamEnds \/ UNCHANGED vars
  BY <1>12 DEF WriteChunk, StreamEnds, vars, postVars, streamVars
<1>13. ASSUME NEW p \in Post, Redirect(p) PROVE PostType'
  <2>1. PICK m \in Range(toUpstream) : toUpstream' = Append(toUpstream, m)
    BY <1>13 DEF Redirect
  <2>2. m \in Asked
    BY DEF Range
  <2>3. toUpstream' \in Seq(Asked)
    BY <2>1, <2>2
  <2>4. QED
    BY <1>13, <2>3 DEF Redirect, streamVars
<1>14. QED
  BY <1>2, <1>3, <1>4, <1>5, <1>6, <1>7, <1>8, <1>9, <1>10, <1>11, <1>12, <1>13
     DEF Next, HandlePost, HandleGet

-----------------------------------------------------------------------------
(* What reaches the server *)

\* A request that was let through has its row, and may be let through.
LetThrough(p) ==
  /\ Recorded("request", p, {"allow", "redact"})
  /\ request[p].kind = "call" => ~Refused(request[p])

\* A request waits to be sent, or was sent, only if it was let through.
SendingInv == \A p \in Post : pc[p] = "sending" => LetThrough(p)
SentInv ==
  \A m \in Range(toUpstream) :
    /\ pc[m.post] \notin {"idle", "sending"} /\ LetThrough(m.post)
    /\ request[m.post].kind = "call" => (Redacted(request[m.post]) <=> m.form = "redacted")

SendInv == PostType /\ SendingInv /\ SentInv

\* What a verdict says of a request.
LEMMA VerdictMeans ==
  ASSUME NEW body \in Frame, NEW current
  PROVE  /\ Verdict(body, current) \notin {"deny", "approval"} =>
              /\ Verdict(body, current) \in {"allow", "redact"}
              /\ body.kind = "call" => ~Refused(body)
         /\ body.kind = "call" /\ ~Refused(body) =>
              (Verdict(body, current) = "redact" <=> Redacted(body))
BY DEF Verdict, CallVerdict, Refused, Denied, NeedsApproval, Redacted, Frame

\* Rows stay.
LEMMA RowsStay == ASSUME PostType, [Next]_vars PROVE Range(rows) \subseteq Range(rows')
<1>1. \A p \in Post : p \in Nat
  BY BoundsAssumption DEF Post
<1>2. ASSUME NEW p \in Post, Evaluate(p) PROVE Range(rows) \subseteq Range(rows')
  BY <1>1, <1>2, FrameRecords DEF Evaluate
<1>3. ASSUME NEW p \in Post, HandleAnswer(p) PROVE Range(rows) \subseteq Range(rows')
  <2>1. PICK frame \in Answers :
          rows' = IF frame.kind = "empty" THEN rows
                  ELSE Append(rows, RowOf("answer", p, frame, pin))
    BY <1>3 DEF HandleAnswer
  <2>2. QED
    BY <1>1, <2>1, FrameRecords
<1>4. ASSUME Scan \/ ScanRaises PROVE Range(rows) \subseteq Range(rows')
  BY <1>4, StreamRecords
<1>5. ASSUME NEW p \in Post, EvaluateRaises(p) PROVE Range(rows) \subseteq Range(rows')
  BY <1>1, <1>5, RaiseRecords DEF EvaluateRaises
<1>6. ASSUME NEW p \in Post, HandleAnswerRaises(p) PROVE Range(rows) \subseteq Range(rows')
  BY <1>1, <1>6, RaiseRecords DEF HandleAnswerRaises
<1>7. \/ UNCHANGED rows \/ Scan \/ ScanRaises
      \/ \E p \in Post : \/ Evaluate(p) \/ EvaluateRaises(p)
                         \/ HandleAnswer(p) \/ HandleAnswerRaises(p)
  BY DEF Next, HandlePost, HandleGet, RefuseLarge, Send, Redirect, UpstreamFails,
     Deliver, Emit, WriteChunk, StreamEnds, vars
<1>8. QED
  BY <1>2, <1>3, <1>4, <1>5, <1>6, <1>7

\* What was let through stays so: its body is in hand.
LEMMA LetThroughStays ==
  ASSUME PostType, [Next]_vars, NEW p \in Post, pc[p] # "idle", LetThrough(p)
  PROVE  LetThrough(p)' /\ request'[p] = request[p] /\ pc'[p] # "idle"
<1>1. /\ pc \in [Post -> {"idle", "sending", "waiting", "replying", "done"}]
      /\ request \in [Post -> Bodies \cup {NoFrame}]
  BY DEF PostType
<1>2. \/ UNCHANGED request
      \/ \E q \in Post : Arrives(q) /\ \E body : request' = [request EXCEPT ![q] = body]
  BY DEF Next, HandlePost, HandleGet, Evaluate, EvaluateRaises, RefuseLarge, Send, Redirect,
     UpstreamFails, HandleAnswer, HandleAnswerRaises, Deliver, Emit, Scan, ScanRaises,
     WriteChunk, StreamEnds,
     postVars, vars
<1>3. request'[p] = request[p]
  BY <1>1, <1>2 DEF Arrives
<1>4. \/ UNCHANGED pc
      \/ \E q \in Post, c \in {"sending", "waiting", "replying", "done"} :
           pc' = [pc EXCEPT ![q] = c]
  <2>1. ASSUME NEW q \in Post, HandlePost(q)
        PROVE  \/ UNCHANGED pc
               \/ \E c \in {"sending", "waiting", "replying", "done"} : pc' = [pc EXCEPT ![q] = c]
    BY <2>1 DEF HandlePost, Evaluate, EvaluateRaises, RefuseLarge, Send, Redirect, UpstreamFails,
       HandleAnswer, HandleAnswerRaises, Deliver, Return
  <2>2. QED
    BY <2>1 DEF Next, HandleGet, Emit, Scan, ScanRaises, WriteChunk, StreamEnds, postVars, vars
<1>5. pc'[p] # "idle"
  BY <1>1, <1>4
<1>6. Range(rows) \subseteq Range(rows')
  BY RowsStay
<1>7. QED
  BY <1>3, <1>5, <1>6 DEF LetThrough, Recorded

\* A request that is let through is recorded as such.
LEMMA SendingStep == ASSUME SendInv, PostType', [Next]_vars PROVE SendingInv'
<1>1. SUFFICES ASSUME NEW p \in Post, pc'[p] = "sending" PROVE LetThrough(p)'
  BY DEF SendingInv
<1>2. PostType /\ pc \in [Post -> {"idle", "sending", "waiting", "replying", "done"}]
      /\ request \in [Post -> Bodies \cup {NoFrame}]
  BY DEF SendInv, PostType
<1>3. CASE pc[p] = "sending"
  BY <1>2, <1>3, LetThroughStays DEF SendInv, SendingInv
<1>4. CASE pc[p] # "sending"
  <2>1. Evaluate(p)
    <3>1. ASSUME NEW q \in Post,
                 HandlePost(q) /\ ~Evaluate(q)
          PROVE  \/ UNCHANGED pc
                 \/ \E c \in {"waiting", "replying", "done"} : pc' = [pc EXCEPT ![q] = c]
      BY <3>1 DEF HandlePost, EvaluateRaises, RefuseLarge, Send, Redirect, UpstreamFails,
         HandleAnswer, HandleAnswerRaises, Deliver, Return
    <3>2. ASSUME NEW q \in Post, Evaluate(q) PROVE q = p
      <4>1. \E c : pc' = [pc EXCEPT ![q] = c]
        BY <3>2 DEF Evaluate, Return
      <4>2. QED
        BY <1>1, <1>2, <1>4, <4>1
    <3>3. UNCHANGED pc \/ \E q \in Post : HandlePost(q)
      BY DEF Next, HandleGet, Emit, Scan, ScanRaises, WriteChunk, StreamEnds, postVars, vars
    <3>4. QED
      BY <1>1, <1>2, <1>4, <3>1, <3>2, <3>3
  <2>2. PICK body \in Bodies :
          /\ request' = [request EXCEPT ![p] = body]
          /\ rows' = Append(rows, RowOf("request", p, body, pin))
          /\ IF Verdict(body, pin) \in {"deny", "approval"}
             THEN Return(p, "error")
             ELSE pc' = [pc EXCEPT ![p] = "sending"] /\ UNCHANGED reply
    BY <2>1 DEF Evaluate
  <2>3. Verdict(body, pin) \notin {"deny", "approval"}
    BY <1>1, <1>2, <2>2 DEF Return
  <2>4. Verdict(body, pin) \in {"allow", "redact"} /\ (body.kind = "call" => ~Refused(body))
    <3>1. body \in Frame
      BY FramesAssumption
    <3>2. QED
      BY <2>3, <3>1, VerdictMeans
  <2>5. RowOf("request", p, body, pin) \in Range(rows')
    <3>1. p \in Nat
      BY BoundsAssumption DEF Post
    <3>2. QED
      BY <1>2, <2>2, <3>1, FrameRecords
  <2>6. /\ RowOf("request", p, body, pin).item = [at |-> "request", n |-> p]
        /\ RowOf("request", p, body, pin).verdict = Verdict(body, pin)
    BY DEF RowOf
  <2>7. request'[p] = body
    BY <1>2, <2>2
  <2>8. QED
    BY <2>4, <2>5, <2>6, <2>7 DEF LetThrough, Recorded
<1>5. QED
  BY <1>3, <1>4

\* A POST that was sent is not decided again.
LEMMA SentStays ==
  ASSUME PostType, [Next]_vars, NEW p \in Post, pc[p] \notin {"idle", "sending"}
  PROVE  pc'[p] \notin {"idle", "sending"}
<1>1. pc \in [Post -> {"idle", "sending", "waiting", "replying", "done"}]
  BY DEF PostType
<1>2. ASSUME NEW q \in Post, HandlePost(q)
      PROVE  \/ UNCHANGED pc
             \/ \E c \in {"waiting", "replying", "done"} : pc' = [pc EXCEPT ![q] = c]
             \/ pc[q] = "idle" /\ \E c : pc' = [pc EXCEPT ![q] = c]
  BY <1>2 DEF HandlePost, Evaluate, EvaluateRaises, RefuseLarge, Send, Redirect, UpstreamFails,
     HandleAnswer, HandleAnswerRaises, Deliver, Return, Arrives
<1>3. UNCHANGED pc \/ \E q \in Post : HandlePost(q)
  BY DEF Next, HandleGet, Emit, Scan, ScanRaises, WriteChunk, StreamEnds, postVars, vars
<1>4. QED
  BY <1>1, <1>2, <1>3

\* Only what was let through is sent, as its verdict says.
LEMMA SentStep == ASSUME SendInv, PostType', [Next]_vars PROVE SentInv'
<1>1. /\ PostType /\ toUpstream \in Seq(Asked)
      /\ pc \in [Post -> {"idle", "sending", "waiting", "replying", "done"}]
      /\ request \in [Post -> Bodies \cup {NoFrame}]
  BY DEF SendInv, PostType
<1> DEFINE Good(m) ==
      /\ pc'[m.post] \notin {"idle", "sending"} /\ LetThrough(m.post)'
      /\ request'[m.post].kind = "call" =>
           (Redacted(request'[m.post]) <=> m.form = "redacted")
<1>2. ASSUME NEW m \in Range(toUpstream) PROVE Good(m)
  <2>1. m \in Asked
    BY <1>1 DEF Range
  <2>2. m.post \in Post
    BY <2>1 DEF Asked
  <2>3. /\ pc[m.post] \notin {"idle", "sending"} /\ LetThrough(m.post)
        /\ request[m.post].kind = "call" => (Redacted(request[m.post]) <=> m.form = "redacted")
    BY DEF SendInv, SentInv
  <2>4. LetThrough(m.post)' /\ request'[m.post] = request[m.post]
    BY <1>1, <2>2, <2>3, LetThroughStays
  <2>5. pc'[m.post] \notin {"idle", "sending"}
    BY <1>1, <2>2, <2>3, SentStays
  <2>6. QED
    BY <2>3, <2>4, <2>5
<1>3. UNCHANGED toUpstream \/ \E p \in Post : Send(p) \/ Redirect(p)
  BY DEF Next, HandlePost, HandleGet, Evaluate, EvaluateRaises, RefuseLarge, Redirect,
     UpstreamFails, HandleAnswer, HandleAnswerRaises, Deliver, Emit, Scan, ScanRaises,
     WriteChunk, StreamEnds,
     postVars, vars
<1>4. CASE UNCHANGED toUpstream
  BY <1>2, <1>4 DEF SentInv
<1>5. ASSUME NEW p \in Post, Send(p) PROVE SentInv'
  <2> DEFINE form == IF Verdict(request[p], pin) = "redact" THEN "redacted" ELSE "original"
             m == [post |-> p, form |-> form]
  <2>1. toUpstream' = Append(toUpstream, m) /\ pc[p] = "sending"
        /\ pc' = [pc EXCEPT ![p] = "waiting"]
    BY <1>5 DEF Send
  <2>2. m \in Asked
    BY DEF Asked
  <2>3. Range(toUpstream') = Range(toUpstream) \cup {m}
    BY <1>1, <2>1, <2>2, AppendFacts
  <2>4. LetThrough(p) /\ LetThrough(p)' /\ request'[p] = request[p]
    <3>1. LetThrough(p)
      BY <2>1 DEF SendInv, SendingInv
    <3>2. QED
      BY <1>1, <2>1, <3>1, LetThroughStays
  <2>5. request[p].kind = "call" => (Redacted(request[p]) <=> form = "redacted")
    <3>1. SUFFICES ASSUME request[p].kind = "call"
                   PROVE  Redacted(request[p]) <=> form = "redacted"
      OBVIOUS
    <3>2. request[p] \in Frame /\ ~Refused(request[p])
      BY <1>1, <2>4, <3>1, FramesAssumption DEF LetThrough, NoFrame
    <3>3. QED
      BY <3>1, <3>2, VerdictMeans
  <2>6. Good(m)
    <3>1. pc'[p] = "waiting"
      BY <1>1, <2>1
    <3>2. QED
      BY <2>4, <2>5, <3>1
  <2>7. QED
    BY <1>2, <2>3, <2>6 DEF SentInv
<1>6. ASSUME NEW p \in Post, Redirect(p) PROVE SentInv'
  <2>1. PICK m \in Range(toUpstream) : toUpstream' = Append(toUpstream, m)
    BY <1>6 DEF Redirect
  <2>2. m \in Asked
    BY <1>1 DEF Range
  <2>3. Range(toUpstream') = Range(toUpstream) \cup {m}
    BY <1>1, <2>1, <2>2, AppendFacts
  <2>4. Range(toUpstream') = Range(toUpstream)
    BY <2>1, <2>3
  <2>5. QED
    BY <1>2, <2>4 DEF SentInv
<1>7. QED
  BY <1>3, <1>4, <1>5, <1>6

\* Nothing is sent initially.
LEMMA SendInit == Init => SendInv
<1> SUFFICES ASSUME Init PROVE SendInv
  OBVIOUS
<1>1. Range(toUpstream) = {} /\ Len(toUpstream) = 0
  BY DEF Init, Range
<1>2. \A p \in Post : pc[p] = "idle"
  BY DEF Init
<1>3. QED
  BY <1>1, <1>2, TypeInit DEF SendInv, SendingInv, SentInv

\* Every step keeps the invariant.
LEMMA SendStep == SendInv /\ [Next]_vars => SendInv'
<1> SUFFICES ASSUME SendInv, [Next]_vars PROVE SendInv'
  OBVIOUS
<1>1. PostType'
  BY TypeStep DEF SendInv
<1>2. QED
  BY <1>1, SendingStep, SentStep DEF SendInv

\* PolicyUpheld, for any number of POSTs in any interleaving: no denied or gated
\* call reaches the server in any form, no secret but redacted, and nothing
\* without its row.
THEOREM PolicyCorrect == Spec => []PolicyUpheld
<1>1. Init => SendInv
  BY SendInit
<1>2. SendInv /\ [Next]_vars => SendInv'
  BY SendStep
<1>3. SendInv => PolicyUpheld
  BY DEF SendInv, SentInv, PolicyUpheld, LetThrough
<1>4. QED
  BY <1>1, <1>2, <1>3, PTL DEF Spec

-----------------------------------------------------------------------------
(* What clients are answered with *)

\* Under block, a list that a POST is answered with shows what is pinned.
PinnedInv ==
  block => \A p \in Post : reply[p] = "original" /\ IsList(answer[p]) =>
             pin # NoPin /\ answer[p].desc = pin

DriftInv == PostType /\ PinnedInv

\* A pin stays.
LEMMA PinStays == ASSUME PostType, [Next]_vars, pin # NoPin PROVE pin' = pin
<1>1. \A frame : PinAfter(frame, pin) = pin
  BY DEF PinAfter
<1>2. Scan \/ ScanRaises => pin' = pin
  BY StreamRecords
<1>3. \/ UNCHANGED pin \/ Scan \/ ScanRaises \/ \E frame : pin' = PinAfter(frame, pin)
  BY DEF Next, HandlePost, HandleGet, Evaluate, EvaluateRaises, RefuseLarge, Send, Redirect,
     UpstreamFails, HandleAnswer, HandleAnswerRaises, Deliver, Emit, WriteChunk, StreamEnds, vars
<1>4. QED
  BY <1>1, <1>2, <1>3

\* A reply that hands on an answer is the one the handler has just returned, or
\* was given before.
LEMMA ReplyMoves ==
  ASSUME PostType, [Next]_vars, NEW p \in Post, reply'[p] = "original"
  PROVE  HandleAnswer(p) \/ (answer'[p] = answer[p] /\ reply[p] = "original")
<1>1. /\ reply'[p] = "original"
      /\ reply \in [Post -> {"none", "refused", "error", "failed", "original"}]
      /\ answer \in [Post -> Answers \cup {NoFrame}]
  BY DEF PostType
<1>2. SUFFICES ASSUME ~HandleAnswer(p) PROVE answer'[p] = answer[p] /\ reply[p] = "original"
  OBVIOUS
<1>3. ASSUME NEW q \in Post, HandleAnswer(q) PROVE answer'[p] = answer[p] /\ reply'[p] = reply[p]
  <2>1. /\ \E frame : answer' = [answer EXCEPT ![q] = frame]
        /\ \E form : reply' = [reply EXCEPT ![q] = form]
    BY <1>3 DEF HandleAnswer, Return
  <2>2. p # q
    BY <1>2, <1>3
  <2>3. QED
    BY <1>1, <2>1, <2>2
<1>4. ASSUME NEW q \in Post, HandlePost(q), ~HandleAnswer(q)
      PROVE  answer'[p] = answer[p] /\ reply[p] = "original"
  <2>1. UNCHANGED reply \/ \E form \in {"refused", "error", "failed"} :
                             reply' = [reply EXCEPT ![q] = form]
    BY <1>4 DEF HandlePost, Evaluate, EvaluateRaises, RefuseLarge, Send, Redirect, UpstreamFails,
       HandleAnswerRaises, Deliver, Return
  <2>2. reply[p] = "original" /\ (UNCHANGED reply \/ p # q)
    BY <1>1, <2>1
  <2>3. \/ UNCHANGED answer
        \/ reply'[q] = "failed" /\ \E frame : answer' = [answer EXCEPT ![q] = frame]
    BY <1>1, <1>4 DEF HandlePost, Evaluate, EvaluateRaises, RefuseLarge, Send, Redirect,
       UpstreamFails, HandleAnswerRaises, Deliver, Return
  <2>4. QED
    BY <1>1, <2>2, <2>3
<1>5. UNCHANGED <<answer, reply>> \/ \E q \in Post : HandlePost(q)
  BY DEF Next, HandleGet, Emit, Scan, ScanRaises, WriteChunk, StreamEnds, postVars, vars
<1>6. answer'[p] = answer[p] /\ reply[p] = "original"
  BY <1>1, <1>3, <1>4, <1>5
<1>7. QED
  BY <1>6

\* An answer is handed on once it was compared with the pin.
LEMMA PinnedStep == ASSUME DriftInv, PostType', [Next]_vars PROVE PinnedInv'
<1>1. /\ PostType /\ block' = block
      /\ pc \in [Post -> {"idle", "sending", "waiting", "replying", "done"}]
      /\ reply \in [Post -> {"none", "refused", "error", "failed", "original"}]
      /\ answer \in [Post -> Answers \cup {NoFrame}]
  BY DEF DriftInv, PostType, Next, HandlePost, HandleGet, Evaluate, EvaluateRaises, RefuseLarge,
     Send, Redirect, UpstreamFails, HandleAnswer, HandleAnswerRaises, Deliver, Emit, Scan,
     ScanRaises, WriteChunk, StreamEnds, vars
<1>2. SUFFICES ASSUME block, NEW p \in Post, reply'[p] = "original", IsList(answer'[p])
               PROVE  pin' # NoPin /\ answer'[p].desc = pin'
  BY <1>1 DEF PinnedInv
<1>3. CASE answer'[p] = answer[p] /\ reply[p] = "original"
  <2>1. pin # NoPin /\ answer[p].desc = pin
    BY <1>2, <1>3 DEF DriftInv, PinnedInv
  <2>2. QED
    BY <1>1, <1>3, <2>1, PinStays
<1>4. CASE HandleAnswer(p)
  <2>1. PICK frame \in Answers :
          /\ answer' = [answer EXCEPT ![p] = frame]
          /\ pin' = PinAfter(frame, pin)
          /\ Return(p, IF Verdict(frame, pin) = "deny" THEN "error" ELSE "original")
    BY <1>4 DEF HandleAnswer
  <2>2. answer'[p] = frame /\ frame.kind = "list" /\ Verdict(frame, pin) # "deny"
    BY <1>1, <1>2, <2>1 DEF Return, IsList
  <2>3. frame.desc \in Desc
    BY FramesAssumption DEF Frame
  <2>4. pin \in {NoPin, frame.desc}
    BY <1>2, <2>2 DEF Verdict, Drifts
  <2>5. QED
    BY <2>1, <2>2, <2>3, <2>4, PinAssumption DEF PinAfter
<1>5. QED
  BY <1>2, <1>3, <1>4, ReplyMoves DEF DriftInv

\* BlockedNeverAnswered: with drift blocked, every list that a POST is answered
\* with carries the description that was pinned first, whatever the order.
THEOREM DriftIsBlocked == Spec => []BlockedNeverAnswered
<1>1. Init => DriftInv
  BY TypeInit DEF Init, DriftInv, PinnedInv
<1>2. DriftInv /\ [Next]_vars => DriftInv'
  <2> SUFFICES ASSUME DriftInv, [Next]_vars PROVE DriftInv'
    OBVIOUS
  <2>1. PostType'
    BY TypeStep DEF DriftInv
  <2>2. QED
    BY <2>1, PinnedStep DEF DriftInv
<1>3. DriftInv => BlockedNeverAnswered
  BY DEF DriftInv, PinnedInv, BlockedNeverAnswered, DescsReplied, ListsReplied
<1>4. QED
  BY <1>1, <1>2, <1>3, PTL DEF Spec

-----------------------------------------------------------------------------
(* Positions in the stream *)

\* The ends of lines of the sizes in v are f.
Ends(v, f) ==
  /\ f[0] = 0
  /\ \A i \in 0..Len(v) : f[i] \in Nat
  /\ \A i \in 1..Len(v) : f[i] = f[i - 1] + v[i].size
  /\ \A i, j \in 0..Len(v) : i < j => f[i] < f[j]

\* End gives the ends of the lines: sums of positive sizes.
LEMMA EndsOfLines ==
  ASSUME NEW v \in Seq(DataLine), NEW f,
         f = CHOOSE g : g = [i \in Nat |-> IF i = 0 THEN 0 ELSE g[i - 1] + v[i].size]
  PROVE  Ends(v, f)
<1>1. f[0] = 0 /\ \A i \in Nat : f[i + 1] = f[i] + v[i + 1].size
  BY SumDefined
<1>2. Len(v) \in Nat
  OBVIOUS
<1>3. \A i \in 1..Len(v) : v[i].size \in Nat \ {0}
  <2> TAKE i \in 1..Len(v)
  <2>1. v[i] \in DataLine
    BY <1>2, ElementOfSeq
  <2>2. QED
    BY <2>1, StreamAssumption DEF DataLine
<1>4. \A i \in 1..Len(v) : f[i] = f[i - 1] + v[i].size
  <2> TAKE i \in 1..Len(v)
  <2>1. i - 1 \in Nat /\ (i - 1) + 1 = i
    BY <1>2
  <2>2. f[(i - 1) + 1] = f[i - 1] + v[(i - 1) + 1].size
    BY <1>1, <2>1
  <2>3. QED
    BY <2>1, <2>2
<1>5. \A i \in 0..Len(v) : f[i] \in Nat
  <2> DEFINE S == {i \in Nat : i <= Len(v) => f[i] \in Nat}
  <2>1. 0 \in S
    BY <1>1
  <2>2. ASSUME NEW i \in Nat, i \in S PROVE i + 1 \in S
    <3>1. SUFFICES ASSUME i + 1 <= Len(v) PROVE f[i + 1] \in Nat
      OBVIOUS
    <3>2. f[i] \in Nat /\ f[i + 1] = f[i] + v[i + 1].size
      BY <1>1, <1>2, <2>2, <3>1
    <3>3. v[i + 1].size \in Nat
      BY <1>2, <1>3, <3>1
    <3>4. QED
      BY <3>2, <3>3
  <2> HIDE DEF S
  <2>3. \A i \in Nat : i \in S
    BY <2>1, <2>2, SetInduction
  <2>4. QED
    BY <1>2, <2>3 DEF S
<1>6. \A i, j \in 0..Len(v) : i < j => f[i] < f[j]
  <2> DEFINE S == {j \in Nat : j <= Len(v) => \A i \in 0..j - 1 : f[i] < f[j]}
  <2>1. 0 \in S
    OBVIOUS
  <2>2. ASSUME NEW j \in Nat, j \in S PROVE j + 1 \in S
    <3>1. SUFFICES ASSUME j + 1 <= Len(v), NEW i \in 0..j PROVE f[i] < f[j + 1]
      OBVIOUS
    <3>2. f[j + 1] = f[j] + v[j + 1].size /\ v[j + 1].size \in Nat \ {0} /\ f[j] \in Nat
      BY <1>1, <1>2, <1>3, <1>5, <3>1
    <3>3. f[i] \in Nat /\ (i = j \/ f[i] < f[j])
      BY <1>2, <1>5, <2>2, <3>1
    <3>4. QED
      BY <3>2, <3>3
  <2> HIDE DEF S
  <2>3. \A j \in Nat : j \in S
    BY <2>1, <2>2, SetInduction
  <2>4. QED
    BY <1>2, <2>3 DEF S
<1>7. QED
  BY <1>1, <1>4, <1>5, <1>6 DEF Ends

\* c of n lines end at `to` or before.
Counts(f, n, to, c) ==
  /\ c \in 0..n /\ f[c] <= to
  /\ c < n => to < f[c + 1]
  /\ \A i \in 1..n : f[i] <= to <=> i <= c

\* How many lines end at `to` or before: the first ones.
LEMMA LinesCounted ==
  ASSUME NEW v, NEW f, Ends(v, f), Len(v) \in Nat, NEW to \in Nat
  PROVE  Counts(f, Len(v), to, Cardinality({i \in 1..Len(v) : f[i] <= to}))
<1> DEFINE n == Len(v)
           T == {i \in 0..n : i = n \/ to < f[i + 1]}
<1>1. n \in T /\ T \in SUBSET Nat
  OBVIOUS
<1>2. PICK m \in T : \A i \in T : m <= i
  BY <1>1, LeastNatural
<1>3. m \in 0..n /\ (m < n => to < f[m + 1])
  OBVIOUS
<1>4. ASSUME NEW i \in 1..n PROVE f[i] <= to <=> i <= m
  <2>1. f[i] \in Nat
    BY DEF Ends
  <2>2. CASE i <= m
    <3>1. i - 1 \in 0..n /\ ~(m <= i - 1) /\ (i - 1) + 1 = i /\ i - 1 # n
      BY <1>3, <2>2
    <3>2. i - 1 \notin T
      BY <1>2, <3>1
    <3>3. QED
      BY <2>1, <2>2, <3>1, <3>2
  <2>3. CASE m < i
    <3>1. m + 1 \in 0..n /\ f[m + 1] \in Nat /\ to < f[m + 1]
      BY <1>3, <2>3 DEF Ends
    <3>2. f[m + 1] <= f[i]
      BY <2>1, <2>3, <3>1 DEF Ends
    <3>3. QED
      BY <2>1, <2>3, <3>1, <3>2
  <2>4. QED
    BY <1>3, <2>2, <2>3
<1>5. {i \in 1..n : f[i] <= to} = 1..m
  BY <1>3, <1>4
<1>6. Cardinality(1..m) = m
  BY <1>3, FS_Interval
<1>7. f[m] <= to
  BY <1>3, <1>4 DEF Ends
<1>8. QED
  BY <1>3, <1>4, <1>5, <1>6, <1>7 DEF Counts

\* The stream's lines and how many of them a position has behind it.
LEMMA StreamPositions ==
  ASSUME PostType
  PROVE  /\ Len(events) \in Nat /\ Ends(events, End)
         /\ \A to \in Nat : Counts(End, Len(events), to, Complete(to))
<1>1. events \in Seq(DataLine) /\ Len(events) \in Nat
  BY DEF PostType
<1>2. Ends(events, End)
  BY <1>1, EndsOfLines DEF End
<1>3. QED
  BY <1>1, <1>2, LinesCounted DEF Complete, Line

-----------------------------------------------------------------------------
(* Types of the stream *)

StreamType ==
  /\ block \in BOOLEAN /\ pin \in Desc \cup {NoPin}
  /\ base \in Nat /\ fed \in Nat /\ written \in Nat
  /\ base <= fed /\ written <= fed /\ fed <= End[Len(events)]
  /\ fed - base <= Limit
  /\ stream \in {"reading", "writing", "over"}
  /\ faults \in 0..MaxFaults

\* What a chunk does to the buffer: it overflows, or its lines are recorded.
Overflow(to) == to - base > Limit /\ base' = to /\ UNCHANGED <<pin, rows>>
Record(to) ==
  /\ to - base <= Limit
  /\ AppendLines(FirstWhole, Complete(to))
  /\ base' = IF Complete(to) = Complete(fed) THEN base ELSE End[Complete(to)]

\* A scan of the stream fetches lines and leaves no whole one behind.
LEMMA ScanMoves ==
  ASSUME PostType, StreamType, Scan
  PROVE  /\ fed' \in Nat /\ fed < fed' /\ fed' <= fed + ChunkSize /\ fed' <= End[Len(events)]
         /\ Overflow(fed') \/ Record(fed')
<1>1. PICK size \in Chunks :
        /\ fed + size <= End[Len(events)]
        /\ fed' = fed + size
        /\ IF Overflows(fed + size)
           THEN base' = fed + size /\ UNCHANGED <<pin, rows>>
           ELSE /\ AppendLines(FirstWhole, Complete(fed + size))
                /\ base' = IF Complete(fed + size) = Complete(fed)
                           THEN base ELSE End[Complete(fed + size)]
  BY DEF Scan
<1>2. /\ fed \in Nat /\ base \in Nat /\ Limit \in Nat /\ ChunkSize \in Nat
      /\ size \in Nat /\ 1 <= size /\ size <= ChunkSize
  BY StreamAssumption DEF StreamType, Chunks
<1>3. fed' \in Nat /\ fed < fed' /\ fed' <= fed + ChunkSize /\ fed' <= End[Len(events)]
  BY <1>1, <1>2
<1>4. CASE Overflows(fed + size)
  <2>1. fed' - base > Limit /\ base' = fed' /\ UNCHANGED <<pin, rows>>
    BY <1>1, <1>4 DEF Overflows
  <2>2. QED
    BY <1>3, <2>1 DEF Overflow
<1>5. CASE ~Overflows(fed + size)
  <2>1. fed' - base <= Limit
    BY <1>1, <1>2, <1>5 DEF Overflows
  <2>2. /\ AppendLines(FirstWhole, Complete(fed'))
        /\ base' = IF Complete(fed') = Complete(fed) THEN base ELSE End[Complete(fed')]
    BY <1>1, <1>5
  <2>3. QED
    BY <1>3, <2>1, <2>2 DEF Record
<1>6. QED
  BY <1>4, <1>5

\* When further lines are complete, the last of them ends behind the old buffer.
LEMMA CompleteGrows ==
  ASSUME PostType, StreamType, NEW to \in Nat, fed <= to
  PROVE  /\ Complete(fed) \in 0..Len(events) /\ Complete(to) \in 0..Len(events)
         /\ Complete(fed) <= Complete(to)
         /\ End[Complete(to)] \in Nat /\ End[Complete(to)] <= to
         /\ Complete(fed) < Complete(to) => fed < End[Complete(fed) + 1]
                                            /\ End[Complete(fed) + 1] <= End[Complete(to)]
<1> DEFINE c == Complete(fed)
           d == Complete(to)
<1>1. /\ Len(events) \in Nat /\ Ends(events, End)
      /\ Counts(End, Len(events), fed, c) /\ Counts(End, Len(events), to, d)
  BY StreamPositions DEF StreamType
<1> HIDE DEF c, d
<1>2. c \in 0..Len(events) /\ d \in 0..Len(events) /\ End[d] \in Nat /\ End[d] <= to
  BY <1>1 DEF Counts, Ends
<1>3. c <= d
  <2>1. SUFFICES ASSUME d < c PROVE FALSE
    BY <1>1, <1>2
  <2>2. d < Len(events) /\ d + 1 \in 1..Len(events) /\ d + 1 <= c
    BY <1>1, <1>2, <2>1
  <2>3. to < End[d + 1] /\ End[d + 1] <= fed
    BY <1>1, <2>2 DEF Counts
  <2>4. End[d + 1] \in Nat /\ fed \in Nat
    BY <1>1, <2>2 DEF Ends, StreamType
  <2>5. QED
    BY <2>3, <2>4
<1>4. ASSUME c < d PROVE fed < End[c + 1] /\ End[c + 1] <= End[d]
  <2>1. c < Len(events) /\ c + 1 \in 0..Len(events) /\ c + 1 <= d
    BY <1>1, <1>2, <1>4
  <2>2. fed < End[c + 1]
    BY <1>1, <2>1 DEF Counts
  <2>3. c + 1 = d \/ End[c + 1] < End[d]
    BY <1>1, <1>2, <2>1 DEF Ends
  <2>4. End[c + 1] \in Nat
    BY <1>1, <2>1 DEF Ends
  <2>5. QED
    BY <1>2, <2>2, <2>3, <2>4
<1>5. QED
  BY <1>2, <1>3, <1>4 DEF c, d

\* The first list of the lines i to j pins, unless the tool is pinned already.
LEMMA LinesPin ==
  ASSUME PostType, StreamType, NEW i \in Nat, i >= 1, NEW j \in Nat, j <= Len(events)
  PROVE  /\ PinAfterLines(i, j) \in Desc \cup {NoPin}
         /\ pin # NoPin => PinAfterLines(i, j) = pin
         /\ (\E k \in i..j : events[k].frame.kind = "list") => PinAfterLines(i, j) # NoPin
<1> DEFINE lists == {k \in i..j : events[k].frame.kind = "list"}
<1>1. CASE lists = {}
  BY <1>1 DEF PinAfterLines, StreamType
<1>2. CASE lists # {}
  <2> DEFINE first == CHOOSE k \in lists : \A l \in lists : k <= l
  <2>1. lists \in SUBSET Nat
    OBVIOUS
  <2>2. \E k \in lists : \A l \in lists : k <= l
    BY <1>2, <2>1, LeastNatural
  <2>3. first \in lists
    BY <2>2
  <2>4. PinAfterLines(i, j) = PinAfter(events[first].frame, pin)
    BY <1>2 DEF PinAfterLines
  <2>5. events[first] \in DataLine
    <3>1. first \in 1..Len(events) /\ events \in Seq(DataLine)
      BY <2>3 DEF PostType
    <3> HIDE DEF first
    <3>2. QED
      BY <3>1, ElementOfSeq
  <2>6. events[first].frame.kind = "list"
    BY <2>3
  <2> HIDE DEF first
  <2>7. events[first].frame.desc \in Desc
    BY <2>5 DEF DataLine, Frame
  <2>8. QED
    BY <1>2, <2>4, <2>6, <2>7, PinAssumption DEF PinAfter, StreamType
<1>3. QED
  BY <1>1, <1>2

\* The line that is looked at first is one of the stream, or the next to come.
LEMMA FirstWholeType ==
  ASSUME PostType, StreamType
  PROVE  /\ Complete(fed) \in 0..Len(events) /\ Len(events) \in Nat
         /\ FirstWhole \in Nat /\ FirstWhole >= 1
         /\ FirstWhole = IF base > End[Complete(fed)] THEN Complete(fed) + 2 ELSE Complete(fed) + 1
<1>1. Complete(fed) \in 0..Len(events) /\ Len(events) \in Nat
  BY StreamPositions DEF Counts, StreamType
<1>2. (Complete(fed) + 1) - 1 = Complete(fed)
  BY <1>1
<1>3. QED
  BY <1>1, <1>2 DEF FirstWhole, Start

\* What a handler raises at is one of the lines the chunk completes.
LEMMA RaisedAt ==
  ASSUME PostType, StreamType, ScanRaises
  PROVE  \E i \in Nat : /\ i \in FirstWhole..Len(events)
                        /\ pin' = PinAfterLines(FirstWhole, i)
                        /\ \E j \in {i - 1, i} : rows' = rows \o LineRows(FirstWhole, j, pin')
<1>1. PICK size \in Chunks : \E i \in FirstWhole..Complete(fed + size) :
           /\ pin' = PinAfterLines(FirstWhole, i)
           /\ \E j \in {i - 1, i} : rows' = rows \o LineRows(FirstWhole, j, pin')
  BY DEF ScanRaises
<1>2. PICK i \in FirstWhole..Complete(fed + size) :
           /\ pin' = PinAfterLines(FirstWhole, i)
           /\ \E j \in {i - 1, i} : rows' = rows \o LineRows(FirstWhole, j, pin')
  BY <1>1
<1>3. fed + size \in Nat /\ fed <= fed + size
  BY StreamAssumption DEF StreamType, Chunks
<1>4. Complete(fed + size) \in 0..Len(events) /\ Len(events) \in Nat
  BY <1>3, StreamPositions DEF Counts
<1>5. FirstWhole \in Nat
  BY FirstWholeType
<1>6. i \in Nat /\ i \in FirstWhole..Len(events)
  BY <1>4, <1>5
<1>7. QED
  BY <1>2, <1>6

\* A new line leaves the ends of the lines before it, and ends behind them.
LEMMA EmitMoves ==
  ASSUME PostType, StreamType, PostType', Emit
  PROVE  /\ Len(events) \in Nat /\ Len(events') = Len(events) + 1
         /\ \A i \in 1..Len(events) : events'[i] = events[i]
         /\ \A i \in 0..Len(events) : End'[i] = End[i]
         /\ End[Len(events)] < End'[Len(events')]
         /\ \A to \in Nat : to <= End[Len(events)] => Complete(to)' = Complete(to)
<1> DEFINE n == Len(events)
<1>1. /\ events \in Seq(DataLine)
      /\ events' \in Seq(DataLine)
  BY DEF PostType
<1>2. PICK line : events' = Append(events, line)
  BY DEF Emit
<1>3. /\ n \in Nat /\ Len(events') = n + 1
      /\ \A i \in 1..n : events'[i] = events[i]
  BY <1>1, <1>2
<1>4. Ends(events, End) /\ Ends(events', End')
  BY <1>1, EndsOfLines DEF End
<1>5. \A i \in 0..n : End'[i] = End[i]
  <2> DEFINE S == {i \in Nat : i <= n => End'[i] = End[i]}
  <2>1. 0 \in S
    BY <1>4 DEF Ends
  <2>2. ASSUME NEW i \in Nat, i \in S PROVE i + 1 \in S
    <3>1. SUFFICES ASSUME i + 1 <= n PROVE End'[i + 1] = End[i + 1]
      OBVIOUS
    <3>2. i + 1 \in 1..n /\ i + 1 \in 1..Len(events') /\ (i + 1) - 1 = i /\ End'[i] = End[i]
      BY <1>3, <2>2, <3>1
    <3>3. End[i + 1] = End[i] + events[i + 1].size /\ End'[i + 1] = End'[i] + events'[i + 1].size
      BY <1>4, <3>2 DEF Ends
    <3>4. QED
      BY <1>3, <3>2, <3>3
  <2> HIDE DEF S
  <2>3. \A i \in Nat : i \in S
    BY <2>1, <2>2, SetInduction
  <2>4. QED
    BY <1>3, <2>3 DEF S
<1>6. End[n] < End'[n + 1]
  <2>1. End'[n] < End'[n + 1]
    BY <1>3, <1>4 DEF Ends
  <2>2. QED
    BY <1>3, <1>5, <2>1
<1>7. ASSUME NEW to \in Nat, to <= End[n] PROVE Complete(to)' = Complete(to)
  <2>1. ~(End'[n + 1] <= to)
    <3>1. End[n] \in Nat /\ End'[n + 1] \in Nat
      BY <1>3, <1>4 DEF Ends
    <3>2. QED
      BY <1>6, <1>7, <3>1
  <2>2. {i \in 1..n + 1 : End'[i] <= to} = {i \in 1..n : End[i] <= to}
    <3>1. \A i \in 1..n + 1 : End'[i] <= to <=> i \in 1..n /\ End[i] <= to
      <4> TAKE i \in 1..n + 1
      <4>1. i = n + 1 \/ i \in 1..n
        BY <1>3
      <4>2. QED
        BY <1>3, <1>5, <2>1, <4>1
    <3>2. QED
      BY <1>3, <3>1
  <2>3. /\ Complete(to) = Cardinality({i \in 1..n : End[i] <= to})
        /\ Complete(to)' = Cardinality({i \in 1..n + 1 : End'[i] <= to})
    BY <1>3 DEF Complete, Line
  <2>4. QED
    BY <2>2, <2>3
<1>8. QED
  BY <1>3, <1>5, <1>6, <1>7

\* What the steps of the POSTs and of the stream leave alone.
LEMMA PostSteps ==
  ASSUME PostType, NEW p \in Post, HandlePost(p)
  PROVE  /\ UNCHANGED <<block, events, base, fed, written, stream>>
         /\ UNCHANGED pin \/ \E frame \in Frame : pin' = PinAfter(frame, pin)
         /\ UNCHANGED faults \/ Fault
BY FramesAssumption
   DEF HandlePost, Evaluate, EvaluateRaises, RefuseLarge, Send, Redirect, UpstreamFails,
       HandleAnswer, HandleAnswerRaises, Deliver, streamVars

\* The initial values have their types.
LEMMA StreamInit == Init => StreamType
<1> SUFFICES ASSUME Init PROVE StreamType
  OBVIOUS
<1>1. events \in Seq(DataLine) /\ Len(events) = 0
  BY DEF Init
<1>2. End[0] = 0
  BY <1>1, EndsOfLines DEF End, Ends
<1>3. 0 - 0 <= Limit /\ 0 \in 0..MaxFaults
  BY StreamAssumption, BoundsAssumption
<1>4. QED
  BY <1>1, <1>2, <1>3 DEF Init, StreamType

\* The buffer starts at a line's end or where it was dropped, and never holds
\* more than Limit.
LEMMA StreamTypeStep ==
  ASSUME PostType, StreamType, PostType', [Next]_vars
  PROVE  StreamType'
<1>1. /\ block \in BOOLEAN /\ pin \in Desc \cup {NoPin} /\ Limit \in Nat /\ ChunkSize \in Nat
      /\ base \in Nat /\ fed \in Nat /\ written \in Nat
      /\ base <= fed /\ written <= fed /\ fed <= End[Len(events)] /\ fed - base <= Limit
      /\ stream \in {"reading", "writing", "over"} /\ faults \in 0..MaxFaults
      /\ MaxFaults \in Nat
  BY StreamAssumption, BoundsAssumption DEF StreamType
<1>2. Fault => faults' \in 0..MaxFaults
  BY <1>1 DEF Fault
<1>3. ASSUME NEW p \in Post, HandlePost(p) PROVE StreamType'
  <2>1. /\ UNCHANGED <<block, events, base, fed, written, stream>>
        /\ UNCHANGED pin \/ \E frame \in Frame : pin' = PinAfter(frame, pin)
        /\ UNCHANGED faults \/ Fault
    BY <1>3, PostSteps
  <2>2. pin' \in Desc \cup {NoPin}
    BY <1>1, <2>1 DEF PinAfter, Frame
  <2>3. End'[Len(events')] = End[Len(events)]
    BY <2>1 DEF End
  <2>4. QED
    BY <1>1, <1>2, <2>1, <2>2, <2>3 DEF StreamType
<1>4. CASE Emit
  <2>1. /\ UNCHANGED <<block, pin, base, fed, written, stream, faults>>
        /\ Len(events) \in Nat /\ End[Len(events)] < End'[Len(events')]
    BY <1>4, EmitMoves DEF Emit
  <2>2. End[Len(events)] \in Nat /\ End'[Len(events')] \in Nat
    <3>1. Ends(events, End) /\ Ends(events', End')
      BY EndsOfLines DEF End, PostType
    <3>2. Len(events') \in Nat
      BY DEF PostType
    <3>3. QED
      BY <2>1, <3>1, <3>2 DEF Ends
  <2>3. fed <= End'[Len(events')]
    BY <1>1, <2>1, <2>2
  <2>4. QED
    BY <1>1, <2>1, <2>3 DEF StreamType
<1>5. CASE Scan
  <2>1. /\ fed' \in Nat /\ fed < fed' /\ fed' <= End[Len(events)]
        /\ Overflow(fed') \/ Record(fed')
    BY <1>5, ScanMoves
  <2>2. UNCHANGED <<block, events, written, faults>> /\ stream' = "writing"
    BY <1>5 DEF Scan
  <2>3. fed' <= End'[Len(events')]
    BY <2>1, <2>2 DEF End
  <2>7. written' \in Nat /\ written' <= fed'
    BY <1>1, <2>1, <2>2
  <2>4. CASE Overflow(fed')
    <3>1. base' = fed' /\ pin' = pin
      BY <2>4 DEF Overflow
    <3>2. fed' - base' <= Limit
      <4>1. ASSUME NEW a \in Nat, NEW b, b = a PROVE a - b <= Limit
        BY <1>1, <4>1
      <4>2. QED
        BY <2>1, <3>1, <4>1
    <3>3. base' <= fed' /\ base' \in Nat /\ pin' \in Desc \cup {NoPin}
      BY <1>1, <2>1, <3>1
    <3>4. QED
      BY <1>1, <2>1, <2>2, <2>3, <2>7, <3>2, <3>3 DEF StreamType
  <2>5. CASE Record(fed')
    <3>1. /\ Complete(fed) \in 0..Len(events) /\ Complete(fed') \in 0..Len(events)
          /\ Complete(fed) <= Complete(fed')
          /\ End[Complete(fed')] \in Nat /\ End[Complete(fed')] <= fed'
          /\ Complete(fed) < Complete(fed') => /\ fed < End[Complete(fed) + 1]
                                               /\ End[Complete(fed) + 1] <= End[Complete(fed')]
      BY <1>1, <2>1, CompleteGrows
    <3>2. base' = IF Complete(fed') = Complete(fed) THEN base ELSE End[Complete(fed')]
      BY <2>5 DEF Record
    <3>3. base' \in Nat /\ base <= base' /\ base' <= fed'
      <4>1. CASE Complete(fed') = Complete(fed)
        BY <1>1, <2>1, <3>2, <4>1
      <4>2. CASE Complete(fed') # Complete(fed)
        <5>1. Ends(events, End) /\ Len(events) \in Nat
          BY StreamPositions
        <5>2. Complete(fed) < Complete(fed') /\ Complete(fed) + 1 \in 0..Len(events)
          BY <3>1, <4>2, <5>1
        <5>3. End[Complete(fed) + 1] \in Nat
          BY <5>1, <5>2 DEF Ends
        <5>4. QED
          BY <1>1, <2>1, <3>1, <3>2, <4>2, <5>2, <5>3
      <4>3. QED
        BY <4>1, <4>2
    <3>4. fed' - base <= Limit
      BY <2>5 DEF Record
    <3>5. fed' - base' <= Limit
      <4>1. ASSUME NEW a \in Nat, NEW b \in Nat, NEW c \in Nat, NEW l \in Nat, a - b <= l, b <= c
            PROVE  a - c <= l
        BY <4>1
      <4>2. QED
        BY <1>1, <2>1, <3>3, <3>4, <4>1
    <3>6. pin' \in Desc \cup {NoPin}
      <4>1. pin' = PinAfterLines(FirstWhole, Complete(fed'))
        BY <2>5 DEF Record, AppendLines
      <4>2. Complete(fed') \in Nat /\ Complete(fed') <= Len(events)
        BY <3>1, FirstWholeType
      <4>3. QED
        BY <4>1, <4>2, FirstWholeType, LinesPin
    <3>7. QED
      BY <1>1, <2>1, <2>2, <2>3, <2>7, <3>3, <3>5, <3>6 DEF StreamType
  <2>6. QED
    BY <2>1, <2>4, <2>5
<1>6. CASE ScanRaises
  <2>1. PICK i \in Nat : i \in FirstWhole..Len(events) /\ pin' = PinAfterLines(FirstWhole, i)
    BY <1>6, RaisedAt
  <2>2. pin' \in Desc \cup {NoPin}
    BY <2>1, FirstWholeType, LinesPin
  <2>3. UNCHANGED <<block, events, base, fed, written>> /\ stream' = "over" /\ Fault
    BY <1>6 DEF ScanRaises
  <2>4. End'[Len(events')] = End[Len(events)]
    BY <2>3 DEF End
  <2>5. QED
    BY <1>1, <1>2, <2>2, <2>3, <2>4 DEF StreamType
<1>7. CASE WriteChunk \/ StreamEnds \/ UNCHANGED vars
  <2>1. /\ UNCHANGED <<block, pin, events, base, fed, faults>>
        /\ written' \in {written, fed} /\ stream' \in {"reading", "over", stream}
    BY <1>7 DEF WriteChunk, StreamEnds, vars, streamVars
  <2>2. End'[Len(events')] = End[Len(events)]
    BY <2>1 DEF End
  <2>3. QED
    BY <1>1, <2>1, <2>2 DEF StreamType
<1>8. QED
  BY <1>3, <1>4, <1>5, <1>6, <1>7 DEF Next, HandleGet

\* Type correctness, for chunks and lines of any size: the buffer is bounded, and
\* what is written was fed and what was fed was sent.
THEOREM TypeCorrect == Spec => []TypeOK
<1>1. Init => PostType /\ StreamType
  BY TypeInit, StreamInit
<1>2. PostType /\ StreamType /\ [Next]_vars => (PostType /\ StreamType)'
  BY TypeStep, StreamTypeStep
<1>3. PostType /\ StreamType => TypeOK
  BY DEF PostType, StreamType, TypeOK, Asked
<1>4. QED
  BY <1>1, <1>2, <1>3, PTL DEF Spec

-----------------------------------------------------------------------------
(* Lines that go unseen *)

\* A line no longer than what fits in the buffer beside a chunk never makes it
\* overflow.
Cause(i) ==
  \E j \in 1..i : events[j].size > Limit - ChunkSize + 1 /\ Start(i) < End[j] + ChunkSize

\* The buffer starts where the lines read so far end, or within the next one if
\* its beginning was dropped.
BaseInv ==
  /\ End[Complete(fed)] <= base
  /\ End[Complete(fed)] < base => Cause(Complete(fed) + 1)
UnseenInv == \A i \in Line : End[i] <= fed /\ ~Recorded("event", i, Verdicts) => Cause(i)

LookInv == PostType /\ StreamType /\ BaseInv /\ UnseenInv

\* What is recorded stays so.
LEMMA RecordedStays ==
  ASSUME PostType, [Next]_vars, NEW at, NEW n, Recorded(at, n, Verdicts)
  PROVE  Recorded(at, n, Verdicts)'
BY RowsStay DEF Recorded

\* The rows of lines i to j are about them.
LEMMA LinesRecorded ==
  ASSUME PostType, NEW i \in Nat, i >= 1, NEW j \in Int, NEW current,
         rows' = rows \o LineRows(i, j, current)
  PROVE  \A k \in i..j : /\ RowOf("event", k, events[k].frame, current) \in Range(rows')
                         /\ Recorded("event", k, Verdicts)'
<1> DEFINE s == LineRows(i, j, current)
<1> TAKE k \in i..j
<1>1. k - i + 1 \in 1..j - i + 1 /\ i + (k - i + 1) - 1 = k
  OBVIOUS
<1>2. s[k - i + 1] = RowOf("event", k, events[k].frame, current)
  BY <1>1 DEF LineRows
<1>3. s \in Seq(Row) /\ rows \in Seq(Row)
  BY LineRowsType DEF PostType
<1>4. Len(s) = j - i + 1
  BY <1>1 DEF LineRows
<1> HIDE DEF s
<1>5. /\ Len(rows \o s) = Len(rows) + Len(s) /\ Len(rows) \in Nat /\ Len(s) \in Nat
      /\ (rows \o s)[Len(rows) + (k - i + 1)] = s[k - i + 1]
      /\ rows \o s \in Seq(Row)
  <2>1. /\ Len(rows \o s) = Len(rows) + Len(s) /\ Len(rows) \in Nat /\ Len(s) \in Nat
        /\ rows \o s \in Seq(Row)
        /\ \A m \in 1..Len(rows) + Len(s) :
             (rows \o s)[m] = IF m <= Len(rows) THEN rows[m] ELSE s[m - Len(rows)]
    BY <1>3, ConcatProperties
  <2> DEFINE m == Len(rows) + (k - i + 1)
  <2>2. m \in 1..Len(rows) + Len(s) /\ ~(m <= Len(rows)) /\ m - Len(rows) = k - i + 1
    BY <1>1, <1>4, <2>1
  <2>3. QED
    BY <2>1, <2>2
<1>6. Len(rows) + (k - i + 1) \in DOMAIN (rows \o s)
  BY <1>1, <1>4, <1>5
<1>7. s[k - i + 1] \in Range(rows \o s)
  BY <1>5, <1>6 DEF Range
<1>8. RowOf("event", k, events[k].frame, current) \in Range(rows')
  BY <1>2, <1>7 DEF s
<1>9. /\ RowOf("event", k, events[k].frame, current).item = [at |-> "event", n |-> k]
      /\ RowOf("event", k, events[k].frame, current).verdict \in Verdicts
  BY DEF RowOf, Verdict, CallVerdict, Verdicts
<1>10. QED
  BY <1>8, <1>9 DEF Recorded

\* What the inequalities say of a line that is longer than what the buffer holds
\* beside a chunk: it starts at s and ends at e, behind the position fed.
LEMMA LongLine ==
  ASSUME NEW s \in Nat, NEW e \in Nat, NEW size \in Nat, e = s + size,
         NEW b \in Nat, NEW f \in Nat, NEW t \in Nat, NEW limit \in Nat, NEW chunk \in Nat,
         s <= b, f < e, t <= f + chunk, t - b > limit
  PROVE  size > limit - chunk + 1 /\ \A r \in Nat : r < t => r < e + chunk
OBVIOUS

\* A chunk that overflows the buffer is part of such a line: the next to end.  It
\* is the cause of all lines that the chunk has bytes of and that end behind fed.
LEMMA OverflowHasCause ==
  ASSUME LookInv, NEW to \in Nat, fed < to, to <= fed + ChunkSize, to <= End[Len(events)],
         to - base > Limit, NEW i \in Nat, i > Complete(fed), i <= Len(events) + 1,
         End[i - 1] < to
  PROVE  Cause(i)
<1> DEFINE c == Complete(fed)
<1>1. /\ Limit \in Nat /\ ChunkSize \in Nat /\ fed \in Nat /\ base \in Nat
      /\ End[c] <= base
  BY StreamAssumption DEF LookInv, StreamType, BaseInv
<1>2. Len(events) \in Nat /\ Ends(events, End) /\ Counts(End, Len(events), fed, c)
  BY <1>1, StreamPositions DEF LookInv
<1> HIDE DEF c
<1>3. c \in 0..Len(events) /\ End[c] \in Nat /\ End[c] <= fed /\ End[Len(events)] \in Nat
  BY <1>2 DEF Counts, Ends
<1>4. c < Len(events) /\ c + 1 \in 1..Len(events) /\ (c + 1) - 1 = c
  <2>1. c # Len(events)
    BY <1>1, <1>3
  <2>2. QED
    BY <1>2, <1>3, <2>1
<1>5. /\ End[c + 1] = End[c] + events[c + 1].size /\ fed < End[c + 1]
      /\ events[c + 1].size \in Nat /\ End[c + 1] \in Nat
  <2>1. events[c + 1] \in DataLine
    BY <1>4, ElementOfSeq DEF LookInv, PostType
  <2>2. events[c + 1].size \in Nat
    BY <2>1, StreamAssumption DEF DataLine
  <2>3. QED
    BY <1>2, <1>4, <2>2 DEF Counts, Ends
<1>6. i - 1 \in 0..Len(events) /\ End[i - 1] \in Nat
  BY <1>2, <1>3 DEF Ends, c
<1>7. events[c + 1].size > Limit - ChunkSize + 1 /\ End[i - 1] < End[c + 1] + ChunkSize
  <2> DEFINE s == End[c]
             e == End[c + 1]
             size == events[c + 1].size
  <2>1. /\ s \in Nat /\ e \in Nat /\ size \in Nat /\ e = s + size
        /\ s <= base /\ fed < e /\ base \in Nat /\ fed \in Nat
        /\ Limit \in Nat /\ ChunkSize \in Nat
    BY <1>1, <1>3, <1>5
  <2> HIDE DEF s, e, size
  <2>2. size > Limit - ChunkSize + 1 /\ \A r \in Nat : r < to => r < e + ChunkSize
    BY <2>1, LongLine
  <2>3. QED
    BY <1>6, <2>2 DEF e, size
<1>8. c + 1 \in 1..i
  BY <1>3 DEF c
<1>9. QED
  BY <1>7, <1>8 DEF Cause, Start

\* A step that leaves the stream's lines and its buffer leaves what is unseen.
LEMMA LookStays ==
  ASSUME LookInv, [Next]_vars, UNCHANGED <<events, base, fed>>
  PROVE  (BaseInv /\ UnseenInv)'
<1>1. \A i : Cause(i)' <=> Cause(i)
  BY DEF Cause, Start, End
<1>2. Complete(fed)' = Complete(fed) /\ End' = End
  BY DEF Complete, Line, End
<1>3. BaseInv'
  BY <1>1, <1>2 DEF LookInv, BaseInv
<1>4. UnseenInv'
  <2>1. \A i \in Line : Recorded("event", i, Verdicts) => Recorded("event", i, Verdicts)'
    BY RecordedStays DEF LookInv
  <2>2. Line' = Line
    BY DEF Line
  <2>3. QED
    BY <1>1, <1>2, <2>1, <2>2 DEF LookInv, UnseenInv
<1>5. QED
  BY <1>3, <1>4

\* A new line is behind what was read.
LEMMA LookEmit ==
  ASSUME LookInv, PostType', [Next]_vars, Emit
  PROVE  (BaseInv /\ UnseenInv)'
<1> DEFINE c == Complete(fed)
           n == Len(events)
<1>1. /\ n \in Nat /\ Len(events') = n + 1
      /\ \A i \in 1..n : events'[i] = events[i]
      /\ \A i \in 0..n : End'[i] = End[i]
      /\ End[n] < End'[n + 1]
      /\ \A to \in Nat : to <= End[n] => Complete(to)' = Complete(to)
  BY EmitMoves DEF LookInv
<1>2. UNCHANGED <<base, fed>>
  BY DEF Emit
<1>3. fed \in Nat /\ base \in Nat /\ base <= fed /\ fed <= End[n]
  BY DEF LookInv, StreamType
<1>4. Ends(events, End) /\ Ends(events', End') /\ Counts(End, n, fed, c)
  <2>1. Ends(events, End) /\ Counts(End, n, fed, c)
    BY <1>3, StreamPositions DEF LookInv
  <2>2. Ends(events', End')
    BY EndsOfLines DEF End, PostType
  <2>3. QED
    BY <2>1, <2>2
<1>5. Complete(fed)' = c
  <2>1. Complete(fed)' = Cardinality({i \in 1..Len(events') : End'[i] <= fed'})
    BY DEF Complete, Line
  <2>2. \A to \in Nat : Complete(to)' = Cardinality({i \in 1..Len(events') : End'[i] <= to})
    BY DEF Complete, Line
  <2>3. Complete(fed)' = Cardinality({i \in 1..Len(events') : End'[i] <= fed})
    BY <1>2, <2>1
  <2>4. QED
    BY <1>1, <1>3, <2>2, <2>3
<1>6. ASSUME NEW i \in 1..n, Cause(i) PROVE Cause(i)'
  <2>1. PICK j \in 1..i : /\ events[j].size > Limit - ChunkSize + 1
                          /\ End[i - 1] < End[j] + ChunkSize
    BY <1>6 DEF Cause, Start
  <2>2. j \in 1..n /\ j \in 0..n /\ i - 1 \in 0..n
    BY <1>1, <2>1
  <2>3. events'[j].size > Limit - ChunkSize + 1 /\ End'[i - 1] < End'[j] + ChunkSize
    BY <1>1, <2>1, <2>2
  <2>4. QED
    BY <2>1, <2>3 DEF Cause, Start
<1>7. c \in 0..n /\ End'[c] = End[c] /\ End[c] \in Nat /\ End[n] \in Nat
  BY <1>1, <1>4 DEF Counts, Ends
<1>8. BaseInv'
  <2>1. End[c] <= base /\ (End[c] < base => Cause(c + 1))
    BY DEF LookInv, BaseInv
  <2>2. ASSUME End[c] < base PROVE c + 1 \in 1..n
    <3>1. c # n
      BY <1>3, <1>7, <2>2
    <3>2. QED
      BY <1>1, <1>7, <3>1
  <2>3. ASSUME NEW k, k = c + 1, End[c] < base PROVE Cause(k)'
    BY <1>6, <2>1, <2>2, <2>3
  <2>4. End'[Complete(fed)'] = End[c] /\ base' = base
    BY <1>2, <1>5, <1>7
  <2>5. ASSUME NEW k, k = c + 1, Cause(k)' PROVE Cause(Complete(fed) + 1)'
    BY <1>5, <2>5 DEF Cause, Start
  <2>6. QED
    BY <2>1, <2>3, <2>4, <2>5 DEF BaseInv
<1>9. UnseenInv'
  <2>1. SUFFICES ASSUME NEW i \in Line', End'[i] <= fed', ~Recorded("event", i, Verdicts)'
                 PROVE  Cause(i)'
    BY DEF UnseenInv
  <2>2. i \in 1..n + 1 /\ End'[i] <= fed
    BY <1>1, <1>2, <2>1 DEF Line
  <2>3. i # n + 1
    <3>1. End'[n + 1] \in Nat
      BY <1>1, <1>4 DEF Ends
    <3>2. QED
      BY <1>1, <1>3, <1>7, <2>2, <3>1
  <2>4. i \in 1..n /\ i \in 0..n
    BY <1>1, <2>2, <2>3
  <2>5. End[i] <= fed /\ i \in Line /\ ~Recorded("event", i, Verdicts)
    BY <1>1, <2>1, <2>2, <2>4, RecordedStays DEF Line, LookInv
  <2>6. Cause(i)
    BY <2>5 DEF LookInv, UnseenInv
  <2>7. QED
    BY <1>6, <2>4, <2>6
<1>10. QED
  BY <1>8, <1>9

\* A chunk either is cut off with what it overflows, or its lines get their rows,
\* all but one whose beginning was cut off before.
LEMMA LookScan ==
  ASSUME LookInv, PostType', [Next]_vars, Scan
  PROVE  (BaseInv /\ UnseenInv)'
<1> DEFINE c == Complete(fed)
           n == Len(events)
<1>1. PICK to \in Nat : /\ to = fed' /\ fed < to /\ to <= fed + ChunkSize /\ to <= End[n]
                        /\ Overflow(to) \/ Record(to)
  BY ScanMoves DEF LookInv
<1>2. UNCHANGED events /\ fed \in Nat /\ fed <= to
  BY <1>1 DEF Scan, LookInv, StreamType
<1> DEFINE d == Complete(to)
<1>3. /\ n \in Nat /\ Ends(events, End)
      /\ Counts(End, n, fed, c) /\ Counts(End, n, to, d)
  BY <1>1, <1>2, StreamPositions DEF LookInv
<1>4. /\ c \in 0..n /\ d \in 0..n /\ End[d] \in Nat /\ End[d] <= to /\ c <= d
  BY <1>1, <1>2, CompleteGrows DEF LookInv
<1>5. End' = End /\ Line' = 1..n /\ Line = 1..n
  BY <1>2 DEF End, Line
<1>6. Complete(fed)' = d
  BY <1>1, <1>2, <1>5 DEF Complete
<1>7. \A i : Cause(i)' <=> Cause(i)
  BY <1>2 DEF Cause, Start, End
<1>8. End[c] <= base /\ (End[c] < base => Cause(c + 1)) /\ base \in Nat
  BY DEF LookInv, BaseInv, StreamType
<1>9. \A i \in 1..n : Recorded("event", i, Verdicts) => Recorded("event", i, Verdicts)'
  BY RecordedStays DEF LookInv
<1> HIDE DEF c, d, n
<1>10. (\A i \in 1..n : i > c /\ i <= d /\ ~Recorded("event", i, Verdicts)' => Cause(i))
       => UnseenInv'
  <2>1. ASSUME \A i \in 1..n : i > c /\ i <= d /\ ~Recorded("event", i, Verdicts)' => Cause(i),
               NEW i \in 1..n, End[i] <= to, ~Recorded("event", i, Verdicts)'
        PROVE  Cause(i)
    <3>1. i <= d
      BY <1>3, <2>1 DEF Counts
    <3>2. CASE i <= c
      <4>1. End[i] <= fed /\ ~Recorded("event", i, Verdicts)
        BY <1>3, <1>9, <2>1, <3>2 DEF Counts
      <4>2. QED
        BY <1>5, <4>1 DEF LookInv, UnseenInv
    <3>3. CASE i > c
      BY <2>1, <3>1, <3>3
    <3>4. QED
      BY <1>4, <3>2, <3>3
  <2>2. QED
    BY <1>1, <1>5, <1>7, <2>1 DEF UnseenInv
<1>11. (End[d] <= base' /\ (End[d] < base' => Cause(d + 1))) => BaseInv'
  <2>1. ASSUME NEW k, k = d + 1, Cause(k) PROVE Cause(Complete(fed) + 1)'
    BY <1>2, <1>6, <2>1 DEF Cause, Start, End
  <2>2. QED
    BY <1>5, <1>6, <2>1 DEF BaseInv
<1>12. CASE Overflow(to)
  <2>1. base' = to /\ to - base > Limit
    BY <1>12 DEF Overflow
  <2>2. ASSUME NEW i \in Nat, i > c, i <= n + 1, End[i - 1] < to PROVE Cause(i)
    BY <1>1, <2>1, <2>2, OverflowHasCause DEF c, n
  <2>3. End[d] < to => Cause(d + 1)
    <3>1. d + 1 \in Nat /\ d + 1 > c /\ d + 1 <= n + 1 /\ (d + 1) - 1 = d
      BY <1>3, <1>4
    <3>2. QED
      BY <2>2, <3>1
  <2>4. ASSUME NEW i \in 1..n, i > c, i <= d PROVE Cause(i)
    <3>1. End[i] <= to /\ End[i] \in Nat /\ End[i - 1] \in Nat /\ End[i - 1] < End[i]
      <4>1. i \in 0..n /\ i - 1 \in 0..n /\ i - 1 < i /\ n = Len(events)
        BY <1>3 DEF n
      <4>2. QED
        BY <1>3, <2>4, <4>1 DEF Counts, Ends
    <3>2. QED
      BY <1>3, <2>2, <2>4, <3>1
  <2>5. QED
    BY <1>4, <1>10, <1>11, <2>1, <2>3, <2>4
<1>13. CASE Record(to)
  <2>1. /\ rows' = rows \o LineRows(FirstWhole, d, pin')
        /\ base' = IF d = c THEN base ELSE End[d]
    BY <1>13 DEF Record, AppendLines, c, d
  <2>2. FirstWhole \in Nat /\ FirstWhole >= 1
        /\ FirstWhole = IF base > End[c] THEN c + 2 ELSE c + 1
    BY FirstWholeType DEF LookInv, c
  <2>3. \A i \in FirstWhole..d : Recorded("event", i, Verdicts)'
    <3>1. PICK i, j, current : i = FirstWhole /\ j = d /\ current = pin'
      OBVIOUS
    <3>2. i \in Nat /\ i >= 1 /\ j \in Int /\ rows' = rows \o LineRows(i, j, current)
      BY <1>4, <2>1, <2>2, <3>1
    <3>3. \A k \in i..j : Recorded("event", k, Verdicts)'
      BY <3>2, LinesRecorded DEF LookInv
    <3>4. QED
      BY <3>1, <3>3
  <2>4. ASSUME NEW i \in 1..n, i > c, i <= d, ~Recorded("event", i, Verdicts)' PROVE Cause(i)
    <3>1. i \notin FirstWhole..d
      BY <2>3, <2>4
    <3>2. base > End[c] /\ i = c + 1
      BY <1>3, <1>4, <2>2, <2>4, <3>1
    <3>3. End[c] < base
      BY <1>3, <1>4, <1>8, <3>2 DEF Ends
    <3>4. QED
      BY <1>8, <3>2, <3>3
  <2>5. End[d] <= base' /\ (End[d] < base' => Cause(d + 1))
    BY <1>4, <1>8, <2>1
  <2>6. QED
    BY <1>10, <1>11, <2>4, <2>5
<1>14. QED
  BY <1>1, <1>12, <1>13

\* Only a long line hides lines, itself or those its chunk has bytes of: for any
\* sizes of lines and chunks, in any order they come.
LEMMA LookInvariant == Spec => []LookInv
<1>1. Init => LookInv
  <2> SUFFICES ASSUME Init PROVE LookInv
    OBVIOUS
  <2>1. PostType /\ StreamType
    BY TypeInit, StreamInit
  <2>2. Len(events) = 0 /\ fed = 0 /\ base = 0
    BY DEF Init
  <2>3. Complete(fed) = 0 /\ End[0] = 0
    BY <2>1, <2>2, StreamPositions DEF Counts, Ends
  <2>4. QED
    BY <2>1, <2>2, <2>3 DEF LookInv, BaseInv, UnseenInv, Line
<1>2. LookInv /\ [Next]_vars => LookInv'
  <2> SUFFICES ASSUME LookInv, [Next]_vars PROVE LookInv'
    OBVIOUS
  <2>1. PostType' /\ StreamType'
    BY TypeStep, StreamTypeStep DEF LookInv
  <2>2. CASE Emit
    BY <2>1, <2>2, LookEmit DEF LookInv
  <2>3. CASE Scan
    BY <2>1, <2>3, LookScan DEF LookInv
  <2>4. CASE UNCHANGED <<events, base, fed>>
    BY <2>1, <2>4, LookStays DEF LookInv
  <2>5. UNCHANGED <<events, base, fed>> \/ Emit \/ Scan
    <3>1. ASSUME NEW p \in Post, HandlePost(p) PROVE UNCHANGED <<events, base, fed>>
      BY <3>1, PostSteps DEF LookInv
    <3>2. QED
      BY <3>1 DEF Next, HandleGet, ScanRaises, WriteChunk, StreamEnds, vars, streamVars
  <2>6. QED
    BY <2>2, <2>3, <2>4, <2>5
<1>3. QED
  BY <1>1, <1>2, PTL DEF Spec

\* A line of the stream reaches the client without a row only because of a line
\* that is longer than what the buffer holds beside a chunk, and only if it is
\* that line or starts within a chunk of its end.
THEOREM UnseenExplained == Spec => []UnseenHasCause
<1>1. LookInv => UnseenHasCause
  <2> SUFFICES ASSUME LookInv, NEW i \in Line, End[i] <= written,
                      ~Recorded("event", i, Verdicts)
               PROVE  Cause(i)
    BY DEF UnseenHasCause, Cause
  <2>1. written \in Nat /\ fed \in Nat /\ written <= fed
    BY DEF LookInv, StreamType
  <2>2. End[i] \in Nat
    BY StreamPositions DEF LookInv, Ends, Line
  <2>3. QED
    BY <2>1, <2>2 DEF LookInv, UnseenInv
<1>2. QED
  BY <1>1, LookInvariant, PTL

-----------------------------------------------------------------------------
(* What is on record of the lists that clients were shown *)

\* A list that was shown carries the pin, or a drift is on record.
Traced(frame) == (\E row \in Range(rows) : row.drift) \/ (pin # NoPin /\ frame.desc = pin)

RepliesTraced ==
  \A p \in Post : reply[p] = "original" /\ IsList(answer[p]) => Traced(answer[p])
LinesTraced ==
  \A i \in Line : IsList(events[i].frame) /\ Recorded("event", i, Verdicts)
                    => Traced(events[i].frame)
RowsOfLines == \A row \in Range(rows) : row.item.at = "event" => row.item.n <= Len(events)

ShownInv == PostType /\ StreamType /\ RepliesTraced /\ LinesTraced /\ RowsOfLines

\* What is traced stays so: rows stay, and so does the pin.
LEMMA TraceStays ==
  ASSUME PostType, [Next]_vars, NEW frame, Traced(frame)
  PROVE  Traced(frame)'
<1>1. Range(rows) \subseteq Range(rows')
  BY RowsStay
<1>2. pin # NoPin => pin' = pin
  BY PinStays
<1>3. QED
  BY <1>1, <1>2 DEF Traced

\* A new row of the stream: it compares its line with the pin of then.
LineRow(row, current) ==
  \E k \in Line : /\ row = RowOf("event", k, events[k].frame, current)
                  /\ events[k].frame.kind = "list" => current # NoPin

\* The rows that the lines i to j add.
LEMMA LinesAdd ==
  ASSUME PostType, NEW i \in Nat, i >= 1, NEW j \in Int, j <= Len(events), NEW current,
         \A k \in i..j : events[k].frame.kind = "list" => current # NoPin,
         rows' = rows \o LineRows(i, j, current)
  PROVE  \A row \in Range(rows') : row \in Range(rows) \/ LineRow(row, current)
<1> DEFINE s == LineRows(i, j, current)
<1>1. s \in Seq(Row) /\ rows \in Seq(Row) /\ Len(events) \in Nat
  BY LineRowsType DEF PostType
<1>3. ASSUME NEW k \in 1..Len(s)
      PROVE  s[k] = RowOf("event", i + k - 1, events[i + k - 1].frame, current)
             /\ i + k - 1 \in i..j /\ i + k - 1 \in Line
  <2>1. DOMAIN s = 1..j - i + 1
    BY DEF LineRows
  <2>2. k \in 1..j - i + 1
    <3> HIDE DEF s
    <3>1. DOMAIN s = 1..Len(s)
      BY <1>1
    <3>2. QED
      BY <2>1, <3>1
  <2>3. i + k - 1 \in i..j /\ i + k - 1 \in Line
    BY <1>1, <2>2 DEF Line
  <2>4. QED
    BY <2>2, <2>3 DEF LineRows
<1>4. rows' = rows \o s
  OBVIOUS
<1> HIDE DEF s
<1>5. ASSUME NEW row \in Range(rows') PROVE row \in Range(rows) \/ LineRow(row, current)
  <2>1. row \in Range(rows) \/ \E k \in 1..Len(s) : row = s[k]
    BY <1>1, <1>4, <1>5, ConcatRange
  <2>2. QED
    BY <1>3, <2>1 DEF LineRow
<1>6. QED
  BY <1>5

\* A new row is one of a POST, or of a line of the stream.
LEMMA RowsAdded ==
  ASSUME PostType, StreamType, [Next]_vars
  PROVE  \A row \in Range(rows') :
           row \in Range(rows) \/ row.item.at # "event" \/ LineRow(row, pin')
<1>1. ASSUME NEW p \in Post, NEW at \in {"request", "answer"}, NEW frame,
             rows' = Append(rows, RowOf(at, p, frame, pin)), NEW row \in Range(rows')
      PROVE  row \in Range(rows) \/ row.item.at # "event"
  <2>1. p \in Nat
    BY BoundsAssumption DEF Post
  <2>2. row \in Range(rows) \/ row = RowOf(at, p, frame, pin)
    BY <1>1, <2>1, FrameRecords
  <2>3. QED
    BY <2>2 DEF RowOf
<1>2. ASSUME NEW p \in Post, Evaluate(p) \/ EvaluateRaises(p)
      PROVE  UNCHANGED rows \/ \E frame : rows' = Append(rows, RowOf("request", p, frame, pin))
  BY <1>2 DEF Evaluate, EvaluateRaises
<1>3. ASSUME NEW p \in Post, HandleAnswer(p) \/ HandleAnswerRaises(p)
      PROVE  UNCHANGED rows \/ \E frame : rows' = Append(rows, RowOf("answer", p, frame, pin))
  BY <1>3 DEF HandleAnswer, HandleAnswerRaises
<1>4. ASSUME NEW i \in Nat, i >= 1, NEW j \in Nat, j <= Len(events), NEW m \in Int, m <= j,
             pin' = PinAfterLines(i, j), rows' = rows \o LineRows(i, m, pin'),
             NEW row \in Range(rows')
      PROVE  row \in Range(rows) \/ LineRow(row, pin')
  <2>1. PICK current : current = pin'
    OBVIOUS
  <2>2. (\E k \in i..j : events[k].frame.kind = "list") => current # NoPin
    BY <1>4, <2>1, LinesPin
  <2>3. \A k \in i..m : events[k].frame.kind = "list" => current # NoPin
    BY <1>4, <2>2
  <2>4. m <= Len(events) /\ rows' = rows \o LineRows(i, m, current)
    <3>1. Len(events) \in Nat
      BY DEF PostType
    <3>2. QED
      BY <1>4, <2>1, <3>1
  <2>5. row \in Range(rows) \/ LineRow(row, current)
    BY <1>4, <2>3, <2>4, LinesAdd
  <2>6. QED
    BY <2>1, <2>5
<1>5. ASSUME Scan, NEW row \in Range(rows') PROVE row \in Range(rows) \/ LineRow(row, pin')
  <2>1. Overflow(fed') \/ Record(fed')
    BY <1>5, ScanMoves
  <2>2. CASE UNCHANGED rows
    BY <1>5, <2>2
  <2>3. CASE Record(fed')
    <3>1. PICK i, j : i = FirstWhole /\ j = Complete(fed')
      OBVIOUS
    <3>2. pin' = PinAfterLines(i, j) /\ rows' = rows \o LineRows(i, j, pin')
      BY <2>3, <3>1 DEF Record, AppendLines
    <3>3. i \in Nat /\ i >= 1
      BY <3>1, FirstWholeType
    <3>4. j \in Nat /\ j <= Len(events) /\ j \in Int /\ j <= j
      <4>1. fed' \in Nat /\ Len(events) \in Nat
        BY <1>5, ScanMoves, FirstWholeType
      <4>2. j \in 0..Len(events)
        BY <3>1, <4>1, StreamPositions DEF Counts
      <4>3. QED
        BY <4>1, <4>2
    <3>5. QED
      BY <1>4, <1>5, <3>2, <3>3, <3>4
  <2>4. QED
    BY <2>1, <2>2, <2>3 DEF Overflow
<1>6. ASSUME ScanRaises, NEW row \in Range(rows') PROVE row \in Range(rows) \/ LineRow(row, pin')
  <2>1. PICK j \in Nat : /\ j \in FirstWhole..Len(events)
                         /\ pin' = PinAfterLines(FirstWhole, j)
                         /\ \E m \in {j - 1, j} : rows' = rows \o LineRows(FirstWhole, m, pin')
    BY <1>6, RaisedAt
  <2>2. PICK i, m : /\ i = FirstWhole /\ m \in {j - 1, j}
                    /\ rows' = rows \o LineRows(i, m, pin')
    BY <2>1
  <2>3. i \in Nat /\ i >= 1 /\ j <= Len(events) /\ m \in Int /\ m <= j
    BY <2>1, <2>2, FirstWholeType
  <2>4. pin' = PinAfterLines(i, j) /\ rows' = rows \o LineRows(i, m, pin')
    BY <2>1, <2>2
  <2>5. QED
    BY <1>4, <1>6, <2>3, <2>4
<1>7. \/ UNCHANGED rows \/ Scan \/ ScanRaises
      \/ \E p \in Post : \/ Evaluate(p) \/ EvaluateRaises(p)
                         \/ HandleAnswer(p) \/ HandleAnswerRaises(p)
  BY DEF Next, HandlePost, HandleGet, RefuseLarge, Send, Redirect, UpstreamFails,
     Deliver, Emit, WriteChunk, StreamEnds, vars
<1>8. QED
  BY <1>1, <1>2, <1>3, <1>5, <1>6, <1>7

\* A list that is handed on with a POST's answer has its row.
LEMMA RepliesTracedStep ==
  ASSUME ShownInv, PostType', [Next]_vars
  PROVE  RepliesTraced'
<1>1. SUFFICES ASSUME NEW p \in Post, reply'[p] = "original", IsList(answer'[p])
               PROVE  \A frame : frame = answer'[p] => Traced(frame)'
  BY DEF RepliesTraced, Traced
<1>2. PostType /\ answer \in [Post -> Answers \cup {NoFrame}]
  BY DEF ShownInv, PostType
<1>3. CASE answer'[p] = answer[p] /\ reply[p] = "original"
  <2>1. \A frame : frame = answer[p] => Traced(frame)
    BY <1>1, <1>3 DEF ShownInv, RepliesTraced, Traced
  <2>2. QED
    BY <1>2, <1>3, <2>1, TraceStays
<1>4. CASE HandleAnswer(p)
  <2>1. PICK frame \in Answers :
          /\ answer' = [answer EXCEPT ![p] = frame]
          /\ pin' = PinAfter(frame, pin)
          /\ rows' = IF frame.kind = "empty" THEN rows
                     ELSE Append(rows, RowOf("answer", p, frame, pin))
    BY <1>4 DEF HandleAnswer
  <2>2. answer'[p] = frame /\ frame.kind = "list" /\ frame.desc \in Desc
    BY <1>1, <1>2, <2>1, FramesAssumption DEF IsList, Frame
  <2>3. CASE Drifts(frame, pin)
    <3>1. p \in Nat
      BY BoundsAssumption DEF Post
    <3>2. RowOf("answer", p, frame, pin) \in Range(rows')
      BY <1>2, <2>1, <2>2, <3>1, FrameRecords
    <3>3. RowOf("answer", p, frame, pin).drift
      BY <2>3 DEF RowOf
    <3>4. QED
      BY <3>2, <3>3 DEF Traced
  <2>4. CASE ~Drifts(frame, pin)
    <3>1. pin \in {NoPin, frame.desc}
      BY <2>2, <2>4 DEF Drifts
    <3>2. pin' # NoPin /\ frame.desc = pin'
      BY <2>1, <2>2, <3>1, PinAssumption DEF PinAfter
    <3>3. QED
      BY <2>2, <3>2 DEF Traced
  <2>5. QED
    BY <2>3, <2>4
<1>5. QED
  BY <1>1, <1>2, <1>3, <1>4, ReplyMoves

\* A list of the stream that gets a row pins, agrees with the pin, or is a drift.
LEMMA LinesTracedStep ==
  ASSUME ShownInv, PostType', [Next]_vars
  PROVE  LinesTraced' /\ RowsOfLines'
<1>1. /\ PostType /\ StreamType /\ Len(events) \in Nat /\ Len(events') \in Nat
      /\ \A row \in Range(rows') :
           row \in Range(rows) \/ row.item.at # "event" \/ LineRow(row, pin')
  BY RowsAdded DEF ShownInv, PostType
<1>2. /\ Len(events) <= Len(events')
      /\ \A i \in 1..Len(events) : events'[i] = events[i]
  <2>1. CASE Emit
    BY <1>1, <2>1, EmitMoves
  <2>2. ASSUME NEW p \in Post, HandlePost(p) PROVE UNCHANGED events
    BY <1>1, <2>2, PostSteps
  <2>3. UNCHANGED events \/ Emit
    BY <2>2 DEF Next, HandleGet, Scan, ScanRaises, WriteChunk, StreamEnds, vars, streamVars
  <2>4. QED
    BY <1>1, <2>1, <2>3
<1>3. ASSUME NEW row, LineRow(row, pin')
      PROVE  /\ row.item.at = "event" /\ row.item.n \in 1..Len(events)
             /\ IsList(events[row.item.n].frame) =>
                  row.drift \/ (pin' # NoPin /\ events[row.item.n].frame.desc = pin')
  <2>1. PICK k \in Line : /\ row = RowOf("event", k, events[k].frame, pin')
                          /\ events[k].frame.kind = "list" => pin' # NoPin
    BY <1>3 DEF LineRow
  <2>2. row.item.at = "event" /\ row.item.n = k /\ row.drift = Drifts(events[k].frame, pin')
    BY <2>1 DEF RowOf
  <2>3. IsList(events[k].frame) => Drifts(events[k].frame, pin')
                                   \/ (pin' # NoPin /\ events[k].frame.desc = pin')
    BY <2>1 DEF IsList, Drifts
  <2>4. QED
    BY <2>2, <2>3 DEF Line
<1>4. RowsOfLines'
  <2>1. SUFFICES ASSUME NEW row \in Range(rows'), row.item.at = "event"
                 PROVE  row.item.n <= Len(events')
    BY DEF RowsOfLines
  <2>2. CASE row \in Range(rows)
    <3>1. row.item.n \in Nat
      <4>1. rows \in Seq(Row)
        BY <1>1 DEF PostType
      <4>2. row \in Row
        BY <2>2, <4>1 DEF Range
      <4>3. QED
        BY <4>2 DEF Row, Item
    <3>2. row.item.n <= Len(events)
      BY <2>1, <2>2 DEF ShownInv, RowsOfLines
    <3>3. QED
      BY <1>1, <1>2, <3>1, <3>2
  <2>3. CASE LineRow(row, pin')
    BY <1>1, <1>2, <1>3, <2>3
  <2>4. QED
    BY <1>1, <2>1, <2>2, <2>3
<1>5. LinesTraced'
  <2>1. SUFFICES ASSUME NEW i \in 1..Len(events'), IsList(events'[i].frame),
                        Recorded("event", i, Verdicts)'
                 PROVE  \A frame : frame = events'[i].frame => Traced(frame)'
    BY DEF LinesTraced, Line, Traced
  <2>2. PICK row \in Range(rows') : row.item = [at |-> "event",
  n |-> i] /\ row.verdict \in Verdicts
    BY <2>1 DEF Recorded
  <2>3. row.item.at = "event" /\ row.item.n = i /\ i \in Nat
    BY <1>1, <2>2
  <2>4. CASE row \in Range(rows)
    <3>1. i <= Len(events)
      BY <2>3, <2>4 DEF ShownInv, RowsOfLines
    <3>2. i \in Line /\ events'[i] = events[i]
      BY <1>1, <1>2, <2>1, <3>1 DEF Line
    <3>3. Recorded("event", i, Verdicts)
      BY <2>2, <2>4 DEF Recorded
    <3>4. \A frame : frame = events[i].frame => Traced(frame)
      BY <2>1, <3>2, <3>3 DEF ShownInv, LinesTraced, Traced
    <3>5. QED
      BY <1>1, <3>2, <3>4, TraceStays
  <2>5. CASE LineRow(row, pin')
    <3>1. /\ i \in 1..Len(events)
          /\ IsList(events[i].frame) =>
               row.drift \/ (pin' # NoPin /\ events[i].frame.desc = pin')
      BY <1>3, <2>3, <2>5
    <3>2. events'[i] = events[i]
      BY <1>2, <3>1
    <3>3. row.drift \/ (pin' # NoPin /\ events'[i].frame.desc = pin')
      BY <2>1, <3>1, <3>2
    <3>4. QED
      BY <2>2, <3>3 DEF Traced
  <2>6. QED
    BY <1>1, <2>2, <2>3, <2>4, <2>5
<1>6. QED
  BY <1>4, <1>5

\* Two descriptions that clients were shown, by replies or by lists on one "data:"
\* line of the stream, leave a drift on record, in every order of POSTs and chunks
\* and with every fault, unless such a line went unseen.
THEOREM DriftRecorded == Spec => []DriftOnRecord
<1>1. Init => ShownInv
  <2> SUFFICES ASSUME Init PROVE ShownInv
    OBVIOUS
  <2>1. PostType /\ StreamType
    BY TypeInit, StreamInit
  <2>2. RepliesTraced /\ LinesTraced /\ RowsOfLines
    BY DEF Init, RepliesTraced, LinesTraced, RowsOfLines, Line, IsList, Range
  <2>3. QED
    BY <2>1, <2>2 DEF ShownInv
<1>2. ShownInv /\ [Next]_vars => ShownInv'
  <2> SUFFICES ASSUME ShownInv, [Next]_vars PROVE ShownInv'
    OBVIOUS
  <2>1. PostType' /\ StreamType'
    BY TypeStep, StreamTypeStep DEF ShownInv
  <2>2. QED
    BY <2>1, RepliesTracedStep, LinesTracedStep DEF ShownInv
<1>3. ShownInv => DriftOnRecord
  <2> SUFFICES ASSUME ShownInv, \A row \in Range(rows) : ~row.drift,
                      \A i \in ListsStreamed : Recorded("event", i, Verdicts)
               PROVE  \A c \in DescsShown : c = pin
    BY DEF DriftOnRecord
  <2>1. \A p \in ListsReplied : answer[p].desc = pin
    BY DEF ListsReplied, ShownInv, RepliesTraced, Traced
  <2>2. \A i \in ListsStreamed : events[i].frame.desc = pin
    BY DEF ListsStreamed, ShownInv, LinesTraced, Traced
  <2>3. QED
    BY <2>1, <2>2 DEF DescsShown, DescsReplied
<1>4. QED
  BY <1>1, <1>2, <1>3, PTL DEF Spec

-----------------------------------------------------------------------------
(* The proxy keeps the promise of Gateway *)

\* A server that sends a call has it evaluated like a client's, but the code
\* refuses only what is denied: a call that is to be redacted or approved would be
\* handed on as it is.  In the protocol, calls come from clients alone.
ServersSendNoSuchCall ==
  \A frame \in Answers : frame.kind = "call" => CallVerdict(frame) \in {"allow", "deny"}

\* The rows, as Gateway sees them.
RowsOf(a) == [i \in 1..Len(a) |-> [item |-> a[i].item, verdict |-> a[i].verdict]]

\* Rows that are added are records behind the others.
LEMMA RowsOfConcat ==
  ASSUME NEW a \in Seq(Row), NEW s \in Seq(Row)
  PROVE  LET b == a \o s IN
         /\ Len(RowsOf(a)) = Len(a) /\ Len(RowsOf(b)) = Len(a) + Len(s)
         /\ SubSeq(RowsOf(b), 1, Len(a)) = RowsOf(a)
         /\ \A i \in 1..Len(a) : RowsOf(b)[i].item = a[i].item
         /\ \A k \in 1..Len(s) : RowsOf(b)[Len(a) + k].item = s[k].item
<1> DEFINE b == a \o s
           Pair == [item : Item, verdict : Verdicts]
<1>1. /\ b \in Seq(Row) /\ Len(b) = Len(a) + Len(s) /\ Len(a) \in Nat /\ Len(s) \in Nat
      /\ \A m \in 1..Len(a) + Len(s) : b[m] = IF m <= Len(a) THEN a[m] ELSE s[m - Len(a)]
  BY ConcatProperties
<1> HIDE DEF b
<1>2. ASSUME NEW t \in Seq(Row)
      PROVE  RowsOf(t) \in Seq(Pair) /\ Len(RowsOf(t)) = Len(t)
  <2>1. \A i \in 1..Len(t) : [item |-> t[i].item, verdict |-> t[i].verdict] \in Pair
    <3>1. \A i \in 1..Len(t) : t[i] \in Row
      OBVIOUS
    <3>2. QED
      BY <3>1 DEF Row
  <2>2. RowsOf(t) \in [1..Len(t) -> Pair] /\ Len(t) \in Nat
    BY <2>1 DEF RowsOf
  <2>3. QED
    BY <2>2, FunctionIsSeq
<1>3. \A i \in 1..Len(a) : RowsOf(b)[i] = RowsOf(a)[i] /\ RowsOf(b)[i].item = a[i].item
  <2> SUFFICES ASSUME NEW i \in 1..Len(a)
               PROVE  RowsOf(b)[i] = RowsOf(a)[i] /\ RowsOf(b)[i].item = a[i].item
    OBVIOUS
  <2>1. i \in 1..Len(a) + Len(s) /\ i \in 1..Len(b) /\ b[i] = a[i]
    BY <1>1
  <2>2. QED
    BY <2>1 DEF RowsOf
<1>5. \A k \in 1..Len(s) : RowsOf(b)[Len(a) + k].item = s[k].item
  <2> SUFFICES ASSUME NEW k \in 1..Len(s) PROVE RowsOf(b)[Len(a) + k].item = s[k].item
    OBVIOUS
  <2>1. /\ Len(a) + k \in 1..Len(a) + Len(s) /\ Len(a) + k \in 1..Len(b)
        /\ ~(Len(a) + k <= Len(a)) /\ (Len(a) + k) - Len(a) = k
    BY <1>1
  <2>2. b[Len(a) + k] = s[k]
    BY <1>1, <2>1
  <2>3. QED
    BY <2>1, <2>2 DEF RowsOf
<1>6. SubSeq(RowsOf(b), 1, Len(a)) = RowsOf(a)
  <2>1. \A i \in 1..Len(a) : RowsOf(b)[i] \in Pair
    <3>1. RowsOf(b) \in Seq(Pair) /\ Len(RowsOf(b)) = Len(a) + Len(s)
      BY <1>1, <1>2
    <3>2. \A i \in 1..Len(a) : i \in 1..Len(RowsOf(b))
      BY <1>1, <3>1
    <3>3. QED
      BY <3>1, <3>2, ElementOfSeq
  <2>2. /\ SubSeq(RowsOf(b), 1, Len(a)) \in Seq(Pair)
        /\ Len(SubSeq(RowsOf(b), 1, Len(a))) = Len(a)
        /\ \A i \in 1..Len(a) : SubSeq(RowsOf(b), 1, Len(a))[i] = RowsOf(b)[i]
    BY <1>1, <2>1, SubSeqProperties
  <2>3. QED
    BY <1>2, <1>3, <2>2, SeqEqual
<1>7. QED
  BY <1>1, <1>2, <1>3, <1>5, <1>6 DEF b

\* A row is of a POST whose handler got so far, or of a line that was read.
RowsOwned ==
  \A row \in Range(rows) :
    /\ row.item.at = "request" => row.item.n \in Post /\ pc[row.item.n] # "idle"
    /\ row.item.at = "answer" =>
         row.item.n \in Post /\ pc[row.item.n] \in {"replying", "done"}
    /\ row.item.at = "event" => stream = "over" \/ row.item.n <= Complete(fed)

\* The rows that a step adds: of the POST whose turn it is, or of the next lines.
OfPost(s, p) ==
  /\ Len(s) = 1
  /\ \/ s[1].item = [at |-> "request", n |-> p] /\ pc[p] = "idle" /\ pc'[p] # "idle"
     \/ /\ s[1].item = [at |-> "answer", n |-> p]
        /\ pc[p] = "waiting" /\ pc'[p] = "replying"
OfLines(s, i) ==
  /\ stream # "over" /\ i \in Nat /\ i > Complete(fed)
  /\ \A k \in 1..Len(s) : s[k].item = [at |-> "event", n |-> i + k - 1]
  /\ stream' = "over" \/ \A k \in 1..Len(s) : i + k - 1 <= Complete(fed)'
Added(s) ==
  /\ s \in Seq(Row) /\ rows' = rows \o s
  /\ \/ Len(s) = 0
     \/ \E p \in Post : OfPost(s, p)
     \/ \E i : OfLines(s, i)

\* The items of the rows of the lines i to j.
LEMMA LineItems ==
  ASSUME NEW i \in Nat, i >= 1, NEW j \in Int, NEW current
  PROVE  LET s == LineRows(i, j, current) IN
         /\ s \in Seq(Row)
         /\ \A k \in 1..Len(s) : /\ s[k].item = [at |-> "event", n |-> i + k - 1]
                                 /\ i + k - 1 <= j
<1> DEFINE s == LineRows(i, j, current)
<1>1. s \in Seq(Row)
  BY LineRowsType
<1>2. DOMAIN s = 1..j - i + 1
  BY DEF LineRows
<1>3. \A k \in 1..j - i + 1 : s[k].item = [at |-> "event", n |-> i + k - 1]
  BY DEF LineRows, RowOf
<1> HIDE DEF s
<1>4. DOMAIN s = 1..Len(s)
  BY <1>1
<1>5. \A k \in 1..Len(s) : k \in 1..j - i + 1 /\ i + k - 1 <= j
  BY <1>2, <1>4
<1>6. QED
  BY <1>1, <1>3, <1>5 DEF s

\* Every step adds such rows, or none.
LEMMA AddedRows == ASSUME PostType, StreamType, [Next]_vars PROVE \E s : Added(s)
<1>1. /\ rows \in Seq(Row) /\ Len(events) \in Nat
      /\ pc \in [Post -> {"idle", "sending", "waiting", "replying", "done"}]
  BY DEF PostType
<1>2. CASE UNCHANGED rows
  <2>1. <<>> \in Seq(Row) /\ rows' = rows \o <<>> /\ Len(<<>>) = 0
    BY <1>1, <1>2, ConcatEmptySeq
  <2>2. QED
    BY <2>1 DEF Added
<1>3. ASSUME NEW p \in Post, NEW at \in {"request", "answer"}, NEW frame,
             rows' = Append(rows, RowOf(at, p, frame, pin)),
             \/ at = "request" /\ pc[p] = "idle" /\ pc'[p] # "idle"
             \/ at = "answer" /\ pc[p] = "waiting" /\ pc'[p] = "replying"
      PROVE  \E s : Added(s)
  <2> DEFINE row == RowOf(at, p, frame, pin)
  <2>1. p \in Nat
    BY BoundsAssumption DEF Post
  <2>2. row \in Row
    BY <2>1, RowType
  <2>3. row.item = [at |-> at, n |-> p]
    BY DEF RowOf
  <2> HIDE DEF row
  <2>4. <<row>> \in Seq(Row) /\ Len(<<row>>) = 1 /\ <<row>>[1] = row
    BY <2>2
  <2>5. rows' = rows \o <<row>>
    BY <1>1, <1>3, <2>2, AppendIsConcat DEF row
  <2>6. OfPost(<<row>>, p)
    BY <1>3, <2>3, <2>4 DEF OfPost
  <2>7. QED
    BY <2>4, <2>5, <2>6 DEF Added
<1>4. ASSUME NEW p \in Post, Evaluate(p) \/ EvaluateRaises(p) PROVE \E s : Added(s)
  <2>1. pc[p] = "idle" /\ pc'[p] # "idle"
    BY <1>1, <1>4 DEF Evaluate, EvaluateRaises, Arrives, Return
  <2>2. UNCHANGED rows \/ \E body : rows' = Append(rows, RowOf("request", p, body, pin))
    BY <1>4 DEF Evaluate, EvaluateRaises
  <2>3. QED
    BY <1>2, <1>3, <2>1, <2>2
<1>5. ASSUME NEW p \in Post, HandleAnswer(p) \/ HandleAnswerRaises(p) PROVE \E s : Added(s)
  <2>1. pc[p] = "waiting" /\ pc'[p] = "replying"
    BY <1>1, <1>5 DEF HandleAnswer, HandleAnswerRaises, Return
  <2>2. UNCHANGED rows \/ \E frame : rows' = Append(rows, RowOf("answer", p, frame, pin))
    BY <1>5 DEF HandleAnswer, HandleAnswerRaises
  <2>3. QED
    BY <1>2, <1>3, <2>1, <2>2
<1>6. ASSUME NEW i \in Nat, i >= 1, NEW j \in Int, NEW current,
             rows' = rows \o LineRows(i, j, current),
             i > Complete(fed), stream # "over",
             stream' = "over" \/ j <= Complete(fed)'
      PROVE  \E s : Added(s)
  <2> DEFINE s == LineRows(i, j, current)
  <2>1. /\ s \in Seq(Row)
        /\ \A k \in 1..Len(s) : s[k].item = [at |-> "event", n |-> i + k - 1] /\ i + k - 1 <= j
    BY <1>6, LineItems
  <2>2. rows' = rows \o s
    BY <1>6
  <2> HIDE DEF s
  <2>3. stream' = "over" \/ \A k \in 1..Len(s) : i + k - 1 <= Complete(fed)'
    <3>1. CASE stream' = "over"
      BY <3>1
    <3>2. CASE j <= Complete(fed)'
      <4>1. PICK d : d = Complete(fed)' /\ j <= d
        BY <3>2
      <4>2. PostType'
        BY TypeStep
      <4>3. d \in Nat
        <5>1. Complete(fed)' = Cardinality({m \in 1..Len(events') : End'[m] <= fed'})
          BY DEF Complete, Line
        <5>2. Len(events') \in Nat
          BY <4>2 DEF PostType
        <5>3. IsFiniteSet(1..Len(events'))
          BY <5>2, FS_Interval
        <5>4. IsFiniteSet({m \in 1..Len(events') : End'[m] <= fed'})
          BY <5>3, FS_Subset
        <5>5. QED
          BY <4>1, <5>1, <5>4, FS_CardinalityType
      <4>4. ASSUME NEW k \in 1..Len(s) PROVE i + k - 1 <= d
        <5>1. i + k - 1 <= j
          BY <2>1
        <5>2. QED
          BY <4>1, <4>3, <5>1
      <4>5. QED
        BY <4>1, <4>4
    <3>3. QED
      BY <1>6, <3>1, <3>2
  <2>4. OfLines(s, i)
    BY <1>6, <2>1, <2>3 DEF OfLines
  <2>5. QED
    BY <2>1, <2>2, <2>4 DEF Added
<1>7. FirstWhole \in Nat /\ FirstWhole >= 1 /\ FirstWhole > Complete(fed)
  <2>1. /\ Complete(fed) \in 0..Len(events)
        /\ FirstWhole = IF base > End[Complete(fed)] THEN Complete(fed) + 2 ELSE Complete(fed) + 1
    BY FirstWholeType
  <2>2. QED
    BY <1>1, <2>1
<1>8. ASSUME Scan PROVE \E s : Added(s)
  <2>1. Overflow(fed') \/ Record(fed')
    BY <1>8, ScanMoves
  <2>2. CASE Overflow(fed')
    BY <1>2, <2>2 DEF Overflow
  <2>3. CASE Record(fed')
    <3>1. PICK i, j, current : i = FirstWhole /\ j = Complete(fed') /\ current = pin'
      OBVIOUS
    <3>2. rows' = rows \o LineRows(i, j, current)
      BY <2>3, <3>1 DEF Record, AppendLines
    <3>3. j \in Int
      <4>1. j \in Nat
        BY <1>1, <3>1, CompleteType
      <4>2. QED
        BY <4>1
    <3>4. j = Complete(fed)'
      BY <1>8, <3>1 DEF Scan, Complete, Line, End
    <3>5. stream # "over" /\ j <= Complete(fed)'
      <4>1. j <= j
        BY <3>3
      <4>2. QED
        BY <1>8, <3>4, <4>1 DEF Scan
    <3>6. QED
      BY <1>6, <1>7, <3>1, <3>2, <3>3, <3>5
  <2>4. QED
    BY <2>1, <2>2, <2>3
<1>9. ASSUME ScanRaises PROVE \E s : Added(s)
  <2>1. PICK j \in Int : rows' = rows \o LineRows(FirstWhole, j, pin')
    <3>1. PICK k \in Nat : \E j \in {k - 1, k} : rows' = rows \o LineRows(FirstWhole, j, pin')
      BY <1>9, RaisedAt
    <3>2. {k - 1, k} \subseteq Int
      OBVIOUS
    <3>3. QED
      BY <3>1, <3>2
  <2>2. PICK i, current : i = FirstWhole /\ current = pin'
    OBVIOUS
  <2>3. stream # "over" /\ stream' = "over"
    BY <1>9 DEF ScanRaises
  <2>4. rows' = rows \o LineRows(i, j, current)
    BY <2>1, <2>2
  <2>5. QED
    BY <1>6, <1>7, <2>2, <2>3, <2>4
<1>10. \/ UNCHANGED rows \/ Scan \/ ScanRaises
       \/ \E p \in Post : \/ Evaluate(p) \/ EvaluateRaises(p)
                          \/ HandleAnswer(p) \/ HandleAnswerRaises(p)
  BY DEF Next, HandlePost, HandleGet, RefuseLarge, Send, Redirect, UpstreamFails,
     Deliver, Emit, WriteChunk, StreamEnds, vars
<1>11. QED
  BY <1>2, <1>4, <1>5, <1>8, <1>9, <1>10

\* What POSTs do to the POST that they are not.
LEMMA OtherPosts ==
  ASSUME PostType, NEW p \in Post, NEW q \in Post, HandlePost(q), p # q
  PROVE  /\ pc'[p] = pc[p] /\ request'[p] = request[p]
         /\ answer'[p] = answer[p] /\ reply'[p] = reply[p]
<1>1. /\ pc \in [Post -> {"idle", "sending", "waiting", "replying", "done"}]
      /\ request \in [Post -> Bodies \cup {NoFrame}]
      /\ answer \in [Post -> Answers \cup {NoFrame}]
      /\ reply \in [Post -> {"none", "refused", "error", "failed", "original"}]
  BY DEF PostType
<1>2. \/ UNCHANGED pc \/ \E c : pc' = [pc EXCEPT ![q] = c]
  BY DEF HandlePost, Evaluate, EvaluateRaises, RefuseLarge, Send, Redirect, UpstreamFails,
     HandleAnswer, HandleAnswerRaises, Deliver, Return
<1>3. \/ UNCHANGED request \/ \E c : request' = [request EXCEPT ![q] = c]
  BY DEF HandlePost, Evaluate, EvaluateRaises, RefuseLarge, Send, Redirect, UpstreamFails,
     HandleAnswer, HandleAnswerRaises, Deliver
<1>4. \/ UNCHANGED answer \/ \E c : answer' = [answer EXCEPT ![q] = c]
  BY DEF HandlePost, Evaluate, EvaluateRaises, RefuseLarge, Send, Redirect, UpstreamFails,
     HandleAnswer, HandleAnswerRaises, Deliver
<1>5. \/ UNCHANGED reply \/ \E c : reply' = [reply EXCEPT ![q] = c]
  BY DEF HandlePost, Evaluate, EvaluateRaises, RefuseLarge, Send, Redirect, UpstreamFails,
     HandleAnswer, HandleAnswerRaises, Deliver, Return
<1>6. QED
  BY <1>1, <1>2, <1>3, <1>4, <1>5

\* The steps of the stream leave the POSTs alone.
LEMMA PostsOrStream ==
  ASSUME [Next]_vars PROVE (\E p \in Post : HandlePost(p)) \/ UNCHANGED postVars
BY DEF Next, HandleGet, Emit, Scan, ScanRaises, WriteChunk, StreamEnds, vars

\* What is recorded of a POST, and the form its verdict allows.
Passes(at, p, form) ==
  \E row \in Range(rows) : row.item = [at |-> at, n |-> p] /\ form = Promise!FormOf[row.verdict]

SentForm(body) ==
  IF body.kind = "call" /\ CallVerdict(body) = "redact" THEN "redacted" ELSE "original"

\* A request that waits to be sent has its row, and so has a reply.
NoAnswerYet == \A p \in Post : pc[p] \notin {"replying", "done"} => answer[p] = NoFrame
RequestsRecorded ==
  \A p \in Post : pc[p] = "sending" => Passes("request", p, SentForm(request[p]))
RepliesRecorded ==
  \A p \in Post :
    /\ pc[p] \in {"replying", "done"} /\ reply[p] \in {"error", "original"}
    /\ answer[p] = NoFrame \/ answer[p].kind # "empty"
    => Passes(IF answer[p] = NoFrame THEN "request" ELSE "answer", p, reply[p])

ServeInv ==
  /\ PostType /\ StreamType /\ RowsOwned
  /\ NoAnswerYet /\ RequestsRecorded /\ RepliesRecorded

\* Handlers and the stream only advance.
LEMMA Advances ==
  ASSUME PostType, StreamType, PostType', [Next]_vars
  PROVE  /\ \A p \in Post : pc[p] # "idle" => pc'[p] # "idle"
         /\ \A p \in Post : pc[p] \in {"replying", "done"} => pc'[p] \in {"replying", "done"}
         /\ stream = "over" => stream' = "over"
         /\ Complete(fed) \in Nat /\ \A d : d = Complete(fed)' => d \in Nat /\ Complete(fed) <= d
<1>1. /\ pc \in [Post -> {"idle", "sending", "waiting", "replying", "done"}]
      /\ fed \in Nat /\ fed <= End[Len(events)] /\ Len(events) \in Nat
  BY DEF PostType, StreamType
<1>2. ASSUME NEW p \in Post, NEW q \in Post, HandlePost(q)
      PROVE  /\ pc[p] # "idle" => pc'[p] # "idle"
             /\ pc[p] \in {"replying", "done"} => pc'[p] \in {"replying", "done"}
  <2>1. CASE p # q
    BY <1>2, <2>1, OtherPosts
  <2>2. CASE p = q
    BY <1>1, <1>2, <2>2 DEF HandlePost, Evaluate, EvaluateRaises, RefuseLarge, Send,
       Redirect, UpstreamFails, HandleAnswer, HandleAnswerRaises, Deliver, Return, Arrives
  <2>3. QED
    BY <2>1, <2>2
<1>3. /\ \A p \in Post : pc[p] # "idle" => pc'[p] # "idle"
      /\ \A p \in Post : pc[p] \in {"replying", "done"} => pc'[p] \in {"replying", "done"}
  BY <1>2, PostsOrStream DEF postVars
<1>4. \A p \in Post : HandlePost(p) => UNCHANGED <<events, fed, stream>>
  BY PostSteps
<1>5. stream = "over" => stream' = "over"
  BY <1>4 DEF Next, HandleGet, Emit, Scan, ScanRaises, WriteChunk, StreamEnds, vars, streamVars
<1>6. Complete(fed) \in Nat
  BY <1>1, CompleteType
<1>7. CASE Emit
  <2>1. PICK d : d = Complete(fed)'
    OBVIOUS
  <2>2. \A to \in Nat : to <= End[Len(events)] => Complete(to)' = Complete(to)
    BY <1>7, EmitMoves
  <2>3. /\ d = Cardinality({i \in 1..Len(events') : End'[i] <= fed})
        /\ \A to \in Nat : Complete(to)' = Cardinality({i \in 1..Len(events') : End'[i] <= to})
    BY <1>7, <2>1 DEF Emit, Complete, Line
  <2>4. d = Complete(fed)
    BY <1>1, <2>2, <2>3
  <2>5. d \in Nat /\ Complete(fed) <= d
    BY <1>6, <2>4
  <2>6. QED
    BY <1>3, <1>5, <1>6, <2>1, <2>5
<1>8. CASE Scan
  <2>1. PICK to \in Nat : to = fed' /\ fed < to
    BY <1>8, ScanMoves
  <2>2. Complete(fed)' = Complete(to)
    BY <1>8, <2>1 DEF Scan, Complete, Line, End
  <2>3. fed <= to
    BY <1>1, <2>1
  <2>4. Complete(fed) <= Complete(to) /\ Complete(to) \in Nat
    BY <1>1, <2>3, CompleteGrows, CompleteType
  <2>5. QED
    BY <1>3, <1>5, <1>6, <2>2, <2>4
<1>9. CASE UNCHANGED <<events, fed>>
  <2>1. Complete(fed)' = Complete(fed)
    BY <1>9 DEF Complete, Line, End
  <2>2. Complete(fed) <= Complete(fed)
    BY <1>6
  <2>3. QED
    BY <1>3, <1>5, <1>6, <2>1, <2>2
<1>10. UNCHANGED <<events, fed>> \/ Emit \/ Scan
  BY <1>4 DEF Next, HandleGet, ScanRaises, WriteChunk, StreamEnds, vars, streamVars
<1>11. QED
  BY <1>7, <1>8, <1>9, <1>10

\* Rows are owned as they are added.
LEMMA RowsOwnedStep ==
  ASSUME PostType, StreamType, RowsOwned, PostType', [Next]_vars
  PROVE  RowsOwned'
<1>1. PICK s : Added(s)
  BY AddedRows
<1>2. /\ \A p \in Post : pc[p] # "idle" => pc'[p] # "idle"
      /\ \A p \in Post : pc[p] \in {"replying", "done"} => pc'[p] \in {"replying", "done"}
      /\ stream = "over" => stream' = "over"
  BY Advances
<1>3. PICK d : d = Complete(fed)' /\ d \in Nat /\ Complete(fed) \in Nat /\ Complete(fed) <= d
  BY Advances
<1>4. rows \in Seq(Row) /\ s \in Seq(Row) /\ rows' = rows \o s
  BY <1>1 DEF PostType, Added
<1>5. SUFFICES ASSUME NEW row \in Range(rows')
               PROVE  /\ row.item.at = "request" =>
                           row.item.n \in Post /\ pc'[row.item.n] # "idle"
                      /\ row.item.at = "answer" =>
                           row.item.n \in Post /\ pc'[row.item.n] \in {"replying", "done"}
                      /\ row.item.at = "event" => stream' = "over" \/ row.item.n <= d
  BY <1>3 DEF RowsOwned
<1>6. CASE row \in Range(rows)
  <2>1. row.item.n \in Nat
    <3>1. row \in Row
      BY <1>4, <1>6 DEF Range
    <3>2. QED
      BY <3>1 DEF Row, Item
  <2>2. row.item.at = "event" => stream' = "over" \/ row.item.n <= d
    BY <1>2, <1>3, <1>6, <2>1 DEF RowsOwned
  <2>3. QED
    BY <1>2, <1>6, <2>2 DEF RowsOwned
<1>7. ASSUME NEW k \in 1..Len(s), row = s[k]
      PROVE  /\ row.item.at = "request" =>
                  row.item.n \in Post /\ pc'[row.item.n] # "idle"
             /\ row.item.at = "answer" =>
                  row.item.n \in Post /\ pc'[row.item.n] \in {"replying", "done"}
             /\ row.item.at = "event" => stream' = "over" \/ row.item.n <= d
  <2>1. CASE \E p \in Post : OfPost(s, p)
    <3>1. PICK p \in Post : OfPost(s, p)
      BY <2>1
    <3>2. k = 1
      BY <3>1 DEF OfPost
    <3>3. QED
      BY <1>7, <3>1, <3>2 DEF OfPost
  <2>2. CASE \E i : OfLines(s, i)
    <3>1. PICK i : OfLines(s, i)
      BY <2>2
    <3>2. s[k].item = [at |-> "event", n |-> i + k - 1]
      BY <3>1 DEF OfLines
    <3>3. stream' = "over" \/ i + k - 1 <= d
      BY <1>3, <3>1 DEF OfLines
    <3>4. QED
      BY <1>7, <3>2, <3>3
  <2>3. Len(s) # 0
    BY <1>7
  <2>4. QED
    BY <1>1, <2>1, <2>2, <2>3 DEF Added
<1>8. QED
  BY <1>4, <1>5, <1>6, <1>7, ConcatRange

\* What is recorded stays so.
LEMMA PassesStay ==
  ASSUME PostType, [Next]_vars, NEW at, NEW p, NEW form, Passes(at, p, form)
  PROVE  Passes(at, p, form)'
<1>1. Range(rows) \subseteq Range(rows')
  BY RowsStay
<1>2. PICK row \in Range(rows) :
        row.item = [at |-> at, n |-> p] /\ form = Promise!FormOf[row.verdict]
  BY DEF Passes
<1>3. QED
  BY <1>1, <1>2 DEF Passes, Promise!FormOf

\* The row that a handler adds.
LEMMA FramePasses ==
  ASSUME PostType, NEW p \in Post, NEW at \in {"request", "answer"}, NEW frame, NEW form,
         rows' = Append(rows, RowOf(at, p, frame, pin)),
         form = Promise!FormOf[Verdict(frame, pin)]
  PROVE  Passes(at, p, form)'
<1>1. p \in Nat
  BY BoundsAssumption DEF Post
<1>2. RowOf(at, p, frame, pin) \in Range(rows')
  BY <1>1, FrameRecords
<1>3. PICK row : row = RowOf(at, p, frame, pin)
  OBVIOUS
<1>4. row.item = [at |-> at, n |-> p] /\ row.verdict = Verdict(frame, pin)
  BY <1>3 DEF RowOf
<1>5. form = Promise!FormOf[row.verdict]
  BY <1>4
<1>6. QED
  BY <1>2, <1>3, <1>4, <1>5 DEF Passes, Promise!FormOf

\* Requests and replies are recorded before they leave.
LEMMA ServeStep ==
  ASSUME ServersSendNoSuchCall, ServeInv, PostType', [Next]_vars
  PROVE  (NoAnswerYet /\ RequestsRecorded /\ RepliesRecorded)'
<1>1. /\ PostType
      /\ pc \in [Post -> {"idle", "sending", "waiting", "replying", "done"}]
      /\ request \in [Post -> Bodies \cup {NoFrame}]
      /\ answer \in [Post -> Answers \cup {NoFrame}]
      /\ reply \in [Post -> {"none", "refused", "error", "failed", "original"}]
  BY DEF ServeInv, PostType
<1> DEFINE Early(p) == pc'[p] \notin {"replying", "done"} => answer'[p] = NoFrame
           Asks(p) == pc'[p] = "sending" =>
                        \A form : form = SentForm(request'[p]) => Passes("request", p, form)'
           Replied(p) ==
             /\ pc'[p] \in {"replying", "done"} /\ reply'[p] \in {"error", "original"}
             /\ answer'[p] = NoFrame \/ answer'[p].kind # "empty"
             => \A at, form : at = (IF answer'[p] = NoFrame THEN "request" ELSE "answer")
                              /\ form = reply'[p] => Passes(at, p, form)'
           Served(p) == Early(p) /\ Asks(p) /\ Replied(p)
<1>2. ASSUME NEW p \in Post, answer'[p] = answer[p], reply'[p] = reply[p],
             request'[p] = request[p],
             \/ pc'[p] = pc[p]
             \/ pc[p] = "replying" /\ pc'[p] = "done"
             \/ pc[p] = "sending" /\ pc'[p] = "waiting"
      PROVE  Served(p)
  <2>1. Early(p)
    BY <1>1, <1>2 DEF ServeInv, NoAnswerYet
  <2>2. Asks(p)
    <3> SUFFICES ASSUME pc'[p] = "sending", NEW form, form = SentForm(request'[p])
                 PROVE  Passes("request", p, form)'
      OBVIOUS
    <3>1. pc[p] = "sending" /\ form = SentForm(request[p])
      BY <1>2
    <3>2. Passes("request", p, form)
      BY <3>1 DEF ServeInv, RequestsRecorded, Passes
    <3>3. QED
      BY <1>1, <3>2, PassesStay
  <2>3. Replied(p)
    <3> SUFFICES ASSUME pc'[p] \in {"replying", "done"}, reply'[p] \in {"error", "original"},
                        answer'[p] = NoFrame \/ answer'[p].kind # "empty",
                        NEW at, NEW form,
                        at = (IF answer'[p] = NoFrame THEN "request" ELSE "answer"),
                        form = reply'[p]
                 PROVE  Passes(at, p, form)'
      OBVIOUS
    <3>1. /\ pc[p] \in {"replying", "done"} /\ reply[p] \in {"error", "original"}
          /\ answer[p] = NoFrame \/ answer[p].kind # "empty"
          /\ at = (IF answer[p] = NoFrame THEN "request" ELSE "answer") /\ form = reply[p]
      BY <1>1, <1>2
    <3>2. Passes(at, p, form)
      BY <3>1 DEF ServeInv, RepliesRecorded, Passes
    <3>3. QED
      BY <1>1, <3>2, PassesStay
  <2>4. QED
    BY <2>1, <2>2, <2>3
<1>3. ASSUME NEW p \in Post, Evaluate(p) PROVE Served(p)
  <2>1. PICK body \in Bodies :
          /\ request' = [request EXCEPT ![p] = body]
          /\ rows' = Append(rows, RowOf("request", p, body, pin))
          /\ IF Verdict(body, pin) \in {"deny", "approval"}
             THEN Return(p, "error")
             ELSE pc' = [pc EXCEPT ![p] = "sending"] /\ UNCHANGED reply
    BY <1>3 DEF Evaluate
  <2>2. answer'[p] = NoFrame /\ request'[p] = body
    BY <1>1, <1>3, <2>1 DEF Evaluate, Arrives, ServeInv, NoAnswerYet
  <2>3. CASE Verdict(body, pin) \in {"deny", "approval"}
    <3>1. pc'[p] = "replying" /\ reply'[p] = "error"
      BY <1>1, <2>1, <2>3 DEF Return
    <3>2. "error" = Promise!FormOf[Verdict(body, pin)]
      BY <2>3 DEF Promise!FormOf
    <3>3. Passes("request", p, "error")'
      BY <1>1, <2>1, <3>2, FramePasses
    <3>4. QED
      BY <2>2, <3>1, <3>3
  <2>4. CASE Verdict(body, pin) \notin {"deny", "approval"}
    <3>1. pc'[p] = "sending"
      BY <1>1, <2>1, <2>4
    <3>2. PICK form : form = SentForm(body)
      OBVIOUS
    <3>3. form = Promise!FormOf[Verdict(body, pin)]
      BY <2>4, <3>2 DEF SentForm, Verdict, CallVerdict, Promise!FormOf
    <3>4. Passes("request", p, form)'
      BY <1>1, <2>1, <3>3, FramePasses
    <3>5. QED
      BY <2>2, <3>1, <3>2, <3>4
  <2>5. QED
    BY <2>3, <2>4
<1>4. ASSUME NEW p \in Post, HandleAnswer(p) PROVE Served(p)
  <2>1. PICK frame \in Answers :
          /\ answer' = [answer EXCEPT ![p] = frame]
          /\ rows' = IF frame.kind = "empty" THEN rows
                     ELSE Append(rows, RowOf("answer", p, frame, pin))
          /\ Return(p, IF Verdict(frame, pin) = "deny" THEN "error" ELSE "original")
    BY <1>4 DEF HandleAnswer
  <2>2. frame \in Frame
    BY FramesAssumption
  <2>3. frame # NoFrame
    BY <2>2 DEF Frame, NoFrame
  <2>4. /\ answer'[p] = frame /\ pc'[p] = "replying"
        /\ reply'[p] = IF Verdict(frame, pin) = "deny" THEN "error" ELSE "original"
    BY <1>1, <2>1 DEF Return
  <2>5. ASSUME frame.kind # "empty" PROVE \A form : form = reply'[p] => Passes("answer", p, form)'
    <3> SUFFICES ASSUME NEW form, form = reply'[p] PROVE Passes("answer", p, form)'
      OBVIOUS
    <3>1. Verdict(frame, pin) \in {"allow", "deny"}
      BY DEF ServersSendNoSuchCall, Verdict
    <3>2. form = Promise!FormOf[Verdict(frame, pin)]
      BY <2>4, <3>1 DEF Promise!FormOf
    <3>3. QED
      BY <1>1, <2>1, <2>5, <3>2, FramePasses
  <2>6. QED
    BY <2>3, <2>4, <2>5
<1>5. ASSUME NEW p \in Post, RefuseLarge(p) \/ EvaluateRaises(p) \/ UpstreamFails(p)
                             \/ HandleAnswerRaises(p)
      PROVE  Served(p)
  <2>1. pc'[p] = "replying" /\ reply'[p] \in {"refused", "failed"}
    BY <1>1, <1>5 DEF RefuseLarge, EvaluateRaises, UpstreamFails, HandleAnswerRaises, Return
  <2>2. QED
    BY <2>1
<1>6. ASSUME NEW p \in Post, Send(p) \/ Redirect(p) \/ Deliver(p) PROVE Served(p)
  <2>1. /\ UNCHANGED <<request, answer, reply>>
        /\ \/ pc'[p] = pc[p]
           \/ pc[p] = "replying" /\ pc'[p] = "done"
           \/ pc[p] = "sending" /\ pc'[p] = "waiting"
    BY <1>1, <1>6 DEF Send, Redirect, Deliver
  <2>2. QED
    BY <1>2, <2>1
<1>7. ASSUME NEW p \in Post PROVE Served(p)
  <2>1. CASE UNCHANGED postVars
    BY <1>2, <2>1 DEF postVars
  <2>2. ASSUME NEW q \in Post, HandlePost(q), p # q PROVE Served(p)
    BY <1>1, <1>2, <2>2, OtherPosts
  <2>3. ASSUME HandlePost(p) PROVE Served(p)
    BY <1>3, <1>4, <1>5, <1>6, <2>3 DEF HandlePost
  <2>4. QED
    BY <2>1, <2>2, <2>3, PostsOrStream
<1>8. NoAnswerYet'
  BY <1>7 DEF NoAnswerYet
<1>9. RequestsRecorded'
  BY <1>7 DEF RequestsRecorded, Passes
<1>10. RepliesRecorded'
  <2> SUFFICES ASSUME NEW p \in Post,
                      pc'[p] \in {"replying", "done"}, reply'[p] \in {"error", "original"},
                      answer'[p] = NoFrame \/ answer'[p].kind # "empty"
               PROVE  Passes(IF answer[p] = NoFrame THEN "request" ELSE "answer", p, reply[p])'
    BY DEF RepliesRecorded
  <2>1. PICK at, form : /\ at = (IF answer'[p] = NoFrame THEN "request" ELSE "answer")
                        /\ form = reply'[p]
    OBVIOUS
  <2>2. Passes(at, p, form)'
    BY <1>7, <2>1
  <2>3. QED
    BY <2>1, <2>2 DEF Passes
<1>11. QED
  BY <1>8, <1>9, <1>10

\* What a step adds to the log is behind it, and about frames without a row.
LEMMA StepRecords ==
  ASSUME ServeInv, PostType', [Next]_vars, rows' # rows,
         (Requests \cup Replies)' = Requests \cup Replies
  PROVE  Promise!Record
<1>1. PICK s : Added(s)
  BY AddedRows DEF ServeInv
<1>2. rows \in Seq(Row) /\ s \in Seq(Row) /\ rows' = rows \o s
  BY <1>1 DEF ServeInv, PostType, Added
<1>3. /\ Len(RowsOf(rows)) = Len(rows) /\ Len(RowsOf(rows')) = Len(rows) + Len(s)
      /\ SubSeq(RowsOf(rows'), 1, Len(rows)) = RowsOf(rows)
      /\ \A i \in 1..Len(rows) : RowsOf(rows')[i].item = rows[i].item
      /\ \A k \in 1..Len(s) : RowsOf(rows')[Len(rows) + k].item = s[k].item
      /\ Len(rows) \in Nat /\ Len(s) \in Nat
  <2>1. PICK a, b : a = rows /\ b = rows'
    OBVIOUS
  <2>2. a \in Seq(Row) /\ b = a \o s
    BY <1>2, <2>1
  <2>3. /\ Len(RowsOf(a)) = Len(a) /\ Len(RowsOf(b)) = Len(a) + Len(s)
        /\ SubSeq(RowsOf(b), 1, Len(a)) = RowsOf(a)
        /\ \A i \in 1..Len(a) : RowsOf(b)[i].item = a[i].item
        /\ \A k \in 1..Len(s) : RowsOf(b)[Len(a) + k].item = s[k].item
    BY <1>2, <2>2, RowsOfConcat
  <2>4. Len(a) \in Nat /\ Len(s) \in Nat
    BY <1>2, <2>2
  <2>5. QED
    BY <2>1, <2>3, <2>4
<1>4. Len(s) # 0
  <2>1. SUFFICES ASSUME Len(s) = 0 PROVE FALSE
    OBVIOUS
  <2>2. s = <<>>
    BY <1>2, <2>1, EmptySeq
  <2>3. QED
    BY <1>2, <2>2, ConcatEmptySeq
<1>5. ASSUME NEW k \in 1..Len(s), NEW row \in Range(rows) PROVE row.item # s[k].item
  <2>1. row.item.n \in Nat
    <3>1. row \in Row
      BY <1>2 DEF Range
    <3>2. QED
      BY <3>1 DEF Row, Item
  <2>2. CASE \E p \in Post : OfPost(s, p)
    <3>1. PICK p \in Post : OfPost(s, p)
      BY <2>2
    <3>2. k = 1
      BY <3>1 DEF OfPost
    <3>3. QED
      BY <3>1, <3>2 DEF OfPost, ServeInv, RowsOwned
  <2>3. CASE \E i : OfLines(s, i)
    <3>1. PICK i : OfLines(s, i)
      BY <2>3
    <3>2. /\ s[k].item = [at |-> "event", n |-> i + k - 1]
          /\ stream # "over" /\ i \in Nat /\ i > Complete(fed)
      BY <3>1 DEF OfLines
    <3>3. Complete(fed) \in Nat
      BY Advances DEF ServeInv
    <3>4. SUFFICES ASSUME row.item = s[k].item PROVE FALSE
      OBVIOUS
    <3>5. row.item.at = "event" /\ row.item.n = i + k - 1
      BY <3>2, <3>4
    <3>6. row.item.n <= Complete(fed)
      BY <3>2, <3>5 DEF ServeInv, RowsOwned
    <3>7. QED
      BY <3>2, <3>3, <3>5, <3>6
  <2>4. QED
    BY <1>1, <1>4, <2>2, <2>3 DEF Added
<1>6. ASSUME NEW k \in 1..Len(s), NEW l \in 1..k - 1 PROVE s[l].item # s[k].item
  <2>1. CASE \E p \in Post : OfPost(s, p)
    <3>1. Len(s) = 1
      BY <2>1 DEF OfPost
    <3>2. QED
      BY <1>6, <3>1
  <2>2. CASE \E i : OfLines(s, i)
    <3>1. PICK i \in Nat : \A m \in 1..Len(s) : s[m].item = [at |-> "event", n |-> i + m - 1]
      BY <2>2 DEF OfLines
    <3>2. l \in 1..Len(s) /\ i + l - 1 # i + k - 1
      BY <1>3
    <3>3. /\ s[l].item = [at |-> "event", n |-> i + l - 1]
          /\ s[k].item = [at |-> "event", n |-> i + k - 1]
      BY <3>1, <3>2
    <3>4. QED
      BY <3>2, <3>3
  <2>3. QED
    BY <1>1, <1>4, <2>1, <2>2 DEF Added
<1>7. \A j \in Len(RowsOf(rows)) + 1..Len(RowsOf(rows')) :
        \A i \in 1..j - 1 : RowsOf(rows')[i].item # RowsOf(rows')[j].item
  <2> SUFFICES ASSUME NEW j \in Len(rows) + 1..Len(rows) + Len(s), NEW i \in 1..j - 1
               PROVE  RowsOf(rows')[i].item # RowsOf(rows')[j].item
    BY <1>3
  <2>1. PICK k \in 1..Len(s) : j = Len(rows) + k
    <3>1. j - Len(rows) \in 1..Len(s) /\ j = Len(rows) + (j - Len(rows))
      BY <1>3
    <3>2. QED
      BY <3>1
  <2>2. RowsOf(rows')[j].item = s[k].item
    BY <1>3, <2>1
  <2>3. CASE i <= Len(rows)
    <3>1. i \in 1..Len(rows)
      BY <1>3, <2>3
    <3>2. rows[i] \in Range(rows)
      BY <1>2, <3>1 DEF Range
    <3>3. QED
      BY <1>3, <1>5, <2>2, <3>1, <3>2
  <2>4. CASE i > Len(rows)
    <3>1. PICK l \in 1..k - 1 : i = Len(rows) + l
      <4>1. i - Len(rows) \in 1..k - 1 /\ i = Len(rows) + (i - Len(rows))
        BY <1>3, <2>1, <2>4
      <4>2. QED
        BY <4>1
    <3>2. l \in 1..Len(s)
      BY <1>3
    <3>3. RowsOf(rows')[i].item = s[l].item
      BY <1>3, <3>1, <3>2
    <3>4. QED
      BY <1>6, <2>2, <3>3
  <2>5. QED
    BY <1>3, <2>3, <2>4
<1>8. Len(RowsOf(rows')) > Len(RowsOf(rows))
  BY <1>3, <1>4
<1>9. QED
  BY <1>3, <1>7, <1>8 DEF Promise!Record, RowsOf

\* A request that is sent and a reply that is delivered have their rows.
LEMMA StepPasses ==
  ASSUME ServeInv, PostType', [Next]_vars
  PROVE  \/ (Requests \cup Replies)' = Requests \cup Replies
         \/ UNCHANGED rows /\ Promise!Pass
<1>1. /\ PostType
      /\ pc \in [Post -> {"idle", "sending", "waiting", "replying", "done"}]
      /\ toUpstream \in Seq(Asked)
  BY DEF ServeInv, PostType
<1>2. Promise!Range(RowsOf(rows)) = Range(RowsOf(rows))
  BY DEF Range, Promise!Range
<1>3. ASSUME NEW at, NEW p, NEW form, Passes(at, p, form)
      PROVE  \E row \in Range(RowsOf(rows)) :
               row.item = [at |-> at, n |-> p] /\ form = Promise!FormOf[row.verdict]
  <2>1. PICK row \in Range(rows) :
          row.item = [at |-> at, n |-> p] /\ form = Promise!FormOf[row.verdict]
    BY <1>3 DEF Passes
  <2>2. rows \in Seq(Row)
    BY DEF ServeInv, PostType
  <2>3. PICK i \in 1..Len(rows) : rows[i] = row
    BY <2>1, <2>2 DEF Range
  <2>4. /\ RowsOf(rows)[i] \in Range(RowsOf(rows))
        /\ RowsOf(rows)[i].item = row.item /\ RowsOf(rows)[i].verdict = row.verdict
    BY <2>3 DEF RowsOf, Range
  <2>5. QED
    BY <2>1, <2>4
<1>4. ASSUME NEW p \in Post, Send(p) PROVE UNCHANGED rows /\ Promise!Pass
  <2>1. pc[p] = "sending" /\ UNCHANGED <<rows, request, answer, reply>>
        /\ pc' = [pc EXCEPT ![p] = "waiting"]
    BY <1>4 DEF Send
  <2>2. PICK form \in {"original", "redacted"} :
          /\ toUpstream' = Append(toUpstream, [post |-> p, form |-> form])
          /\ form = IF Verdict(request[p], pin) = "redact" THEN "redacted" ELSE "original"
    BY <1>4 DEF Send
  <2>3. form = SentForm(request[p])
    BY <2>2 DEF SentForm, Verdict
  <2>4. Passes("request", p, form)
    BY <2>1, <2>3 DEF ServeInv, RequestsRecorded, Passes
  <2>5. Replies' = Replies
    <3>1. \A q \in Post : pc'[q] = "done" <=> pc[q] = "done"
      BY <1>1, <2>1
    <3>2. QED
      BY <2>1, <3>1 DEF Replies
  <2>6. Range(toUpstream') = Range(toUpstream) \cup {[post |-> p, form |-> form]}
    <3>1. [post |-> p, form |-> form] \in Asked
      BY DEF Asked
    <3>2. QED
      BY <1>1, <2>2, <3>1, AppendFacts
  <2>7. Requests' = Requests \cup {[item |-> [at |-> "request", n |-> p], form |-> form]}
    <3>1. PICK x : x = [post |-> p, form |-> form]
      OBVIOUS
    <3>2. x.post = p /\ x.form = form /\ Range(toUpstream') = Range(toUpstream) \cup {x}
      BY <2>6, <3>1
    <3>3. QED
      BY <3>2 DEF Requests
  <2>8. \E row \in Range(RowsOf(rows)) :
          row.item = [at |-> "request", n |-> p] /\ form = Promise!FormOf[row.verdict]
    BY <1>3, <2>4
  <2>9. ASSUME NEW m \in (Requests \cup Replies)' \ (Requests \cup Replies)
        PROVE  \E row \in Range(RowsOf(rows)) :
                 row.item = m.item /\ m.form = Promise!FormOf[row.verdict]
    <3>1. m = [item |-> [at |-> "request", n |-> p], form |-> form]
      BY <2>5, <2>7, <2>9
    <3>2. QED
      BY <2>8, <3>1
  <2>10. Requests \cup Replies \subseteq (Requests \cup Replies)'
    BY <2>5, <2>7
  <2>11. QED
    BY <1>2, <2>1, <2>9, <2>10 DEF Promise!Pass, RowsOf
<1>5. ASSUME NEW p \in Post, Deliver(p) PROVE UNCHANGED rows /\ Promise!Pass
  <2>1. /\ pc[p] = "replying" /\ pc' = [pc EXCEPT ![p] = "done"]
        /\ UNCHANGED <<rows, request, answer, reply, toUpstream>>
    BY <1>5 DEF Deliver
  <2>2. Requests' = Requests
    BY <2>1 DEF Requests
  <2>3. /\ \A q \in Post : pc[q] = "done" => pc'[q] = "done"
        /\ \A q \in Post : pc'[q] = "done" => pc[q] = "done" \/ q = p
    BY <1>1, <2>1
  <2>4. Replies \subseteq Replies'
    BY <2>1, <2>3 DEF Replies
  <2>5. ASSUME NEW m \in (Requests \cup Replies)' \ (Requests \cup Replies)
        PROVE  \E row \in Range(RowsOf(rows)) :
                 row.item = m.item /\ m.form = Promise!FormOf[row.verdict]
    <3>1. m \in Replies' /\ m \notin Replies
      BY <2>2, <2>5
    <3>2. /\ m = [item |-> [at |-> IF answer[p] = NoFrame THEN "request" ELSE "answer", n |-> p],
                  form |-> reply[p]]
          /\ reply[p] \in {"error", "original"}
          /\ answer[p] = NoFrame \/ answer[p].kind # "empty"
      BY <2>1, <2>3, <3>1 DEF Replies
    <3>3. Passes(IF answer[p] = NoFrame THEN "request" ELSE "answer", p, reply[p])
      BY <2>1, <3>2 DEF ServeInv, RepliesRecorded
    <3>4. QED
      BY <1>3, <3>2, <3>3
  <2>6. QED
    BY <1>2, <2>1, <2>2, <2>4, <2>5 DEF Promise!Pass, RowsOf
<1>6. ASSUME NEW p \in Post, HandlePost(p), ~Send(p), ~Deliver(p)
      PROVE  (Requests \cup Replies)' = Requests \cup Replies
  <2>1. Range(toUpstream') = Range(toUpstream)
    <3>1. CASE UNCHANGED toUpstream
      BY <3>1
    <3>2. CASE Redirect(p)
      <4>1. PICK m \in Range(toUpstream) : toUpstream' = Append(toUpstream, m)
        BY <3>2 DEF Redirect
      <4>2. m \in Asked
        BY <1>1 DEF Range
      <4>3. Range(toUpstream') = Range(toUpstream) \cup {m}
        BY <1>1, <4>1, <4>2, AppendFacts
      <4>4. QED
        BY <4>1, <4>3
    <3>3. QED
      BY <1>6, <3>1, <3>2 DEF HandlePost, Evaluate, EvaluateRaises, RefuseLarge,
         UpstreamFails, HandleAnswer, HandleAnswerRaises
  <2>2. pc[p] # "done" /\ pc'[p] # "done"
    BY <1>1, <1>6 DEF HandlePost, Evaluate, EvaluateRaises, RefuseLarge, Redirect, UpstreamFails,
       HandleAnswer, HandleAnswerRaises, Arrives, Return
  <2>3. \A q \in Post : q # p => /\ pc'[q] = pc[q]
                                 /\ answer'[q] = answer[q] /\ reply'[q] = reply[q]
    BY <1>1, <1>6, OtherPosts
  <2>4. Replies' = Replies
    BY <2>2, <2>3 DEF Replies
  <2>5. Requests' = Requests
    BY <2>1 DEF Requests
  <2>6. QED
    BY <2>4, <2>5
<1>7. UNCHANGED postVars => (Requests \cup Replies)' = Requests \cup Replies
  BY DEF postVars, Requests, Replies
<1>8. QED
  BY <1>4, <1>5, <1>6, <1>7, PostsOrStream

\* KeepsPromise: with any number of POSTs, under any interleaving with the stream,
\* no frame has two rows, and what is sent to the server or back follows its row,
\* in the form the row's verdict allows.
THEOREM ImplementsPromise == ASSUME ServersSendNoSuchCall PROVE Spec => KeepsPromise
<1>1. Init => ServeInv
  <2> SUFFICES ASSUME Init PROVE ServeInv
    OBVIOUS
  <2>1. PostType /\ StreamType
    BY TypeInit, StreamInit
  <2>2. RowsOwned /\ NoAnswerYet /\ RequestsRecorded /\ RepliesRecorded
    BY DEF Init, RowsOwned, NoAnswerYet, RequestsRecorded, RepliesRecorded, Range
  <2>3. QED
    BY <2>1, <2>2 DEF ServeInv
<1>2. ServeInv /\ [Next]_vars => ServeInv'
  <2> SUFFICES ASSUME ServeInv, [Next]_vars PROVE ServeInv'
    OBVIOUS
  <2>1. PostType' /\ StreamType'
    BY TypeStep, StreamTypeStep DEF ServeInv
  <2>2. RowsOwned'
    BY <2>1, RowsOwnedStep DEF ServeInv
  <2>3. QED
    BY <2>1, <2>2, ServeStep DEF ServeInv
<1>3. Init => Promise!Init
  <2> SUFFICES ASSUME Init PROVE Promise!Init
    OBVIOUS
  <2>1. RowsOf(rows) = <<>>
    <3>1. RowsOf(rows) \in [1..0 -> {}] /\ 0 \in Nat
      BY DEF Init, RowsOf
    <3>2. RowsOf(rows) \in Seq({}) /\ Len(RowsOf(rows)) = 0
      BY <3>1, FunctionIsSeq
    <3>3. QED
      BY <3>2, EmptySeq
  <2>2. Requests \cup Replies = {}
    BY DEF Init, Requests, Replies, Range
  <2>3. QED
    BY <2>1, <2>2 DEF Promise!Init, RowsOf
<1>4. ServeInv /\ [Next]_vars => [Promise!Next]_(Promise!vars)
  <2> SUFFICES ASSUME ServeInv, [Next]_vars PROVE [Promise!Next]_(Promise!vars)
    OBVIOUS
  <2>1. PostType'
    BY TypeStep DEF ServeInv
  <2>2. CASE UNCHANGED rows /\ Promise!Pass
    BY <2>2 DEF Promise!Next
  <2>3. CASE (Requests \cup Replies)' = Requests \cup Replies /\ rows' # rows
    BY <2>1, <2>3, StepRecords DEF Promise!Next
  <2>4. CASE (Requests \cup Replies)' = Requests \cup Replies /\ rows' = rows
    BY <2>4 DEF Promise!vars
  <2>5. QED
    BY <2>1, <2>2, <2>3, <2>4, StepPasses
<1>5. QED
  BY <1>1, <1>2, <1>3, <1>4, PTL DEF Spec, KeepsPromise, Promise!Spec
=============================================================================
