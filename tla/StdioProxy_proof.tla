-------------------------- MODULE StdioProxy_proof --------------------------
(***************************************************************************)
(* Theorems about StdioProxy, for any policy, any lines and any number of  *)
(* them, any sizes of the buffer and the pipe, and any number of faults.   *)
(***************************************************************************)
EXTENDS StdioProxy, SequenceFacts

-----------------------------------------------------------------------------
(* Types *)

\* The next line of a pump is one its source sent, and its row is a row.
LEMMA NextRowType ==
  ASSUME TypeOK, NEW d \in Dir, Available(d)
  PROVE  /\ NextAt(d) \in 1..Len(sent[d])
         /\ NextAt(d) \in Nat /\ Len(sent[d]) \in Nat /\ NextAt(d) <= Len(sent[d])
         /\ \A verdict \in Judgements(d) : NextRow(d, verdict) \in Row
         /\ NextRow(d, "blank") \in Turn
<1>1. taken[d] \in Nat /\ taken[d] <= Len(sent[d]) /\ (cut[d] => taken[d] > 0)
      /\ Len(sent[d]) \in Nat /\ cut[d] \in BOOLEAN
  BY DEF TypeOK
<1>2. NextAt(d) \in 1..Len(sent[d])
  BY <1>1 DEF Available, NextAt
<1>3. Judgements(d) \subseteq Verdicts
  BY DEF Judgements, Verdict, CallVerdict, Verdicts
<1>4. /\ \A verdict \in Judgements(d) : NextRow(d, verdict) \in Row
      /\ NextRow(d, "blank") \in Turn
  BY <1>1, <1>2, <1>3 DEF NextRow, Row, Turn
<1>5. QED
  BY <1>1, <1>2, <1>4

\* A message of the line in hand is a message.
LEMMA AsType ==
  ASSUME TypeOK, NEW form \in Forms
  PROVE  As(form) \in Message
BY DEF TypeOK, As, Turn, Message

\* The initial values have their types.
LEMMA TypeInit == Init => TypeOK
<1> SUFFICES ASSUME Init PROVE TypeOK
  OBVIOUS
<1>1. sent \in [Dir -> Seq(Line)] /\ taken \in [Dir -> Nat]
  BY DEF Init
<1>2. eof \in [Dir -> BOOLEAN] /\ cut \in [Dir -> BOOLEAN]
      /\ pump \in [Dir -> {"reading", "ended", "failed"}]
  BY DEF Init
<1>3. \A d \in Dir : taken[d] <= Len(sent[d]) /\ (cut[d] => taken[d] > 0)
  BY DEF Init
<1>4. turn \in Turn
  BY DEF Init, Idle, Turn, Dir, Verdicts
<1>5. audit \in Seq(Row) /\ toServer \in Seq(Message) /\ buffer \in Seq(Message)
      /\ toClient \in Seq(Message)
  BY DEF Init
<1>6. seen \in 0..Len(toClient) /\ Len(toClient) - seen <= PipeSize
  BY BoundsAssumption DEF Init
<1>7. faults \in 0..MaxFaults
  BY BoundsAssumption DEF Init
<1>8. gone \in BOOLEAN /\ child \in {"running", "exited"}
      /\ status \in {"running", "stopping", "exited", "killed"}
  BY DEF Init
<1>9. QED
  BY <1>1, <1>2, <1>3, <1>4, <1>5, <1>6, <1>7, <1>8 DEF TypeOK

\* The parts of the type invariant that the pumps' readers change.
LEMMA ReadType ==
  ASSUME TypeOK, NEW d \in Dir, NEW k \in Nat, NEW tail \in BOOLEAN,
         NextAt(d) <= k, k <= Len(sent[d]), Available(d),
         taken' = [taken EXCEPT ![d] = k], cut' = [cut EXCEPT ![d] = tail],
         UNCHANGED sent
  PROVE  /\ taken' \in [Dir -> Nat] /\ cut' \in [Dir -> BOOLEAN]
         /\ \A e \in Dir : taken'[e] <= Len(sent'[e]) /\ (cut'[e] => taken'[e] > 0)
<1>1. k > 0
  BY NextRowType
<1>2. taken' \in [Dir -> Nat] /\ cut' \in [Dir -> BOOLEAN]
  BY DEF TypeOK
<1>3. ASSUME NEW e \in Dir
      PROVE  taken'[e] <= Len(sent'[e]) /\ (cut'[e] => taken'[e] > 0)
  BY <1>1 DEF TypeOK
<1>4. QED
  BY <1>2, <1>3

\* Whatever is written towards the client or the server is a message, and the
\* pipe is not filled beyond its size.
LEMMA WriteType ==
  ASSUME TypeOK, NEW d \in Dir, NEW message \in Message, Write(d, message), UNCHANGED seen
  PROVE  /\ toServer' \in Seq(Message) /\ buffer' \in Seq(Message)
         /\ toClient' \in Seq(Message) /\ pump' \in [Dir -> {"reading", "ended", "failed"}]
         /\ seen' \in 0..Len(toClient') /\ Len(toClient') - seen' <= PipeSize
<1>1. CASE d = "c2s"
  <2>1. /\ toServer' = Append(toServer, message) \/ toServer' = toServer
        /\ UNCHANGED <<buffer, toClient, pump>>
    BY <1>1 DEF Write, WriteToServer
  <2>2. toServer' \in Seq(Message)
    <3>1. toServer \in Seq(Message)
      BY DEF TypeOK
    <3>2. QED
      BY <2>1, <3>1
  <2>3. QED
    BY <2>1, <2>2 DEF TypeOK
<1>2. CASE d # "c2s" /\ gone
  <2>1. /\ buffer' = Append(buffer, message) /\ pump' = [pump EXCEPT !["s2c"] = "failed"]
        /\ UNCHANGED <<toServer, toClient>>
    BY <1>2 DEF Write, WriteToClient
  <2>2. buffer' \in Seq(Message) /\ pump' \in [Dir -> {"reading", "ended", "failed"}]
    <3>1. buffer \in Seq(Message) /\ pump \in [Dir -> {"reading", "ended", "failed"}]
      BY DEF TypeOK
    <3>2. buffer' \in Seq(Message)
      BY <2>1, <3>1
    <3>3. pump' \in [Dir -> {"reading", "ended", "failed"}]
      BY <2>1, <3>1
    <3>4. QED
      BY <3>2, <3>3
  <2>3. QED
    BY <2>1, <2>2 DEF TypeOK
<1>3. CASE d # "c2s" /\ ~gone
  <2>1. toClient' = Append(toClient, message) /\ HasRoom(1)
        /\ UNCHANGED <<buffer, pump, toServer>>
    BY <1>3 DEF Write, WriteToClient
  <2>2. Len(toClient') = Len(toClient) + 1 /\ toClient' \in Seq(Message)
    BY <2>1 DEF TypeOK
  <2>3. QED
    BY <2>1, <2>2, BoundsAssumption DEF TypeOK, HasRoom
<1>4. QED
  BY <1>1, <1>2, <1>3

\* Every step keeps the types.
LEMMA TypeStep == TypeOK /\ [Next]_vars => TypeOK'
<1> SUFFICES ASSUME TypeOK, [Next]_vars PROVE TypeOK'
  OBVIOUS
<1>1. ASSUME NEW d \in Dir, Send(d) PROVE TypeOK'
  <2>1. PICK line \in Frames[d] : sent' = [sent EXCEPT ![d] = Append(@, line)]
    BY <1>1 DEF Send
  <2>2. line \in Line
    BY FramesAssumption
  <2>3. sent' \in [Dir -> Seq(Line)]
    BY <2>1, <2>2 DEF TypeOK
  <2>4. \A e \in Dir : Len(sent'[e]) >= Len(sent[e]) /\ Len(sent'[e]) \in Nat
    BY <2>1, <2>2 DEF TypeOK
  <2>5. UNCHANGED <<eof, gone, seen, child, readVars, turn, pump, audit, outVars, status, faults>>
    BY <1>1 DEF Send, proxyVars
  <2>6. \A e \in Dir : taken'[e] <= Len(sent'[e]) /\ (cut'[e] => taken'[e] > 0)
    BY <2>4, <2>5 DEF TypeOK, readVars
  <2>7. QED
    BY <2>3, <2>5, <2>6 DEF TypeOK, readVars, outVars
<1>2. ASSUME NEW d \in Dir, Close(d) PROVE TypeOK'
  BY <1>2 DEF TypeOK, Close, proxyVars, readVars, outVars
<1>3. CASE ClientReads
  <2>1. UNCHANGED <<sent, eof, gone, child, taken, cut, turn, pump, audit, toServer, buffer,
                    toClient, status, faults>>
        /\ seen < Len(toClient) /\ seen' = seen + 1
    BY <1>3 DEF ClientReads, pipeVars, proxyVars, readVars, outVars
  <2>2. seen' \in 0..Len(toClient') /\ Len(toClient') - seen' <= PipeSize
    BY <2>1, BoundsAssumption DEF TypeOK
  <2>3. QED
    BY <2>1, <2>2 DEF TypeOK
<1>4. CASE ClientLeaves
  BY <1>4 DEF TypeOK, ClientLeaves, proxyVars, readVars, outVars
<1>5. CASE ChildExits
  BY <1>5 DEF TypeOK, ChildExits, proxyVars, readVars, outVars
<1>6. ASSUME NEW d \in Dir, Handle(d) PROVE TypeOK'
  <2>1. Available(d)
        /\ NextAt(d) \in Nat /\ NextAt(d) <= NextAt(d) /\ NextAt(d) <= Len(sent[d])
    BY <1>6, NextRowType DEF Handle, Parsable
  <2>2. /\ taken' \in [Dir -> Nat] /\ cut' \in [Dir -> BOOLEAN]
        /\ \A e \in Dir : taken'[e] <= Len(sent'[e]) /\ (cut'[e] => taken'[e] > 0)
    <3>1. taken' = [taken EXCEPT ![d] = NextAt(d)] /\ cut' = [cut EXCEPT ![d] = FALSE]
          /\ UNCHANGED sent
      BY <1>6 DEF Handle, pipeVars
    <3>2. QED
      BY <2>1, <3>1, ReadType
  <2>3. turn' \in Turn /\ audit' \in Seq(Row)
    <3>1. PICK verdict \in Judgements(d) :
             turn' = NextRow(d, verdict) /\ audit' = Append(audit, NextRow(d, verdict))
      BY <1>6 DEF Handle
    <3>2. NextRow(d, verdict) \in Row /\ NextRow(d, verdict) \in Turn
      BY <2>1, NextRowType DEF Row, Turn
    <3>3. QED
      BY <3>1, <3>2 DEF TypeOK
  <2>4. QED
    BY <1>6, <2>2, <2>3 DEF Handle, TypeOK, pipeVars, outVars
<1>7. ASSUME NEW d \in Dir, HandleBlank(d) PROVE TypeOK'
  <2>0. turn' \in Turn
    BY <1>7, NextRowType DEF HandleBlank, Blank
  <2>1. Available(d)
        /\ NextAt(d) \in Nat /\ NextAt(d) <= NextAt(d) /\ NextAt(d) <= Len(sent[d])
    BY <1>7, NextRowType DEF HandleBlank, Blank
  <2>2. /\ taken' \in [Dir -> Nat] /\ cut' \in [Dir -> BOOLEAN]
        /\ \A e \in Dir : taken'[e] <= Len(sent'[e]) /\ (cut'[e] => taken'[e] > 0)
    <3>1. taken' = [taken EXCEPT ![d] = NextAt(d)] /\ cut' = [cut EXCEPT ![d] = FALSE]
          /\ UNCHANGED sent
      BY <1>7 DEF HandleBlank, pipeVars
    <3>2. QED
      BY <2>1, <3>1, ReadType
  <2>3. QED
    BY <1>7, <2>0, <2>2 DEF HandleBlank, TypeOK, pipeVars, outVars
<1>8. ASSUME NEW d \in Dir, Drain(d) PROVE TypeOK'
  <2>1. PICK k \in NextAt(d)..Len(sent[d]), tail \in BOOLEAN :
           taken' = [taken EXCEPT ![d] = k] /\ cut' = [cut EXCEPT ![d] = tail]
    BY <1>8 DEF Drain
  <2>2. Available(d) /\ NextAt(d) \in Nat /\ Len(sent[d]) \in Nat
    BY <1>8, NextRowType DEF Drain, Oversized
  <2>3. /\ taken' \in [Dir -> Nat] /\ cut' \in [Dir -> BOOLEAN]
        /\ \A e \in Dir : taken'[e] <= Len(sent'[e]) /\ (cut'[e] => taken'[e] > 0)
    <3>1. k \in Nat /\ NextAt(d) <= k /\ k <= Len(sent[d])
      BY <2>2
    <3>2. QED
      BY <1>8, <2>1, <2>2, <3>1, ReadType DEF Drain, pipeVars
  <2>4. QED
    BY <1>8, <2>3 DEF Drain, TypeOK, pipeVars, outVars
<1>9. ASSUME NEW d \in Dir, HandlerRaises(d) PROVE TypeOK'
  <2>1. Available(d)
        /\ NextAt(d) \in Nat /\ NextAt(d) <= NextAt(d) /\ NextAt(d) <= Len(sent[d])
    BY <1>9, NextRowType DEF HandlerRaises, Parsable
  <2>2. /\ taken' \in [Dir -> Nat] /\ cut' \in [Dir -> BOOLEAN]
        /\ \A e \in Dir : taken'[e] <= Len(sent'[e]) /\ (cut'[e] => taken'[e] > 0)
    <3>1. taken' = [taken EXCEPT ![d] = NextAt(d)] /\ cut' = [cut EXCEPT ![d] = FALSE]
          /\ UNCHANGED sent
      BY <1>9 DEF HandlerRaises, pipeVars
    <3>2. QED
      BY <2>1, <3>1, ReadType
  <2>3. faults' \in 0..MaxFaults /\ pump' \in [Dir -> {"reading", "ended", "failed"}]
    BY <1>9, BoundsAssumption DEF HandlerRaises, Fault, TypeOK
  <2>4. audit' \in Seq(Row)
    <3>1. \/ UNCHANGED audit
          \/ \E verdict \in Judgements(d) : audit' = Append(audit, NextRow(d, verdict))
      BY <1>9 DEF HandlerRaises
    <3>2. \A verdict \in Judgements(d) : NextRow(d, verdict) \in Row
      BY <2>1, NextRowType
    <3>3. audit \in Seq(Row)
      BY DEF TypeOK
    <3>4. QED
      BY <3>1, <3>2, <3>3
  <2>5. QED
    BY <1>9, <2>2, <2>3, <2>4 DEF HandlerRaises, TypeOK, pipeVars, outVars
<1>10. ASSUME NEW d \in Dir, PumpEnds(d) PROVE TypeOK'
  BY <1>10 DEF TypeOK, PumpEnds, pipeVars, readVars, outVars
<1>11. ASSUME NEW d \in Dir, Finish(d),
              toServer' \in Seq(Message), buffer' \in Seq(Message),
              toClient' \in Seq(Message), pump' \in [Dir -> {"reading", "ended", "failed"}],
              seen' \in 0..Len(toClient'), Len(toClient') - seen' <= PipeSize
       PROVE  TypeOK'
  <2>1. turn' \in Turn
    BY <1>11 DEF Finish, Idle, Turn, Dir, Verdicts
  <2>2. QED
    BY <1>11, <2>1 DEF Finish, TypeOK, pipeVars, readVars
<1>12. ASSUME NEW d \in Dir, NEW form \in Forms, Finish(d), Write(d, As(form)) PROVE TypeOK'
  BY <1>11, <1>12, AsType, WriteType DEF Finish
<1>13. ASSUME NEW d \in Dir, Forward(d) \/ ForwardRedacted(d) \/ ForwardBlank(d) PROVE TypeOK'
  BY <1>12, <1>13 DEF Forward, ForwardRedacted, ForwardBlank, Forms
<1>14. CASE AnswerRefusal
  <2>1. Finish("c2s") /\ ErrorBack(As("error")) /\ As("error") \in Message /\ UNCHANGED seen
    BY <1>14, AsType DEF AnswerRefusal, Forms, Finish
  <2>2. CASE Len(buffer) < BufferSize
    <3>1. buffer' = Append(buffer, As("error")) /\ UNCHANGED <<toClient, pump, toServer>>
      BY <2>1, <2>2 DEF ErrorBack
    <3>2. buffer' \in Seq(Message)
      BY <3>1, <2>1 DEF TypeOK
    <3>3. QED
      BY <2>1, <3>1, <3>2, <1>11 DEF TypeOK, Dir
  <2>3. CASE ~(Len(buffer) < BufferSize) /\ gone
    BY <2>1, <2>3, <1>11 DEF ErrorBack, TypeOK, Dir
  <2>4. CASE ~(Len(buffer) < BufferSize) /\ ~gone
    <3>1. toClient' = toClient \o buffer /\ buffer' = <<As("error")>> /\ HasRoom(Len(buffer))
          /\ UNCHANGED <<pump, toServer>>
      BY <2>1, <2>4 DEF ErrorBack
    <3>2. toClient' \in Seq(Message) /\ Len(toClient') = Len(toClient) + Len(buffer)
          /\ buffer' \in Seq(Message)
      BY <3>1, <2>1 DEF TypeOK
    <3>3. QED
      BY <3>1, <3>2, <2>1, <1>11, BoundsAssumption DEF HasRoom, TypeOK, Dir
  <2>5. QED
    BY <2>2, <2>3, <2>4
<1>15. CASE DropRefused
  BY <1>15, <1>11 DEF DropRefused, Finish, TypeOK, outVars, Dir
<1>16. ASSUME HasRoom(Len(buffer)), toClient' = toClient \o buffer, buffer' = <<>>, UNCHANGED seen
       PROVE  /\ buffer' \in Seq(Message) /\ toClient' \in Seq(Message)
              /\ seen' \in 0..Len(toClient') /\ Len(toClient') - seen' <= PipeSize
  <2>1. toClient' \in Seq(Message) /\ Len(toClient') = Len(toClient) + Len(buffer)
    BY <1>16 DEF TypeOK
  <2>2. QED
    BY <1>16, <2>1, BoundsAssumption DEF HasRoom, TypeOK
<1>17. CASE Flush
  BY <1>16, <1>17 DEF Flush, TypeOK, pipeVars, readVars
<1>18. CASE Stop
  BY <1>18 DEF TypeOK, Stop, pipeVars, readVars, outVars
<1>19. CASE Exit
  BY <1>16, <1>19 DEF Exit, TypeOK, pipeVars, readVars
<1>20. CASE Kill
  BY <1>20, BoundsAssumption DEF TypeOK, Kill, Fault, pipeVars, readVars, outVars
<1>21. CASE UNCHANGED vars
  BY <1>21 DEF TypeOK, vars, pipeVars, readVars, outVars
<1>22. QED
  BY <1>1, <1>2, <1>3, <1>4, <1>5, <1>6, <1>7, <1>8, <1>9, <1>10, <1>13, <1>14, <1>15,
     <1>17, <1>18, <1>19, <1>20, <1>21 DEF Next, Environment, Pump, Respond

\* TypeOK for any lines and any number of them.
THEOREM TypeCorrect == Spec => []TypeOK
<1>1. Init => TypeOK
  BY TypeInit
<1>2. TypeOK /\ [Next]_vars => TypeOK'
  BY TypeStep
<1>3. QED
  BY <1>1, <1>2, PTL DEF Spec

-----------------------------------------------------------------------------
(* What leaves the proxy *)

\* The message that answers a row, or a blank line.
AnswerForm(row) ==
  IF row.verdict = "allow" THEN "verbatim"
  ELSE IF row.verdict = "redact" THEN "redacted"
  ELSE IF row.verdict = "blank" THEN "blank" ELSE "error"
Answer(row) ==
  [dir |-> row.dir, n |-> row.n, whole |-> row.whole, form |-> AnswerForm(row)]

\* A step moves nothing to either side, or the one message that answers the line
\* in hand, to the side it is for.
ToServer == turn.dir = "c2s" /\ ~Refuses(turn)
Answers ==
  /\ turn # Idle /\ turn' = Idle /\ UNCHANGED <<audit, readVars, gone>>
  /\ Answer(turn) \in Message
  /\ \/ ToServer /\ toServer' = Append(toServer, Answer(turn)) /\ ForClient' = ForClient
     \/ ~ToServer /\ UNCHANGED toServer /\ ForClient' = Append(ForClient, Answer(turn))
Rests == UNCHANGED toServer /\ ForClient' = ForClient

\* What is written to the client is behind all that was.
LEMMA BehindClient ==
  ASSUME TypeOK, NEW m \in Message,
         \/ buffer' = Append(buffer, m) /\ UNCHANGED toClient
         \/ buffer = <<>> /\ buffer' = <<>> /\ toClient' = Append(toClient, m)
         \/ buffer' = <<m>> /\ toClient' = toClient \o buffer
  PROVE  ForClient' = Append(ForClient, m)
<1>1. toClient \in Seq(Message) /\ buffer \in Seq(Message)
  BY DEF TypeOK
<1>2. CASE buffer' = Append(buffer, m) /\ UNCHANGED toClient
  BY <1>1, <1>2, ConcatAppend DEF ForClient
<1>3. CASE buffer = <<>> /\ buffer' = <<>> /\ toClient' = Append(toClient, m)
  <2>1. Append(toClient, m) \o <<>> = Append(toClient \o <<>>, m)
    BY <1>1, ConcatAppend
  <2>2. QED
    BY <1>3, <2>1 DEF ForClient
<1>4. CASE buffer' = <<m>> /\ toClient' = toClient \o buffer
  <2>1. (toClient \o buffer) \o <<m>> = Append(toClient \o buffer, m)
    BY <1>1, ConcatAppend
  <2>2. QED
    BY <1>4, <2>1 DEF ForClient
<1>5. QED
  BY <1>2, <1>3, <1>4

\* Moving the buffer to the pipe writes nothing new.
LEMMA FlushRests ==
  ASSUME TypeOK, UNCHANGED toServer, toClient' = toClient \o buffer, buffer' = <<>>
  PROVE  Rests
<1>1. toClient \in Seq(Message) /\ buffer \in Seq(Message)
  BY DEF TypeOK
<1>2. toClient \o buffer \in Seq(Message)
  BY <1>1, ConcatProperties
<1>3. (toClient \o buffer) \o <<>> = toClient \o buffer
  BY <1>2, ConcatEmptySeq
<1>4. QED
  BY <1>3 DEF Rests, ForClient

\* No step writes anything else.
LEMMA WriteStep == ASSUME TypeOK, [Next]_vars PROVE Rests \/ Answers
<1> DEFINE Same == UNCHANGED outVars
<1>1. Same => Rests
  BY DEF outVars, ForClient, Rests
<1>2. Environment => Same
  BY DEF Environment, Send, Close, ClientReads, ClientLeaves, ChildExits, proxyVars
<1>3. ASSUME NEW d \in Dir,
             Handle(d) \/ HandleBlank(d) \/ HandlerRaises(d) \/ Drain(d) \/ PumpEnds(d)
      PROVE  Same
  BY <1>3 DEF Handle, HandleBlank, HandlerRaises, Drain, PumpEnds
<1>4. Stop \/ Kill => Same
  BY DEF Stop, Kill
<1>5. ASSUME Flush \/ Exit PROVE Rests
  <2>1. \/ toClient' = toClient \o buffer /\ buffer' = <<>> /\ UNCHANGED toServer
        \/ Same
    BY <1>5 DEF Flush, Exit, outVars
  <2>2. QED
    BY <1>1, <2>1, FlushRests
<1>6. ASSUME NEW d \in Dir, NEW form \in Forms, Finish(d), Write(d, As(form)), ~Refuses(turn),
             AnswerForm(turn) = form
      PROVE  Rests \/ Answers
  <2>1. As(form) \in Message /\ As(form) = Answer(turn)
    BY <1>6, AsType DEF As, Answer
  <2>2. turn # Idle /\ turn' = Idle /\ turn.dir = d /\ UNCHANGED <<audit, readVars, gone>>
    BY <1>6 DEF Finish, pipeVars
  <2>3. CASE d = "c2s"
    <3>1. /\ UNCHANGED <<buffer, toClient>>
          /\ (toServer' = Append(toServer, As(form)) \/ UNCHANGED toServer)
      BY <1>6, <2>3 DEF Write, WriteToServer
    <3>2. ForClient' = ForClient /\ ToServer
      BY <1>6, <2>2, <2>3, <3>1 DEF ForClient, ToServer
    <3>3. QED
      BY <2>1, <2>2, <3>1, <3>2 DEF Rests, Answers
  <2>4. CASE d # "c2s"
    <3>1. /\ UNCHANGED toServer
          /\ \/ buffer' = Append(buffer, As(form)) /\ UNCHANGED toClient
             \/ buffer = <<>> /\ buffer' = <<>> /\ toClient' = Append(toClient, As(form))
      BY <1>6, <2>4 DEF Write, WriteToClient
    <3>2. ForClient' = Append(ForClient, As(form)) /\ ~ToServer
      BY <2>1, <2>2, <2>4, <3>1, BehindClient DEF ToServer
    <3>3. QED
      BY <2>1, <2>2, <3>1, <3>2 DEF Answers
  <2>5. QED
    BY <2>3, <2>4
<1>7. ASSUME NEW d \in Dir, Forward(d) PROVE Rests \/ Answers
  BY <1>6, <1>7 DEF Forward, AnswerForm, Forms, Refuses
<1>8. ASSUME NEW d \in Dir, ForwardRedacted(d) PROVE Rests \/ Answers
  BY <1>6, <1>8 DEF ForwardRedacted, AnswerForm, Forms, Refuses
<1>9. ASSUME NEW d \in Dir, ForwardBlank(d) PROVE Rests \/ Answers
  BY <1>6, <1>9 DEF ForwardBlank, AnswerForm, Forms, Refuses
<1>10. ASSUME AnswerRefusal PROVE Rests \/ Answers
  <2>1. As("error") \in Message /\ As("error") = Answer(turn)
    BY <1>10, AsType DEF AnswerRefusal, Refuses, AnswerForm, As, Answer, Forms
  <2>2. turn # Idle /\ turn' = Idle /\ UNCHANGED <<audit, readVars, gone>> /\ ~ToServer
    BY <1>10 DEF AnswerRefusal, Finish, pipeVars, ToServer
  <2>3. /\ UNCHANGED toServer
        /\ \/ buffer' = Append(buffer, As("error")) /\ UNCHANGED toClient
           \/ toClient' = toClient \o buffer /\ buffer' = <<As("error")>>
           \/ UNCHANGED <<toClient, buffer>>
    BY <1>10 DEF AnswerRefusal, ErrorBack
  <2>4. CASE UNCHANGED <<toClient, buffer>>
    BY <2>3, <2>4 DEF Rests, ForClient
  <2>5. CASE ~ UNCHANGED <<toClient, buffer>>
    <3>1. ForClient' = Append(ForClient, As("error"))
      BY <2>1, <2>3, <2>5, BehindClient
    <3>2. QED
      BY <2>1, <2>2, <2>3, <3>1 DEF Answers
  <2>6. QED
    BY <2>4, <2>5
<1>11. DropRefused => Same
  BY DEF DropRefused
<1>12. UNCHANGED vars => Same
  BY DEF vars
<1>13. QED
  BY <1>1, <1>2, <1>3, <1>4, <1>5, <1>7, <1>8, <1>9, <1>10, <1>11, <1>12
     DEF Next, Pump, Respond

\* What is written is what was, and the answer to the line in hand.
LEMMA WrittenStep ==
  ASSUME TypeOK, [Next]_vars
  PROVE  \/ Written' = Written
         \/ turn # Idle /\ UNCHANGED audit /\ Written' = Written \cup {Answer(turn)}
<1>1. Rests => Written' = Written
  BY DEF Rests, Written
<1>2. ASSUME Answers PROVE Written' = Written \cup {Answer(turn)}
  <2>1. toServer \in Seq(Message) /\ ForClient \in Seq(Message) /\ Answer(turn) \in Message
    BY <1>2, ConcatProperties DEF TypeOK, ForClient, Answers
  <2>2. /\ Range(Append(toServer, Answer(turn))) = Range(toServer) \cup {Answer(turn)}
        /\ Range(Append(ForClient, Answer(turn))) = Range(ForClient) \cup {Answer(turn)}
    BY <2>1, AppendFacts
  <2>3. QED
    BY <1>2, <2>2 DEF Answers, Written
<1>3. QED
  BY <1>1, <1>2, WriteStep DEF Answers

-----------------------------------------------------------------------------
(* The inductive invariant *)

\* A row is about a line that was read, and has the line's verdict if it was read
\* whole.
RowsInv ==
  \A row \in Range(audit) :
    /\ 1 <= row.n /\ row.n <= taken[row.dir]
    /\ row.whole => row.verdict = Verdict(sent[row.dir][row.n])

\* The tail that is still unread has no row yet.
TailInv ==
  \A d \in Dir : cut[d] =>
    \A row \in Range(audit) : row.dir = d /\ row.n = taken[d] => row.whole

\* The line in hand, or of a message, is blank, or a tail.
BlankLine(x) ==
  x.whole => x.n \in 1..Len(sent[x.dir]) /\ sent[x.dir][x.n].kind = "blank"

\* The line in hand has its row, or is blank.
TurnInv ==
  turn # Idle => turn \in Range(audit) \/ (turn.verdict = "blank" /\ BlankLine(turn))

\* A message that was written answers a row, or is blank.
OutInv ==
  \A m \in Written :
    (m.form = "blank" /\ BlankLine(m)) \/ \E row \in Range(audit) : m = Answer(row)

GateInv == TypeOK /\ RowsInv /\ TailInv /\ TurnInv /\ OutInv

\* What was sent stays, and what was read stays read.
LEMMA Forth ==
  ASSUME TypeOK, TypeOK', [Next]_vars, NEW d \in Dir
  PROVE  /\ taken[d] <= taken'[d] /\ taken'[d] \in Nat
         /\ \A n \in 1..Len(sent[d]) : sent'[d][n] = sent[d][n]
<1>1. taken \in [Dir -> Nat] /\ taken' \in [Dir -> Nat] /\ sent \in [Dir -> Seq(Line)]
      /\ taken[d] \in Nat /\ taken'[d] \in Nat
  BY DEF TypeOK
<1>2. ASSUME NEW e \in Dir, Send(e)
      PROVE  \A n \in 1..Len(sent[d]) : sent'[d][n] = sent[d][n]
  <2>1. PICK line \in Frames[e] : sent' = [sent EXCEPT ![e] = Append(@, line)]
    BY <1>2 DEF Send
  <2>2. line \in Line
    BY FramesAssumption
  <2>3. QED
    BY <1>1, <2>1, <2>2
<1>3. UNCHANGED taken \/ \E e \in Dir : Handle(e) \/ HandleBlank(e) \/ HandlerRaises(e) \/ Drain(e)
  BY DEF Next, Environment, Send, Close, ClientReads, ClientLeaves, ChildExits, proxyVars, readVars,
     Pump, Respond, PumpEnds, Stop, Exit, Kill, vars, Forward, ForwardRedacted, ForwardBlank,
     AnswerRefusal, Flush, DropRefused, Finish
<1>4. UNCHANGED sent \/ \E e \in Dir : Send(e)
  BY DEF Next, Environment, Close, ClientReads, ClientLeaves, ChildExits, pipeVars,
     Pump, Respond, Handle, HandleBlank, HandlerRaises, Drain, PumpEnds, Stop, Exit, Kill, vars,
     Forward, ForwardRedacted, ForwardBlank, AnswerRefusal, Flush, DropRefused, Finish
<1>5. ASSUME NEW e \in Dir, Handle(e) \/ HandleBlank(e) \/ HandlerRaises(e)
      PROVE  taken[d] <= taken'[d]
  <2>1. taken' = [taken EXCEPT ![e] = NextAt(e)]
    BY <1>5 DEF Handle, HandleBlank, HandlerRaises
  <2>2. QED
    BY <1>1, <2>1 DEF NextAt
<1>6. ASSUME NEW e \in Dir, Drain(e) PROVE taken[d] <= taken'[d]
  <2>1. PICK k \in NextAt(e)..Len(sent[e]) : taken' = [taken EXCEPT ![e] = k]
    BY <1>6 DEF Drain
  <2>2. QED
    BY <1>1, <2>1 DEF NextAt
<1>7. taken[d] <= taken'[d]
  BY <1>1, <1>3, <1>5, <1>6
<1>8. QED
  BY <1>1, <1>2, <1>4, <1>7

\* A handler adds a row, with or without going on to answer the line.
Adds(d, verdict) ==
  (Handle(d) \/ HandlerRaises(d)) /\ audit' = Append(audit, NextRow(d, verdict))

\* The audit log changes only by a handler.
LEMMA AuditStep ==
  ASSUME [Next]_vars
  PROVE  UNCHANGED audit \/ \E d \in Dir : \E verdict \in Judgements(d) : Adds(d, verdict)
<1>1. ASSUME NEW d \in Dir, Handle(d) \/ HandlerRaises(d)
      PROVE  UNCHANGED audit \/ \E verdict \in Judgements(d) : Adds(d, verdict)
  BY <1>1 DEF Handle, HandlerRaises, Adds
<1>2. UNCHANGED audit \/ \E d \in Dir : Handle(d) \/ HandlerRaises(d)
  BY DEF Next, Environment, Send, Close, ClientReads, ClientLeaves, ChildExits, proxyVars,
     Pump, Respond, HandleBlank, Drain, PumpEnds, Stop, Exit, Kill, vars,
     Forward, ForwardRedacted, ForwardBlank, AnswerRefusal, Flush, DropRefused, Finish
<1>3. QED
  BY <1>1, <1>2

\* A handler adds one row, about the line it read, and no other row is about
\* that.
LEMMA RowAdded ==
  ASSUME GateInv, TypeOK', NEW d \in Dir, NEW verdict \in Judgements(d), Adds(d, verdict)
  PROVE  /\ Range(audit') = Range(audit) \cup {NextRow(d, verdict)}
         /\ NextRow(d, verdict) \in Row /\ NextAt(d) >= 1 /\ taken'[d] = NextAt(d)
         /\ UNCHANGED sent
         /\ \A row \in Range(audit) :
              <<row.dir, row.n, row.whole>> # <<d, NextAt(d), ~cut[d]>>
<1>1. TypeOK /\ Available(d)
  BY DEF GateInv, Adds, Handle, HandlerRaises, Parsable
<1>2. NextRow(d, verdict) \in Row /\ NextAt(d) \in Nat /\ NextAt(d) >= 1
  BY <1>1, NextRowType
<1>3. audit \in Seq(Row) /\ audit' = Append(audit, NextRow(d, verdict))
  BY <1>1 DEF TypeOK, Adds
<1>4. Range(audit') = Range(audit) \cup {NextRow(d, verdict)}
  BY <1>2, <1>3, AppendFacts
<1>5. taken'[d] = NextAt(d) /\ UNCHANGED sent
  BY <1>1 DEF Adds, Handle, HandlerRaises, TypeOK, pipeVars
<1>6. ASSUME NEW row \in Range(audit), row.dir = d, row.n = NextAt(d), row.whole = ~cut[d]
      PROVE  FALSE
  <2>1. row.n <= taken[d] /\ taken[d] \in Nat
    BY <1>1, <1>6 DEF GateInv, RowsInv, TypeOK
  <2>2. cut[d]
    BY <1>6, <2>1 DEF NextAt
  <2>3. row.whole
    BY <1>6, <2>2 DEF GateInv, TailInv, NextAt
  <2>4. QED
    BY <1>6, <2>2, <2>3
<1>7. QED
  BY <1>2, <1>4, <1>5, <1>6

\* Rows stay.
LEMMA RowsStay == ASSUME GateInv, TypeOK', [Next]_vars PROVE Range(audit) \subseteq Range(audit')
BY AuditStep, RowAdded

\* A handler that goes on has the row it added in hand.
LEMMA HandleAdds ==
  ASSUME NEW d \in Dir, Handle(d)
  PROVE  \E verdict \in Judgements(d) : Adds(d, verdict) /\ turn' = NextRow(d, verdict)
BY DEF Handle, Adds

\* Initially nothing is written.
LEMMA NothingWritten == Init => toServer = <<>> /\ ForClient = <<>> /\ Written = {}
<1> SUFFICES ASSUME Init PROVE toServer = <<>> /\ ForClient = <<>> /\ Written = {}
  OBVIOUS
<1>1. toServer = <<>> /\ toClient = <<>> /\ buffer = <<>>
  BY DEF Init
<1>2. ForClient = <<>>
  BY <1>1, EmptySeq, ConcatEmptySeq DEF ForClient
<1>3. QED
  BY <1>1, <1>2 DEF Written, Range

\* The invariant holds initially.
LEMMA GateInit == Init => GateInv
<1> SUFFICES ASSUME Init PROVE GateInv
  OBVIOUS
<1>1. TypeOK
  BY TypeInit
<1>2. Range(audit) = {}
  BY DEF Init, Range
<1>3. Written = {}
  BY NothingWritten
<1>4. turn = Idle
  BY DEF Init
<1>5. QED
  BY <1>1, <1>2, <1>3, <1>4 DEF GateInv, RowsInv, TailInv, TurnInv, OutInv

\* Old rows stay true of their lines, as these stay; and a new row is true.
LEMMA RowsStep == ASSUME GateInv, TypeOK', [Next]_vars PROVE RowsInv'
<1> DEFINE Right(row) ==
      /\ 1 <= row.n /\ row.n <= taken'[row.dir]
      /\ row.whole => row.verdict = Verdict(sent'[row.dir][row.n])
<1>1. TypeOK
  BY DEF GateInv
<1>2. ASSUME NEW row \in Range(audit) PROVE Right(row)
  <2>1. row \in Row /\ row.dir \in Dir /\ row.n \in Nat
    <3>1. audit \in Seq(Row)
      BY <1>1 DEF TypeOK
    <3>2. row \in Row
      BY <3>1 DEF Range
    <3>3. QED
      BY <3>2 DEF Row
  <2>2. /\ 1 <= row.n /\ row.n <= taken[row.dir]
        /\ row.whole => row.verdict = Verdict(sent[row.dir][row.n])
    BY DEF GateInv, RowsInv
  <2>3. taken[row.dir] \in Nat /\ taken[row.dir] <= Len(sent[row.dir])
        /\ Len(sent[row.dir]) \in Nat
    BY <1>1, <2>1 DEF TypeOK
  <2>4. taken[row.dir] <= taken'[row.dir] /\ taken'[row.dir] \in Nat
        /\ \A n \in 1..Len(sent[row.dir]) : sent'[row.dir][n] = sent[row.dir][n]
    BY <1>1, <2>1, Forth
  <2>5. sent'[row.dir][row.n] = sent[row.dir][row.n] /\ row.n <= taken'[row.dir]
    BY <2>1, <2>2, <2>3, <2>4
  <2>6. QED
    BY <2>2, <2>5
<1>3. ASSUME NEW d \in Dir, NEW verdict \in Judgements(d), Adds(d, verdict)
      PROVE  Right(NextRow(d, verdict))
  <2>1. NextAt(d) >= 1 /\ NextAt(d) \in Nat /\ taken'[d] = NextAt(d) /\ UNCHANGED sent
    BY <1>1, <1>3, RowAdded, NextRowType DEF Adds, Handle, HandlerRaises, Parsable
  <2>2. ~cut[d] => verdict = Verdict(sent[d][NextAt(d)])
    BY DEF Judgements, NextLine
  <2>3. /\ NextRow(d, verdict).dir = d /\ NextRow(d, verdict).n = NextAt(d)
        /\ NextRow(d, verdict).whole = ~cut[d] /\ NextRow(d, verdict).verdict = verdict
    BY DEF NextRow
  <2>4. 1 <= NextRow(d, verdict).n /\ NextRow(d, verdict).n <= taken'[NextRow(d, verdict).dir]
    BY <2>1, <2>3
  <2>5. sent'[NextRow(d, verdict).dir][NextRow(d, verdict).n] = sent[d][NextAt(d)]
    BY <2>1, <2>3
  <2>6. cut[d] \in BOOLEAN
    BY <1>1 DEF TypeOK
  <2>7. QED
    BY <2>2, <2>3, <2>4, <2>5, <2>6
<1>4. UNCHANGED audit \/ \E d \in Dir : \E verdict \in Judgements(d) :
        Adds(d, verdict) /\ Range(audit') = Range(audit) \cup {NextRow(d, verdict)}
  BY AuditStep, RowAdded
<1>5. \A row \in Range(audit') : Right(row)
  BY <1>2, <1>3, <1>4
<1>6. QED
  BY <1>5 DEF RowsInv

\* A tail that is left to be read is new.
LEMMA TailStep == ASSUME GateInv, TypeOK', [Next]_vars PROVE TailInv'
<1>1. TypeOK
  BY DEF GateInv
<1>2. SUFFICES ASSUME NEW d \in Dir, cut'[d], NEW row \in Range(audit'),
                      row.dir = d, row.n = taken'[d]
               PROVE  row.whole
  BY DEF TailInv
<1>3. taken \in [Dir -> Nat] /\ cut \in [Dir -> BOOLEAN]
  BY <1>1 DEF TypeOK
<1>4. CASE UNCHANGED <<taken, cut, audit>>
  BY <1>2, <1>4 DEF GateInv, TailInv
<1>5. ASSUME NEW e \in Dir, Handle(e) \/ HandlerRaises(e) \/ HandleBlank(e) PROVE row.whole
  <2>1. cut' = [cut EXCEPT ![e] = FALSE] /\ taken' = [taken EXCEPT ![e] = NextAt(e)]
    BY <1>5 DEF Handle, HandlerRaises, HandleBlank
  <2>2. d # e /\ cut[d] /\ taken'[d] = taken[d]
    BY <1>2, <1>3, <2>1
  <2>3. UNCHANGED audit \/ \E verdict \in Judgements(e) : Adds(e, verdict)
    BY <1>5 DEF Handle, HandlerRaises, HandleBlank, Adds
  <2>4. UNCHANGED audit
        \/ \E verdict \in Judgements(e) : Range(audit') = Range(audit) \cup {NextRow(e, verdict)}
    BY <2>3, RowAdded
  <2>5. row \in Range(audit)
    BY <1>2, <2>2, <2>4 DEF NextRow
  <2>6. QED
    BY <1>2, <2>2, <2>5 DEF GateInv, TailInv
<1>7. ASSUME NEW e \in Dir, Drain(e) PROVE row.whole
  <2>1. PICK k \in NextAt(e)..Len(sent[e]), tail \in BOOLEAN :
           taken' = [taken EXCEPT ![e] = k] /\ cut' = [cut EXCEPT ![e] = tail]
    BY <1>7 DEF Drain
  <2>2. UNCHANGED audit
    BY <1>7 DEF Drain
  <2>3. CASE d # e
    <3>1. cut[d] /\ taken'[d] = taken[d]
      BY <1>2, <1>3, <2>1, <2>3
    <3>2. QED
      BY <1>2, <2>2, <3>1 DEF GateInv, TailInv
  <2>4. CASE d = e
    <3>1. taken'[d] = k /\ NextAt(d) \in Nat /\ NextAt(d) <= k /\ k \in Nat
      <4>1. Available(e) /\ Len(sent[e]) \in Nat
        BY <1>1, <1>7 DEF Drain, Oversized, TypeOK
      <4>2. NextAt(e) \in Nat
        BY <1>1, <4>1, NextRowType
      <4>3. QED
        BY <1>3, <2>1, <2>4, <4>1, <4>2
    <3>2. row.n <= taken[d] /\ taken[d] \in Nat
      BY <1>2, <1>3, <2>2 DEF GateInv, RowsInv
    <3>3. cut[d] /\ row.n = taken[d]
      BY <1>2, <1>3, <3>1, <3>2 DEF NextAt
    <3>4. QED
      BY <1>2, <2>2, <3>3 DEF GateInv, TailInv
  <2>5. QED
    BY <2>3, <2>4
<1>8. \/ UNCHANGED <<taken, cut, audit>>
      \/ \E e \in Dir : Handle(e) \/ HandleBlank(e) \/ HandlerRaises(e) \/ Drain(e)
  BY DEF Next, Environment, Send, Close, ClientReads, ClientLeaves, ChildExits, proxyVars, readVars,
     Pump, Respond, PumpEnds, Stop, Exit, Kill, vars, Forward, ForwardRedacted, ForwardBlank,
     AnswerRefusal, Flush, DropRefused, Finish
<1>9. QED
  BY <1>4, <1>5, <1>7, <1>8

\* What was written is a message.
LEMMA WrittenType == ASSUME TypeOK, NEW m \in Written PROVE m \in Message
<1>1. toServer \in Seq(Message) /\ ForClient \in Seq(Message)
  BY ConcatProperties DEF TypeOK, ForClient
<1>2. QED
  BY <1>1 DEF Written, Range

\* What was sent as a blank line stays one.
LEMMA BlankStays ==
  ASSUME TypeOK, TypeOK', [Next]_vars, NEW d \in Dir, NEW n \in Nat,
         n \in 1..Len(sent[d]), sent[d][n].kind = "blank"
  PROVE  n \in 1..Len(sent'[d]) /\ sent'[d][n].kind = "blank"
<1>1. sent'[d][n] = sent[d][n]
  BY Forth
<1>2. Len(sent[d]) <= Len(sent'[d]) /\ Len(sent[d]) \in Nat /\ Len(sent'[d]) \in Nat
  <2>1. sent \in [Dir -> Seq(Line)] /\ sent' \in [Dir -> Seq(Line)]
    BY DEF TypeOK
  <2>2. ASSUME NEW e \in Dir, Send(e) PROVE Len(sent[d]) <= Len(sent'[d])
    <3>1. PICK line \in Frames[e] : sent' = [sent EXCEPT ![e] = Append(@, line)]
      BY <2>2 DEF Send
    <3>2. line \in Line
      BY FramesAssumption
    <3>3. QED
      BY <2>1, <3>1, <3>2
  <2>3. UNCHANGED sent \/ \E e \in Dir : Send(e)
    BY DEF Next, Environment, Close, ClientReads, ClientLeaves, ChildExits, pipeVars,
       Pump, Respond, Handle, HandleBlank, HandlerRaises, Drain, PumpEnds, Stop, Exit, Kill, vars,
       Forward, ForwardRedacted, ForwardBlank, AnswerRefusal, Flush, DropRefused, Finish
  <2>4. QED
    BY <2>1, <2>2, <2>3
<1>3. QED
  BY <1>1, <1>2

\* The line in hand is recorded before anything else happens.
LEMMA TurnStep == ASSUME GateInv, TypeOK', [Next]_vars PROVE TurnInv'
<1>1. ASSUME UNCHANGED turn \/ turn' = Idle PROVE TurnInv'
  <2>1. Range(audit) \subseteq Range(audit')
    BY RowsStay
  <2>2. turn \in Turn
    BY DEF GateInv, TypeOK
  <2>3. BlankLine(turn) => BlankLine(turn)'  \/ turn' = Idle
    BY <1>1, <2>2, BlankStays DEF GateInv, BlankLine, Turn
  <2>4. QED
    BY <1>1, <2>1, <2>3 DEF GateInv, TurnInv
<1>2. ASSUME NEW d \in Dir, Handle(d) PROVE TurnInv'
  <2>1. PICK verdict \in Judgements(d) : Adds(d, verdict) /\ turn' = NextRow(d, verdict)
    BY <1>2, HandleAdds
  <2>2. turn' \in Range(audit')
    BY <2>1, RowAdded
  <2>3. QED
    BY <2>2 DEF TurnInv
<1>3. ASSUME NEW d \in Dir, HandleBlank(d) PROVE TurnInv'
  <2>1. turn' = NextRow(d, "blank") /\ UNCHANGED sent
    BY <1>3 DEF HandleBlank, pipeVars
  <2>2. ~cut[d] => NextAt(d) \in 1..Len(sent[d]) /\ sent[d][NextAt(d)].kind = "blank"
    BY <1>3, NextRowType DEF GateInv, HandleBlank, Blank, NextLine
  <2>3. turn'.verdict = "blank" /\ BlankLine(turn)'
    BY <2>1, <2>2 DEF NextRow, BlankLine
  <2>4. QED
    BY <2>3 DEF TurnInv
<1>4. UNCHANGED turn \/ turn' = Idle \/ \E d \in Dir : Handle(d) \/ HandleBlank(d)
  BY DEF Next, Environment, Send, Close, ClientReads, ClientLeaves, ChildExits, proxyVars,
     Pump, Respond, HandlerRaises, Drain, PumpEnds, Stop, Exit, Kill, vars, Forward,
     ForwardRedacted, ForwardBlank, AnswerRefusal, Flush, DropRefused, Finish
<1>5. QED
  BY <1>1, <1>2, <1>3, <1>4

\* Only the line in hand is answered, and it has its row or is blank.
LEMMA OutStep == ASSUME GateInv, TypeOK', [Next]_vars PROVE OutInv'
<1>1. TypeOK
  BY DEF GateInv
<1>2. Range(audit) \subseteq Range(audit')
  BY RowsStay
<1>3. ASSUME NEW m \in Written
      PROVE  (m.form = "blank" /\ BlankLine(m)') \/ \E row \in Range(audit') : m = Answer(row)
  <2>1. m.dir \in Dir /\ m.n \in Nat
    BY <1>1, WrittenType DEF Message
  <2>2. BlankLine(m) => BlankLine(m)'
    BY <1>1, <2>1, BlankStays DEF BlankLine
  <2>3. QED
    BY <1>2, <2>2 DEF GateInv, OutInv
<1>4. CASE Written' = Written
  BY <1>3, <1>4 DEF OutInv
<1>5. CASE turn # Idle /\ UNCHANGED audit /\ Written' = Written \cup {Answer(turn)}
  <2>1. turn \in Range(audit) \/ (turn.verdict = "blank" /\ BlankLine(turn))
    BY <1>5 DEF GateInv, TurnInv
  <2>2. turn.verdict = "blank" => Answer(turn).form = "blank"
    BY DEF Answer, AnswerForm
  <2>3. turn.dir \in Dir /\ turn.n \in Nat
    BY <1>1 DEF TypeOK, Turn
  <2>4. ASSUME NEW m, m = Answer(turn), BlankLine(turn) PROVE BlankLine(m)'
    BY <1>1, <2>3, <2>4, BlankStays DEF BlankLine, Answer
  <2>5. ASSUME NEW m, m = Answer(turn)
        PROVE  (m.form = "blank" /\ BlankLine(m)') \/ \E row \in Range(audit') : m = Answer(row)
    BY <1>2, <2>1, <2>2, <2>4, <2>5
  <2>6. \A m \in Written' :
          (m.form = "blank" /\ BlankLine(m)') \/ \E row \in Range(audit') : m = Answer(row)
    BY <1>3, <1>5, <2>5
  <2>7. QED
    BY <2>6 DEF OutInv
<1>6. QED
  BY <1>1, <1>4, <1>5, WrittenStep

\* Every step keeps the invariant.
LEMMA GateStep == GateInv /\ [Next]_vars => GateInv'
<1> SUFFICES ASSUME GateInv, [Next]_vars PROVE GateInv'
  OBVIOUS
<1>1. TypeOK'
  BY TypeStep DEF GateInv
<1>2. QED
  BY <1>1, RowsStep, TailStep, TurnStep, OutStep DEF GateInv

\* The invariant holds in every behaviour.
THEOREM GateCorrect == Spec => []GateInv
<1>1. Init => GateInv
  BY GateInit
<1>2. GateInv /\ [Next]_vars => GateInv'
  BY GateStep
<1>3. QED
  BY <1>1, <1>2, PTL DEF Spec

-----------------------------------------------------------------------------
(* The policy is upheld *)

\* What a verdict says of a line.
LEMMA VerdictMeans ==
  ASSUME NEW line \in Line
  PROVE  LET call == line.kind = "call"
             refused == (call /\ Refused(line)) \/ line.kind = "drifted" IN
         /\ refused <=> Verdict(line) \in {"deny", "approval"}
         /\ call /\ Redacted(line) => Verdict(line) # "allow"
         /\ line.kind = "blank" => ~call /\ ~refused
BY DEF Verdict, CallVerdict, Refused, Denied, NeedsApproval, Redacted, Line

\* The invariant says that the policy is upheld.
LEMMA GateUpholds == GateInv => PolicyUpheld
<1> SUFFICES ASSUME GateInv PROVE PolicyUpheld
  OBVIOUS
<1> DEFINE line(m) == sent[m.dir][m.n]
           call(m) == line(m).kind = "call"
           refused(m) == (call(m) /\ Refused(line(m))) \/ line(m).kind = "drifted"
<1>1. ASSUME NEW m \in Written
      PROVE  /\ m.form # "blank" => HasRow(m.dir, m.n, m.whole, Allowing[m.form])
             /\ m.whole => /\ refused(m) <=> m.form = "error"
                           /\ call(m) /\ Redacted(line(m)) => m.form \in {"redacted", "error"}
  <2>0. TypeOK /\ m.dir \in Dir
    BY WrittenType DEF GateInv, Message
  <2>1. CASE m.form = "blank" /\ BlankLine(m)
    <3>1. m.whole => line(m) \in Line /\ line(m).kind = "blank"
      BY <2>0, <2>1 DEF BlankLine, TypeOK
    <3>2. m.whole => ~call(m) /\ ~refused(m)
      BY <3>1
    <3>3. QED
      BY <2>1, <3>2
  <2>2. ASSUME NEW row \in Range(audit), m = Answer(row)
        PROVE  /\ m.form # "blank" => HasRow(m.dir, m.n, m.whole, Allowing[m.form])
               /\ m.whole => /\ refused(m) <=> m.form = "error"
                             /\ call(m) /\ Redacted(line(m)) => m.form \in {"redacted", "error"}
    <3>1. row \in Row
      <4>1. audit \in Seq(Row)
        BY DEF GateInv, TypeOK
      <4>2. QED
        BY <4>1 DEF Range
    <3>2. row.dir \in Dir /\ row.n \in Nat /\ row.whole \in BOOLEAN /\ row.verdict \in Verdicts
      BY <3>1 DEF Row
    <3>3. m.dir = row.dir /\ m.n = row.n /\ m.whole = row.whole /\ m.form = AnswerForm(row)
      BY <2>2 DEF Answer
    <3>4. row.verdict \in Allowing[m.form] /\ (m.form = "error" <=> row.verdict \in {"deny", "approval"})
          /\ (m.form \in {"redacted", "error"} <=> row.verdict # "allow")
      BY <3>2, <3>3 DEF AnswerForm, Allowing, Verdicts
    <3>5. HasRow(m.dir, m.n, m.whole, Allowing[m.form])
      BY <3>3, <3>4 DEF HasRow
    <3>6. 1 <= row.n /\ row.n <= taken[row.dir] /\ (row.whole => row.verdict = Verdict(line(m)))
      BY <3>3 DEF GateInv, RowsInv
    <3>7. line(m) \in Line
      <4>1. taken[row.dir] <= Len(sent[row.dir]) /\ taken[row.dir] \in Nat
            /\ sent[row.dir] \in Seq(Line)
        BY <3>2 DEF GateInv, TypeOK
      <4>2. QED
        BY <3>2, <3>3, <3>6, <4>1
    <3>8. /\ refused(m) <=> Verdict(line(m)) \in {"deny", "approval"}
          /\ call(m) /\ Redacted(line(m)) => Verdict(line(m)) # "allow"
      BY <3>7, VerdictMeans
    <3>9. QED
      BY <3>3, <3>4, <3>5, <3>6, <3>8
  <2>3. QED
    BY <2>1, <2>2 DEF GateInv, OutInv
<1>2. QED
  BY <1>1 DEF PolicyUpheld

\* PolicyUpheld: whatever the policy, the lines and the faults, what is written
\* has its row, and the form the row's verdict allows; and the row of a line that
\* was read whole has the verdict of that line.
THEOREM PolicyCorrect == Spec => []PolicyUpheld
BY GateCorrect, GateUpholds, PTL

-----------------------------------------------------------------------------
(* Losses have a cause *)

\* A tail is left only of an oversized line, or of one behind it.
CutInv == \A d \in Dir : cut[d] => \E m \in 1..taken[d] : sent[d][m].kind = "oversized"

LossInv == GateInv /\ CutInv /\ LossHasCause

\* A pump that failed reads no more.
LEMMA FailedStays ==
  ASSUME TypeOK, TypeOK', [Next]_vars, NEW d \in Dir, pump[d] = "failed"
  PROVE  pump'[d] = "failed" /\ taken'[d] = taken[d]
<1>1. pump \in [Dir -> {"reading", "ended", "failed"}] /\ taken \in [Dir -> Nat]
  BY DEF TypeOK
<1>2. \/ UNCHANGED pump
      \/ \E e \in Dir : pump' = [pump EXCEPT ![e] = "failed"]
      \/ \E e \in Dir : PumpEnds(e)
  BY DEF Next, Environment, Send, Close, ClientReads, ClientLeaves, ChildExits, proxyVars,
     Pump, Respond, Handle, HandleBlank, HandlerRaises, Drain, Stop, Exit, Kill, vars,
     Forward, ForwardRedacted, ForwardBlank, AnswerRefusal, Flush, DropRefused, Finish, Write,
     WriteToServer, WriteToClient, ErrorBack, outVars, Dir
<1>3. ASSUME NEW e \in Dir, PumpEnds(e) PROVE pump'[d] = "failed"
  BY <1>1, <1>3 DEF PumpEnds, Reading
<1>4. pump'[d] = "failed"
  BY <1>1, <1>2, <1>3
<1>5. \/ UNCHANGED taken
      \/ \E e \in Dir : /\ Reading(e)
                        /\ \E k \in Nat : taken' = [taken EXCEPT ![e] = k]
  <2>1. ASSUME NEW e \in Dir, Handle(e) \/ HandleBlank(e) \/ HandlerRaises(e)
        PROVE  Reading(e) /\ \E k \in Nat : taken' = [taken EXCEPT ![e] = k]
    BY <2>1, NextRowType DEF Handle, HandleBlank, HandlerRaises, Parsable, Blank
  <2>2. ASSUME NEW e \in Dir, Drain(e)
        PROVE  Reading(e) /\ \E k \in Nat : taken' = [taken EXCEPT ![e] = k]
    <3>1. NextAt(e) \in Nat /\ Len(sent[e]) \in Nat /\ Reading(e)
      BY <2>2, NextRowType DEF Drain, Oversized
    <3>2. PICK k \in NextAt(e)..Len(sent[e]) : taken' = [taken EXCEPT ![e] = k]
      BY <2>2 DEF Drain
    <3>3. k \in Nat
      BY <3>1
    <3>4. QED
      BY <3>1, <3>2, <3>3
  <2>3. QED
    BY <2>1, <2>2
       DEF Next, Environment, Send, Close, ClientReads, ClientLeaves, ChildExits, proxyVars,
       readVars, Pump, Respond, PumpEnds, Stop, Exit, Kill, vars, Forward, ForwardRedacted,
       ForwardBlank, AnswerRefusal, Flush, DropRefused, Finish
<1>6. taken'[d] = taken[d]
  BY <1>1, <1>5 DEF Reading
<1>7. QED
  BY <1>4, <1>6

\* What a pump reads beyond what was read.
LEMMA NewlyRead ==
  ASSUME LossInv, TypeOK', [Next]_vars, NEW d \in Dir, NEW n \in 1..Len(sent[d]),
         n > taken[d], n <= taken'[d]
  PROVE  \/ sent[d][n].kind = "blank"
         \/ \E verdict \in Verdicts : HasRow(d, n, TRUE, {verdict})'
         \/ \E m \in 1..n : sent[d][m].kind = "oversized"
         \/ pump'[d] = "failed" /\ n = taken'[d]
<1>1. TypeOK /\ taken \in [Dir -> Nat] /\ pump \in [Dir -> {"reading", "ended", "failed"}]
      /\ cut[d] \in BOOLEAN
  BY DEF LossInv, GateInv, TypeOK
<1>2. ASSUME NEW e \in Dir, taken' = [taken EXCEPT ![e] = NextAt(e)]
      PROVE  d = e /\ ~cut[d] /\ n = NextAt(d) /\ n = taken'[d]
  <2>1. d = e /\ taken'[d] = NextAt(d)
    BY <1>1, <1>2
  <2>2. QED
    BY <1>1, <2>1 DEF NextAt
<1>3. ASSUME NEW e \in Dir, Handle(e)
      PROVE  \E verdict \in Verdicts : HasRow(d, n, TRUE, {verdict})'
  <2>1. d = e /\ ~cut[d] /\ n = NextAt(d)
    BY <1>2, <1>3 DEF Handle
  <2>2. PICK verdict \in Judgements(d) : Adds(d, verdict)
    BY <1>3, <2>1, HandleAdds
  <2>3. NextRow(d, verdict) \in Range(audit') /\ NextRow(d, verdict) \in Row
    BY <2>2, RowAdded DEF LossInv
  <2>4. /\ NextRow(d, verdict).dir = d /\ NextRow(d, verdict).n = n
        /\ NextRow(d, verdict).whole = TRUE /\ NextRow(d, verdict).verdict \in Verdicts
    BY <2>1, <2>3 DEF NextRow, Row
  <2>5. QED
    BY <2>3, <2>4 DEF HasRow
<1>4. ASSUME NEW e \in Dir, HandleBlank(e) PROVE sent[d][n].kind = "blank"
  BY <1>2, <1>4 DEF HandleBlank, Blank, NextLine
<1>5. ASSUME NEW e \in Dir, HandlerRaises(e) PROVE pump'[d] = "failed" /\ n = taken'[d]
  BY <1>1, <1>2, <1>5 DEF HandlerRaises
<1>6. ASSUME NEW e \in Dir, Drain(e) PROVE \E m \in 1..n : sent[d][m].kind = "oversized"
  <2>1. PICK k \in NextAt(e)..Len(sent[e]) : taken' = [taken EXCEPT ![e] = k]
    BY <1>6 DEF Drain
  <2>2. d = e
    BY <1>1, <2>1
  <2>3. CASE cut[d]
    <3>1. PICK m \in 1..taken[d] : sent[d][m].kind = "oversized"
      BY <2>3 DEF LossInv, CutInv
    <3>2. m \in 1..n
      BY <1>1, <3>1
    <3>3. QED
      BY <3>1, <3>2
  <2>4. CASE ~cut[d]
    <3>1. sent[d][taken[d] + 1].kind = "oversized"
      BY <1>6, <2>2, <2>4 DEF Drain, Oversized, NextLine, NextAt
    <3>2. taken[d] + 1 \in 1..n
      BY <1>1
    <3>3. QED
      BY <3>1, <3>2
  <2>5. QED
    BY <2>3, <2>4
<1>7. UNCHANGED taken \/ \E e \in Dir : Handle(e) \/ HandleBlank(e) \/ HandlerRaises(e) \/ Drain(e)
  BY DEF Next, Environment, Send, Close, ClientReads, ClientLeaves, ChildExits, proxyVars, readVars,
     Pump, Respond, PumpEnds, Stop, Exit, Kill, vars, Forward, ForwardRedacted, ForwardBlank,
     AnswerRefusal, Flush, DropRefused, Finish
<1>8. ~ UNCHANGED taken
  BY <1>1
<1>9. QED
  BY <1>3, <1>4, <1>5, <1>6, <1>7, <1>8

\* Nothing is lost initially.
LEMMA LossInit == Init => LossInv
BY GateInit DEF Init, LossInv, CutInv, LossHasCause

\* A tail is cut off only behind an oversized line.
LEMMA CutStep == ASSUME LossInv, TypeOK', [Next]_vars PROVE CutInv'
<1>1. TypeOK /\ cut \in [Dir -> BOOLEAN] /\ taken \in [Dir -> Nat] /\ taken' \in [Dir -> Nat]
  BY DEF LossInv, GateInv, TypeOK
<1>2. SUFFICES ASSUME NEW d \in Dir, cut'[d]
               PROVE  \E m \in 1..taken'[d] : sent'[d][m].kind = "oversized"
  BY DEF CutInv
<1>3. /\ taken[d] <= taken'[d] /\ taken[d] <= Len(sent[d]) /\ Len(sent[d]) \in Nat
      /\ \A n \in 1..Len(sent[d]) : sent'[d][n] = sent[d][n]
  <2>1. taken[d] <= Len(sent[d]) /\ Len(sent[d]) \in Nat
    BY <1>1 DEF TypeOK
  <2>2. QED
    BY <1>1, <2>1, Forth
<1>4. CASE cut[d]
  <2>1. PICK m \in 1..taken[d] : sent[d][m].kind = "oversized"
    BY <1>4 DEF LossInv, CutInv
  <2>2. m \in 1..taken'[d] /\ sent'[d][m] = sent[d][m]
    BY <1>1, <1>3, <2>1
  <2>3. QED
    BY <2>1, <2>2
<1>5. CASE ~cut[d]
  <2>1. UNCHANGED cut \/ \E e \in Dir : Handle(e) \/ HandleBlank(e) \/ HandlerRaises(e) \/ Drain(e)
    BY DEF Next, Environment, Send, Close, ClientReads, ClientLeaves, ChildExits, proxyVars,
       readVars, Pump, Respond, PumpEnds, Stop, Exit, Kill, vars, Forward, ForwardRedacted,
       ForwardBlank, AnswerRefusal, Flush, DropRefused, Finish
  <2>2. ASSUME NEW e \in Dir, Handle(e) \/ HandleBlank(e) \/ HandlerRaises(e) PROVE FALSE
    <3>1. cut' = [cut EXCEPT ![e] = FALSE]
      BY <2>2 DEF Handle, HandleBlank, HandlerRaises
    <3>2. QED
      BY <1>1, <1>2, <1>5, <3>1
  <2>3. PICK e \in Dir : Drain(e)
    BY <1>2, <1>5, <2>1, <2>2
  <2>4. PICK k \in NextAt(e)..Len(sent[e]), tail \in BOOLEAN :
           taken' = [taken EXCEPT ![e] = k] /\ cut' = [cut EXCEPT ![e] = tail]
    BY <2>3 DEF Drain
  <2>5. d = e
    BY <1>1, <1>2, <1>5, <2>4
  <2>6. NextAt(d) = taken[d] + 1 /\ sent[d][taken[d] + 1].kind = "oversized" /\ taken'[d] = k
    BY <1>1, <1>5, <2>3, <2>4, <2>5 DEF Drain, Oversized, NextLine, NextAt
  <2>7. taken[d] + 1 \in 1..taken'[d] /\ taken[d] + 1 \in 1..Len(sent[d])
    BY <1>1, <1>3, <2>4, <2>5, <2>6
  <2>8. QED
    BY <1>3, <2>6, <2>7
<1>6. QED
  BY <1>4, <1>5

\* Each line that a step reads without a row has a cause.
LEMMA LossStep == ASSUME LossInv, GateInv', [Next]_vars PROVE LossHasCause'
<1>1. /\ TypeOK /\ TypeOK' /\ GateInv
      /\ taken \in [Dir -> Nat] /\ taken' \in [Dir -> Nat]
  BY DEF LossInv, GateInv, TypeOK
<1>2. SUFFICES ASSUME NEW d \in Dir, NEW n \in 1..Len(sent'[d]), Lost(d, n)'
               PROVE  \/ \E m \in 1..n : sent'[d][m].kind = "oversized"
                      \/ pump'[d] = "failed" /\ n = taken'[d]
  BY DEF LossHasCause
<1>3. n <= taken'[d] /\ sent'[d][n].kind # "blank"
      /\ ~ \E verdict \in Verdicts : HasRow(d, n, TRUE, {verdict})'
  BY <1>2 DEF Lost
<1>4. CASE n <= Len(sent[d])
  <2>1. n \in 1..Len(sent[d])
    BY <1>4
  <2>2. \A m \in 1..n : sent'[d][m] = sent[d][m]
    <3>1. Len(sent[d]) \in Nat
      BY <1>1 DEF TypeOK
    <3>2. \A m \in 1..n : m \in 1..Len(sent[d])
      BY <2>1, <3>1
    <3>3. QED
      BY <1>1, <3>2, Forth
  <2>3. n \in 1..n
    BY <2>1
  <2>4. CASE n > taken[d]
    BY <1>1, <1>3, <2>1, <2>2, <2>3, <2>4, NewlyRead
  <2>5. CASE n <= taken[d]
    <3>1. ~ \E verdict \in Verdicts : HasRow(d, n, TRUE, {verdict})
      <4>1. Range(audit) \subseteq Range(audit')
        BY <1>1, RowsStay
      <4>2. QED
        BY <1>3, <4>1 DEF HasRow
    <3>2. Lost(d, n)
      BY <1>3, <2>2, <2>3, <2>5, <3>1 DEF Lost
    <3>3. \/ \E m \in 1..n : sent[d][m].kind = "oversized"
          \/ pump[d] = "failed" /\ n = taken[d]
      BY <2>1, <3>2 DEF LossInv, LossHasCause
    <3>4. QED
      BY <1>1, <2>2, <3>3, FailedStays
  <2>6. n \in Nat /\ taken[d] \in Nat
    BY <1>1, <2>1
  <2>7. QED
    BY <2>4, <2>5, <2>6
<1>5. CASE ~(n <= Len(sent[d]))
  <2>1. taken'[d] <= Len(sent[d])
    <3>1. UNCHANGED sent \/ UNCHANGED taken
      BY DEF Next, Environment, Send, Close, ClientReads, ClientLeaves, ChildExits, proxyVars,
         readVars, pipeVars, Pump, Respond, Handle, HandleBlank, HandlerRaises, Drain, PumpEnds,
         Stop, Exit, Kill, vars, Forward, ForwardRedacted, ForwardBlank, AnswerRefusal, Flush,
         DropRefused, Finish
    <3>2. taken[d] <= Len(sent[d]) /\ taken'[d] <= Len(sent'[d])
      BY <1>1 DEF TypeOK
    <3>3. QED
      BY <3>1, <3>2
  <2>2. n \in Nat /\ taken'[d] \in Nat /\ Len(sent[d]) \in Nat
    BY <1>1 DEF TypeOK
  <2>3. QED
    BY <1>3, <1>5, <2>1, <2>2
<1>6. QED
  BY <1>4, <1>5

\* LossHasCause: a line that was read without leaving a row was blank, or was
\* oversized or behind such a line, or is the one at which the pump failed.
THEOREM LossExplained == Spec => []LossHasCause
<1>1. Init => LossInv
  BY LossInit
<1>2. LossInv /\ [Next]_vars => LossInv'
  <2> SUFFICES ASSUME LossInv, [Next]_vars PROVE LossInv'
    OBVIOUS
  <2>1. GateInv' /\ TypeOK'
    BY GateStep DEF LossInv, GateInv
  <2>2. QED
    BY <2>1, CutStep, LossStep DEF LossInv
<1>3. LossInv => LossHasCause
  BY DEF LossInv
<1>4. QED
  BY <1>1, <1>2, <1>3, PTL DEF Spec

-----------------------------------------------------------------------------
(* Order *)

\* What was written is about lines that were read, a tail that is still unread
\* is about none of them, and the line in hand was read after all of them.
FreshInv ==
  /\ turn # Idle => turn.n = taken[turn.dir] /\ ~cut[turn.dir]
  /\ \A m \in Written :
       /\ m.n <= taken[m.dir] /\ (cut[m.dir] => m.n < taken[m.dir])
       /\ turn # Idle /\ turn.dir = m.dir => m.n < turn.n

OrderInv == TypeOK /\ FreshInv /\ InOrder

\* A message that is newer than all of its direction may follow them.
LEMMA AscendingAppend ==
  ASSUME NEW out \in Seq(Message), NEW m \in Message, Ascending(out),
         \A x \in Range(out) : x.dir = m.dir => x.n < m.n
  PROVE  Ascending(Append(out, m))
<1> DEFINE next == Append(out, m)
<1>1. /\ Len(next) = Len(out) + 1 /\ Len(out) \in Nat
      /\ \A i \in 1..Len(out) : next[i] = out[i]
      /\ next[Len(out) + 1] = m
  BY AppendFacts
<1>2. SUFFICES ASSUME NEW i \in 1..Len(next), NEW j \in 1..Len(next), i < j,
                      next[i].dir = next[j].dir
               PROVE  next[i].n < next[j].n
  BY DEF Ascending
<1>3. i \in 1..Len(out) /\ (j \in 1..Len(out) \/ j = Len(out) + 1)
  BY <1>1, <1>2
<1>4. CASE j \in 1..Len(out)
  BY <1>1, <1>2, <1>3, <1>4 DEF Ascending
<1>5. CASE j = Len(out) + 1
  <2>1. out[i] \in Range(out)
    BY <1>3 DEF Range
  <2>2. QED
    BY <1>1, <1>2, <1>3, <1>5, <2>1
<1>6. QED
  BY <1>3, <1>4, <1>5

\* The pumps' positions change only when a line is read.
LEMMA TurnMoves ==
  ASSUME [Next]_vars
  PROVE  \/ UNCHANGED readVars /\ (UNCHANGED turn \/ turn' = Idle)
         \/ \E e \in Dir : Handle(e) \/ HandleBlank(e) \/ HandlerRaises(e) \/ Drain(e)
BY DEF Next, Environment, Send, Close, ClientReads, ClientLeaves, ChildExits, proxyVars,
   Pump, Respond, PumpEnds, Stop, Exit, Kill, vars, Forward, ForwardRedacted, ForwardBlank,
   AnswerRefusal, Flush, DropRefused, Finish

\* Reading goes on behind all that was written.
LEMMA FreshReads ==
  ASSUME OrderInv, TypeOK', NEW e \in Dir,
         Handle(e) \/ HandleBlank(e) \/ HandlerRaises(e) \/ Drain(e)
  PROVE  FreshInv'
<1>1. /\ TypeOK /\ taken \in [Dir -> Nat] /\ cut \in [Dir -> BOOLEAN] /\ turn = Idle
      /\ Available(e)
  BY DEF OrderInv, TypeOK, Handle, HandleBlank, HandlerRaises, Drain, Reading, Parsable, Blank,
     Oversized
<1>2. Written' = Written
  BY DEF Handle, HandleBlank, HandlerRaises, Drain, outVars, Written, ForClient
<1>3. PICK k \in Nat, tail \in BOOLEAN :
         /\ taken' = [taken EXCEPT ![e] = k] /\ cut' = [cut EXCEPT ![e] = tail]
         /\ NextAt(e) <= k
         /\ \/ turn' = Idle
            \/ turn'.dir = e /\ turn'.n = k /\ ~tail
  <2>1. NextAt(e) \in Nat /\ Len(sent[e]) \in Nat
    BY <1>1, NextRowType
  <2>2. CASE Handle(e) \/ HandleBlank(e) \/ HandlerRaises(e)
    <3>1. taken' = [taken EXCEPT ![e] = NextAt(e)] /\ cut' = [cut EXCEPT ![e] = FALSE]
      BY <2>2 DEF Handle, HandleBlank, HandlerRaises
    <3>2. turn' = Idle \/ \E verdict : turn' = NextRow(e, verdict)
      BY <1>1, <2>2 DEF Handle, HandleBlank, HandlerRaises
    <3>3. turn' = Idle \/ (turn'.dir = e /\ turn'.n = NextAt(e))
      BY <3>2 DEF NextRow
    <3>4. NextAt(e) <= NextAt(e) /\ FALSE \in BOOLEAN /\ ~FALSE
      BY <2>1
    <3>5. QED
      BY <2>1, <3>1, <3>3, <3>4, Zenon
  <2>3. CASE Drain(e)
    <3>1. PICK k \in NextAt(e)..Len(sent[e]), tail \in BOOLEAN :
             taken' = [taken EXCEPT ![e] = k] /\ cut' = [cut EXCEPT ![e] = tail]
      BY <2>3 DEF Drain
    <3>2. turn' = Idle /\ k \in Nat /\ NextAt(e) <= k
      BY <1>1, <2>1, <2>3 DEF Drain
    <3>3. QED
      BY <3>1, <3>2
  <2>4. QED
    BY <2>2, <2>3
<1>4. taken'[e] = k /\ cut'[e] = tail
  BY <1>1, <1>3
<1>5. ASSUME NEW m \in Written
      PROVE  /\ m.n <= taken'[m.dir] /\ (cut'[m.dir] => m.n < taken'[m.dir])
             /\ turn' # Idle /\ turn'.dir = m.dir => m.n < turn'.n
  <2>1. m.dir \in Dir /\ m.n \in Nat
    BY <1>1, WrittenType DEF Message
  <2>2. m.n <= taken[m.dir] /\ (cut[m.dir] => m.n < taken[m.dir])
    BY DEF OrderInv, FreshInv
  <2>3. CASE m.dir = e
    <3>1. m.n < k
      BY <1>1, <1>3, <2>1, <2>2, <2>3 DEF NextAt
    <3>2. QED
      BY <1>3, <1>4, <2>1, <2>3, <3>1
  <2>4. CASE m.dir # e
    <3>1. taken'[m.dir] = taken[m.dir] /\ cut'[m.dir] = cut[m.dir]
      BY <1>1, <1>3, <2>1, <2>4
    <3>2. QED
      BY <1>3, <2>2, <2>4, <3>1
  <2>5. QED
    BY <2>3, <2>4
<1>6. turn' # Idle => turn'.n = taken'[turn'.dir] /\ ~cut'[turn'.dir]
  BY <1>3, <1>4
<1>7. QED
  BY <1>2, <1>5, <1>6 DEF FreshInv

\* What a step writes was read last of its direction.
LEMMA FreshStep == ASSUME OrderInv, TypeOK', [Next]_vars PROVE FreshInv'
<1>1. CASE \E e \in Dir : Handle(e) \/ HandleBlank(e) \/ HandlerRaises(e) \/ Drain(e)
  BY <1>1, FreshReads
<1>2. CASE UNCHANGED readVars /\ (UNCHANGED turn \/ turn' = Idle)
  <2>1. turn' # Idle => turn'.n = taken'[turn'.dir] /\ ~cut'[turn'.dir]
    BY <1>2 DEF OrderInv, FreshInv, readVars
  <2>2. ASSUME NEW m \in Written
        PROVE  /\ m.n <= taken'[m.dir] /\ (cut'[m.dir] => m.n < taken'[m.dir])
               /\ turn' # Idle /\ turn'.dir = m.dir => m.n < turn'.n
    BY <1>2 DEF OrderInv, FreshInv, readVars
  <2>3. CASE Written' = Written
    BY <2>1, <2>2, <2>3 DEF FreshInv
  <2>4. CASE Written' # Written
    <3>1. turn # Idle /\ turn' = Idle /\ Written' = Written \cup {Answer(turn)}
      <4>1. Rests => Written' = Written
        BY DEF Rests, Written
      <4>2. QED
        BY <2>4, <4>1, WriteStep, WrittenStep DEF OrderInv, Answers
    <3>2. Answer(turn).n = turn.n /\ Answer(turn).dir = turn.dir
      BY DEF Answer
    <3>3. turn.n = taken'[turn.dir] /\ ~cut'[turn.dir] /\ turn.n \in Nat
      BY <1>2, <3>1 DEF OrderInv, FreshInv, readVars, TypeOK, Turn
    <3>4. QED
      BY <2>1, <2>2, <3>1, <3>2, <3>3 DEF FreshInv
  <2>5. QED
    BY <2>3, <2>4
<1>3. QED
  BY <1>1, <1>2, TurnMoves

\* So it may follow all that was written.
LEMMA InOrderStep == ASSUME OrderInv, [Next]_vars PROVE InOrder'
<1>1. TypeOK /\ toServer \in Seq(Message) /\ ForClient \in Seq(Message)
  BY ConcatProperties DEF OrderInv, TypeOK, ForClient
<1>2. CASE Rests
  BY <1>2 DEF OrderInv, InOrder, Rests
<1>3. CASE Answers
  <2>1. Answer(turn) \in Message /\ turn # Idle
    BY <1>3 DEF Answers
  <2>2. Answer(turn).n = turn.n /\ Answer(turn).dir = turn.dir
        /\ Answer(turn).form = AnswerForm(turn)
    BY DEF Answer
  <2>3. \A m \in Written : m.dir = Answer(turn).dir => m.n < Answer(turn).n
    BY <2>1, <2>2 DEF OrderInv, FreshInv
  <2>4. /\ Ascending(Append(toServer, Answer(turn))) /\ Ascending(Append(ForClient, Answer(turn)))
        /\ Range(Append(toServer, Answer(turn))) = Range(toServer) \cup {Answer(turn)}
        /\ Range(Append(ForClient, Answer(turn))) = Range(ForClient) \cup {Answer(turn)}
    BY <1>1, <2>1, <2>3, AscendingAppend, AppendFacts DEF OrderInv, InOrder, Written
  <2>5. turn \in Turn
    BY <1>1 DEF TypeOK
  <2>6. ToServer => turn.dir = "c2s" /\ AnswerForm(turn) # "error"
    BY <2>5 DEF ToServer, Refuses, AnswerForm, Turn, Verdicts
  <2>7. ~ToServer => turn.dir = "s2c" \/ AnswerForm(turn) = "error"
    BY <2>5 DEF ToServer, Refuses, AnswerForm, Turn, Dir
  <2>8. QED
    BY <1>3, <2>2, <2>4, <2>6, <2>7 DEF Answers, OrderInv, InOrder
<1>4. QED
  BY <1>1, <1>2, <1>3, WriteStep

\* InOrder: whatever is dropped, cut, refused or buffered, neither side sees the
\* other's lines out of order or twice.
THEOREM OrderKept == Spec => []InOrder
<1>1. Init => OrderInv
  <2> SUFFICES ASSUME Init PROVE OrderInv
    OBVIOUS
  <2>1. turn = Idle
    BY DEF Init
  <2>2. Len(toServer) = 0 /\ Len(ForClient) = 0 /\ Range(toServer) = {} /\ Range(ForClient) = {}
        /\ Written = {}
    BY NothingWritten DEF Range
  <2>3. QED
    BY <2>1, <2>2, TypeInit DEF OrderInv, FreshInv, InOrder, Ascending
<1>2. OrderInv /\ [Next]_vars => OrderInv'
  <2> SUFFICES ASSUME OrderInv, [Next]_vars PROVE OrderInv'
    OBVIOUS
  <2>1. TypeOK'
    BY TypeStep DEF OrderInv
  <2>2. QED
    BY <2>1, FreshStep, InOrderStep DEF OrderInv
<1>3. OrderInv => InOrder
  BY DEF OrderInv
<1>4. QED
  BY <1>1, <1>2, <1>3, PTL DEF Spec

-----------------------------------------------------------------------------
(* Refusals are answered *)

Answered(row) == Answer(row) \in Range(ForClient)
FailedAt(row) == pump["c2s"] = "failed" /\ row.n = taken["c2s"]

\* A refused request is in hand, or answered, unless the client has gone or the
\* pump failed at it.
AnsweredInv ==
  \A row \in Range(audit) :
    row.dir = "c2s" /\ Refuses(row) =>
      turn = row \/ Answered(row) \/ FailedAt(row) \/ gone

\* The proxy stops between two lines, and exits with nothing in the buffer.
StoppedInv ==
  /\ status \in {"stopping", "exited"} => turn = Idle
  /\ status = "exited" /\ ~gone => buffer = <<>>

AnswerInv == GateInv /\ AnsweredInv /\ StoppedInv

\* Nothing is written between the stop and the exit.
LEMMA StoppedStep == ASSUME AnswerInv, [Next]_vars PROVE StoppedInv'
<1> USE DEF AnswerInv, StoppedInv
<1>1. CASE Environment
  BY <1>1 DEF Environment, Send, Close, ClientReads, ClientLeaves, ChildExits, proxyVars, outVars,
     pipeVars
<1>2. ASSUME NEW d \in Dir,
             \/ Handle(d) \/ HandleBlank(d) \/ HandlerRaises(d) \/ Drain(d) \/ PumpEnds(d)
             \/ Finish(d) \/ Flush
      PROVE  StoppedInv'
  BY <1>2 DEF Handle, HandleBlank, HandlerRaises, Drain, PumpEnds, Finish, Flush, Reading
<1>3. CASE Stop
  BY <1>3 DEF Stop
<1>4. CASE Exit
  BY <1>4 DEF Exit, pipeVars
<1>5. CASE Kill
  BY <1>5 DEF Kill
<1>6. CASE UNCHANGED vars
  BY <1>6 DEF vars, outVars, pipeVars
<1>7. QED
  BY <1>1, <1>2, <1>3, <1>4, <1>5, <1>6
     DEF Next, Pump, Respond, Forward, ForwardRedacted, ForwardBlank, AnswerRefusal,
         DropRefused, Dir

\* A refused request leaves the pump's hand with an answer, or because the
\* client has gone.
LEMMA RefusalAnswered ==
  ASSUME AnswerInv, [Next]_vars, turn.dir = "c2s", Refuses(turn), turn' # turn, turn # Idle, ~gone
  PROVE  ForClient' = Append(ForClient, Answer(turn)) /\ Answer(turn) \in Message
<1>1. AnswerRefusal
  BY DEF Next, Environment, Send, Close, ClientReads, ClientLeaves, ChildExits, proxyVars,
     Pump, Respond, PumpEnds, Stop, Exit, Kill, vars, Forward, ForwardRedacted, ForwardBlank,
     Flush, DropRefused, Finish, Handle, HandleBlank, HandlerRaises, Drain, Reading, Refuses
<1>2. TypeOK /\ As("error") = Answer(turn) /\ As("error") \in Message
  BY AsType DEF AnswerInv, GateInv, As, Answer, AnswerForm, Refuses, Forms
<1>3. \/ buffer' = Append(buffer, As("error")) /\ UNCHANGED toClient
      \/ toClient' = toClient \o buffer /\ buffer' = <<As("error")>>
  BY <1>1 DEF AnswerRefusal, ErrorBack
<1>4. QED
  BY <1>2, <1>3, BehindClient

\* A refusal is answered before the next line is read, if one is.
LEMMA AnsweredStep == ASSUME AnswerInv, TypeOK', [Next]_vars PROVE AnsweredInv'
<1>1. TypeOK /\ GateInv /\ ForClient \in Seq(Message)
  BY ConcatProperties DEF AnswerInv, GateInv, TypeOK, ForClient
<1>2. Range(ForClient) \subseteq Range(ForClient')
  <2>1. CASE Rests
    BY <2>1 DEF Rests
  <2>2. CASE Answers
    <3>1. /\ Answer(turn) \in Message
          /\ ForClient' = ForClient \/ ForClient' = Append(ForClient, Answer(turn))
      BY <2>2 DEF Answers
    <3>2. Range(Append(ForClient, Answer(turn))) = Range(ForClient) \cup {Answer(turn)}
      BY <1>1, <3>1, AppendFacts
    <3>3. QED
      BY <3>1, <3>2
  <2>3. QED
    BY <1>1, <2>1, <2>2, WriteStep
<1>3. gone => gone'
  BY DEF Next, Environment, Send, Close, ClientReads, ClientLeaves, ChildExits, pipeVars,
     Pump, Respond, Handle, HandleBlank, HandlerRaises, Drain, PumpEnds, Stop, Exit, Kill, vars,
     Forward, ForwardRedacted, ForwardBlank, AnswerRefusal, Flush, DropRefused, Finish
<1>4. ASSUME NEW row \in Range(audit), row.dir = "c2s", Refuses(row)
      PROVE  turn' = row \/ Answered(row)' \/ FailedAt(row)' \/ gone'
  <2>1. turn = row \/ Answered(row) \/ FailedAt(row) \/ gone
    BY <1>4 DEF AnswerInv, AnsweredInv
  <2>2. CASE Answered(row) \/ gone
    BY <1>2, <1>3, <2>2 DEF Answered, Answer, AnswerForm
  <2>3. CASE FailedAt(row)
    BY <1>1, <2>3, FailedStays DEF FailedAt, Dir
  <2>4. CASE turn = row /\ turn' # row /\ ~gone
    <3>1. turn # Idle
      BY <1>4, <2>4 DEF Idle, Refuses
    <3>2. ForClient' = Append(ForClient, Answer(turn)) /\ Answer(turn) \in Message
      BY <1>4, <2>4, <3>1, RefusalAnswered
    <3>3. Answer(turn) \in Range(ForClient')
      BY <1>1, <3>2, AppendFacts
    <3>4. QED
      BY <2>4, <3>3 DEF Answered, Answer, AnswerForm
  <2>5. QED
    BY <2>1, <2>2, <2>3, <2>4
<1>5. CASE UNCHANGED audit
  BY <1>4, <1>5 DEF AnsweredInv, Refuses
<1>6. ASSUME NEW d \in Dir, NEW verdict \in Judgements(d), Adds(d, verdict)
      PROVE  AnsweredInv'
  <2>1. Range(audit') = Range(audit) \cup {NextRow(d, verdict)}
    BY <1>1, <1>6, RowAdded
  <2>2. CASE Handle(d)
    <3>1. PICK other \in Judgements(d) : Adds(d, other) /\ turn' = NextRow(d, other)
      BY <2>2, HandleAdds
    <3>2. Range(audit') = Range(audit) \cup {NextRow(d, other)}
      BY <1>1, <3>1, RowAdded
    <3>3. QED
      BY <1>4, <3>1, <3>2 DEF AnsweredInv, Refuses
  <2>3. CASE HandlerRaises(d)
    <3>1. pump \in [Dir -> {"reading", "ended", "failed"}] /\ taken \in [Dir -> Nat]
      BY <1>1 DEF TypeOK
    <3>2. pump'[d] = "failed" /\ taken'[d] = NextAt(d)
      BY <2>3, <3>1 DEF HandlerRaises
    <3>3. ASSUME NEW row, row = NextRow(d, verdict), row.dir = "c2s" PROVE FailedAt(row)'
      BY <3>2, <3>3 DEF FailedAt, NextRow
    <3>4. \A row \in Range(audit') : row \in Range(audit) \/ row = NextRow(d, verdict)
      BY <2>1
    <3>5. QED
      BY <1>4, <3>3, <3>4 DEF AnsweredInv, Refuses
  <2>4. QED
    BY <1>6, <2>2, <2>3 DEF Adds
<1>7. QED
  BY <1>5, <1>6, AuditStep

\* AnsweredByExit: after an orderly exit a client that still reads has the answer
\* to each request that was refused, though nothing flushed it in between, or the
\* request is the one at which the pump failed.
THEOREM AllAnswered == Spec => []AnsweredByExit
<1>1. Init => AnswerInv
  BY GateInit DEF Init, AnswerInv, AnsweredInv, StoppedInv, Range
<1>2. AnswerInv /\ [Next]_vars => AnswerInv'
  <2> SUFFICES ASSUME AnswerInv, [Next]_vars PROVE AnswerInv'
    OBVIOUS
  <2>1. GateInv' /\ TypeOK'
    BY GateStep DEF AnswerInv, GateInv
  <2>2. QED
    BY <2>1, StoppedStep, AnsweredStep DEF AnswerInv
<1>3. AnswerInv => AnsweredByExit
  <2> SUFFICES ASSUME AnswerInv, status = "exited", ~gone, NEW row \in Range(audit),
                      row.dir = "c2s", Refuses(row), ~FailedAt(row)
               PROVE  [dir |-> "c2s", n |-> row.n, whole |-> row.whole, form |-> "error"]
                        \in Range(toClient)
    BY DEF AnsweredByExit, FailedAt
  <2>1. turn = Idle /\ buffer = <<>>
    BY DEF AnswerInv, StoppedInv
  <2>2. Answered(row)
    BY <2>1 DEF AnswerInv, AnsweredInv, Idle, Refuses
  <2>3. ForClient = toClient
    <3>1. toClient \in Seq(Message)
      BY DEF AnswerInv, GateInv, TypeOK
    <3>2. QED
      BY <2>1, <3>1, ConcatEmptySeq DEF ForClient
  <2>4. QED
    BY <2>2, <2>3 DEF Answered, Answer, AnswerForm, Refuses
<1>4. QED
  BY <1>1, <1>2, <1>3, PTL DEF Spec

-----------------------------------------------------------------------------
(* The proxy keeps the promise of Gateway *)

\* The rows and the messages, as Gateway sees them.
Item(row) == <<row.dir, row.n, row.whole>>
RowsOf(a) == [i \in 1..Len(a) |->
                [item |-> <<a[i].dir, a[i].n, a[i].whole>>, verdict |-> a[i].verdict]]
PassedOf(w) == {[item |-> <<m.dir, m.n, m.whole>>, form |-> FormOf(m)] :
                  m \in {x \in w : x.form # "blank"}}

\* One more row is one more record, behind the others.
LEMMA RowsOfAppend ==
  ASSUME NEW a \in Seq(Row), NEW row \in Row
  PROVE  LET b == Append(a, row) IN
         /\ Len(RowsOf(a)) = Len(a) /\ Len(RowsOf(b)) = Len(a) + 1
         /\ SubSeq(RowsOf(b), 1, Len(a)) = RowsOf(a)
         /\ \A i \in 1..Len(a) : RowsOf(b)[i].item = Item(a[i])
         /\ RowsOf(b)[Len(a) + 1].item = Item(row)
<1> DEFINE b == Append(a, row)
           Pair == [item : Dir \X Nat \X BOOLEAN, verdict : Verdicts]
<1>1. b \in Seq(Row) /\ Len(b) = Len(a) + 1 /\ Len(a) \in Nat
      /\ (\A i \in 1..Len(a) : b[i] = a[i]) /\ b[Len(a) + 1] = row
  OBVIOUS
<1>2. ASSUME NEW s \in Seq(Row)
      PROVE  RowsOf(s) \in Seq(Pair) /\ Len(RowsOf(s)) = Len(s)
  <2>1. \A i \in 1..Len(s) :
          [item |-> <<s[i].dir, s[i].n, s[i].whole>>, verdict |-> s[i].verdict] \in Pair
    <3>1. \A i \in 1..Len(s) : s[i] \in Row
      OBVIOUS
    <3>2. QED
      BY <3>1 DEF Row
  <2>2. RowsOf(s) \in [1..Len(s) -> Pair]
    BY <2>1 DEF RowsOf
  <2>3. Len(s) \in Nat
    OBVIOUS
  <2>4. QED
    BY <2>2, <2>3, FunctionIsSeq
<1>3. \A i \in 1..Len(a) : RowsOf(b)[i] = RowsOf(a)[i] /\ RowsOf(b)[i].item = Item(a[i])
  BY <1>1 DEF RowsOf, Item
<1>4. RowsOf(b)[Len(a) + 1].item = Item(row)
  BY <1>1 DEF RowsOf, Item
<1>5. SubSeq(RowsOf(b), 1, Len(a)) = RowsOf(a)
  <2>1. \A i \in 1..Len(a) : RowsOf(b)[i] \in Pair
    <3>1. RowsOf(b) \in Seq(Pair) /\ Len(RowsOf(b)) = Len(a) + 1
      BY <1>1, <1>2
    <3>2. \A i \in 1..Len(a) : i \in 1..Len(RowsOf(b))
      BY <1>1, <3>1
    <3>3. QED
      BY <3>1, <3>2, ElementOfSeq
  <2>2. /\ SubSeq(RowsOf(b), 1, Len(a)) \in Seq(Pair)
        /\ Len(SubSeq(RowsOf(b), 1, Len(a))) = Len(a)
        /\ \A i \in 1..Len(a) : SubSeq(RowsOf(b), 1, Len(a))[i] = RowsOf(b)[i]
    BY <1>1, <2>1, SubSeqProperties
  <2>3. QED
    BY <1>2, <1>3, <2>2, SeqEqual
<1>6. QED
  BY <1>1, <1>2, <1>3, <1>4, <1>5

\* What is passed grows by what is written.
LEMMA PassedOfUnion ==
  ASSUME NEW w, NEW m, NEW x \in PassedOf(w \cup {m}), x \notin PassedOf(w)
  PROVE  m.form # "blank" /\ x = [item |-> <<m.dir, m.n, m.whole>>, form |-> FormOf(m)]
BY DEF PassedOf

\* The answer to a row is an item and a form that Gateway passes for it.
LEMMA AnswerPasses ==
  ASSUME GateInv, turn # Idle, turn.verdict # "blank"
  PROVE  \E row \in Range(RowsOf(audit)) :
           /\ row.item = <<Answer(turn).dir, Answer(turn).n, Answer(turn).whole>>
           /\ FormOf(Answer(turn)) = Promise!FormOf[row.verdict]
<1>1. turn \in Range(audit)
  BY DEF GateInv, TurnInv
<1>2. audit \in Seq(Row)
  BY DEF GateInv, TypeOK
<1>3. PICK i \in 1..Len(audit) : audit[i] = turn
  BY <1>1, <1>2 DEF Range
<1>4. turn \in Row
  BY <1>2, <1>3
<1>5. turn.whole \in BOOLEAN /\ turn.verdict \in Verdicts
  BY <1>4 DEF Row
<1>6. /\ Answer(turn).dir = turn.dir /\ Answer(turn).n = turn.n
      /\ Answer(turn).whole = turn.whole /\ Answer(turn).form = AnswerForm(turn)
  BY DEF Answer
<1>7. FormOf(Answer(turn)) = Promise!FormOf[turn.verdict]
  BY <1>5, <1>6 DEF AnswerForm, FormOf, Verdicts, Promise!FormOf
<1>8. /\ RowsOf(audit)[i].item = <<turn.dir, turn.n, turn.whole>>
      /\ RowsOf(audit)[i].verdict = turn.verdict
  BY <1>3 DEF RowsOf
<1>9. RowsOf(audit)[i] \in Range(RowsOf(audit))
  BY <1>3 DEF RowsOf, Range
<1>10. QED
  BY <1>6, <1>7, <1>8, <1>9

\* A handler records one line, which has no record yet.
LEMMA HandleRecords ==
  ASSUME GateInv, TypeOK', NEW d \in Dir, NEW verdict \in Judgements(d), Adds(d, verdict)
  PROVE  Promise!Record
<1>1. audit \in Seq(Row) /\ NextRow(d, verdict) \in Row /\ audit' = Append(audit, NextRow(d, verdict))
  BY RowAdded DEF GateInv, TypeOK, Adds
<1>2. Written' = Written
  BY DEF Adds, Handle, HandlerRaises, outVars, Written, ForClient
<1>3. /\ Len(RowsOf(audit')) = Len(RowsOf(audit)) + 1
      /\ SubSeq(RowsOf(audit'), 1, Len(RowsOf(audit))) = RowsOf(audit)
      /\ Len(RowsOf(audit)) = Len(audit) /\ Len(audit) \in Nat
      /\ RowsOf(audit')[Len(RowsOf(audit'))].item = Item(NextRow(d, verdict))
      /\ \A i \in 1..Len(audit) : RowsOf(audit')[i].item = Item(audit[i])
  BY <1>1, RowsOfAppend
<1>4. ASSUME NEW i \in 1..Len(audit) PROVE Item(audit[i]) # Item(NextRow(d, verdict))
  <2>1. audit[i] \in Range(audit)
    BY <1>1 DEF Range
  <2>2. <<audit[i].dir, audit[i].n, audit[i].whole>> # <<d, NextAt(d), ~cut[d]>>
    BY <2>1, RowAdded
  <2>3. NextRow(d, verdict).dir = d /\ NextRow(d, verdict).n = NextAt(d) /\ NextRow(d, verdict).whole = ~cut[d]
    BY DEF NextRow
  <2>4. QED
    BY <2>2, <2>3 DEF Item
<1>5. \A j \in Len(RowsOf(audit)) + 1..Len(RowsOf(audit')) :
        \A i \in 1..j - 1 : RowsOf(audit')[i].item # RowsOf(audit')[j].item
  <2> SUFFICES ASSUME NEW j \in Len(RowsOf(audit)) + 1..Len(RowsOf(audit')), NEW i \in 1..j - 1
               PROVE  RowsOf(audit')[i].item # RowsOf(audit')[j].item
    OBVIOUS
  <2>1. j = Len(RowsOf(audit')) /\ i \in 1..Len(audit)
    BY <1>3
  <2>2. QED
    BY <1>3, <1>4, <2>1
<1>6. PassedOf(Written') = PassedOf(Written)
  BY <1>2
<1>7. Len(RowsOf(audit')) > Len(RowsOf(audit))
  BY <1>3
<1>8. QED
  BY <1>3, <1>5, <1>6, <1>7 DEF Promise!Record, RowsOf, PassedOf

\* KeepsPromise: each step is a step of Gateway or none.
THEOREM ImplementsPromise == Spec => KeepsPromise
<1>1. Init => Promise!Init
  <2> SUFFICES ASSUME Init PROVE Promise!Init
    OBVIOUS
  <2>1. audit = <<>>
    BY DEF Init
  <2>2. Written = {}
    BY NothingWritten
  <2>3. RowsOf(audit) = <<>>
    <3>1. RowsOf(audit) \in [1..0 -> {}] /\ 0 \in Nat
      BY <2>1 DEF RowsOf
    <3>2. RowsOf(audit) \in Seq({}) /\ Len(RowsOf(audit)) = 0
      BY <3>1, FunctionIsSeq
    <3>3. QED
      BY <3>2, EmptySeq
  <2>4. PassedOf(Written) = {}
    BY <2>2 DEF PassedOf
  <2>5. QED
    BY <2>3, <2>4 DEF Promise!Init, RowsOf, PassedOf
<1>2. ASSUME GateInv, GateInv', [Next]_vars PROVE [Promise!Next]_(Promise!vars)
  <2>1. TypeOK /\ TypeOK'
    BY <1>2 DEF GateInv
  <2>2. CASE UNCHANGED audit /\ Written' = Written
    BY <2>2 DEF Promise!vars
  <2>3. CASE UNCHANGED audit /\ turn # Idle /\ Written' = Written \cup {Answer(turn)}
    <3>1. RowsOf(audit') = RowsOf(audit)
      BY <2>3
    <3>2. PassedOf(Written) \subseteq PassedOf(Written')
      BY <2>3 DEF PassedOf
    <3>3. ASSUME NEW x \in PassedOf(Written') \ PassedOf(Written)
          PROVE  \E row \in Range(RowsOf(audit)) :
                   row.item = x.item /\ x.form = Promise!FormOf[row.verdict]
      <4>1. Answer(turn).form # "blank"
            /\ x = [item |-> <<Answer(turn).dir, Answer(turn).n, Answer(turn).whole>>,
                    form |-> FormOf(Answer(turn))]
        BY <2>3, <3>3, PassedOfUnion
      <4>2. turn.verdict # "blank"
        BY <4>1 DEF Answer, AnswerForm
      <4>3. QED
        BY <1>2, <2>3, <4>1, <4>2, AnswerPasses
    <3>4. Promise!Pass
      <4>1. Promise!Range(RowsOf(audit)) = Range(RowsOf(audit))
        BY DEF Range, Promise!Range
      <4>2. QED
        BY <3>1, <3>2, <3>3, <4>1 DEF Promise!Pass, RowsOf, PassedOf
    <3>5. QED
      BY <3>4 DEF Promise!Next
  <2>4. CASE \E d \in Dir : \E verdict \in Judgements(d) : Adds(d, verdict)
    BY <1>2, <2>1, <2>4, HandleRecords DEF Promise!Next
  <2>5. QED
    BY <1>2, <2>1, <2>2, <2>3, <2>4, AuditStep, WrittenStep
<1>3. QED
  BY <1>1, <1>2, GateCorrect, PTL DEF Spec, KeepsPromise, Promise!Spec
=============================================================================
