--------------------------- MODULE AppendOnlyLog ---------------------------
(***************************************************************************)
(* What the audit log promises, whatever the number of writers: records    *)
(* are only ever added at the end, and a record whose append has returned  *)
(* (so that its frame may be forwarded) is in the log, at the position     *)
(* that was returned, for good.                                            *)
(***************************************************************************)
EXTENDS Integers, Sequences

CONSTANT Entry

VARIABLES log,      \* the entries recorded so far, in order
          acked     \* the [seq, body] pairs whose append has returned

vars == <<log, acked>>

Init == log = <<>> /\ acked = {}

Publish ==
  /\ log' \in Seq(Entry)
  /\ Len(log') > Len(log)
  /\ \A i \in 1..Len(log) : log'[i] = log[i]
  /\ UNCHANGED acked

Acknowledge ==
  /\ \E i \in 1..Len(log) : acked' = acked \cup {[seq |-> i, body |-> log[i]]}
  /\ UNCHANGED log

Next == Publish \/ Acknowledge

Spec == Init /\ [][Next]_vars
=============================================================================
