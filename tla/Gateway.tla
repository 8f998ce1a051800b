------------------------------ MODULE Gateway ------------------------------
(***************************************************************************)
(* What the firewall promises on either transport: a message is recorded   *)
(* once, with its verdict, and the record stays; and what leaves the proxy *)
(* on account of a message follows its record and has the form that the    *)
(* verdict allows.                                                         *)
(***************************************************************************)
EXTENDS Integers, Sequences, Functions

VARIABLES rows,     \* the records [item, verdict], in order
          passed    \* what left the proxy: a set of [item, form]

vars == <<rows, passed>>

FormOf == [allow |-> "original", redact |-> "redacted",
           deny |-> "error", approval |-> "error"]

Init == rows = <<>> /\ passed = {}

\* What is handled in one go is recorded together: a line, or all lines of a chunk.
Record ==
  /\ Len(rows') > Len(rows)
  /\ SubSeq(rows', 1, Len(rows)) = rows
  /\ \A j \in Len(rows) + 1..Len(rows') :
       \A i \in 1..j - 1 : rows'[i].item # rows'[j].item
  /\ UNCHANGED passed

Pass ==
  /\ passed \subseteq passed'
  /\ \A m \in passed' \ passed :
       \E row \in Range(rows) :
         row.item = m.item /\ m.form = FormOf[row.verdict]
  /\ UNCHANGED rows

Next == Record \/ Pass

Spec == Init /\ [][Next]_vars
=============================================================================
