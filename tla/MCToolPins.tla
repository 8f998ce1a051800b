----------------------------- MODULE MCToolPins -----------------------------
(***************************************************************************)
(* ToolPins for TLC: every list of up to two listings, duplicates of a     *)
(* tool included.  Processes and tools are interchangeable.                *)
(***************************************************************************)
EXTENDS ToolPins, SequencesExt

MCLists == BoundedSeq(Listing, 2)

Pinning(on_drift) ==
  [on_drift |-> on_drift, on_match |-> "alert", classifier |-> FALSE]

\* Pinning that alerts, pinning that blocks, and a classifier that blocks.
MCPolicies ==
  {Pinning("alert"), Pinning("block"),
   [on_drift |-> "alert", on_match |-> "block", classifier |-> TRUE]}

MCBlockPolicy == {Pinning("block")}

Symmetry == Permutations(Proc) \cup Permutations(Tool)
=============================================================================
