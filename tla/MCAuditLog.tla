----------------------------- MODULE MCAuditLog -----------------------------
(***************************************************************************)
(* AuditLog for TLC.  Processes and entries are model values; entries are  *)
(* interchangeable, and so are processes where no liveness is checked.     *)
(***************************************************************************)
EXTENDS AuditLog, TLC

Symmetry == Permutations(Proc) \cup Permutations(Entry)
=============================================================================
