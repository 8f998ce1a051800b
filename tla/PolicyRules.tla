---------------------------- MODULE PolicyRules ----------------------------
(***************************************************************************)
(* What PolicyEngine.evaluate decides on a tools/call request, for both    *)
(* transports.  A glob of the policy is the set of tools it matches, and a *)
(* redaction rule a flag of the call: it matches in the arguments.         *)
(***************************************************************************)

CONSTANTS
  Tool,
  DenyTools, ApprovalTools   \* the tools the policy's patterns match

ASSUME PolicyAssumption == DenyTools \subseteq Tool /\ ApprovalTools \subseteq Tool

Verdicts == {"allow", "redact", "approval", "deny"}

Denied(call) == call.tool \in DenyTools
NeedsApproval(call) == call.tool \in ApprovalTools
Redacted(call) == call.secret
Refused(call) == Denied(call) \/ NeedsApproval(call)

\* Mutant: redaction comes first.
RedactFirst(call) ==
  IF Redacted(call) THEN "redact"
  ELSE IF Denied(call) THEN "deny"
  ELSE IF NeedsApproval(call) THEN "approval" ELSE "allow"

\* Deny before approval before redaction.
CallVerdict(call) ==
  IF Denied(call) THEN "deny"
  ELSE IF NeedsApproval(call) THEN "approval"
  ELSE IF Redacted(call) THEN "redact" ELSE "allow"
=============================================================================
