---------------------------- MODULE MCStdioProxy ----------------------------
(***************************************************************************)
(* StdioProxy for TLC: a line of each kind the pumps tell apart.           *)
(***************************************************************************)
EXTENDS StdioProxy

CONSTANTS plain, denied, gated

Call(tool, secret) == [kind |-> "call", tool |-> tool, secret |-> secret]
Other(kind) == [kind |-> kind, tool |-> plain, secret |-> FALSE]

\* A call of the denied tool also needs approval and holds a secret, so that the
\* order of the rules matters.
MCFrames ==
  [c2s |-> {Call(denied, TRUE), Call(gated, TRUE), Call(plain, TRUE),
            Other("other"), Other("blank"), Other("oversized")},
   s2c |-> {Other("other"), Other("drifted"), Other("blank"), Other("oversized")}]
=============================================================================
