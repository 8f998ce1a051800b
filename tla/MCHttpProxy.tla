---------------------------- MODULE MCHttpProxy ----------------------------
(***************************************************************************)
(* HttpProxy for TLC: requests of each verdict, and two descriptions.      *)
(***************************************************************************)
EXTENDS HttpProxy

CONSTANTS plain, denied, gated, d1, d2

Call(tool, secret) == [kind |-> "call", tool |-> tool, secret |-> secret, desc |-> d1]
List(desc) == [kind |-> "list", tool |-> plain, secret |-> FALSE, desc |-> desc]
Other(kind) == [kind |-> kind, tool |-> plain, secret |-> FALSE, desc |-> d1]

\* A client may also POST a response that looks like a list.
MCBodies == {Call(denied, TRUE), Call(gated, TRUE), Call(plain, TRUE), List(d2)}
MCAnswers == {List(d1), List(d2), Other("empty")}
=============================================================================
