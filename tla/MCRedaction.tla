---------------------------- MODULE MCRedaction ----------------------------
(***************************************************************************)
(* Redaction for TLC: strings of up to MaxLen characters with up to two    *)
(* secrets.                                                                *)
(***************************************************************************)
EXTENDS Redaction

CONSTANTS MaxLen, SecretLengths

Secrets(len) ==
  {s \in [first : 1..len, last : 1..len] : s.last - s.first + 1 \in SecretLengths}

MCTexts ==
  UNION {[len : {n}, secrets : {S \in SUBSET Secrets(n) :
            /\ Cardinality(S) <= 2
            /\ \A s, t \in S : s = t \/ s.last < t.first \/ t.last < s.first}] :
         n \in 0..MaxLen}
=============================================================================
