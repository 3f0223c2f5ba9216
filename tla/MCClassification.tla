-------------------------- MODULE MCClassification --------------------------
(* Two cookies, one of them ConsentOS's own, and rules that disagree.       *)
EXTENDS Classification

CONSTANTS c1, c2, x

MCRules ==
  {[kind |-> "allow", fits |-> {c1, c2}, category |-> x],
   [kind |-> "exact", fits |-> {c1}, category |-> Necessary],
   [kind |-> "regex", fits |-> {c1, c2}, category |-> Necessary]}
=============================================================================
