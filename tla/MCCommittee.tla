----------------------------- MODULE MCCommittee -----------------------------
(* Small instances of Committee: two or three seats, one outsider, one proxy. *)
EXTENDS CommitteeLegacy

CONSTANTS a, b, c, d, project, v1, v2, topic

Trio == <<a, b, c>>
Pair == <<a, b>>
Solo == <<a>>
NewPair == {<<d, c>>}
NewPeer == {<<b>>}

NoTokens == [x \in Accounts |-> 0]
OneToken == [x \in Accounts |-> IF x = a THEN 1 ELSE 0]
\* Everybody holds tokens of both kinds.
MixedNormal == [x \in Accounts |-> IF x = a THEN 2 ELSE 1]
MixedDev    == [x \in Accounts |-> IF x = a THEN 1 ELSE 3]
=============================================================================
