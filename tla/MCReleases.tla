----------------------------- MODULE MCReleases -----------------------------
(* Small instances of Releases: one manager, two contributors. *)
EXTENDS Releases

CONSTANTS ann, bob

Shared == {[a \in {ann, bob} |-> 1]}
Locks == {[a \in {ann, bob} |-> IF a = ann THEN 1 ELSE 3]}
AnnHolds == [a \in Accounts |-> IF a = ann THEN 4 ELSE 0]
=============================================================================
