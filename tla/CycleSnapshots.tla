---------------------------- MODULE CycleSnapshots ----------------------------
(***************************************************************************)
(* What a staker of src/contracts/Dividend.sol may rely on: "stake         *)
(* accounting follows a cycle snapshot model" (docs/ContractInterfaces.en. *)
(* md).  Every cycle but the first fixes, when it begins, what everybody   *)
(* has staked; a stake changed during a cycle counts from the next one on, *)
(* and what was fixed for a cycle never changes.  There is no record, no   *)
(* search and no compaction here.                                          *)
(***************************************************************************)
EXTENDS Naturals, Sequences

CONSTANT Users

VARIABLES
    stake,     \* what each user has staked
    weights    \* weights[c][u]: the stake of u that counts in cycle c

Init == stake = [u \in Users |-> 0] /\ weights = <<>>

\* At most one stake changes, after a cycle may have begun.
Next ==
    /\ weights' \in {weights, Append(weights, stake)}
    /\ \/ stake' = stake
       \/ \E u \in Users : stake'[u] \in Nat /\ stake' = [stake EXCEPT ![u] = stake'[u]]

Spec == Init /\ [][Next]_<<stake, weights>>
=============================================================================
