-------------------------- MODULE DividendProperties --------------------------
(***************************************************************************)
(* What src/contracts/Dividend.sol promises, and the refinement of the     *)
(* cycle snapshots by its checkpoints.                                     *)
(***************************************************************************)
EXTENDS Dividend

\* Shape of the cycles, the records and the calls.
TypeOK ==
    /\ now \in 0 .. MaxTime /\ currentCycleIndex \in Cycles /\ totalStaked \in Nat
    /\ cycles \in [Cycles -> [start : 0 .. MaxTime, totalStaked : Nat, rewards : [Tokens -> Nat]]]
    /\ records \in [Users -> Seq([cycle : Cycles, normal : Nat, dev : Nat])]
    /\ claimed \subseteq Users \X Cycles \X Tokens
    /\ tokenBalances \in [Tokens -> Nat] /\ held \in [Tokens -> Nat]
    /\ payout = NoPayout \/ payout \in [user : Users, rewards : SUBSET (Cycles \X Tokens)]

\* The total that rewards of a cycle are divided by is the sum of the stakes
\* that its claims will be measured by, however they were staked, unstaked and
\* compacted since; and the running total is what is staked now.
TotalsMatchRecords ==
    /\ \A c \in 1 .. currentCycleIndex :
          cycles[c].totalStaked = SumFunction([u \in Users |-> StakeAmount(u, c - 1)])
    /\ totalStaked = SumFunction([u \in Users |-> StakeAmount(u, currentCycleIndex)])

CompactUpTo(list, cycle) ==
    /\ \A i \in DOMAIN list : list[i].cycle <= cycle
    /\ \A i, j \in DOMAIN list : i < j => list[i].cycle < list[j].cycle
    /\ \A i \in DOMAIN list :
          i > 1 => <<list[i - 1].normal, list[i - 1].dev>> # <<list[i].normal, list[i].dev>>

\* Records are in the order of their cycles, one per cycle, none of the future,
\* and no two neighbours say the same.
RecordsCompact == \A u \in Users : CompactUpTo(records[u], currentCycleIndex)

Unclaimed(token) == SumFunction([p \in Users \X Cycles |->
    IF p[2] < currentCycleIndex /\ <<p[1], p[2], token>> \notin claimed
    THEN Share(p[1], p[2], token) ELSE 0])

Pending(token) == SumFunction([c \in Cycles |->
    IF <<c, token>> \in payout.rewards THEN Share(payout.user, c, token) ELSE 0])

\* What is still to be paid of a token: to those who have not claimed, by the
\* withdrawal under way, and for the cycle that is not over.
Owed(token) == Unclaimed(token) + Pending(token) + cycles[currentCycleIndex].rewards[token]

\* Whatever is owed is there: no claim fails for want of tokens, whoever claimed
\* before, in whatever order and from inside which callback.
Solvent == \A t \in Tokens : Owed(t) <= tokenBalances[t] /\ tokenBalances[t] <= held[t]

\* Nothing is stranded but the remainders of divisions: every deposit can be
\* claimed, at the latest when somebody has a stake again.
Stakers(c) == {u \in Users : StakeAmount(u, c - 1) > 0}

Remainders == SumFunction([c \in Cycles |->
    IF c \in 1 .. currentCycleIndex - 1 /\ cycles[c].totalStaked > 0
    THEN Cardinality(Stakers(c)) - 1 ELSE 0])

NothingStranded == \A t \in Tokens : tokenBalances[t] - Owed(t) <= Remainders

\* A cycle that is over is history: no later stake, withdrawal or compaction
\* changes what was staked in it, its total or its rewards.
HistoryFrozen ==
    [][\A c \in Cycles : c < currentCycleIndex =>
          /\ cycles'[c] = cycles[c]
          /\ \A u \in Users : StakeAmount(u, c)' = StakeAmount(u, c)]_vars

-----------------------------------------------------------------------------
(* Dividend implements CycleSnapshots *)

stakeNow == [u \in Users |-> StakeAmount(u, currentCycleIndex)]
weightsNow == [c \in 1 .. currentCycleIndex |-> [u \in Users |-> ShareBasis(u, c)]]

Snapshots == INSTANCE CycleSnapshots WITH stake <- stakeNow, weights <- weightsNow

\* The checkpoints, searched and compacted, are snapshots of everybody's stake
\* at the beginning of each cycle.
ImplementsSnapshots == Snapshots!Spec
=============================================================================
