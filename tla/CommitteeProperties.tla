------------------------- MODULE CommitteeProperties -------------------------
(***************************************************************************)
(* What src/contracts/Committee.sol promises: the type invariant, the      *)
(* safety invariants, the action properties and the liveness property of   *)
(* module Committee.                                                       *)
(***************************************************************************)
EXTENDS Committee

States == {"NotFound", "InProgress", "Accepted", "Rejected", "Executed", "Expired"}

Params ==
    {NoParams} \cup {AddMember(m) : m \in AddTargets}
    \cup {RemoveMember(m) : m \in RemoveTargets}
    \cup {NewCommittee(list) : list \in Replacements \cup FullReplacements}
    \cup {NewRatio(r) : r \in RatioChoices}
    \cup {Upgrade(t, i) : t \in UpgradeTargets, i \in Implementations}
    \cup {Decision(t) : t \in Topics}

Senders == {Committee} \cup Accounts \cup DaoContracts \cup UpgradeTargets

\* Shape of the committee, its snapshots, the proposals and the upgrade slots.
TypeOK ==
    /\ now \in 0 .. MaxTime /\ curProposalId \in 1 .. MaxProposals + 1
    /\ committees \in Seq(Accounts)
    /\ snapshots \in Seq([size : Nat, members : SUBSET Accounts])
    /\ proposals \in [Ids -> [from : Senders, expired : Nat, support : Seq(Accounts),
                              reject : Seq(Accounts), state : States, params : Params,
                              version : Nat]]
    /\ DOMAIN extras = Ids
    /\ votes \in [Ids -> [Accounts -> {0, 1, -1, 2}]]
    /\ upgradeSlot \in [UpgradeTargets -> Ids \cup {0}]
    /\ implementation \in [Proxies -> Implementations \cup {Original}]
    /\ devRatio \in Nat /\ released \in BOOLEAN

Created(id) == State(id) # "NotFound"
IsSeatChange(id) ==
    \/ \E m \in AddTargets : Matches(id, AddMember(m))
    \/ \E m \in RemoveTargets : Matches(id, RemoveMember(m))
    \/ \E list \in Replacements \cup FullReplacements : Matches(id, NewCommittee(list))

\* Who voted on an ordinary proposal according to its two lists is who voted
\* according to proposalVotes, once each.
BallotsConsistent ==
    \A id \in Ids : Created(id) /\ IsOrdinary(id) =>
        LET p == proposals[id] IN
        /\ IsInjective(p.support) /\ IsInjective(p.reject)
        /\ ToSet(p.support) = {a \in Accounts : votes[id][a] = 1}
        /\ ToSet(p.reject) = {a \in Accounts : votes[id][a] = -1}

MajorityVoted(id, vote) ==
    LET seats == Electorate(id).members IN
    2 * Cardinality({a \in seats : votes[id][a] = vote}) > Cardinality(seats)

\* The result of an ordinary proposal is the will of more than half of the
\* people who sat on the committee when it was created, whatever happened to
\* the committee, the proposal or the clock since; it expires only without one.
\* (Version 0 is left by the release that had no snapshots, see CommitteeLegacy.)
SettlementJustified ==
    \A id \in Ids : IsOrdinary(id) /\ proposals[id].version # 0 =>
        /\ State(id) \in {"Accepted", "Executed"} => MajorityVoted(id, 1)
        /\ State(id) = "Rejected" => MajorityVoted(id, -1)
        /\ State(id) = "Expired" => /\ now > proposals[id].expired
                                    /\ ~ MajorityVoted(id, 1) /\ ~ MajorityVoted(id, -1)

\* The latest snapshot is the live committee, and each snapshot counts every
\* seat once: the size majorities are taken of is the number of people.
SnapshotsFaithful ==
    /\ \A v \in DOMAIN snapshots :
          snapshots[v].size = Cardinality(snapshots[v].members)
    /\ snapshots # <<>> => Last(snapshots) = Snapshot(committees)

\* An accepted proposal changes the committee at most once: there are no more
\* committee versions than executed membership proposals, plus the first.
OneChangePerDecision ==
    Len(snapshots) <= 1 + Cardinality({id \in Ids : State(id) = "Executed" /\ IsSeatChange(id)})

\* A proxy runs its original implementation or one named, with its call data,
\* by an executed proposal that a majority supported.
ImplementationApproved ==
    \A proxy \in Proxies : implementation[proxy] # Original =>
        \E id \in Ids : /\ State(id) = "Executed" /\ IsOrdinary(id) /\ MajorityVoted(id, 1)
                        /\ Matches(id, Upgrade(proxy, implementation[proxy]))

\* No upgrade can be open or accepted behind the back of the queue: the slot of
\* its target holds it until it is executed, rejected or expired.
UpgradeSlotTracks ==
    \A id \in Ids, target \in UpgradeTargets, impl \in Implementations :
        Matches(id, Upgrade(target, impl)) /\ State(id) \in {"InProgress", "Accepted"}
            => upgradeSlot[target] = id

\* The ratio stays above its final value, however many proposals were created
\* against the same old ratio and in whatever order they are executed.
RatioAboveFinal == devRatio >= FinalRatio \/ devRatio = InitRatio

\* Once the final version is released the ratio moves to finalRatio or not at
\* all, for proposals accepted before the release too.
RatioPinned == [][released => devRatio' \in {devRatio, FinalRatio}]_vars

\* The electorate of a proposal never changes after its creation: not when the
\* committee does, and not when a later proposal records a snapshot.
ElectorateFixed ==
    [][\A id \in Ids : IsOrdinary(id) /\ Created(id) /\ proposals[id].version # 0 =>
          Electorate(id)' = Electorate(id)]_vars

\* The electorate of a new ordinary proposal is the committee of that moment.
ElectorateIsCommitteeAtCreation ==
    [][\A id \in Ids : ~ Created(id) /\ Created(id)' /\ IsOrdinary(id)' =>
          Electorate(id).members' = ToSet(committees)]_vars

\* A decision is final: an accepted proposal can only become executed, and a
\* rejected, expired or executed one keeps its ballots, its tally and its state.
DecisionsFinal ==
    [][\A id \in Ids :
          /\ State(id) \in {"Accepted", "Rejected", "Expired", "Executed"} =>
                /\ State(id)' \in IF State(id) = "Accepted" THEN {"Accepted", "Executed"}
                                                             ELSE {State(id)}
                /\ votes[id]' = votes[id] /\ extras[id]' = extras[id]
                /\ Voters(id)' = Voters(id)]_vars

\* A full proposal is settled by its voters and by nobody else: no result is
\* given before each of them is counted, and none is counted twice.
AllVotesCounted ==
    \A id \in Ids : extras[id].full =>
        /\ extras[id].settled = Cardinality({a \in Accounts : votes[id][a] = 2})
        /\ State(id) # "InProgress" => \A a \in Voters(id) : votes[id][a] = 2

\* One token, one vote: the tokens counted for and against a full proposal are
\* no more than the tokens in circulation that the turnout is measured by.  (A
\* token that changes hands between two batches is counted for both its holders,
\* docs/FullProposalSnapshotProposal.md; this is about those that do not.)
OneTokenOneVote ==
    \A id \in Ids : extras[id].total # 0 =>
        extras[id].agree + extras[id].reject <= extras[id].total

\* A step during which nothing disturbs a count under way: tokens do not change
\* hands (they may be converted), and the ratio does not rise.
Counting == \E id \in Ids : State(id) = "InProgress" /\ extras[id].total # 0

LeavesCountAlone ==
    Counting => /\ devRatio' <= devRatio
                /\ \A from, to \in Accounts, n \in TransferAmounts : ~ TransferNormal(from, to, n)

\* As long as somebody outside keeps asking for results (OutsideCallers), every
\* proposal is eventually decided: no state of a count, of a proposal or of the
\* committee refuses its settlement for ever, whatever the others do meanwhile.
ProposalsSettle ==
    \A id \in Ids : State(id) = "InProgress" ~> State(id) # "InProgress"

-----------------------------------------------------------------------------
(* A statement of the comments that the code does not keep *)

\* Committee.sol:556 and :566: setting the dev ratio reduces it.
RatioNeverRises == [][devRatio' <= devRatio]_devRatio
=============================================================================
