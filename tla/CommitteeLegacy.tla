--------------------------- MODULE CommitteeLegacy ---------------------------
(***************************************************************************)
(* The committee right after its proxy was upgraded from the release that  *)
(* src/contracts/mocks/SourceDaoCommitteeLegacyMock.sol keeps for the      *)
(* upgrade tests: it had no committee snapshots and let anybody vote, so   *)
(* no version is recorded, and the proposal it left behind is bound to     *)
(* none.                                                                   *)
(***************************************************************************)
EXTENDS CommitteeProperties

CONSTANTS
    LegacyVoters,   \* who voted under the old release
    MaxLegacy       \* bound on the proposals it left

ASSUME LegacyAssumption == LegacyVoters \subseteq Accounts /\ MaxLegacy \in 0 .. MaxProposals

\* Of what the old release can leave behind, the proposals that change the
\* committee: those the version matters for most, since they move the electorate.
LegacyParams == {AddMember(m) : m \in AddTargets} \cup {RemoveMember(m) : m \in RemoveTargets}
                \cup {NewCommittee(list) : list \in Replacements}

\* Anybody could vote, once.
LegacyBallots == {ballot \in [Accounts -> {0, 1, -1}] : \A a \in Accounts \ LegacyVoters : ballot[a] = 0}

SideOf(ballot, vote) == SetToSeq({a \in Accounts : ballot[a] = vote})

LegacyProposal(params, ballot, state) ==
    [from |-> Committee, expired |-> VotingPeriod, support |-> SideOf(ballot, 1),
     reject |-> SideOf(ballot, -1), state |-> state, params |-> params, version |-> 0]

\* It is accepted if somebody settled it when more than half of the members had
\* supported it, and in progress otherwise.
LegacyStates(ballot) ==
    {"InProgress"} \cup
    IF IsMajority(VotesOf(SideOf(ballot, 1), ToSet(InitialCommittee)), Len(InitialCommittee))
    THEN {"Accepted"} ELSE {}

\* The storage with n proposals in it: no snapshots, and none of the versions.
LegacyStorage(n, params, ballots, states) ==
    /\ now = 0 /\ curProposalId = n + 1
    /\ committees = InitialCommittee /\ snapshots = <<>>
    /\ proposals = [id \in Ids |->
          IF id <= n THEN LegacyProposal(params[id], ballots[id], states[id]) ELSE NoProposal]
    /\ extras = [id \in Ids |-> NoExtra]
    /\ votes = [id \in Ids |-> IF id <= n THEN ballots[id] ELSE [a \in Accounts |-> 0]]
    /\ upgradeSlot = [target \in UpgradeTargets |-> 0]
    /\ implementation = [proxy \in Proxies |-> Original]
    /\ devRatio = InitRatio /\ released = FALSE
    /\ normalBalance = NormalHoldings /\ devBalance = DevHoldings
    /\ normalSupply = SumFunction(NormalHoldings) /\ devReleased = SumFunction(DevHoldings)

LegacyInit ==
    \E n \in 0 .. MaxLegacy :
    \E params \in [1 .. n -> LegacyParams], ballots \in [1 .. n -> LegacyBallots],
       states \in [1 .. n -> {"InProgress", "Accepted"}] :
        /\ \A id \in 1 .. n : states[id] \in LegacyStates(ballots[id])
        /\ LegacyStorage(n, params, ballots, states)

\* A committee of the present release, deployed new or over the old one.
EitherInit == Init \/ LegacyInit

LegacySpec == EitherInit /\ [][Next]_vars

\* Whoever decides a proposal of the old release, and however often it was
\* voted on before, binds it to the recorded committee it is decided by.
DecisionsBound ==
    [][\A id \in Ids :
          IsOrdinary(id) /\ State(id) = "InProgress" /\ State(id)' # "InProgress" =>
             proposals[id].version' \in DOMAIN snapshots']_vars
=============================================================================
