------------------------------ MODULE Committee ------------------------------
(***************************************************************************)
(* The governance core of SourceDAO, src/contracts/Committee.sol: ordinary *)
(* proposals decided by a majority of the committee that existed when the  *)
(* proposal was created, full proposals decided by a token-weighted vote   *)
(* that is settled in batches, and the operations that execute an accepted *)
(* proposal (membership, dev ratio, contract upgrades).                    *)
(*                                                                         *)
(* One transaction is one step.  A transaction that reverts changes        *)
(* nothing, so every require(...) is a guard.  Parameters are stored by    *)
(* the contract as a Merkle root; here they are kept as they are, and a    *)
(* Merkle check is their equality.                                         *)
(***************************************************************************)
EXTENDS Integers, FiniteSets, Sequences, SequencesExt, FiniteSetsExt

CONSTANTS
    Accounts,           \* the addresses that send transactions
    InitialCommittee,   \* the member list given to initialize
    Committee,          \* the address of the committee contract itself
    DaoContracts,       \* registered contracts that create proposals (Project)
    Proxies,            \* the contracts that are upgraded through governance
    Original,           \* the implementation a proxy starts with

    AddTargets,         \* the inputs the transactions are given; an empty set
    RemoveTargets,      \*   leaves the operation out of a run
    Replacements,
    RatioChoices,
    UpgradeTargets,
    Implementations,    \* an implementation with the hash of its call data
    Topics,             \* what a DAO contract asks the committee to decide
    Durations,
    Thresholds,
    FullReplacements,

    VotingPeriod,       \* "7 days"
    FullThreshold,      \* the threshold of a full replacement, 40 (per cent)
    InitRatio,          \* devRatio and finalRatio given to initialize, in 1/100
    FinalRatio,
    NormalHoldings,     \* initial token balances
    DevHoldings,
    TransferAmounts,    \* the amounts that move between accounts
    ConvertAmounts,     \* the amounts that dev2normal converts

    MaxTime,            \* bound on the clock
    MaxProposals        \* bound on the number of proposals

Ids == 1 .. MaxProposals

\* _validateCommitteeList: neither empty nor with duplicates.
ValidCommitteeList(list) == /\ list # <<>>
                            /\ \A i, j \in DOMAIN list : i # j => list[i] # list[j]

ASSUME CommitteeAssumption ==
    /\ InitialCommittee \in Seq(Accounts) /\ ValidCommitteeList(InitialCommittee)
    /\ Committee \notin Accounts \cup DaoContracts
    /\ Proxies \subseteq UpgradeTargets
    /\ AddTargets \cup RemoveTargets \subseteq Accounts
    /\ Replacements \cup FullReplacements \subseteq Seq(Accounts)

ASSUME BoundsAssumption ==
    /\ MaxTime \in Nat /\ MaxProposals \in Nat /\ VotingPeriod \in Nat \ {0}
    /\ Durations \subseteq Nat /\ Thresholds \subseteq Nat /\ FullThreshold \in 10 .. 100

ASSUME TokenAssumption ==
    /\ IsFiniteSet(Accounts)
    /\ InitRatio \in Nat /\ FinalRatio \in Nat /\ InitRatio > 100 /\ FinalRatio > 100
    /\ RatioChoices \subseteq Nat
    /\ NormalHoldings \in [Accounts -> Nat] /\ DevHoldings \in [Accounts -> Nat]
    /\ TransferAmounts \cup ConvertAmounts \subseteq Nat

VARIABLES
    now,             \* block.timestamp
    curProposalId,   \* the next proposal id
    committees,      \* the live committee, an array
    snapshots,       \* snapshots[v]: size and members recorded for version v
    proposals,       \* proposals[id], with proposalCommitteeVersion[id] in .version
    extras,          \* proposalExtras[id]; .full stands for from # address(0)
    votes,           \* proposalVotes[id][voter]: 0, 1, -1, or 2 once settled
    upgradeSlot,     \* contractUpgradeProposals[target], 0 when free
    implementation,  \* the implementation each proxy runs
    devRatio,
    released,        \* Project: versionReleasedTime(mainProjectName, finalVersion) > 0
    normalBalance, normalSupply,   \* NormalToken
    devBalance, devReleased        \* DevToken

govVars   == <<curProposalId, proposals, extras, votes>>
seatVars  == <<committees, snapshots>>
slotVars  == <<upgradeSlot, implementation>>
ratioVars == <<devRatio, released>>
tokenVars == <<normalBalance, normalSupply, devBalance, devReleased>>
vars == <<now, govVars, seatVars, slotVars, ratioVars, tokenVars>>

-----------------------------------------------------------------------------
(* Data *)

AddMember(m)          == <<"addMember", m>>
RemoveMember(m)       == <<"removeMember", m>>
NewCommittee(list)    == <<"setCommittees", list>>
NewRatio(r)           == <<"setDevRatio", r>>
Upgrade(target, impl) == <<"upgradeContract", target, impl>>
Decision(topic)       == <<"topic", topic>>
NoParams              == <<"none">>

Snapshot(list) == [size |-> Len(list), members |-> ToSet(list)]

NoProposal == [from |-> Committee, expired |-> 0, support |-> <<>>, reject |-> <<>>,
               state |-> "NotFound", params |-> NoParams, version |-> 0]

NoExtra == [full |-> FALSE, threshold |-> 0, agree |-> 0, reject |-> 0,
            settled |-> 0, total |-> 0]

State(id) == proposals[id].state
IsMember(a) == a \in ToSet(committees)
IsOrdinary(id) == ~ extras[id].full

\* Fault: the parameters are not compared with those the proposal was made of.
Matches_Fault(id, params) == State(id) # "NotFound"

\* MerkleProof.verify(params, proposal.paramroot, ...)
Matches(id, params) == proposals[id].params = params
Voters(id) == ToSet(proposals[id].support) \cup ToSet(proposals[id].reject)

Init ==
    /\ now = 0 /\ curProposalId = 1
    /\ committees = InitialCommittee
    /\ snapshots = <<Snapshot(InitialCommittee)>>
    /\ proposals = [id \in Ids |-> NoProposal]
    /\ extras = [id \in Ids |-> NoExtra]
    /\ votes = [id \in Ids |-> [a \in Accounts |-> 0]]
    /\ upgradeSlot = [target \in UpgradeTargets |-> 0]
    /\ implementation = [proxy \in Proxies |-> Original]
    /\ devRatio = InitRatio /\ released = FALSE
    /\ normalBalance = NormalHoldings /\ devBalance = DevHoldings
    /\ normalSupply = SumFunction(NormalHoldings) /\ devReleased = SumFunction(DevHoldings)

-----------------------------------------------------------------------------
(* Snapshots of the committee, and the creation of proposals *)

\* _ensureCommitteeSnapshotInitialized: storage upgraded from the release that
\* had no snapshots records the live committee as its first one.
EnsuredSnapshots ==
    IF snapshots = <<>> THEN <<Snapshot(committees)>> ELSE snapshots

\* Fault: the first snapshot is reused for every proposal.
VersionForNew_Fault == 1

VersionForNew == Len(EnsuredSnapshots)

\* _propose, with the extra record of a full proposal.
Create(from, duration, params, extra) ==
    LET id == curProposalId IN
    /\ id <= MaxProposals /\ now + duration < MaxTime
    /\ curProposalId' = id + 1
    /\ proposals' = [proposals EXCEPT ![id] =
           [from |-> from, expired |-> now + duration, support |-> <<>>, reject |-> <<>>,
            state |-> "InProgress", params |-> params,
            version |-> IF extra.full THEN 0 ELSE VersionForNew]]
    /\ extras' = [extras EXCEPT ![id] = extra]
    /\ snapshots' = IF extra.full THEN snapshots ELSE EnsuredSnapshots
    /\ UNCHANGED <<now, votes, committees, implementation, ratioVars, tokenVars>>

CreateOrdinary(from, duration, params) == Create(from, duration, params, NoExtra)

\* _fullPropose
CreateFull(from, duration, params, threshold) ==
    /\ duration >= VotingPeriod /\ threshold \in 10 .. 100
    /\ Create(from, duration, params, [NoExtra EXCEPT !.full = TRUE, !.threshold = threshold])

Propose(contract, duration, topic) ==
    /\ CreateOrdinary(contract, duration, Decision(topic))
    /\ UNCHANGED upgradeSlot

FullPropose(contract, duration, topic, threshold) ==
    /\ CreateFull(contract, duration, Decision(topic), threshold)
    /\ UNCHANGED upgradeSlot

PrepareAddMember(sender, m) ==
    /\ IsMember(sender)
    /\ CreateOrdinary(Committee, VotingPeriod, AddMember(m))
    /\ UNCHANGED upgradeSlot

PrepareRemoveMember(sender, m) ==
    /\ IsMember(sender) /\ IsMember(m)
    /\ CreateOrdinary(Committee, VotingPeriod, RemoveMember(m))
    /\ UNCHANGED upgradeSlot

PrepareSetCommittees(sender, list) ==
    /\ ValidCommitteeList(list) /\ IsMember(sender)
    /\ CreateOrdinary(Committee, VotingPeriod, NewCommittee(list))
    /\ UNCHANGED upgradeSlot

\* prepareSetCommittees with isFullProposal: no membership is asked of the
\* sender, who becomes the proposal's fromGroup.
PrepareFullSetCommittees(sender, list) ==
    /\ ValidCommitteeList(list)
    /\ CreateFull(sender, VotingPeriod, NewCommittee(list), FullThreshold)
    /\ UNCHANGED upgradeSlot

\* Fault: only the upper limit is checked.
RatioAllowed_Fault(r) == r < devRatio

RatioAllowed(r) == r < devRatio /\ r >= FinalRatio

PrepareSetDevRatio(sender, r) ==
    /\ IsMember(sender) /\ ~ released /\ RatioAllowed(r)
    /\ CreateOrdinary(Committee, VotingPeriod, NewRatio(r))
    /\ UNCHANGED upgradeSlot

PrepareContractUpgrade(sender, target, impl) ==
    /\ IsMember(sender) /\ upgradeSlot[target] = 0
    /\ CreateOrdinary(target, VotingPeriod, Upgrade(target, impl))
    /\ upgradeSlot' = [upgradeSlot EXCEPT ![target] = curProposalId]

-----------------------------------------------------------------------------
(* Voting *)

\* Fault: the proposal is bound again whenever it is touched.
BoundVersion_Fault(id) == Len(EnsuredSnapshots)

\* _ensureProposalCommitteeVersion: a proposal from before snapshots existed is
\* bound to the latest version when it is first touched.
BoundVersion(id) == IF proposals[id].version = 0 THEN Len(EnsuredSnapshots)
                                                 ELSE proposals[id].version

\* Fault: the version found for the proposal is not stored.
Bound_Fault(id) == proposals[id]

Bound(id) == [proposals[id] EXCEPT !.version = BoundVersion(id)]
Electorate(id) == EnsuredSnapshots[BoundVersion(id)]

Weight(a, ratio) == normalBalance[a] + (devBalance[a] * ratio) \div 100

\* Fault: whoever is a member now may vote.
MayVote_Fault(id, a) == IF IsOrdinary(id) THEN IsMember(a) ELSE Weight(a, devRatio) > 0

MayVote(id, a) == IF IsOrdinary(id) THEN a \in Electorate(id).members
                                    ELSE Weight(a, devRatio) > 0

\* Fault: a settled proposal still takes votes until it expires.
VotingOpen_Fault(id) == State(id) # "NotFound" /\ now < proposals[id].expired

VotingOpen(id) == State(id) = "InProgress" /\ now < proposals[id].expired

\* Fault: nobody is stopped from voting twice.
NotVoted_Fault(id, a) == votes[id][a] # 2

NotVoted(id, a) == votes[id][a] = 0

\* What support and reject share: their checks, and the version they bind.
CastVote(id, voter, vote, ballot) ==
    /\ VotingOpen(id) /\ NotVoted(id, voter) /\ MayVote(id, voter)
    /\ proposals' = [proposals EXCEPT ![id] = ballot]
    /\ votes' = [votes EXCEPT ![id][voter] = vote]
    /\ snapshots' = IF IsOrdinary(id) THEN EnsuredSnapshots ELSE snapshots
    /\ UNCHANGED <<now, curProposalId, extras, committees, slotVars, ratioVars, tokenVars>>

Ballot(id) == IF IsOrdinary(id) THEN Bound(id) ELSE proposals[id]

Support(id, voter) ==
    CastVote(id, voter, 1, [Ballot(id) EXCEPT !.support = Append(@, voter)])

Reject(id, voter) ==
    CastVote(id, voter, -1, [Ballot(id) EXCEPT !.reject = Append(@, voter)])

-----------------------------------------------------------------------------
(* Settlement of ordinary proposals *)

\* Fault: half of the committee is enough.
IsMajority_Fault(n, size) == n >= size \div 2

IsMajority(n, size) == n > size \div 2

\* Fault: no deadline.
DeadlinePassed_Fault(id) == FALSE

DeadlinePassed(id) == now > proposals[id].expired

\* Fault: everybody on the list counts.
VotesOf_Fault(list, members) == Len(list)

\* _countOrdinaryVotes, one list
VotesOf(list, members) == Cardinality({i \in DOMAIN list : list[i] \in members})

Outcome(id) ==
    LET p == proposals[id]
        seats == Electorate(id)
    IN  IF IsMajority(VotesOf(p.support, seats.members), seats.size) THEN "Accepted"
        ELSE IF IsMajority(VotesOf(p.reject, seats.members), seats.size) THEN "Rejected"
        ELSE IF DeadlinePassed(id) THEN "Expired" ELSE "InProgress"

\* _settleProposal: it reverts on a full proposal in progress, and otherwise
\* leaves the proposal and the snapshots as follows.
CanSettle(id) == State(id) = "InProgress" => IsOrdinary(id)

Settled(id) == IF State(id) = "InProgress" THEN [Bound(id) EXCEPT !.state = Outcome(id)]
                                           ELSE proposals[id]

SettledSnapshots(id) == IF State(id) = "InProgress" THEN EnsuredSnapshots ELSE snapshots

\* settleProposal, and takeResult when its parameters match.
SettleProposal(id) ==
    /\ CanSettle(id)
    /\ proposals' = [proposals EXCEPT ![id] = Settled(id)]
    /\ snapshots' = SettledSnapshots(id)
    /\ UNCHANGED <<now, curProposalId, extras, votes, committees, slotVars, ratioVars, tokenVars>>

\* Fault: the parameters are not compared with those voted on.
TakeAccept_Fault(id, params) == CanSettle(id) /\ Settled(id).state = "Accepted"

\* _takeResult(id, params) == ProposalResult.Accept
TakeAccept(id, params) ==
    Matches(id, params) /\ CanSettle(id) /\ Settled(id).state = "Accepted"

\* Fault: the executed state is not recorded.
Executed_Fault(id) == Settled(id)

\* _setProposalExecuted after _takeResult
Executed(id) == [Settled(id) EXCEPT !.state = "Executed"]

-----------------------------------------------------------------------------
(* Execution of accepted proposals *)

\* _takeResult, require Accept, ..., _setProposalExecuted
Execute(id, params) ==
    /\ TakeAccept(id, params)
    /\ proposals' = [proposals EXCEPT ![id] = Executed(id)]
    /\ UNCHANGED <<now, curProposalId, extras, votes, tokenVars>>

\* Fault: the new member list overwrites the latest version.
Recorded_Fault(id, list) == [snapshots EXCEPT ![Len(snapshots)] = Snapshot(list)]

\* _recordCommitteeSnapshot, after what _takeResult recorded
Recorded(id, list) == Append(SettledSnapshots(id), Snapshot(list))

Seat(id, list) == committees' = list /\ snapshots' = Recorded(id, list)

\* Fault: no check that the member is new.
MayJoin_Fault(m) == TRUE

MayJoin(m) == ~ IsMember(m)

AddCommitteeMember(m, id) ==
    /\ Execute(id, AddMember(m)) /\ MayJoin(m)
    /\ Seat(id, Append(committees, m))
    /\ UNCHANGED <<slotVars, ratioVars>>

\* Fault: the entry is deleted and leaves address(0) in its place.
WithoutMember_Fault(m) ==
    [k \in DOMAIN committees |-> IF committees[k] = m THEN "address(0)" ELSE committees[k]]

\* Swap with the last, then pop.
WithoutMember(m) ==
    LET i == CHOOSE k \in DOMAIN committees : committees[k] = m
    IN  Front([committees EXCEPT ![i] = Last(committees)])

RemoveCommitteeMember(m, id) ==
    /\ Execute(id, RemoveMember(m)) /\ IsMember(m)
    /\ Seat(id, WithoutMember(m))
    /\ UNCHANGED <<slotVars, ratioVars>>

SetCommittees(list, id) ==
    /\ ValidCommitteeList(list) /\ Execute(id, NewCommittee(list))
    /\ Seat(id, list)
    /\ UNCHANGED <<slotVars, ratioVars>>

\* Fault: the final release does not pin the ratio.
RatioSet_Fault(r) == r

RatioSet(r) == IF released THEN FinalRatio ELSE r

SetDevRatio(r, id) ==
    /\ Execute(id, NewRatio(r))
    /\ devRatio' = RatioSet(r)
    /\ snapshots' = SettledSnapshots(id)
    /\ UNCHANGED <<committees, slotVars, released>>

\* SourceDaoUpgradeable.upgradeToAndCall of a proxy: verifyContractUpgrade must
\* answer true, or the whole transaction reverts with the slot it cleared.
UpgradeToAndCall(proxy, impl) ==
    LET id == upgradeSlot[proxy] IN
    /\ id # 0 /\ Execute(id, Upgrade(proxy, impl))
    /\ upgradeSlot' = [upgradeSlot EXCEPT ![proxy] = 0]
    /\ implementation' = [implementation EXCEPT ![proxy] = impl]
    /\ snapshots' = SettledSnapshots(id)
    /\ UNCHANGED <<committees, ratioVars>>

\* verifyContractUpgrade called directly by a target that is no proxy: every
\* answer but NoResult and NotMatch clears the slot.
VerifyContractUpgrade(target, impl) ==
    LET id == upgradeSlot[target]
        result == Settled(id).state
    IN  /\ id # 0 /\ Matches(id, Upgrade(target, impl))
        /\ proposals' = [proposals EXCEPT ![id] =
                            IF result = "Accepted" THEN Executed(id) ELSE Settled(id)]
        /\ upgradeSlot' = [upgradeSlot EXCEPT ![target] =
                            IF result = "InProgress" THEN id ELSE 0]
        /\ snapshots' = SettledSnapshots(id)
        /\ UNCHANGED <<now, curProposalId, extras, votes, committees, implementation,
                       ratioVars, tokenVars>>

\* Fault: an accepted upgrade may be cancelled.
Cancellable_Fault(result) == result # "InProgress"

Cancellable(result) == result \notin {"InProgress", "Accepted"}

CancelContractUpgrade(sender, target) ==
    LET id == upgradeSlot[target] IN
    /\ IsMember(sender) /\ id # 0
    /\ proposals' = [proposals EXCEPT ![id] = Settled(id)]
    /\ upgradeSlot' = [upgradeSlot EXCEPT ![target] =
                        IF Cancellable(Settled(id).state) THEN 0 ELSE id]
    /\ snapshots' = SettledSnapshots(id)
    /\ UNCHANGED <<now, curProposalId, extras, votes, committees, implementation,
                   ratioVars, tokenVars>>

\* Only the account or contract the proposal came from.  A DAO contract calls it
\* for the decisions it asked for.
SetProposalExecuted(sender, id) ==
    /\ proposals[id].from = sender /\ State(id) = "Accepted"
    /\ sender \in DaoContracts => \E topic \in Topics : Matches(id, Decision(topic))
    /\ proposals' = [proposals EXCEPT ![id].state = "Executed"]
    /\ UNCHANGED <<now, curProposalId, extras, votes, seatVars, slotVars, ratioVars, tokenVars>>

-----------------------------------------------------------------------------
(* Settlement of full proposals *)

\* Fault: the marker of a counted vote is not kept.
CountedMark_Fault(id, counted) == votes

CountedMark(id, counted) ==
    [votes EXCEPT ![id] = [a \in Accounts |-> IF a \in counted THEN 2 ELSE @[a]]]

\* Fault: half of the voters make a turnout.
AllCounted_Fault(id, settled) ==
    2 * settled >= Len(proposals[id].support) + Len(proposals[id].reject)

AllCounted(id, settled) == settled = Len(proposals[id].support) + Len(proposals[id].reject)

FullOutcome(e) ==
    IF e.agree + e.reject < (e.total * e.threshold) \div 100 THEN "Expired"
    ELSE IF e.agree > e.reject THEN "Accepted" ELSE "Rejected"

\* One batch of voters, weighed with the balances and the ratio of this
\* transaction; the released total is the one of the first batch.
EndFullPropose(id, batch) ==
    LET ratio   == IF released THEN FinalRatio ELSE devRatio
        e       == extras[id]
        counted == {a \in batch : votes[id][a] \in {1, -1}}
        Weighed(vote) == SumFunction([a \in {b \in counted : votes[id][b] = vote} |->
                                         Weight(a, ratio)])
        tally   == [e EXCEPT
            !.agree = @ + Weighed(1), !.reject = @ + Weighed(-1),
            !.settled = @ + Cardinality(counted),
            !.total = IF @ = 0 THEN (devReleased * ratio) \div 100 + normalSupply ELSE @]
    IN  /\ e.full /\ State(id) = "InProgress" /\ DeadlinePassed(id)
        /\ devRatio' = ratio
        /\ extras' = [extras EXCEPT ![id] = tally]
        /\ votes' = CountedMark(id, counted)
        /\ proposals' = IF AllCounted(id, tally.settled)
                        THEN [proposals EXCEPT ![id].state = FullOutcome(tally)]
                        ELSE proposals
        /\ UNCHANGED <<now, curProposalId, seatVars, slotVars, released, tokenVars>>

-----------------------------------------------------------------------------
(* What happens around the committee *)

Tick ==
    /\ now < MaxTime /\ now' = now + 1
    /\ UNCHANGED <<govVars, seatVars, slotVars, ratioVars, tokenVars>>

\* Project.promoteProject finishes the final version.
ReleaseFinalVersion ==
    /\ ~ released /\ released' = TRUE
    /\ UNCHANGED <<now, govVars, seatVars, slotVars, devRatio, tokenVars>>

\* NormalToken.transfer
TransferNormal(from, to, amount) ==
    /\ from # to /\ amount > 0 /\ normalBalance[from] >= amount
    /\ normalBalance' = [normalBalance EXCEPT ![from] = @ - amount, ![to] = @ + amount]
    /\ UNCHANGED <<now, govVars, seatVars, slotVars, ratioVars,
                   normalSupply, devBalance, devReleased>>

\* DevToken.dev2normal burns development tokens and mints as many normal ones.
Dev2Normal(a, amount) ==
    /\ amount > 0 /\ devBalance[a] >= amount
    /\ devBalance' = [devBalance EXCEPT ![a] = @ - amount]
    /\ devReleased' = devReleased - amount
    /\ normalBalance' = [normalBalance EXCEPT ![a] = @ + amount]
    /\ normalSupply' = normalSupply + amount
    /\ UNCHANGED <<now, govVars, seatVars, slotVars, ratioVars>>

Next ==
    \/ Tick \/ ReleaseFinalVersion
    \/ \E c \in DaoContracts, d \in Durations, topic \in Topics :
          \/ Propose(c, d, topic)
          \/ \E threshold \in Thresholds : FullPropose(c, d, topic, threshold)
    \/ \E a \in Accounts :
          \/ \E m \in AddTargets : PrepareAddMember(a, m)
          \/ \E m \in RemoveTargets : PrepareRemoveMember(a, m)
          \/ \E list \in Replacements : PrepareSetCommittees(a, list)
          \/ \E list \in FullReplacements : PrepareFullSetCommittees(a, list)
          \/ \E r \in RatioChoices : PrepareSetDevRatio(a, r)
          \/ \E target \in UpgradeTargets, impl \in Implementations :
                PrepareContractUpgrade(a, target, impl)
          \/ \E target \in UpgradeTargets : CancelContractUpgrade(a, target)
          \/ \E n \in ConvertAmounts : Dev2Normal(a, n)
          \/ \E b \in Accounts, n \in TransferAmounts : TransferNormal(a, b, n)
    \/ \E id \in Ids :
          \/ SettleProposal(id)
          \/ \E a \in Accounts : Support(id, a) \/ Reject(id, a)
          \/ \E batch \in SUBSET Accounts : EndFullPropose(id, batch)
          \/ \E m \in AddTargets : AddCommitteeMember(m, id)
          \/ \E m \in RemoveTargets : RemoveCommitteeMember(m, id)
          \/ \E list \in Replacements \cup FullReplacements : SetCommittees(list, id)
          \/ \E r \in RatioChoices : SetDevRatio(r, id)
          \/ \E a \in Accounts \cup DaoContracts : SetProposalExecuted(a, id)
    \/ \E proxy \in Proxies, impl \in Implementations : UpgradeToAndCall(proxy, impl)
    \/ \E target \in UpgradeTargets \ Proxies, impl \in Implementations :
          VerifyContractUpgrade(target, impl)

Spec == Init /\ [][Next]_vars

\* An assumption about callers outside the system. settleProposal and
\* endFullPropose may be called by anybody, and nothing in the repository calls
\* them on a schedule: its status tools only read and its vote tool leaves
\* endFullPropose out. Of each proposal assume that somebody asks for its
\* result again and again, of a full one with batches that count somebody new.
OutsideCallers ==
    \A id \in Ids : /\ WF_vars(SettleProposal(id))
                    /\ WF_vars(\E batch \in SUBSET Accounts : EndFullPropose(id, batch))

\* Block times grow, and the callers above exist. Nobody owes a vote, an
\* execution or a proposal.
Fairness == WF_vars(Tick) /\ OutsideCallers

FairSpec == Spec /\ Fairness
=============================================================================
