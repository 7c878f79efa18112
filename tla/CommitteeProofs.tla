--------------------------- MODULE CommitteeProofs ---------------------------
(***************************************************************************)
(* Proofs about the committee, for every committee, set of accounts, set   *)
(* of inputs and bound that module Committee admits.                       *)
(***************************************************************************)
EXTENDS CommitteeLegacy, FiniteSetTheorems, TLAPS

Proposal == [from : Senders, expired : Nat, support : Seq(Accounts), reject : Seq(Accounts),
             state : States, params : Params, version : Nat]
SnapshotRecord == [size : Nat, members : SUBSET Accounts]

\* A snapshot of a list of accounts is a snapshot.
LEMMA SnapshotType ==
    ASSUME NEW list \in Seq(Accounts)
    PROVE  Snapshot(list) \in SnapshotRecord
BY DEF Snapshot, SnapshotRecord, ToSet

\* The settlement of a proposal gives a proposal, and one with the same
\* parameters, ballots and sender.
LEMMA SettledType ==
    ASSUME TypeOK, NEW id \in Ids
    PROVE  /\ EnsuredSnapshots \in Seq(SnapshotRecord)
           /\ SettledSnapshots(id) \in Seq(SnapshotRecord)
           /\ Bound(id) \in Proposal
           /\ Settled(id) \in Proposal
           /\ Executed(id) \in Proposal
<1>1. /\ snapshots \in Seq(SnapshotRecord) /\ committees \in Seq(Accounts)
      /\ proposals[id] \in Proposal
  BY DEF TypeOK, Proposal, SnapshotRecord
<1>2. EnsuredSnapshots \in Seq(SnapshotRecord)
  BY <1>1, SnapshotType DEF EnsuredSnapshots
<1>3. SettledSnapshots(id) \in Seq(SnapshotRecord)
  BY <1>1, <1>2 DEF SettledSnapshots
<1>4. Bound(id) \in Proposal
  <2>1. proposals[id].version \in Nat /\ Len(EnsuredSnapshots) \in Nat
    BY <1>1, <1>2 DEF Proposal
  <2>2. BoundVersion(id) \in Nat
    BY <2>1 DEF BoundVersion
  <2>3. QED BY <1>1, <2>2 DEF Bound, Proposal
<1>5. Settled(id) \in Proposal
  <2>1. Outcome(id) \in States
    BY DEF Outcome, States
  <2>2. QED BY <1>1, <1>4, <2>1 DEF Settled, Proposal
<1>6. Executed(id) \in Proposal
  BY <1>5 DEF Executed, Proposal, States
<1>7. QED BY <1>2, <1>3, <1>4, <1>5, <1>6

-----------------------------------------------------------------------------
(* Type correctness *)

\* What the proposals and the slots may become for the types to be kept by a
\* step that gives one proposal a new value.
LEMMA UpdateType ==
    ASSUME TypeOK, NEW id \in Ids, NEW p \in Proposal
    PROVE  [proposals EXCEPT ![id] = p] \in [Ids -> Proposal]
BY DEF TypeOK, Proposal

LEMMA CreateType ==
    ASSUME TypeOK, NEW from \in Senders, NEW duration \in Nat, NEW params \in Params,
           NEW extra, Create(from, duration, params, extra)
    PROVE  /\ now' \in 0 .. MaxTime /\ curProposalId' \in 1 .. MaxProposals + 1
           /\ proposals' \in [Ids -> Proposal]
           /\ snapshots' \in Seq(SnapshotRecord)
           /\ DOMAIN extras' = Ids
           /\ curProposalId \in Ids
<1> DEFINE p == [from |-> from, expired |-> now + duration, support |-> <<>>, reject |-> <<>>,
                 state |-> "InProgress", params |-> params,
                 version |-> IF extra.full THEN 0 ELSE VersionForNew]
<1>1. curProposalId \in Ids /\ curProposalId' \in 1 .. MaxProposals + 1 /\ now' \in 0 .. MaxTime
  BY BoundsAssumption DEF TypeOK, Create, Ids
<1>2. EnsuredSnapshots \in Seq(SnapshotRecord)
  BY <1>1, SettledType
<1>3. VersionForNew \in Nat
  BY <1>2 DEF VersionForNew
<1>4. p \in Proposal
  BY <1>3, BoundsAssumption DEF Proposal, TypeOK, States
<1>5. proposals' \in [Ids -> Proposal]
  <2>1. proposals' = [proposals EXCEPT ![curProposalId] = p]
    BY DEF Create
  <2>2. QED BY <2>1, <1>1, <1>4, UpdateType
<1>6. snapshots' \in Seq(SnapshotRecord)
  BY <1>2 DEF Create, TypeOK, SnapshotRecord
<1>7. DOMAIN extras' = Ids
  BY DEF Create, TypeOK
<1>8. QED BY <1>1, <1>5, <1>6, <1>7

LEMMA CreateOrdinaryType ==
    ASSUME TypeOK, NEW from \in Senders, NEW params \in Params, NEW duration \in Nat,
           CreateOrdinary(from, duration, params), UNCHANGED upgradeSlot
    PROVE  TypeOK'
<1>1. Create(from, duration, params, NoExtra)
  BY DEF CreateOrdinary
<1>2. /\ now' \in 0 .. MaxTime /\ curProposalId' \in 1 .. MaxProposals + 1
      /\ proposals' \in [Ids -> Proposal] /\ snapshots' \in Seq(SnapshotRecord)
      /\ DOMAIN extras' = Ids
  BY <1>1, CreateType
<1>3. UNCHANGED <<committees, votes, upgradeSlot, implementation, devRatio, released>>
  BY <1>1 DEF Create, ratioVars
<1>4. QED BY <1>2, <1>3 DEF TypeOK, Proposal, SnapshotRecord

LEMMA CreateFullType ==
    ASSUME TypeOK, NEW from \in Senders, NEW params \in Params, NEW duration \in Nat,
           NEW threshold, CreateFull(from, duration, params, threshold), UNCHANGED upgradeSlot
    PROVE  TypeOK'
<1> DEFINE extra == [NoExtra EXCEPT !.full = TRUE, !.threshold = threshold]
<1>1. Create(from, duration, params, extra)
  BY DEF CreateFull
<1> HIDE DEF extra
<1>2. /\ now' \in 0 .. MaxTime /\ curProposalId' \in 1 .. MaxProposals + 1
      /\ proposals' \in [Ids -> Proposal] /\ snapshots' \in Seq(SnapshotRecord)
      /\ DOMAIN extras' = Ids
  BY <1>1, CreateType
<1>3. UNCHANGED <<committees, votes, upgradeSlot, implementation, devRatio, released>>
  BY <1>1 DEF Create, ratioVars
<1>4. QED BY <1>2, <1>3 DEF TypeOK, Proposal, SnapshotRecord

LEMMA CastVoteType ==
    ASSUME TypeOK, NEW id \in Ids, NEW voter \in Accounts, NEW vote \in {1, -1},
           NEW ballot \in Proposal, CastVote(id, voter, vote, ballot)
    PROVE  TypeOK'
<1>1. proposals' \in [Ids -> Proposal]
  BY UpdateType DEF CastVote
<1>2. snapshots' \in Seq(SnapshotRecord)
  BY SettledType DEF CastVote, TypeOK, SnapshotRecord
<1>3. votes' \in [Ids -> [Accounts -> {0, 1, -1, 2}]]
  <2>1. votes' = [votes EXCEPT ![id] = [votes[id] EXCEPT ![voter] = vote]]
    BY DEF CastVote
  <2>2. votes \in [Ids -> [Accounts -> {0, 1, -1, 2}]]
    BY DEF TypeOK
  <2>3. [votes[id] EXCEPT ![voter] = vote] \in [Accounts -> {0, 1, -1, 2}]
    BY <2>2
  <2>4. QED BY <2>1, <2>2, <2>3
<1>4. UNCHANGED <<now, curProposalId, extras, committees, upgradeSlot, implementation,
                  devRatio, released>>
  BY DEF CastVote, slotVars, ratioVars
<1>5. QED BY <1>1, <1>2, <1>3, <1>4 DEF TypeOK, Proposal, SnapshotRecord

LEMMA BallotType ==
    ASSUME TypeOK, NEW id \in Ids, NEW voter \in Accounts
    PROVE  /\ [Ballot(id) EXCEPT !.support = Append(@, voter)] \in Proposal
           /\ [Ballot(id) EXCEPT !.reject = Append(@, voter)] \in Proposal
<1>1. Ballot(id) \in Proposal
  BY SettledType DEF Ballot, TypeOK, Proposal
<1> HIDE DEF Ballot
<1>2. /\ Append(Ballot(id).support, voter) \in Seq(Accounts)
      /\ Append(Ballot(id).reject, voter) \in Seq(Accounts)
  BY <1>1 DEF Proposal
<1>3. QED BY <1>1, <1>2 DEF Proposal

\* A step that settles or executes a proposal and records a committee.
LEMMA DecisionType ==
    ASSUME TypeOK, NEW id \in Ids,
           proposals' \in {[proposals EXCEPT ![id] = Settled(id)],
                           [proposals EXCEPT ![id] = Executed(id)]},
           snapshots' = SettledSnapshots(id) \/
             \E list \in Seq(Accounts) : snapshots' = Recorded(id, list),
           committees' \in Seq(Accounts),
           upgradeSlot' \in [UpgradeTargets -> Ids \cup {0}],
           implementation' \in [Proxies -> Implementations \cup {Original}],
           devRatio' \in Nat,
           UNCHANGED <<now, curProposalId, extras, votes, released>>
    PROVE  TypeOK'
<1>1. proposals' \in [Ids -> Proposal]
  BY SettledType, UpdateType
<1>2. snapshots' \in Seq(SnapshotRecord)
  <2>1. SettledSnapshots(id) \in Seq(SnapshotRecord)
    BY SettledType
  <2>2. ASSUME NEW list \in Seq(Accounts), snapshots' = Recorded(id, list)
        PROVE  snapshots' \in Seq(SnapshotRecord)
    BY <2>1, <2>2, SnapshotType DEF Recorded
  <2>3. QED BY <2>1, <2>2
<1>3. QED BY <1>1, <1>2 DEF TypeOK, Proposal, SnapshotRecord

LEMMA WithoutMemberType ==
    ASSUME TypeOK, NEW m \in Accounts, IsMember(m)
    PROVE  WithoutMember(m) \in Seq(Accounts)
<1> DEFINE i == CHOOSE k \in DOMAIN committees : committees[k] = m
           swapped == [committees EXCEPT ![i] = Last(committees)]
<1>1. committees \in Seq(Accounts) /\ committees # <<>> /\ i \in DOMAIN committees
  BY DEF TypeOK, IsMember, ToSet
<1>2. swapped \in Seq(Accounts) /\ swapped # <<>>
  BY <1>1 DEF Last
<1>3. Front(swapped) \in Seq(Accounts)
  BY <1>2 DEF Front
<1>4. QED BY <1>3 DEF WithoutMember

LEMMA EndFullType ==
    ASSUME TypeOK, NEW id \in Ids, NEW batch \in SUBSET Accounts, EndFullPropose(id, batch)
    PROVE  TypeOK'
<1> DEFINE counted == {a \in batch : votes[id][a] \in {1, -1}}
<1>1. proposals' \in [Ids -> Proposal]
  <2>1. PICK tally : proposals' = IF AllCounted(id, tally.settled)
                                 THEN [proposals EXCEPT ![id].state = FullOutcome(tally)]
                                 ELSE proposals
    BY DEF EndFullPropose
  <2>2. FullOutcome(tally) \in States
    BY DEF FullOutcome, States
  <2>3. [proposals[id] EXCEPT !.state = FullOutcome(tally)] \in Proposal
    BY <2>2 DEF TypeOK, Proposal
  <2>4. proposals \in [Ids -> Proposal]
    BY DEF TypeOK, Proposal
  <2>5. [proposals EXCEPT ![id] = [proposals[id] EXCEPT !.state = FullOutcome(tally)]]
          \in [Ids -> Proposal]
    BY <2>3, UpdateType
  <2>6. QED BY <2>1, <2>4, <2>5
<1>2. votes' \in [Ids -> [Accounts -> {0, 1, -1, 2}]]
  <2>1. votes' = CountedMark(id, counted)
    BY DEF EndFullPropose
  <2>2. QED BY <2>1 DEF CountedMark, TypeOK
<1>3. devRatio' \in Nat
  BY TokenAssumption DEF EndFullPropose, TypeOK
<1>4. DOMAIN extras' = Ids
  <2>1. PICK tally : extras' = [extras EXCEPT ![id] = tally]
    BY DEF EndFullPropose
  <2>2. QED BY <2>1 DEF TypeOK
<1>5. UNCHANGED <<now, curProposalId, committees, snapshots, upgradeSlot, implementation, released>>
  BY DEF EndFullPropose, seatVars, slotVars
<1>6. QED BY <1>1, <1>2, <1>3, <1>4, <1>5 DEF TypeOK, Proposal

LEMMA ExecuteType ==
    ASSUME TypeOK, NEW id \in Ids, NEW params, NEW list \in Seq(Accounts),
           Execute(id, params),
           \/ Seat(id, list)
           \/ snapshots' = SettledSnapshots(id) /\ UNCHANGED committees,
           UNCHANGED slotVars \/
             \E proxy \in Proxies, impl \in Implementations :
                /\ upgradeSlot' = [upgradeSlot EXCEPT ![proxy] = 0]
                /\ implementation' = [implementation EXCEPT ![proxy] = impl],
           devRatio' \in Nat, UNCHANGED released
    PROVE  TypeOK'
<1>1. proposals' = [proposals EXCEPT ![id] = Executed(id)]
  BY DEF Execute
<1>2. /\ committees' \in Seq(Accounts)
      /\ snapshots' = SettledSnapshots(id) \/
            \E l \in Seq(Accounts) : snapshots' = Recorded(id, l)
  BY DEF Seat, TypeOK
<1>3. /\ upgradeSlot' \in [UpgradeTargets -> Ids \cup {0}]
      /\ implementation' \in [Proxies -> Implementations \cup {Original}]
  BY CommitteeAssumption DEF TypeOK, slotVars
<1>4. UNCHANGED <<now, curProposalId, extras, votes, released>>
  BY DEF Execute
<1>5. QED BY <1>1, <1>2, <1>3, <1>4, DecisionType

LEMMA CreatedParams ==
    /\ \A m \in AddTargets : AddMember(m) \in Params
    /\ \A m \in RemoveTargets : RemoveMember(m) \in Params
    /\ \A list \in Replacements \cup FullReplacements : NewCommittee(list) \in Params
    /\ \A r \in RatioChoices : NewRatio(r) \in Params
    /\ \A t \in UpgradeTargets, i \in Implementations : Upgrade(t, i) \in Params
    /\ \A t \in Topics : Decision(t) \in Params
BY DEF Params

LEMMA InitType == Init => TypeOK
<1> SUFFICES ASSUME Init PROVE TypeOK
  OBVIOUS
<1>1. InitialCommittee \in Seq(Accounts)
  BY CommitteeAssumption
<1>2. snapshots \in Seq(SnapshotRecord)
  BY <1>1, SnapshotType DEF Init
<1>3. NoProposal \in Proposal
  BY DEF NoProposal, Proposal, Senders, States, Params
<1>4. proposals \in [Ids -> Proposal]
  BY <1>3 DEF Init
<1>5. now \in 0 .. MaxTime /\ curProposalId \in 1 .. MaxProposals + 1
  BY BoundsAssumption DEF Init
<1>6. votes \in [Ids -> [Accounts -> {0, 1, -1, 2}]] /\ DOMAIN extras = Ids
  BY DEF Init
<1>7. /\ upgradeSlot \in [UpgradeTargets -> Ids \cup {0}]
      /\ implementation \in [Proxies -> Implementations \cup {Original}]
  BY DEF Init
<1>8. devRatio \in Nat /\ released \in BOOLEAN /\ committees \in Seq(Accounts)
  BY <1>1, TokenAssumption DEF Init
<1>9. QED BY <1>2, <1>4, <1>5, <1>6, <1>7, <1>8 DEF TypeOK, Proposal, SnapshotRecord

\* The voters of one side, in some order, once each.
LEMMA SideListed ==
    ASSUME NEW ballot, NEW vote
    PROVE  /\ SideOf(ballot, vote) \in Seq(Accounts) /\ IsInjective(SideOf(ballot, vote))
           /\ ToSet(SideOf(ballot, vote)) = {a \in Accounts : ballot[a] = vote}
<1> DEFINE S == {a \in Accounts : ballot[a] = vote}
           n == Cardinality(S)
<1>1. IsFiniteSet(S) /\ n \in Nat /\ Cardinality(1 .. n) = n
  <2>1. IsFiniteSet(S)
    BY TokenAssumption, FS_Subset
  <2>2. n \in Nat
    BY <2>1, FS_CardinalityType
  <2> HIDE DEF n
  <2> QED BY <2>1, <2>2, FS_Interval
<1>2. PICK g \in [1 .. n -> S] : IsInjective(g)
  <2>1. PICK k \in Nat : ExistsBijection(1 .. k, S)
    BY <1>1, FS_NatBijection
  <2>2. k = n
    BY <2>1, FS_CountingElements
  <2> QED BY <2>1, <2>2 DEF ExistsBijection, Bijection, Injection, IsInjective
<1> DEFINE f == SideOf(ballot, vote)
<1>3. f = CHOOSE h \in [1 .. n -> S] : IsInjective(h)
  BY DEF SideOf, SetToSeq
<1>4. f \in [1 .. n -> S] /\ IsInjective(f)
  BY <1>2, <1>3
<1> HIDE DEF f
<1>5. f \in Surjection(1 .. n, S)
  <2>1. f \in Injection(1 .. n, S)
    BY <1>4 DEF Injection, IsInjective
  <2> QED BY <1>1, <2>1, FS_Injection
<1>6. f \in Seq(Accounts) /\ DOMAIN f = 1 .. n
  BY <1>1, <1>4
<1>7. ToSet(f) = S
  BY <1>5, <1>6 DEF Surjection, ToSet
<1> QED BY <1>4, <1>6, <1>7 DEF f

\* What the old release leaves for one id.
LegacyId(id) ==
    \/ id >= curProposalId /\ proposals[id] = NoProposal /\ votes[id] = [a \in Accounts |-> 0]
    \/ /\ id < curProposalId
       /\ \E params \in LegacyParams, ballot \in LegacyBallots : \E state \in {"InProgress", "Accepted"} :
             proposals[id] = LegacyProposal(params, ballot, state) /\ votes[id] = ballot

LEMMA LegacyStarts ==
    ASSUME LegacyInit
    PROVE  /\ curProposalId \in 1 .. MaxProposals + 1 /\ \A id \in Ids : LegacyId(id)
           /\ proposals = [id \in Ids |-> proposals[id]] /\ votes = [id \in Ids |-> votes[id]]
           /\ now = 0 /\ committees = InitialCommittee /\ snapshots = <<>>
           /\ extras = [id \in Ids |-> NoExtra]
           /\ upgradeSlot = [target \in UpgradeTargets |-> 0]
           /\ implementation = [proxy \in Proxies |-> Original]
           /\ devRatio = InitRatio /\ released = FALSE
           /\ normalBalance = NormalHoldings /\ devBalance = DevHoldings
           /\ normalSupply = SumFunction(NormalHoldings)
           /\ devReleased = SumFunction(DevHoldings)
<1>0. PICK n \in 0 .. MaxLegacy :
         \E params \in [1 .. n -> LegacyParams], ballots \in [1 .. n -> LegacyBallots],
            states \in [1 .. n -> {"InProgress", "Accepted"}] :
             LegacyStorage(n, params, ballots, states)
  BY Zenon DEF LegacyInit
<1>1. PICK params \in [1 .. n -> LegacyParams], ballots \in [1 .. n -> LegacyBallots],
           states \in [1 .. n -> {"InProgress", "Accepted"}] :
         LegacyStorage(n, params, ballots, states)
  BY <1>0
<1>2. curProposalId = n + 1 /\ n \in Nat /\ n <= MaxProposals
  BY <1>1, LegacyAssumption, BoundsAssumption DEF LegacyStorage
<1>3. ASSUME NEW id \in Ids PROVE LegacyId(id)
  <2>1. CASE id <= n
    <3>1. id \in 1 .. n
      BY <1>2, <2>1 DEF Ids
    <3>2. params[id] \in LegacyParams /\ ballots[id] \in LegacyBallots
          /\ states[id] \in {"InProgress", "Accepted"}
      BY <3>1
    <3>3. proposals[id] = LegacyProposal(params[id], ballots[id], states[id])
          /\ votes[id] = ballots[id]
      BY <1>1, <2>1 DEF LegacyStorage
    <3>4. id < curProposalId
      BY <1>2, <3>1
    <3> QED BY <3>2, <3>3, <3>4 DEF LegacyId
  <2>2. CASE ~ (id <= n)
    <3>1. proposals[id] = NoProposal /\ votes[id] = [a \in Accounts |-> 0]
      BY <1>1, <2>2 DEF LegacyStorage
    <3>2. id >= curProposalId
      BY <1>2, <2>2 DEF Ids
    <3> QED BY <3>1, <3>2 DEF LegacyId
  <2> QED BY <2>1, <2>2
<1>4. curProposalId \in 1 .. MaxProposals + 1
  BY <1>2, BoundsAssumption
<1>5. proposals = [id \in Ids |-> proposals[id]] /\ votes = [id \in Ids |-> votes[id]]
  BY <1>1 DEF LegacyStorage
<1> QED BY <1>1, <1>3, <1>4, <1>5 DEF LegacyStorage

LEMMA LegacyType == LegacyInit => TypeOK
<1> SUFFICES ASSUME LegacyInit PROVE TypeOK
  OBVIOUS
<1>1. InitialCommittee \in Seq(Accounts) /\ snapshots \in Seq(SnapshotRecord)
  BY CommitteeAssumption, LegacyStarts
<1>2. ASSUME NEW id \in Ids
      PROVE  proposals[id] \in Proposal /\ votes[id] \in [Accounts -> {0, 1, -1, 2}]
  <2>1. NoProposal \in Proposal
    BY DEF NoProposal, Proposal, Senders, States, Params
  <2>2. ASSUME NEW params \in LegacyParams, NEW ballot \in LegacyBallots,
               NEW state \in {"InProgress", "Accepted"}
        PROVE  LegacyProposal(params, ballot, state) \in Proposal
    <3>1. params \in Params /\ Committee \in Senders /\ state \in States
      BY DEF LegacyParams, Params, Senders, States
    <3>2. VotingPeriod \in Nat
      BY BoundsAssumption
    <3>3. SideOf(ballot, 1) \in Seq(Accounts) /\ SideOf(ballot, -1) \in Seq(Accounts)
      BY SideListed
    <3> QED BY <3>1, <3>2, <3>3 DEF LegacyProposal, Proposal
  <2>3. LegacyId(id)
    BY LegacyStarts
  <2> QED BY <2>1, <2>2, <2>3 DEF LegacyId, LegacyBallots
<1>3. proposals \in [Ids -> Proposal] /\ votes \in [Ids -> [Accounts -> {0, 1, -1, 2}]]
  BY <1>2, LegacyStarts
<1>4. /\ now \in 0 .. MaxTime /\ DOMAIN extras = Ids
      /\ upgradeSlot \in [UpgradeTargets -> Ids \cup {0}]
      /\ implementation \in [Proxies -> Implementations \cup {Original}]
  BY LegacyStarts, BoundsAssumption
<1>5. devRatio \in Nat /\ released \in BOOLEAN
  BY LegacyStarts, TokenAssumption
<1> QED BY <1>1, <1>3, <1>4, <1>5, LegacyStarts DEF TypeOK, Proposal, SnapshotRecord

\* None of what the old release leaves is decided, and all of it is about seats.
LEMMA LegacyKinds ==
    ASSUME LegacyInit, NEW id \in Ids
    PROVE  /\ State(id) \in {"NotFound", "InProgress", "Accepted"}
           /\ proposals[id].version = 0 /\ IsOrdinary(id)
           /\ proposals[id].params[1] \notin {"setDevRatio", "upgradeContract"}
           /\ State(id) # "NotFound" => id < curProposalId
           /\ State(id) = "NotFound" => votes[id] = [a \in Accounts |-> 0]
           /\ State(id) # "NotFound" => /\ proposals[id].support = SideOf(votes[id], 1)
                                        /\ proposals[id].reject = SideOf(votes[id], -1)
                                        /\ \A a \in Accounts : votes[id][a] # 2
<1>1. LegacyId(id) /\ extras = [i \in Ids |-> NoExtra] /\ curProposalId \in Nat
  BY LegacyStarts, BoundsAssumption
<1>2. IsOrdinary(id)
  BY <1>1 DEF IsOrdinary, NoExtra
<1>3. CASE proposals[id] = NoProposal /\ votes[id] = [a \in Accounts |-> 0]
  BY <1>2, <1>3 DEF NoProposal, NoParams, State
<1>4. ASSUME id < curProposalId, NEW params \in LegacyParams, NEW ballot \in LegacyBallots,
             NEW state \in {"InProgress", "Accepted"},
             proposals[id] = LegacyProposal(params, ballot, state), votes[id] = ballot
      PROVE  /\ State(id) \in {"InProgress", "Accepted"} /\ proposals[id].version = 0
             /\ proposals[id].params[1] \notin {"setDevRatio", "upgradeContract"}
             /\ proposals[id].support = SideOf(votes[id], 1)
             /\ proposals[id].reject = SideOf(votes[id], -1)
             /\ \A a \in Accounts : votes[id][a] # 2
  <2>1. params[1] \in {"addMember", "removeMember", "setCommittees"}
    BY DEF LegacyParams, AddMember, RemoveMember, NewCommittee
  <2> QED BY <1>4, <2>1 DEF LegacyProposal, State, LegacyBallots
<1> QED BY <1>1, <1>2, <1>3, <1>4 DEF LegacyId

LEMMA NextType == TypeOK /\ [Next]_vars => TypeOK'
<1> SUFFICES ASSUME TypeOK, [Next]_vars PROVE TypeOK'
  OBVIOUS
<1> USE BoundsAssumption, CommitteeAssumption
<1>1. CASE Tick
  BY <1>1 DEF Tick, TypeOK, govVars, seatVars, slotVars, ratioVars
<1>2. CASE ReleaseFinalVersion
  BY <1>2 DEF ReleaseFinalVersion, TypeOK, govVars, seatVars, slotVars, ratioVars
<1>3. ASSUME NEW c \in DaoContracts, NEW d \in Durations, NEW topic \in Topics,
             \/ Propose(c, d, topic)
             \/ \E threshold \in Thresholds : FullPropose(c, d, topic, threshold)
      PROVE  TypeOK'
  <2>1. c \in Senders /\ d \in Nat /\ Decision(topic) \in Params
    BY CreatedParams DEF Senders
  <2>2. CASE Propose(c, d, topic)
    BY <2>1, <2>2, CreateOrdinaryType DEF Propose
  <2>3. ASSUME NEW threshold \in Thresholds, FullPropose(c, d, topic, threshold)
        PROVE  TypeOK'
    BY <2>1, <2>3, CreateFullType DEF FullPropose
  <2>4. QED BY <1>3, <2>2, <2>3
<1>4. ASSUME NEW a \in Accounts, NEW m \in AddTargets, PrepareAddMember(a, m) PROVE TypeOK'
  BY <1>4, CreateOrdinaryType, CreatedParams DEF PrepareAddMember, Senders
<1>5. ASSUME NEW a \in Accounts, NEW m \in RemoveTargets, PrepareRemoveMember(a, m) PROVE TypeOK'
  BY <1>5, CreateOrdinaryType, CreatedParams DEF PrepareRemoveMember, Senders
<1>6. ASSUME NEW a \in Accounts, NEW list \in Replacements, PrepareSetCommittees(a, list)
      PROVE  TypeOK'
  BY <1>6, CreateOrdinaryType, CreatedParams DEF PrepareSetCommittees, Senders
<1>7. ASSUME NEW a \in Accounts, NEW list \in FullReplacements, PrepareFullSetCommittees(a, list)
      PROVE  TypeOK'
  BY <1>7, CreateFullType, CreatedParams DEF PrepareFullSetCommittees, Senders
<1>8. ASSUME NEW a \in Accounts, NEW r \in RatioChoices, PrepareSetDevRatio(a, r) PROVE TypeOK'
  BY <1>8, CreateOrdinaryType, CreatedParams DEF PrepareSetDevRatio, Senders
<1>9. ASSUME NEW a \in Accounts, NEW target \in UpgradeTargets, NEW impl \in Implementations,
             PrepareContractUpgrade(a, target, impl)
      PROVE  TypeOK'
  <2>1. target \in Senders /\ Upgrade(target, impl) \in Params
    BY CreatedParams DEF Senders
  <2>2. Create(target, VotingPeriod, Upgrade(target, impl), NoExtra)
    BY <1>9 DEF PrepareContractUpgrade, CreateOrdinary
  <2>3. /\ now' \in 0 .. MaxTime /\ curProposalId' \in 1 .. MaxProposals + 1
        /\ proposals' \in [Ids -> Proposal] /\ snapshots' \in Seq(SnapshotRecord)
        /\ DOMAIN extras' = Ids /\ curProposalId \in Ids
    BY <2>1, <2>2, CreateType
  <2>4. upgradeSlot' \in [UpgradeTargets -> Ids \cup {0}]
    BY <1>9, <2>3 DEF PrepareContractUpgrade, TypeOK
  <2>5. UNCHANGED <<committees, votes, implementation, devRatio, released>>
    BY <2>2 DEF Create, ratioVars
  <2>6. QED BY <2>3, <2>4, <2>5 DEF TypeOK, Proposal, SnapshotRecord
<1>10. ASSUME NEW a \in Accounts, NEW target \in UpgradeTargets, CancelContractUpgrade(a, target)
       PROVE  TypeOK'
  <2> DEFINE id == upgradeSlot[target]
  <2>1. id \in Ids
    BY <1>10 DEF CancelContractUpgrade, TypeOK
  <2>2. /\ proposals' = [proposals EXCEPT ![id] = Settled(id)]
        /\ upgradeSlot' = [upgradeSlot EXCEPT ![target] =
                              IF Cancellable(Settled(id).state) THEN 0 ELSE id]
        /\ snapshots' = SettledSnapshots(id)
        /\ UNCHANGED <<now, curProposalId, extras, votes, committees, implementation, ratioVars>>
    BY <1>10 DEF CancelContractUpgrade
  <2>3. /\ upgradeSlot' \in [UpgradeTargets -> Ids \cup {0}]
        /\ committees' \in Seq(Accounts) /\ devRatio' \in Nat
        /\ implementation' \in [Proxies -> Implementations \cup {Original}]
        /\ UNCHANGED <<now, curProposalId, extras, votes, released>>
    BY <2>1, <2>2 DEF TypeOK, ratioVars
  <2> HIDE DEF id
  <2>4. QED BY <2>1, <2>2, <2>3, DecisionType
<1>11. ASSUME NEW a \in Accounts, NEW n \in ConvertAmounts, Dev2Normal(a, n) PROVE TypeOK'
  BY <1>11 DEF Dev2Normal, TypeOK, govVars, seatVars, slotVars, ratioVars
<1>12. ASSUME NEW a \in Accounts, NEW b \in Accounts, NEW n \in TransferAmounts,
              TransferNormal(a, b, n)
       PROVE  TypeOK'
  BY <1>12 DEF TransferNormal, TypeOK, govVars, seatVars, slotVars, ratioVars
<1>13. ASSUME NEW id \in Ids, SettleProposal(id) PROVE TypeOK'
  <2>1. /\ proposals' = [proposals EXCEPT ![id] = Settled(id)]
        /\ snapshots' = SettledSnapshots(id)
        /\ committees' \in Seq(Accounts) /\ devRatio' \in Nat
        /\ upgradeSlot' \in [UpgradeTargets -> Ids \cup {0}]
        /\ implementation' \in [Proxies -> Implementations \cup {Original}]
        /\ UNCHANGED <<now, curProposalId, extras, votes, released>>
    BY <1>13 DEF SettleProposal, TypeOK, slotVars, ratioVars
  <2>2. QED BY <2>1, DecisionType
<1>14. ASSUME NEW id \in Ids, NEW a \in Accounts, Support(id, a) \/ Reject(id, a) PROVE TypeOK'
  BY <1>14, BallotType, CastVoteType DEF Support, Reject
<1>15. ASSUME NEW id \in Ids, NEW batch \in SUBSET Accounts, EndFullPropose(id, batch) PROVE TypeOK'
  BY <1>15, EndFullType
<1>16. ASSUME NEW id \in Ids, NEW m \in AddTargets, AddCommitteeMember(m, id) PROVE TypeOK'
  <2>1. /\ Append(committees, m) \in Seq(Accounts) /\ Execute(id, AddMember(m))
        /\ Seat(id, Append(committees, m))
        /\ UNCHANGED slotVars /\ devRatio' \in Nat /\ UNCHANGED released
    BY <1>16 DEF AddCommitteeMember, ratioVars, TypeOK
  <2>2. QED BY <2>1, ExecuteType
<1>17. ASSUME NEW id \in Ids, NEW m \in RemoveTargets, RemoveCommitteeMember(m, id) PROVE TypeOK'
  <2>1. /\ WithoutMember(m) \in Seq(Accounts) /\ Execute(id, RemoveMember(m))
        /\ Seat(id, WithoutMember(m))
        /\ UNCHANGED slotVars /\ devRatio' \in Nat /\ UNCHANGED released
    BY <1>17, WithoutMemberType DEF RemoveCommitteeMember, ratioVars, TypeOK
  <2>2. QED BY <2>1, ExecuteType
<1>18. ASSUME NEW id \in Ids, NEW list \in Replacements \cup FullReplacements,
              SetCommittees(list, id)
       PROVE  TypeOK'
  <2>1. /\ list \in Seq(Accounts) /\ Execute(id, NewCommittee(list)) /\ Seat(id, list)
        /\ UNCHANGED slotVars /\ devRatio' \in Nat /\ UNCHANGED released
    BY <1>18 DEF SetCommittees, ratioVars, TypeOK
  <2>2. QED BY <2>1, ExecuteType
<1>19. ASSUME NEW id \in Ids, NEW r \in RatioChoices, SetDevRatio(r, id) PROVE TypeOK'
  <2>1. /\ Execute(id, NewRatio(r)) /\ snapshots' = SettledSnapshots(id)
        /\ UNCHANGED <<committees, slotVars, released>> /\ devRatio' \in Nat
    BY <1>19, TokenAssumption DEF SetDevRatio, RatioSet
  <2>2. QED BY <2>1, ExecuteType
<1>20. ASSUME NEW id \in Ids, NEW a \in Accounts \cup DaoContracts, SetProposalExecuted(a, id)
       PROVE  TypeOK'
  <2>0. "Executed" \in States
    BY DEF States
  <2>1. [proposals[id] EXCEPT !.state = "Executed"] \in Proposal
    BY <2>0 DEF TypeOK, Proposal
  <2>2. proposals' = [proposals EXCEPT ![id] = [proposals[id] EXCEPT !.state = "Executed"]]
    BY <1>20 DEF SetProposalExecuted
  <2>3. proposals' \in [Ids -> Proposal]
    BY <2>1, <2>2, UpdateType
  <2>4. QED BY <1>20, <2>3 DEF SetProposalExecuted, TypeOK, Proposal, seatVars, slotVars, ratioVars
<1>21. ASSUME NEW proxy \in Proxies, NEW impl \in Implementations, UpgradeToAndCall(proxy, impl)
       PROVE  TypeOK'
  <2> DEFINE id == upgradeSlot[proxy]
  <2>1. id \in Ids
    BY <1>21 DEF UpgradeToAndCall, TypeOK
  <2>2. /\ Execute(id, Upgrade(proxy, impl)) /\ snapshots' = SettledSnapshots(id)
        /\ upgradeSlot' = [upgradeSlot EXCEPT ![proxy] = 0]
        /\ implementation' = [implementation EXCEPT ![proxy] = impl]
        /\ UNCHANGED <<committees, released>> /\ devRatio' \in Nat
    BY <1>21 DEF UpgradeToAndCall, TypeOK, ratioVars
  <2> HIDE DEF id
  <2>3. QED BY <2>1, <2>2, ExecuteType
<1>22. ASSUME NEW target \in UpgradeTargets \ Proxies, NEW impl \in Implementations,
              VerifyContractUpgrade(target, impl)
       PROVE  TypeOK'
  <2> DEFINE id == upgradeSlot[target]
  <2>1. id \in Ids
    BY <1>22 DEF VerifyContractUpgrade, TypeOK
  <2>2. /\ proposals' \in {[proposals EXCEPT ![id] = Settled(id)],
                            [proposals EXCEPT ![id] = Executed(id)]}
        /\ upgradeSlot' \in {upgradeSlot, [upgradeSlot EXCEPT ![target] = 0],
                              [upgradeSlot EXCEPT ![target] = id]}
        /\ snapshots' = SettledSnapshots(id)
        /\ UNCHANGED <<now, curProposalId, extras, votes, committees, implementation, ratioVars>>
    BY <1>22 DEF VerifyContractUpgrade
  <2>3. /\ upgradeSlot' \in [UpgradeTargets -> Ids \cup {0}]
        /\ committees' \in Seq(Accounts) /\ devRatio' \in Nat
        /\ implementation' \in [Proxies -> Implementations \cup {Original}]
        /\ UNCHANGED <<now, curProposalId, extras, votes, released>>
    BY <2>1, <2>2 DEF TypeOK, ratioVars
  <2> HIDE DEF id
  <2>4. QED BY <2>1, <2>2, <2>3, DecisionType
<1>23. CASE UNCHANGED vars
  BY <1>23 DEF vars, TypeOK, govVars, seatVars, slotVars, ratioVars
<1>24. QED
  BY <1>1, <1>2, <1>3, <1>4, <1>5, <1>6, <1>7, <1>8, <1>9, <1>10, <1>11, <1>12, <1>13,
     <1>14, <1>15, <1>16, <1>17, <1>18, <1>19, <1>20, <1>21, <1>22, <1>23
     DEF Next

\* Every state of the committee is well-typed: the contract never stores a
\* committee, snapshot, proposal, vote or upgrade slot of the wrong shape.
THEOREM TypeCorrect == LegacySpec => []TypeOK
<1>1. EitherInit => TypeOK
  BY InitType, LegacyType DEF EitherInit
<1>2. QED BY <1>1, NextType, PTL DEF LegacySpec

\* Every behaviour of a new committee is one of the behaviours the theorems are about.
LEMMA NewIsEither == Spec => LegacySpec
BY DEF Spec, LegacySpec, EitherInit

-----------------------------------------------------------------------------
(* The upgrade queue and the dev ratio *)

Live(id) == State(id) \in {"InProgress", "Accepted"}

\* A step that settles or executes a proposal keeps all parameters, and revives
\* no proposal.
LEMMA DecisionKeeps ==
    ASSUME TypeOK, NEW id \in Ids,
           proposals' \in {[proposals EXCEPT ![id] = Settled(id)],
                           [proposals EXCEPT ![id] = Executed(id)]}
    PROVE  /\ \A i \in Ids : proposals'[i].params = proposals[i].params
           /\ \A i \in Ids : Live(i)' => Live(i)
           /\ \A i \in Ids \ {id} : proposals'[i] = proposals[i]
           /\ Live(id)' => proposals' = [proposals EXCEPT ![id] = Settled(id)]
                           /\ Settled(id).state \in {"InProgress", "Accepted"}
<1>1. proposals \in [Ids -> Proposal] /\ proposals[id] \in Proposal
  BY DEF TypeOK, Proposal
<1>2. Settled(id) \in Proposal /\ Executed(id) \in Proposal
  BY SettledType
<1>3. Bound(id).params = proposals[id].params
  BY <1>1 DEF Bound, Proposal
<1>4. Settled(id).params = proposals[id].params
  BY <1>1, <1>3, SettledType DEF Settled, Proposal
<1>5. /\ Executed(id).params = proposals[id].params
      /\ Executed(id).state = "Executed"
  BY <1>2, <1>4 DEF Executed, Proposal
<1>6. Settled(id).state \in {"InProgress", "Accepted"} => Live(id)
  BY DEF Settled, Live, State
<1>7. QED BY <1>1, <1>4, <1>5, <1>6 DEF Live, State

\* What a new proposal is, and that the others stay as they are.
LEMMA CreateKeeps ==
    ASSUME TypeOK, NEW from \in Senders, NEW duration \in Nat, NEW params \in Params,
           NEW extra, Create(from, duration, params, extra)
    PROVE  /\ curProposalId \in Ids
           /\ proposals'[curProposalId].params = params
           /\ proposals'[curProposalId].state = "InProgress"
           /\ \A i \in Ids \ {curProposalId} : proposals'[i] = proposals[i]
           /\ UNCHANGED ratioVars
<1>1. curProposalId \in Ids
  BY CreateType
<1>2. proposals \in [Ids -> Proposal]
  BY DEF TypeOK, Proposal
<1>3. QED BY <1>1, <1>2 DEF Create

LEMMA CastVoteKeeps ==
    ASSUME TypeOK, NEW id \in Ids, NEW a \in Accounts, Support(id, a) \/ Reject(id, a)
    PROVE  /\ \A i \in Ids : /\ proposals'[i].params = proposals[i].params
                             /\ proposals'[i].state = proposals[i].state
           /\ UNCHANGED <<upgradeSlot, implementation, devRatio, released>>
<1>1. proposals \in [Ids -> Proposal] /\ Ballot(id) \in Proposal
  BY SettledType DEF TypeOK, Proposal, Ballot
<1>2. /\ Ballot(id).params = proposals[id].params /\ Ballot(id).state = proposals[id].state
  BY <1>1 DEF Ballot, Bound, Proposal
<1> HIDE DEF Ballot
<1>3. PICK x \in {[Ballot(id) EXCEPT !.support = Append(@, a)],
                  [Ballot(id) EXCEPT !.reject = Append(@, a)]} :
           proposals' = [proposals EXCEPT ![id] = x]
  BY DEF Support, Reject, CastVote
<1>4. x.params = proposals[id].params /\ x.state = proposals[id].state
  <2>1. CASE x = [Ballot(id) EXCEPT !.support = Append(@, a)]
    BY <1>1, <1>2, <2>1 DEF Proposal
  <2>2. CASE x = [Ballot(id) EXCEPT !.reject = Append(@, a)]
    BY <1>1, <1>2, <2>2 DEF Proposal
  <2>3. QED BY <1>3, <2>1, <2>2
<1>5. UNCHANGED <<upgradeSlot, implementation, devRatio, released>>
  BY DEF Support, Reject, CastVote, slotVars, ratioVars
<1>6. QED BY <1>1, <1>3, <1>4, <1>5

LEMMA EndFullKeeps ==
    ASSUME TypeOK, NEW id \in Ids, NEW batch \in SUBSET Accounts, EndFullPropose(id, batch)
    PROVE  /\ \A i \in Ids : proposals'[i].params = proposals[i].params
           /\ \A i \in Ids : Live(i)' => Live(i)
           /\ UNCHANGED <<upgradeSlot, implementation, released>>
           /\ devRatio' = IF released THEN FinalRatio ELSE devRatio
<1>1. proposals \in [Ids -> Proposal] /\ State(id) = "InProgress"
  BY DEF TypeOK, Proposal, EndFullPropose
<1>2. PICK state : proposals' \in {proposals,
                  [proposals EXCEPT ![id] = [proposals[id] EXCEPT !.state = state]]}
  BY DEF EndFullPropose
<1>3. [proposals[id] EXCEPT !.state = state].params = proposals[id].params
  BY <1>1 DEF Proposal
<1>4. \A i \in Ids : proposals'[i].params = proposals[i].params
  BY <1>1, <1>2, <1>3
<1>5. \A i \in Ids \ {id} : proposals'[i] = proposals[i]
  BY <1>1, <1>2
<1>6. \A i \in Ids : Live(i)' => Live(i)
  BY <1>1, <1>5 DEF Live, State
<1>7. /\ UNCHANGED <<upgradeSlot, implementation, released>>
      /\ devRatio' = IF released THEN FinalRatio ELSE devRatio
  BY DEF EndFullPropose, slotVars
<1>8. QED BY <1>4, <1>6, <1>7

\* The three kinds of step, as far as the queue and the ratio can tell: one
\* creates a proposal, one takes an id out of a slot because it is decided, and
\* the others leave the slots alone.
Extras == {NoExtra} \cup {[NoExtra EXCEPT !.full = TRUE, !.threshold = t] : t \in 10 .. 100}

LEMMA ExtrasOf ==
    /\ NoExtra \in Extras
    /\ \A t \in 10 .. 100 : [NoExtra EXCEPT !.full = TRUE, !.threshold = t] \in Extras
BY DEF Extras

CreationStep ==
    \E from \in Senders, d \in Nat, params \in Params, extra \in Extras :
        /\ Create(from, d, params, extra)
        /\ \A r \in RatioChoices : params = NewRatio(r) => r >= FinalRatio
        /\ \/ /\ upgradeSlot' = upgradeSlot
              /\ \A t \in UpgradeTargets, i \in Implementations : params # Upgrade(t, i)
           \/ \E t \in UpgradeTargets, i \in Implementations :
                 /\ params = Upgrade(t, i) /\ extra = NoExtra /\ upgradeSlot[t] = 0
                 /\ upgradeSlot' = [upgradeSlot EXCEPT ![t] = curProposalId]

Keeps == /\ \A i \in Ids : proposals'[i].params = proposals[i].params
         /\ \A i \in Ids : Live(i)' => Live(i)

ClearingStep ==
    /\ Keeps /\ devRatio' = devRatio
    /\ \E t \in UpgradeTargets, id \in Ids :
          /\ upgradeSlot[t] = id /\ ~ Live(id)'
          /\ upgradeSlot' = [upgradeSlot EXCEPT ![t] = 0]

RatioStep ==
    \/ devRatio' = devRatio
    \/ released /\ devRatio' = FinalRatio
    \/ ~ released /\ \E id \in Ids, r \in RatioChoices : Matches(id, NewRatio(r)) /\ devRatio' = r

OtherStep == Keeps /\ upgradeSlot' = upgradeSlot /\ RatioStep

LEMMA Tags ==
    /\ \A m, t, i : AddMember(m) # Upgrade(t, i) /\ RemoveMember(m) # Upgrade(t, i)
    /\ \A l, t, i : NewCommittee(l) # Upgrade(t, i) /\ NewRatio(l) # Upgrade(t, i)
    /\ \A d, t, i : Decision(d) # Upgrade(t, i)
    /\ \A x, r : /\ AddMember(x) # NewRatio(r) /\ RemoveMember(x) # NewRatio(r)
                 /\ NewCommittee(x) # NewRatio(r) /\ Decision(x) # NewRatio(r)
    /\ \A r, t, i : Upgrade(t, i) # NewRatio(r)
    /\ \A r, q : NewRatio(r) = NewRatio(q) => r = q
    /\ \A t, i, u, j : Upgrade(t, i) = Upgrade(u, j) => t = u /\ i = j
BY DEF AddMember, RemoveMember, NewCommittee, NewRatio, Decision, Upgrade

LEMMA OtherCreation ==
    ASSUME NEW from \in Senders, NEW d \in Nat, NEW params \in Params, NEW extra \in Extras,
           Create(from, d, params, extra), upgradeSlot' = upgradeSlot,
           \A r : params # NewRatio(r), \A t, i : params # Upgrade(t, i)
    PROVE  CreationStep
<1> USE DEF CreationStep
<1> WITNESS from \in Senders, d \in Nat, params \in Params, extra \in Extras
<1>1. QED OBVIOUS

LEMMA UpgradeCreation ==
    ASSUME NEW t \in UpgradeTargets, NEW i \in Implementations, t \in Senders,
           Create(t, VotingPeriod, Upgrade(t, i), NoExtra), upgradeSlot[t] = 0,
           upgradeSlot' = [upgradeSlot EXCEPT ![t] = curProposalId]
    PROVE  CreationStep
<1>1. /\ Upgrade(t, i) \in Params /\ NoExtra \in Extras /\ VotingPeriod \in Nat
      /\ \A q \in RatioChoices : Upgrade(t, i) = NewRatio(q) => q >= FinalRatio
  BY CreatedParams, ExtrasOf, Tags, BoundsAssumption, Zenon
<1>2. \E s \in UpgradeTargets, j \in Implementations :
         /\ Upgrade(t, i) = Upgrade(s, j) /\ NoExtra = NoExtra /\ upgradeSlot[s] = 0
         /\ upgradeSlot' = [upgradeSlot EXCEPT ![s] = curProposalId]
  BY Zenon
<1> USE <1>1, <1>2 DEF CreationStep
<1> WITNESS t \in Senders, VotingPeriod \in Nat, Upgrade(t, i) \in Params, NoExtra \in Extras
<1>3. QED BY Zenon

LEMMA StepKinds ==
    ASSUME TypeOK, [Next]_vars
    PROVE  CreationStep \/ ClearingStep \/ OtherStep
<1> USE CreatedParams, Tags, ExtrasOf, BoundsAssumption
<1>1. CASE Tick \/ ReleaseFinalVersion
  BY <1>1 DEF Tick, ReleaseFinalVersion, OtherStep, Keeps, RatioStep, Live, State,
              govVars, slotVars, ratioVars
<1>2. ASSUME NEW c \in DaoContracts, NEW d \in Durations, NEW topic \in Topics,
             \/ Propose(c, d, topic)
             \/ \E threshold \in Thresholds : FullPropose(c, d, topic, threshold)
      PROVE  CreationStep
  <2>1. c \in Senders /\ d \in Nat /\ Decision(topic) \in Params
    BY DEF Senders
  <2>2. CASE Propose(c, d, topic)
    BY <2>1, <2>2, OtherCreation DEF Propose, CreateOrdinary
  <2>3. CASE \E threshold \in Thresholds : FullPropose(c, d, topic, threshold)
    BY <2>1, <2>3, OtherCreation DEF FullPropose, CreateFull
  <2>4. QED BY <1>2, <2>2, <2>3
<1>3. ASSUME NEW a \in Accounts,
             \/ \E m \in AddTargets : PrepareAddMember(a, m)
             \/ \E m \in RemoveTargets : PrepareRemoveMember(a, m)
             \/ \E list \in Replacements : PrepareSetCommittees(a, list)
             \/ \E list \in FullReplacements : PrepareFullSetCommittees(a, list)
      PROVE  CreationStep
  <2>1. Committee \in Senders /\ a \in Senders /\ VotingPeriod \in Nat
    BY DEF Senders
  <2>2. CASE \E m \in AddTargets : PrepareAddMember(a, m)
    BY <2>1, <2>2, OtherCreation DEF PrepareAddMember, CreateOrdinary
  <2>3. CASE \E m \in RemoveTargets : PrepareRemoveMember(a, m)
    BY <2>1, <2>3, OtherCreation DEF PrepareRemoveMember, CreateOrdinary
  <2>4. CASE \E list \in Replacements : PrepareSetCommittees(a, list)
    <3>1. PICK list \in Replacements :
             Create(Committee, VotingPeriod, NewCommittee(list), NoExtra) /\ upgradeSlot' = upgradeSlot
      BY <2>4 DEF PrepareSetCommittees, CreateOrdinary
    <3>2. NewCommittee(list) \in Params
      OBVIOUS
    <3>3. QED BY <2>1, <3>1, <3>2, OtherCreation
  <2>5. CASE \E list \in FullReplacements : PrepareFullSetCommittees(a, list)
    <3>1. PICK list \in FullReplacements : PrepareFullSetCommittees(a, list)
      BY <2>5
    <3>2. PICK extra \in Extras :
             Create(a, VotingPeriod, NewCommittee(list), extra) /\ upgradeSlot' = upgradeSlot
      BY <3>1 DEF PrepareFullSetCommittees, CreateFull
    <3>3. NewCommittee(list) \in Params
      OBVIOUS
    <3>4. QED BY <2>1, <3>2, <3>3, OtherCreation
  <2>6. QED BY <1>3, <2>2, <2>3, <2>4, <2>5
<1>4. ASSUME NEW a \in Accounts, NEW r \in RatioChoices, PrepareSetDevRatio(a, r)
      PROVE  CreationStep
  <2>1. Committee \in Senders /\ VotingPeriod \in Nat /\ NewRatio(r) \in Params
    BY DEF Senders
  <2>2. /\ Create(Committee, VotingPeriod, NewRatio(r), NoExtra) /\ r >= FinalRatio
        /\ upgradeSlot' = upgradeSlot
    BY <1>4 DEF PrepareSetDevRatio, RatioAllowed, CreateOrdinary
  <2>3. /\ \A q \in RatioChoices : NewRatio(r) = NewRatio(q) => q >= FinalRatio
        /\ \A t \in UpgradeTargets, i \in Implementations : NewRatio(r) # Upgrade(t, i)
    BY <2>2
  <2>4. QED BY <2>1, <2>2, <2>3 DEF CreationStep
<1>5. ASSUME NEW a \in Accounts, NEW t \in UpgradeTargets, NEW i \in Implementations,
             PrepareContractUpgrade(a, t, i)
      PROVE  CreationStep
  <2>1. t \in Senders /\ VotingPeriod \in Nat
    BY DEF Senders
  <2>2. /\ Create(t, VotingPeriod, Upgrade(t, i), NoExtra) /\ upgradeSlot[t] = 0
        /\ upgradeSlot' = [upgradeSlot EXCEPT ![t] = curProposalId]
    BY <1>5 DEF PrepareContractUpgrade, CreateOrdinary
  <2>3. QED BY <2>1, <2>2, UpgradeCreation
<1>6. ASSUME NEW a \in Accounts, NEW t \in UpgradeTargets, CancelContractUpgrade(a, t)
      PROVE  ClearingStep \/ OtherStep
  <2>1. PICK id \in Ids : id = upgradeSlot[t]
    BY <1>6 DEF CancelContractUpgrade, TypeOK
  <2>2. proposals' = [proposals EXCEPT ![id] = Settled(id)] /\ devRatio' = devRatio
    BY <1>6, <2>1 DEF CancelContractUpgrade, ratioVars
  <2>3. Keeps
    BY <2>1, <2>2, DecisionKeeps DEF Keeps
  <2>4. CASE Cancellable(Settled(id).state)
    <3>1. upgradeSlot' = [upgradeSlot EXCEPT ![t] = 0]
      BY <1>6, <2>1, <2>4 DEF CancelContractUpgrade
    <3>2. ~ Live(id)'
      BY <2>1, <2>2, <2>4, DecisionKeeps DEF Cancellable
    <3>3. QED BY <2>1, <2>2, <2>3, <3>1, <3>2 DEF ClearingStep
  <2>5. CASE ~ Cancellable(Settled(id).state)
    <3>1. upgradeSlot' = [upgradeSlot EXCEPT ![t] = upgradeSlot[t]]
      BY <1>6, <2>1, <2>5 DEF CancelContractUpgrade
    <3>2. upgradeSlot' = upgradeSlot
      BY <3>1 DEF TypeOK
    <3>3. QED BY <2>2, <2>3, <3>2 DEF OtherStep, RatioStep
  <2>6. QED BY <2>4, <2>5
<1>7. ASSUME NEW a \in Accounts,
             \/ \E n \in ConvertAmounts : Dev2Normal(a, n)
             \/ \E b \in Accounts, n \in TransferAmounts : TransferNormal(a, b, n)
      PROVE  OtherStep
  BY <1>7 DEF Dev2Normal, TransferNormal, OtherStep, Keeps, RatioStep, Live, State,
              govVars, slotVars, ratioVars
<1>8. ASSUME NEW id \in Ids, SettleProposal(id) PROVE OtherStep
  <2>1. proposals' = [proposals EXCEPT ![id] = Settled(id)] /\ UNCHANGED <<slotVars, ratioVars>>
    BY <1>8 DEF SettleProposal
  <2>2. QED BY <2>1, DecisionKeeps DEF OtherStep, Keeps, RatioStep, slotVars, ratioVars
<1>9. ASSUME NEW id \in Ids, NEW a \in Accounts, Support(id, a) \/ Reject(id, a) PROVE OtherStep
  BY <1>9, CastVoteKeeps DEF OtherStep, Keeps, RatioStep, Live, State
<1>10. ASSUME NEW id \in Ids, NEW batch \in SUBSET Accounts, EndFullPropose(id, batch)
       PROVE  OtherStep
  BY <1>10, EndFullKeeps DEF OtherStep, Keeps, RatioStep
<1>11. ASSUME NEW id \in Ids,
              \/ \E m \in AddTargets : AddCommitteeMember(m, id)
              \/ \E m \in RemoveTargets : RemoveCommitteeMember(m, id)
              \/ \E list \in Replacements \cup FullReplacements : SetCommittees(list, id)
       PROVE  OtherStep
  <2>1. /\ proposals' = [proposals EXCEPT ![id] = Executed(id)]
        /\ upgradeSlot' = upgradeSlot /\ devRatio' = devRatio
    BY <1>11 DEF AddCommitteeMember, RemoveCommitteeMember, SetCommittees, Execute,
                 slotVars, ratioVars
  <2>2. QED BY <2>1, DecisionKeeps DEF OtherStep, Keeps, RatioStep
<1>12. ASSUME NEW id \in Ids, NEW r \in RatioChoices, SetDevRatio(r, id) PROVE OtherStep
  <2>1. /\ proposals' = [proposals EXCEPT ![id] = Executed(id)] /\ Matches(id, NewRatio(r))
        /\ upgradeSlot' = upgradeSlot /\ devRatio' = IF released THEN FinalRatio ELSE r
    BY <1>12 DEF SetDevRatio, RatioSet, Execute, TakeAccept, slotVars
  <2>2. RatioStep
    BY <2>1 DEF RatioStep
  <2>3. QED BY <2>1, <2>2, DecisionKeeps DEF OtherStep, Keeps
<1>13. ASSUME NEW id \in Ids, NEW sender, SetProposalExecuted(sender, id) PROVE OtherStep
  <2>1. /\ proposals' = [proposals EXCEPT ![id].state = "Executed"]
        /\ UNCHANGED <<upgradeSlot, devRatio>>
    BY <1>13 DEF SetProposalExecuted, slotVars, ratioVars
  <2>2. proposals \in [Ids -> Proposal]
    BY DEF TypeOK, Proposal
  <2>3. /\ proposals'[id].params = proposals[id].params /\ proposals'[id].state = "Executed"
        /\ \A i \in Ids \ {id} : proposals'[i] = proposals[i]
    BY <2>1, <2>2 DEF Proposal
  <2>4. Keeps
    BY <2>3 DEF Keeps, Live, State
  <2>5. QED BY <2>1, <2>4 DEF OtherStep, RatioStep
<1>14. ASSUME NEW proxy \in Proxies, NEW impl \in Implementations, UpgradeToAndCall(proxy, impl)
       PROVE  ClearingStep
  <2>1. proxy \in UpgradeTargets
    BY CommitteeAssumption
  <2>2. PICK id \in Ids : id = upgradeSlot[proxy]
    BY <1>14, <2>1 DEF UpgradeToAndCall, TypeOK
  <2>3. /\ proposals' = [proposals EXCEPT ![id] = Executed(id)] /\ devRatio' = devRatio
        /\ upgradeSlot' = [upgradeSlot EXCEPT ![proxy] = 0]
    BY <1>14, <2>2 DEF UpgradeToAndCall, Execute, ratioVars
  <2>4. Executed(id) \in Proposal /\ Executed(id).state = "Executed"
    BY <2>2, SettledType DEF Executed, Proposal
  <2>5. Keeps
    BY <2>2, <2>3, DecisionKeeps DEF Keeps
  <2>6. proposals'[id] = Executed(id)
    BY <2>2, <2>3 DEF TypeOK
  <2>7. ~ Live(id)'
    BY <2>4, <2>6 DEF Live, State
  <2>8. QED BY <2>1, <2>2, <2>3, <2>5, <2>7 DEF ClearingStep
<1>15. ASSUME NEW target \in UpgradeTargets, NEW impl \in Implementations,
              VerifyContractUpgrade(target, impl)
       PROVE  ClearingStep \/ OtherStep
  <2>1. PICK id \in Ids : id = upgradeSlot[target]
    BY <1>15 DEF VerifyContractUpgrade, TypeOK
  <2> DEFINE result == Settled(id).state
             next   == IF result = "Accepted" THEN Executed(id) ELSE Settled(id)
  <2>2. /\ proposals' = [proposals EXCEPT ![id] = next] /\ devRatio' = devRatio
        /\ upgradeSlot' = [upgradeSlot EXCEPT ![target] = IF result = "InProgress" THEN id ELSE 0]
    BY <1>15, <2>1 DEF VerifyContractUpgrade, ratioVars
  <2>3. next \in {Settled(id), Executed(id)}
    OBVIOUS
  <2>4. Executed(id).state = "Executed"
    BY <2>1, SettledType DEF Executed, Proposal
  <2>5. result = "InProgress" => upgradeSlot' = upgradeSlot
    BY <2>1, <2>2 DEF TypeOK
  <2>6. result # "InProgress" => next.state \notin {"InProgress", "Accepted"}
    BY <2>4
  <2> HIDE DEF next, result
  <2>7. Keeps /\ proposals'[id] = next
    BY <2>1, <2>2, <2>3, DecisionKeeps DEF Keeps, TypeOK
  <2>8. CASE result = "InProgress"
    BY <2>2, <2>5, <2>7, <2>8 DEF OtherStep, RatioStep
  <2>9. CASE result # "InProgress"
    <3>1. ~ Live(id)'
      BY <2>6, <2>7, <2>9 DEF Live, State
    <3>2. QED BY <2>1, <2>2, <2>7, <2>9, <3>1 DEF ClearingStep
  <2>10. QED BY <2>8, <2>9
<1>16. CASE UNCHANGED vars
  BY <1>16 DEF OtherStep, Keeps, RatioStep, Live, State, vars, govVars, slotVars, ratioVars
<1>17. QED
  BY <1>1, <1>2, <1>3, <1>4, <1>5, <1>6, <1>7, <1>8, <1>9, <1>10, <1>11, <1>12, <1>13,
     <1>14, <1>15, <1>16 DEF Next

\* The ratios that are still to be voted on or executed are above the final one.
RatiosAboveFinal ==
    \A id \in Ids, r \in RatioChoices : Matches(id, NewRatio(r)) => r >= FinalRatio

LEMMA RatiosStep ==
    ASSUME TypeOK, RatiosAboveFinal, RatioAboveFinal, [Next]_vars
    PROVE  RatiosAboveFinal' /\ RatioAboveFinal'
<1> USE TokenAssumption
<1>1. CASE CreationStep
  <2>1. PICK from \in Senders, d \in Nat, params \in Params, extra \in Extras :
           /\ Create(from, d, params, extra)
           /\ \A r \in RatioChoices : params = NewRatio(r) => r >= FinalRatio
    BY <1>1 DEF CreationStep
  <2>2. devRatio' = devRatio
    BY <2>1, CreateKeeps DEF ratioVars
  <2>3. \A id \in Ids : proposals'[id].params \in {params, proposals[id].params}
    BY <2>1, CreateKeeps
  <2>4. RatiosAboveFinal'
    BY <2>1, <2>3 DEF RatiosAboveFinal, Matches
  <2>5. QED BY <2>2, <2>4 DEF RatioAboveFinal
<1>2. CASE ClearingStep
  BY <1>2 DEF ClearingStep, Keeps, RatiosAboveFinal, RatioAboveFinal, Matches
<1>3. CASE OtherStep
  BY <1>3 DEF OtherStep, Keeps, RatioStep, RatiosAboveFinal, RatioAboveFinal, Matches
<1>4. QED BY <1>1, <1>2, <1>3, StepKinds

\* The ratio never falls below its final value: setDevRatio executes ratios that
\* were compared with finalRatio when they were prepared, however stale they are.
THEOREM RatioStaysAboveFinal == LegacySpec => []RatioAboveFinal
<1>1. EitherInit => RatiosAboveFinal /\ RatioAboveFinal
  <2>1. Init => RatiosAboveFinal /\ RatioAboveFinal
    BY DEF Init, RatiosAboveFinal, RatioAboveFinal, Matches, NoProposal, NoParams, NewRatio
  <2>2. LegacyInit => RatiosAboveFinal /\ RatioAboveFinal
    BY LegacyStarts, LegacyKinds DEF RatiosAboveFinal, RatioAboveFinal, Matches, NewRatio
  <2> QED BY <2>1, <2>2 DEF EitherInit
<1>2. TypeOK /\ (RatiosAboveFinal /\ RatioAboveFinal) /\ [Next]_vars
         => (RatiosAboveFinal /\ RatioAboveFinal)'
  BY RatiosStep
<1>3. QED BY <1>1, <1>2, TypeCorrect, PTL DEF LegacySpec

\* After the release of the final version the ratio only ever becomes finalRatio,
\* whichever transaction comes next.
THEOREM RatioPinnedHolds == LegacySpec => RatioPinned
<1>1. TypeOK /\ [Next]_vars => [released => devRatio' \in {devRatio, FinalRatio}]_vars
  <2> SUFFICES ASSUME TypeOK, [Next]_vars, released
               PROVE  devRatio' \in {devRatio, FinalRatio}
    OBVIOUS
  <2>1. CASE CreationStep
    BY <2>1, CreateKeeps DEF CreationStep, ratioVars
  <2>2. CASE ClearingStep
    BY <2>2 DEF ClearingStep
  <2>3. CASE OtherStep
    BY <2>3 DEF OtherStep, RatioStep
  <2>4. QED BY <2>1, <2>2, <2>3, StepKinds
<1>2. QED BY <1>1, TypeCorrect, PTL DEF LegacySpec, RatioPinned

LEMMA SlotStep ==
    ASSUME TypeOK, UpgradeSlotTracks, [Next]_vars
    PROVE  UpgradeSlotTracks'
<1> SUFFICES ASSUME NEW id \in Ids, NEW target \in UpgradeTargets, NEW impl \in Implementations,
                    proposals'[id].params = Upgrade(target, impl),
                    proposals'[id].state \in {"InProgress", "Accepted"}
             PROVE  upgradeSlot'[target] = id
  BY DEF UpgradeSlotTracks, Matches, State
<1>1. Matches(id, Upgrade(target, impl)) /\ Live(id) => upgradeSlot[target] = id
  BY DEF UpgradeSlotTracks, Live
<1>2. upgradeSlot \in [UpgradeTargets -> Ids \cup {0}]
  BY DEF TypeOK
<1>3. CASE CreationStep
  <2>1. PICK from \in Senders, d \in Nat, params \in Params, extra \in Extras :
           /\ Create(from, d, params, extra)
           /\ \/ /\ upgradeSlot' = upgradeSlot
                 /\ \A t \in UpgradeTargets, i \in Implementations : params # Upgrade(t, i)
              \/ \E t \in UpgradeTargets, i \in Implementations :
                    /\ params = Upgrade(t, i) /\ upgradeSlot[t] = 0
                    /\ upgradeSlot' = [upgradeSlot EXCEPT ![t] = curProposalId]
    BY <1>3 DEF CreationStep
  <2>2. CASE id = curProposalId
    <3>1. params = Upgrade(target, impl)
      BY <2>1, <2>2, CreateKeeps
    <3>2. QED BY <1>2, <2>1, <2>2, <3>1, Tags
  <2>3. CASE id # curProposalId
    <3>1. Matches(id, Upgrade(target, impl)) /\ Live(id)
      BY <2>1, <2>3, CreateKeeps DEF Matches, Live, State
    <3>2. upgradeSlot[target] = id /\ id # 0
      BY <1>1, <3>1 DEF Ids
    <3>3. QED BY <1>2, <2>1, <3>2
  <2>4. QED BY <2>2, <2>3
<1>4. CASE ClearingStep
  <2>1. PICK t \in UpgradeTargets, j \in Ids :
           /\ upgradeSlot[t] = j /\ ~ Live(j)'
           /\ upgradeSlot' = [upgradeSlot EXCEPT ![t] = 0]
    BY <1>4 DEF ClearingStep
  <2>2. upgradeSlot[target] = id
    BY <1>1, <1>4 DEF ClearingStep, Keeps, Matches, Live, State
  <2>3. j # id
    BY <2>1 DEF Live, State
  <2>4. QED BY <1>2, <2>1, <2>2, <2>3
<1>5. CASE OtherStep
  BY <1>1, <1>5 DEF OtherStep, Keeps, Matches, Live, State
<1>6. QED BY <1>3, <1>4, <1>5, StepKinds

\* An upgrade proposal that is open or accepted is the one its target's slot
\* holds: verifyContractUpgrade and cancelContractUpgrade give the slot back only
\* when the proposal they find in it is decided, and nobody takes it in between.
THEOREM SlotTracksUpgrade == LegacySpec => []UpgradeSlotTracks
<1>1. EitherInit => UpgradeSlotTracks
  <2>1. Init => UpgradeSlotTracks
    BY DEF Init, UpgradeSlotTracks, State, NoProposal
  <2>2. LegacyInit => UpgradeSlotTracks
    BY LegacyStarts, LegacyKinds DEF UpgradeSlotTracks, Matches, Upgrade
  <2> QED BY <2>1, <2>2 DEF EitherInit
<1>2. TypeOK /\ UpgradeSlotTracks /\ [Next]_vars => UpgradeSlotTracks'
  BY SlotStep
<1>3. QED BY <1>1, <1>2, TypeCorrect, PTL DEF LegacySpec
=============================================================================
