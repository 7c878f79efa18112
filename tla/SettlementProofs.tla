-------------------------- MODULE SettlementProofs --------------------------
(***************************************************************************)
(* Proofs about elections: who may decide a proposal, that ballots are     *)
(* kept as they were cast, that a result is a majority of its electorate,  *)
(* and that it stays.  They hold for every committee and every number of   *)
(* proposals.                                                              *)
(***************************************************************************)
EXTENDS CommitteeProofs, SumTheorems

\* Nobody has two seats.
SeatsOnce == IsInjective(committees)

\* Proposals that are not created yet have no votes, and come after the others.
Fresh == \A id \in Ids : /\ Created(id) => id < curProposalId
                         /\ ~ Created(id) => votes[id] = [a \in Accounts |-> 0]

\* A proposal is bound to a committee version on record, or to none yet.
Versioned == \A id \in Ids : proposals[id].version \in 0 .. Len(snapshots)

ExtrasShaped == \A id \in Ids : DOMAIN extras[id] = DOMAIN NoExtra

-----------------------------------------------------------------------------
(* The kinds of step, as far as elections can tell *)

NewStep ==
    \E from \in Senders, d \in Nat, params \in Params, extra \in Extras :
        Create(from, d, params, extra)

VotingStep == \E id \in Ids, a \in Accounts : Support(id, a) \/ Reject(id, a)

BatchStep == \E id \in Ids, batch \in SUBSET Accounts : EndFullPropose(id, batch)

\* A proposal is settled, and may be executed, which may seat a new committee.
DecidingStep ==
    /\ UNCHANGED <<now, curProposalId, extras, votes>>
    /\ \E id \in Ids :
          /\ CanSettle(id) \/ \E t \in UpgradeTargets : upgradeSlot[t] = id
          /\ \/ proposals' = [proposals EXCEPT ![id] = Settled(id)]
             \/ /\ Settled(id).state = "Accepted"
                /\ proposals' = [proposals EXCEPT ![id] = Executed(id)]
          /\ \/ snapshots' = SettledSnapshots(id) /\ committees' = committees
             \/ /\ IsSeatChange(id) /\ Settled(id).state = "Accepted"
                /\ proposals' = [proposals EXCEPT ![id] = Executed(id)]
                /\ \E list \in Seq(Accounts) : IsInjective(list) /\ Seat(id, list)

RestStep ==
    /\ UNCHANGED <<curProposalId, proposals, extras, votes, committees, snapshots>>
    /\ now' >= now

LEMMA ListsOnce ==
    ASSUME NEW list, ValidCommitteeList(list)
    PROVE  IsInjective(list)
BY DEF ValidCommitteeList, IsInjective

LEMMA AppendOnce ==
    ASSUME NEW S, NEW s \in Seq(S), NEW e \in S, IsInjective(s), e \notin ToSet(s)
    PROVE  IsInjective(Append(s, e))
<1>1. /\ DOMAIN Append(s, e) = 1 .. Len(s) + 1 /\ DOMAIN s = 1 .. Len(s) /\ Len(s) \in Nat
      /\ Append(s, e)[Len(s) + 1] = e
      /\ \A k \in 1 .. Len(s) : Append(s, e)[k] = s[k] /\ s[k] # e
  BY DEF ToSet
<1>2. QED BY <1>1 DEF IsInjective

\* Taking out a member, by moving the last one to its place, repeats nobody.
LEMMA WithoutOnce ==
    ASSUME TypeOK, SeatsOnce, NEW m \in Accounts, IsMember(m)
    PROVE  IsInjective(WithoutMember(m))
<1> DEFINE i == CHOOSE k \in DOMAIN committees : committees[k] = m
           n == Len(committees)
           swapped == [committees EXCEPT ![i] = Last(committees)]
<1>1. committees \in Seq(Accounts) /\ committees # <<>> /\ i \in 1 .. n /\ n \in Nat /\ n > 0
  BY DEF TypeOK, IsMember, ToSet
<1> HIDE DEF i
<1>2. swapped \in Seq(Accounts) /\ Len(swapped) = n
  BY <1>1 DEF Last
<1>3. /\ DOMAIN Front(swapped) = 1 .. n - 1
      /\ \A k \in 1 .. n - 1 : Front(swapped)[k] = IF k = i THEN committees[n] ELSE committees[k]
  BY <1>1, <1>2 DEF Front, Last
<1>4. \A j, k \in 1 .. n : committees[j] = committees[k] => j = k
  BY <1>1 DEF SeatsOnce, IsInjective
<1>5. IsInjective(Front(swapped))
  BY <1>1, <1>3, <1>4 DEF IsInjective
<1>6. QED BY <1>5 DEF WithoutMember, i

LEMMA HistoryKinds ==
    ASSUME TypeOK, SeatsOnce, [Next]_vars
    PROVE  NewStep \/ VotingStep \/ BatchStep \/ DecidingStep \/ RestStep
<1> USE CreatedParams, ExtrasOf, BoundsAssumption
<1>1. CASE Tick \/ ReleaseFinalVersion \/ UNCHANGED vars
  BY <1>1 DEF Tick, ReleaseFinalVersion, RestStep, vars, govVars, seatVars, TypeOK
<1>2. ASSUME NEW c \in DaoContracts, NEW d \in Durations, NEW topic \in Topics,
             \/ Propose(c, d, topic)
             \/ \E threshold \in Thresholds : FullPropose(c, d, topic, threshold)
      PROVE  NewStep
  <2>1. c \in Senders /\ d \in Nat /\ Decision(topic) \in Params
    BY DEF Senders
  <2>2. \E extra \in Extras : Create(c, d, Decision(topic), extra)
    BY <1>2 DEF Propose, CreateOrdinary, FullPropose, CreateFull
  <2>3. QED BY <2>1, <2>2 DEF NewStep
<1>3. ASSUME NEW a \in Accounts,
             \/ \E m \in AddTargets : PrepareAddMember(a, m)
             \/ \E m \in RemoveTargets : PrepareRemoveMember(a, m)
             \/ \E list \in Replacements : PrepareSetCommittees(a, list)
             \/ \E list \in FullReplacements : PrepareFullSetCommittees(a, list)
             \/ \E r \in RatioChoices : PrepareSetDevRatio(a, r)
             \/ \E t \in UpgradeTargets, i \in Implementations : PrepareContractUpgrade(a, t, i)
      PROVE  NewStep
  <2>1. {Committee, a} \cup UpgradeTargets \subseteq Senders /\ VotingPeriod \in Nat
    BY DEF Senders
  <2>2. \E from \in {Committee, a} \cup UpgradeTargets, params \in Params, extra \in Extras :
           Create(from, VotingPeriod, params, extra)
    <3>1. CASE \E m \in AddTargets : PrepareAddMember(a, m)
      BY <3>1 DEF PrepareAddMember, CreateOrdinary
    <3>2. CASE \E m \in RemoveTargets : PrepareRemoveMember(a, m)
      BY <3>2 DEF PrepareRemoveMember, CreateOrdinary
    <3>3. CASE \E list \in Replacements : PrepareSetCommittees(a, list)
      BY <3>3 DEF PrepareSetCommittees, CreateOrdinary
    <3>4. CASE \E list \in FullReplacements : PrepareFullSetCommittees(a, list)
      BY <3>4 DEF PrepareFullSetCommittees, CreateFull
    <3>5. CASE \E r \in RatioChoices : PrepareSetDevRatio(a, r)
      BY <3>5 DEF PrepareSetDevRatio, CreateOrdinary
    <3>6. CASE \E t \in UpgradeTargets, i \in Implementations : PrepareContractUpgrade(a, t, i)
      BY <3>6 DEF PrepareContractUpgrade, CreateOrdinary
    <3>7. QED BY <1>3, <3>1, <3>2, <3>3, <3>4, <3>5, <3>6
  <2>3. QED BY <2>1, <2>2 DEF NewStep
<1>4. ASSUME NEW a \in Accounts, NEW t \in UpgradeTargets, CancelContractUpgrade(a, t)
      PROVE  DecidingStep
  <2>1. PICK id \in Ids : id = upgradeSlot[t]
    BY <1>4 DEF CancelContractUpgrade, TypeOK
  <2>2. QED BY <1>4, <2>1 DEF CancelContractUpgrade, DecidingStep
<1>5. ASSUME NEW a \in Accounts,
             \/ \E n \in ConvertAmounts : Dev2Normal(a, n)
             \/ \E b \in Accounts, n \in TransferAmounts : TransferNormal(a, b, n)
      PROVE  RestStep
  BY <1>5 DEF Dev2Normal, TransferNormal, RestStep, govVars, seatVars, TypeOK
<1>6. ASSUME NEW id \in Ids, SettleProposal(id) PROVE DecidingStep
  BY <1>6 DEF SettleProposal, DecidingStep
<1>7. ASSUME NEW id \in Ids, NEW m \in AddTargets, AddCommitteeMember(m, id) PROVE DecidingStep
  <2>1. committees \in Seq(Accounts) /\ m \in Accounts /\ m \notin ToSet(committees)
    BY <1>7, CommitteeAssumption DEF AddCommitteeMember, MayJoin, IsMember, TypeOK
  <2>2. Append(committees, m) \in Seq(Accounts) /\ IsInjective(Append(committees, m))
    BY <2>1, AppendOnce DEF SeatsOnce
  <2>3. QED BY <1>7, <2>2 DEF AddCommitteeMember, Execute, TakeAccept, IsSeatChange, DecidingStep
<1>8. ASSUME NEW id \in Ids, NEW m \in RemoveTargets, RemoveCommitteeMember(m, id) PROVE DecidingStep
  <2>1. m \in Accounts /\ IsMember(m)
    BY <1>8, CommitteeAssumption DEF RemoveCommitteeMember
  <2>2. WithoutMember(m) \in Seq(Accounts) /\ IsInjective(WithoutMember(m))
    BY <2>1, WithoutMemberType, WithoutOnce
  <2>3. QED BY <1>8, <2>2 DEF RemoveCommitteeMember, Execute, TakeAccept, IsSeatChange, DecidingStep
<1>9. ASSUME NEW id \in Ids, NEW list \in Replacements \cup FullReplacements, SetCommittees(list, id)
      PROVE  DecidingStep
  <2>1. list \in Seq(Accounts) /\ IsInjective(list)
    BY <1>9, CommitteeAssumption, ListsOnce DEF SetCommittees
  <2>2. QED BY <1>9, <2>1 DEF SetCommittees, Execute, TakeAccept, IsSeatChange, DecidingStep
<1>10. ASSUME NEW id \in Ids, NEW r \in RatioChoices, SetDevRatio(r, id) PROVE DecidingStep
  BY <1>10 DEF SetDevRatio, Execute, TakeAccept, DecidingStep
<1>11. ASSUME NEW id \in Ids, NEW sender, SetProposalExecuted(sender, id) PROVE DecidingStep
  <2>1. Settled(id) = proposals[id] /\ SettledSnapshots(id) = snapshots /\ CanSettle(id)
    BY <1>11 DEF SetProposalExecuted, Settled, SettledSnapshots, CanSettle
  <2>2. proposals' = [proposals EXCEPT ![id] = Executed(id)]
    BY <1>11, <2>1 DEF SetProposalExecuted, Executed
  <2>3. QED BY <1>11, <2>1, <2>2 DEF SetProposalExecuted, State, seatVars, DecidingStep
<1>12. ASSUME NEW proxy \in Proxies, NEW impl \in Implementations, UpgradeToAndCall(proxy, impl)
       PROVE  DecidingStep
  <2>1. PICK id \in Ids : id = upgradeSlot[proxy]
    BY <1>12, CommitteeAssumption DEF UpgradeToAndCall, TypeOK
  <2>2. QED BY <1>12, <2>1 DEF UpgradeToAndCall, Execute, TakeAccept, DecidingStep
<1>13. ASSUME NEW target \in UpgradeTargets, NEW impl \in Implementations,
              VerifyContractUpgrade(target, impl)
       PROVE  DecidingStep
  <2>1. PICK id \in Ids : id = upgradeSlot[target]
    BY <1>13 DEF VerifyContractUpgrade, TypeOK
  <2>2. QED BY <1>13, <2>1 DEF VerifyContractUpgrade, DecidingStep
<1>14. QED
  BY <1>1, <1>2, <1>3, <1>4, <1>5, <1>6, <1>7, <1>8, <1>9, <1>10, <1>11, <1>12, <1>13
     DEF Next, VotingStep, BatchStep

-----------------------------------------------------------------------------
(* Snapshots of the committee *)

\* A list that repeats nobody counts everybody it names.
LEMMA CountOnce ==
    ASSUME NEW S, NEW s \in Seq(S), IsInjective(s)
    PROVE  IsFiniteSet(ToSet(s)) /\ Cardinality(ToSet(s)) = Len(s)
<1>1. s \in [1 .. Len(s) -> ToSet(s)] /\ Len(s) \in Nat /\ DOMAIN s = 1 .. Len(s)
  BY DEF ToSet
<1>2. s \in Bijection(1 .. Len(s), ToSet(s))
  BY <1>1 DEF Bijection, Injection, Surjection, ToSet
<1>3. ExistsBijection(1 .. Len(s), ToSet(s))
  BY <1>2 DEF ExistsBijection
<1>4. QED BY <1>1, <1>3, FS_NatBijection, FS_CountingElements

\* The snapshots stay, but for the first one that is made up for, or a new
\* committee is appended to them.
Grows ==
    \/ snapshots' \in {snapshots, EnsuredSnapshots} /\ committees' = committees
    \/ \E list \in Seq(Accounts), before \in {snapshots, EnsuredSnapshots} :
          /\ IsInjective(list) /\ committees' = list
          /\ snapshots' = Append(before, Snapshot(list))

LEMMA GrowsStep ==
    ASSUME TypeOK, SeatsOnce, [Next]_vars
    PROVE  Grows
<1>1. \A id \in Ids : SettledSnapshots(id) \in {snapshots, EnsuredSnapshots}
  BY DEF SettledSnapshots
<1>2. CASE NewStep
  BY <1>2 DEF NewStep, Create, Grows
<1>3. CASE VotingStep
  BY <1>3 DEF VotingStep, Support, Reject, CastVote, Grows
<1>4. CASE BatchStep
  BY <1>4 DEF BatchStep, EndFullPropose, seatVars, Grows
<1>5. CASE DecidingStep
  BY <1>1, <1>5 DEF DecidingStep, Seat, Recorded, Grows
<1>6. CASE RestStep
  BY <1>6 DEF RestStep, Grows
<1>7. QED BY <1>2, <1>3, <1>4, <1>5, <1>6, HistoryKinds

\* Each snapshot counts every seat once.
AllCountOnce(record) ==
    \A v \in DOMAIN record : record[v].size = Cardinality(record[v].members)

SeatsInv == SeatsOnce /\ SnapshotsFaithful

\* Snapshots ending with a committee's are right about it if they are right so far.
LEMMA RecordAppended ==
    ASSUME NEW record \in Seq(SnapshotRecord), AllCountOnce(record),
           NEW list \in Seq(Accounts), IsInjective(list)
    PROVE  /\ Append(record, Snapshot(list)) \in Seq(SnapshotRecord) \ {<<>>}
           /\ Len(Append(record, Snapshot(list))) = Len(record) + 1 /\ Len(record) \in Nat
           /\ \A v \in 1 .. Len(record) : Append(record, Snapshot(list))[v] = record[v]
           /\ AllCountOnce(Append(record, Snapshot(list)))
           /\ Last(Append(record, Snapshot(list))) = Snapshot(list)
<1>1. PICK new, grown : new = Snapshot(list) /\ grown = Append(record, new)
  OBVIOUS
<1>2. new \in SnapshotRecord
  BY <1>1, SnapshotType
<1>3. new.size = Cardinality(new.members)
  BY <1>1, CountOnce DEF Snapshot
<1>4. /\ Len(record) \in Nat /\ DOMAIN record = 1 .. Len(record)
      /\ grown \in Seq(SnapshotRecord) \ {<<>>} /\ Len(grown) = Len(record) + 1
      /\ DOMAIN grown = 1 .. Len(record) + 1 /\ grown[Len(record) + 1] = new
      /\ \A v \in 1 .. Len(record) : grown[v] = record[v]
  BY <1>1, <1>2
<1>5. AllCountOnce(grown)
  BY <1>3, <1>4 DEF AllCountOnce
<1>6. Last(grown) = new
  BY <1>4 DEF Last
<1>7. QED BY <1>1, <1>4, <1>5, <1>6

\* The snapshots there are once the first one is made up for.
LEMMA EnsuredFaithful ==
    ASSUME TypeOK, SeatsInv
    PROVE  /\ EnsuredSnapshots \in Seq(SnapshotRecord) \ {<<>>} /\ AllCountOnce(EnsuredSnapshots)
           /\ Last(EnsuredSnapshots) = Snapshot(committees)
<1>1. snapshots \in Seq(SnapshotRecord) /\ committees \in Seq(Accounts)
  BY DEF TypeOK, SnapshotRecord
<1>2. CASE snapshots = <<>>
  <2>1. <<>> \in Seq(SnapshotRecord) /\ AllCountOnce(<<>>)
    BY DEF AllCountOnce
  <2>2. EnsuredSnapshots = Append(<<>>, Snapshot(committees))
    BY <1>2 DEF EnsuredSnapshots
  <2>3. IsInjective(committees)
    BY DEF SeatsInv, SeatsOnce
  <2>4. PICK record : record = <<>>
    OBVIOUS
  <2>5. QED BY <1>1, <2>1, <2>2, <2>3, <2>4, RecordAppended
<1>3. CASE snapshots # <<>>
  BY <1>1, <1>3 DEF EnsuredSnapshots, SeatsInv, SnapshotsFaithful, AllCountOnce
<1>4. QED BY <1>2, <1>3

LEMMA SeatsStep ==
    ASSUME TypeOK, SeatsInv, [Next]_vars
    PROVE  SeatsInv'
<1>0. /\ snapshots \in Seq(SnapshotRecord) /\ AllCountOnce(snapshots)
      /\ snapshots # <<>> => Last(snapshots) = Snapshot(committees)
      /\ EnsuredSnapshots \in Seq(SnapshotRecord) /\ AllCountOnce(EnsuredSnapshots)
      /\ Last(EnsuredSnapshots) = Snapshot(committees)
  BY EnsuredFaithful DEF TypeOK, SnapshotRecord, SeatsInv, SnapshotsFaithful, AllCountOnce
<1>1. CASE snapshots' \in {snapshots, EnsuredSnapshots} /\ committees' = committees
  <2>1. AllCountOnce(snapshots') /\ (snapshots' # <<>> => Last(snapshots') = Snapshot(committees))
    BY <1>0, <1>1
  <2>2. Snapshot(committees)' = Snapshot(committees)
    BY <1>1 DEF Snapshot
  <2>3. QED BY <1>1, <2>1, <2>2 DEF SeatsInv, SeatsOnce, SnapshotsFaithful, AllCountOnce
<1>2. ASSUME NEW list \in Seq(Accounts), NEW before \in {snapshots, EnsuredSnapshots},
             IsInjective(list), committees' = list, snapshots' = Append(before, Snapshot(list))
      PROVE  SeatsInv'
  <2>1. before \in Seq(SnapshotRecord) /\ AllCountOnce(before)
    BY <1>0
  <2>2. AllCountOnce(snapshots') /\ Last(snapshots') = Snapshot(list)
    BY <1>2, <2>1, RecordAppended
  <2>3. Snapshot(committees)' = Snapshot(list)
    BY <1>2 DEF Snapshot
  <2>4. QED BY <1>2, <2>2, <2>3 DEF SeatsInv, SeatsOnce, SnapshotsFaithful, AllCountOnce
<1>3. QED BY <1>1, <1>2, GrowsStep DEF SeatsInv, Grows

LEMMA SeatsInit == ASSUME EitherInit PROVE SeatsInv
<1>1. InitialCommittee \in Seq(Accounts) /\ IsInjective(InitialCommittee)
  BY CommitteeAssumption, ListsOnce
<1>2. CASE Init
  <2>1. Cardinality(ToSet(InitialCommittee)) = Len(InitialCommittee)
    BY <1>1, CountOnce
  <2>2. snapshots = <<Snapshot(InitialCommittee)>> /\ committees = InitialCommittee
    BY <1>2 DEF Init
  <2>3. Snapshot(InitialCommittee).size = Cardinality(Snapshot(InitialCommittee).members)
    BY <2>1 DEF Snapshot
  <2> QED BY <1>1, <2>2, <2>3 DEF SeatsInv, SeatsOnce, SnapshotsFaithful, Last
<1>3. CASE LegacyInit
  BY <1>1, <1>3, LegacyStarts DEF SeatsInv, SeatsOnce, SnapshotsFaithful
<1> QED BY <1>2, <1>3 DEF EitherInit

LEMMA SeatsInvariant == LegacySpec => [](TypeOK /\ SeatsInv)
<1>1. EitherInit => TypeOK /\ SeatsInv
  BY InitType, LegacyType, SeatsInit DEF EitherInit
<1>2. TypeOK /\ SeatsInv /\ [Next]_vars => (TypeOK /\ SeatsInv)'
  BY NextType, SeatsStep
<1>3. QED BY <1>1, <1>2, PTL DEF LegacySpec

\* Whatever joins, removals and replacements were executed in whatever order, the
\* newest snapshot is the live committee, and each counts people and not entries.
THEOREM SnapshotsStayFaithful == LegacySpec => []SnapshotsFaithful
<1>1. SeatsInv => SnapshotsFaithful
  BY DEF SeatsInv
<1>2. QED BY <1>1, SeatsInvariant, PTL

-----------------------------------------------------------------------------
(* What a step may do to a proposal *)

\* The settlement and the execution of a proposal, field by field.
LEMMA SettledFields ==
    ASSUME TypeOK, NEW id \in Ids
    PROVE  /\ Settled(id).support = proposals[id].support
           /\ Settled(id).reject = proposals[id].reject
           /\ Settled(id).expired = proposals[id].expired
           /\ Settled(id).version =
                 IF State(id) = "InProgress" THEN BoundVersion(id) ELSE proposals[id].version
           /\ Settled(id).state = IF State(id) = "InProgress" THEN Outcome(id) ELSE State(id)
           /\ Executed(id) = [Settled(id) EXCEPT !.state = "Executed"]
           /\ Executed(id).support = proposals[id].support
           /\ Executed(id).reject = proposals[id].reject
           /\ Executed(id).expired = proposals[id].expired
           /\ Executed(id).version = Settled(id).version
           /\ Executed(id).state = "Executed"
<1>2. proposals[id] \in Proposal
  BY DEF TypeOK, Proposal
<1>3. Bound(id) \in Proposal /\ Settled(id) \in Proposal
  BY SettledType
<1>4. /\ Bound(id).support = proposals[id].support /\ Bound(id).reject = proposals[id].reject
      /\ Bound(id).expired = proposals[id].expired /\ Bound(id).version = BoundVersion(id)
  BY <1>2 DEF Bound, Proposal
<1>5. /\ Settled(id).support = proposals[id].support
      /\ Settled(id).reject = proposals[id].reject
      /\ Settled(id).expired = proposals[id].expired
      /\ Settled(id).version =
            IF State(id) = "InProgress" THEN BoundVersion(id) ELSE proposals[id].version
      /\ Settled(id).state = IF State(id) = "InProgress" THEN Outcome(id) ELSE State(id)
  BY <1>2, <1>3, <1>4 DEF Settled, State, Proposal
<1>6. Executed(id) = [Settled(id) EXCEPT !.state = "Executed"]
  BY DEF Executed
<1>7. /\ Executed(id).support = Settled(id).support /\ Executed(id).reject = Settled(id).reject
      /\ Executed(id).expired = Settled(id).expired /\ Executed(id).version = Settled(id).version
      /\ Executed(id).state = "Executed"
  BY <1>3, <1>6 DEF Proposal
<1>8. QED BY <1>5, <1>6, <1>7

\* The ballot a voter leaves, field by field.
Balloted(id, a) == {[Ballot(id) EXCEPT !.support = Append(@, a)],
                    [Ballot(id) EXCEPT !.reject = Append(@, a)]}

LEMMA BallotFields ==
    ASSUME TypeOK, NEW id \in Ids, NEW a \in Accounts, NEW b \in Balloted(id, a)
    PROVE  /\ b.state = State(id) /\ b.expired = proposals[id].expired
           /\ b.version = IF IsOrdinary(id) THEN BoundVersion(id) ELSE proposals[id].version
<1>1. proposals[id] \in Proposal /\ Bound(id) \in Proposal
  BY SettledType DEF TypeOK, Proposal
<1>2. /\ Ballot(id) \in Proposal /\ Ballot(id).state = State(id)
      /\ Ballot(id).expired = proposals[id].expired
      /\ Ballot(id).version = IF IsOrdinary(id) THEN BoundVersion(id) ELSE proposals[id].version
  BY <1>1 DEF Ballot, Bound, State, Proposal
<1> HIDE DEF Ballot
<1>3. QED BY <1>2 DEF Balloted, Proposal

\* Proposals are changed one at a time.  What the change keeps, for every kind of
\* step: a proposal stays what it is, of the same expiry, and keeps the version
\* of the committee it is bound to, or is bound to one that is on record.
Fate(id) ==
    /\ Created(id)'
    /\ proposals'[id].expired = proposals[id].expired
    /\ \/ proposals'[id].version = proposals[id].version
       \/ proposals'[id].version = BoundVersion(id) /\ snapshots' # <<>>
    /\ extras'[id].full = extras[id].full

\* A new proposal is in progress, bound to the newest snapshot if it is ordinary.
Birth(id) ==
    /\ id = curProposalId /\ curProposalId' = id + 1
    /\ proposals'[id].state = "InProgress"
    /\ proposals'[id].support = <<>> /\ proposals'[id].reject = <<>>
    /\ extras'[id] \in Extras
    /\ \/ extras'[id].full /\ proposals'[id].version = 0
       \/ /\ ~ extras'[id].full /\ proposals'[id].version = Len(EnsuredSnapshots)
          /\ snapshots' = EnsuredSnapshots /\ committees' = committees

\* The record of snapshots is never empty once the first one is made up for.
LEMMA EnsuredSome == ASSUME TypeOK PROVE Len(EnsuredSnapshots) \in Nat \ {0}
<1>1. snapshots \in Seq(SnapshotRecord)
  BY DEF TypeOK, SnapshotRecord
<1>2. QED BY <1>1 DEF EnsuredSnapshots

LEMMA NewFate ==
    ASSUME TypeOK, ExtrasShaped, Fresh, NewStep
    PROVE  /\ curProposalId \in Ids /\ Birth(curProposalId) /\ ~ Created(curProposalId)
           /\ \A id \in Ids \ {curProposalId} :
                 proposals'[id] = proposals[id] /\ extras'[id] = extras[id]
           /\ UNCHANGED <<votes, now>>
<1>1. PICK from \in Senders, d \in Nat, params \in Params, extra \in Extras :
         Create(from, d, params, extra)
  BY DEF NewStep
<1>2. curProposalId \in Ids
  BY <1>1, CreateType
<1>3. proposals \in [Ids -> Proposal] /\ DOMAIN extras = Ids
  BY DEF TypeOK, Proposal
<1>4. /\ committees' = committees
      /\ snapshots' = IF extra.full THEN snapshots ELSE EnsuredSnapshots
  BY <1>1 DEF Create
<1>5. /\ extras'[curProposalId] = extra /\ curProposalId' = curProposalId + 1
      /\ \A id \in Ids \ {curProposalId} : extras'[id] = extras[id]
      /\ UNCHANGED <<votes, now>>
  BY <1>1, <1>2, <1>3 DEF Create
<1>6. /\ proposals'[curProposalId] =
            [from |-> from, expired |-> now + d, support |-> <<>>, reject |-> <<>>,
             state |-> "InProgress", params |-> params,
             version |-> IF extra.full THEN 0 ELSE VersionForNew]
      /\ \A id \in Ids \ {curProposalId} : proposals'[id] = proposals[id]
  BY <1>1, <1>2, <1>3 DEF Create
<1>7. Birth(curProposalId)
  BY <1>4, <1>5, <1>6 DEF Birth, VersionForNew
<1>8. ~ Created(curProposalId)
  BY <1>2 DEF Fresh, Ids
<1>9. QED BY <1>2, <1>5, <1>6, <1>7, <1>8

LEMMA VotingFate ==
    ASSUME TypeOK, VotingStep
    PROVE  \E id \in Ids, a \in Accounts :
              /\ State(id) = "InProgress" /\ votes[id][a] = 0 /\ Fate(id)
              /\ proposals'[id] \in Balloted(id, a) /\ State(id)' = State(id)
              /\ \E v \in {1, -1} :
                    /\ votes' = [votes EXCEPT ![id][a] = v]
                    /\ proposals'[id] = IF v = 1
                                        THEN [Ballot(id) EXCEPT !.support = Append(@, a)]
                                        ELSE [Ballot(id) EXCEPT !.reject = Append(@, a)]
              /\ \A i \in Ids \ {id} : proposals'[i] = proposals[i] /\ votes'[i] = votes[i]
              /\ UNCHANGED <<curProposalId, extras, now>>
<1>1. PICK id \in Ids, a \in Accounts : Support(id, a) \/ Reject(id, a)
  BY DEF VotingStep
<1>2. proposals \in [Ids -> Proposal] /\ votes \in [Ids -> [Accounts -> {0, 1, -1, 2}]]
  BY DEF TypeOK, Proposal
<1>3. PICK v \in {1, -1} :
         /\ votes' = [votes EXCEPT ![id][a] = v]
         /\ proposals' = [proposals EXCEPT ![id] =
                IF v = 1 THEN [Ballot(id) EXCEPT !.support = Append(@, a)]
                         ELSE [Ballot(id) EXCEPT !.reject = Append(@, a)]]
  BY <1>1 DEF Support, Reject, CastVote
<1>4. /\ State(id) = "InProgress" /\ votes[id][a] = 0
      /\ UNCHANGED <<curProposalId, extras, now>>
  BY <1>1 DEF Support, Reject, CastVote, VotingOpen, NotVoted
<1>5. proposals'[id] = IF v = 1 THEN [Ballot(id) EXCEPT !.support = Append(@, a)]
                                ELSE [Ballot(id) EXCEPT !.reject = Append(@, a)]
  BY <1>2, <1>3
<1>6. proposals'[id] \in Balloted(id, a)
  BY <1>5 DEF Balloted
<1>7. \A i \in Ids \ {id} : proposals'[i] = proposals[i] /\ votes'[i] = votes[i]
  BY <1>2, <1>3
<1>8. IsOrdinary(id) => snapshots' = EnsuredSnapshots /\ EnsuredSnapshots # <<>>
  BY <1>1, EnsuredSome DEF Support, Reject, CastVote, EnsuredSnapshots
<1>10. State(id)' = State(id) /\ Fate(id)
  BY <1>4, <1>6, <1>8, BallotFields DEF Fate, Created, State
<1>9. QED BY <1>3, <1>4, <1>5, <1>6, <1>7, <1>10

LEMMA BatchFate ==
    ASSUME TypeOK, ExtrasShaped, BatchStep
    PROVE  \E id \in Ids :
              /\ State(id) = "InProgress" /\ extras[id].full /\ Fate(id)
              /\ proposals'[id].support = proposals[id].support
              /\ proposals'[id].reject = proposals[id].reject
              /\ \A i \in Ids \ {id} : /\ proposals'[i] = proposals[i] /\ votes'[i] = votes[i]
                                       /\ extras'[i] = extras[i]
              /\ DOMAIN extras'[id] = DOMAIN NoExtra
              /\ UNCHANGED <<curProposalId, now>>
<1>1. PICK id \in Ids, batch \in SUBSET Accounts : EndFullPropose(id, batch)
  BY DEF BatchStep
<1> DEFINE counted == {a \in batch : votes[id][a] \in {1, -1}}
<1>2. /\ proposals \in [Ids -> Proposal] /\ votes \in [Ids -> [Accounts -> {0, 1, -1, 2}]]
      /\ DOMAIN extras = Ids /\ proposals[id] \in Proposal
  BY DEF TypeOK, Proposal
<1>3. /\ State(id) = "InProgress" /\ extras[id].full /\ UNCHANGED <<curProposalId, now>>
  BY <1>1 DEF EndFullPropose
<1>4. PICK agree, reject, settled, total :
         extras' = [extras EXCEPT ![id] = [extras[id] EXCEPT
            !.agree = agree, !.reject = reject, !.settled = settled, !.total = total]]
  BY <1>1 DEF EndFullPropose
<1>5. "full" \in DOMAIN extras[id] /\ DOMAIN extras[id] = DOMAIN NoExtra
  BY DEF ExtrasShaped, NoExtra
<1>6. /\ extras'[id].full = extras[id].full /\ DOMAIN extras'[id] = DOMAIN NoExtra
      /\ \A i \in Ids \ {id} : extras'[i] = extras[i]
  BY <1>2, <1>4, <1>5
<1>7. \A i \in Ids \ {id} : votes'[i] = votes[i]
  <2>1. votes' = CountedMark(id, counted)
    BY <1>1 DEF EndFullPropose
  <2>2. QED BY <1>2, <2>1 DEF CountedMark
<1>8. PICK state \in States : proposals' \in {proposals,
                  [proposals EXCEPT ![id] = [proposals[id] EXCEPT !.state = state]]}
                  /\ state # "NotFound"
  <2>1. PICK tally : proposals' = IF AllCounted(id, tally.settled)
                                 THEN [proposals EXCEPT ![id].state = FullOutcome(tally)]
                                 ELSE proposals
    BY <1>1 DEF EndFullPropose
  <2>2. FullOutcome(tally) \in States /\ FullOutcome(tally) # "NotFound"
    BY DEF FullOutcome, States
  <2>3. QED BY <2>1, <2>2
<1> DEFINE p == [proposals[id] EXCEPT !.state = state]
<1>9. /\ p.state = state /\ p.support = proposals[id].support /\ p.reject = proposals[id].reject
      /\ p.expired = proposals[id].expired /\ p.version = proposals[id].version
  BY <1>2 DEF Proposal
<1>10. proposals'[id] \in {proposals[id], p} /\ \A i \in Ids \ {id} : proposals'[i] = proposals[i]
  BY <1>2, <1>8
<1> HIDE DEF p
<1>11. Fate(id)
  BY <1>3, <1>6, <1>8, <1>9, <1>10 DEF Fate, Created, State
<1>12. QED BY <1>3, <1>6, <1>7, <1>9, <1>10, <1>11

LEMMA DecidingFate ==
    ASSUME TypeOK, DecidingStep
    PROVE  \E id \in Ids :
              /\ Created(id) => Fate(id)
              /\ proposals'[id] \in {Settled(id), Executed(id)}
              /\ proposals'[id] = Settled(id) \/ Settled(id).state = "Accepted"
              /\ \A i \in Ids \ {id} : proposals'[i] = proposals[i]
              /\ UNCHANGED <<curProposalId, now, extras, votes>>
              /\ CanSettle(id) \/ \E t \in UpgradeTargets : upgradeSlot[t] = id
              /\ State(id) = "InProgress" =>
                    /\ snapshots' # <<>>
                    /\ \A v \in 1 .. Len(EnsuredSnapshots) : snapshots'[v] = EnsuredSnapshots[v]
<1>1. PICK id \in Ids :
         /\ CanSettle(id) \/ \E t \in UpgradeTargets : upgradeSlot[t] = id
         /\ \/ proposals' = [proposals EXCEPT ![id] = Settled(id)]
            \/ /\ Settled(id).state = "Accepted"
               /\ proposals' = [proposals EXCEPT ![id] = Executed(id)]
         /\ \/ snapshots' = SettledSnapshots(id)
            \/ \E list \in Seq(Accounts) : snapshots' = Append(SettledSnapshots(id), Snapshot(list))
  BY DEF DecidingStep, Seat, Recorded
<1>2. proposals \in [Ids -> Proposal] /\ UNCHANGED <<curProposalId, now, extras, votes>>
  BY DEF TypeOK, Proposal, DecidingStep
<1>3. /\ \A i \in Ids \ {id} : proposals'[i] = proposals[i]
      /\ \/ proposals'[id] = Settled(id)
         \/ proposals'[id] = Executed(id) /\ Settled(id).state = "Accepted"
  BY <1>1, <1>2
<1>4. Outcome(id) # "NotFound"
  BY DEF Outcome
<1>5. ASSUME State(id) = "InProgress"
      PROVE  /\ snapshots' # <<>>
             /\ \A v \in 1 .. Len(EnsuredSnapshots) : snapshots'[v] = EnsuredSnapshots[v]
  <2>1. PICK ensured : ensured = EnsuredSnapshots
    OBVIOUS
  <2>2. ensured \in Seq(SnapshotRecord) /\ ensured # <<>>
    <3>1. snapshots \in Seq(SnapshotRecord) /\ Snapshot(committees) \in SnapshotRecord
      BY SnapshotType DEF TypeOK, SnapshotRecord
    <3>2. QED BY <2>1, <3>1 DEF EnsuredSnapshots
  <2>3. snapshots' = ensured \/ \E list \in Seq(Accounts) : snapshots' = Append(ensured, Snapshot(list))
    BY <1>1, <1>5, <2>1 DEF SettledSnapshots
  <2>4. snapshots' = ensured \/ \E s \in SnapshotRecord : snapshots' = Append(ensured, s)
    BY <2>3, SnapshotType
  <2>5. snapshots' # <<>> /\ \A v \in 1 .. Len(ensured) : snapshots'[v] = ensured[v]
    BY <2>2, <2>4
  <2>6. QED BY <2>1, <2>5
<1>6. Created(id) => Fate(id)
  BY <1>2, <1>3, <1>4, <1>5, SettledFields DEF Fate, Created, State
<1>7. QED BY <1>1, <1>2, <1>3, <1>5, <1>6

-----------------------------------------------------------------------------
(* Electorates *)

BookInv == ExtrasShaped /\ Fresh /\ Versioned

LEMMA EachFate ==
    ASSUME TypeOK, SeatsOnce, BookInv, [Next]_vars, NEW id \in Ids, Created(id)
    PROVE  Fate(id)
<1> USE DEF BookInv
<1>1. CASE NewStep
  BY <1>1, NewFate DEF Fate, Created, State
<1>2. CASE VotingStep
  BY <1>2, VotingFate DEF Fate, Created, State
<1>3. CASE BatchStep
  BY <1>3, BatchFate DEF Fate, Created, State
<1>4. CASE DecidingStep
  BY <1>4, DecidingFate DEF Fate, Created, State
<1>5. CASE RestStep
  BY <1>5 DEF RestStep, Fate, Created, State
<1>6. QED BY <1>1, <1>2, <1>3, <1>4, <1>5, HistoryKinds

\* What is not created stays so, or is born.
LEMMA EachBirth ==
    ASSUME TypeOK, SeatsOnce, BookInv, [Next]_vars, NEW id \in Ids, ~ Created(id)
    PROVE  /\ votes'[id] = votes[id]
           /\ \/ Birth(id)
              \/ /\ ~ Created(id)' /\ proposals'[id].version = proposals[id].version
                 /\ extras'[id] = extras[id]
<1> USE DEF BookInv
<1>1. CASE NewStep
  BY <1>1, NewFate DEF Created, State
<1>2. CASE VotingStep
  BY <1>2, VotingFate DEF Created, State
<1>3. CASE BatchStep
  BY <1>3, BatchFate DEF Created, State
<1>4. CASE DecidingStep
  BY <1>4, DecidingFate, SettledFields DEF Created, State
<1>5. CASE RestStep
  BY <1>5 DEF RestStep, Created, State
<1>6. QED BY <1>1, <1>2, <1>3, <1>4, <1>5, HistoryKinds

LEMMA CounterGrows ==
    ASSUME TypeOK, SeatsOnce, BookInv, [Next]_vars
    PROVE  curProposalId' >= curProposalId
<1> USE DEF BookInv
<1>0. curProposalId \in Nat
  BY BoundsAssumption DEF TypeOK
<1>1. CASE NewStep
  BY <1>0, <1>1, NewFate DEF Birth
<1>2. CASE VotingStep
  <2>1. curProposalId' = curProposalId
    BY <1>2, VotingFate
  <2>2. QED BY <1>0, <2>1
<1>3. CASE BatchStep
  <2>1. curProposalId' = curProposalId
    BY <1>3, BatchFate
  <2>2. QED BY <1>0, <2>1
<1>4. CASE DecidingStep
  <2>1. curProposalId' = curProposalId
    BY <1>4, DecidingFate
  <2>2. QED BY <1>0, <2>1
<1>5. CASE RestStep
  BY <1>0, <1>5 DEF RestStep
<1>6. QED BY <1>1, <1>2, <1>3, <1>4, <1>5, HistoryKinds

LEMMA ShapeStep ==
    ASSUME TypeOK, SeatsOnce, BookInv, [Next]_vars
    PROVE  ExtrasShaped'
<1> USE DEF BookInv
<1>1. CASE NewStep
  <2>1. \A e \in Extras : DOMAIN e = DOMAIN NoExtra
    BY DEF Extras, NoExtra
  <2>2. QED BY <1>1, <2>1, NewFate DEF ExtrasShaped, Birth
<1>2. CASE VotingStep
  BY <1>2, VotingFate DEF ExtrasShaped
<1>3. CASE BatchStep
  BY <1>3, BatchFate DEF ExtrasShaped
<1>4. CASE DecidingStep
  BY <1>4, DecidingFate DEF ExtrasShaped
<1>5. CASE RestStep
  BY <1>5 DEF RestStep, ExtrasShaped
<1>6. QED BY <1>1, <1>2, <1>3, <1>4, <1>5, HistoryKinds

\* Snapshots on record stay as they are, and once there are any the one made up
\* for is among them.
LEMMA GrowsKeeps ==
    ASSUME TypeOK, Grows
    PROVE  /\ Len(snapshots) \in Nat /\ Len(snapshots') \in Nat
           /\ Len(snapshots) <= Len(snapshots')
           /\ snapshots # <<>> => snapshots' # <<>>
           /\ snapshots' # <<>> => Len(EnsuredSnapshots) <= Len(snapshots')
           /\ \A v \in 1 .. Len(snapshots) : snapshots'[v] = snapshots[v]
<1>1. snapshots \in Seq(SnapshotRecord) /\ Snapshot(committees) \in SnapshotRecord
  BY SnapshotType DEF TypeOK, SnapshotRecord
<1>2. PICK ensured : ensured = EnsuredSnapshots
  OBVIOUS
<1>3. ensured = IF snapshots = <<>> THEN <<Snapshot(committees)>> ELSE snapshots
  BY <1>2 DEF EnsuredSnapshots
<1>4. ensured \in Seq(SnapshotRecord) /\ Len(snapshots) <= Len(ensured)
      /\ (snapshots = <<>> => Len(ensured) = 1) /\ (snapshots # <<>> => ensured = snapshots)
  BY <1>1, <1>3
<1>5. CASE snapshots' \in {snapshots, ensured}
  BY <1>1, <1>2, <1>4, <1>5
<1>6. ASSUME NEW s \in SnapshotRecord, NEW before \in {snapshots, ensured},
             snapshots' = Append(before, s)
      PROVE  /\ Len(snapshots) \in Nat /\ Len(snapshots') \in Nat
             /\ Len(snapshots) <= Len(snapshots') /\ snapshots' # <<>>
             /\ Len(ensured) <= Len(snapshots')
             /\ \A v \in 1 .. Len(snapshots) : snapshots'[v] = snapshots[v]
  <2>1. before \in Seq(SnapshotRecord) /\ Len(snapshots) <= Len(before)
        /\ Len(ensured) <= Len(before) + 1
        /\ \A v \in 1 .. Len(snapshots) : before[v] = snapshots[v]
    BY <1>1, <1>4, <1>6
  <2>2. Len(snapshots') = Len(before) + 1 /\ \A v \in 1 .. Len(before) : snapshots'[v] = before[v]
    BY <1>6, <2>1
  <2>3. Len(snapshots) \in Nat /\ Len(before) \in Nat /\ Len(ensured) \in Nat
    BY <1>1, <1>4, <2>1
  <2>4. QED BY <1>6, <2>1, <2>2, <2>3
<1>7. QED BY <1>2, <1>5, <1>6, SnapshotType DEF Grows

LEMMA BoundOnRecord ==
    ASSUME TypeOK, Versioned, NEW id \in Ids
    PROVE  /\ BoundVersion(id) \in 1 .. Len(EnsuredSnapshots)
           /\ proposals[id].version # 0 => /\ BoundVersion(id) = proposals[id].version
                                           /\ proposals[id].version \in 1 .. Len(snapshots)
                                           /\ EnsuredSnapshots = snapshots
<1>1. Len(EnsuredSnapshots) \in Nat \ {0}
  BY EnsuredSome
<1>2. proposals[id].version \in 0 .. Len(snapshots) /\ Len(snapshots) \in Nat
  BY DEF Versioned, TypeOK
<1>3. ASSUME proposals[id].version # 0
      PROVE  proposals[id].version \in 1 .. Len(snapshots) /\ EnsuredSnapshots = snapshots
  <2>1. Len(snapshots) # 0 /\ proposals[id].version \in 1 .. Len(snapshots)
    BY <1>2, <1>3
  <2>2. snapshots # <<>>
    BY <2>1
  <2>3. QED BY <2>1, <2>2 DEF EnsuredSnapshots
<1>4. QED BY <1>1, <1>2, <1>3 DEF BoundVersion

LEMMA BookStep ==
    ASSUME TypeOK, SeatsOnce, BookInv, [Next]_vars
    PROVE  BookInv'
<1>1. Grows /\ Len(EnsuredSnapshots) \in Nat \ {0}
  BY GrowsStep, EnsuredSome
<1>2. /\ Len(snapshots) \in Nat /\ Len(snapshots') \in Nat
      /\ Len(snapshots) <= Len(snapshots')
      /\ snapshots' # <<>> => Len(EnsuredSnapshots) <= Len(snapshots')
  BY <1>1, GrowsKeeps
<1>3. curProposalId \in Nat /\ curProposalId' \in Nat /\ curProposalId <= curProposalId'
  BY CounterGrows, NextType, BoundsAssumption DEF TypeOK
<1>4. ASSUME NEW id \in Ids, Created(id)
      PROVE  /\ id < curProposalId' /\ Created(id)'
             /\ proposals'[id].version \in 0 .. Len(snapshots')
  <2>1. Fate(id) /\ BoundVersion(id) \in 1 .. Len(EnsuredSnapshots)
    BY <1>4, EachFate, BoundOnRecord DEF BookInv
  <2>2. id < curProposalId /\ id \in Nat
    BY <1>4 DEF BookInv, Fresh, Ids
  <2>3. proposals[id].version \in 0 .. Len(snapshots)
    BY DEF BookInv, Versioned
  <2>4. CASE proposals'[id].version = proposals[id].version
    BY <1>2, <1>3, <2>1, <2>2, <2>3, <2>4 DEF Fate
  <2>5. CASE proposals'[id].version = BoundVersion(id) /\ snapshots' # <<>>
    BY <1>1, <1>2, <1>3, <2>1, <2>2, <2>5 DEF Fate
  <2>6. QED BY <2>1, <2>4, <2>5 DEF Fate
<1>5. ASSUME NEW id \in Ids, ~ Created(id)
      PROVE  /\ Created(id)' => id < curProposalId'
             /\ votes'[id] = [a \in Accounts |-> 0]
             /\ proposals'[id].version \in 0 .. Len(snapshots')
  <2>1. votes[id] = [a \in Accounts |-> 0] /\ proposals[id].version \in 0 .. Len(snapshots)
    BY <1>5 DEF BookInv, Fresh, Versioned
  <2>2. votes'[id] = votes[id]
    BY <1>5, EachBirth
  <2>3. CASE Birth(id)
    BY <1>1, <1>2, <2>1, <2>2, <2>3 DEF Birth, Ids
  <2>4. CASE ~ Created(id)' /\ proposals'[id].version = proposals[id].version
    BY <1>2, <2>1, <2>2, <2>4
  <2>5. QED BY <1>5, <2>3, <2>4, EachBirth
<1>6. Fresh'
  BY <1>4, <1>5 DEF Fresh
<1>7. Versioned'
  BY <1>4, <1>5 DEF Versioned
<1>8. QED BY <1>6, <1>7, ShapeStep DEF BookInv

LEMMA BookInit == ASSUME EitherInit PROVE BookInv
<1>1. CASE Init
  <2>1. snapshots = <<Snapshot(InitialCommittee)>> /\ Len(snapshots) = 1
    BY <1>1 DEF Init
  <2>2. \A id \in Ids : State(id) = "NotFound" /\ proposals[id].version = 0
    BY <1>1 DEF Init, NoProposal, State
  <2>3. \A id \in Ids : DOMAIN extras[id] = DOMAIN NoExtra /\ votes[id] = [a \in Accounts |-> 0]
    BY <1>1 DEF Init
  <2> QED BY <2>1, <2>2, <2>3 DEF BookInv, ExtrasShaped, Fresh, Versioned, Created
<1>2. CASE LegacyInit
  <2>1. snapshots = <<>> /\ Len(snapshots) = 0 /\ extras = [id \in Ids |-> NoExtra]
    BY <1>2, LegacyStarts
  <2> QED BY <1>2, <2>1, LegacyKinds DEF BookInv, ExtrasShaped, Fresh, Versioned, Created
<1> QED BY <1>1, <1>2 DEF EitherInit

LEMMA BookInvariant == LegacySpec => [](TypeOK /\ SeatsInv /\ BookInv)
<1>1. EitherInit => BookInv
  BY BookInit
<1>2. TypeOK /\ SeatsInv /\ BookInv /\ [Next]_vars => BookInv'
  BY BookStep DEF SeatsInv
<1>3. QED BY <1>1, <1>2, SeatsInvariant, PTL DEF LegacySpec

LEMMA ElectorateKept ==
    ASSUME TypeOK, SeatsOnce, BookInv, [Next]_vars, NEW id \in Ids, Created(id),
           proposals[id].version # 0
    PROVE  Electorate(id)' = Electorate(id) /\ proposals'[id].version = proposals[id].version
<1>1. Fate(id) /\ Grows
  BY EachFate, GrowsStep
<1>2. /\ BoundVersion(id) = proposals[id].version /\ EnsuredSnapshots = snapshots
      /\ proposals[id].version \in 1 .. Len(snapshots) /\ Len(snapshots) \in Nat
  BY <1>1, BoundOnRecord, GrowsKeeps DEF BookInv
<1>3. proposals'[id].version = proposals[id].version
  BY <1>1, <1>2 DEF Fate
<1>4. snapshots # <<>>
  BY <1>2
<1>5. snapshots' # <<>> /\ snapshots'[proposals[id].version] = snapshots[proposals[id].version]
  BY <1>1, <1>2, <1>4, GrowsKeeps
<1>6. BoundVersion(id)' = proposals[id].version /\ EnsuredSnapshots' = snapshots'
  BY <1>2, <1>3, <1>5 DEF BoundVersion, EnsuredSnapshots
<1>7. QED BY <1>2, <1>3, <1>5, <1>6 DEF Electorate

\* The people who decide a proposal are those it was created for, for ever:
\* _recordCommitteeSnapshot appends, and _ensureProposalCommitteeVersion binds once.
THEOREM ElectorateStaysFixed == LegacySpec => ElectorateFixed
<1>1. TypeOK /\ SeatsInv /\ BookInv /\ [Next]_vars =>
        [\A id \in Ids : IsOrdinary(id) /\ Created(id) /\ proposals[id].version # 0 =>
            Electorate(id)' = Electorate(id)]_vars
  BY ElectorateKept DEF SeatsInv
<1>2. QED BY <1>1, BookInvariant, PTL DEF LegacySpec, ElectorateFixed

\* A proposal is bound to the snapshot of the moment it is created in, which is
\* the live committee.
THEOREM ElectorateStartsAsCommittee == LegacySpec => ElectorateIsCommitteeAtCreation
<1>1. ASSUME TypeOK, SeatsInv, BookInv, [Next]_vars, NEW id \in Ids,
             ~ Created(id), Created(id)', IsOrdinary(id)'
      PROVE  Electorate(id).members' = ToSet(committees)
  <2>1. Birth(id) /\ ~ extras'[id].full
    BY <1>1, EachBirth DEF SeatsInv, IsOrdinary
  <2>2. proposals'[id].version = Len(EnsuredSnapshots) /\ snapshots' = EnsuredSnapshots
    BY <2>1 DEF Birth
  <2>3. /\ Len(EnsuredSnapshots) \in Nat \ {0} /\ EnsuredSnapshots # <<>>
        /\ EnsuredSnapshots[Len(EnsuredSnapshots)] = Snapshot(committees)
    BY <1>1, EnsuredSome, EnsuredFaithful DEF Last
  <2>4. BoundVersion(id)' = Len(EnsuredSnapshots) /\ EnsuredSnapshots' = snapshots'
    BY <2>2, <2>3 DEF BoundVersion, EnsuredSnapshots
  <2>6. Electorate(id)' = Snapshot(committees)
    BY <2>2, <2>3, <2>4 DEF Electorate
  <2>7. QED BY <2>6 DEF Snapshot
<1>2. TypeOK /\ SeatsInv /\ BookInv /\ [Next]_vars =>
        [\A id \in Ids : ~ Created(id) /\ Created(id)' /\ IsOrdinary(id)' =>
            Electorate(id).members' = ToSet(committees)]_vars
  BY <1>1
<1>3. QED BY <1>2, BookInvariant, PTL DEF LegacySpec, ElectorateIsCommitteeAtCreation

-----------------------------------------------------------------------------
(* Decisions *)

Decided(id) == State(id) \in {"Accepted", "Rejected", "Expired", "Executed"}

Final(id) ==
    /\ State(id)' \in IF State(id) = "Accepted" THEN {"Accepted", "Executed"} ELSE {State(id)}
    /\ votes[id]' = votes[id] /\ extras[id]' = extras[id]
    /\ Voters(id)' = Voters(id)

LEMMA DecidedStays ==
    ASSUME TypeOK, SeatsOnce, BookInv, [Next]_vars, NEW id \in Ids, Decided(id)
    PROVE  Final(id)
<1> USE DEF BookInv
<1>0. Created(id) /\ State(id) # "InProgress"
  BY DEF Decided, Created
<1>1. CASE NewStep
  BY <1>0, <1>1, NewFate DEF Final, Voters, State
<1>2. CASE VotingStep
  BY <1>0, <1>2, VotingFate DEF Final, Voters, State
<1>3. CASE BatchStep
  BY <1>0, <1>3, BatchFate DEF Final, Voters, State
<1>4. CASE DecidingStep
  <2>1. PICK j \in Ids :
           /\ proposals'[j] \in {Settled(j), Executed(j)}
           /\ proposals'[j] = Settled(j) \/ Settled(j).state = "Accepted"
           /\ \A i \in Ids \ {j} : proposals'[i] = proposals[i]
           /\ UNCHANGED <<extras, votes>>
    BY <1>4, DecidingFate
  <2>2. CASE id = j
    <3>1. Settled(id).state = State(id)
      BY <1>0, SettledFields
    <3>2. /\ proposals'[id].support = proposals[id].support
          /\ proposals'[id].reject = proposals[id].reject
      BY <2>1, <2>2, SettledFields
    <3>3. \/ proposals'[id].state = State(id)
          \/ State(id) = "Accepted" /\ proposals'[id].state = "Executed"
      BY <2>1, <2>2, <3>1, SettledFields
    <3>4. QED BY <2>1, <3>2, <3>3 DEF Final, Voters, State
  <2>3. CASE id # j
    BY <2>1, <2>3 DEF Final, Voters, State
  <2>4. QED BY <2>2, <2>3
<1>5. CASE RestStep
  BY <1>5 DEF RestStep, Final, Voters, State
<1>6. QED BY <1>1, <1>2, <1>3, <1>4, <1>5, HistoryKinds

\* No vote, batch, settlement or execution touches a proposal once it is decided,
\* but for the mark that an accepted one was executed.
THEOREM DecisionsStayFinal == LegacySpec => DecisionsFinal
<1>1. TypeOK /\ SeatsInv /\ BookInv /\ [Next]_vars =>
        [\A id \in Ids :
          /\ State(id) \in {"Accepted", "Rejected", "Expired", "Executed"} =>
                /\ State(id)' \in IF State(id) = "Accepted" THEN {"Accepted", "Executed"}
                                                             ELSE {State(id)}
                /\ votes[id]' = votes[id] /\ extras[id]' = extras[id]
                /\ Voters(id)' = Voters(id)]_vars
  BY DecidedStays DEF SeatsInv, Decided, Final
<1>2. QED BY <1>1, BookInvariant, PTL DEF LegacySpec, DecisionsFinal

-----------------------------------------------------------------------------
(* Ballots *)

\* The lists of a proposal name who voted for it and against it.
Listed(id) ==
    /\ IsInjective(proposals[id].support) /\ IsInjective(proposals[id].reject)
    /\ ToSet(proposals[id].support) = {a \in Accounts : votes[id][a] = 1}
    /\ ToSet(proposals[id].reject) = {a \in Accounts : votes[id][a] = -1}

LEMMA BallotLists ==
    ASSUME TypeOK, NEW id \in Ids, NEW a \in Accounts
    PROVE  /\ [Ballot(id) EXCEPT !.support = Append(@, a)].support
                = Append(proposals[id].support, a)
           /\ [Ballot(id) EXCEPT !.support = Append(@, a)].reject = proposals[id].reject
           /\ [Ballot(id) EXCEPT !.reject = Append(@, a)].support = proposals[id].support
           /\ [Ballot(id) EXCEPT !.reject = Append(@, a)].reject
                = Append(proposals[id].reject, a)
<1>1. proposals[id] \in Proposal /\ Bound(id) \in Proposal
  BY SettledType DEF TypeOK, Proposal
<1>2. /\ Ballot(id) \in Proposal /\ Ballot(id).support = proposals[id].support
      /\ Ballot(id).reject = proposals[id].reject
  BY <1>1 DEF Ballot, Bound, Proposal
<1> HIDE DEF Ballot
<1>3. QED BY <1>2 DEF Proposal

LEMMA AppendNames ==
    ASSUME NEW S, NEW s \in Seq(S), NEW e \in S
    PROVE  ToSet(Append(s, e)) = ToSet(s) \cup {e}
<1>1. /\ DOMAIN Append(s, e) = 1 .. Len(s) + 1 /\ DOMAIN s = 1 .. Len(s) /\ Len(s) \in Nat
      /\ Append(s, e)[Len(s) + 1] = e
      /\ \A k \in 1 .. Len(s) : Append(s, e)[k] = s[k]
  OBVIOUS
<1>2. QED BY <1>1 DEF ToSet

LEMMA VoteListed ==
    ASSUME TypeOK, NEW id \in Ids, NEW a \in Accounts, votes[id][a] = 0, Listed(id),
           NEW v \in {1, -1}, votes' = [votes EXCEPT ![id][a] = v],
           proposals'[id] = IF v = 1 THEN [Ballot(id) EXCEPT !.support = Append(@, a)]
                                     ELSE [Ballot(id) EXCEPT !.reject = Append(@, a)]
    PROVE  Listed(id)'
<1>1. /\ proposals[id].support \in Seq(Accounts) /\ proposals[id].reject \in Seq(Accounts)
      /\ votes[id] \in [Accounts -> {0, 1, -1, 2}] /\ votes \in [Ids -> [Accounts -> {0, 1, -1, 2}]]
  BY DEF TypeOK
<1>2. votes'[id] = [votes[id] EXCEPT ![a] = v]
  BY <1>1
<1>3. /\ \A b \in Accounts : votes'[id][b] = IF b = a THEN v ELSE votes[id][b]
  BY <1>1, <1>2
<1>4. a \notin ToSet(proposals[id].support) /\ a \notin ToSet(proposals[id].reject)
  BY DEF Listed
<1>5. CASE v = 1
  <2>1. /\ proposals'[id].support = Append(proposals[id].support, a)
        /\ proposals'[id].reject = proposals[id].reject
    BY <1>5, BallotLists
  <2>2. IsInjective(Append(proposals[id].support, a))
    BY <1>1, <1>4, AppendOnce DEF Listed
  <2>3. ToSet(Append(proposals[id].support, a)) = ToSet(proposals[id].support) \cup {a}
    BY <1>1, AppendNames
  <2>4. {b \in Accounts : votes'[id][b] = 1} = {b \in Accounts : votes[id][b] = 1} \cup {a}
    BY <1>3, <1>5
  <2>5. {b \in Accounts : votes'[id][b] = -1} = {b \in Accounts : votes[id][b] = -1}
    BY <1>3, <1>5
  <2>6. QED BY <2>1, <2>2, <2>3, <2>4, <2>5 DEF Listed
<1>6. CASE v = -1
  <2>1. /\ proposals'[id].reject = Append(proposals[id].reject, a)
        /\ proposals'[id].support = proposals[id].support
    BY <1>6, BallotLists
  <2>2. IsInjective(Append(proposals[id].reject, a))
    BY <1>1, <1>4, AppendOnce DEF Listed
  <2>3. ToSet(Append(proposals[id].reject, a)) = ToSet(proposals[id].reject) \cup {a}
    BY <1>1, AppendNames
  <2>4. {b \in Accounts : votes'[id][b] = -1} = {b \in Accounts : votes[id][b] = -1} \cup {a}
    BY <1>3, <1>6
  <2>5. {b \in Accounts : votes'[id][b] = 1} = {b \in Accounts : votes[id][b] = 1}
    BY <1>3, <1>6
  <2>6. QED BY <2>1, <2>2, <2>3, <2>4, <2>5 DEF Listed
<1>7. QED BY <1>5, <1>6

LEMMA ListedStays ==
    ASSUME TypeOK, SeatsOnce, BookInv, [Next]_vars, NEW id \in Ids,
           Created(id), IsOrdinary(id), Listed(id)
    PROVE  Listed(id)'
<1> USE DEF BookInv
<1>1. CASE NewStep
  BY <1>1, NewFate DEF Listed
<1>2. CASE VotingStep
  <2>1. PICK j \in Ids, a \in Accounts, v \in {1, -1} :
           /\ votes[j][a] = 0 /\ votes' = [votes EXCEPT ![j][a] = v]
           /\ proposals'[j] = IF v = 1 THEN [Ballot(j) EXCEPT !.support = Append(@, a)]
                                       ELSE [Ballot(j) EXCEPT !.reject = Append(@, a)]
           /\ \A i \in Ids \ {j} : proposals'[i] = proposals[i] /\ votes'[i] = votes[i]
    BY <1>2, VotingFate
  <2>2. CASE id = j
    BY <2>1, <2>2, VoteListed
  <2>3. CASE id # j
    BY <2>1, <2>3 DEF Listed
  <2>4. QED BY <2>2, <2>3
<1>3. CASE BatchStep
  BY <1>3, BatchFate DEF Listed, IsOrdinary
<1>4. CASE DecidingStep
  BY <1>4, DecidingFate, SettledFields DEF Listed
<1>5. CASE RestStep
  BY <1>5 DEF RestStep, Listed
<1>6. QED BY <1>1, <1>2, <1>3, <1>4, <1>5, HistoryKinds

LEMMA BallotsStep ==
    ASSUME TypeOK, SeatsOnce, BookInv, BallotsConsistent, [Next]_vars
    PROVE  BallotsConsistent'
<1> SUFFICES ASSUME NEW id \in Ids, Created(id)', IsOrdinary(id)'
             PROVE  Listed(id)'
  BY DEF BallotsConsistent, Listed
<1>1. CASE Created(id)
  <2>1. IsOrdinary(id)
    BY <1>1, EachFate DEF Fate, IsOrdinary
  <2>2. Listed(id)
    BY <1>1, <2>1 DEF BallotsConsistent, Listed
  <2>3. QED BY <1>1, <2>1, <2>2, ListedStays
<1>2. CASE ~ Created(id)
  <2>1. Birth(id) /\ votes'[id] = votes[id]
    BY <1>2, EachBirth
  <2>2. votes'[id] = [a \in Accounts |-> 0]
    BY <1>2, <2>1 DEF BookInv, Fresh
  <2>3. proposals'[id].support = <<>> /\ proposals'[id].reject = <<>>
    BY <2>1 DEF Birth
  <2>4. ToSet(<<>>) = {} /\ IsInjective(<<>>)
    BY DEF ToSet, IsInjective
  <2>5. QED BY <2>2, <2>3, <2>4 DEF Listed
<1>3. QED BY <1>1, <1>2

BallotInv == TypeOK /\ SeatsInv /\ BookInv /\ BallotsConsistent

LEMMA BallotInvariant == LegacySpec => []BallotInv
<1>1. EitherInit => BallotsConsistent
  <2>1. Init => BallotsConsistent
    BY DEF Init, BallotsConsistent, Created, State, NoProposal
  <2>2. ASSUME LegacyInit PROVE BallotsConsistent
    BY <2>2, LegacyKinds, SideListed DEF BallotsConsistent, Created
  <2>3. QED BY <2>1, <2>2 DEF EitherInit
<1>2. BallotInv /\ [Next]_vars => BallotsConsistent'
  BY BallotsStep DEF BallotInv, SeatsInv
<1>3. BallotInv <=> (TypeOK /\ SeatsInv /\ BookInv) /\ BallotsConsistent
  BY DEF BallotInv
<1>4. QED BY <1>1, <1>2, <1>3, BookInvariant, PTL DEF LegacySpec

\* The two lists of a proposal and the vote map record the same votes, once each.
THEOREM BallotsStayConsistent == LegacySpec => []BallotsConsistent
<1>1. BallotInv => BallotsConsistent
  BY DEF BallotInv
<1>2. QED BY <1>1, BallotInvariant, PTL

-----------------------------------------------------------------------------
(* Results *)

\* The places of a list that name members are as many as the members it names.
LEMMA PlacesAreVoters ==
    ASSUME NEW S, NEW s \in Seq(S), IsInjective(s), NEW M \in SUBSET S
    PROVE  /\ VotesOf(s, M) = Cardinality(ToSet(s) \cap M)
           /\ VotesOf(s, M) \in Nat
<1> DEFINE places == {i \in DOMAIN s : s[i] \in M}
           f == [i \in places |-> s[i]]
<1>1. DOMAIN s = 1 .. Len(s) /\ Len(s) \in Nat
  OBVIOUS
<1>2. f \in Bijection(places, ToSet(s) \cap M)
  <2>1. f \in [places -> ToSet(s) \cap M]
    BY DEF ToSet
  <2>2. \A i, j \in places : f[i] = f[j] => i = j
    BY DEF IsInjective
  <2>3. \A e \in ToSet(s) \cap M : \E i \in places : f[i] = e
    BY DEF ToSet
  <2> HIDE DEF f, places
  <2>4. QED BY <2>1, <2>2, <2>3 DEF Bijection, Injection, Surjection, IsInjective
<1>3. IsFiniteSet(places)
  <2>1. IsFiniteSet(1 .. Len(s))
    BY <1>1, FS_Interval
  <2>2. places \subseteq 1 .. Len(s)
    BY <1>1
  <2>3. QED BY <2>1, <2>2, FS_Subset
<1> HIDE DEF f, places
<1>4. IsFiniteSet(ToSet(s) \cap M) /\ Cardinality(ToSet(s) \cap M) = Cardinality(places)
  BY <1>2, <1>3, FS_Bijection DEF ExistsBijection
<1>5. Cardinality(places) \in Nat
  BY <1>3, FS_CardinalityType
<1>6. QED BY <1>4, <1>5 DEF places, VotesOf

LEMMA MoreThanHalf ==
    ASSUME NEW n \in Nat, NEW size \in Nat
    PROVE  IsMajority(n, size) <=> 2 * n > size
BY DEF IsMajority

\* The electorate of a proposal is a snapshot on record.
LEMMA ElectorateType ==
    ASSUME TypeOK, SeatsInv, BookInv, NEW id \in Ids
    PROVE  /\ Electorate(id) \in SnapshotRecord
           /\ Electorate(id).size = Cardinality(Electorate(id).members)
<1>1. /\ Electorate(id) = EnsuredSnapshots[BoundVersion(id)]
      /\ BoundVersion(id) \in 1 .. Len(EnsuredSnapshots)
  BY BoundOnRecord DEF Electorate, BookInv
<1>2. EnsuredSnapshots \in Seq(SnapshotRecord) /\ AllCountOnce(EnsuredSnapshots)
  BY EnsuredFaithful
<1>3. QED BY <1>1, <1>2 DEF AllCountOnce

\* What _settleProposal counts is the will of the electorate.
LEMMA MajorityCounted ==
    ASSUME TypeOK, SeatsInv, BookInv, NEW id \in Ids, Listed(id)
    PROVE  LET seats == Electorate(id)
               p == proposals[id]
           IN  /\ IsMajority(VotesOf(p.support, seats.members), seats.size)
                    <=> MajorityVoted(id, 1)
               /\ IsMajority(VotesOf(p.reject, seats.members), seats.size)
                    <=> MajorityVoted(id, -1)
<1> DEFINE M == Electorate(id).members
           n == Electorate(id).size
<1>1. M \in SUBSET Accounts /\ n \in Nat /\ n = Cardinality(M)
  BY ElectorateType DEF SnapshotRecord
<1> HIDE DEF M, n
<1>2. /\ proposals[id].support \in Seq(Accounts) /\ proposals[id].reject \in Seq(Accounts)
      /\ votes[id] \in [Accounts -> {0, 1, -1, 2}]
  BY DEF TypeOK
<1>3. ASSUME NEW list \in Seq(Accounts), NEW v \in {1, -1}, IsInjective(list),
             ToSet(list) = {a \in Accounts : votes[id][a] = v}
      PROVE  IsMajority(VotesOf(list, M), n) <=> MajorityVoted(id, v)
  <2>1. /\ VotesOf(list, M) = Cardinality(ToSet(list) \cap M)
        /\ VotesOf(list, M) \in Nat
    BY <1>1, <1>3, PlacesAreVoters
  <2>2. ToSet(list) \cap M = {a \in M : votes[id][a] = v}
    BY <1>1, <1>3
  <2>3. IsMajority(VotesOf(list, M), n) <=> 2 * VotesOf(list, M) > n
    BY <1>1, <2>1, MoreThanHalf
  <2>4. MajorityVoted(id, v) <=> 2 * Cardinality({a \in M : votes[id][a] = v}) > Cardinality(M)
    BY DEF MajorityVoted, M
  <2>5. QED BY <1>1, <2>1, <2>2, <2>3, <2>4
<1>4. QED BY <1>2, <1>3 DEF Listed, M, n

Justified(id) ==
    /\ State(id) \in {"Accepted", "Executed"} => MajorityVoted(id, 1)
    /\ State(id) = "Rejected" => MajorityVoted(id, -1)
    /\ State(id) = "Expired" => /\ now > proposals[id].expired
                                /\ ~ MajorityVoted(id, 1) /\ ~ MajorityVoted(id, -1)

\* A proposal whose state, votes, electorate and expiry stay keeps its justification.
LEMMA JustifiedKept ==
    ASSUME NEW id \in Ids, Justified(id), now \in Nat, now' \in Nat, now' >= now,
           proposals[id].expired \in Nat,
           Electorate(id)' = Electorate(id), votes'[id] = votes[id],
           proposals'[id].expired = proposals[id].expired,
           \/ proposals'[id].state = proposals[id].state
           \/ proposals[id].state = "Accepted" /\ proposals'[id].state = "Executed"
    PROVE  Justified(id)'
<1>1. \A v \in {1, -1} : MajorityVoted(id, v)' = MajorityVoted(id, v)
  BY DEF MajorityVoted
<1>2. CASE proposals'[id].state = proposals[id].state
  BY <1>1, <1>2 DEF Justified, State
<1>3. CASE proposals[id].state = "Accepted" /\ proposals'[id].state = "Executed"
  BY <1>1, <1>3 DEF Justified, State
<1>4. QED BY <1>2, <1>3

\* A settlement in this step is justified by the votes it finds.
LEMMA JustifiedNow ==
    ASSUME TypeOK, SeatsInv, BookInv, NEW id \in Ids, Listed(id), State(id) = "InProgress",
           Electorate(id)' = Electorate(id), votes'[id] = votes[id], now' = now,
           proposals'[id].expired = proposals[id].expired,
           \/ proposals'[id].state = Outcome(id)
           \/ Outcome(id) = "Accepted" /\ proposals'[id].state = "Executed"
    PROVE  Justified(id)'
<1>1. /\ MajorityVoted(id, 1)' = MajorityVoted(id, 1)
      /\ MajorityVoted(id, -1)' = MajorityVoted(id, -1)
  BY DEF MajorityVoted
<1>2. /\ Outcome(id) = "Accepted" => MajorityVoted(id, 1)
      /\ Outcome(id) = "Rejected" => MajorityVoted(id, -1)
      /\ Outcome(id) = "Expired" => /\ DeadlinePassed(id)
                                    /\ ~ MajorityVoted(id, 1) /\ ~ MajorityVoted(id, -1)
      /\ Outcome(id) # "Executed"
  BY MajorityCounted DEF Outcome
<1>3. QED BY <1>1, <1>2 DEF Justified, State, DeadlinePassed

LEMMA JustifiedStep ==
    ASSUME BallotInv, [Next]_vars, NEW id \in Ids, Created(id), IsOrdinary(id), Justified(id),
           proposals[id].version # 0
    PROVE  Justified(id)'
<1>0. /\ TypeOK /\ SeatsInv /\ SeatsOnce /\ BookInv /\ ExtrasShaped /\ Fresh /\ Versioned
      /\ TypeOK'
  BY NextType DEF BallotInv, SeatsInv, BookInv
<1>1. Listed(id)
  BY <1>0 DEF BallotInv, BallotsConsistent, Listed
<1>2. Electorate(id)' = Electorate(id) /\ proposals'[id].expired = proposals[id].expired
  BY <1>0, <1>1, ElectorateKept, EachFate DEF Fate
<1>3. now \in Nat /\ now' \in Nat /\ proposals[id].expired \in Nat
  BY <1>0 DEF TypeOK
<1>4. CASE NewStep
  <2>1. proposals'[id] = proposals[id] /\ votes'[id] = votes[id] /\ now' = now
    BY <1>0, <1>4, NewFate
  <2>2. QED BY <1>2, <1>3, <2>1, JustifiedKept
<1>5. CASE VotingStep
  <2>1. /\ State(id)' = State(id) /\ now' = now
        /\ State(id) = "InProgress" \/ votes'[id] = votes[id]
    BY <1>0, <1>5, VotingFate DEF State
  <2>2. CASE State(id) = "InProgress"
    BY <2>1, <2>2 DEF Justified
  <2>3. CASE votes'[id] = votes[id]
    BY <1>2, <1>3, <2>1, <2>3, JustifiedKept DEF State
  <2>4. QED BY <2>1, <2>2, <2>3
<1>6. CASE BatchStep
  <2>1. proposals'[id] = proposals[id] /\ votes'[id] = votes[id] /\ now' = now
    BY <1>0, <1>6, BatchFate DEF IsOrdinary
  <2>2. QED BY <1>2, <1>3, <2>1, JustifiedKept
<1>7. CASE DecidingStep
  <2>1. PICK j \in Ids :
           /\ proposals'[j] \in {Settled(j), Executed(j)}
           /\ proposals'[j] = Settled(j) \/ Settled(j).state = "Accepted"
           /\ \A i \in Ids \ {j} : proposals'[i] = proposals[i]
           /\ UNCHANGED <<now, votes>>
    BY <1>0, <1>7, DecidingFate
  <2>2. CASE id # j
    BY <1>2, <1>3, <2>1, <2>2, JustifiedKept
  <2>3. CASE id = j /\ State(id) = "InProgress"
    <3>1. Settled(id).state = Outcome(id) /\ Executed(id).state = "Executed"
      BY <1>0, <2>3, SettledFields
    <3>2. \/ proposals'[id].state = Outcome(id)
          \/ Outcome(id) = "Accepted" /\ proposals'[id].state = "Executed"
      BY <2>1, <2>3, <3>1
    <3>3. QED BY <1>0, <1>1, <1>2, <2>1, <2>3, <3>2, JustifiedNow
  <2>4. CASE id = j /\ State(id) # "InProgress"
    <3>1. Settled(id).state = State(id) /\ Executed(id).state = "Executed"
      BY <1>0, <2>4, SettledFields
    <3>2. \/ proposals'[id].state = proposals[id].state
          \/ proposals[id].state = "Accepted" /\ proposals'[id].state = "Executed"
      BY <2>1, <2>4, <3>1 DEF State
    <3>3. QED BY <1>2, <1>3, <2>1, <3>2, JustifiedKept
  <2>5. QED BY <2>2, <2>3, <2>4
<1>8. CASE RestStep
  BY <1>2, <1>3, <1>8, JustifiedKept DEF RestStep
<1>9. QED BY <1>0, <1>4, <1>5, <1>6, <1>7, <1>8, HistoryKinds

\* A proposal of the old release, when a step binds it to a committee.
LEMMA JustifiedBound ==
    ASSUME BallotInv, [Next]_vars, NEW id \in Ids, Created(id), IsOrdinary(id),
           proposals[id].version = 0, proposals'[id].version # 0
    PROVE  Justified(id)'
<1>0. /\ TypeOK /\ SeatsInv /\ SeatsOnce /\ BookInv /\ ExtrasShaped /\ Fresh
      /\ Listed(id)
  BY DEF BallotInv, SeatsInv, BookInv, BallotsConsistent, Listed
<1>1. CASE NewStep
  BY <1>0, <1>1, NewFate
<1>2. CASE VotingStep
  BY <1>0, <1>2, VotingFate DEF Justified, State
<1>3. CASE BatchStep
  BY <1>0, <1>3, BatchFate DEF IsOrdinary
<1>4. CASE DecidingStep
  <2>1. PICK j \in Ids :
           /\ Created(j) => Fate(j)
           /\ proposals'[j] \in {Settled(j), Executed(j)}
           /\ proposals'[j] = Settled(j) \/ Settled(j).state = "Accepted"
           /\ \A i \in Ids \ {j} : proposals'[i] = proposals[i]
           /\ UNCHANGED <<now, votes>>
           /\ State(j) = "InProgress" =>
                 /\ snapshots' # <<>>
                 /\ \A v \in 1 .. Len(EnsuredSnapshots) : snapshots'[v] = EnsuredSnapshots[v]
    BY <1>0, <1>4, DecidingFate
  <2>2. id = j
    BY <2>1
  <2>3. State(id) = "InProgress"
    BY <1>0, <2>1, <2>2, SettledFields
  <2>4. /\ Settled(id).state = Outcome(id) /\ Executed(id).state = "Executed"
        /\ proposals'[id].version = BoundVersion(id)
    BY <1>0, <2>1, <2>2, <2>3, SettledFields
  <2>5. BoundVersion(id) \in 1 .. Len(EnsuredSnapshots)
    BY <1>0, BoundOnRecord DEF BookInv
  <2>6. BoundVersion(id)' = BoundVersion(id)
    BY <2>4 DEF BoundVersion
  <2>7. EnsuredSnapshots' = snapshots'
    BY <2>1, <2>2, <2>3 DEF EnsuredSnapshots
  <2>8. Electorate(id)' = Electorate(id)
    BY <2>1, <2>2, <2>3, <2>5, <2>6, <2>7 DEF Electorate
  <2>9. \/ proposals'[id].state = Outcome(id)
        \/ Outcome(id) = "Accepted" /\ proposals'[id].state = "Executed"
    BY <2>1, <2>2, <2>4
  <2>10. proposals'[id].expired = proposals[id].expired /\ votes'[id] = votes[id] /\ now' = now
    BY <2>1, <2>2 DEF Fate
  <2>11. QED BY <1>0, <2>3, <2>8, <2>9, <2>10, JustifiedNow
<1>5. CASE RestStep
  BY <1>5 DEF RestStep
<1>6. QED BY <1>0, <1>1, <1>2, <1>3, <1>4, <1>5, HistoryKinds

\* Every created ordinary proposal that is bound to a committee is justified.
AllJustified ==
    \A id \in Ids : Created(id) /\ IsOrdinary(id) /\ proposals[id].version # 0 => Justified(id)

LEMMA AllJustifiedStep ==
    ASSUME BallotInv, AllJustified, [Next]_vars
    PROVE  AllJustified'
<1> SUFFICES ASSUME NEW id \in Ids, Created(id)', IsOrdinary(id)', proposals'[id].version # 0
             PROVE  Justified(id)'
  BY DEF AllJustified
<1>0. TypeOK /\ SeatsOnce /\ BookInv
  BY DEF BallotInv, SeatsInv
<1>1. CASE Created(id)
  <2>1. IsOrdinary(id)
    BY <1>0, <1>1, EachFate DEF Fate, IsOrdinary
  <2>2. CASE proposals[id].version # 0
    BY <1>1, <2>1, <2>2, JustifiedStep DEF AllJustified
  <2>3. CASE proposals[id].version = 0
    BY <1>1, <2>1, <2>3, JustifiedBound
  <2>4. QED BY <2>2, <2>3
<1>2. CASE ~ Created(id)
  BY <1>0, <1>2, EachBirth DEF Birth, Justified, State
<1>3. QED BY <1>1, <1>2

LEMMA JustifiedInvariant == LegacySpec => [](BallotInv /\ AllJustified)
<1>1. EitherInit => AllJustified
  BY LegacyKinds DEF EitherInit, Init, AllJustified, Created, State, NoProposal
<1>2. BallotInv /\ AllJustified /\ [Next]_vars => AllJustified'
  BY AllJustifiedStep
<1>3. QED BY <1>1, <1>2, BallotInvariant, PTL DEF LegacySpec

\* Accepted means that more than half of the people who sat on the committee when
\* the proposal was created voted for it, Rejected that they voted against it, and
\* Expired that the time is over and they did neither: in every committee, however
\* it changes, and whichever of the functions that settle came first.
THEOREM SettlementStaysJustified == LegacySpec => []SettlementJustified
<1>1. BallotInv /\ AllJustified => SettlementJustified
  <2> SUFFICES ASSUME BallotInv, AllJustified, NEW id \in Ids, IsOrdinary(id),
                      proposals[id].version # 0
               PROVE  Justified(id)
    BY DEF SettlementJustified, Justified
  <2>1. CASE Created(id)
    BY <2>1 DEF AllJustified
  <2>2. CASE ~ Created(id)
    BY <2>2 DEF Created, Justified
  <2>3. QED BY <2>1, <2>2
<1>2. QED BY <1>1, JustifiedInvariant, PTL

\* Whoever decides a proposal, it leaves the vote bound to a committee on record,
\* though the release it was created under recorded none.
THEOREM DecisionsStayBound == LegacySpec => DecisionsBound
<1>1. ASSUME TypeOK, SeatsInv, BookInv, [Next]_vars, NEW id \in Ids, IsOrdinary(id),
             State(id) = "InProgress", State(id)' # "InProgress"
      PROVE  proposals'[id].version \in DOMAIN snapshots'
  <2>0. SeatsOnce /\ ExtrasShaped /\ Fresh /\ Created(id)
    BY <1>1 DEF SeatsInv, BookInv, Created
  <2>1. DecidingStep
    <3>1. ~ NewStep
      BY <1>1, <2>0, NewFate DEF State
    <3>2. ~ VotingStep
      BY <1>1, VotingFate DEF State
    <3>3. ~ BatchStep
      BY <1>1, <2>0, BatchFate DEF State, IsOrdinary
    <3>4. ~ RestStep
      BY <1>1 DEF RestStep, State
    <3>5. QED BY <1>1, <2>0, <3>1, <3>2, <3>3, <3>4, HistoryKinds
  <2>2. PICK j \in Ids :
           /\ proposals'[j] \in {Settled(j), Executed(j)}
           /\ \A i \in Ids \ {j} : proposals'[i] = proposals[i]
           /\ State(j) = "InProgress" => snapshots' # <<>>
    BY <1>1, <2>1, DecidingFate
  <2>3. id = j
    BY <1>1, <2>2 DEF State
  <2>4. proposals'[id].version = BoundVersion(id) /\ snapshots' # <<>>
    BY <1>1, <2>2, <2>3, SettledFields
  <2>5. /\ BoundVersion(id) \in 1 .. Len(EnsuredSnapshots) /\ Len(EnsuredSnapshots) \in Nat
        /\ Len(EnsuredSnapshots) <= Len(snapshots') /\ Len(snapshots') \in Nat
    BY <1>1, <2>0, <2>4, BoundOnRecord, EnsuredSome, GrowsStep, GrowsKeeps DEF BookInv
  <2>6. DOMAIN snapshots' = 1 .. Len(snapshots')
    BY <1>1, NextType DEF TypeOK
  <2>7. QED BY <2>4, <2>5, <2>6
<1>2. TypeOK /\ SeatsInv /\ BookInv /\ [Next]_vars =>
        [\A id \in Ids :
          IsOrdinary(id) /\ State(id) = "InProgress" /\ State(id)' # "InProgress" =>
             proposals[id].version' \in DOMAIN snapshots']_vars
  BY <1>1
<1>3. QED BY <1>2, BookInvariant, PTL DEF LegacySpec, DecisionsBound

-----------------------------------------------------------------------------
(* What decisions are good for *)

LEMMA ParamsKept ==
    ASSUME TypeOK, Fresh, [Next]_vars, NEW id \in Ids, Created(id)
    PROVE  proposals'[id].params = proposals[id].params
<1>1. CASE CreationStep
  BY <1>1, CreateKeeps DEF CreationStep, Fresh, Ids
<1>2. CASE ClearingStep \/ OtherStep
  BY <1>2 DEF ClearingStep, OtherStep, Keeps
<1>3. QED BY <1>1, <1>2, StepKinds

\* Upgrades are decided by a committee on record, never by token-weighted votes,
\* and none is left by the old release.
UpgradesOrdinary ==
    \A id \in Ids, t \in UpgradeTargets, i \in Implementations :
        Matches(id, Upgrade(t, i)) => IsOrdinary(id) /\ proposals[id].version # 0

LEMMA UpgradesStep ==
    ASSUME TypeOK, SeatsOnce, BookInv, UpgradesOrdinary, [Next]_vars
    PROVE  UpgradesOrdinary'
<1> SUFFICES ASSUME NEW id \in Ids, NEW t \in UpgradeTargets, NEW i \in Implementations,
                    proposals'[id].params = Upgrade(t, i)
             PROVE  ~ extras'[id].full /\ proposals'[id].version # 0
  BY DEF UpgradesOrdinary, Matches, IsOrdinary
<1>1. proposals[id].params = Upgrade(t, i) => ~ extras[id].full /\ proposals[id].version # 0
  BY DEF UpgradesOrdinary, Matches, IsOrdinary
<1>2. CASE CreationStep
  <2>1. PICK from \in Senders, d \in Nat, params \in Params, extra \in Extras :
           /\ Create(from, d, params, extra)
           /\ params = Upgrade(t, i) => extra = NoExtra
    BY <1>2, Tags DEF CreationStep
  <2>2. /\ curProposalId \in Ids /\ proposals'[curProposalId].params = params
        /\ \A j \in Ids \ {curProposalId} : proposals'[j] = proposals[j]
    BY <2>1, CreateKeeps
  <2>3. /\ extras'[curProposalId] = extra
        /\ \A j \in Ids \ {curProposalId} : extras'[j] = extras[j]
    BY <2>1, <2>2 DEF Create, TypeOK
  <2>4. ~ NoExtra.full
    BY DEF NoExtra
  <2>5. ~ extra.full => proposals'[curProposalId].version = Len(EnsuredSnapshots)
    BY <2>1, <2>2 DEF Create, TypeOK, VersionForNew
  <2>6. QED BY <1>1, <2>1, <2>2, <2>3, <2>4, <2>5, EnsuredSome
<1>3. CASE ClearingStep \/ OtherStep
  <2>1. Keeps
    BY <1>3 DEF ClearingStep, OtherStep
  <2>2. proposals[id].params = Upgrade(t, i)
    BY <2>1 DEF Keeps
  <2>3. CASE Created(id)
    BY <1>1, <2>2, <2>3, EachFate, ElectorateKept DEF Fate
  <2>4. CASE ~ Created(id)
    <3>1. ~ Birth(id)
      BY <2>1, <2>4 DEF Keeps, Live, Birth, Created, State
    <3>2. QED BY <1>1, <2>2, <2>4, <3>1, EachBirth
  <2>5. QED BY <2>3, <2>4
<1>4. QED BY <1>2, <1>3, StepKinds

\* The only step that installs anything.
LEMMA InstallKinds ==
    ASSUME [Next]_vars
    PROVE  \/ UNCHANGED implementation
           \/ \E proxy \in Proxies, impl \in Implementations : UpgradeToAndCall(proxy, impl)
BY DEF Next, vars, slotVars, Tick, ReleaseFinalVersion, Propose, FullPropose, PrepareAddMember,
       PrepareRemoveMember, PrepareSetCommittees, PrepareFullSetCommittees, PrepareSetDevRatio,
       PrepareContractUpgrade, CreateOrdinary, CreateFull, Create, CancelContractUpgrade,
       Dev2Normal, TransferNormal, SettleProposal, Support, Reject, CastVote, EndFullPropose,
       AddCommitteeMember, RemoveCommitteeMember, SetCommittees, SetDevRatio,
       SetProposalExecuted, VerifyContractUpgrade

\* An implementation a proxy may run.
Approved(id, proxy, impl) ==
    /\ State(id) = "Executed" /\ IsOrdinary(id) /\ MajorityVoted(id, 1)
    /\ Matches(id, Upgrade(proxy, impl))

ElectionInv == BallotInv /\ AllJustified /\ UpgradesOrdinary

LEMMA ApprovedStays ==
    ASSUME ElectionInv, [Next]_vars, NEW id \in Ids, NEW proxy \in UpgradeTargets,
           NEW impl \in Implementations, Approved(id, proxy, impl)
    PROVE  Approved(id, proxy, impl)'
<1>0. TypeOK /\ SeatsOnce /\ BookInv /\ Fresh /\ Created(id) /\ Decided(id) /\ IsOrdinary(id)
  BY DEF ElectionInv, BallotInv, SeatsInv, BookInv, Approved, Created, Decided
<1>1. State(id)' = "Executed" /\ votes'[id] = votes[id]
  BY <1>0, DecidedStays DEF Final, Approved
<1>2. IsOrdinary(id)' /\ proposals'[id].params = proposals[id].params
  BY <1>0, EachFate, ParamsKept DEF Fate, IsOrdinary
<1>3. Electorate(id)' = Electorate(id)
  BY <1>0, ElectorateKept DEF ElectionInv, UpgradesOrdinary, Approved
<1>4. MajorityVoted(id, 1)' = MajorityVoted(id, 1)
  BY <1>1, <1>3 DEF MajorityVoted
<1>5. QED BY <1>1, <1>2, <1>4 DEF Approved, Matches

LEMMA ApprovedNow ==
    ASSUME ElectionInv, [Next]_vars, NEW proxy \in Proxies, NEW impl \in Implementations,
           UpgradeToAndCall(proxy, impl)
    PROVE  \E id \in Ids : Approved(id, proxy, impl)'
<1>0. TypeOK /\ SeatsOnce /\ BookInv /\ Fresh /\ proxy \in UpgradeTargets
  BY CommitteeAssumption DEF ElectionInv, BallotInv, SeatsInv, BookInv
<1>1. PICK id \in Ids : id = upgradeSlot[proxy]
  BY <1>0 DEF UpgradeToAndCall, TypeOK
<1>2. /\ Matches(id, Upgrade(proxy, impl)) /\ Settled(id).state = "Accepted"
      /\ proposals' = [proposals EXCEPT ![id] = Executed(id)]
  BY <1>1 DEF UpgradeToAndCall, Execute, TakeAccept
<1>3. Created(id) /\ IsOrdinary(id) /\ Justified(id) /\ proposals[id].version # 0
  <2>1. Created(id)
    BY <1>0, <1>2, SettledFields DEF Created
  <2>2. IsOrdinary(id) /\ proposals[id].version # 0
    BY <1>0, <1>2 DEF ElectionInv, UpgradesOrdinary
  <2>3. QED BY <2>1, <2>2 DEF ElectionInv, AllJustified
<1>4. proposals'[id] = Executed(id)
  BY <1>0, <1>2 DEF TypeOK
<1>5. State(id)' = "Executed"
  BY <1>0, <1>4, SettledFields DEF State
<1>6. Justified(id)'
  BY <1>3, JustifiedStep DEF ElectionInv
<1>7. IsOrdinary(id)' /\ proposals'[id].params = proposals[id].params
  BY <1>0, <1>3, EachFate, ParamsKept DEF Fate, IsOrdinary
<1>8. QED BY <1>2, <1>5, <1>6, <1>7 DEF Justified, Approved, Matches

LEMMA ApprovedStep ==
    ASSUME ElectionInv, ImplementationApproved, [Next]_vars
    PROVE  ImplementationApproved'
<1> SUFFICES ASSUME NEW proxy \in Proxies, implementation'[proxy] # Original
             PROVE  \E id \in Ids : Approved(id, proxy, implementation[proxy])'
  BY DEF ImplementationApproved, Approved
<1>1. implementation[proxy] # Original => \E id \in Ids : Approved(id, proxy, implementation[proxy])
  BY DEF ImplementationApproved, Approved
<1>4. proxy \in UpgradeTargets /\ implementation[proxy] \in Implementations \cup {Original}
  BY CommitteeAssumption DEF ElectionInv, BallotInv, TypeOK
<1>2. CASE implementation'[proxy] = implementation[proxy]
  <2>1. PICK id \in Ids : Approved(id, proxy, implementation[proxy])
    BY <1>1, <1>2
  <2>2. Approved(id, proxy, implementation[proxy])'
    BY <1>2, <1>4, <2>1, ApprovedStays DEF Approved, Matches
  <2>3. QED BY <2>2
<1>3. CASE implementation'[proxy] # implementation[proxy]
  <2>1. PICK q \in Proxies, impl \in Implementations : UpgradeToAndCall(q, impl)
    BY <1>3, InstallKinds
  <2>2. q = proxy /\ implementation'[proxy] = impl
    BY <1>3, <2>1 DEF UpgradeToAndCall, ElectionInv, BallotInv, TypeOK
  <2>3. QED BY <2>1, <2>2, ApprovedNow DEF Approved, Matches
<1>5. QED BY <1>2, <1>3

LEMMA ElectionInvariant == LegacySpec => []ElectionInv
<1>1. EitherInit => UpgradesOrdinary
  <2>1. Init => UpgradesOrdinary
    BY DEF Init, UpgradesOrdinary, Matches, NoProposal, NoParams, Upgrade
  <2>2. LegacyInit => UpgradesOrdinary
    BY LegacyKinds DEF UpgradesOrdinary, Matches, Upgrade
  <2>3. QED BY <2>1, <2>2 DEF EitherInit
<1>2. BallotInv /\ AllJustified /\ UpgradesOrdinary /\ [Next]_vars => UpgradesOrdinary'
  BY UpgradesStep DEF BallotInv, SeatsInv
<1>3. ElectionInv <=> BallotInv /\ AllJustified /\ UpgradesOrdinary
  BY DEF ElectionInv
<1>4. QED BY <1>1, <1>2, <1>3, JustifiedInvariant, PTL DEF LegacySpec

\* What a proxy runs was named, with its call data, by an executed proposal that
\* more than half of the committee of its creation voted for.
THEOREM OnlyApprovedInstalled == LegacySpec => []ImplementationApproved
<1>1. EitherInit => ImplementationApproved
  BY LegacyStarts DEF EitherInit, Init, ImplementationApproved
<1>2. ElectionInv /\ ImplementationApproved /\ [Next]_vars => ImplementationApproved'
  BY ApprovedStep
<1>3. QED BY <1>1, <1>2, ElectionInvariant, PTL DEF LegacySpec

\* The membership decisions that took effect.
Spent == {id \in Ids : State(id) = "Executed" /\ IsSeatChange(id)}

LEMMA SpentGrows ==
    ASSUME ElectionInv, [Next]_vars
    PROVE  /\ Spent \subseteq Spent'
           /\ IsFiniteSet(Spent) /\ IsFiniteSet(Spent')
           /\ Cardinality(Spent) \in Nat /\ Cardinality(Spent') \in Nat
           /\ Cardinality(Spent) <= Cardinality(Spent')
<1>0. TypeOK /\ SeatsOnce /\ BookInv /\ Fresh
  BY DEF ElectionInv, BallotInv, SeatsInv, BookInv
<1>1. ASSUME NEW id \in Spent PROVE id \in Spent'
  <2>1. id \in Ids /\ Created(id) /\ Decided(id) /\ State(id) = "Executed" /\ IsSeatChange(id)
    BY DEF Spent, Created, Decided
  <2>2. State(id)' = "Executed"
    BY <1>0, <2>1, DecidedStays DEF Final
  <2>3. proposals'[id].params = proposals[id].params
    BY <1>0, <2>1, ParamsKept
  <2>4. QED BY <2>1, <2>2, <2>3 DEF Spent, IsSeatChange, Matches
<1>2. IsFiniteSet(Ids)
  BY BoundsAssumption, FS_Interval DEF Ids
<1>3. IsFiniteSet(Spent) /\ IsFiniteSet(Spent')
  BY <1>2, FS_Subset DEF Spent
<1>4. QED BY <1>1, <1>3, FS_Subset, FS_CardinalityType

\* The first snapshot is for nothing, though it may be made up for late.
ChangesPaid == Len(EnsuredSnapshots) <= 1 + Cardinality(Spent)

LEMMA ChangesPaidStep ==
    ASSUME ElectionInv, ChangesPaid, [Next]_vars
    PROVE  ChangesPaid'
<1>0. TypeOK /\ SeatsInv /\ SeatsOnce /\ BookInv /\ Fresh
  BY DEF ElectionInv, BallotInv, SeatsInv, BookInv
<1>1. PICK ensured : ensured = EnsuredSnapshots
  OBVIOUS
<1>2. /\ ensured \in Seq(SnapshotRecord) /\ snapshots \in Seq(SnapshotRecord)
      /\ Len(ensured) \in Nat /\ Len(snapshots) \in Nat
      /\ Len(ensured) <= 1 + Cardinality(Spent) /\ Len(snapshots) <= Len(ensured)
  <2>1. ensured \in Seq(SnapshotRecord) /\ snapshots \in Seq(SnapshotRecord)
    BY <1>0, <1>1, EnsuredFaithful DEF TypeOK, SnapshotRecord
  <2>2. Len(ensured) \in Nat /\ Len(snapshots) \in Nat
    BY <2>1
  <2>3. Len(ensured) <= 1 + Cardinality(Spent)
    BY <1>1 DEF ChangesPaid
  <2>4. snapshots = <<>> \/ snapshots = ensured
    BY <1>1 DEF EnsuredSnapshots
  <2>5. Len(snapshots) <= Len(ensured)
    BY <2>2, <2>4
  <2>6. QED BY <2>1, <2>2, <2>3, <2>5
<1>3. CASE snapshots' \in {snapshots, EnsuredSnapshots} /\ committees' = committees
  <2>1. Snapshot(committees)' = Snapshot(committees)
    BY <1>3 DEF Snapshot
  <2>2. EnsuredSnapshots' = EnsuredSnapshots
    BY <1>3, <2>1 DEF EnsuredSnapshots
  <2>3. QED BY <1>0, <1>1, <1>2, <2>2, SpentGrows DEF ChangesPaid
<1>4. CASE ~ (snapshots' \in {snapshots, EnsuredSnapshots} /\ committees' = committees)
  <2>1. \A id \in Ids : SettledSnapshots(id) \in {snapshots, EnsuredSnapshots}
    BY DEF SettledSnapshots
  <2>2. DecidingStep
    BY <1>0, <1>4, HistoryKinds DEF NewStep, Create, VotingStep, Support, Reject, CastVote,
       BatchStep, EndFullPropose, seatVars, RestStep
  <2>3. PICK id \in Ids :
           /\ IsSeatChange(id) /\ Settled(id).state = "Accepted"
           /\ proposals' = [proposals EXCEPT ![id] = Executed(id)]
           /\ \E list \in Seq(Accounts) : Seat(id, list)
    BY <1>4, <2>1, <2>2 DEF DecidingStep
  <2>4. PICK list \in Seq(Accounts), before \in {snapshots, EnsuredSnapshots} :
           snapshots' = Append(before, Snapshot(list))
    BY <2>1, <2>3 DEF Seat, Recorded
  <2>5. before \in Seq(SnapshotRecord) /\ Len(before) \in Nat /\ Len(before) <= Len(ensured)
    BY <1>1, <1>2
  <2>6. Len(snapshots') = Len(before) + 1 /\ snapshots' # <<>>
    BY <2>4, <2>5, SnapshotType
  <2>7. Len(EnsuredSnapshots') = Len(before) + 1
    BY <2>6 DEF EnsuredSnapshots
  <2>8. State(id) # "Executed" /\ Created(id)
    BY <1>0, <2>3, SettledFields DEF Created
  <2>9. proposals'[id] = Executed(id)
    BY <1>0, <2>3 DEF TypeOK
  <2>10. State(id)' = "Executed"
    BY <1>0, <2>9, SettledFields DEF State
  <2>11. proposals'[id].params = proposals[id].params
    BY <1>0, <2>8, ParamsKept
  <2>12. id \in Spent' /\ id \notin Spent
    BY <2>3, <2>8, <2>10, <2>11 DEF Spent, IsSeatChange, Matches
  <2>13. Spent \cup {id} \subseteq Spent'
    BY <2>12, SpentGrows
  <2>14. Cardinality(Spent \cup {id}) = Cardinality(Spent) + 1 /\ IsFiniteSet(Spent \cup {id})
    BY <2>12, SpentGrows, FS_AddElement
  <2>15. Cardinality(Spent \cup {id}) <= Cardinality(Spent')
    BY <2>13, SpentGrows, FS_Subset
  <2>16. Len(before) + 1 <= 1 + Cardinality(Spent')
    BY <1>2, <2>5, <2>14, <2>15, SpentGrows
  <2>17. QED BY <2>7, <2>16 DEF ChangesPaid
<1>5. QED BY <1>3, <1>4

\* Every change of the committee has used up a decision of its own.
THEOREM OneChangeEach == LegacySpec => []OneChangePerDecision
<1>1. EitherInit => ChangesPaid
  <2> SUFFICES ASSUME EitherInit PROVE ChangesPaid
    OBVIOUS
  <2>1. Len(EnsuredSnapshots) = 1
    <3>1. Init => snapshots = <<Snapshot(InitialCommittee)>>
      BY DEF Init
    <3>2. LegacyInit => snapshots = <<>>
      BY LegacyStarts
    <3>3. QED BY <3>1, <3>2 DEF EitherInit, EnsuredSnapshots
  <2>2. IsFiniteSet(Ids)
    BY BoundsAssumption, FS_Interval DEF Ids
  <2>3. IsFiniteSet(Spent)
    BY <2>2, FS_Subset DEF Spent
  <2>4. Cardinality(Spent) \in Nat
    BY <2>3, FS_CardinalityType
  <2>5. QED BY <2>1, <2>4 DEF ChangesPaid
<1>2. ElectionInv /\ ChangesPaid /\ [Next]_vars => ChangesPaid'
  BY ChangesPaidStep
<1>3. ElectionInv /\ ChangesPaid => OneChangePerDecision
  <2> SUFFICES ASSUME ElectionInv, ChangesPaid PROVE Len(snapshots) <= 1 + Cardinality(Spent)
    BY DEF OneChangePerDecision, Spent
  <2>1. TypeOK /\ SeatsInv
    BY DEF ElectionInv, BallotInv
  <2>2. PICK ensured : ensured = EnsuredSnapshots
    OBVIOUS
  <2>3. /\ Len(snapshots) \in Nat /\ Len(ensured) \in Nat /\ Len(snapshots) <= Len(ensured)
    BY <2>1, <2>2, EnsuredFaithful DEF TypeOK, EnsuredSnapshots
  <2>4. IsFiniteSet(Ids)
    BY BoundsAssumption, FS_Interval DEF Ids
  <2>5. Cardinality(Spent) \in Nat
    BY <2>4, FS_Subset, FS_CardinalityType DEF Spent
  <2>6. QED BY <2>2, <2>3, <2>5 DEF ChangesPaid
<1>4. QED BY <1>1, <1>2, <1>3, ElectionInvariant, PTL DEF LegacySpec

-----------------------------------------------------------------------------
(* The count of full proposals *)

\* A slot holds an upgrade that exists.
SlotsHold ==
    \A t \in UpgradeTargets : upgradeSlot[t] # 0 =>
        /\ Created(upgradeSlot[t])
        /\ \E i \in Implementations : Matches(upgradeSlot[t], Upgrade(t, i))

CountedVotes(id) == {a \in Accounts : votes[id][a] = 2}

\* The lists of a full proposal name its voters once, counted or not; the counter
\* is the number of those counted; and no result is given before all of them are.
Reckoned(id) ==
    /\ IsInjective(proposals[id].support) /\ IsInjective(proposals[id].reject)
    /\ ToSet(proposals[id].support) \cap ToSet(proposals[id].reject) = {}
    /\ Voters(id) = {a \in Accounts : votes[id][a] # 0}
    /\ extras[id].settled = Cardinality(CountedVotes(id))
    /\ State(id) # "InProgress" => Voters(id) \subseteq CountedVotes(id)

AllReckoned == \A id \in Ids : extras[id].full => Created(id) /\ Reckoned(id)

LEMMA SlotsHoldStep ==
    ASSUME TypeOK, SeatsOnce, BookInv, SlotsHold, [Next]_vars
    PROVE  SlotsHold'
<1>0. Fresh /\ upgradeSlot \in [UpgradeTargets -> Ids \cup {0}]
  BY DEF BookInv, TypeOK
<1>1. ASSUME NEW t \in UpgradeTargets, upgradeSlot'[t] = upgradeSlot[t], upgradeSlot[t] # 0
      PROVE  /\ Created(upgradeSlot[t])'
             /\ \E i \in Implementations : Matches(upgradeSlot[t], Upgrade(t, i))'
  <2>1. PICK id \in Ids : id = upgradeSlot[t]
    BY <1>0, <1>1
  <2>2. Created(id) /\ \E i \in Implementations : proposals[id].params = Upgrade(t, i)
    BY <1>1, <2>1 DEF SlotsHold, Matches
  <2>3. Created(id)' /\ proposals'[id].params = proposals[id].params
    BY <1>0, <2>2, EachFate, ParamsKept DEF Fate
  <2>4. upgradeSlot[t]' = id
    BY <1>1, <2>1
  <2>5. QED BY <2>2, <2>3, <2>4 DEF Created, State, Matches
<1>2. CASE ClearingStep \/ OtherStep
  <2>1. \A t \in UpgradeTargets : upgradeSlot'[t] \in {0, upgradeSlot[t]}
    BY <1>0, <1>2 DEF ClearingStep, OtherStep
  <2>2. QED BY <1>1, <2>1 DEF SlotsHold
<1>3. CASE CreationStep
  <2>1. PICK from \in Senders, d \in Nat, params \in Params, extra \in Extras :
           /\ Create(from, d, params, extra)
           /\ \/ upgradeSlot' = upgradeSlot
              \/ \E t \in UpgradeTargets, i \in Implementations :
                    /\ params = Upgrade(t, i)
                    /\ upgradeSlot' = [upgradeSlot EXCEPT ![t] = curProposalId]
    BY <1>3 DEF CreationStep
  <2>2. CASE upgradeSlot' = upgradeSlot
    BY <1>1, <2>2 DEF SlotsHold
  <2>3. ASSUME NEW t \in UpgradeTargets, NEW i \in Implementations, params = Upgrade(t, i),
               upgradeSlot' = [upgradeSlot EXCEPT ![t] = curProposalId]
        PROVE  SlotsHold'
    <3>1. /\ curProposalId \in Ids /\ proposals'[curProposalId].params = params
          /\ proposals'[curProposalId].state = "InProgress"
      BY <2>1, CreateKeeps
    <3>2. /\ upgradeSlot'[t] = curProposalId
          /\ \A s \in UpgradeTargets \ {t} : upgradeSlot'[s] = upgradeSlot[s]
      BY <1>0, <2>3
    <3>3. Created(upgradeSlot[t])' /\ Matches(upgradeSlot[t], Upgrade(t, i))'
      BY <2>3, <3>1, <3>2 DEF Created, State, Matches
    <3>4. QED BY <1>1, <3>2, <3>3 DEF SlotsHold
  <2>4. QED BY <2>1, <2>2, <2>3
<1>4. QED BY <1>2, <1>3, StepKinds

\* A vote adds a voter who is not counted yet.
LEMMA VoteReckoned ==
    ASSUME TypeOK, NEW id \in Ids, NEW a \in Accounts, votes[id][a] = 0, Reckoned(id),
           State(id)' = "InProgress", extras'[id] = extras[id],
           NEW v \in {1, -1}, votes' = [votes EXCEPT ![id][a] = v],
           proposals'[id] = IF v = 1 THEN [Ballot(id) EXCEPT !.support = Append(@, a)]
                                     ELSE [Ballot(id) EXCEPT !.reject = Append(@, a)]
    PROVE  Reckoned(id)'
<1> DEFINE for == proposals[id].support
           against == proposals[id].reject
<1>1. for \in Seq(Accounts) /\ against \in Seq(Accounts)
      /\ votes \in [Ids -> [Accounts -> {0, 1, -1, 2}]]
  BY DEF TypeOK
<1>2. votes'[id] = [votes[id] EXCEPT ![a] = v]
  BY <1>1
<1>3. \A b \in Accounts : votes'[id][b] = IF b = a THEN v ELSE votes[id][b]
  BY <1>1, <1>2
<1>4. a \notin ToSet(for) /\ a \notin ToSet(against)
  BY DEF Reckoned, Voters
<1>5. IsInjective(Append(for, a)) /\ IsInjective(Append(against, a))
  BY <1>1, <1>4, AppendOnce DEF Reckoned
<1>6. /\ ToSet(Append(for, a)) = ToSet(for) \cup {a}
      /\ ToSet(Append(against, a)) = ToSet(against) \cup {a}
  BY <1>1, AppendNames
<1>7. \/ proposals'[id].support = Append(for, a) /\ proposals'[id].reject = against
      \/ proposals'[id].support = for /\ proposals'[id].reject = Append(against, a)
  BY BallotLists
<1> HIDE DEF for, against
<1>8. /\ IsInjective(for) /\ IsInjective(against) /\ ToSet(for) \cap ToSet(against) = {}
      /\ ToSet(for) \cup ToSet(against) = {b \in Accounts : votes[id][b] # 0}
      /\ extras[id].settled = Cardinality(CountedVotes(id))
  BY DEF Reckoned, Voters, for, against
<1>9. /\ IsInjective(proposals'[id].support) /\ IsInjective(proposals'[id].reject)
      /\ ToSet(proposals'[id].support) \cap ToSet(proposals'[id].reject) = {}
      /\ ToSet(proposals'[id].support) \cup ToSet(proposals'[id].reject)
            = ToSet(for) \cup ToSet(against) \cup {a}
  BY <1>4, <1>5, <1>6, <1>7, <1>8
<1>10. {b \in Accounts : votes'[id][b] # 0} = {b \in Accounts : votes[id][b] # 0} \cup {a}
  BY <1>3
<1>11. CountedVotes(id)' = CountedVotes(id)
  BY <1>3 DEF CountedVotes
<1>12. QED BY <1>8, <1>9, <1>10, <1>11 DEF Reckoned, Voters

\* A batch marks the voters it counts, and adds their number to the counter.
LEMMA BatchReckoned ==
    ASSUME TypeOK, ExtrasShaped, NEW id \in Ids, NEW batch \in SUBSET Accounts,
           EndFullPropose(id, batch), Reckoned(id)
    PROVE  Reckoned(id)'
<1> DEFINE counted == {a \in batch : votes[id][a] \in {1, -1}}
           for == proposals[id].support
           against == proposals[id].reject
           total == extras[id].settled + Cardinality(counted)
<1>1. /\ for \in Seq(Accounts) /\ against \in Seq(Accounts) /\ proposals \in [Ids -> Proposal]
      /\ votes \in [Ids -> [Accounts -> {0, 1, -1, 2}]] /\ DOMAIN extras = Ids
      /\ proposals[id] \in Proposal
  BY DEF TypeOK, Proposal
<1>2. State(id) = "InProgress"
  BY DEF EndFullPropose
<1>3. PICK agree, reject, all :
         LET tally == [extras[id] EXCEPT !.agree = agree, !.reject = reject,
                                         !.settled = @ + Cardinality(counted), !.total = all]
         IN  /\ extras' = [extras EXCEPT ![id] = tally]
             /\ proposals' = IF AllCounted(id, tally.settled)
                             THEN [proposals EXCEPT ![id].state = FullOutcome(tally)]
                             ELSE proposals
  BY DEF EndFullPropose
<1>4. "settled" \in DOMAIN extras[id]
  BY DEF ExtrasShaped, NoExtra
<1>5. PICK tally :
         /\ tally.settled = total /\ extras' = [extras EXCEPT ![id] = tally]
         /\ proposals' = IF AllCounted(id, total)
                         THEN [proposals EXCEPT ![id].state = FullOutcome(tally)]
                         ELSE proposals
  BY <1>3, <1>4
<1>6. extras'[id].settled = total
  BY <1>1, <1>5
<1>7. \A a \in Accounts : votes'[id][a] = IF a \in counted THEN 2 ELSE votes[id][a]
  <2>1. votes' = CountedMark(id, counted)
    BY DEF EndFullPropose
  <2>2. votes'[id] = [a \in Accounts |-> IF a \in counted THEN 2 ELSE votes[id][a]]
    BY <1>1, <2>1 DEF CountedMark
  <2>3. QED BY <2>2
<1>8. PICK state : proposals' \in {proposals,
                      [proposals EXCEPT ![id] = [proposals[id] EXCEPT !.state = state]]}
  BY <1>5
<1>9. proposals'[id].support = for /\ proposals'[id].reject = against
  BY <1>1, <1>8 DEF Proposal
<1>10. ~ AllCounted(id, total) => proposals'[id].state = "InProgress"
  BY <1>2, <1>5 DEF State
<1>11. /\ IsInjective(for) /\ IsInjective(against) /\ ToSet(for) \cap ToSet(against) = {}
       /\ ToSet(for) \cup ToSet(against) = {a \in Accounts : votes[id][a] # 0}
       /\ extras[id].settled = Cardinality(CountedVotes(id))
  BY DEF Reckoned, Voters
<1>12. /\ IsFiniteSet(ToSet(for)) /\ Cardinality(ToSet(for)) = Len(for)
       /\ IsFiniteSet(ToSet(against)) /\ Cardinality(ToSet(against)) = Len(against)
       /\ Len(for) \in Nat /\ Len(against) \in Nat
  BY <1>1, <1>11, CountOnce
<1> DEFINE voters == ToSet(for) \cup ToSet(against)
<1>13. counted \subseteq Accounts /\ \A a \in counted : votes[id][a] \in {1, -1}
  OBVIOUS
<1>14. AllCounted(id, total) <=> total = Len(for) + Len(against)
  BY DEF AllCounted
<1> HIDE DEF counted, for, against, total
<1>15. IsFiniteSet(voters) /\ Cardinality(voters) = Len(for) + Len(against)
  <2>1. /\ IsFiniteSet(voters)
        /\ Cardinality(voters) = Len(for) + Len(against) - Cardinality(ToSet(for) \cap ToSet(against))
    BY <1>12, FS_Union
  <2>2. Cardinality(ToSet(for) \cap ToSet(against)) = 0
    BY <1>11, FS_EmptySet
  <2>3. QED BY <1>12, <2>1, <2>2
<1>16. /\ CountedVotes(id) \subseteq voters /\ counted \subseteq voters
       /\ CountedVotes(id) \cap counted = {}
  BY <1>11, <1>13 DEF CountedVotes
<1>17. CountedVotes(id)' = CountedVotes(id) \cup counted
  BY <1>7, <1>13 DEF CountedVotes
<1>18. /\ CountedVotes(id)' \subseteq voters
       /\ Cardinality(CountedVotes(id)') = total
  <2>1. IsFiniteSet(CountedVotes(id)) /\ IsFiniteSet(counted)
    BY <1>15, <1>16, FS_Subset
  <2>2. /\ Cardinality(CountedVotes(id)) \in Nat /\ Cardinality(counted) \in Nat
        /\ Cardinality(CountedVotes(id) \cap counted) = 0
    BY <1>16, <2>1, FS_CardinalityType, FS_EmptySet
  <2>3. Cardinality(CountedVotes(id) \cup counted)
            = Cardinality(CountedVotes(id)) + Cardinality(counted)
    <3>1. Cardinality(CountedVotes(id) \cup counted) = Cardinality(CountedVotes(id))
             + Cardinality(counted) - Cardinality(CountedVotes(id) \cap counted)
      BY <2>1, FS_Union
    <3>2. QED BY <2>2, <3>1
  <2>4. QED BY <1>11, <1>16, <1>17, <2>3 DEF total
<1>19. AllCounted(id, total) => voters \subseteq CountedVotes(id)'
  BY <1>14, <1>15, <1>18, FS_Subset
<1>20. voters = {a \in Accounts : votes'[id][a] # 0}
  BY <1>7, <1>11, <1>13
<1>21. QED BY <1>6, <1>9, <1>10, <1>11, <1>18, <1>19, <1>20 DEF Reckoned, Voters, State

\* A full proposal in progress is out of reach of the functions that settle the
\* others: those that do not ask find only upgrades.
LEMMA DecidingReckoned ==
    ASSUME TypeOK, SeatsOnce, BookInv, UpgradesOrdinary, SlotsHold, DecidingStep,
           NEW id \in Ids, extras[id].full, Reckoned(id)
    PROVE  Reckoned(id)'
<1>1. PICK j \in Ids :
         /\ proposals'[j] \in {Settled(j), Executed(j)}
         /\ proposals'[j] = Settled(j) \/ Settled(j).state = "Accepted"
         /\ \A i \in Ids \ {j} : proposals'[i] = proposals[i]
         /\ UNCHANGED <<extras, votes>>
         /\ CanSettle(j) \/ \E t \in UpgradeTargets : upgradeSlot[t] = j
  BY DecidingFate
<1>2. CASE id # j
  BY <1>1, <1>2 DEF Reckoned, Voters, CountedVotes, State
<1>3. CASE id = j
  <2>1. CanSettle(id)
    <3>1. ASSUME NEW t \in UpgradeTargets, upgradeSlot[t] = id PROVE FALSE
      <4>1. id # 0
        BY DEF Ids
      <4>2. IsOrdinary(id)
        BY <3>1, <4>1 DEF SlotsHold, UpgradesOrdinary
      <4>3. QED BY <4>2 DEF IsOrdinary
    <3>2. QED BY <1>1, <1>3, <3>1
  <2>2. State(id) # "InProgress"
    BY <2>1 DEF CanSettle, IsOrdinary
  <2>3. /\ proposals'[id].support = proposals[id].support
        /\ proposals'[id].reject = proposals[id].reject
    BY <1>1, <1>3, SettledFields
  <2>4. QED BY <1>1, <2>2, <2>3 DEF Reckoned, Voters, CountedVotes
<1>4. QED BY <1>2, <1>3

LEMMA NothingSettled == \A e \in Extras : e.settled = 0
<1>1. NoExtra.settled = 0
  BY DEF NoExtra
<1>2. ASSUME NEW e \in Extras PROVE e.settled = NoExtra.settled
  BY DEF Extras, NoExtra
<1>3. QED BY <1>1, <1>2

LEMMA ReckonedStep ==
    ASSUME TypeOK, SeatsOnce, BookInv, UpgradesOrdinary, SlotsHold, AllReckoned, [Next]_vars
    PROVE  AllReckoned'
<1> SUFFICES ASSUME NEW id \in Ids, extras'[id].full PROVE Created(id)' /\ Reckoned(id)'
  BY DEF AllReckoned
<1>0. ExtrasShaped /\ Fresh
  BY DEF BookInv
<1>1. CASE ~ Created(id)
  <2>1. ~ extras[id].full
    BY <1>1 DEF AllReckoned
  <2>2. Birth(id) /\ votes'[id] = votes[id]
    BY <1>1, <2>1, EachBirth
  <2>3. votes'[id] = [a \in Accounts |-> 0]
    BY <1>0, <1>1, <2>2 DEF Fresh
  <2>4. extras'[id].settled = 0
    BY <2>2, NothingSettled DEF Birth
  <2>5. ToSet(<<>>) = {} /\ IsInjective(<<>>)
    BY DEF ToSet, IsInjective
  <2>6. CountedVotes(id)' = {} /\ {a \in Accounts : votes'[id][a] # 0} = {}
    BY <2>3 DEF CountedVotes
  <2>7. Cardinality(CountedVotes(id)') = 0
    BY <2>6, FS_EmptySet
  <2>8. QED BY <2>2, <2>4, <2>5, <2>6, <2>7 DEF Birth, Reckoned, Voters, State, Created
<1>2. ASSUME Created(id) PROVE Created(id)' /\ extras[id].full /\ Reckoned(id)
  BY <1>2, EachFate DEF Fate, AllReckoned
<1>3. ASSUME Created(id), proposals'[id] = proposals[id], extras'[id] = extras[id],
             votes'[id] = votes[id]
      PROVE  Reckoned(id)'
  BY <1>2, <1>3 DEF Reckoned, Voters, CountedVotes, State
<1>4. CASE Created(id) /\ NewStep
  <2>1. id # curProposalId
    BY <1>0, <1>4, NewFate
  <2>2. proposals'[id] = proposals[id] /\ extras'[id] = extras[id] /\ votes'[id] = votes[id]
    BY <1>0, <1>4, <2>1, NewFate
  <2>3. QED BY <1>2, <1>3, <1>4, <2>2
<1>5. CASE Created(id) /\ VotingStep
  <2>1. PICK j \in Ids, a \in Accounts, v \in {1, -1} :
           /\ State(j) = "InProgress" /\ State(j)' = State(j)
           /\ votes[j][a] = 0 /\ votes' = [votes EXCEPT ![j][a] = v]
           /\ proposals'[j] = IF v = 1 THEN [Ballot(j) EXCEPT !.support = Append(@, a)]
                                       ELSE [Ballot(j) EXCEPT !.reject = Append(@, a)]
           /\ \A i \in Ids \ {j} : proposals'[i] = proposals[i] /\ votes'[i] = votes[i]
           /\ extras' = extras
    BY <1>0, <1>5, VotingFate
  <2>2. CASE id = j
    BY <1>2, <1>5, <2>1, <2>2, VoteReckoned
  <2>3. CASE id # j
    BY <1>2, <1>3, <1>5, <2>1, <2>3
  <2>4. QED BY <2>2, <2>3
<1>6. CASE Created(id) /\ BatchStep
  <2>1. PICK j \in Ids, batch \in SUBSET Accounts : EndFullPropose(j, batch)
    BY <1>6 DEF BatchStep
  <2>2. CASE id = j
    BY <1>0, <1>2, <1>6, <2>1, <2>2, BatchReckoned
  <2>3. CASE id # j
    <3>1. proposals'[id] = proposals[id] /\ votes'[id] = votes[id] /\ extras'[id] = extras[id]
      BY <2>1, <2>3 DEF EndFullPropose, CountedMark, TypeOK
    <3>2. QED BY <1>2, <1>3, <1>6, <3>1
  <2>4. QED BY <2>2, <2>3
<1>7. CASE Created(id) /\ DecidingStep
  BY <1>2, <1>7, DecidingReckoned
<1>8. CASE Created(id) /\ RestStep
  BY <1>2, <1>3, <1>8 DEF RestStep
<1>9. QED BY <1>1, <1>2, <1>4, <1>5, <1>6, <1>7, <1>8, HistoryKinds

\* However its voters are cut into batches, and however often one of them is sent,
\* a full proposal is decided by every one of its voters, each counted once.
THEOREM EveryVoteCounted == LegacySpec => []AllVotesCounted
<1>1. EitherInit => SlotsHold /\ AllReckoned
  <2>1. EitherInit => /\ upgradeSlot = [t \in UpgradeTargets |-> 0]
                      /\ extras = [id \in Ids |-> NoExtra]
    BY LegacyStarts DEF EitherInit, Init
  <2>2. ~ NoExtra.full
    BY DEF NoExtra
  <2>3. QED BY <2>1, <2>2 DEF SlotsHold, AllReckoned
<1>2. ElectionInv /\ SlotsHold /\ AllReckoned /\ [Next]_vars => SlotsHold' /\ AllReckoned'
  BY SlotsHoldStep, ReckonedStep DEF ElectionInv, BallotInv, SeatsInv
<1>3. AllReckoned => AllVotesCounted
  <2> SUFFICES ASSUME AllReckoned, NEW id \in Ids, extras[id].full
               PROVE  /\ extras[id].settled = Cardinality(CountedVotes(id))
                      /\ State(id) # "InProgress" => \A a \in Voters(id) : votes[id][a] = 2
    BY DEF AllVotesCounted, CountedVotes
  <2>1. Reckoned(id)
    BY DEF AllReckoned
  <2>2. QED BY <2>1 DEF Reckoned, CountedVotes
<1>4. QED BY <1>1, <1>2, <1>3, ElectionInvariant, PTL DEF LegacySpec

-----------------------------------------------------------------------------
(* The tokens behind a count *)

\* The supplies are the sums of the balances.
TokensMatch ==
    /\ normalBalance \in [Accounts -> Nat] /\ devBalance \in [Accounts -> Nat]
    /\ normalSupply = SumFunctionOnSet(normalBalance, Accounts)
    /\ devReleased = SumFunctionOnSet(devBalance, Accounts)

Converting   == \E a \in Accounts, n \in ConvertAmounts : Dev2Normal(a, n)
Transferring == \E a, b \in Accounts, n \in TransferAmounts : TransferNormal(a, b, n)

LEMMA TokenKinds ==
    ASSUME [Next]_vars
    PROVE  UNCHANGED tokenVars \/ Converting \/ Transferring
<1>1. CASE Tick \/ ReleaseFinalVersion \/ UNCHANGED vars
  BY <1>1, Zenon DEF Tick, ReleaseFinalVersion, vars
<1>2. ASSUME NEW from, NEW d, NEW params, NEW extra, Create(from, d, params, extra)
      PROVE  UNCHANGED tokenVars
  BY <1>2, Zenon DEF Create
<1>3. ASSUME NEW c \in DaoContracts, NEW d \in Durations, NEW topic \in Topics,
             \/ Propose(c, d, topic)
             \/ \E threshold \in Thresholds : FullPropose(c, d, topic, threshold)
      PROVE  UNCHANGED tokenVars
  BY <1>2, <1>3, Zenon DEF Propose, FullPropose, CreateOrdinary, CreateFull
<1>4. ASSUME NEW a \in Accounts,
             \/ \E m \in AddTargets : PrepareAddMember(a, m)
             \/ \E m \in RemoveTargets : PrepareRemoveMember(a, m)
             \/ \E list \in Replacements : PrepareSetCommittees(a, list)
             \/ \E list \in FullReplacements : PrepareFullSetCommittees(a, list)
             \/ \E r \in RatioChoices : PrepareSetDevRatio(a, r)
             \/ \E t \in UpgradeTargets, i \in Implementations : PrepareContractUpgrade(a, t, i)
      PROVE  UNCHANGED tokenVars
  BY <1>2, <1>4, Zenon DEF PrepareAddMember, PrepareRemoveMember, PrepareSetCommittees,
     PrepareFullSetCommittees, PrepareSetDevRatio, PrepareContractUpgrade, CreateOrdinary, CreateFull
<1>5. ASSUME NEW a \in Accounts, NEW t \in UpgradeTargets, CancelContractUpgrade(a, t)
      PROVE  UNCHANGED tokenVars
  BY <1>5, Zenon DEF CancelContractUpgrade
<1>6. ASSUME NEW id \in Ids, NEW a \in Accounts, Support(id, a) \/ Reject(id, a)
      PROVE  UNCHANGED tokenVars
  BY <1>6, Zenon DEF Support, Reject, CastVote
<1>7. ASSUME NEW id \in Ids, NEW batch \in SUBSET Accounts, EndFullPropose(id, batch)
      PROVE  UNCHANGED tokenVars
  BY <1>7, Zenon DEF EndFullPropose
<1>8. ASSUME NEW id, NEW params, Execute(id, params)
      PROVE  UNCHANGED tokenVars
  BY <1>8, Zenon DEF Execute
<1>9. ASSUME NEW id \in Ids,
             \/ SettleProposal(id)
             \/ \E a \in Accounts \cup DaoContracts : SetProposalExecuted(a, id)
      PROVE  UNCHANGED tokenVars
  BY <1>9, Zenon DEF SettleProposal, SetProposalExecuted
<1>10. ASSUME NEW id \in Ids,
              \/ \E m \in AddTargets : AddCommitteeMember(m, id)
              \/ \E m \in RemoveTargets : RemoveCommitteeMember(m, id)
              \/ \E list \in Replacements \cup FullReplacements : SetCommittees(list, id)
              \/ \E r \in RatioChoices : SetDevRatio(r, id)
       PROVE  UNCHANGED tokenVars
  BY <1>8, <1>10, Zenon DEF AddCommitteeMember, RemoveCommitteeMember, SetCommittees, SetDevRatio
<1>11. ASSUME NEW proxy \in Proxies, NEW impl \in Implementations, UpgradeToAndCall(proxy, impl)
       PROVE  UNCHANGED tokenVars
  BY <1>8, <1>11, Zenon DEF UpgradeToAndCall
<1>12. ASSUME NEW t \in UpgradeTargets \ Proxies, NEW impl \in Implementations,
              VerifyContractUpgrade(t, impl)
       PROVE  UNCHANGED tokenVars
  BY <1>12, Zenon DEF VerifyContractUpgrade
<1> QED BY <1>1, <1>3, <1>4, <1>5, <1>6, <1>7, <1>9, <1>10, <1>11, <1>12
        DEF Next, Converting, Transferring

LEMMA BalancesCount ==
    ASSUME TokensMatch
    PROVE  /\ Counts(normalBalance, Accounts) /\ Counts(devBalance, Accounts)
           /\ normalSupply \in Nat /\ devReleased \in Nat
<1>1. Counts(normalBalance, Accounts) /\ Counts(devBalance, Accounts)
  BY TokenAssumption DEF TokensMatch, Counts
<1> QED BY <1>1, SumType DEF TokensMatch

\* A conversion and a transfer keep the sums.
LEMMA ConversionMatches ==
    ASSUME TokensMatch, NEW a \in Accounts, NEW n \in ConvertAmounts, Dev2Normal(a, n)
    PROVE  TokensMatch'
<1>1. n \in Nat /\ devBalance[a] \in Nat /\ normalBalance[a] \in Nat /\ devBalance[a] >= n
  BY TokenAssumption DEF TokensMatch, Dev2Normal
<1>2. PICK f, g, h, k : f = devBalance /\ g = devBalance' /\ h = normalBalance /\ k = normalBalance'
  OBVIOUS
<1>3. f[a] - n \in Nat /\ h[a] + n \in Nat
  BY <1>1, <1>2
<1>4. g = [f EXCEPT ![a] = f[a] - n] /\ k = [h EXCEPT ![a] = h[a] + n]
  BY <1>2 DEF Dev2Normal
<1>5. f \in [Accounts -> Nat] /\ h \in [Accounts -> Nat]
  BY <1>2 DEF TokensMatch
<1>6. g \in [Accounts -> Nat] /\ k \in [Accounts -> Nat]
  BY <1>3, <1>4, <1>5
<1>7. Counts(f, Accounts) /\ Counts(g, Accounts) /\ Counts(h, Accounts) /\ Counts(k, Accounts)
  BY <1>5, <1>6, TokenAssumption DEF Counts
<1>8. \A x \in Accounts : x # a => f[x] = g[x] /\ h[x] = k[x]
  BY <1>4, <1>5
<1>9. PICK F, G, H, K : /\ F = SumFunctionOnSet(f, Accounts) /\ G = SumFunctionOnSet(g, Accounts)
                        /\ H = SumFunctionOnSet(h, Accounts) /\ K = SumFunctionOnSet(k, Accounts)
  OBVIOUS
<1>10. F \in Nat /\ G \in Nat /\ H \in Nat /\ K \in Nat
  BY <1>7, <1>9, SumType
<1>11. G + f[a] = F + g[a] /\ K + h[a] = H + k[a]
  <2>1. G + f[a] = F + g[a]
    BY <1>7, <1>8, <1>9, SumChanged
  <2>2. K + h[a] = H + k[a]
    BY <1>7, <1>8, <1>9, SumChanged
  <2> QED BY <2>1, <2>2
<1>12. g[a] = f[a] - n /\ k[a] = h[a] + n
  BY <1>4, <1>5
<1>13. G = F - n /\ K = H + n
  BY <1>1, <1>2, <1>10, <1>11, <1>12
<1>14. devReleased' = F - n /\ normalSupply' = H + n
  BY <1>2, <1>9 DEF Dev2Normal, TokensMatch
<1> QED BY <1>2, <1>6, <1>9, <1>13, <1>14 DEF TokensMatch

LEMMA TransferMatches ==
    ASSUME TokensMatch, NEW a \in Accounts, NEW b \in Accounts, NEW n \in TransferAmounts,
           TransferNormal(a, b, n)
    PROVE  TokensMatch'
<1>1. /\ n \in Nat /\ a # b /\ normalBalance[a] \in Nat /\ normalBalance[b] \in Nat
      /\ normalBalance[a] >= n
  BY TokenAssumption DEF TokensMatch, TransferNormal
<1>2. PICK h, k : h = normalBalance /\ k = normalBalance'
  OBVIOUS
<1> DEFINE m == [h EXCEPT ![a] = h[a] - n]
<1>3. h[a] - n \in Nat /\ h[b] + n \in Nat /\ h \in [Accounts -> Nat]
  BY <1>1, <1>2 DEF TokensMatch
<1>4. k = [h EXCEPT ![a] = h[a] - n, ![b] = h[b] + n]
  BY <1>1, <1>2, <1>3 DEF TransferNormal
<1>5. m \in [Accounts -> Nat] /\ k \in [Accounts -> Nat]
  BY <1>3, <1>4
<1>6. /\ \A x \in Accounts : x # a => h[x] = m[x]
      /\ \A x \in Accounts : x # b => m[x] = k[x]
      /\ m[a] = h[a] - n /\ m[b] = h[b] /\ k[b] = h[b] + n
  BY <1>1, <1>3, <1>4
<1> HIDE DEF m
<1>7. Counts(h, Accounts) /\ Counts(m, Accounts) /\ Counts(k, Accounts)
  BY <1>3, <1>5, TokenAssumption DEF Counts
<1>8. PICK H, M, K : /\ H = SumFunctionOnSet(h, Accounts) /\ M = SumFunctionOnSet(m, Accounts)
                     /\ K = SumFunctionOnSet(k, Accounts)
  OBVIOUS
<1>9. H \in Nat /\ M \in Nat /\ K \in Nat
  BY <1>7, <1>8, SumType
<1>10. M + h[a] = H + m[a]
  BY <1>6, <1>7, <1>8, SumChanged
<1>11. K + m[b] = M + k[b]
  BY <1>6, <1>7, <1>8, SumChanged
<1>12. K = H
  <2>1. PICK x, y \in Nat : x = h[a] /\ y = h[b]
    BY <1>1, <1>2
  <2>2. M + x = H + (x - n) /\ K + y = M + (y + n) /\ x >= n
    BY <1>1, <1>2, <1>6, <1>10, <1>11, <2>1
  <2> QED BY <1>1, <1>9, <2>1, <2>2
<1>13. UNCHANGED <<normalSupply, devBalance, devReleased>>
  BY DEF TransferNormal
<1> QED BY <1>2, <1>5, <1>8, <1>12, <1>13 DEF TokensMatch

LEMMA TokensStep == ASSUME TokensMatch, [Next]_vars PROVE TokensMatch'
<1>1. CASE UNCHANGED tokenVars
  BY <1>1 DEF tokenVars, TokensMatch
<1>2. CASE Converting
  BY <1>2, ConversionMatches DEF Converting
<1>3. CASE Transferring
  BY <1>3, TransferMatches DEF Transferring
<1> QED BY <1>1, <1>2, <1>3, TokenKinds

LEMMA TokensInit == EitherInit => TokensMatch
<1>1. DOMAIN NormalHoldings = Accounts /\ DOMAIN DevHoldings = Accounts
  BY TokenAssumption
<1>2. Init => TokensMatch
  BY <1>1, TokenAssumption DEF Init, TokensMatch, SumFunction
<1>3. LegacyInit => TokensMatch
  BY <1>1, TokenAssumption, LegacyStarts DEF TokensMatch, SumFunction
<1> QED BY <1>2, <1>3 DEF EitherInit

\* A hundredth, rounded down.
LEMMA HundredthBelow ==
    ASSUME NEW m \in Nat, NEW n \in Nat
    PROVE  /\ m \div 100 \in Nat /\ 100 * (m \div 100) <= m
           /\ m <= n => m \div 100 <= n \div 100
           /\ 100 * m <= n => m <= n \div 100
<1>1. /\ m \div 100 \in Nat /\ 100 * (m \div 100) <= m /\ m < 100 * (m \div 100) + 100
      /\ n \div 100 \in Nat /\ 100 * (n \div 100) <= n /\ n < 100 * (n \div 100) + 100
  OBVIOUS
<1> QED BY <1>1

\* What an account weighs, when its tokens count by a ratio.
Weighs(normal, dev, ratio) == normal + (dev * ratio) \div 100

\* A conversion gains no weight, and a lower ratio does not either.
LEMMA WeightFalls ==
    ASSUME NEW b \in Nat, NEW d \in Nat, NEW n \in Nat, n <= d,
           NEW r \in Nat, NEW s \in Nat, s <= r, r >= 100
    PROVE  Weighs(b + n, d - n, s) <= Weighs(b, d, r)
<1>1. d - n \in Nat /\ (d - n) * s \in Nat /\ (d - n) * r \in Nat /\ d * r \in Nat /\ n * r \in Nat
  BY ProductType
<1>2. (d - n) * s <= (d - n) * r
  <2>1. PICK k \in Nat : r = s + k
    <3>1. r - s \in Nat /\ r = s + (r - s)
      OBVIOUS
    <3> QED BY <3>1
  <2>2. (d - n) * r = (d - n) * s + (d - n) * k /\ (d - n) * k \in Nat
    BY <1>1, <2>1
  <2> QED BY <1>1, <2>2
<1>3. (d - n) * r = d * r - n * r
  OBVIOUS
<1>4. n * r >= n * 100
  <2>1. PICK k \in Nat : r = 100 + k
    <3>1. r - 100 \in Nat /\ r = 100 + (r - 100)
      OBVIOUS
    <3> QED BY <3>1
  <2>2. n * r = n * 100 + n * k /\ n * k \in Nat
    BY <2>1
  <2> QED BY <2>2
<1>5. PICK x, y, z : x = (d - n) * s /\ y = d * r /\ z = n * r
  OBVIOUS
<1>6. x \in Nat /\ y \in Nat /\ z \in Nat /\ x <= y - z /\ z >= n * 100
  BY <1>1, <1>2, <1>3, <1>4, <1>5
<1>7. x + n * 100 <= y
  BY <1>6
<1>8. PICK q : q = x \div 100
  OBVIOUS
<1>9. q \in Nat /\ 100 * q <= x
  BY <1>6, <1>8, HundredthBelow
<1>10. 100 * (q + n) <= y
  BY <1>6, <1>7, <1>9
<1>11. q + n <= y \div 100 /\ y \div 100 \in Nat
  BY <1>6, <1>9, <1>10, HundredthBelow
<1>12. Weighs(b + n, d - n, s) = (b + n) + q /\ Weighs(b, d, r) = b + y \div 100
  BY <1>5, <1>8 DEF Weighs
<1> QED BY <1>9, <1>11, <1>12

LEMMA RatioFalls ==
    ASSUME NEW b \in Nat, NEW d \in Nat, NEW r \in Nat, NEW s \in Nat, s <= r, r >= 100
    PROVE  Weighs(b, d, s) <= Weighs(b, d, r)
<1>1. PICK n \in Nat : n = 0
  OBVIOUS
<1>2. n <= d /\ b + n = b /\ d - n = d
  BY <1>1
<1>3. Weighs(b + n, d - n, s) <= Weighs(b, d, r)
  BY <1>2, WeightFalls
<1> QED BY <1>2, <1>3

LEMMA WeightIs ==
    ASSUME TokensMatch, NEW a \in Accounts, NEW r \in Nat
    PROVE  /\ Weight(a, r) = Weighs(normalBalance[a], devBalance[a], r)
           /\ Weight(a, r) \in Nat
<1>1. normalBalance[a] \in Nat /\ devBalance[a] \in Nat
  BY DEF TokensMatch
<1>2. PICK x : x = devBalance[a] * r
  OBVIOUS
<1>3. x \in Nat /\ x \div 100 \in Nat
  BY <1>1, <1>2, ProductType, HundredthBelow
<1> QED BY <1>1, <1>2, <1>3 DEF Weight, Weighs

\* All accounts together weigh no more than the supplies do.
LEMMA AllWeigh ==
    ASSUME TokensMatch, NEW r \in Nat, NEW w, \A a \in Accounts : w[a] = Weight(a, r)
    PROVE  /\ Counts(w, Accounts)
           /\ SumFunctionOnSet(w, Accounts) <= (devReleased * r) \div 100 + normalSupply
<1> DEFINE whole == [a \in Accounts |-> r * devBalance[a]]
           part  == [a \in Accounts |-> (devBalance[a] * r) \div 100]
           hundredfold == [a \in Accounts |-> 100 * part[a]]
<1>1. ASSUME NEW a \in Accounts
      PROVE  /\ normalBalance[a] \in Nat /\ devBalance[a] \in Nat /\ whole[a] \in Nat
             /\ part[a] \in Nat /\ 100 * part[a] <= whole[a] /\ hundredfold[a] \in Nat
             /\ w[a] = normalBalance[a] + part[a]
  <2>1. normalBalance[a] \in Nat /\ devBalance[a] \in Nat
    BY DEF TokensMatch
  <2>2. PICK x : x = devBalance[a] * r
    OBVIOUS
  <2>3. x \in Nat /\ whole[a] = x /\ part[a] = x \div 100
    BY <2>1, <2>2, ProductType
  <2>4. part[a] \in Nat /\ 100 * part[a] <= whole[a]
    BY <2>3, HundredthBelow
  <2>5. w[a] = normalBalance[a] + part[a]
    BY DEF Weight
  <2> HIDE DEF part, whole
  <2>6. 100 * part[a] \in Nat
    BY <2>4
  <2> QED BY <2>1, <2>3, <2>4, <2>5, <2>6
<1>2. \A a \in Accounts : hundredfold[a] = 100 * part[a] /\ whole[a] = r * devBalance[a]
  OBVIOUS
<1> HIDE DEF whole, part, hundredfold
<1>3. /\ Counts(normalBalance, Accounts) /\ Counts(devBalance, Accounts) /\ Counts(whole, Accounts)
      /\ Counts(part, Accounts) /\ Counts(hundredfold, Accounts)
  BY <1>1, TokenAssumption DEF Counts
<1>4. SumFunctionOnSet(w, Accounts) = normalSupply + SumFunctionOnSet(part, Accounts)
  BY <1>1, <1>3, SumBoth DEF TokensMatch
<1>5. SumFunctionOnSet(whole, Accounts) = r * devReleased
  BY <1>2, <1>3, SumTimes DEF TokensMatch
<1>6. SumFunctionOnSet(hundredfold, Accounts) = 100 * SumFunctionOnSet(part, Accounts)
  BY <1>2, <1>3, SumTimes
<1>7. SumFunctionOnSet(hundredfold, Accounts) <= SumFunctionOnSet(whole, Accounts)
  BY <1>1, <1>2, <1>3, SumAtMost
<1>8. PICK p, m : p = SumFunctionOnSet(part, Accounts) /\ m = devReleased * r
  OBVIOUS
<1>9. p \in Nat /\ m \in Nat /\ normalSupply \in Nat /\ r * devReleased = m
  BY <1>3, <1>8, BalancesCount, SumType, ProductType
<1>10. 100 * p <= m
  BY <1>5, <1>6, <1>7, <1>8, <1>9
<1>11. p <= m \div 100 /\ m \div 100 \in Nat
  BY <1>9, <1>10, HundredthBelow
<1>12. Counts(w, Accounts)
  <2>1. \A a \in Accounts : w[a] \in Nat
    BY <1>1
  <2> QED BY <2>1, TokenAssumption DEF Counts
<1> QED BY <1>4, <1>8, <1>9, <1>11, <1>12

-----------------------------------------------------------------------------
(* One token, one vote *)

ExtraType == [full : BOOLEAN, threshold : Nat, agree : Nat, reject : Nat,
              settled : Nat, total : Nat]

\* What those weigh who are not counted yet.
Left(id) == [a \in Accounts |-> IF votes[id][a] = 2 THEN 0 ELSE Weight(a, devRatio)]

\* What is counted, and while a count is under way what is left to be counted,
\* stay within the total that the first batch has found.
Tally(id) ==
    /\ extras[id].agree + extras[id].reject <= extras[id].total
    /\ extras[id].total # 0 /\ State(id) = "InProgress" =>
          extras[id].agree + extras[id].reject + SumFunctionOnSet(Left(id), Accounts)
              <= extras[id].total

Tallied == extras \in [Ids -> ExtraType] /\ \A id \in Ids : Tally(id)

LEMMA LeftCounts ==
    ASSUME TypeOK, TokensMatch, NEW id \in Ids
    PROVE  Counts(Left(id), Accounts)
<1>1. devRatio \in Nat
  BY DEF TypeOK
<1>2. \A a \in Accounts : Weight(a, devRatio) \in Nat
  BY <1>1, WeightIs
<1> QED BY <1>2, TokenAssumption DEF Left, Counts

LEMMA RatioFloor == ASSUME TypeOK, RatioAboveFinal PROVE devRatio \in Nat /\ devRatio >= 100
  BY TokenAssumption DEF TypeOK, RatioAboveFinal

\* The sums of a batch, whatever votes it is made of: f for, g against, l left, and
\* b before it.
BatchSums(id, r, f, g, l, b, s) ==
    /\ extras' = [extras EXCEPT ![id] = [extras[id] EXCEPT
          !.agree = extras[id].agree + f, !.reject = extras[id].reject + g,
          !.settled = extras[id].settled + s,
          !.total = IF extras[id].total = 0 THEN (devReleased * r) \div 100 + normalSupply
                                            ELSE extras[id].total]]
    /\ l = SumFunctionOnSet(Left(id)', Accounts)
    /\ b = SumFunctionOnSet([a \in Accounts |->
              IF votes[id][a] = 2 THEN 0 ELSE Weight(a, r)], Accounts)
    /\ b = l + f + g

LEMMA BatchMoves ==
    ASSUME TypeOK, TokensMatch, NEW id \in Ids, NEW batch \in SUBSET Accounts,
           EndFullPropose(id, batch), NEW r \in Nat, r = devRatio'
    PROVE  \E f, g, l, b, s \in Nat : BatchSums(id, r, f, g, l, b, s)
<1> DEFINE counted == {a \in batch : votes[id][a] \in {1, -1}}
           F       == {a \in counted : votes[id][a] = 1}
           R       == {a \in counted : votes[id][a] = -1}
           w       == [a \in Accounts |-> Weight(a, r)]
           wf      == [a \in F |-> Weight(a, r)]
           wr      == [a \in R |-> Weight(a, r)]
           before  == [a \in Accounts |-> IF votes[id][a] = 2 THEN 0 ELSE Weight(a, r)]
           gone    == [a \in Accounts |-> IF a \in counted THEN w[a] ELSE 0]
           left    == [a \in Accounts |-> IF votes[id][a] = 2 \/ a \in counted THEN 0 ELSE w[a]]
<1>1. r = IF released THEN FinalRatio ELSE devRatio
  BY DEF EndFullPropose
<1>2. extras' = [extras EXCEPT ![id] = [extras[id] EXCEPT
            !.agree = extras[id].agree + SumFunction(wf),
            !.reject = extras[id].reject + SumFunction(wr),
            !.settled = extras[id].settled + Cardinality(counted),
            !.total = IF extras[id].total = 0 THEN (devReleased * r) \div 100 + normalSupply
                                              ELSE extras[id].total]]
  BY <1>1, Zenon DEF EndFullPropose
<1>3. Left(id)' = left
  <2>1. votes' = CountedMark(id, counted)
    BY DEF EndFullPropose
  <2>2. votes \in [Ids -> [Accounts -> {0, 1, -1, 2}]]
    BY DEF TypeOK
  <2>3. \A a \in Accounts : votes'[id][a] = IF a \in counted THEN 2 ELSE votes[id][a]
    BY <2>1, <2>2 DEF CountedMark
  <2>4. \A a \in Accounts : Weight(a, devRatio)' = Weight(a, r)
    BY DEF EndFullPropose, tokenVars, Weight
  <2> QED BY <2>3, <2>4 DEF Left
<1>4. /\ \A a \in Accounts : w[a] = Weight(a, r)
      /\ \A a \in F : wf[a] = w[a]
      /\ \A a \in R : wr[a] = w[a]
      /\ \A a \in counted : gone[a] = w[a]
      /\ \A a \in Accounts \ counted : gone[a] = 0
      /\ F \cap R = {} /\ F \cup R = counted /\ counted \in SUBSET Accounts
      /\ DOMAIN wf = F /\ DOMAIN wr = R
  OBVIOUS
<1>5. \A a \in Accounts : w[a] \in Nat
  BY WeightIs
<1>6. ASSUME NEW a \in Accounts
      PROVE  before[a] \in Nat /\ gone[a] \in Nat /\ left[a] \in Nat /\ before[a] = left[a] + gone[a]
  <2>1. PICK x \in Nat : x = w[a]
    BY <1>5
  <2>2. CASE a \in counted
    <3>1. votes[id][a] # 2
      BY <2>2
    <3> QED BY <2>1, <2>2, <3>1
  <2>3. CASE a \notin counted
    BY <2>1, <2>3
  <2> QED BY <2>2, <2>3
<1>7. IsFiniteSet(Accounts) /\ IsFiniteSet(counted) /\ IsFiniteSet(F) /\ IsFiniteSet(R)
  BY <1>4, TokenAssumption, FS_Subset
<1> HIDE DEF counted, F, R, w, wf, wr, gone, left, before
<1>8. Counts(w, Accounts) /\ Counts(gone, Accounts) /\ Counts(left, Accounts)
  BY <1>5, <1>6, <1>7 DEF Counts
<1>9. Counts(w, F) /\ Counts(w, R)
  BY <1>4, <1>8, CountsParts
<1>10. SumFunction(wf) = SumFunctionOnSet(w, F)
  BY <1>4, <1>7, SumSame DEF SumFunction
<1>11. SumFunction(wr) = SumFunctionOnSet(w, R)
  BY <1>4, <1>7, SumSame DEF SumFunction
<1>12. SumFunctionOnSet(gone, Accounts) = SumFunctionOnSet(gone, counted)
  BY <1>4, <1>8, SumOfPart
<1>13. SumFunctionOnSet(gone, counted) = SumFunctionOnSet(w, counted)
  BY <1>4, <1>7, SumSame
<1>14. SumFunctionOnSet(w, counted) = SumFunctionOnSet(w, F) + SumFunctionOnSet(w, R)
  BY <1>4, <1>9, SumUnion
<1>15. SumFunctionOnSet(before, Accounts)
         = SumFunctionOnSet(left, Accounts) + SumFunctionOnSet(gone, Accounts)
  BY <1>6, <1>8, SumBoth
<1>16. PICK f, g, l, b : /\ f = SumFunctionOnSet(w, F) /\ g = SumFunctionOnSet(w, R)
                         /\ l = SumFunctionOnSet(left, Accounts)
                         /\ b = SumFunctionOnSet(before, Accounts)
  OBVIOUS
<1>17. f \in Nat /\ g \in Nat /\ l \in Nat
  BY <1>8, <1>9, <1>16, SumType
<1>18. b = l + f + g /\ b \in Nat
  BY <1>12, <1>13, <1>14, <1>15, <1>16, <1>17
<1>19. Cardinality(counted) \in Nat
  BY <1>7, FS_CardinalityType
<1>20. extras' = [extras EXCEPT ![id] = [extras[id] EXCEPT
            !.agree = extras[id].agree + f, !.reject = extras[id].reject + g,
            !.settled = extras[id].settled + Cardinality(counted),
            !.total = IF extras[id].total = 0 THEN (devReleased * r) \div 100 + normalSupply
                                              ELSE extras[id].total]]
  BY <1>2, <1>10, <1>11, <1>16, Zenon
<1>21. l = SumFunctionOnSet(Left(id)', Accounts)
  BY <1>3, <1>16
<1>22. b = SumFunctionOnSet([a \in Accounts |->
               IF votes[id][a] = 2 THEN 0 ELSE Weight(a, r)], Accounts)
  BY <1>16 DEF before
<1>23. BatchSums(id, r, f, g, l, b, Cardinality(counted))
  BY <1>18, <1>20, <1>21, <1>22, Zenon DEF BatchSums
<1> QED BY <1>17, <1>18, <1>19, <1>23, Zenon

\* A batch counts voters who were left until then.
LEMMA BatchTallied ==
    ASSUME TypeOK, TokensMatch, RatioAboveFinal, extras \in [Ids -> ExtraType],
           NEW id \in Ids, Tally(id), NEW batch \in SUBSET Accounts, EndFullPropose(id, batch),
           extras[id].total # 0 => devRatio' <= devRatio, devRatio' \in Nat
    PROVE  extras' \in [Ids -> ExtraType] /\ Tally(id)'
<1>1. PICK r \in Nat : r = devRatio'
  OBVIOUS
<1> DEFINE w == [a \in Accounts |-> Weight(a, r)]
           before == [a \in Accounts |-> IF votes[id][a] = 2 THEN 0 ELSE Weight(a, r)]
<1>2. PICK e \in ExtraType : e = extras[id]
  OBVIOUS
<1>3. PICK t : t = (devReleased * r) \div 100 + normalSupply
  OBVIOUS
<1>4. PICK f, g, l, b, s \in Nat : BatchSums(id, r, f, g, l, b, s)
  BY <1>1, BatchMoves, Zenon
<1>5. \A a \in Accounts : Weight(a, r) \in Nat /\ before[a] \in Nat /\ before[a] <= w[a]
  BY WeightIs
<1> DEFINE later == [e EXCEPT
               !.agree = e.agree + f, !.reject = e.reject + g, !.settled = e.settled + s,
               !.total = IF e.total = 0 THEN t ELSE e.total]
<1>0. /\ extras' = [extras EXCEPT ![id] = later] /\ l = SumFunctionOnSet(Left(id)', Accounts)
      /\ b = SumFunctionOnSet(before, Accounts) /\ b = l + f + g
  BY <1>2, <1>3, <1>4, Zenon DEF BatchSums
<1>6. PICK A, R, T \in Nat : A = e.agree /\ R = e.reject /\ T = e.total
  BY <1>2 DEF ExtraType
<1>7. A + R <= T /\ (T # 0 => A + R + SumFunctionOnSet(Left(id), Accounts) <= T)
  BY <1>2, <1>6 DEF Tally, EndFullPropose
<1>8. Counts(w, Accounts) /\ Counts(before, Accounts) /\ SumFunctionOnSet(w, Accounts) <= t
  <2>1. \A a \in Accounts : w[a] = Weight(a, r)
    OBVIOUS
  <2>2. Counts(before, Accounts)
    BY <1>5, TokenAssumption DEF Counts
  <2> HIDE DEF w, before
  <2> QED BY <1>3, <2>1, <2>2, AllWeigh
<1>9. b <= SumFunctionOnSet(w, Accounts)
  <2> HIDE DEF w, before
  <2> QED BY <1>0, <1>4, <1>5, <1>8, SumAtMost
<1>10. t \in Nat
  <2>1. PICK x : x = devReleased * r
    OBVIOUS
  <2>2. x \in Nat /\ normalSupply \in Nat
    BY <2>1, BalancesCount, ProductType
  <2> QED BY <1>3, <2>1, <2>2, HundredthBelow
<1>11. later \in ExtraType
  <2>1. PICK total \in Nat : total = IF e.total = 0 THEN t ELSE e.total
    BY <1>6, <1>10
  <2>2. later = [e EXCEPT !.agree = e.agree + f, !.reject = e.reject + g,
                          !.settled = e.settled + s, !.total = total]
    BY <2>1
  <2>3. e.agree + f \in Nat /\ e.reject + g \in Nat /\ e.settled + s \in Nat
    BY <1>2 DEF ExtraType
  <2> QED BY <1>2, <2>2, <2>3 DEF ExtraType
<1>12. later.agree = A + f /\ later.reject = R + g /\ later.total = IF T = 0 THEN t ELSE T
  BY <1>2, <1>6 DEF ExtraType
<1> HIDE DEF w, before, later
<1>13. extras' \in [Ids -> ExtraType] /\ extras'[id] = later
  BY <1>0, <1>11
<1>14. ASSUME T # 0 PROVE b <= SumFunctionOnSet(Left(id), Accounts)
  <2>1. \A a \in Accounts : before[a] <= Left(id)[a]
    <3> SUFFICES ASSUME NEW a \in Accounts PROVE before[a] <= Left(id)[a]
      OBVIOUS
    <3>1. CASE votes[id][a] = 2
      BY <3>1 DEF before, Left
    <3>2. CASE votes[id][a] # 2
      <4>1. PICK n, d \in Nat : n = normalBalance[a] /\ d = devBalance[a]
        BY DEF TokensMatch
      <4>2. devRatio \in Nat /\ devRatio >= 100 /\ r <= devRatio
        BY <1>1, <1>2, <1>6, <1>14, RatioFloor
      <4>3. Weighs(n, d, r) <= Weighs(n, d, devRatio)
        BY <4>1, <4>2, RatioFalls
      <4>5. Weight(a, r) = Weighs(n, d, r) /\ Weight(a, devRatio) = Weighs(n, d, devRatio)
        BY <4>1, <4>2, WeightIs
      <4>6. before[a] = Weight(a, r) /\ Left(id)[a] = Weight(a, devRatio)
        BY <3>2 DEF before, Left
      <4> QED BY <4>3, <4>5, <4>6
    <3> QED BY <3>1, <3>2
  <2> QED BY <1>0, <1>4, <1>8, <2>1, LeftCounts, SumAtMost
<1>15. A + f + (R + g) + l <= later.total
  <2>1. CASE T = 0
    <3>1. A = 0 /\ R = 0 /\ later.total = t
      BY <1>6, <1>7, <1>12, <2>1
    <3>2. PICK z : z = SumFunctionOnSet(w, Accounts)
      OBVIOUS
    <3>3. z \in Nat /\ b <= z /\ z <= t
      BY <1>8, <1>9, <3>2, SumType
    <3> QED BY <1>0, <1>4, <1>10, <3>1, <3>3
  <2>2. CASE T # 0
    <3>1. PICK z : z = SumFunctionOnSet(Left(id), Accounts)
      OBVIOUS
    <3>2. z \in Nat /\ b <= z /\ A + R + z <= T
      BY <1>7, <1>14, <2>2, <3>1, LeftCounts, SumType
    <3> QED BY <1>0, <1>4, <1>6, <1>12, <2>2, <3>2
  <2> QED BY <2>1, <2>2
<1>16. later.total \in Nat
  BY <1>6, <1>10, <1>12
<1>17. A + f + (R + g) <= later.total
  BY <1>4, <1>6, <1>15, <1>16
<1>18. Tally(id)'
  BY <1>0, <1>4, <1>12, <1>13, <1>15, <1>17 DEF Tally
<1> QED BY <1>13, <1>18

\* What weighs no more stays within the total.
LEMMA TallyKept ==
    ASSUME TypeOK, TokensMatch, TypeOK', TokensMatch', extras \in [Ids -> ExtraType],
           NEW id \in Ids, Tally(id), extras'[id] = extras[id],
           \A a \in Accounts : votes[id][a] = 2 => votes'[id][a] = 2,
           extras[id].total # 0 /\ State(id)' = "InProgress" =>
               /\ State(id) = "InProgress"
               /\ \A a \in Accounts : Weight(a, devRatio)' <= Weight(a, devRatio)
    PROVE  Tally(id)'
<1> SUFFICES ASSUME extras[id].total # 0, State(id)' = "InProgress"
             PROVE  extras[id].agree + extras[id].reject + SumFunctionOnSet(Left(id)', Accounts)
                      <= extras[id].total
  BY DEF Tally
<1>1. PICK f : f = Left(id)
  OBVIOUS
<1>2. PICK g : g = Left(id)'
  OBVIOUS
<1>3. devRatio' \in Nat
  BY DEF TypeOK
<1>4. \A a \in Accounts : Weight(a, devRatio)' \in Nat
  <2> SUFFICES ASSUME NEW a \in Accounts PROVE Weight(a, devRatio)' \in Nat
    OBVIOUS
  <2>1. PICK n, d \in Nat : n = normalBalance'[a] /\ d = devBalance'[a]
    BY DEF TokensMatch
  <2>2. PICK x : x = d * devRatio'
    OBVIOUS
  <2>3. x \in Nat /\ x \div 100 \in Nat
    BY <1>3, <2>1, <2>2, ProductType, HundredthBelow
  <2> QED BY <2>1, <2>2, <2>3 DEF Weight
<1>5. \A a \in Accounts : Weight(a, devRatio) \in Nat
  BY WeightIs DEF TypeOK
<1>6. ASSUME NEW a \in Accounts PROVE g[a] \in Nat /\ g[a] <= f[a]
  <2>1. f[a] = IF votes[id][a] = 2 THEN 0 ELSE Weight(a, devRatio)
    BY <1>1 DEF Left
  <2>2. g[a] = IF votes'[id][a] = 2 THEN 0 ELSE Weight(a, devRatio)'
    BY <1>2 DEF Left
  <2>3. Weight(a, devRatio)' <= Weight(a, devRatio)
    OBVIOUS
  <2> QED BY <1>4, <1>5, <2>1, <2>2, <2>3
<1>7. Counts(f, Accounts) /\ Counts(g, Accounts)
  BY <1>1, <1>6, LeftCounts, TokenAssumption DEF Counts
<1>8. SumFunctionOnSet(g, Accounts) <= SumFunctionOnSet(f, Accounts)
  <2> HIDE <1>1, <1>2
  <2> QED BY <1>6, <1>7, SumAtMost
<1>9. PICK x, y : x = SumFunctionOnSet(f, Accounts) /\ y = SumFunctionOnSet(g, Accounts)
  OBVIOUS
<1>10. x \in Nat /\ y \in Nat /\ y <= x
  BY <1>7, <1>8, <1>9, SumType
<1>11. extras[id].agree + extras[id].reject + x <= extras[id].total
  BY <1>1, <1>9 DEF Tally
<1>12. extras[id].agree \in Nat /\ extras[id].reject \in Nat /\ extras[id].total \in Nat
  BY DEF ExtraType
<1>13. extras[id].agree + extras[id].reject + y <= extras[id].total
  BY <1>10, <1>11, <1>12
<1> QED BY <1>2, <1>9, <1>13

LEMMA WeightsFall ==
    ASSUME TypeOK, TokensMatch, RatioAboveFinal, devRatio' \in Nat, devRatio' <= devRatio,
           UNCHANGED tokenVars \/ Converting
    PROVE  \A a \in Accounts : Weight(a, devRatio)' <= Weight(a, devRatio)
<1> SUFFICES ASSUME NEW a \in Accounts PROVE Weight(a, devRatio)' <= Weight(a, devRatio)
  OBVIOUS
<1>1. PICK b, d, r, s \in Nat : /\ b = normalBalance[a] /\ d = devBalance[a]
                                /\ r = devRatio /\ s = devRatio'
  BY DEF TokensMatch, TypeOK
<1>2. r >= 100 /\ s <= r
  BY <1>1, RatioFloor
<1>3. Weight(a, devRatio) = Weighs(b, d, r)
  BY <1>1, WeightIs
<1>4. CASE normalBalance'[a] = b /\ devBalance'[a] = d
  <2>1. Weight(a, devRatio)' = Weighs(b, d, s)
    BY <1>1, <1>4 DEF Weight, Weighs
  <2> QED BY <1>1, <1>2, <1>3, <2>1, RatioFalls
<1>5. CASE UNCHANGED tokenVars
  BY <1>1, <1>4, <1>5 DEF tokenVars
<1>6. ASSUME NEW c \in Accounts, NEW n \in ConvertAmounts, Dev2Normal(c, n)
      PROVE  Weight(a, devRatio)' <= Weight(a, devRatio)
  <2>1. n \in Nat /\ normalBalance \in [Accounts -> Nat] /\ devBalance \in [Accounts -> Nat]
    BY TokenAssumption DEF TokensMatch
  <2>2. CASE a # c
    BY <1>1, <1>4, <1>6, <2>1, <2>2 DEF Dev2Normal
  <2>3. CASE a = c
    <3>1. n <= d /\ normalBalance'[a] = b + n /\ devBalance'[a] = d - n
      BY <1>1, <1>6, <2>1, <2>3 DEF Dev2Normal
    <3>2. Weight(a, devRatio)' = Weighs(b + n, d - n, s)
      BY <1>1, <3>1 DEF Weight, Weighs
    <3> QED BY <1>1, <1>2, <1>3, <2>1, <3>1, <3>2, WeightFalls
  <2> QED BY <2>2, <2>3
<1> QED BY <1>5, <1>6 DEF Converting

LEMMA ExtrasTyped == \A e \in Extras : e \in ExtraType /\ e.agree = 0 /\ e.reject = 0 /\ e.total = 0
<1>1. NoExtra \in ExtraType /\ NoExtra.agree = 0 /\ NoExtra.reject = 0 /\ NoExtra.total = 0
  BY DEF NoExtra, ExtraType
<1>2. ASSUME NEW t \in 10 .. 100, NEW e, e = [NoExtra EXCEPT !.full = TRUE, !.threshold = t]
      PROVE  e \in ExtraType /\ e.agree = 0 /\ e.reject = 0 /\ e.total = 0
  <2>1. t \in Nat
    OBVIOUS
  <2>2. e = [full |-> TRUE, threshold |-> t, agree |-> 0, reject |-> 0, settled |-> 0,
             total |-> 0]
    BY <1>2 DEF NoExtra
  <2> QED BY <2>1, <2>2 DEF ExtraType
<1> QED BY <1>1, <1>2 DEF Extras

LEMMA TalliedStep ==
    ASSUME TypeOK, TypeOK', SeatsOnce, BookInv, TokensMatch, RatioAboveFinal, Tallied,
           LeavesCountAlone, [Next]_vars
    PROVE  Tallied'
<1>0. /\ ExtrasShaped /\ Fresh /\ TokensMatch' /\ devRatio' \in Nat
      /\ extras \in [Ids -> ExtraType] /\ \A id \in Ids : Tally(id)
      /\ proposals \in [Ids -> Proposal] /\ votes \in [Ids -> [Accounts -> {0, 1, -1, 2}]]
  BY TokensStep DEF BookInv, Tallied, TypeOK, Proposal
<1>1. ASSUME Counting PROVE devRatio' <= devRatio /\ (UNCHANGED tokenVars \/ Converting)
  BY <1>1, TokenKinds DEF LeavesCountAlone, Transferring
<1>2. ASSUME Counting PROVE \A a \in Accounts : Weight(a, devRatio)' <= Weight(a, devRatio)
  BY <1>0, <1>1, <1>2, WeightsFall
<1>3. ASSUME NEW id \in Ids, extras'[id] = extras[id],
             \A a \in Accounts : votes[id][a] = 2 => votes'[id][a] = 2,
             State(id)' = "InProgress" => State(id) = "InProgress"
      PROVE  Tally(id)'
  BY <1>0, <1>2, <1>3, TallyKept DEF Counting
<1>4. CASE NewStep
  <2>1. /\ curProposalId \in Ids /\ extras'[curProposalId] \in Extras /\ votes' = votes
        /\ \A id \in Ids \ {curProposalId} :
              proposals'[id] = proposals[id] /\ extras'[id] = extras[id]
    BY <1>0, <1>4, NewFate DEF Birth
  <2>2. extras' \in [Ids -> ExtraType]
    <3>1. PICK extra \in Extras : extras' = [extras EXCEPT ![curProposalId] = extra]
      BY <1>4, Zenon DEF NewStep, Create
    <3> QED BY <1>0, <3>1, ExtrasTyped
  <2>3. ASSUME NEW id \in Ids, id = curProposalId PROVE Tally(id)'
    <3>1. extras'[id].agree = 0 /\ extras'[id].reject = 0 /\ extras'[id].total = 0
      BY <2>1, <2>3, ExtrasTyped
    <3> QED BY <3>1 DEF Tally
  <2>4. ASSUME NEW id \in Ids, id # curProposalId PROVE Tally(id)'
    <3>1. extras'[id] = extras[id] /\ proposals'[id] = proposals[id] /\ votes' = votes
      BY <2>1, <2>4
    <3> QED BY <1>3, <3>1 DEF State
  <2>5. \A id \in Ids : Tally(id)'
    BY <2>3, <2>4
  <2> QED BY <2>2, <2>5 DEF Tallied
<1>5. CASE VotingStep
  <2>1. PICK j \in Ids, a \in Accounts, v \in {1, -1} :
           /\ State(j)' = State(j) /\ votes[j][a] = 0 /\ votes' = [votes EXCEPT ![j][a] = v]
           /\ \A i \in Ids \ {j} : proposals'[i] = proposals[i] /\ votes'[i] = votes[i]
           /\ extras' = extras
    BY <1>0, <1>5, VotingFate
  <2>2. \A id \in Ids : State(id)' = State(id)
    BY <2>1 DEF State
  <2>3. \A id \in Ids, x \in Accounts : votes[id][x] = 2 => votes'[id][x] = 2
    BY <1>0, <2>1
  <2> QED BY <1>0, <1>3, <2>1, <2>2, <2>3 DEF Tallied
<1>6. CASE BatchStep
  <2>1. PICK j \in Ids, batch \in SUBSET Accounts : EndFullPropose(j, batch)
    BY <1>6 DEF BatchStep
  <2>2. extras[j].total # 0 => devRatio' <= devRatio
    BY <1>1, <2>1 DEF Counting, EndFullPropose
  <2>3. extras' \in [Ids -> ExtraType] /\ Tally(j)'
    BY <1>0, <2>1, <2>2, BatchTallied
  <2>4. ASSUME NEW id \in Ids, id # j PROVE Tally(id)'
    <3>1. proposals'[id] = proposals[id] /\ votes'[id] = votes[id] /\ extras'[id] = extras[id]
      BY <1>0, <2>1, <2>4 DEF EndFullPropose, CountedMark
    <3> QED BY <1>3, <3>1 DEF State
  <2> QED BY <2>3, <2>4 DEF Tallied
<1>7. CASE DecidingStep
  <2>1. PICK j \in Ids :
           /\ proposals'[j] \in {Settled(j), Executed(j)}
           /\ \A i \in Ids \ {j} : proposals'[i] = proposals[i]
           /\ UNCHANGED <<extras, votes>>
    BY <1>0, <1>7, DecidingFate
  <2>2. State(j)' = "InProgress" => State(j) = "InProgress"
    BY <1>0, <2>1, SettledFields DEF State
  <2>3. \A id \in Ids : State(id)' = "InProgress" => State(id) = "InProgress"
    BY <2>1, <2>2 DEF State
  <2> QED BY <1>0, <1>3, <2>1, <2>3 DEF Tallied
<1>8. CASE RestStep
  BY <1>0, <1>3, <1>8 DEF RestStep, State, Tallied
<1> QED BY <1>4, <1>5, <1>6, <1>7, <1>8, HistoryKinds

LEMMA TalliedInit == EitherInit => Tallied
<1> SUFFICES ASSUME EitherInit PROVE Tallied
  OBVIOUS
<1>1. extras = [id \in Ids |-> NoExtra]
  BY LegacyStarts DEF EitherInit, Init
<1>2. NoExtra \in ExtraType /\ NoExtra.agree = 0 /\ NoExtra.reject = 0 /\ NoExtra.total = 0
  BY ExtrasTyped DEF Extras
<1> QED BY <1>1, <1>2 DEF Tallied, Tally

\* The tokens counted for and against a full proposal are never more than those the
\* turnout is measured by, however voters are cut into batches and whatever is
\* converted between them, as long as no tokens change hands and the ratio does not
\* rise while the batches go on (endFullPropose).
THEOREM TokensCountOnce == LegacySpec /\ [][LeavesCountAlone]_vars => []OneTokenOneVote
<1>1. /\ TypeOK /\ SeatsInv /\ BookInv /\ TokensMatch /\ RatioAboveFinal /\ Tallied
      /\ TypeOK' /\ [Next]_vars /\ [LeavesCountAlone]_vars
      => TokensMatch' /\ Tallied'
  <2> SUFFICES ASSUME TypeOK, SeatsInv, BookInv, TokensMatch, RatioAboveFinal, Tallied,
                      TypeOK', [Next]_vars, [LeavesCountAlone]_vars
               PROVE  Tallied'
    BY TokensStep
  <2>1. CASE LeavesCountAlone
    BY <2>1, TalliedStep DEF SeatsInv
  <2>2. CASE UNCHANGED vars
    <3>1. LeavesCountAlone \/ ~ LeavesCountAlone
      OBVIOUS
    <3>2. UNCHANGED <<extras, votes, proposals, tokenVars, devRatio>>
      BY <2>2 DEF vars, govVars, ratioVars
    <3>3. \A id \in Ids, a \in Accounts : Weight(a, devRatio)' = Weight(a, devRatio)
      BY <3>2 DEF Weight, tokenVars
    <3>4. \A id \in Ids : Left(id)' = Left(id)
      BY <3>2, <3>3 DEF Left
    <3> QED BY <3>2, <3>4 DEF Tallied, Tally, State
  <2> QED BY <2>1, <2>2
<1>2. Tallied => OneTokenOneVote
  BY DEF Tallied, Tally, OneTokenOneVote
<1> QED BY <1>1, <1>2, TokensInit, TalliedInit, BookInvariant, RatioStaysAboveFinal, PTL DEF LegacySpec
=============================================================================
