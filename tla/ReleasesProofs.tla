--------------------------- MODULE ReleasesProofs ---------------------------
(***************************************************************************)
(* Proofs about projects, their release times and the vesting of locked    *)
(* tokens, for every number of projects, every list of contributions and   *)
(* every duration.                                                         *)
(***************************************************************************)
EXTENDS Releases, SumTheorems

States    == {"NotFound", "Preparing", "Developing", "Accepting", "Finished", "Rejected"}
Decisions == {"NotFound", "InProgress", "Accept", "Reject", "Expired", "Executed"}

ShareLists == UNION {[S -> Nat] : S \in SUBSET Accounts}

ProjectType ==
    [manager : Managers \cup {"nobody"}, name : Names \cup {"none"}, version : Nat,
     budget : Nat, extra : Nat, state : States, result : Results \cup {"InProgress"},
     shares : ShareLists, paid : SUBSET Accounts, decision : Decisions, deadline : Nat]

\* A project that exists has a name and a version.
Titled(p) == p.state # "NotFound" => p.name \in Names /\ p.version > 0

FinishType == [id : Ids, name : Names, version : Nat \ {0}, time : Nat]

TypeOK ==
    /\ now \in Nat /\ latestProjectFinishTime \in 0 .. now
    /\ projects \in [Ids -> ProjectType] /\ \A id \in Ids : Titled(projects[id])
    /\ projectLatestVersions \in [Names -> [version : Nat, time : Nat]]
    /\ finishes \subseteq FinishType
    /\ unlockTime \in Nat
    /\ unlockInfo \in [Accounts -> [assigned : Nat, claimed : Nat]]

\* What is kept of the past is not younger than the latest finish.
FinishesPast == \A f \in finishes : f.time <= latestProjectFinishTime

\* The vesting starts at a release, and is measured by it.
VestingStarted == unlockTime # 0 => \E f \in Releases : f.time = unlockTime

ClaimsMeasured ==
    \A a \in Accounts : unlockInfo[a].claimed > 0 =>
        /\ unlockTime # 0
        /\ unlockInfo[a].claimed * UnlockDuration <= unlockInfo[a].assigned * (now - unlockTime)
        /\ unlockInfo[a].claimed <= unlockInfo[a].assigned

ReleaseInv == TypeOK /\ FinishesPast /\ FinishesApart /\ LatestVersionTrue

-----------------------------------------------------------------------------
(* Types *)

LEMMA NoProjectTyped == NoProject \in ProjectType /\ Titled(NoProject)
<1>1. <<>> \in [{} -> Nat]
  OBVIOUS
<1>2. <<>> \in ShareLists
  BY <1>1 DEF ShareLists
<1>3. QED BY <1>2 DEF NoProject, ProjectType, States, Decisions, Titled

LEMMA InitTyped == Init => TypeOK
<1> SUFFICES ASSUME Init PROVE TypeOK
  OBVIOUS
<1>1. now \in Nat /\ latestProjectFinishTime \in 0 .. now
  BY ProjectAssumption DEF Init, ProjectInit
<1>2. projects \in [Ids -> ProjectType] /\ \A id \in Ids : Titled(projects[id])
  BY NoProjectTyped DEF Init, ProjectInit
<1>3. projectLatestVersions \in [Names -> [version : Nat, time : Nat]] /\ finishes \subseteq FinishType
  BY DEF Init, ProjectInit, NoVersion
<1>4. unlockTime \in Nat /\ unlockInfo \in [Accounts -> [assigned : Nat, claimed : Nat]]
  BY DEF Init, LockupInit
<1>5. QED BY <1>1, <1>2, <1>3, <1>4 DEF TypeOK

\* Projects after each operation on one of them.
ProjectsTyped == projects \in [Ids -> ProjectType] /\ \A id \in Ids : Titled(projects[id])

LEMMA ProposedTyped ==
    ASSUME NEW p \in ProjectType, now \in Nat
    PROVE  /\ Proposed(p) \in ProjectType
           /\ Proposed(p).name = p.name /\ Proposed(p).version = p.version
<1>1. now + VotingDuration \in Nat
  BY ProjectAssumption
<1>2. QED BY <1>1 DEF Proposed, ProjectType, Decisions

\* The project that createProject writes over an empty record.
Filled(p, m, n, v, b, x) == [p EXCEPT !.manager = m, !.name = n, !.version = v, !.budget = b,
                                      !.extra = x, !.state = "Preparing"]

LEMMA FilledTyped ==
    ASSUME NEW p \in ProjectType, NEW m \in Managers, NEW n \in Names, NEW v \in Nat,
           NEW b \in Nat, NEW x \in Nat
    PROVE  /\ Filled(p, m, n, v, b, x) \in ProjectType
           /\ Filled(p, m, n, v, b, x).name = n /\ Filled(p, m, n, v, b, x).version = v
BY DEF Filled, ProjectType, States

LEMMA CreateTyped ==
    ASSUME TypeOK, NEW m \in Managers, NEW n \in Names, NEW v \in Versions, NEW b \in Budgets,
           NEW x \in ExtraAmounts, CreateProject(m, n, v, b, x)
    PROVE  ProjectsTyped'
<1> DEFINE q == Filled(NoProject, m, n, v, b, x)
<1>1. v \in Nat \ {0} /\ b \in Nat /\ x \in Nat
  BY ProjectAssumption
<1>2. q \in ProjectType /\ q.name = n /\ q.version = v
  BY <1>1, NoProjectTyped, FilledTyped
<1>3. projects' = [projects EXCEPT ![projectIdCounter] = Proposed(q)] /\ projectIdCounter \in Ids
  BY DEF CreateProject, Filled
<1> HIDE DEF q
<1>4. Proposed(q) \in ProjectType /\ Titled(Proposed(q))
  BY <1>1, <1>2, ProposedTyped DEF Titled, TypeOK
<1>5. QED BY <1>3, <1>4 DEF TypeOK, ProjectsTyped

\* An operation that changes one project and keeps its title keeps all types.
LEMMA UpdateTyped ==
    ASSUME TypeOK, NEW id \in Ids, NEW p \in ProjectType,
           projects' = [projects EXCEPT ![id] = p],
           projects[id].state # "NotFound", p.name = projects[id].name,
           p.version = projects[id].version
    PROVE  ProjectsTyped'
BY DEF TypeOK, ProjectsTyped, Titled

\* What TypeOK says of everything but the projects.
RestTyped ==
    /\ now \in Nat /\ latestProjectFinishTime \in 0 .. now
    /\ projectLatestVersions \in [Names -> [version : Nat, time : Nat]]
    /\ finishes \subseteq FinishType
    /\ unlockTime \in Nat
    /\ unlockInfo \in [Accounts -> [assigned : Nat, claimed : Nat]]

LEMMA TypeParts == TypeOK <=> ProjectsTyped /\ RestTyped
BY DEF TypeOK, ProjectsTyped, RestTyped

LEMMA DecideTyped ==
    ASSUME TypeOK, NEW id \in Ids, NEW outcome \in Outcomes(id), Decide(id, outcome)
    PROVE  ProjectsTyped'
<1>1. projects[id] \in ProjectType
  BY DEF TypeOK
<1>2. projects[id].decision = "InProgress" /\ outcome \in Decisions
  BY DEF Outcomes, Decisions
<1>3. projects' = [projects EXCEPT ![id] = [projects[id] EXCEPT !.decision = outcome]]
  BY <1>1 DEF Decide
<1>4. [projects[id] EXCEPT !.decision = outcome] \in ProjectType
  BY <1>1, <1>2 DEF ProjectType
<1>5. /\ [projects[id] EXCEPT !.decision = outcome].name = projects[id].name
      /\ [projects[id] EXCEPT !.decision = outcome].version = projects[id].version
      /\ [projects[id] EXCEPT !.decision = outcome].state = projects[id].state
  BY <1>1 DEF ProjectType
<1>6. QED BY <1>1, <1>3, <1>4, <1>5 DEF TypeOK, ProjectsTyped, Titled

LEMMA CancelTyped ==
    ASSUME TypeOK, NEW m \in Managers, NEW id \in Ids, CancelProject(m, id)
    PROVE  ProjectsTyped'
<1>1. projects[id] \in ProjectType /\ projects[id].state # "NotFound"
  BY DEF TypeOK, CancelProject
<1>2. projects' = [projects EXCEPT ![id] = [projects[id] EXCEPT !.state = "Rejected"]]
  BY DEF CancelProject
<1>3. /\ [projects[id] EXCEPT !.state = "Rejected"] \in ProjectType
      /\ [projects[id] EXCEPT !.state = "Rejected"].name = projects[id].name
      /\ [projects[id] EXCEPT !.state = "Rejected"].version = projects[id].version
  BY <1>1 DEF ProjectType, States
<1>4. QED BY <1>1, <1>2, <1>3, UpdateTyped

LEMMA PromotedTyped ==
    ASSUME TypeOK, NEW id \in Ids, NEW state \in {"Developing", "Finished"},
           projects[id].state # "NotFound", Promoted(id, state)
    PROVE  ProjectsTyped'
<1> DEFINE p == [projects[id] EXCEPT !.state = state, !.decision = "Executed"]
<1>1. projects[id] \in ProjectType
  BY DEF TypeOK
<1>2. projects' = [projects EXCEPT ![id] = p]
  BY <1>1 DEF Promoted, TypeOK, ProjectType
<1>3. p \in ProjectType /\ p.name = projects[id].name /\ p.version = projects[id].version
  BY <1>1 DEF ProjectType, States, Decisions
<1> HIDE DEF p
<1>4. QED BY <1>2, <1>3, UpdateTyped

LEMMA AcceptTyped ==
    ASSUME TypeOK, NEW m \in Managers, NEW id \in Ids, NEW r \in Results, NEW c \in Contributions,
           AcceptProject(m, id, r, c)
    PROVE  ProjectsTyped'
<1> DEFINE q == [projects[id] EXCEPT !.result = r, !.state = "Accepting", !.shares = c, !.paid = {}]
<1>1. projects[id] \in ProjectType /\ projects[id].state # "NotFound"
  BY DEF TypeOK, AcceptProject, State
<1>2. q \in ProjectType /\ q.name = projects[id].name /\ q.version = projects[id].version
  <2>1. c \in ShareLists
    BY ProjectAssumption DEF IsShareList, ShareLists
  <2>2. QED BY <1>1, <2>1 DEF ProjectType, States
<1>3. projects' = [projects EXCEPT ![id] = Proposed(q)]
  BY DEF AcceptProject
<1> HIDE DEF q
<1>4. QED BY <1>1, <1>2, <1>3, ProposedTyped, UpdateTyped DEF TypeOK

LEMMA CorrectedTyped ==
    ASSUME TypeOK, NEW m \in Managers, NEW id \in Ids, NEW who \in Accounts, NEW value \in Values,
           UpdateContribute(m, id, who, value)
    PROVE  ProjectsTyped'
<1> DEFINE shares == projects[id].shares
           corrected == [c \in DOMAIN shares \cup {who} |-> IF c = who THEN value ELSE shares[c]]
<1>1. projects[id] \in ProjectType /\ projects[id].state # "NotFound"
  BY DEF TypeOK, UpdateContribute, State
<1>2. corrected \in ShareLists
  <2>1. PICK S \in SUBSET Accounts : shares \in [S -> Nat]
    BY <1>1 DEF ProjectType, ShareLists
  <2>2. value \in Nat
    BY ProjectAssumption
  <2>3. corrected \in [S \cup {who} -> Nat]
    BY <2>1, <2>2
  <2>4. QED BY <2>3 DEF ShareLists
<1>3. projects' = [projects EXCEPT ![id] = [projects[id] EXCEPT !.shares = corrected]]
  BY DEF UpdateContribute
<1> HIDE DEF corrected
<1>4. /\ [projects[id] EXCEPT !.shares = corrected] \in ProjectType
      /\ [projects[id] EXCEPT !.shares = corrected].name = projects[id].name
      /\ [projects[id] EXCEPT !.shares = corrected].version = projects[id].version
  BY <1>1, <1>2 DEF ProjectType
<1>5. QED BY <1>1, <1>3, <1>4, UpdateTyped

LEMMA PaidTyped ==
    ASSUME TypeOK, NEW who \in Accounts, NEW chosen \in SUBSET Ids, WithdrawContributions(who, chosen)
    PROVE  ProjectsTyped'
<1> DEFINE Paid(id) == [projects[id] EXCEPT !.paid = @ \cup {who}]
<1>1. \A id \in Ids : projects'[id] \in {projects[id], Paid(id)}
  BY DEF WithdrawContributions
<1>2. projects' = [id \in Ids |-> projects'[id]]
  BY DEF WithdrawContributions
<1>3. ASSUME NEW id \in Ids
      PROVE  /\ Paid(id) \in ProjectType /\ Paid(id).name = projects[id].name
             /\ Paid(id).version = projects[id].version /\ Paid(id).state = projects[id].state
  <2>1. projects[id] \in ProjectType
    BY DEF TypeOK
  <2>2. QED BY <2>1 DEF ProjectType
<1> HIDE DEF Paid
<1>4. QED BY <1>1, <1>2, <1>3 DEF TypeOK, ProjectsTyped, Titled

\* The finish of a project, and what is kept of it.
LEMMA FinishTyped ==
    ASSUME TypeOK, NEW m \in Managers, NEW id \in Ids, FinishProject(m, id),
           unlockTime' = unlockTime, unlockInfo' = unlockInfo
    PROVE  ProjectsTyped' /\ RestTyped'
<1> DEFINE p == projects[id]
<1>1. p \in ProjectType /\ p.state = "Accepting" /\ Titled(p)
  BY DEF TypeOK, FinishProject, Promotable
<1>2. ProjectsTyped'
  BY <1>1, PromotedTyped DEF FinishProject
<1>3. p.name \in Names /\ p.version \in Nat \ {0}
  BY <1>1 DEF Titled, ProjectType
<1>4. now' = now /\ latestProjectFinishTime' = now /\ now \in Nat
  BY DEF FinishProject, TypeOK
<1>5. Latest(p) \in [version : Nat, time : Nat]
  BY <1>3, <1>4 DEF Latest, TypeOK
<1>6. projectLatestVersions' \in [Names -> [version : Nat, time : Nat]]
  BY <1>3, <1>5 DEF FinishProject, TypeOK
<1>7. finishes' \subseteq FinishType
  BY <1>3, <1>4 DEF FinishProject, TypeOK, FinishType
<1>8. QED BY <1>2, <1>4, <1>6, <1>7 DEF RestTyped, TypeOK

LEMMA LockTyped ==
    ASSUME TypeOK, NEW list \in Lists, Lock(list)
    PROVE  unlockInfo' \in [Accounts -> [assigned : Nat, claimed : Nat]]
<1>1. PICK S \in SUBSET Accounts : list \in [S -> Nat]
  BY LockupAssumption DEF IsShareList
<1>2. ASSUME NEW a \in Accounts
      PROVE  (IF a \in DOMAIN list THEN [unlockInfo[a] EXCEPT !.assigned = @ + list[a]]
                                   ELSE unlockInfo[a]) \in [assigned : Nat, claimed : Nat]
  BY <1>1 DEF TypeOK
<1>3. QED BY <1>2 DEF Lock

LEMMA VestingTyped == ASSUME TypeOK PROVE StartOfVesting \in Nat /\ ReleaseTime \in Nat
BY LockupAssumption DEF TypeOK, StartOfVesting, ReleaseTime, VersionReleasedTime

LEMMA ClaimTyped ==
    ASSUME TypeOK, NEW a \in Accounts, NEW n \in ClaimAmounts, ClaimTokens(a, n)
    PROVE  /\ unlockTime' \in Nat
           /\ unlockInfo' \in [Accounts -> [assigned : Nat, claimed : Nat]]
<1>1. n \in Nat
  BY LockupAssumption
<1>2. unlockTime' = StartOfVesting /\ unlockInfo' = [unlockInfo EXCEPT ![a].claimed = @ + n]
  BY DEF ClaimTokens
<1>3. QED BY <1>1, <1>2, VestingTyped DEF TypeOK

\* A step finishes one project, moves the clock, locks, claims, or leaves the past
\* and the lockup alone.
OnlyProjects == ProjectsTyped' /\ UNCHANGED <<now, releaseVars, lockupVars>>

Finishing == \E m \in Managers, id \in Ids : FinishProject(m, id) /\ UNCHANGED lockupVars
Claiming  == \E a \in Accounts, n \in ClaimAmounts : ClaimTokens(a, n)
Locking   == \E list \in Lists : Lock(list) /\ UNCHANGED <<projects, releaseVars>>

LEMMA StepKinds ==
    ASSUME TypeOK, [Next]_vars
    PROVE  Finishing \/ Claiming \/ Locking \/ Wait \/ OnlyProjects
<1>1. CASE UNCHANGED vars
  BY <1>1, TypeParts DEF vars, projectVars, OnlyProjects, ProjectsTyped
<1>2. CASE LockupNext
  BY <1>2 DEF LockupNext, TransferAndLock, ConvertAndLock, projectVars, Claiming, Locking
<1>3. ASSUME NEW m \in Managers, NEW n \in Names, NEW v \in Versions, NEW b \in Budgets,
             NEW x \in ExtraAmounts, CreateProject(m, n, v, b, x), UNCHANGED lockupVars
      PROVE  OnlyProjects
  BY <1>3, CreateTyped DEF OnlyProjects, CreateProject
<1>4. ASSUME NEW m \in Managers, NEW id \in Ids, CancelProject(m, id), UNCHANGED lockupVars
      PROVE  OnlyProjects
  BY <1>4, CancelTyped DEF OnlyProjects, CancelProject
<1>5. ASSUME NEW m \in Managers, NEW id \in Ids, StartDevelopment(m, id), UNCHANGED lockupVars
      PROVE  OnlyProjects
  BY <1>5, PromotedTyped DEF OnlyProjects, StartDevelopment, Promotable
<1>6. ASSUME NEW m \in Managers, NEW id \in Ids, NEW r \in Results, NEW c \in Contributions,
             AcceptProject(m, id, r, c), UNCHANGED lockupVars
      PROVE  OnlyProjects
  BY <1>6, AcceptTyped DEF OnlyProjects, AcceptProject
<1>7. ASSUME NEW m \in Managers, NEW id \in Ids, NEW who \in Accounts, NEW v \in Values,
             UpdateContribute(m, id, who, v), UNCHANGED lockupVars
      PROVE  OnlyProjects
  BY <1>7, CorrectedTyped DEF OnlyProjects, UpdateContribute
<1>8. ASSUME NEW id \in Ids, NEW outcome \in Outcomes(id), Decide(id, outcome), UNCHANGED lockupVars
      PROVE  OnlyProjects
  BY <1>8, DecideTyped DEF OnlyProjects, Decide
<1>9. ASSUME NEW who \in Accounts, NEW chosen \in SUBSET Ids \ {{}},
             WithdrawContributions(who, chosen), UNCHANGED lockupVars
      PROVE  OnlyProjects
  BY <1>9, PaidTyped DEF OnlyProjects, WithdrawContributions
<1>10. CASE ProjectNext /\ UNCHANGED lockupVars
  BY <1>3, <1>4, <1>5, <1>6, <1>7, <1>8, <1>9, <1>10 DEF ProjectNext, Finishing
<1>11. QED BY <1>1, <1>2, <1>10 DEF Next

LEMMA TypeStep == ASSUME TypeOK, [Next]_vars PROVE TypeOK'
<1>1. CASE OnlyProjects
  BY <1>1, TypeParts DEF OnlyProjects, ProjectsTyped, TypeOK, releaseVars, lockupVars
<1>2. CASE Finishing
  <2>1. PICK m \in Managers, id \in Ids : FinishProject(m, id) /\ UNCHANGED lockupVars
    BY <1>2 DEF Finishing
  <2>2. ProjectsTyped' /\ RestTyped'
    BY <2>1, FinishTyped DEF lockupVars
  <2>3. QED BY <2>2 DEF ProjectsTyped, RestTyped, TypeOK
<1>3. CASE Locking
  BY <1>3, LockTyped DEF Locking, Lock, TypeOK, releaseVars
<1>4. CASE Claiming
  BY <1>4, ClaimTyped DEF Claiming, ClaimTokens, TypeOK, projectVars, releaseVars
<1>5. CASE Wait
  BY <1>5, ChainAssumption DEF Wait, Elapse, TypeOK, projectVars, releaseVars, lockupVars
<1>6. QED BY <1>1, <1>2, <1>3, <1>4, <1>5, StepKinds

\* Projects, release times and the lockup keep their types.
THEOREM TypeCorrect == Spec => []TypeOK
<1>1. Init => TypeOK
  BY InitTyped
<1>2. TypeOK /\ [Next]_vars => TypeOK'
  BY TypeStep
<1>3. QED BY <1>1, <1>2, PTL DEF Spec

-----------------------------------------------------------------------------
(* The finishes and the latest versions *)

LEMMA FinishesStep ==
    ASSUME TypeOK, FinishesPast, FinishesApart, [Next]_vars
    PROVE  FinishesPast' /\ FinishesApart'
<1>1. CASE Finishing
  <2>1. PICK m \in Managers, id \in Ids : FinishProject(m, id)
    BY <1>1 DEF Finishing
  <2> DEFINE new == [id |-> id, name |-> projects[id].name, version |-> projects[id].version,
                     time |-> now]
  <2>2. finishes' = finishes \cup {new} /\ latestProjectFinishTime' = now
    BY <2>1 DEF FinishProject
  <2>3. new.time = now
    OBVIOUS
  <2> HIDE DEF new
  <2>4. now \in Nat /\ latestProjectFinishTime \in Nat /\ MinProjectFinishDuration \in Nat
        /\ now - latestProjectFinishTime > MinProjectFinishDuration
    BY <2>1, ProjectAssumption DEF FinishProject, FinishDue, TypeOK
  <2>5. \A f \in finishes : /\ f.time \in Nat
                           /\ now - f.time > MinProjectFinishDuration
                           /\ f.time <= now
    BY <2>4 DEF FinishesPast, TypeOK, FinishType
  <2>6. FinishesPast'
    BY <2>2, <2>3, <2>4, <2>5 DEF FinishesPast
  <2>7. FinishesApart'
    BY <2>2, <2>3, <2>5 DEF FinishesApart
  <2>8. QED BY <2>6, <2>7
<1>2. CASE UNCHANGED releaseVars
  BY <1>2 DEF releaseVars, FinishesPast, FinishesApart
<1>3. QED
  BY <1>1, <1>2, StepKinds DEF Claiming, ClaimTokens, Locking, Wait, OnlyProjects, projectVars

LEMMA LatestStep ==
    ASSUME TypeOK, LatestVersionTrue, [Next]_vars
    PROVE  LatestVersionTrue'
<1>1. CASE Finishing
  <2>1. PICK m \in Managers, id \in Ids : FinishProject(m, id)
    BY <1>1 DEF Finishing
  <2> DEFINE p == projects[id]
             new == [id |-> id, name |-> p.name, version |-> p.version, time |-> now]
             Own(name) == {f \in finishes : f.name = name}
  <2>2. /\ finishes' = finishes \cup {new}
        /\ projectLatestVersions' = [projectLatestVersions EXCEPT ![p.name] = Latest(p)]
    BY <2>1 DEF FinishProject
  <2>3. p.name \in Names /\ p.version \in Nat \ {0}
    BY <2>1 DEF FinishProject, Promotable, TypeOK, Titled, ProjectType
  <2>4. new.name = p.name /\ new.version = p.version /\ new.time = now
    OBVIOUS
  <2>5. ASSUME NEW name \in Names, name # p.name
        PROVE  /\ projectLatestVersions'[name] = projectLatestVersions[name]
               /\ {f \in finishes' : f.name = name} = Own(name)
    BY <2>2, <2>4, <2>5 DEF TypeOK
  <2>6. /\ projectLatestVersions'[p.name] = Latest(p)
        /\ {f \in finishes' : f.name = p.name} = Own(p.name) \cup {new}
    BY <2>2, <2>3, <2>4 DEF TypeOK
  <2> HIDE DEF new
  <2>7. /\ projectLatestVersions[p.name].version \in Nat
        /\ \A f \in Own(p.name) : f.version \in Nat /\ f.version <= projectLatestVersions[p.name].version
        /\ Own(p.name) # {} => \E f \in Own(p.name) :
                                 /\ f.version = projectLatestVersions[p.name].version
                                 /\ f.time = projectLatestVersions[p.name].time
        /\ Own(p.name) = {} => projectLatestVersions[p.name].version = 0
    BY <2>3 DEF LatestVersionTrue, TypeOK, FinishType, NoVersion
  <2>8. /\ \A f \in Own(p.name) \cup {new} : f.version <= Latest(p).version
        /\ \E f \in Own(p.name) \cup {new} : /\ f.version = Latest(p).version
                                            /\ f.time = Latest(p).time
    <3>1. CASE projectLatestVersions[p.name].version < p.version
      <4>1. Latest(p).version = p.version /\ Latest(p).time = now
        BY <3>1 DEF Latest
      <4>2. QED BY <2>3, <2>4, <2>7, <3>1, <4>1
    <3>2. CASE ~ projectLatestVersions[p.name].version < p.version
      <4>1. Latest(p) = projectLatestVersions[p.name]
        BY <3>2 DEF Latest
      <4>2. Own(p.name) # {}
        BY <2>3, <2>7, <3>2
      <4>3. QED BY <2>3, <2>4, <2>7, <3>2, <4>1, <4>2
    <3>3. QED BY <3>1, <3>2
  <2>9. QED BY <2>5, <2>6, <2>8 DEF LatestVersionTrue
<1>2. CASE UNCHANGED releaseVars
  BY <1>2 DEF releaseVars, LatestVersionTrue
<1>3. QED
  BY <1>1, <1>2, StepKinds DEF Claiming, ClaimTokens, Locking, Wait, OnlyProjects, projectVars

LEMMA ReleaseInvariant == Spec => []ReleaseInv
<1>1. Init => ReleaseInv
  BY InitTyped DEF Init, ProjectInit, ReleaseInv, FinishesPast, FinishesApart, LatestVersionTrue
<1>2. ReleaseInv /\ [Next]_vars => ReleaseInv'
  BY TypeStep, FinishesStep, LatestStep DEF ReleaseInv
<1>3. QED BY <1>1, <1>2, PTL DEF Spec

\* Any two finishes are more than the duration apart (promoteProject).
THEOREM FinishesStayApart == Spec => []FinishesApart
<1>1. ReleaseInv => FinishesApart
  BY DEF ReleaseInv
<1>2. QED BY <1>1, ReleaseInvariant, PTL

\* The latest version of a name is the greatest that finished, with its time.
THEOREM LatestVersionHolds == Spec => []LatestVersionTrue
<1>1. ReleaseInv => LatestVersionTrue
  BY DEF ReleaseInv
<1>2. QED BY <1>1, ReleaseInvariant, PTL

-----------------------------------------------------------------------------
(* The vesting *)

LEMMA DivBelow ==
    ASSUME NEW x \in Nat, NEW d \in Nat \ {0}
    PROVE  x \div d \in Nat /\ (x \div d) * d <= x
BY SMTT(30)

LEMMA ProductsGrow ==
    ASSUME NEW x \in Nat, NEW y \in Nat, NEW d \in Nat, x <= y
    PROVE  x * d <= y * d
<1>1. PICK k \in Nat : y = x + k
  OBVIOUS
<1>2. y * d = x * d + k * d
  BY <1>1
<1>3. k * d \in Nat
  OBVIOUS
<1>4. QED BY <1>2, <1>3

LEMMA Differences ==
    ASSUME NEW x \in Nat, NEW y \in Nat, NEW z \in Nat, x <= y, y <= z
    PROVE  y - x \in Nat /\ z - x \in Nat /\ y - x <= z - x
OBVIOUS

LEMMA FactorCancels ==
    ASSUME NEW x \in Nat, NEW y \in Nat, NEW d \in Nat \ {0}, x * d <= y * d
    PROVE  x <= y
<1>1. SUFFICES ASSUME y + 1 <= x PROVE FALSE
  OBVIOUS
<1>2. (y + 1) * d <= x * d
  BY <1>1, ProductsGrow
<1>3. (y + 1) * d = y * d + d
  OBVIOUS
<1>4. QED BY <1>2, <1>3

\* What is vested after p of d, rounded down, is in proportion and never more than all.
LEMMA VestedBelow ==
    ASSUME NEW n \in Nat, NEW d \in Nat \ {0}, NEW p \in 0 .. d, NEW q \in Nat,
           q <= (p * n) \div d
    PROVE  q * d <= n * p /\ q <= n
<1>1. p * n \in Nat /\ p * n = n * p
  OBVIOUS
<1>2. (p * n) \div d \in Nat /\ ((p * n) \div d) * d <= p * n
  BY <1>1, DivBelow
<1>3. q * d <= ((p * n) \div d) * d
  BY <1>2, ProductsGrow
<1>4. q * d \in Nat /\ ((p * n) \div d) * d \in Nat /\ n * d \in Nat /\ d * n = n * d
  BY <1>2
<1>5. q * d <= n * p
  BY <1>1, <1>2, <1>3, <1>4
<1>6. p * n <= d * n
  BY ProductsGrow
<1>7. q * d <= n * d
  BY <1>1, <1>4, <1>5, <1>6
<1>8. q <= n
  BY <1>7, FactorCancels
<1>9. QED BY <1>5, <1>8

\* The vesting starts, or has started, at a release.
LEMMA StartIsRelease ==
    ASSUME ReleaseInv, VestingStarted, StartOfVesting > 0
    PROVE  /\ \E f \in Releases : f.time = StartOfVesting
           /\ StartOfVesting \in 1 .. now
<1>1. \E f \in Releases : f.time = StartOfVesting
  <2>1. CASE unlockTime # 0
    BY <2>1 DEF VestingStarted, StartOfVesting
  <2>2. CASE unlockTime = 0
    <3> DEFINE latest == projectLatestVersions[UnlockProjectName]
               own == {f \in finishes : f.name = UnlockProjectName}
    <3>1. StartOfVesting = latest.time /\ latest.version >= UnlockProjectVersion
      BY <2>2 DEF StartOfVesting, ReleaseTime, VersionReleasedTime
    <3>2. /\ own # {} => \E f \in own : f.version = latest.version /\ f.time = latest.time
          /\ own = {} => latest = NoVersion
      BY LockupAssumption DEF ReleaseInv, LatestVersionTrue
    <3>3. own # {}
      BY <3>1, <3>2, LockupAssumption DEF NoVersion
    <3>4. PICK f \in own : f.version = latest.version /\ f.time = latest.time
      BY <3>2, <3>3
    <3>5. QED BY <3>1, <3>4 DEF Releases
  <2>3. QED BY <2>1, <2>2
<1>2. QED BY <1>1, VestingTyped DEF ReleaseInv, FinishesPast, TypeOK, Releases

LEMMA VestingStartedStep ==
    ASSUME ReleaseInv, VestingStarted, [Next]_vars
    PROVE  VestingStarted'
<1>1. TypeOK
  BY DEF ReleaseInv
<1>2. CASE Claiming
  <2>1. PICK a \in Accounts, n \in ClaimAmounts : ClaimTokens(a, n)
    BY <1>2 DEF Claiming
  <2>2. unlockTime' = StartOfVesting /\ StartOfVesting > 0 /\ finishes' = finishes
    BY <2>1 DEF ClaimTokens, projectVars, releaseVars
  <2>3. QED BY <2>2, StartIsRelease DEF VestingStarted, Releases
<1>3. CASE Finishing
  <2>1. unlockTime' = unlockTime /\ finishes \subseteq finishes'
    BY <1>3 DEF Finishing, FinishProject, lockupVars
  <2>2. QED BY <2>1 DEF VestingStarted, Releases
<1>4. CASE Locking \/ Wait \/ OnlyProjects
  BY <1>4 DEF Locking, Lock, Wait, OnlyProjects, projectVars, releaseVars, lockupVars,
              VestingStarted, Releases
<1>5. QED BY <1>1, <1>2, <1>3, <1>4, StepKinds

LEMMA ClaimMeasured ==
    ASSUME ReleaseInv, VestingStarted, ClaimsMeasured,
           NEW a \in Accounts, NEW n \in ClaimAmounts, ClaimTokens(a, n)
    PROVE  ClaimsMeasured'
<1> DEFINE t == StartOfVesting
<1>1. /\ unlockTime' = t /\ t > 0 /\ now' = now
      /\ unlockInfo' = [unlockInfo EXCEPT ![a].claimed = @ + n]
      /\ MaxClaim(a, t) >= n
  BY DEF ClaimTokens
<1>2. t \in 1 .. now /\ now \in Nat /\ UnlockDuration \in Nat \ {0} /\ n \in Nat
  BY <1>1, StartIsRelease, LockupAssumption DEF ReleaseInv, TypeOK
<1> HIDE DEF t
<1>3. ASSUME NEW other \in Accounts, other # a, unlockInfo'[other].claimed > 0
      PROVE  /\ unlockInfo'[other] = unlockInfo[other] /\ unlockTime # 0 /\ t = unlockTime
  <2>1. unlockInfo'[other] = unlockInfo[other]
    BY <1>1, <1>3 DEF ReleaseInv, TypeOK
  <2>2. unlockTime # 0
    BY <1>3, <2>1 DEF ClaimsMeasured
  <2>3. QED BY <2>1, <2>2 DEF t, StartOfVesting
<1>4. /\ unlockInfo'[a].claimed * UnlockDuration <= unlockInfo'[a].assigned * (now - t)
      /\ unlockInfo'[a].claimed <= unlockInfo'[a].assigned
  <2> DEFINE assigned == unlockInfo[a].assigned
             claimed == unlockInfo[a].claimed + n
             passed == Passed(t)
  <2>1. /\ unlockInfo'[a].assigned = assigned /\ unlockInfo'[a].claimed = claimed
        /\ assigned \in Nat /\ claimed \in Nat /\ unlockInfo[a].claimed \in Nat
    BY <1>1, <1>2 DEF ReleaseInv, TypeOK
  <2>2. passed \in 0 .. UnlockDuration /\ passed <= now - t /\ passed \in Nat /\ now - t \in Nat
    BY <1>2 DEF Passed
  <2>3. Vested(a, t) = (passed * assigned) \div UnlockDuration
    BY DEF Vested
  <2> HIDE DEF passed
  <2>4. passed * assigned \in Nat
    BY <2>1, <2>2
  <2>5. Vested(a, t) \in Nat
    BY <1>2, <2>3, <2>4, DivBelow
  <2>6. claimed <= (passed * assigned) \div UnlockDuration
    BY <1>1, <1>2, <2>1, <2>3, <2>5 DEF MaxClaim
  <2> HIDE DEF assigned, claimed
  <2>7. claimed * UnlockDuration <= assigned * passed /\ claimed <= assigned
    BY <1>2, <2>1, <2>2, <2>6, VestedBelow
  <2>8. passed * assigned <= (now - t) * assigned
    BY <2>1, <2>2, ProductsGrow
  <2>9. /\ claimed * UnlockDuration \in Nat /\ assigned * passed = passed * assigned
        /\ (now - t) * assigned = assigned * (now - t) /\ assigned * (now - t) \in Nat
    BY <1>2, <2>1, <2>2
  <2>10. claimed * UnlockDuration <= assigned * (now - t)
    BY <2>4, <2>7, <2>8, <2>9
  <2>11. QED BY <2>1, <2>7, <2>10
<1>5. ASSUME NEW other \in Accounts, unlockInfo'[other].claimed > 0
      PROVE  /\ t # 0
             /\ unlockInfo'[other].claimed * UnlockDuration
                    <= unlockInfo'[other].assigned * (now - t)
             /\ unlockInfo'[other].claimed <= unlockInfo'[other].assigned
  <2>1. CASE other = a
    BY <1>2, <1>4, <2>1
  <2>2. CASE other # a
    BY <1>2, <1>3, <1>5, <2>2 DEF ClaimsMeasured
  <2>3. QED BY <2>1, <2>2
<1>6. QED BY <1>1, <1>5 DEF ClaimsMeasured

LEMMA WaitMeasured ==
    ASSUME ReleaseInv, VestingStarted, ClaimsMeasured, Wait
    PROVE  ClaimsMeasured'
<1>1. /\ unlockTime' = unlockTime /\ unlockInfo' = unlockInfo
      /\ now \in Nat /\ now' \in Nat /\ now <= now'
  BY ChainAssumption DEF Wait, Elapse, lockupVars, ReleaseInv, TypeOK
<1>2. ASSUME NEW a \in Accounts, unlockInfo[a].claimed > 0
      PROVE  /\ unlockTime # 0 /\ unlockInfo[a].claimed <= unlockInfo[a].assigned
             /\ unlockInfo[a].claimed * UnlockDuration <= unlockInfo[a].assigned * (now' - unlockTime)
  <2> DEFINE assigned == unlockInfo[a].assigned
             claimed == unlockInfo[a].claimed
  <2>1. /\ unlockTime # 0 /\ claimed <= assigned
        /\ claimed * UnlockDuration <= assigned * (now - unlockTime)
    BY <1>2 DEF ClaimsMeasured
  <2>2. assigned \in Nat /\ claimed \in Nat /\ UnlockDuration \in Nat /\ unlockTime \in Nat
    BY LockupAssumption DEF ReleaseInv, TypeOK
  <2>3. unlockTime <= now
    BY <2>1, <2>2, StartIsRelease DEF StartOfVesting
  <2> HIDE DEF assigned, claimed
  <2>4. now - unlockTime \in Nat /\ now' - unlockTime \in Nat /\ now - unlockTime <= now' - unlockTime
    <3>1. unlockTime \in Nat /\ now \in Nat /\ now' \in Nat /\ unlockTime <= now /\ now <= now'
      BY <1>1, <2>2, <2>3
    <3>2. QED BY <3>1, Differences
  <2>5. (now - unlockTime) * assigned <= (now' - unlockTime) * assigned
    BY <2>2, <2>4, ProductsGrow
  <2>6. /\ (now - unlockTime) * assigned = assigned * (now - unlockTime)
        /\ (now' - unlockTime) * assigned = assigned * (now' - unlockTime)
        /\ assigned * (now - unlockTime) \in Nat /\ assigned * (now' - unlockTime) \in Nat
        /\ claimed * UnlockDuration \in Nat
    BY <2>2, <2>4
  <2>7. claimed * UnlockDuration <= assigned * (now' - unlockTime)
    BY <2>1, <2>5, <2>6
  <2>8. QED BY <2>1, <2>7 DEF assigned, claimed
<1>3. QED BY <1>1, <1>2 DEF ClaimsMeasured

LEMMA MeasuredStep ==
    ASSUME ReleaseInv, VestingStarted, ClaimsMeasured, [Next]_vars
    PROVE  ClaimsMeasured'
<1>1. TypeOK
  BY DEF ReleaseInv
<1>2. CASE Claiming
  BY <1>2, ClaimMeasured DEF Claiming
<1>3. CASE Wait
  BY <1>3, WaitMeasured
<1>4. CASE Locking
  <2>1. PICK list \in Lists : Lock(list)
    BY <1>4 DEF Locking
  <2>2. unlockTime = 0
    BY <2>1 DEF Lock, IsUnlocked, ReleaseInv, TypeOK
  <2>3. ASSUME NEW a \in Accounts PROVE unlockInfo[a].claimed = 0 /\ unlockInfo[a].claimed \in Nat
    BY <2>2 DEF ClaimsMeasured, ReleaseInv, TypeOK
  <2>4. ASSUME NEW a \in Accounts PROVE unlockInfo'[a].claimed = unlockInfo[a].claimed
    <3>1. unlockInfo[a] \in [assigned : Nat, claimed : Nat]
      BY DEF ReleaseInv, TypeOK
    <3>2. unlockInfo'[a] = IF a \in DOMAIN list THEN [unlockInfo[a] EXCEPT !.assigned = @ + list[a]]
                                                ELSE unlockInfo[a]
      BY <2>1 DEF Lock
    <3>3. QED BY <3>1, <3>2
  <2>5. QED BY <2>3, <2>4 DEF ClaimsMeasured
<1>5. CASE Finishing \/ OnlyProjects
  BY <1>5 DEF Finishing, FinishProject, OnlyProjects, lockupVars, ClaimsMeasured
<1>6. QED BY <1>1, <1>2, <1>3, <1>4, <1>5, StepKinds

LEMMA VestingInvariant == Spec => [](ReleaseInv /\ VestingStarted /\ ClaimsMeasured)
<1>1. Init => VestingStarted /\ ClaimsMeasured
  BY DEF Init, LockupInit, VestingStarted, ClaimsMeasured
<1>2. ReleaseInv /\ VestingStarted /\ ClaimsMeasured /\ [Next]_vars
        => VestingStarted' /\ ClaimsMeasured'
  BY VestingStartedStep, MeasuredStep
<1>3. QED BY <1>1, <1>2, ReleaseInvariant, PTL DEF Spec

\* Nobody has claimed more of the locked tokens than the time since a release of the
\* awaited version, or of a greater one, allows (claimTokens).
THEOREM ClaimsStayVested == Spec => []ClaimsVested
<1>1. ReleaseInv /\ VestingStarted /\ ClaimsMeasured => ClaimsVested
  <2> SUFFICES ASSUME VestingStarted, ClaimsMeasured PROVE ClaimsVested
    OBVIOUS
  <2>1. ASSUME NEW a \in Accounts, unlockInfo[a].claimed > 0
        PROVE  \E f \in Releases :
                  /\ unlockInfo[a].claimed * UnlockDuration <= unlockInfo[a].assigned * (now - f.time)
                  /\ unlockInfo[a].claimed <= unlockInfo[a].assigned
    <3>1. PICK f \in Releases : f.time = unlockTime
      BY <2>1 DEF ClaimsMeasured, VestingStarted
    <3>2. QED BY <2>1, <3>1 DEF ClaimsMeasured
  <2>2. QED BY <2>1 DEF ClaimsVested
<1>2. QED BY <1>1, VestingInvariant, PTL

-----------------------------------------------------------------------------
(* Payments *)

\* A settled project has contributions that count, and nobody was paid for one that
\* is not finished.
Real(p) ==
    /\ p.state \in {"Accepting", "Finished"} =>
          DOMAIN p.shares # {} /\ \A who \in DOMAIN p.shares : p.shares[who] > 0
    /\ p.state = "Accepting" => p.paid = {}

RealProjects(list) == list \in [Ids -> ProjectType] /\ \A id \in Ids : Real(list[id])

\* No project has an id that is still to be given.
FreshIds ==
    /\ projectIdCounter \in Nat
    /\ \A id \in Ids : id >= projectIdCounter => projects[id].state = "NotFound"

DevDues(list)   == [id \in Ids |-> OwedDev(list[id])]
ExtraDues(list) == [id \in Ids |-> OwedExtra(list[id])]

\* The inductive invariant.
PaymentInv ==
    /\ TypeOK /\ RealProjects(projects) /\ FreshIds
    /\ treasury \in Nat /\ escrow \in Nat /\ Solvent

LEMMA IdsFinite == IsFiniteSet(Ids)
  BY ProjectAssumption, FS_Interval DEF Ids

LEMMA SolventIs ==
    Solvent <=> /\ treasury >= SumFunctionOnSet(DevDues(projects), Ids)
                /\ escrow >= SumFunctionOnSet(ExtraDues(projects), Ids)
  BY DEF Solvent, SumFunction, DevDues, ExtraDues

\* Shares of a list count.
LEMMA SharesCount ==
    ASSUME NEW p \in ProjectType
    PROVE  Counts(p.shares, DOMAIN p.shares) /\ DOMAIN p.shares \in SUBSET Accounts
<1>1. PICK S \in SUBSET Accounts : p.shares \in [S -> Nat]
  BY DEF ProjectType, ShareLists
<1>2. IsFiniteSet(S)
  BY FS_Subset, ChainAssumption
<1> QED BY <1>1, <1>2 DEF Counts

LEMMA TotalPositive ==
    ASSUME NEW p \in ProjectType, Real(p), p.state \in {"Accepting", "Finished"}
    PROVE  TotalValue(p) \in Nat \ {0}
<1>1. PICK who \in DOMAIN p.shares : p.shares[who] > 0
  BY DEF Real
<1>2. TotalValue(p) = SumFunctionOnSet(p.shares, DOMAIN p.shares)
  BY DEF TotalValue, SumFunction
<1>3. SumFunctionOnSet(p.shares, DOMAIN p.shares)
        = p.shares[who] + SumFunctionOnSet(p.shares, DOMAIN p.shares \ {who})
  BY SharesCount, SumTake
<1>4. SumFunctionOnSet(p.shares, DOMAIN p.shares \ {who}) \in Nat
  BY SharesCount, CountsParts, SumType
<1>5. p.shares[who] \in Nat
  BY SharesCount DEF Counts
<1> QED BY <1>1, <1>2, <1>3, <1>4, <1>5

\* What the two rewards of a project are.
LEMMA RewardTypes ==
    ASSUME NEW p \in ProjectType
    PROVE  /\ Reward(p) \in Nat /\ ExtraPart(p) \in Nat /\ Unearned(p) \in Nat
           /\ ExtraPart(p) + Unearned(p) <= p.extra
<1>1. PICK c : c = Coefficient(p.result)
  OBVIOUS
<1>2. c \in {0, 80, 100, 120}
  BY <1>1 DEF Coefficient
<1>3. PICK b, x : b = p.budget /\ x = p.extra
  OBVIOUS
<1>4. b \in Nat /\ x \in Nat
  BY <1>3 DEF ProjectType
<1>5. Reward(p) = (b * c) \div 100
  BY <1>1, <1>3 DEF Reward
<1>6. Reward(p) \in Nat
  <2>1. b * c \in Nat
    BY <1>2, <1>4
  <2>2. PICK n \in Nat : n = b * c
    BY <2>1
  <2>3. n \div 100 \in Nat
    OBVIOUS
  <2> QED BY <1>5, <2>2, <2>3
<1>7. ExtraPart(p) = (x * (IF c > 100 THEN 100 ELSE c)) \div 100
  BY <1>1, <1>3 DEF ExtraPart
<1>8. Unearned(p) = IF c < 100 THEN (x * (100 - c)) \div 100 ELSE 0
  BY <1>1, <1>3 DEF Unearned
<1>9. CASE c = 0
  <2>1. ExtraPart(p) = (x * 0) \div 100 /\ Unearned(p) = (x * 100) \div 100
    BY <1>7, <1>8, <1>9
  <2>2. (x * 0) \div 100 = 0 /\ (x * 100) \div 100 = x
    BY <1>4
  <2> QED BY <1>3, <1>4, <1>6, <2>1, <2>2
<1>10. CASE c = 80
  <2>1. ExtraPart(p) = (x * 80) \div 100 /\ Unearned(p) = (x * 20) \div 100
    BY <1>7, <1>8, <1>10
  <2>2. /\ (x * 80) \div 100 \in Nat /\ (x * 20) \div 100 \in Nat
        /\ (x * 80) \div 100 + (x * 20) \div 100 <= x
    BY <1>4
  <2> QED BY <1>3, <1>6, <2>1, <2>2
<1>11. CASE c \in {100, 120}
  <2>1. ExtraPart(p) = (x * 100) \div 100 /\ Unearned(p) = 0
    BY <1>7, <1>8, <1>11
  <2>2. (x * 100) \div 100 = x
    BY <1>4
  <2> QED BY <1>3, <1>4, <1>6, <2>1, <2>2
<1> QED BY <1>2, <1>9, <1>10, <1>11

LEMMA ShareCounts ==
    ASSUME NEW p \in ProjectType, TotalValue(p) \in Nat \ {0}, NEW amount \in Nat, NEW who
    PROVE  /\ Share(amount, p, who) \in Nat
           /\ Value(p, who) = 0 => Share(amount, p, who) = 0
<1>1. PICK v, total : v = Value(p, who) /\ total = TotalValue(p)
  OBVIOUS
<1>2. v \in Nat
  BY <1>1, SharesCount DEF Value, Counts
<1>3. amount * v \in Nat /\ amount * 0 = 0
  BY <1>2, ProductType
<1>4. \A n \in Nat : n \div total \in Nat
  BY <1>1
<1>5. 0 \div total = 0
  BY <1>1
<1> QED BY <1>1, <1>3, <1>4, <1>5 DEF Share

\* The shares of a project that are still to be paid.
Portions(amount, p) == [who \in DOMAIN p.shares |-> Share(amount, p, who)]

LEMMA UnpaidIs == \A amount, p : Unpaid(amount, p) = SumFunctionOnSet(Portions(amount, p), DOMAIN p.shares)
  BY DEF Unpaid, SumFunction, Portions

LEMMA PortionsCount ==
    ASSUME NEW p \in ProjectType, TotalValue(p) \in Nat \ {0}, NEW amount \in Nat
    PROVE  Counts(Portions(amount, p), DOMAIN p.shares) /\ Unpaid(amount, p) \in Nat
<1>1. Counts(Portions(amount, p), DOMAIN p.shares)
  BY SharesCount, ShareCounts DEF Portions, Counts
<1> QED BY <1>1, SumType, UnpaidIs

\* The shares of a project that nobody was paid for are no more than there is.
LEMMA UnpaidAtFirst ==
    ASSUME NEW p \in ProjectType, TotalValue(p) \in Nat \ {0}, NEW amount \in Nat, p.paid = {}
    PROVE  Unpaid(amount, p) <= amount
<1>1. PICK part, portion, total : /\ part = p.shares /\ portion = Portions(amount, p)
                                  /\ total = TotalValue(p)
  OBVIOUS
<1>2. Counts(part, DOMAIN p.shares)
  BY <1>1, SharesCount
<1>3. total = SumFunctionOnSet(part, DOMAIN p.shares) /\ total # 0
  BY <1>1 DEF TotalValue, SumFunction
<1>4. \A who \in DOMAIN p.shares : portion[who] = (amount * part[who]) \div total
  BY <1>1 DEF Portions, Share, Value
<1>5. SumFunctionOnSet(portion, DOMAIN p.shares) <= amount
  BY <1>2, <1>3, <1>4, SharesOfTotal
<1> QED BY <1>1, <1>5, UnpaidIs

\* A payment takes its share out of them.
LEMMA UnpaidAfter ==
    ASSUME NEW p \in ProjectType, TotalValue(p) \in Nat \ {0}, NEW amount \in Nat,
           NEW who \in DOMAIN p.shares, NEW q \in ProjectType, q = [p EXCEPT !.paid = @ \cup {who}]
    PROVE  Unpaid(amount, p) = Unpaid(amount, q) + Share(amount, p, who)
<1>1. q.shares = p.shares /\ q.paid = p.paid \cup {who}
  BY DEF ProjectType
<1>2. TotalValue(q) = TotalValue(p)
  BY <1>1 DEF TotalValue
<1>3. Value(q, who) = 0 /\ \A other : other # who => Value(q, other) = Value(p, other)
  BY <1>1 DEF Value
<1>4. PICK f, g, S : f = Portions(amount, q) /\ g = Portions(amount, p) /\ S = DOMAIN p.shares
  OBVIOUS
<1>5. Counts(f, S) /\ Counts(g, S)
  BY <1>1, <1>2, <1>4, PortionsCount
<1>6. \A other \in S : other # who => f[other] = g[other]
  BY <1>1, <1>2, <1>3, <1>4 DEF Portions, Share
<1>7. f[who] = 0 /\ g[who] = Share(amount, p, who)
  <2>1. Share(amount, q, who) = 0
    BY <1>2, <1>3, ShareCounts
  <2> QED BY <1>1, <1>4, <2>1 DEF Portions
<1>8. SumFunctionOnSet(g, S) + f[who] = SumFunctionOnSet(f, S) + g[who]
  <2> HIDE <1>4
  <2>1. who \in S
    BY <1>4
  <2> QED BY <1>5, <1>6, <2>1, SumChanged
<1>9. Unpaid(amount, p) = SumFunctionOnSet(g, S) /\ Unpaid(amount, q) = SumFunctionOnSet(f, S)
  BY <1>1, <1>4, UnpaidIs
<1>10. Unpaid(amount, p) \in Nat /\ Unpaid(amount, q) \in Nat /\ Share(amount, p, who) \in Nat
  BY <1>2, PortionsCount, ShareCounts
<1> QED BY <1>7, <1>8, <1>9, <1>10

\* What is owed for a project in each of its states.
LEMMA OwedIs ==
    ASSUME NEW p
    PROVE  /\ p.state = "Finished" =>
                 OwedDev(p) = Unpaid(Reward(p), p) /\ OwedExtra(p) = Unpaid(ExtraPart(p), p)
           /\ p.state \in {"Preparing", "Developing", "Accepting"} =>
                 OwedDev(p) = 0 /\ OwedExtra(p) = p.extra
           /\ p.state \in {"NotFound", "Rejected"} => OwedDev(p) = 0 /\ OwedExtra(p) = 0
  BY DEF OwedDev, OwedExtra

LEMMA OwedCounts ==
    ASSUME NEW p \in ProjectType, Real(p)
    PROVE  OwedDev(p) \in Nat /\ OwedExtra(p) \in Nat
<1>1. CASE p.state = "Finished"
  <2>1. Unpaid(Reward(p), p) \in Nat /\ Unpaid(ExtraPart(p), p) \in Nat
    BY <1>1, TotalPositive, RewardTypes, PortionsCount
  <2> QED BY <1>1, <2>1, OwedIs
<1>2. CASE p.state \in {"Preparing", "Developing", "Accepting"}
  <2>1. p.extra \in Nat
    BY DEF ProjectType
  <2> QED BY <1>2, <2>1, OwedIs
<1>3. CASE p.state \in {"NotFound", "Rejected"}
  BY <1>3, OwedIs
<1>4. p.state \in States
  BY DEF ProjectType
<1> QED BY <1>1, <1>2, <1>3, <1>4 DEF States

LEMMA DuesCount ==
    ASSUME NEW list, RealProjects(list)
    PROVE  Counts(DevDues(list), Ids) /\ Counts(ExtraDues(list), Ids)
  BY OwedCounts, IdsFinite DEF RealProjects, DevDues, ExtraDues, Counts

\* An operation on one project that takes from the balances no more than it takes
\* from what is owed for the project.
LEMMA OneProjectPaid ==
    ASSUME PaymentInv, NEW id \in Ids, NEW p, p = projects[id],
           NEW q \in ProjectType, Real(q), projects' = [projects EXCEPT ![id] = q],
           treasury' \in Nat, escrow' \in Nat,
           treasury + OwedDev(q) <= treasury' + OwedDev(p),
           escrow + OwedExtra(q) <= escrow' + OwedExtra(p)
    PROVE  RealProjects(projects)' /\ Solvent'
<1>1. PICK old, new : old = projects /\ new = projects'
  OBVIOUS
<1>2. RealProjects(old) /\ new = [old EXCEPT ![id] = q] /\ p = old[id]
  BY <1>1 DEF PaymentInv
<1>3. RealProjects(new)
  BY <1>2 DEF RealProjects
<1>4. new[id] = q /\ \A other \in Ids : other # id => new[other] = old[other]
  BY <1>2 DEF RealProjects
<1>5. PICK d, e, x, y : /\ d = DevDues(old) /\ e = DevDues(new)
                        /\ x = ExtraDues(old) /\ y = ExtraDues(new)
  OBVIOUS
<1>6. Counts(d, Ids) /\ Counts(e, Ids) /\ Counts(x, Ids) /\ Counts(y, Ids)
  BY <1>2, <1>3, <1>5, DuesCount
<1>7. /\ \A other \in Ids : other # id => d[other] = e[other] /\ x[other] = y[other]
      /\ d[id] = OwedDev(p) /\ e[id] = OwedDev(q)
      /\ x[id] = OwedExtra(p) /\ y[id] = OwedExtra(q)
  BY <1>2, <1>4, <1>5 DEF DevDues, ExtraDues
<1>8. SumFunctionOnSet(e, Ids) + d[id] = SumFunctionOnSet(d, Ids) + e[id]
  <2> HIDE <1>5
  <2> QED BY <1>6, <1>7, SumChanged
<1>9. SumFunctionOnSet(y, Ids) + x[id] = SumFunctionOnSet(x, Ids) + y[id]
  <2> HIDE <1>5
  <2> QED BY <1>6, <1>7, SumChanged
<1>10. PICK sd, se, sx, sy : /\ sd = SumFunctionOnSet(d, Ids) /\ se = SumFunctionOnSet(e, Ids)
                            /\ sx = SumFunctionOnSet(x, Ids) /\ sy = SumFunctionOnSet(y, Ids)
  OBVIOUS
<1>11. sd \in Nat /\ se \in Nat /\ sx \in Nat /\ sy \in Nat
  BY <1>6, <1>10, SumType
<1>12. d[id] \in Nat /\ e[id] \in Nat /\ x[id] \in Nat /\ y[id] \in Nat
  BY <1>6 DEF Counts
<1>13. treasury >= sd /\ escrow >= sx /\ treasury \in Nat /\ escrow \in Nat
  BY <1>1, <1>5, <1>10, SolventIs DEF PaymentInv
<1>14. treasury' >= se
  <2>1. treasury + e[id] <= treasury' + d[id] /\ se + d[id] = sd + e[id]
    BY <1>7, <1>8, <1>10
  <2> QED BY <1>11, <1>12, <1>13, <2>1
<1>15. escrow' >= sy
  <2>1. escrow + y[id] <= escrow' + x[id] /\ sy + x[id] = sx + y[id]
    BY <1>7, <1>9, <1>10
  <2> QED BY <1>11, <1>12, <1>13, <2>1
<1>16. treasury' >= SumFunctionOnSet(DevDues(projects'), Ids)
       /\ escrow' >= SumFunctionOnSet(ExtraDues(projects'), Ids)
  BY <1>1, <1>5, <1>10, <1>14, <1>15
<1>17. Solvent'
  BY <1>16 DEF Solvent, SumFunction, DevDues, ExtraDues
<1> QED BY <1>1, <1>3, <1>17

\* Nothing is owed otherwise for a project that only its decision, its deadline or
\* its title changes of.
LEMMA SameOwed ==
    ASSUME NEW p, NEW q, q.state = p.state, q.budget = p.budget, q.extra = p.extra,
           q.result = p.result, q.shares = p.shares, q.paid = p.paid
    PROVE  OwedDev(q) = OwedDev(p) /\ OwedExtra(q) = OwedExtra(p)
<1>1. \A amount, who : Share(amount, q, who) = Share(amount, p, who)
  BY DEF Share, Value, TotalValue
<1>2. \A amount : Unpaid(amount, q) = Unpaid(amount, p)
  BY <1>1 DEF Unpaid
<1>3. Reward(q) = Reward(p) /\ ExtraPart(q) = ExtraPart(p)
  BY DEF Reward, ExtraPart
<1> QED BY <1>2, <1>3 DEF OwedDev, OwedExtra

LEMMA CreatePaid ==
    ASSUME PaymentInv, NEW m \in Managers, NEW n \in Names, NEW v \in Versions, NEW b \in Budgets,
           NEW x \in ExtraAmounts, CreateProject(m, n, v, b, x)
    PROVE  /\ RealProjects(projects)' /\ FreshIds'
           /\ treasury' \in Nat /\ escrow' \in Nat /\ Solvent'
<1> DEFINE id == projectIdCounter
           q  == Proposed(Filled(NoProject, m, n, v, b, x))
<1>1. /\ id \in Ids /\ projectIdCounter' = id + 1 /\ projects' = [projects EXCEPT ![id] = q]
      /\ treasury' = treasury /\ escrow' = escrow + x
  BY DEF CreateProject, Filled, devVars
<1>2. v \in Nat /\ b \in Nat /\ x \in Nat /\ id \in Nat /\ projects \in [Ids -> ProjectType]
  BY ProjectAssumption DEF PaymentInv, FreshIds, TypeOK
<1>3. Filled(NoProject, m, n, v, b, x) \in ProjectType
  BY <1>2, NoProjectTyped, FilledTyped
<1>4. q \in ProjectType
  BY <1>3, ProposedTyped DEF PaymentInv, TypeOK
<1>5. q.state = "Preparing" /\ q.extra = x
  BY DEF Proposed, Filled, NoProject
<1>6. Real(q)
  BY <1>5 DEF Real
<1> HIDE DEF q
<1>7. projects[id].state = "NotFound"
  BY <1>1, <1>2 DEF PaymentInv, FreshIds
<1>8. OwedDev(projects[id]) = 0 /\ OwedExtra(projects[id]) = 0 /\ OwedDev(q) = 0 /\ OwedExtra(q) = x
  BY <1>5, <1>7, OwedIs
<1>9. treasury' \in Nat /\ escrow' \in Nat
  BY <1>1, <1>2 DEF PaymentInv
<1>10. /\ treasury + OwedDev(q) <= treasury' + OwedDev(projects[id])
       /\ escrow + OwedExtra(q) <= escrow' + OwedExtra(projects[id])
  BY <1>1, <1>2, <1>8, <1>9 DEF PaymentInv
<1>11. RealProjects(projects)' /\ Solvent'
  BY <1>1, <1>4, <1>6, <1>9, <1>10, OneProjectPaid
<1>12. FreshIds'
  <2>1. ASSUME NEW other \in Ids, other >= id + 1 PROVE projects'[other].state = "NotFound"
    <3>1. other \in Nat
      BY DEF Ids
    <3>2. other # id /\ other >= id
      BY <1>2, <2>1, <3>1
    <3>3. projects[other].state = "NotFound"
      BY <3>2 DEF PaymentInv, FreshIds
    <3> QED BY <1>1, <1>2, <3>2, <3>3
  <2> QED BY <1>1, <1>2, <2>1 DEF FreshIds
<1> QED BY <1>9, <1>11, <1>12

\* An operation on one project, which does not create it.
LEMMA ChangedPaid ==
    ASSUME PaymentInv, NEW id \in Ids, NEW p, p = projects[id], NEW q \in ProjectType, Real(q),
           p.state = "NotFound" => q.state = "NotFound", projects' = [projects EXCEPT ![id] = q],
           projectIdCounter' = projectIdCounter, treasury' \in Nat, escrow' \in Nat,
           treasury + OwedDev(q) <= treasury' + OwedDev(p),
           escrow + OwedExtra(q) <= escrow' + OwedExtra(p)
    PROVE  /\ RealProjects(projects)' /\ FreshIds'
           /\ treasury' \in Nat /\ escrow' \in Nat /\ Solvent'
<1>1. RealProjects(projects)' /\ Solvent'
  BY OneProjectPaid
<1>2. FreshIds'
  <2>1. projects \in [Ids -> ProjectType]
    BY DEF PaymentInv, TypeOK
  <2>2. \A other \in Ids : projects[other].state = "NotFound" => projects'[other].state = "NotFound"
    BY <2>1
  <2> QED BY <2>2 DEF PaymentInv, FreshIds
<1> QED BY <1>1, <1>2

\* What each step preserves.
Paid == /\ RealProjects(projects)' /\ FreshIds'
        /\ treasury' \in Nat /\ escrow' \in Nat /\ Solvent'

LEMMA SameBalances ==
    ASSUME PaymentInv, NEW id \in Ids, NEW p, p = projects[id], NEW q \in ProjectType, Real(q),
           p.state = "NotFound" => q.state = "NotFound", projects' = [projects EXCEPT ![id] = q],
           UNCHANGED <<projectIdCounter, treasury, escrow>>,
           OwedDev(q) = OwedDev(p), OwedExtra(q) = OwedExtra(p)
    PROVE  Paid
<1>1. p \in ProjectType /\ Real(p)
  BY DEF PaymentInv, RealProjects
<1>2. OwedDev(p) \in Nat /\ OwedExtra(p) \in Nat
  BY <1>1, OwedCounts
<1>3. treasury \in Nat /\ escrow \in Nat
  BY DEF PaymentInv
<1>4. /\ treasury + OwedDev(q) <= treasury' + OwedDev(p)
      /\ escrow + OwedExtra(q) <= escrow' + OwedExtra(p)
  BY <1>2, <1>3
<1>5. treasury' \in Nat /\ escrow' \in Nat /\ projectIdCounter' = projectIdCounter
  BY <1>3
<1> QED BY <1>4, <1>5, ChangedPaid DEF Paid

LEMMA DecidePaid ==
    ASSUME PaymentInv, NEW id \in Ids, NEW outcome \in Outcomes(id), Decide(id, outcome)
    PROVE  Paid
<1>1. PICK p : p = projects[id]
  OBVIOUS
<1>2. PICK q : q = [p EXCEPT !.decision = outcome]
  OBVIOUS
<1>3. p \in ProjectType /\ Real(p)
  BY <1>1 DEF PaymentInv, RealProjects
<1>4. outcome \in Decisions
  BY DEF Outcomes, Decisions
<1>5. /\ q \in ProjectType /\ q.state = p.state /\ q.budget = p.budget /\ q.extra = p.extra
      /\ q.result = p.result /\ q.shares = p.shares /\ q.paid = p.paid
  BY <1>2, <1>3, <1>4 DEF ProjectType
<1>6. Real(q)
  BY <1>3, <1>5 DEF Real
<1>7. projects' = [projects EXCEPT ![id] = q] /\ UNCHANGED <<projectIdCounter, treasury, escrow>>
  BY <1>1, <1>2 DEF Decide, devVars
<1>8. OwedDev(q) = OwedDev(p) /\ OwedExtra(q) = OwedExtra(p)
  BY <1>5, SameOwed
<1> QED BY <1>1, <1>5, <1>6, <1>7, <1>8, SameBalances

LEMMA StartPaid ==
    ASSUME PaymentInv, NEW m \in Managers, NEW id \in Ids, StartDevelopment(m, id)
    PROVE  Paid
<1>1. PICK p : p = projects[id]
  OBVIOUS
<1>2. PICK q : q = [p EXCEPT !.state = "Developing", !.decision = "Executed"]
  OBVIOUS
<1>3. p \in ProjectType /\ p.state = "Preparing"
  BY <1>1 DEF PaymentInv, RealProjects, StartDevelopment, Promotable
<1>4. q \in ProjectType /\ q.state = "Developing" /\ q.extra = p.extra
  BY <1>2, <1>3 DEF ProjectType, States, Decisions
<1>5. projects' = [projects EXCEPT ![id] = q] /\ UNCHANGED <<projectIdCounter, treasury, escrow>>
  <2>1. projects' = [projects EXCEPT ![id].state = "Developing", ![id].decision = "Executed"]
    BY DEF StartDevelopment, Promoted
  <2>2. projects' = [projects EXCEPT ![id] = q]
    BY <1>1, <1>2, <1>3, <2>1 DEF PaymentInv, RealProjects, ProjectType
  <2> QED BY <2>2 DEF StartDevelopment, devVars
<1>6. OwedDev(q) = OwedDev(p) /\ OwedExtra(q) = OwedExtra(p)
  BY <1>3, <1>4, OwedIs
<1>7. Real(q)
  BY <1>4 DEF Real
<1> QED BY <1>1, <1>3, <1>4, <1>5, <1>6, <1>7, SameBalances

LEMMA AcceptPaid ==
    ASSUME PaymentInv, NEW m \in Managers, NEW id \in Ids, NEW r \in Results, NEW c \in Contributions,
           AcceptProject(m, id, r, c)
    PROVE  Paid
<1>1. PICK p : p = projects[id]
  OBVIOUS
<1>2. PICK s : s = [p EXCEPT !.result = r, !.state = "Accepting", !.shares = c, !.paid = {}]
  OBVIOUS
<1>3. p \in ProjectType /\ p.state = "Developing"
  BY <1>1 DEF PaymentInv, RealProjects, AcceptProject, State
<1>4. c \in ShareLists
  BY ProjectAssumption DEF IsShareList, ShareLists
<1>5. s \in ProjectType /\ s.state = "Accepting" /\ s.extra = p.extra /\ s.shares = c /\ s.paid = {}
  BY <1>2, <1>3, <1>4 DEF ProjectType, States
<1>6. PICK q : q = Proposed(s)
  OBVIOUS
<1>7. q \in ProjectType
  BY <1>5, <1>6, ProposedTyped DEF PaymentInv, TypeOK
<1>8. q.state = "Accepting" /\ q.extra = p.extra /\ q.shares = c /\ q.paid = {}
  BY <1>5, <1>6 DEF Proposed, ProjectType
<1>9. Real(q)
  BY <1>8 DEF Real, AcceptProject
<1>10. projects' = [projects EXCEPT ![id] = q] /\ UNCHANGED <<projectIdCounter, treasury, escrow>>
  BY <1>1, <1>2, <1>6 DEF AcceptProject, devVars
<1>11. OwedDev(q) = OwedDev(p) /\ OwedExtra(q) = OwedExtra(p)
  BY <1>3, <1>8, OwedIs
<1> QED BY <1>1, <1>3, <1>7, <1>9, <1>10, <1>11, SameBalances

LEMMA CorrectPaid ==
    ASSUME PaymentInv, NEW m \in Managers, NEW id \in Ids, NEW who \in Accounts, NEW value \in Values,
           UpdateContribute(m, id, who, value)
    PROVE  Paid
<1>1. PICK p : p = projects[id]
  OBVIOUS
<1>2. PICK list : list = [c \in DOMAIN p.shares \cup {who} |-> IF c = who THEN value ELSE p.shares[c]]
  OBVIOUS
<1>3. p \in ProjectType /\ p.state = "Accepting" /\ Real(p)
  BY <1>1 DEF PaymentInv, RealProjects, UpdateContribute, State
<1>4. value \in Nat /\ value > 0
  BY ProjectAssumption
<1>5. list \in ShareLists
  <2>1. PICK S \in SUBSET Accounts : p.shares \in [S -> Nat]
    BY <1>3 DEF ProjectType, ShareLists
  <2>2. list \in [S \cup {who} -> Nat]
    BY <1>2, <1>4, <2>1
  <2> QED BY <2>2 DEF ShareLists
<1>6. PICK q : q = [p EXCEPT !.shares = list]
  OBVIOUS
<1>7. /\ q \in ProjectType /\ q.state = "Accepting" /\ q.extra = p.extra
      /\ q.shares = list /\ q.paid = p.paid
  BY <1>3, <1>5, <1>6 DEF ProjectType
<1>8. Real(q)
  <2>1. DOMAIN list # {} /\ \A c \in DOMAIN list : list[c] > 0
    BY <1>2, <1>3, <1>4 DEF Real
  <2> QED BY <1>3, <1>7, <2>1 DEF Real
<1>9. projects' = [projects EXCEPT ![id] = q] /\ UNCHANGED <<projectIdCounter, treasury, escrow>>
  BY <1>1, <1>2, <1>6 DEF UpdateContribute, devVars
<1>10. OwedDev(q) = OwedDev(p) /\ OwedExtra(q) = OwedExtra(p)
  BY <1>3, <1>7, OwedIs
<1> QED BY <1>1, <1>3, <1>7, <1>8, <1>9, <1>10, SameBalances

LEMMA CancelPaid ==
    ASSUME PaymentInv, NEW m \in Managers, NEW id \in Ids, CancelProject(m, id)
    PROVE  Paid
<1>1. PICK p : p = projects[id]
  OBVIOUS
<1>2. PICK q : q = [p EXCEPT !.state = "Rejected"]
  OBVIOUS
<1>3. /\ p \in ProjectType /\ p.state \in {"Preparing", "Accepting"}
      /\ escrow >= p.extra /\ escrow' = escrow - p.extra
      /\ treasury' = treasury /\ projectIdCounter' = projectIdCounter
      /\ projects' = [projects EXCEPT ![id] = q]
  BY <1>1, <1>2 DEF PaymentInv, RealProjects, CancelProject, devVars
<1>4. q \in ProjectType /\ q.state = "Rejected"
  BY <1>2, <1>3 DEF ProjectType, States
<1>5. Real(q)
  BY <1>4 DEF Real
<1>6. OwedDev(p) = 0 /\ OwedExtra(p) = p.extra /\ OwedDev(q) = 0 /\ OwedExtra(q) = 0
  BY <1>3, <1>4, OwedIs
<1>7. p.extra \in Nat /\ treasury \in Nat /\ escrow \in Nat
  BY <1>3 DEF ProjectType, PaymentInv
<1>8. treasury' \in Nat /\ escrow' \in Nat
  BY <1>3, <1>7
<1>9. /\ treasury + OwedDev(q) <= treasury' + OwedDev(p)
      /\ escrow + OwedExtra(q) <= escrow' + OwedExtra(p)
  BY <1>3, <1>6, <1>7
<1> QED BY <1>1, <1>3, <1>4, <1>5, <1>8, <1>9, ChangedPaid DEF Paid

\* The reward comes in and covers the shares; what is not earned goes out.
LEMMA FinishPaid ==
    ASSUME PaymentInv, NEW m \in Managers, NEW id \in Ids, FinishProject(m, id)
    PROVE  Paid
<1>1. PICK p : p = projects[id]
  OBVIOUS
<1>2. PICK q : q = [p EXCEPT !.state = "Finished", !.decision = "Executed"]
  OBVIOUS
<1>3. /\ p \in ProjectType /\ Real(p) /\ p.state = "Accepting"
      /\ treasury' = treasury + Reward(p) /\ escrow >= Unearned(p) /\ escrow' = escrow - Unearned(p)
      /\ projectIdCounter' = projectIdCounter
  BY <1>1 DEF PaymentInv, RealProjects, FinishProject, Promotable
<1>4. /\ q \in ProjectType /\ q.state = "Finished" /\ q.budget = p.budget /\ q.extra = p.extra
      /\ q.result = p.result /\ q.shares = p.shares /\ q.paid = p.paid
  BY <1>2, <1>3 DEF ProjectType, States, Decisions
<1>5. projects' = [projects EXCEPT ![id] = q]
  <2>1. projects' = [projects EXCEPT ![id].state = "Finished", ![id].decision = "Executed"]
    BY DEF FinishProject, Promoted
  <2> QED BY <1>1, <1>2, <1>3, <2>1 DEF PaymentInv, RealProjects, ProjectType
<1>6. Real(q) /\ q.paid = {}
  BY <1>3, <1>4 DEF Real
<1>7. TotalValue(q) \in Nat \ {0}
  BY <1>4, <1>6, TotalPositive
<1>8. Reward(q) = Reward(p) /\ ExtraPart(q) = ExtraPart(p) /\ Unearned(q) = Unearned(p)
  BY <1>4 DEF Reward, ExtraPart, Unearned
<1>9. PICK r, x, u : r = Reward(p) /\ x = ExtraPart(p) /\ u = Unearned(p)
  OBVIOUS
<1>10. r \in Nat /\ x \in Nat /\ u \in Nat /\ x + u <= p.extra /\ p.extra \in Nat
  BY <1>3, <1>9, RewardTypes DEF ProjectType
<1>11. /\ OwedDev(q) \in Nat /\ OwedDev(q) <= r
       /\ OwedExtra(q) \in Nat /\ OwedExtra(q) <= x
  <2>1. /\ Unpaid(r, q) \in Nat /\ Unpaid(r, q) <= r
        /\ Unpaid(x, q) \in Nat /\ Unpaid(x, q) <= x
    BY <1>4, <1>6, <1>7, <1>10, PortionsCount, UnpaidAtFirst
  <2> QED BY <1>4, <1>8, <1>9, <2>1, OwedIs
<1>12. OwedDev(p) = 0 /\ OwedExtra(p) = p.extra
  BY <1>3, OwedIs
<1>13. treasury \in Nat /\ escrow \in Nat
  BY DEF PaymentInv
<1>14. treasury' \in Nat /\ escrow' \in Nat
  BY <1>3, <1>9, <1>10, <1>13
<1>15. /\ treasury + OwedDev(q) <= treasury' + OwedDev(p)
       /\ escrow + OwedExtra(q) <= escrow' + OwedExtra(p)
  BY <1>3, <1>9, <1>10, <1>11, <1>12, <1>13
<1>16. p.state = "NotFound" => q.state = "NotFound"
  BY <1>3
<1> QED BY <1>1, <1>3, <1>4, <1>5, <1>6, <1>14, <1>15, <1>16, ChangedPaid DEF Paid

\* Payments for several projects take out of the balances what they take from what
\* is owed.
LEMMA WithdrawPaid ==
    ASSUME PaymentInv, NEW who \in Accounts, NEW ids \in SUBSET Ids, WithdrawContributions(who, ids)
    PROVE  Paid
<1>1. PICK old, new : old = projects /\ new = projects'
  OBVIOUS
<1> DEFINE after(p) == [p EXCEPT !.paid = @ \cup {who}]
<1>2. /\ new = [id \in Ids |-> IF id \in ids /\ who \in DOMAIN old[id].shares THEN after(old[id])
                                                                              ELSE old[id]]
      /\ \A id \in ids : old[id].state = "Finished"
      /\ projectIdCounter' = projectIdCounter
  BY <1>1 DEF WithdrawContributions, State
<1>3. RealProjects(old)
  BY <1>1 DEF PaymentInv
<1>4. ASSUME NEW p \in ProjectType
      PROVE  /\ after(p) \in ProjectType /\ after(p).state = p.state /\ after(p).shares = p.shares
             /\ after(p).budget = p.budget /\ after(p).extra = p.extra
             /\ after(p).result = p.result
  BY DEF ProjectType
<1>5. \A id \in Ids : /\ id \in ids /\ who \in DOMAIN old[id].shares => new[id] = after(old[id])
                      /\ ~ (id \in ids /\ who \in DOMAIN old[id].shares) => new[id] = old[id]
  BY <1>2
<1> HIDE DEF after
<1>6. \A id \in Ids : new[id] \in ProjectType /\ new[id].state = old[id].state
  BY <1>3, <1>4, <1>5 DEF RealProjects
<1>7. RealProjects(new)
  <2>1. ASSUME NEW id \in Ids PROVE Real(new[id])
    <3>1. CASE id \in ids /\ who \in DOMAIN old[id].shares
      <4>1. new[id].state = "Finished" /\ new[id].shares = old[id].shares
        BY <1>2, <1>3, <1>4, <1>5, <1>6, <3>1 DEF RealProjects
      <4> QED BY <1>3, <1>6, <4>1 DEF RealProjects, Real
    <3>2. CASE ~ (id \in ids /\ who \in DOMAIN old[id].shares)
      BY <1>3, <1>5, <3>2 DEF RealProjects
    <3> QED BY <3>1, <3>2
  <2>2. new \in [Ids -> ProjectType]
    BY <1>2, <1>6
  <2> QED BY <2>1, <2>2 DEF RealProjects
<1>8. ASSUME NEW id \in Ids, id \in ids
      PROVE  /\ OwedDev(old[id]) = OwedDev(new[id]) + Share(Reward(old[id]), old[id], who)
             /\ OwedExtra(old[id]) = OwedExtra(new[id]) + Share(ExtraPart(old[id]), old[id], who)
             /\ Share(Reward(old[id]), old[id], who) \in Nat
             /\ Share(ExtraPart(old[id]), old[id], who) \in Nat
  <2>1. PICK p, q : p = old[id] /\ q = new[id]
    OBVIOUS
  <2>2. p \in ProjectType /\ Real(p) /\ p.state = "Finished" /\ q \in ProjectType /\ Real(q)
        /\ q.state = "Finished"
    BY <1>2, <1>3, <1>6, <1>7, <1>8, <2>1 DEF RealProjects
  <2>3. TotalValue(p) \in Nat \ {0} /\ Reward(p) \in Nat /\ ExtraPart(p) \in Nat
    BY <2>2, TotalPositive, RewardTypes
  <2>4. Share(Reward(p), p, who) \in Nat /\ Share(ExtraPart(p), p, who) \in Nat
    BY <2>2, <2>3, ShareCounts
  <2>5. /\ OwedDev(p) = Unpaid(Reward(p), p) /\ OwedExtra(p) = Unpaid(ExtraPart(p), p)
        /\ OwedDev(q) = Unpaid(Reward(q), q) /\ OwedExtra(q) = Unpaid(ExtraPart(q), q)
    BY <2>2, OwedIs
  <2>6. CASE who \in DOMAIN p.shares
    <3>1. q = after(p)
      BY <1>5, <1>8, <2>1, <2>6
    <3>2. q = [p EXCEPT !.paid = @ \cup {who}]
      BY <3>1 DEF after
    <3>3. Reward(q) = Reward(p) /\ ExtraPart(q) = ExtraPart(p)
      BY <1>4, <2>2, <3>1 DEF Reward, ExtraPart
    <3>4. /\ Unpaid(Reward(p), p) = Unpaid(Reward(p), q) + Share(Reward(p), p, who)
          /\ Unpaid(ExtraPart(p), p) = Unpaid(ExtraPart(p), q) + Share(ExtraPart(p), p, who)
      BY <2>2, <2>3, <2>6, <3>2, UnpaidAfter
    <3> QED BY <2>1, <2>4, <2>5, <3>3, <3>4
  <2>7. CASE who \notin DOMAIN p.shares
    <3>1. q = p
      BY <1>5, <2>1, <2>7
    <3>2. Value(p, who) = 0
      BY <2>7 DEF Value
    <3>3. Share(Reward(p), p, who) = 0 /\ Share(ExtraPart(p), p, who) = 0
      BY <2>2, <2>3, <3>2, ShareCounts
    <3>4. OwedDev(p) \in Nat /\ OwedExtra(p) \in Nat
      BY <2>2, OwedCounts
    <3> QED BY <2>1, <3>1, <3>3, <3>4
  <2> QED BY <2>6, <2>7
<1>9. PICK fd, fx : /\ fd = [id \in Ids |-> IF id \in ids THEN Share(Reward(old[id]), old[id], who) ELSE 0]
                    /\ fx = [id \in Ids |-> IF id \in ids THEN Share(ExtraPart(old[id]), old[id], who) ELSE 0]
  OBVIOUS
<1>10. PICK d, e, x, y : /\ d = DevDues(old) /\ e = DevDues(new)
                         /\ x = ExtraDues(old) /\ y = ExtraDues(new)
  OBVIOUS
<1>11. Counts(d, Ids) /\ Counts(e, Ids) /\ Counts(x, Ids) /\ Counts(y, Ids)
  BY <1>3, <1>7, <1>10, DuesCount
<1>12. /\ \A id \in Ids : fd[id] \in Nat /\ fx[id] \in Nat
       /\ \A id \in Ids \ ids : fd[id] = 0 /\ fx[id] = 0
  BY <1>8, <1>9
<1>13. Counts(fd, Ids) /\ Counts(fx, Ids)
  BY <1>12, IdsFinite DEF Counts
<1>14. ASSUME NEW id \in Ids PROVE d[id] = e[id] + fd[id] /\ x[id] = y[id] + fx[id]
  <2>1. CASE id \in ids
    BY <1>8, <1>9, <1>10, <2>1 DEF DevDues, ExtraDues
  <2>2. CASE id \notin ids
    <3>1. new[id] = old[id] /\ fd[id] = 0 /\ fx[id] = 0
      BY <1>5, <1>12, <2>2
    <3>2. d[id] = e[id] /\ x[id] = y[id]
      BY <1>10, <3>1 DEF DevDues, ExtraDues
    <3> QED BY <1>11, <3>1, <3>2 DEF Counts
  <2> QED BY <2>1, <2>2
<1>15. /\ SumFunctionOnSet(d, Ids) = SumFunctionOnSet(e, Ids) + SumFunctionOnSet(fd, Ids)
       /\ SumFunctionOnSet(x, Ids) = SumFunctionOnSet(y, Ids) + SumFunctionOnSet(fx, Ids)
  <2> HIDE <1>9, <1>10
  <2>1. SumFunctionOnSet(d, Ids) = SumFunctionOnSet(e, Ids) + SumFunctionOnSet(fd, Ids)
    BY <1>11, <1>13, <1>14, SumBoth
  <2>2. SumFunctionOnSet(x, Ids) = SumFunctionOnSet(y, Ids) + SumFunctionOnSet(fx, Ids)
    BY <1>11, <1>13, <1>14, SumBoth
  <2> QED BY <2>1, <2>2
<1>16. PICK dev, extra : dev = SumFunctionOnSet(fd, Ids) /\ extra = SumFunctionOnSet(fx, Ids)
  OBVIOUS
<1>17. /\ treasury >= dev /\ treasury' = treasury - dev
       /\ escrow >= extra /\ escrow' = escrow - extra
  <2>1. PICK gd, gx : /\ gd = [id \in ids |-> Share(Reward(old[id]), old[id], who)]
                      /\ gx = [id \in ids |-> Share(ExtraPart(old[id]), old[id], who)]
    OBVIOUS
  <2>2. \A id \in ids : gd[id] = fd[id] /\ gx[id] = fx[id]
    BY <1>9, <2>1
  <2>3. IsFiniteSet(ids)
    BY IdsFinite, FS_Subset
  <2>4. SumFunctionOnSet(gd, ids) = SumFunctionOnSet(fd, ids)
    BY <2>2, <2>3, SumSame
  <2>5. SumFunctionOnSet(gx, ids) = SumFunctionOnSet(fx, ids)
    BY <2>2, <2>3, SumSame
  <2>6. dev = SumFunctionOnSet(fd, ids) /\ extra = SumFunctionOnSet(fx, ids)
    BY <1>12, <1>13, <1>16, SumOfPart
  <2>7. SumFunction(gd) = dev /\ SumFunction(gx) = extra
    BY <2>1, <2>4, <2>5, <2>6 DEF SumFunction
  <2> QED BY <1>1, <2>1, <2>7 DEF WithdrawContributions
<1>18. PICK se, sy : se = SumFunctionOnSet(e, Ids) /\ sy = SumFunctionOnSet(y, Ids)
  OBVIOUS
<1>19. dev \in Nat /\ extra \in Nat /\ se \in Nat /\ sy \in Nat
  BY <1>11, <1>13, <1>16, <1>18, SumType
<1>20. treasury >= se + dev /\ escrow >= sy + extra /\ treasury \in Nat /\ escrow \in Nat
  BY <1>1, <1>10, <1>15, <1>16, <1>18, SolventIs DEF PaymentInv
<1>21. treasury' \in Nat /\ escrow' \in Nat /\ treasury' >= se /\ escrow' >= sy
  BY <1>17, <1>19, <1>20
<1>22. Solvent'
  BY <1>1, <1>10, <1>18, <1>21 DEF Solvent, SumFunction, DevDues, ExtraDues
<1>23. FreshIds'
  BY <1>1, <1>2, <1>6 DEF FreshIds, PaymentInv
<1> QED BY <1>1, <1>7, <1>21, <1>22, <1>23 DEF Paid

LEMMA PaymentStep ==
    ASSUME PaymentInv, [Next]_vars
    PROVE  PaymentInv'
<1>1. ASSUME UNCHANGED <<projectIdCounter, projects, treasury, escrow>> PROVE Paid
  BY <1>1 DEF PaymentInv, Paid, FreshIds, Solvent
<1>2. ASSUME UNCHANGED vars PROVE Paid
  BY <1>1, <1>2 DEF vars, projectVars, devVars
<1>3. ASSUME Wait PROVE Paid
  BY <1>1, <1>3 DEF Wait, projectVars, devVars
<1>4. ASSUME LockupNext PROVE Paid
  BY <1>1, <1>4 DEF LockupNext, ConvertAndLock, TransferAndLock, ClaimTokens, projectVars, devVars
<1>5. ASSUME NEW m \in Managers, NEW n \in Names, NEW v \in Versions, NEW b \in Budgets,
             NEW x \in ExtraAmounts, CreateProject(m, n, v, b, x)
      PROVE  Paid
  BY <1>5, CreatePaid DEF Paid
<1>6. ASSUME ProjectNext PROVE Paid
  BY <1>5, <1>6, CancelPaid, StartPaid, FinishPaid, AcceptPaid, CorrectPaid, DecidePaid,
     WithdrawPaid DEF ProjectNext
<1>7. Paid
  BY <1>2, <1>3, <1>4, <1>6 DEF Next
<1>8. TypeOK'
  BY TypeStep DEF PaymentInv
<1> QED BY <1>7, <1>8 DEF Paid, PaymentInv

LEMMA PaymentInit == Init => PaymentInv
<1> SUFFICES ASSUME Init PROVE PaymentInv
  OBVIOUS
<1>1. TypeOK
  BY InitTyped
<1>2. projects = [id \in Ids |-> NoProject] /\ projectIdCounter = 1 /\ treasury = 0 /\ escrow = 0
  BY DEF Init, ProjectInit
<1>3. RealProjects(projects)
  BY <1>1, <1>2 DEF RealProjects, TypeOK, Real, NoProject
<1>4. FreshIds
  BY <1>2 DEF FreshIds, NoProject
<1>5. OwedDev(NoProject) = 0 /\ OwedExtra(NoProject) = 0
  BY OwedIs DEF NoProject
<1>6. \A id \in Ids : DevDues(projects)[id] = 0 /\ ExtraDues(projects)[id] = 0
  BY <1>2, <1>5 DEF DevDues, ExtraDues
<1>7. SumFunctionOnSet(DevDues(projects), Ids) = 0
  BY <1>6, SumZero, IdsFinite
<1>8. SumFunctionOnSet(ExtraDues(projects), Ids) = 0
  BY <1>6, SumZero, IdsFinite
<1>9. Solvent
  BY <1>2, <1>7, <1>8, SolventIs
<1> QED BY <1>1, <1>2, <1>3, <1>4, <1>9 DEF PaymentInv

\* The balances that all projects share always suffice for every payment still due,
\* for any number of projects, contributors and corrections (withdrawContributions,
\* cancelProject).
THEOREM AlwaysSolvent == Spec => []Solvent
<1>1. PaymentInv /\ [Next]_vars => PaymentInv'
  BY PaymentStep
<1>2. PaymentInv => Solvent
  BY DEF PaymentInv
<1> QED BY <1>1, <1>2, PaymentInit, PTL DEF Spec

-----------------------------------------------------------------------------
(* The tokens behind the claims *)

Unclaimed(info) == [a \in Accounts |-> info[a].assigned - info[a].claimed]

Entries == [Accounts -> [assigned : Nat, claimed : Nat]]

ClaimedAtMost(info) == \A a \in Accounts : info[a].claimed <= info[a].assigned

\* Balances are counts, and what is locked and not claimed yet is there.
CoverInv == normal \in [Holders -> Nat] /\ ClaimsCovered

LEMMA CoveredIs ==
    ClaimsCovered <=>
        normal[LockupAddress] >= SumFunctionOnSet(Unclaimed(unlockInfo), Accounts)
  BY DEF ClaimsCovered, Unclaimed, SumFunction

LEMMA UnclaimedCounts ==
    ASSUME NEW info \in Entries, ClaimedAtMost(info)
    PROVE  Counts(Unclaimed(info), Accounts)
<1> SUFFICES ASSUME NEW a \in Accounts PROVE info[a].assigned - info[a].claimed \in Nat
  BY ChainAssumption DEF Counts, Unclaimed
<1>1. info[a] \in [assigned : Nat, claimed : Nat] /\ info[a].claimed <= info[a].assigned
  BY DEF Entries, ClaimedAtMost
<1> QED BY <1>1

LEMMA AtMostAssigned ==
    ASSUME TypeOK, ClaimsMeasured
    PROVE  unlockInfo \in Entries /\ ClaimedAtMost(unlockInfo)
<1>1. unlockInfo \in Entries
  BY DEF TypeOK, Entries
<1>2. ASSUME NEW a \in Accounts PROVE unlockInfo[a].claimed <= unlockInfo[a].assigned
  <2>1. unlockInfo[a] \in [assigned : Nat, claimed : Nat]
    BY <1>1 DEF Entries
  <2>2. unlockInfo[a].claimed \in Nat /\ unlockInfo[a].assigned \in Nat
    BY <2>1
  <2> QED BY <2>2 DEF ClaimsMeasured
<1> QED BY <1>1, <1>2 DEF ClaimedAtMost

\* Locking a list of amounts raises what is unclaimed by the total of the list.
LEMMA LockRaises ==
    ASSUME TypeOK, ClaimsMeasured, NEW list \in Lists, Lock(list)
    PROVE  /\ TotalOf(list) \in Nat
           /\ SumFunctionOnSet(Unclaimed(unlockInfo)', Accounts)
                = SumFunctionOnSet(Unclaimed(unlockInfo), Accounts) + TotalOf(list)
<1>1. PICK S \in SUBSET Accounts : list \in [S -> Nat]
  BY LockupAssumption DEF IsShareList
<1> DEFINE all == [a \in Accounts |-> IF a \in S THEN list[a] ELSE 0]
<1>2. DOMAIN list = S /\ Counts(list, S) /\ Counts(all, Accounts)
  BY <1>1, ChainAssumption, FS_Subset DEF Counts
<1>3. /\ \A a \in Accounts \ S : all[a] = 0
      /\ \A a \in S : all[a] = list[a]
  OBVIOUS
<1>4. PICK f : f = Unclaimed(unlockInfo)
  OBVIOUS
<1>5. PICK g : g = Unclaimed(unlockInfo)'
  OBVIOUS
<1>6. Counts(f, Accounts)
  BY <1>4, AtMostAssigned, UnclaimedCounts
<1>7. ASSUME NEW a \in Accounts PROVE g[a] = f[a] + all[a]
  <2>1. PICK r \in [assigned : Nat, claimed : Nat] : r = unlockInfo[a]
    BY DEF TypeOK
  <2>2. r.assigned \in Nat /\ r.claimed \in Nat
    BY <2>1
  <2>3. f[a] = r.assigned - r.claimed /\ g[a] = unlockInfo'[a].assigned - unlockInfo'[a].claimed
    BY <1>4, <1>5, <2>1 DEF Unclaimed
  <2>4. unlockInfo'[a] = IF a \in S THEN [r EXCEPT !.assigned = @ + list[a]] ELSE r
    BY <1>2, <2>1 DEF Lock
  <2>5. CASE a \in S
    <3>1. /\ unlockInfo'[a].assigned = r.assigned + list[a] /\ unlockInfo'[a].claimed = r.claimed
          /\ list[a] \in Nat
      BY <1>1, <2>1, <2>4, <2>5
    <3> QED BY <2>2, <2>3, <2>5, <3>1
  <2>6. CASE a \notin S
    BY <2>2, <2>3, <2>4, <2>6
  <2> QED BY <2>5, <2>6
<1> HIDE DEF all
<1>8. SumFunctionOnSet(g, Accounts)
        = SumFunctionOnSet(f, Accounts) + SumFunctionOnSet(all, Accounts)
  BY <1>2, <1>6, <1>7, SumBoth
<1>9. SumFunctionOnSet(all, Accounts) = SumFunctionOnSet(all, S)
  BY <1>2, <1>3, SumOfPart
<1>10. SumFunctionOnSet(all, S) = SumFunctionOnSet(list, S)
  BY <1>2, <1>3, SumSame DEF Counts
<1>11. TotalOf(list) = SumFunctionOnSet(list, S)
  BY <1>2 DEF TotalOf, SumFunction
<1> QED BY <1>2, <1>4, <1>5, <1>8, <1>9, <1>10, <1>11, SumType

LEMMA LockupHolds == LockupAddress \in Holders /\ \A a \in Accounts : a \in Holders /\ a # LockupAddress
  BY ChainAssumption DEF Holders

LEMMA UnclaimedType ==
    ASSUME TypeOK, ClaimsMeasured
    PROVE  SumFunctionOnSet(Unclaimed(unlockInfo), Accounts) \in Nat
<1>1. Counts(Unclaimed(unlockInfo), Accounts)
  BY AtMostAssigned, UnclaimedCounts
<1> QED BY <1>1, SumType

\* The next step gives the lockup what it locks.
LEMMA LockingCovered ==
    ASSUME TypeOK, ClaimsMeasured, CoverInv, NEW list \in Lists, Lock(list),
           \/ Mint(LockupAddress, TotalOf(list))
           \/ \E a \in Accounts : Transfer(a, LockupAddress, TotalOf(list))
    PROVE  CoverInv'
<1>1. PICK n : n = TotalOf(list)
  OBVIOUS
<1>2. n \in Nat
  BY <1>1, LockRaises
<1>3. normal' \in [Holders -> Nat] /\ normal'[LockupAddress] = normal[LockupAddress] + n
  <2>1. CASE Mint(LockupAddress, n)
    <3>1. normal \in [Holders -> Nat]
      BY DEF CoverInv
    <3> QED BY <1>2, <2>1, <3>1, LockupHolds DEF Mint
  <2>2. ASSUME NEW a \in Accounts, Transfer(a, LockupAddress, n)
        PROVE  normal' \in [Holders -> Nat] /\ normal'[LockupAddress] = normal[LockupAddress] + n
    <3>1. normal \in [Holders -> Nat] /\ a \in Holders /\ a # LockupAddress /\ LockupAddress \in Holders
      BY LockupHolds DEF CoverInv
    <3>2. normal[a] \in Nat /\ normal[a] >= n /\ normal[LockupAddress] \in Nat
      BY <2>2, <3>1 DEF Transfer
    <3>3. normal[a] - n \in Nat /\ normal[LockupAddress] + n \in Nat
      BY <1>2, <3>2
    <3>4. normal' = [normal EXCEPT ![a] = normal[a] - n, ![LockupAddress] = normal[LockupAddress] + n]
      BY <2>2, <3>1 DEF Transfer
    <3> QED BY <3>1, <3>3, <3>4
  <2> QED BY <1>1, <2>1, <2>2
<1>4. PICK x, y, z : /\ x = SumFunctionOnSet(Unclaimed(unlockInfo), Accounts)
                     /\ y = SumFunctionOnSet(Unclaimed(unlockInfo)', Accounts)
                     /\ z = normal[LockupAddress]
  OBVIOUS
<1>5. x \in Nat /\ y = x + n /\ z \in Nat /\ z >= x
  BY <1>1, <1>4, LockRaises, UnclaimedType, LockupHolds, CoveredIs DEF CoverInv
<1>6. z + n >= y
  BY <1>2, <1>5
<1>7. ClaimsCovered'
  BY <1>3, <1>4, <1>6 DEF ClaimsCovered, Unclaimed, SumFunction
<1> QED BY <1>3, <1>7 DEF CoverInv

\* A claim takes as much from the lockup as it settles.
LEMMA ClaimCovered ==
    ASSUME ReleaseInv, VestingStarted, ClaimsMeasured, CoverInv,
           NEW a \in Accounts, NEW n \in ClaimAmounts, ClaimTokens(a, n)
    PROVE  CoverInv'
<1>1. TypeOK /\ n \in Nat /\ ClaimsMeasured'
  BY LockupAssumption, ClaimMeasured DEF ReleaseInv
<1>2. unlockInfo' \in Entries
  BY <1>1, ClaimTyped DEF Entries
<1>3. PICK f : f = Unclaimed(unlockInfo)
  OBVIOUS
<1>4. PICK g : g = Unclaimed(unlockInfo)'
  OBVIOUS
<1>5. PICK r \in [assigned : Nat, claimed : Nat] : r = unlockInfo[a]
  BY <1>1 DEF TypeOK
<1>6. unlockInfo' = [unlockInfo EXCEPT ![a] = [r EXCEPT !.claimed = r.claimed + n]]
  BY <1>5 DEF ClaimTokens
<1>7. unlockInfo \in Entries
  BY <1>1 DEF TypeOK, Entries
<1>8. \A x \in Accounts : x # a => unlockInfo'[x] = unlockInfo[x]
  BY <1>6, <1>7 DEF Entries
<1>9. unlockInfo'[a].assigned = r.assigned /\ unlockInfo'[a].claimed = r.claimed + n
  BY <1>5, <1>6, <1>7 DEF Entries
<1>10. ClaimedAtMost(unlockInfo')
  <2>1. ASSUME NEW x \in Accounts PROVE unlockInfo'[x].claimed <= unlockInfo'[x].assigned
    <3>1. unlockInfo'[x] \in [assigned : Nat, claimed : Nat]
      BY <1>2 DEF Entries
    <3>2. unlockInfo'[x].claimed \in Nat /\ unlockInfo'[x].assigned \in Nat
      BY <3>1
    <3> QED BY <1>1, <3>2 DEF ClaimsMeasured
  <2> QED BY <2>1 DEF ClaimedAtMost
<1>11. Counts(f, Accounts) /\ Counts(g, Accounts)
  <2>1. Counts(f, Accounts)
    BY <1>1, <1>3, AtMostAssigned, UnclaimedCounts
  <2>2. Counts(Unclaimed(unlockInfo'), Accounts)
    BY <1>2, <1>10, UnclaimedCounts
  <2>3. g = Unclaimed(unlockInfo')
    BY <1>4 DEF Unclaimed
  <2> QED BY <2>1, <2>2, <2>3
<1>12. \A x \in Accounts : x # a => f[x] = g[x]
  BY <1>3, <1>4, <1>8 DEF Unclaimed
<1>13. f[a] = r.assigned - r.claimed /\ g[a] = r.assigned - (r.claimed + n)
  BY <1>3, <1>4, <1>5, <1>9 DEF Unclaimed
<1>14. PICK x, y, z, u, v : /\ x = SumFunctionOnSet(f, Accounts) /\ y = SumFunctionOnSet(g, Accounts)
                            /\ z = normal[LockupAddress] /\ u = f[a] /\ v = g[a]
  OBVIOUS
<1>15. x \in Nat /\ y \in Nat /\ u \in Nat /\ v \in Nat /\ u = v + n
  <2>1. u \in Nat /\ v \in Nat /\ x \in Nat /\ y \in Nat
    BY <1>11, <1>14, SumType DEF Counts
  <2>2. r.assigned \in Nat /\ r.claimed \in Nat
    BY <1>5
  <2> QED BY <1>1, <1>13, <1>14, <2>1, <2>2
<1>16. y + u = x + v
  <2> HIDE <1>3, <1>4
  <2> QED BY <1>11, <1>12, <1>14, SumChanged
<1>17. y + n = x
  BY <1>1, <1>15, <1>16
<1>18. z \in Nat /\ z >= x
  BY <1>3, <1>14, LockupHolds, CoveredIs DEF CoverInv
<1>19. normal' \in [Holders -> Nat] /\ normal'[LockupAddress] = z - n
  <2>1. normal \in [Holders -> Nat] /\ a \in Holders /\ a # LockupAddress /\ LockupAddress \in Holders
    BY LockupHolds DEF CoverInv
  <2>2. Transfer(LockupAddress, a, n)
    BY DEF ClaimTokens
  <2>3. z >= n /\ z - n \in Nat /\ normal[a] + n \in Nat
    BY <1>1, <1>14, <1>18, <2>1, <2>2 DEF Transfer
  <2>4. normal' = [normal EXCEPT ![LockupAddress] = z - n, ![a] = normal[a] + n]
    BY <1>14, <2>1, <2>2 DEF Transfer
  <2> QED BY <2>1, <2>3, <2>4
<1>20. z - n >= y
  BY <1>1, <1>15, <1>17, <1>18
<1>21. ClaimsCovered'
  BY <1>4, <1>14, <1>19, <1>20 DEF ClaimsCovered, Unclaimed, SumFunction
<1> QED BY <1>19, <1>21 DEF CoverInv

LEMMA CoverStep ==
    ASSUME ReleaseInv, VestingStarted, ClaimsMeasured, CoverInv, [Next]_vars
    PROVE  CoverInv'
<1>1. TypeOK
  BY DEF ReleaseInv
<1>2. ASSUME UNCHANGED <<normal, unlockInfo>> PROVE CoverInv'
  BY <1>2 DEF CoverInv, ClaimsCovered
<1>3. CASE UNCHANGED vars
  BY <1>2, <1>3 DEF vars, lockupVars
<1>4. CASE Wait
  BY <1>2, <1>4 DEF Wait, lockupVars
<1>5. CASE ProjectNext /\ UNCHANGED lockupVars
  <2>1. ASSUME NEW m \in Managers, NEW n \in Names, NEW v \in Versions, NEW b \in Budgets,
               NEW x \in ExtraAmounts, CreateProject(m, n, v, b, x)
        PROVE  normal' = normal
    BY <2>1, Zenon DEF CreateProject
  <2>2. ASSUME NEW m \in Managers, NEW id \in Ids,
               CancelProject(m, id) \/ StartDevelopment(m, id) \/ FinishProject(m, id)
        PROVE  normal' = normal
    BY <2>2, Zenon DEF CancelProject, StartDevelopment, FinishProject
  <2>3. ASSUME NEW m \in Managers, NEW id \in Ids, NEW r \in Results, NEW c \in Contributions,
               AcceptProject(m, id, r, c)
        PROVE  normal' = normal
    BY <2>3, Zenon DEF AcceptProject
  <2>4. ASSUME NEW m \in Managers, NEW id \in Ids, NEW who \in Accounts, NEW v \in Values,
               UpdateContribute(m, id, who, v)
        PROVE  normal' = normal
    BY <2>4, Zenon DEF UpdateContribute
  <2>5. ASSUME NEW id \in Ids, NEW outcome \in Outcomes(id), Decide(id, outcome)
        PROVE  normal' = normal
    BY <2>5, Zenon DEF Decide
  <2>6. ASSUME NEW who \in Accounts, NEW ids \in SUBSET Ids \ {{}}, WithdrawContributions(who, ids)
        PROVE  normal' = normal
    BY <2>6, Zenon DEF WithdrawContributions
  <2>7. UNCHANGED normal
    BY <1>5, <2>1, <2>2, <2>3, <2>4, <2>5, <2>6 DEF ProjectNext
  <2> QED BY <1>2, <1>5, <2>7 DEF lockupVars
<1>6. ASSUME NEW list \in Lists, ConvertAndLock(list) PROVE CoverInv'
  BY <1>1, <1>6, LockingCovered DEF ConvertAndLock
<1>7. ASSUME NEW list \in Lists, NEW a \in Accounts, TransferAndLock(a, list) PROVE CoverInv'
  BY <1>1, <1>7, LockingCovered DEF TransferAndLock
<1>8. ASSUME NEW a \in Accounts, NEW n \in ClaimAmounts, ClaimTokens(a, n) PROVE CoverInv'
  BY <1>8, ClaimCovered
<1> QED BY <1>3, <1>4, <1>5, <1>6, <1>7, <1>8 DEF Next, LockupNext

LEMMA CoverInit == Init => CoverInv
<1> SUFFICES ASSUME Init PROVE CoverInv
  OBVIOUS
<1>1. normal \in [Holders -> Nat]
  BY HoldingsAssumption DEF Init
<1>2. \A a \in Accounts : Unclaimed(unlockInfo)[a] = 0
  BY DEF Init, LockupInit, Unclaimed
<1>3. SumFunctionOnSet(Unclaimed(unlockInfo), Accounts) = 0
  BY <1>2, ChainAssumption, SumZero
<1>4. normal[LockupAddress] \in Nat
  BY <1>1, LockupHolds
<1> QED BY <1>1, <1>3, <1>4, CoveredIs DEF CoverInv

\* Nobody has claimed more than the time since a release of the awaited version, or of
\* a greater one, allows, and what is locked and unclaimed is always there, for every
\* list of locked amounts (transferAndLock, convertAndLock, claimTokens).
THEOREM VestingIsKept == Spec => []VestedOnSchedule
<1>1. /\ ReleaseInv /\ VestingStarted /\ ClaimsMeasured /\ CoverInv /\ [Next]_vars => CoverInv'
      /\ CoverInv => ClaimsCovered
  BY CoverStep DEF CoverInv
<1>2. ClaimsVested /\ ClaimsCovered => VestedOnSchedule
  BY DEF VestedOnSchedule
<1> QED BY <1>1, <1>2, CoverInit, VestingInvariant, ClaimsStayVested, PTL DEF Spec
=============================================================================
