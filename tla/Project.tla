------------------------------ MODULE Project ------------------------------
(***************************************************************************)
(* src/contracts/Project.sol: projects of a version each, from their       *)
(* creation over the settlement to the payment of their contributors, and  *)
(* the part of src/contracts/DevToken.sol that pays them.                  *)
(*                                                                         *)
(* The committee decides a project's proposal once, as module Committee    *)
(* shows it does; here it is a field of the project.  The parameters of a  *)
(* proposal are those of its project and agree with it.  A project has one *)
(* extra token, the same for all of them, and the number of a project is   *)
(* its id.                                                                 *)
(***************************************************************************)
EXTENDS Chain, Functions

CONSTANTS
    Managers, Names, Versions, Budgets, Results,
    ExtraAmounts,       \* of the extra token put into a project
    Contributions,      \* the lists of contributions managers may settle with
    Values,             \* the values updateContribute may be given
    DevSupply, DevPool, \* DevToken: its supply, and the part it still holds
    VotingDuration,             \* 30 days
    MinProjectFinishDuration,   \* 7 days
    MaxProjects         \* bound on the projects created

Ids == 1 .. MaxProjects
IsShareList(list) == \E S \in SUBSET Accounts : list \in [S -> Nat]

ASSUME ProjectAssumption ==
    /\ Managers \subseteq Accounts /\ \A c \in Contributions : IsShareList(c)
    /\ Versions \subseteq Nat \ {0}
    /\ Budgets \subseteq Nat /\ ExtraAmounts \subseteq Nat /\ Values \subseteq Nat \ {0}
    /\ VotingDuration \in Nat /\ MinProjectFinishDuration \in Nat /\ MaxProjects \in Nat
    /\ DevSupply \in Nat /\ DevPool \in 0 .. DevSupply

VARIABLES
    projectIdCounter,
    projects,                  \* projects and projectDetails
    projectLatestVersions,
    latestProjectFinishTime,
    devSupply, pool,           \* DevToken: totalSupply, and what it still holds
    treasury, escrow,          \* dev and extra tokens held by the contract
    finishes                   \* history: the finishes so far, with their times

devVars     == <<devSupply, pool, treasury>>
releaseVars == <<projectLatestVersions, latestProjectFinishTime, finishes>>
projectVars == <<projectIdCounter, projects, devVars, releaseVars, escrow>>

NoVersion == [version |-> 0, time |-> 0]

NoProject == [manager |-> "nobody", name |-> "none", version |-> 0, budget |-> 0, extra |-> 0,
              state |-> "NotFound", result |-> "InProgress",
              shares |-> <<>>, paid |-> {},
              decision |-> "NotFound", deadline |-> 0]

State(id) == projects[id].state

\* The clock starts late enough for a first finish.
ProjectInit ==
    /\ projectIdCounter = 1 /\ projects = [id \in Ids |-> NoProject]
    /\ projectLatestVersions = [name \in Names |-> NoVersion]
    /\ latestProjectFinishTime = 0 /\ finishes = {}
    /\ devSupply = DevSupply /\ pool = DevPool /\ treasury = 0 /\ escrow = 0

-----------------------------------------------------------------------------
(* Rewards *)

Coefficient(result) == CASE result = "Excellent" -> 120
                         [] result = "Good"      -> 100
                         [] result = "Normal"    -> 80
                         [] OTHER                -> 0

Reward(p) == (p.budget * Coefficient(p.result)) \div 100

\* The contributors' part of the extra tokens, and the manager's.
ExtraPart(p) == LET c == Coefficient(p.result)
                IN  (p.extra * (IF c > 100 THEN 100 ELSE c)) \div 100
Unearned(p)  == LET c == Coefficient(p.result)
                IN  IF c < 100 THEN (p.extra * (100 - c)) \div 100 ELSE 0

TotalValue(p) == SumFunction(p.shares)

\* Fault: hasClaim is not looked at.
Value_Fault(p, who) == IF who \in DOMAIN p.shares THEN p.shares[who] ELSE 0

\* What counts of a contribution: nothing once its contributor was paid.
Value(p, who) == IF who \in DOMAIN p.shares \ p.paid THEN p.shares[who] ELSE 0

Share(amount, p, who) == (amount * Value(p, who)) \div TotalValue(p)

-----------------------------------------------------------------------------
(* Proposals *)

Proposed(p) == [p EXCEPT !.decision = "InProgress", !.deadline = now + VotingDuration]

\* What the committee may make of the proposal of a project.  Votes given in time
\* count whenever somebody has the proposal settled, after its deadline as well.
Outcomes(id) ==
    IF projects[id].decision # "InProgress" THEN {}
    ELSE {"Accept", "Reject"} \cup {o \in {"Expired"} : now > projects[id].deadline}

Decide(id, outcome) ==
    /\ outcome \in Outcomes(id)
    /\ projects' = [projects EXCEPT ![id].decision = outcome]
    /\ UNCHANGED <<now, normal, projectIdCounter, devVars, releaseVars, escrow>>

-----------------------------------------------------------------------------
(* The life of a project *)

CreateProject(sender, name, version, budget, extra) ==
    LET id == projectIdCounter IN
    /\ id \in Ids
    /\ projectLatestVersions[name].version < version
    /\ budget <= (devSupply * 25) \div 1000
    /\ projectIdCounter' = id + 1
    /\ projects' = [projects EXCEPT ![id] = Proposed(
           [NoProject EXCEPT !.manager = sender, !.name = name, !.version = version,
                             !.budget = budget, !.extra = extra, !.state = "Preparing"])]
    /\ escrow' = escrow + extra
    /\ UNCHANGED <<now, normal, devVars, releaseVars>>

CancelProject(sender, id) ==
    LET p == projects[id] IN
    /\ p.manager = sender /\ p.state \in {"Preparing", "Accepting"}
    /\ p.decision \in {"Reject", "Expired"}
    /\ escrow >= p.extra /\ escrow' = escrow - p.extra
    /\ projects' = [projects EXCEPT ![id].state = "Rejected"]
    /\ UNCHANGED <<now, normal, projectIdCounter, devVars, releaseVars>>

Promotable(sender, id, state) ==
    /\ projects[id].manager = sender /\ projects[id].state = state
    /\ projects[id].decision = "Accept"

Promoted(id, state) ==
    projects' = [projects EXCEPT ![id].state = state, ![id].decision = "Executed"]

\* promoteProject of a project whose creation was accepted.
StartDevelopment(sender, id) ==
    /\ Promotable(sender, id, "Preparing")
    /\ Promoted(id, "Developing")
    /\ UNCHANGED <<now, normal, projectIdCounter, devVars, releaseVars, escrow>>

\* Fault: the two finishes may be less than the duration apart.
FinishDue_Fault == now > latestProjectFinishTime

FinishDue == now - latestProjectFinishTime > MinProjectFinishDuration

\* Fault: the version finished last is the latest.
Latest_Fault(p) == [version |-> p.version, time |-> now]

\* A lower version that finishes later is not the latest.
Latest(p) == IF projectLatestVersions[p.name].version < p.version
             THEN [version |-> p.version, time |-> now]
             ELSE projectLatestVersions[p.name]

\* promoteProject of a project whose settlement was accepted.  The reward comes
\* out of what DevToken still holds, or nothing happens.
FinishProject(sender, id) ==
    LET p == projects[id] IN
    /\ Promotable(sender, id, "Accepting") /\ FinishDue
    /\ pool >= Reward(p)
    /\ pool' = pool - Reward(p) /\ treasury' = treasury + Reward(p)
    /\ projectLatestVersions' = [projectLatestVersions EXCEPT ![p.name] = Latest(p)]
    /\ latestProjectFinishTime' = now
    /\ escrow >= Unearned(p) /\ escrow' = escrow - Unearned(p)
    /\ finishes' = finishes \cup {[id |-> id, name |-> p.name, version |-> p.version, time |-> now]}
    /\ Promoted(id, "Finished")
    /\ UNCHANGED <<now, normal, projectIdCounter, devSupply>>

\* Duplicate contributors are rejected, so that the list is a function.
AcceptProject(sender, id, result, contributions) ==
    /\ State(id) = "Developing" /\ projects[id].manager = sender
    /\ DOMAIN contributions # {} /\ \A who \in DOMAIN contributions : contributions[who] > 0
    /\ projects' = [projects EXCEPT ![id] = Proposed(
           [@ EXCEPT !.result = result, !.state = "Accepting",
                     !.shares = contributions, !.paid = {}])]
    /\ UNCHANGED <<now, normal, projectIdCounter, devVars, releaseVars, escrow>>

\* While the committee votes on the settlement, and after it has.
UpdateContribute(sender, id, who, value) ==
    LET shares == projects[id].shares IN
    /\ State(id) = "Accepting" /\ projects[id].manager = sender
    /\ projects' = [projects EXCEPT ![id].shares =
           [c \in DOMAIN shares \cup {who} |-> IF c = who THEN value ELSE shares[c]]]
    /\ UNCHANGED <<now, normal, projectIdCounter, devVars, releaseVars, escrow>>

\* Several projects at once, all or none.
WithdrawContributions(who, ids) ==
    LET dev   == SumFunction([id \in ids |-> Share(Reward(projects[id]), projects[id], who)])
        extra == SumFunction([id \in ids |-> Share(ExtraPart(projects[id]), projects[id], who)])
    IN  /\ \A id \in ids : State(id) = "Finished"
        /\ treasury >= dev /\ treasury' = treasury - dev
        /\ escrow >= extra /\ escrow' = escrow - extra
        /\ projects' = [id \in Ids |->
               IF id \in ids /\ who \in DOMAIN projects[id].shares
               THEN [projects[id] EXCEPT !.paid = @ \cup {who}] ELSE projects[id]]
        /\ UNCHANGED <<now, normal, projectIdCounter, devSupply, pool, releaseVars>>

\* versionReleasedTime
VersionReleasedTime(name, version) ==
    LET latest == projectLatestVersions[name]
    IN  IF latest.version >= version THEN latest.time ELSE 0

ProjectNext ==
    \/ \E m \in Managers :
          \/ \E n \in Names, v \in Versions, b \in Budgets, x \in ExtraAmounts :
                CreateProject(m, n, v, b, x)
          \/ \E id \in Ids :
                \/ CancelProject(m, id) \/ StartDevelopment(m, id) \/ FinishProject(m, id)
                \/ \E r \in Results, c \in Contributions : AcceptProject(m, id, r, c)
                \/ \E who \in Accounts, v \in Values : UpdateContribute(m, id, who, v)
    \/ \E id \in Ids : \E outcome \in Outcomes(id) : Decide(id, outcome)
    \/ \E who \in Accounts, ids \in SUBSET Ids \ {{}} : WithdrawContributions(who, ids)
=============================================================================
