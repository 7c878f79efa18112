----------------------------- MODULE SeedScript -----------------------------
(***************************************************************************)
(* src/scripts/seed_local_scenarios.ts on the local stack that             *)
(* src/scripts/deploy_frontend_local.ts leaves: one long run of            *)
(* transactions by many roles, which stops at the first that reverts or    *)
(* that the backend refuses, and may be run again.  Meanwhile people use   *)
(* the front end of the same stack.                                        *)
(*                                                                         *)
(* Amounts are in tokens and times in minutes; the odd second the script   *)
(* waits is one of them.                                                   *)
(***************************************************************************)
EXTENDS TokenLockup, Acquired, Sequences

CONSTANTS Offers,       \* the rounds people start at the front end
          Purchases,    \* and the amounts they buy for
          MaxSeeds,     \* bound on the runs of the script
          MaxKills,     \* bound on the runs killed
          MaxOthers,    \* bound on what others do besides, each kill counted as one
          MaxCycles     \* bound on the dividend cycles

Hour == 60
Day  == 24 * Hour

Contributors == {"contributorA", "contributorB"}
Roles == {"deployer", "viewer", "managerA", "managerB", "investorA", "investorB", "outsider"}
         \cup Contributors
ASSUME SeedAssumption == /\ Roles \subseteq Accounts /\ "LSALE" \in SaleTokens
                         /\ (\A offer \in Offers : IsOffer(offer)) /\ Purchases \subseteq Nat

VARIABLES
    seeds,     \* the runs of the script so far
    stage,     \* "idle", "running", "done", "reverted" or "killed"
    pc,        \* the next step of the run
    release,   \* the awaited version is still to be released by this run
    tag,       \* seedTag
    ids,       \* the project ids the run works with, by label
    rounds,    \* and its rounds
    kills,     \* the runs killed so far
    others     \* what others did so far

VARIABLES currentCycleIndex, totalStaked, cycles, records, claimed, tokenBalances, held, payout

\* A reward token is deployed by every run, numbered by it.
Dividends == INSTANCE Dividend WITH
    Users <- {"deployer", "viewer"}, Claimants <- {"deployer"},
    Native <- 0, RewardTokens <- 1 .. MaxSeeds, CycleMinLength <- Hour,
    NormalHoldings <- [u \in {"deployer", "viewer"} |-> 10000],
    DevHoldings <- [u \in {"deployer", "viewer"} |-> 50000],
    StakeAmounts <- {}, RewardAmounts <- {}, MaxHeld <- 600, MaxTime <- MaxCycles * Hour

dividendVars == <<currentCycleIndex, totalStaked, cycles, records, claimed, tokenBalances, held,
                  payout>>
seedVars == <<seeds, stage, pc, release, tag, ids, rounds, kills, others>>

Buckyos == <<"Buckyos", 0>>
Title(label) == IF label = "release" THEN Buckyos ELSE <<label, tag>>
Manager(label) == CASE label \in {"vote", "developing", "settlement"} -> "managerA"
                    [] label \in {"done", "rejected"} -> "managerB"
                    [] OTHER -> "deployer"

ProjectLabels == {"vote", "developing", "settlement", "done", "rejected", "release"}
RoundLabels == {"full", "partial", "step2", "step1"}

-----------------------------------------------------------------------------
(* The local stack: one finished project, one lockup, nothing else *)

Deployed == 10 * Day

LocalInit ==
    /\ now = Deployed
    /\ normal = [h \in Holders |-> CASE h = "deployer"    -> 5000 - 1000 - 250
                                     [] h = "viewer"      -> 1000
                                     [] h = LockupAddress -> 250
                                     [] OTHER             -> 0]
    /\ projectIdCounter = 2
    /\ projects = [id \in Ids |-> IF id > 1 THEN NoProject ELSE
           [NoProject EXCEPT !.manager = "deployer", !.name = Buckyos, !.version = 1,
                             !.budget = 600, !.state = "Finished", !.result = "Good",
                             !.shares = [a \in {"viewer"} |-> 100], !.paid = {"viewer"},
                             !.decision = "Executed", !.deadline = Deployed + VotingDuration]]
    /\ projectLatestVersions = [name \in Names |->
           IF name = Buckyos THEN [version |-> 1, time |-> Deployed] ELSE NoVersion]
    /\ latestProjectFinishTime = Deployed
    /\ finishes = {[id |-> 1, name |-> Buckyos, version |-> 1, time |-> Deployed]}
    /\ devSupply = 1000000 - 5000 /\ pool = 1000000 - 90000 - 600
    /\ treasury = 0 /\ escrow = 0
    /\ unlockTime = 0 /\ totalAssigned = 250 /\ totalClaimed = 0
    /\ unlockInfo = [a \in Accounts |->
           [assigned |-> IF a = "viewer" THEN 250 ELSE 0, claimed |-> 0]]
    /\ AcquiredInit
    /\ currentCycleIndex = 0 /\ totalStaked = 0 /\ claimed = {}
    /\ cycles = [c \in Dividends!Cycles |-> [Dividends!NoCycle EXCEPT !.start = Deployed]]
    /\ records = [u \in {"deployer", "viewer"} |-> <<>>]
    /\ tokenBalances = Dividends!NoRewards /\ held = Dividends!NoRewards
    /\ payout = Dividends!NoPayout

NotSeeded == [label \in ProjectLabels |-> 0]
NoRounds  == [label \in RoundLabels |-> 0]

Init == /\ LocalInit
        /\ seeds = 0 /\ stage = "idle" /\ pc = 0 /\ release = TRUE /\ tag = 0 /\ kills = 0 /\ others = 0
        /\ ids = NotSeeded /\ rounds = NoRounds

-----------------------------------------------------------------------------
(* The script, a sequence of steps *)

\* The helpers of the script, by name, and the transactions of its main function.
CreateProjectVersion(label, budget) == <<<<"count", label>>, <<"create", label, budget>>>>
SupportProjectProposal(label, state) == <<<<"vote", label, state, "Accept">>>>
RejectProjectProposal(label, state)  == <<<<"vote", label, state, "Reject">>>>
PromoteProject(label) == <<<<"promote", label>>>>

Created(label, budget) ==
    CreateProjectVersion(label, budget) \o SupportProjectProposal(label, "Preparing")
    \o PromoteProject(label)

OpenSettlementProposal(label, list) == <<<<"settle", label, list>>>>

Finished(label) == SupportProjectProposal(label, "Accepting") \o PromoteProject(label)

SharedBy(a, b) == [who \in Contributors |-> IF who = "contributorA" THEN a ELSE b]
Offer(total, list, step1, step2, early) ==
    [token |-> "LSALE", total |-> total, ratio |-> <<5, 1>>, percents |-> list,
     step1 |-> step1 * Day, step2 |-> step2 * Day, canEndEarly |-> early]
Listed(viewer, contributorA) ==
    [who \in {"viewer", "contributorA"} |-> IF who = "viewer" THEN viewer ELSE contributorA]

\* Fault: exactly the time that must have passed.
SevenDays_Fault == 7 * Day

SevenDays == 7 * Day + 1

Lifecycles ==
    <<<<"tokens">>, <<"lock">>>>
    \o CreateProjectVersion("vote", 600)
    \o Created("developing", 720)
    \o Created("settlement", 680) \o OpenSettlementProposal("settlement", SharedBy(60, 40))
    \o Created("done", 900) \o OpenSettlementProposal("done", SharedBy(70, 30))
    \o CreateProjectVersion("rejected", 550)
    \o RejectProjectProposal("rejected", "Preparing") \o <<<<"cancel", "rejected">>>>
    \o <<<<"released">>>>

FinishDone == <<<<"wait", SevenDays>>>> \o Finished("done") \o <<<<"withdraw", "contributorB">>>>

TrackedRelease ==
    Created("release", 500)
    \o OpenSettlementProposal("release", [who \in {"viewer"} |-> 100])
    \o FinishDone
    \o <<<<"wait", SevenDays>>>> \o Finished("release")

Funding ==
    <<<<"start", "full", "investorA",
        Offer(500, [who \in {"viewer"} |-> Whole], 2, 2, TRUE)>>,
      <<"invest", "full", "viewer", 100>>, <<"end", "full", "investorA">>,
      <<"start", "partial", "investorB", Offer(800, Listed(6000, 4000), 2, 2, FALSE)>>,
      <<"invest", "partial", "viewer", 60>>, <<"invest", "partial", "contributorA", 20>>,
      <<"wait", 4 * Day + 1>>, <<"end", "partial", "investorB">>,
      <<"start", "step2", "investorA", Offer(700, Listed(5000, 5000), 2, 3, FALSE)>>,
      <<"wait", 2 * Day + 1>>, <<"invest", "step2", "contributorA", 30>>,
      <<"start", "step1", "investorB", Offer(900, Listed(7000, 3000), 2, 4, FALSE)>>,
      <<"invest", "step1", "viewer", 10>>>>

DividendCycles ==
    <<<<"stakeDev">>, <<"stakeNormal">>, <<"wait", Hour + 1>>, <<"cycle">>, <<"deposit">>,
      <<"wait", Hour + 1>>, <<"cycle">>, <<"dividends">>, <<"paid">>>>

Rest == <<<<"wait", 90 * Day>>, <<"claim">>>> \o Funding \o DividendCycles

ReleasingScript == Lifecycles \o TrackedRelease \o Rest
ReleasedScript  == Lifecycles \o FinishDone \o Rest

Script == IF release THEN ReleasingScript ELSE ReleasedScript

-----------------------------------------------------------------------------
(* The steps.  None of them touches what the contracts it does not name keep. *)

OnProjects == UNCHANGED <<lockupVars, acquiredVars, dividendVars>>
OnDividend == UNCHANGED <<projectVars, lockupVars, acquiredVars>>
OnRounds   == UNCHANGED <<projectVars, lockupVars, dividendVars>>
Nothing    == UNCHANGED <<projectVars, lockupVars, acquiredVars, dividendVars>>

\* The id the next project will have, if nobody else creates one.
Counted == projectIdCounter

\* support and reject take votes until the deadline of an undecided proposal,
VotingOpen(id) == projects[id].decision = "InProgress" /\ now < projects[id].deadline

\* and verify the parameters the script makes of its own data.
Params(id, label, state) ==
    /\ id \in Ids
    /\ projects[id].name = Title(label) /\ projects[id].manager = Manager(label)
    /\ projects[id].state = state

\* deployer gets the tokens of others out of dev tokens.
Tokens ==
    /\ devSupply - pool - treasury >= 4000
    /\ devSupply' = devSupply - 4000
    /\ normal' = [h \in Holders |-> normal[h] +
           CASE h = "deployer" -> 4000 - 1000
             [] h = "contributorA" -> 250
             [] h = "contributorB" -> 150
             [] h \in {"managerA", "managerB", "viewer"} -> 200
             [] OTHER -> 0]
    /\ UNCHANGED <<now, projectIdCounter, projects, pool, treasury, releaseVars, escrow>>

LockMore ==
    IF ReleaseTime > 0 THEN UNCHANGED <<now, normal>> /\ Nothing
    ELSE /\ TransferAndLock("deployer", [a \in {"viewer", "managerA"} |->
                                            IF a = "viewer" THEN 50 ELSE 150])
         /\ UNCHANGED <<acquiredVars, dividendVars>>

\* Fault: everything that is vested is claimed.
Part_Fault(claimable) == claimable

Part(claimable) == claimable \div 2

\* Half of what is vested, as long as that is something.
ClaimHalf ==
    LET amount == Part(MaxClaim("viewer", StartOfVesting)) IN
    IF StartOfVesting > 0 /\ amount > 0
    THEN ClaimTokens("viewer", amount) /\ UNCHANGED <<acquiredVars, dividendVars>>
    ELSE UNCHANGED <<now, normal>> /\ Nothing

\* A transaction of the script, with the effect it has on the contracts.
Transaction(s) ==
    LET do == s[1]
        id == IF do \in {"create", "vote", "promote", "cancel", "settle"} THEN ids[s[2]] ELSE 0
    IN
    \/ do = "tokens" /\ Tokens /\ OnProjects
    \/ do = "lock" /\ LockMore
    \/ /\ do = "create"
       /\ CreateProject(Manager(s[2]), Title(s[2]), IF s[2] = "release" THEN UnlockProjectVersion ELSE 1,
                        s[3], 0)
       /\ OnProjects
    \/ /\ do = "vote" /\ Params(id, s[2], s[3]) /\ VotingOpen(id)
       /\ Decide(id, s[4]) /\ OnProjects
    \/ /\ do = "promote" /\ id \in Ids
       /\ StartDevelopment(Manager(s[2]), id) \/ FinishProject(Manager(s[2]), id)
       /\ OnProjects
    \/ do = "cancel" /\ id \in Ids /\ CancelProject(Manager(s[2]), id) /\ OnProjects
    \/ do = "settle" /\ id \in Ids /\ AcceptProject(Manager(s[2]), id, "Good", s[3]) /\ OnProjects
    \/ do = "withdraw" /\ WithdrawContributions(s[2], {ids["done"]}) /\ OnProjects
    \/ do = "wait" /\ Elapse(s[2]) /\ UNCHANGED normal /\ Nothing
    \/ do = "claim" /\ ClaimHalf
    \/ do = "start" /\ StartInvestment(s[3], s[4]) /\ OnRounds
    \/ do = "invest" /\ Invest(s[3], rounds[s[2]], s[4]) /\ OnRounds
    \/ do = "end" /\ EndInvestment(s[3], rounds[s[2]]) /\ OnRounds
    \/ do = "stakeDev" /\ Dividends!StakeDev("deployer", 300) /\ UNCHANGED normal /\ OnDividend
    \/ /\ do = "stakeNormal" /\ Dividends!StakeNormal("viewer", 200)
       /\ normal["viewer"] >= 200 /\ normal' = [normal EXCEPT !["viewer"] = @ - 200] /\ OnDividend
    \/ do = "cycle" /\ Dividends!TryNewCycle /\ UNCHANGED normal /\ OnDividend
    \/ do = "deposit" /\ Dividends!Deposit(seeds, 600) /\ UNCHANGED normal /\ OnDividend
    \/ /\ do = "dividends" /\ Dividends!WithdrawDividends("deployer", {1}, {seeds})
       /\ UNCHANGED normal /\ OnDividend
    \/ /\ do = "paid" /\ UNCHANGED normal /\ OnDividend
       /\ IF payout = Dividends!NoPayout THEN UNCHANGED <<now, dividendVars>>
          ELSE Dividends!Pay(1, seeds)

\* Steps that read.
Read(s) == s[1] \in {"count", "released"} /\ UNCHANGED <<now, normal>> /\ Nothing

Perform(s) == Transaction(s) \/ Read(s)

Step ==
    LET s == Script[pc] IN
    /\ stage = "running" /\ Perform(s)
    /\ ids' = IF s[1] = "count" THEN [ids EXCEPT ![s[2]] = Counted] ELSE ids
    /\ rounds' = IF s[1] = "start" THEN [rounds EXCEPT ![s[2]] = investmentCount] ELSE rounds
    /\ release' = IF s[1] = "released" THEN ReleaseTime = 0 ELSE release
    /\ pc' = pc + 1
    /\ stage' = IF pc' > Len(IF release' THEN ReleasingScript ELSE ReleasedScript)
                THEN "done" ELSE stage
    /\ UNCHANGED <<seeds, tag, kills, others>>

Seed ==
    /\ stage # "running" /\ seeds < MaxSeeds
    /\ seeds' = seeds + 1 /\ stage' = "running" /\ pc' = 1 /\ tag' = projectIdCounter
    /\ release' = TRUE /\ ids' = NotSeeded /\ rounds' = NoRounds
    /\ UNCHANGED <<now, normal, kills, others>> /\ Nothing

\* The transaction at hand cannot be mined.
Stuck == ~ ENABLED Perform(Script[pc])

\* A transaction reverts, and the script ends with an error.
Revert ==
    /\ stage = "running" /\ Stuck
    /\ stage' = "reverted"
    /\ UNCHANGED <<now, normal, seeds, pc, release, tag, ids, rounds, kills, others>> /\ Nothing

\* Something else ends it: the backend, the network, the user.
Kill ==
    /\ stage = "running" /\ kills < MaxKills
    /\ stage' = "killed" /\ kills' = kills + 1
    /\ UNCHANGED <<now, normal, seeds, pc, release, tag, ids, rounds, others>> /\ Nothing

-----------------------------------------------------------------------------
(* The front end *)

OthersDo ==
    \/ /\ \/ CreateProject("outsider", Buckyos, UnlockProjectVersion + 1, 100, 0)
          \/ \E id \in Ids : State(id) = "Finished" /\ WithdrawContributions("contributorA", {id})
       /\ OnProjects
    \/ /\ StartOfVesting > 0 /\ MaxClaim("viewer", StartOfVesting) > 0
       /\ ClaimTokens("viewer", MaxClaim("viewer", StartOfVesting))
       /\ UNCHANGED <<acquiredVars, dividendVars>>
    \/ /\ \/ \E offer \in Offers : StartInvestment("outsider", offer)
          \/ \E i \in Open, who \in {"viewer", "contributorA"}, amount \in Purchases :
                Invest(who, i, amount)
          \/ \E i \in Open : EndInvestment(investments[i].investor, i)
       /\ OnRounds

Others ==
    /\ others + kills < MaxOthers /\ others' = others + 1
    /\ OthersDo
    /\ UNCHANGED <<seeds, stage, pc, release, tag, ids, rounds, kills>>

Next == Seed \/ Step \/ Revert \/ Kill \/ Others

vars == <<now, normal, projectVars, lockupVars, acquiredVars, dividendVars, seedVars>>

Spec == Init /\ [][Next]_vars

-----------------------------------------------------------------------------
(* What a run says it leaves behind *)

\* The state the manifest gives each project of a run.
Shown(label) == CASE label = "vote"       -> "Preparing"
                  [] label = "developing" -> "Developing"
                  [] label = "settlement" -> "Accepting"
                  [] label = "rejected"   -> "Rejected"
                  [] OTHER                -> "Finished"

Foreign == \E id \in Ids : projects[id].manager = "outsider"

\* What the manifest, written at the end of a run, says of it: the states of the
\* projects, the lockup and the rounds.  It lists the release of the awaited
\* version only when this run was the one that released it.  Two proposals it
\* notes as waiting for the committee's vote (:1221, :1238).  Nobody decided them,
\* but the notes are not true: the script has moved the clock on by more than
\* the votes last, and nobody can vote on these two any more.
Manifest ==
    /\ \A label \in ProjectLabels :
          ~ Foreign /\ (label = "release" => release) =>
             /\ projects[ids[label]].name = Title(label)
             /\ State(ids[label]) = Shown(label)
    /\ ~ Foreign => \A label \in {"vote", "settlement"} :
          projects[ids[label]].decision = "InProgress" /\ ~ VotingOpen(ids[label])
    /\ ~ Foreign => "contributorB" \in projects[ids["done"]].paid
    /\ unlockInfo["viewer"].claimed >= 1
    /\ others = 0 => /\ unlockInfo["viewer"].claimed < unlockInfo["viewer"].assigned
                     /\ "contributorA" \notin projects[ids["done"]].paid
                     /\ Unsold(investments[rounds["partial"]]) > 0
    /\ LET r == [label \in RoundLabels |-> investments[rounds[label]]] IN
       /\ r["full"].end /\ Unsold(r["full"]) = 0 /\ r["partial"].end
       /\ ~ r["step2"].end /\ now \in r["step2"].step1End .. r["step2"].step2End
       /\ ~ r["step1"].end /\ now < r["step1"].step1End

-----------------------------------------------------------------------------
(* Properties *)

\* A run that gets to its end leaves every project of its own in the state the
\* manifest shows it in, the two undecided ones past the end of their votes, the
\* lockup partly claimed and the rounds as described, whatever earlier runs left
\* behind and whatever people did in the front end meanwhile; only the ids of the
\* projects need nobody else to have created one, and three of its notes nobody
\* to have claimed or bought by hand.
LeavesScenarios == [][stage = "running" /\ stage' = "done" => Manifest']_vars

\* No transaction of the script reverts by itself: neither after a run that was
\* killed anywhere nor after one that went through.
RerunsSucceed == stage = "reverted" => others # 0
=============================================================================
