--------------------------- MODULE UpgradeScript ---------------------------
(***************************************************************************)
(* src/scripts/upgrade_existing_sourcedao.ts: the command line with which  *)
(* operators deploy an implementation, ask the committee for an upgrade,   *)
(* vote on it and execute it.  Every run reads the chain, does one action  *)
(* and writes a summary at its very end; several operators run it at once, *)
(* and any run may be killed between two of its steps.                     *)
(*                                                                         *)
(* An implementation of Committee is here a pair: the number of the        *)
(* deployment, its address, and the hash of the call data approved with    *)
(* it.  Deployment 0 is what the proxy runs at first.                      *)
(***************************************************************************)
EXTENDS Committee

CONSTANTS
    Operators,     \* the accounts whose keys the script is run with
    Proxy,         \* target.proxyAddress of the configuration
    Calldata,      \* its upgradeCalldata or encoded upgradeCall
    Empty,         \* the empty call data, "0x"
    AllowLegacyCalldata,   \* the configuration's allowLegacyCalldata
    Flags,         \* the command lines that operators give
    MaxDeployed,   \* bound on the implementations deployed
    MaxRuns        \* bound on the runs of the script

\* What a command line may say: the action, and an implementation and a proposal
\* of an earlier run, 0 when not given.
CommandLines == [pc : {"idle"}, receipt : {0},
                 action : {"plan", "status", "deploy", "prepare", "support", "reject", "execute"},
                 impl : 0 .. MaxDeployed, id : Ids \cup {0}, mode : {"current", "legacy"},
                 current : {"any", "old", "new"}, new : {"any", "old", "new"}]

ASSUME ScriptAssumption ==
    /\ Operators \subseteq Accounts /\ Proxy \in Proxies /\ Original = <<0, Empty>>
    /\ MaxDeployed \in Nat /\ Flags \subseteq CommandLines
    /\ (1 .. MaxDeployed) \X {Calldata, Empty} \subseteq Implementations

VARIABLES
    run,       \* run[op]: the latest run of the operator's script
    started,   \* the runs started so far
    deployed,  \* the implementations deployed so far
    reported   \* reported[n]: the runs that reported the execution of deployment n

scriptVars == <<run, started, deployed, reported>>

\* resolveTargetProxy, moduleArtifactPath and the configuration are the same for
\* every run.
NoRun == [pc |-> "idle", action |-> "plan", impl |-> 0, id |-> 0, receipt |-> 0,
          mode |-> "current", current |-> "any", new |-> "any"]
Failed == [NoRun EXCEPT !.pc = "failed"]

ScriptInit == /\ run = [op \in Operators |-> NoRun]
              /\ started = 0 /\ deployed = 0
              /\ reported = [n \in 1 .. MaxDeployed |-> 0]

Deploying(r) == r.action \in {"deploy", "prepare"} /\ r.impl = 0
Voting(r)    == r.action \in {"support", "reject"}
Calling(r)   == r.action = "prepare" \/ Voting(r) \/ r.action = "execute"

\* getImplementationAddress: the slot of the proxy holds no call data.
Installed == implementation[Proxy][1]

\* readVersion and assertExpectedVersion: deployments carry the new version.
VersionOf(n) == IF n = 0 THEN "old" ELSE "new"
Expected(n, version) == version \in {"any", VersionOf(n)}

\* buildUpgradeParams
UpgradeParams(r) == Upgrade(Proxy, <<r.impl, Calldata>>)

\* What prepareContractUpgrade stores: its form of two arguments, which the legacy
\* mode calls, approves the empty call data.
Prepared(r) == <<r.impl, IF r.mode = "legacy" THEN Empty ELSE Calldata>>

-----------------------------------------------------------------------------
\* The command line and the state of the proxy, before anything is done.
Start(op, flags) ==
    /\ run[op].pc \in {"idle", "done", "failed"} /\ started < MaxRuns
    /\ started' = started + 1
    /\ Expected(Installed, flags.current)
    /\ run' = [run EXCEPT ![op] = [flags EXCEPT !.pc =
                  IF Deploying(flags) THEN "deploy" ELSE "check"]]
    /\ UNCHANGED <<vars, deployed, reported>>

\* Deployed before its version and the proposal mode are looked at.
DeployImplementation(op) ==
    /\ run[op].pc = "deploy" /\ deployed < MaxDeployed
    /\ deployed' = deployed + 1
    /\ run' = [run EXCEPT ![op].impl = deployed + 1, ![op].pc = "check"]
    /\ UNCHANGED <<vars, started, reported>>

\* What the action must have been given.
Complete(r) == /\ r.impl = 0 => ~ Calling(r)
               /\ Voting(r) => r.id # 0

Check(op) ==
    LET r == run[op] IN
    /\ r.pc = "check" /\ r.impl <= deployed
    /\ r.impl # 0 => Expected(r.impl, r.new)
    /\ Complete(r)
    /\ r.mode = "legacy" /\ Calldata # Empty => AllowLegacyCalldata
    /\ run' = [run EXCEPT ![op].pc = IF Calling(r) THEN "call" ELSE "write"]
    /\ UNCHANGED <<vars, started, deployed, reported>>

\* Fault: a receipt is taken for a success whatever its status.
Confirmed_Fault(status) == TRUE

\* sendAndWait
Confirmed(status) == status = 1

AfterCall(r) == IF r.action = "execute" THEN "readback" ELSE "write"

\* The transaction is mined with status 1 and had its effect on the committee.
Sent(op, receipt) ==
    /\ run' = [run EXCEPT ![op].pc = AfterCall(run[op]), ![op].receipt = receipt]
    /\ UNCHANGED <<started, deployed, reported>>

\* prepareUpgradeProposal.  extractProposalId finds the id in the receipt.
PrepareUpgradeProposal(op) ==
    LET r == run[op] IN
    /\ r.pc = "call" /\ r.action = "prepare"
    /\ PrepareContractUpgrade(op, Proxy, Prepared(r))
    /\ Sent(op, curProposalId)

VoteUpgradeProposal(op) ==
    LET r == run[op] IN
    /\ r.pc = "call" /\ Voting(r) /\ Matches(r.id, UpgradeParams(r))
    /\ IF r.action = "support" THEN Support(r.id, op) ELSE Reject(r.id, op)
    /\ Sent(op, 0)

\* executeUpgrade with upgradeToAndCall; proxies of this release have no upgradeTo,
\* and a run with executeMode upgradeTo fails.
ExecuteUpgrade(op) ==
    LET r == run[op] IN
    /\ r.pc = "call" /\ r.action = "execute"
    /\ UpgradeToAndCall(Proxy, <<r.impl, Calldata>>)
    /\ Sent(op, 0)

\* The static call passed, but the transaction is mined after somebody else's, or
\* runs out of its fixed gas limit: status 0.
Reverted(op) ==
    /\ run[op].pc = "call"
    /\ run' = [run EXCEPT ![op] =
                  IF Confirmed(0) THEN [@ EXCEPT !.pc = AfterCall(run[op])] ELSE Failed]
    /\ UNCHANGED <<vars, started, deployed, reported>>

\* Only the address is compared, with whatever the proxy runs by then.
Readback(op) ==
    /\ run[op].pc = "readback" /\ Installed = run[op].impl
    /\ run' = [run EXCEPT ![op].pc = "write"]
    /\ UNCHANGED <<vars, started, deployed, reported>>

\* Fault: the latest proposal is taken for the one just made.
ReportedId_Fault(r) == IF r.action = "prepare" THEN curProposalId - 1 ELSE r.id

\* extractProposalId(receipt) ?? proposalId
ReportedId(r) == IF r.receipt # 0 THEN r.receipt ELSE r.id

\* writeOutput
WriteOutput(op) ==
    LET r == run[op] IN
    /\ r.pc = "write"
    /\ run' = [run EXCEPT ![op].pc = "done", ![op].id = ReportedId(r)]
    /\ reported' = IF r.action = "execute" THEN [reported EXCEPT ![r.impl] = @ + 1] ELSE reported
    /\ UNCHANGED <<vars, started, deployed>>

\* A check, a static call or the network fails, or the process is killed; what the
\* run has deployed or sent stays, and no summary tells of it.
Fails(op) ==
    /\ run[op].pc \notin {"idle", "done", "failed"}
    /\ run' = [run EXCEPT ![op] = Failed]
    /\ UNCHANGED <<vars, started, deployed, reported>>

ScriptNext ==
    \E op \in Operators :
        \/ \E flags \in Flags : Start(op, flags)
        \/ DeployImplementation(op) \/ Check(op) \/ PrepareUpgradeProposal(op)
        \/ VoteUpgradeProposal(op) \/ ExecuteUpgrade(op) \/ Reverted(op)
        \/ Readback(op) \/ WriteOutput(op) \/ Fails(op)
=============================================================================
