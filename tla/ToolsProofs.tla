----------------------------- MODULE ToolsProofs -----------------------------
(***************************************************************************)
(* Theorems about the upgrade script and the vote tools: whatever they do  *)
(* to the committee is what any sender could, so that its theorems hold    *)
(* behind them, and what they report of it is true.  They hold for every   *)
(* number of operators, voters, runs, files and transactions under way.    *)
(***************************************************************************)
EXTENDS GovernanceTools, SettlementProofs

Stages == {"none", "confirmed", "unsigned", "signed", "sent", "voted", "failed", "refused"}

RunRecord == [pc : {"idle", "deploy", "check", "call", "readback", "write", "done", "failed"},
              action : {"plan", "status", "deploy", "prepare", "support", "reject", "execute"},
              impl : 0 .. MaxDeployed, id : Ids \cup {0}, receipt : Ids \cup {0},
              mode : {"current", "legacy"}, current : {"any", "old", "new"},
              new : {"any", "old", "new"}]

\* A run that calls the committee has been given, or has deployed, an implementation,
\* and a voting one an id; only executions are read back.
Given(r) == /\ r.pc \in {"call", "readback", "write"} => Complete(r)
            /\ r.pc = "readback" => r.action = "execute"

ScriptTyped ==
    /\ run \in [Operators -> RunRecord] /\ \A op \in Operators : Given(run[op])
    /\ deployed \in 0 .. MaxDeployed /\ reported \in [1 .. MaxDeployed -> Nat]

Shown  == {NoParams} \cup {Encoded(answer) : answer \in Answers}
VoteTx == [id : Ids \cup {0}, choice : {1, -1}, params : Shown, nonce : Nat, overtaken : Nat]
Vote   == [stage : Stages, tx : VoteTx]
PoolTx == [from : ToolUsers, source : {"online"} \cup Bundles, nonce : Nat, id : Ids,
           choice : {1, -1}, params : Shown]

\* A vote that has begun names a proposal.
Named(vote) == vote.stage # "none" => vote.tx.id \in Ids

VotesTyped ==
    /\ session \in [ToolUsers -> Vote] /\ bundle \in [ToolUsers -> [Bundles -> Vote]]
    /\ pool \subseteq PoolTx /\ IsFiniteSet(pool) /\ nonces \in [ToolUsers -> Nat]
    /\ \A v \in ToolUsers : /\ Named(session[v])
                            /\ \A k \in Bundles : Named(bundle[v][k])

LEMMA CallImplements ==
    ASSUME NEW r \in RunRecord, Given(r), r.pc = "call", Calling(r)
    PROVE  /\ r.impl \in 1 .. MaxDeployed
           /\ <<r.impl, Calldata>> \in Implementations
           /\ Prepared(r) \in Implementations
<1>1. r.impl \in 1 .. MaxDeployed
  BY ScriptAssumption DEF RunRecord, Given, Complete
<1>2. <<r.impl, Calldata>> \in Implementations /\ <<r.impl, Empty>> \in Implementations
  BY <1>1, ScriptAssumption
<1> QED BY <1>1, <1>2 DEF Prepared

\* A step of the script is a transaction of the committee, or none.
LEMMA ScriptTransacts ==
    ASSUME ScriptTyped, ScriptNext
    PROVE  [Next]_vars
<1>1. PICK op \in Operators :
         \/ \E flags \in Flags : Start(op, flags)
         \/ DeployImplementation(op) \/ Check(op) \/ PrepareUpgradeProposal(op)
         \/ VoteUpgradeProposal(op) \/ ExecuteUpgrade(op) \/ Reverted(op)
         \/ Readback(op) \/ WriteOutput(op) \/ Fails(op)
  BY DEF ScriptNext
<1>2. run[op] \in RunRecord /\ Given(run[op]) /\ op \in Accounts
      /\ Proxy \in Proxies /\ Proxy \in UpgradeTargets
  BY ScriptAssumption, CommitteeAssumption DEF ScriptTyped
<1>3. CASE PrepareUpgradeProposal(op)
  <2>1. PrepareContractUpgrade(op, Proxy, Prepared(run[op]))
        /\ Prepared(run[op]) \in Implementations
    BY <1>2, <1>3, CallImplements DEF PrepareUpgradeProposal, Calling
  <2> QED BY <1>2, <2>1, Zenon DEF Next
<1>4. CASE VoteUpgradeProposal(op)
  <2>1. run[op].id \in Ids
    BY <1>2, <1>4 DEF VoteUpgradeProposal, Given, Complete, RunRecord
  <2>2. Support(run[op].id, op) \/ Reject(run[op].id, op)
    BY <1>4 DEF VoteUpgradeProposal
  <2> QED BY <1>2, <2>1, <2>2, Zenon DEF Next
<1>5. CASE ExecuteUpgrade(op)
  <2>1. UpgradeToAndCall(Proxy, <<run[op].impl, Calldata>>)
        /\ <<run[op].impl, Calldata>> \in Implementations
    BY <1>2, <1>5, CallImplements DEF ExecuteUpgrade, Calling
  <2> QED BY <1>2, <2>1, Zenon DEF Next
<1>6. CASE \/ \E flags \in Flags : Start(op, flags)
           \/ DeployImplementation(op) \/ Check(op) \/ Reverted(op)
           \/ Readback(op) \/ WriteOutput(op) \/ Fails(op)
  BY <1>6, Zenon DEF Start, DeployImplementation, Check, Reverted, Readback, WriteOutput, Fails
<1> QED BY <1>1, <1>3, <1>4, <1>5, <1>6, Zenon

\* So is a step of the vote tools: the committee changes when a vote is mined.
LEMMA ToolsTransact ==
    ASSUME VotesTyped, VoteNext
    PROVE  [Next]_vars
<1>1. CASE \E tx \in pool : Mine(tx)
  <2>1. PICK tx \in pool : Mine(tx)
    BY <1>1
  <2>2. tx.id \in Ids /\ tx.from \in Accounts
    BY VoteAssumption DEF VotesTyped, PoolTx
  <2>3. UNCHANGED vars \/ Support(tx.id, tx.from) \/ Reject(tx.id, tx.from)
    BY <2>1, Zenon DEF Mine
  <2> QED BY <2>2, <2>3, Zenon DEF Next
<1>2. CASE \E v \in ToolUsers, id \in Ids, choice \in Sides, answer \in Answers :
              \/ Ask(v, id, choice, answer)
              \/ \E k \in Bundles : PrepareOfflineVote(v, k, id, choice, answer)
  BY <1>2, Zenon DEF Ask, PrepareOfflineVote
<1>3. CASE \E v \in ToolUsers :
              \/ Send(v)
              \/ \E k \in Bundles : SignOfflineVote(v, k) \/ BroadcastOfflineVote(v, k)
  BY <1>3, Zenon DEF Send, SignOfflineVote, BroadcastOfflineVote
<1> QED BY <1>1, <1>2, <1>3 DEF VoteNext

LEMMA OthersTransact ==
    ASSUME Others
    PROVE  Next
<1>1. Operators \subseteq Accounts /\ Proxy \in UpgradeTargets
  BY ScriptAssumption, CommitteeAssumption
<1>2. CASE \E op \in Operators : CancelContractUpgrade(op, Proxy)
  BY <1>1, <1>2, Zenon DEF Next
<1>3. CASE Tick \/ \E id \in Ids : SettleProposal(id)
  BY <1>3, Zenon DEF Next
<1>4. CASE \E c \in DaoContracts, d \in Durations, topic \in Topics : Propose(c, d, topic)
  BY <1>4, Zenon DEF Next
<1> QED BY <1>2, <1>3, <1>4 DEF Others

LEMMA StepTransacts ==
    ASSUME ScriptTyped, VotesTyped, [ToolsNext]_allVars
    PROVE  [Next]_vars
<1>1. CASE UNCHANGED allVars
  BY <1>1 DEF allVars
<1> QED BY <1>1, ScriptTransacts, ToolsTransact, OthersTransact DEF ToolsNext

-----------------------------------------------------------------------------
(* What a step of the script does: the run q of its operator becomes r *)

Prepares(op, q, r) ==
    /\ \/ r.pc \in {"deploy", "check", "call", "failed"}
       \/ r.pc = "write" /\ ~ Calling(r)
    /\ reported' = reported /\ UNCHANGED vars

Transacts(op, q, r) ==
    /\ q.pc = "call" /\ reported' = reported
    /\ \/ /\ q.action = "prepare" /\ PrepareContractUpgrade(op, Proxy, Prepared(q))
          /\ curProposalId \in Ids
          /\ r = [q EXCEPT !.pc = "write", !.receipt = curProposalId]
       \/ /\ Voting(q) /\ q.id \in Ids /\ Matches(q.id, UpgradeParams(q))
          /\ IF q.action = "support" THEN Support(q.id, op) ELSE Reject(q.id, op)
          /\ r = [q EXCEPT !.pc = "write", !.receipt = 0]
       \/ /\ q.action = "execute" /\ q.impl \in 1 .. MaxDeployed
          /\ UpgradeToAndCall(Proxy, <<q.impl, Calldata>>)
          /\ r = [q EXCEPT !.pc = "readback", !.receipt = 0]

Reads(op, q, r) ==
    /\ q.pc = "readback" /\ r = [q EXCEPT !.pc = "write"]
    /\ reported' = reported /\ UNCHANGED vars

Reports(op, q, r) ==
    /\ q.pc = "write" /\ r = [q EXCEPT !.pc = "done", !.id = ReportedId(q)]
    /\ reported' = IF q.action = "execute" THEN [reported EXCEPT ![q.impl] = @ + 1] ELSE reported
    /\ UNCHANGED vars

Moves(op, q, r) ==
    \/ Prepares(op, q, r) \/ Transacts(op, q, r) \/ Reads(op, q, r) \/ Reports(op, q, r)

Becomes(op, r) ==
    /\ run' = [run EXCEPT ![op] = r] /\ r \in RunRecord /\ Given(r)
    /\ deployed' \in 0 .. MaxDeployed /\ reported' \in [1 .. MaxDeployed -> Nat]
    /\ Moves(op, run[op], r)

LEMMA CalledGiven ==
    ASSUME NEW q \in RunRecord, Given(q), q.pc = "call",
           NEW pc \in {"write", "readback"}, pc = "readback" => q.action = "execute",
           NEW receipt \in Ids \cup {0}, NEW r, r = [q EXCEPT !.pc = pc, !.receipt = receipt]
    PROVE  r \in RunRecord /\ Given(r)
<1>1. r \in RunRecord
  BY DEF RunRecord
<1>2. r.pc = pc /\ r.action = q.action /\ r.impl = q.impl /\ r.id = q.id
  BY DEF RunRecord
<1> QED BY <1>1, <1>2 DEF Given, Complete, Calling, Voting

LEMMA CallBecomes ==
    ASSUME TypeOK, ScriptTyped, NEW op \in Operators,
           PrepareUpgradeProposal(op) \/ VoteUpgradeProposal(op) \/ ExecuteUpgrade(op)
    PROVE  \E r : Becomes(op, r)
<1>1. PICK q \in RunRecord : q = run[op] /\ Given(q)
  BY DEF ScriptTyped
<1>2. /\ run \in [Operators -> RunRecord] /\ deployed \in 0 .. MaxDeployed
      /\ reported \in [1 .. MaxDeployed -> Nat]
  BY DEF ScriptTyped
<1>5. CASE PrepareUpgradeProposal(op)
  <2>1. PrepareContractUpgrade(op, Proxy, Prepared(q)) /\ q.pc = "call" /\ q.action = "prepare"
        /\ Sent(op, curProposalId)
    BY <1>1, <1>5 DEF PrepareUpgradeProposal
  <2>2. curProposalId \in Ids
    BY <2>1 DEF PrepareContractUpgrade, CreateOrdinary, Create, TypeOK, Ids
  <2>3. PICK r : r = [q EXCEPT !.pc = "write", !.receipt = curProposalId]
    OBVIOUS
  <2>4. run' = [run EXCEPT ![op] = r] /\ UNCHANGED <<deployed, reported>>
    BY <1>1, <2>1, <2>3 DEF Sent, AfterCall
  <2>5. r \in RunRecord /\ Given(r)
    <3>1. "write" \in {"write", "readback"} /\ "write" # "readback"
          /\ curProposalId \in Ids \cup {0}
      BY <2>2
    <3> QED BY <1>1, <2>1, <2>3, <3>1, CalledGiven, Zenon
  <2>6. Transacts(op, q, r)
    BY <2>1, <2>2, <2>3, <2>4 DEF Transacts
  <2> QED BY <1>1, <1>2, <2>4, <2>5, <2>6 DEF Becomes, Moves
<1>6. CASE VoteUpgradeProposal(op)
  <2>1. /\ q.pc = "call" /\ Voting(q) /\ Matches(q.id, UpgradeParams(q)) /\ Sent(op, 0)
        /\ IF q.action = "support" THEN Support(q.id, op) ELSE Reject(q.id, op)
    BY <1>1, <1>6 DEF VoteUpgradeProposal
  <2>2. q.id \in Ids /\ q.action # "execute"
    BY <1>1, <2>1 DEF Given, Complete, Voting, RunRecord
  <2>3. PICK r : r = [q EXCEPT !.pc = "write", !.receipt = 0]
    OBVIOUS
  <2>4. run' = [run EXCEPT ![op] = r] /\ UNCHANGED <<deployed, reported>>
    BY <1>1, <2>1, <2>2, <2>3 DEF Sent, AfterCall
  <2>5. r \in RunRecord /\ Given(r)
    <3>1. "write" \in {"write", "readback"} /\ "write" # "readback" /\ 0 \in Ids \cup {0}
      OBVIOUS
    <3> QED BY <1>1, <2>1, <2>3, <3>1, CalledGiven, Zenon
  <2>6. Transacts(op, q, r)
    BY <2>1, <2>2, <2>3, <2>4 DEF Transacts
  <2> QED BY <1>1, <1>2, <2>4, <2>5, <2>6 DEF Becomes, Moves
<1>7. CASE ExecuteUpgrade(op)
  <2>1. /\ q.pc = "call" /\ q.action = "execute" /\ Sent(op, 0)
        /\ UpgradeToAndCall(Proxy, <<q.impl, Calldata>>)
    BY <1>1, <1>7 DEF ExecuteUpgrade
  <2>2. q.impl \in 1 .. MaxDeployed
    BY <1>1, <2>1, CallImplements DEF Calling
  <2>3. PICK r : r = [q EXCEPT !.pc = "readback", !.receipt = 0]
    OBVIOUS
  <2>4. run' = [run EXCEPT ![op] = r] /\ UNCHANGED <<deployed, reported>>
    BY <1>1, <2>1, <2>3 DEF Sent, AfterCall
  <2>5. r \in RunRecord /\ Given(r)
    <3>1. "readback" \in {"write", "readback"} /\ 0 \in Ids \cup {0}
      OBVIOUS
    <3> QED BY <1>1, <2>1, <2>3, <3>1, CalledGiven, Zenon
  <2>6. Transacts(op, q, r)
    BY <2>1, <2>2, <2>3, <2>4 DEF Transacts
  <2> QED BY <1>1, <1>2, <2>4, <2>5, <2>6 DEF Becomes, Moves
<1> QED BY <1>5, <1>6, <1>7

LEMMA ScriptBecomes ==
    ASSUME TypeOK, ScriptTyped, ScriptNext
    PROVE  \E op \in Operators, r \in RunRecord : Becomes(op, r)
<1> SUFFICES \E op \in Operators : \E r : Becomes(op, r)
  BY DEF Becomes
<1>1. PICK op \in Operators :
         \/ \E flags \in Flags : Start(op, flags)
         \/ DeployImplementation(op) \/ Check(op) \/ PrepareUpgradeProposal(op)
         \/ VoteUpgradeProposal(op) \/ ExecuteUpgrade(op) \/ Reverted(op)
         \/ Readback(op) \/ WriteOutput(op) \/ Fails(op)
  BY DEF ScriptNext
<1>2. PICK q \in RunRecord : q = run[op] /\ Given(q)
  BY DEF ScriptTyped
<1>3. /\ run \in [Operators -> RunRecord] /\ deployed \in 0 .. MaxDeployed
      /\ reported \in [1 .. MaxDeployed -> Nat]
  BY DEF ScriptTyped
<1>4. ASSUME NEW flags \in Flags, Start(op, flags) PROVE \E r : Becomes(op, r)
  <2>1. PICK r : r = [flags EXCEPT !.pc = IF Deploying(flags) THEN "deploy" ELSE "check"]
    OBVIOUS
  <2>2. flags \in CommandLines
    BY ScriptAssumption
  <2>3. r \in RunRecord /\ r.pc \in {"deploy", "check"}
    BY <2>1, <2>2 DEF CommandLines, RunRecord
  <2>4. run' = [run EXCEPT ![op] = r] /\ UNCHANGED <<deployed, reported>> /\ UNCHANGED vars
    BY <1>4, <2>1, Zenon DEF Start
  <2>5. Given(r)
    BY <2>3 DEF Given
  <2>6. Prepares(op, q, r)
    <3>1. reported' = reported /\ r.pc \in {"deploy", "check", "call", "failed"}
      BY <2>3, <2>4
    <3> QED BY <2>4, <3>1, Zenon DEF Prepares
  <2> QED BY <1>2, <1>3, <2>3, <2>4, <2>5, <2>6 DEF Becomes, Moves
<1>5. CASE DeployImplementation(op)
  <2>1. PICK r : r = [q EXCEPT !.impl = deployed + 1, !.pc = "check"]
    OBVIOUS
  <2>2. deployed' = deployed + 1 /\ deployed < MaxDeployed
    BY <1>5 DEF DeployImplementation
  <2>6. deployed + 1 \in 0 .. MaxDeployed
    BY <1>3, <2>2, ScriptAssumption
  <2>3. r \in RunRecord /\ r.pc = "check" /\ deployed' \in 0 .. MaxDeployed
    BY <2>1, <2>2, <2>6 DEF RunRecord
  <2>4. run' = [run EXCEPT ![op] = r] /\ UNCHANGED reported
    BY <1>2, <1>3, <1>5, <2>1 DEF DeployImplementation, RunRecord
  <2>5. UNCHANGED vars
    BY <1>5, Zenon DEF DeployImplementation
  <2>7. Given(r)
    BY <2>3 DEF Given
  <2>8. Prepares(op, q, r)
    <3>1. reported' = reported /\ r.pc \in {"deploy", "check", "call", "failed"}
      BY <2>3, <2>4, <2>5
    <3> QED BY <2>5, <3>1, Zenon DEF Prepares
  <2> QED BY <1>2, <1>3, <2>3, <2>4, <2>7, <2>8 DEF Becomes, Moves
<1>6. CASE Check(op)
  <2>1. PICK r : r = [q EXCEPT !.pc = IF Calling(q) THEN "call" ELSE "write"]
    OBVIOUS
  <2>2. Complete(q) /\ UNCHANGED <<deployed, reported>>
    BY <1>2, <1>6 DEF Check
  <2>6. /\ r \in RunRecord /\ r.pc = IF Calling(q) THEN "call" ELSE "write"
        /\ r.action = q.action /\ r.impl = q.impl /\ r.id = q.id
    BY <2>1 DEF RunRecord
  <2>3. r \in RunRecord /\ Given(r) /\ (r.pc = "call" \/ (r.pc = "write" /\ ~ Calling(r)))
    <3>1. Calling(r) = Calling(q) /\ Complete(r)
      BY <2>2, <2>6 DEF Complete, Calling, Voting
    <3>2. r.pc = "call" \/ (r.pc = "write" /\ ~ Calling(r))
      BY <2>6, <3>1
    <3> QED BY <2>6, <3>1, <3>2 DEF Given
  <2>4. run' = [run EXCEPT ![op] = r]
    BY <1>2, <1>3, <1>6, <2>1 DEF Check, RunRecord
  <2>5. UNCHANGED vars
    BY <1>6, Zenon DEF Check
  <2> QED BY <1>3, <2>2, <2>3, <2>4, <2>5 DEF Becomes, Moves, Prepares
<1>7. CASE Reverted(op) \/ Fails(op)
  <2>1. Failed \in RunRecord /\ Failed.pc = "failed"
    BY ScriptAssumption DEF Failed, NoRun, RunRecord
  <2>2. run' = [run EXCEPT ![op] = Failed] /\ UNCHANGED <<deployed, reported>>
    BY <1>7 DEF Reverted, Fails, Confirmed
  <2>3. UNCHANGED vars
    BY <1>7, Zenon DEF Reverted, Fails
  <2>4. Given(Failed)
    BY <2>1 DEF Given
  <2>5. Prepares(op, q, Failed)
    <3>1. reported' = reported /\ Failed.pc \in {"deploy", "check", "call", "failed"}
      BY <2>1, <2>2, <2>3
    <3> QED BY <2>3, <3>1, Zenon DEF Prepares
  <2> QED BY <1>2, <1>3, <2>1, <2>2, <2>4, <2>5 DEF Becomes, Moves
<1>8. CASE Readback(op)
  <2>1. PICK r : r = [q EXCEPT !.pc = "write"]
    OBVIOUS
  <2>2. q.pc = "readback" /\ UNCHANGED <<deployed, reported>>
    BY <1>2, <1>8 DEF Readback
  <2>3. r \in RunRecord /\ Given(r)
    BY <1>2, <2>1, <2>2 DEF RunRecord, Given, Complete, Calling, Voting
  <2>4. run' = [run EXCEPT ![op] = r]
    BY <1>2, <1>3, <1>8, <2>1 DEF Readback, RunRecord
  <2>5. UNCHANGED vars
    BY <1>8, Zenon DEF Readback
  <2> QED BY <1>2, <1>3, <2>1, <2>2, <2>3, <2>4, <2>5 DEF Becomes, Moves, Reads
<1>9. CASE WriteOutput(op)
  <2>1. PICK r : r = [q EXCEPT !.pc = "done", !.id = ReportedId(q)]
    OBVIOUS
  <2>2. /\ q.pc = "write" /\ deployed' = deployed
        /\ reported' = IF q.action = "execute" THEN [reported EXCEPT ![q.impl] = @ + 1]
                                               ELSE reported
    BY <1>2, <1>9 DEF WriteOutput
  <2>7. ReportedId(q) \in Ids \cup {0}
    BY DEF ReportedId, RunRecord
  <2>3. r \in RunRecord /\ Given(r)
    BY <2>1, <2>7 DEF RunRecord, Given
  <2>4. run' = [run EXCEPT ![op] = r]
    BY <1>2, <1>3, <1>9, <2>1 DEF WriteOutput, RunRecord
  <2>5. UNCHANGED vars
    BY <1>9, Zenon DEF WriteOutput
  <2>6. reported' \in [1 .. MaxDeployed -> Nat]
    <3>1. q.action = "execute" => q.impl \in 1 .. MaxDeployed
      BY <1>2, <2>2, ScriptAssumption DEF Given, Complete, Calling, RunRecord
    <3> QED BY <1>3, <2>2, <3>1
  <2>8. Reports(op, q, r)
    BY <2>1, <2>2, <2>5 DEF Reports
  <2> QED BY <1>2, <1>3, <2>1, <2>2, <2>3, <2>4, <2>6, <2>8 DEF Becomes, Moves
<1> QED BY <1>1, <1>4, <1>5, <1>6, <1>7, <1>8, <1>9, CallBecomes

-----------------------------------------------------------------------------
(* What a step of the vote tools does: one vote, online or in a file, becomes w *)

Sources == {"online"} \cup Bundles

VoteIn(v, s) == IF s = "online" THEN session[v] ELSE bundle[v][s]

VoteBecomes(v, s, w) ==
    /\ w \in Vote /\ Named(w)
    /\ session' \in [ToolUsers -> Vote] /\ bundle' \in [ToolUsers -> [Bundles -> Vote]]
    /\ VoteIn(v, s)' = w
    /\ \A u \in ToolUsers, x \in Sources : u # v \/ x # s => VoteIn(u, x)' = VoteIn(u, x)

PoolTxOf(v, s, tx) == [from |-> v, source |-> s, nonce |-> tx.nonce, id |-> tx.id,
                       choice |-> tx.choice, params |-> tx.params]

\* A vote is prepared, signed, or given up.
Waits(v, s, o, w) ==
    /\ \/ o.stage = "none" /\ w.stage = "confirmed"
       \/ /\ o.stage = "none" /\ w.stage = "unsigned"
          /\ w.tx.nonce = PendingNonce(v) /\ w.tx.overtaken = PendingNonce(v)
       \/ o.stage = "unsigned" /\ w.stage = "signed" /\ w.tx = o.tx
       \/ o.stage = "confirmed" /\ w.stage = "failed"
       \/ o.stage = "signed" /\ w.stage = "refused" /\ w.tx = o.tx /\ ~ NonceFree(v, o.tx.nonce)
    /\ pool' = pool /\ nonces' = nonces /\ UNCHANGED vars

Sends(v, s, o, w) ==
    /\ \/ o.stage = "confirmed" /\ w.tx.nonce = PendingNonce(v)
       \/ o.stage = "signed" /\ w.tx = o.tx /\ NonceFree(v, o.tx.nonce)
    /\ w.stage = "sent" /\ pool' = pool \cup {PoolTxOf(v, s, w.tx)}
    /\ nonces' = nonces /\ UNCHANGED vars

Mines(v, s, o, w) ==
    \E t \in pool :
        /\ t.from = v /\ t.source = s /\ t.nonce = nonces[v]
        /\ pool' = pool \ {t} /\ nonces' = [nonces EXCEPT ![v] = @ + 1]
        /\ w.tx = o.tx
        /\ \/ /\ w.stage = "voted" /\ Matches(t.id, t.params)
              /\ IF t.choice = 1 THEN Support(t.id, v) ELSE Reject(t.id, v)
           \/ w.stage = "failed" /\ UNCHANGED vars

VoteMoves(v, s, o, w) == Waits(v, s, o, w) \/ Sends(v, s, o, w) \/ Mines(v, s, o, w)

LEMMA SessionBecomes ==
    ASSUME VotesTyped, NEW v \in ToolUsers, NEW w \in Vote, Named(w),
           session' = [session EXCEPT ![v] = w], bundle' = bundle
    PROVE  VoteBecomes(v, "online", w)
<1>1. session' \in [ToolUsers -> Vote] /\ bundle' \in [ToolUsers -> [Bundles -> Vote]]
  BY DEF VotesTyped
<1>2. VoteIn(v, "online")' = w
  BY DEF VotesTyped, VoteIn
<1>3. ASSUME NEW u \in ToolUsers, NEW x \in Sources, u # v \/ x # "online"
      PROVE  VoteIn(u, x)' = VoteIn(u, x)
  BY <1>3 DEF VotesTyped, VoteIn
<1> QED BY <1>1, <1>2, <1>3 DEF VoteBecomes

LEMMA BundleBecomes ==
    ASSUME VotesTyped, NEW v \in ToolUsers, NEW k \in Bundles, NEW w \in Vote, Named(w),
           bundle' = [bundle EXCEPT ![v][k] = w], session' = session
    PROVE  VoteBecomes(v, k, w)
<1>0. k # "online" /\ \A x \in Sources : x = "online" \/ x \in Bundles
  BY VoteAssumption DEF Sources
<1>1. session' \in [ToolUsers -> Vote] /\ bundle' \in [ToolUsers -> [Bundles -> Vote]]
  BY DEF VotesTyped
<1>2. VoteIn(v, k)' = w
  BY <1>0 DEF VotesTyped, VoteIn
<1>3. ASSUME NEW u \in ToolUsers, NEW x \in Sources, u # v \/ x # k
      PROVE  VoteIn(u, x)' = VoteIn(u, x)
  BY <1>0, <1>3 DEF VotesTyped, VoteIn
<1> QED BY <1>1, <1>2, <1>3 DEF VoteBecomes

LEMMA PendingType ==
    ASSUME VotesTyped, NEW v \in ToolUsers
    PROVE  /\ IsFiniteSet(SendersOf(v, pool)) /\ PendingNonce(v) \in Nat
           /\ PendingNonce(v) = nonces[v] + Cardinality(SendersOf(v, pool))
<1>1. IsFiniteSet(SendersOf(v, pool))
  BY FS_Subset DEF VotesTyped, SendersOf
<1>2. Cardinality(SendersOf(v, pool)) \in Nat /\ nonces[v] \in Nat
  BY <1>1, FS_CardinalityType DEF VotesTyped
<1> QED BY <1>1, <1>2 DEF PendingNonce

LEMMA BeginsNamed ==
    ASSUME NEW id \in Ids, NEW choice \in Sides, NEW answer \in Answers,
           NEW nonce \in Nat, NEW overtaken \in Nat, NEW stage \in Stages, NEW w,
           w = [stage |-> stage,
                tx |-> [id |-> id, choice |-> choice, params |-> Encoded(answer),
                        nonce |-> nonce, overtaken |-> overtaken]]
    PROVE  w \in Vote /\ Named(w)
<1>1. choice \in {1, -1} /\ Encoded(answer) \in Shown
  BY VoteAssumption DEF Shown
<1> QED BY <1>1 DEF Vote, VoteTx, Named

LEMMA OnlineMoves ==
    ASSUME VotesTyped, NEW v \in ToolUsers,
           \/ \E id \in Ids, choice \in Sides, answer \in Answers : Ask(v, id, choice, answer)
           \/ Send(v)
    PROVE  \E w : VoteBecomes(v, "online", w) /\ VoteMoves(v, "online", VoteIn(v, "online"), w)
<1>1. PICK o \in Vote : o = session[v] /\ Named(o) /\ o = VoteIn(v, "online")
  BY DEF VotesTyped, VoteIn
<1>2. ASSUME NEW id \in Ids, NEW choice \in Sides, NEW answer \in Answers,
             Ask(v, id, choice, answer)
      PROVE  \E w : VoteBecomes(v, "online", w) /\ VoteMoves(v, "online", o, w)
  <2>1. PICK w : w = [stage |-> "confirmed",
                      tx |-> [NoTx EXCEPT !.id = id, !.choice = choice,
                                          !.params = Encoded(answer)]]
    OBVIOUS
  <2>2. w = [stage |-> "confirmed",
             tx |-> [id |-> id, choice |-> choice, params |-> Encoded(answer),
                     nonce |-> 0, overtaken |-> 0]]
    BY <2>1 DEF NoTx
  <2>3. w \in Vote /\ Named(w)
    BY <2>2, BeginsNamed DEF Stages
  <2>4. /\ session' = [session EXCEPT ![v] = w] /\ o.stage = "none"
        /\ bundle' = bundle /\ pool' = pool /\ nonces' = nonces
    BY <1>1, <1>2, <2>1, Zenon DEF Ask
  <2>5. UNCHANGED vars
    BY <1>2, Zenon DEF Ask
  <2>6. w.stage = "confirmed"
    BY <2>1
  <2>7. Waits(v, "online", o, w)
    BY <2>4, <2>5, <2>6, Zenon DEF Waits
  <2> QED BY <2>3, <2>4, <2>7, SessionBecomes DEF VoteMoves
<1>3. CASE Send(v) /\ session[v].stage = "confirmed" /\ UNCHANGED pool
           /\ session' = [session EXCEPT ![v].stage = "failed"]
  <2>1. PICK w : w = [o EXCEPT !.stage = "failed"]
    OBVIOUS
  <2>2. w \in Vote /\ Named(w) /\ w.stage = "failed" /\ o.stage = "confirmed"
    BY <1>1, <1>3, <2>1 DEF Vote, Named, Stages
  <2>3. /\ session' = [session EXCEPT ![v] = w]
        /\ bundle' = bundle /\ pool' = pool /\ nonces' = nonces
    BY <1>1, <1>3, <2>1 DEF Send
  <2>4. UNCHANGED vars
    BY <1>3, Zenon DEF Send
  <2>5. Waits(v, "online", o, w)
    BY <2>2, <2>3, <2>4, Zenon DEF Waits
  <2> QED BY <1>1, <2>2, <2>3, <2>5, SessionBecomes DEF VoteMoves
<1>4. CASE /\ Send(v) /\ session[v].stage = "confirmed"
           /\ LET tx == [session[v].tx EXCEPT !.nonce = PendingNonce(v)]
              IN  Post(v, "online", tx)
                  /\ session' = [session EXCEPT ![v] = [stage |-> "sent", tx |-> tx]]
  <2>1. PICK tx : tx = [o.tx EXCEPT !.nonce = PendingNonce(v)]
    OBVIOUS
  <2>2. PICK w : w = [stage |-> "sent", tx |-> tx]
    OBVIOUS
  <2>3. o.stage = "confirmed" /\ o.tx \in VoteTx /\ o.tx.id \in Ids
    BY <1>1, <1>4 DEF Vote, Named
  <2>4. tx \in VoteTx /\ tx.id \in Ids /\ tx.nonce = PendingNonce(v)
    BY <2>1, <2>3, PendingType DEF VoteTx
  <2>5. w \in Vote /\ Named(w) /\ w.stage = "sent" /\ w.tx = tx
    BY <2>2, <2>4 DEF Vote, Named, Stages
  <2>6. /\ session' = [session EXCEPT ![v] = w] /\ bundle' = bundle /\ nonces' = nonces
        /\ pool' = pool \cup {PoolTxOf(v, "online", tx)}
    BY <1>1, <1>4, <2>1, <2>2 DEF Send, Post, PoolTxOf
  <2>7. UNCHANGED vars
    BY <1>4, Zenon DEF Send
  <2>8. Sends(v, "online", o, w)
    BY <2>3, <2>4, <2>5, <2>6, <2>7, Zenon DEF Sends
  <2> QED BY <1>1, <2>5, <2>6, <2>8, SessionBecomes DEF VoteMoves
<1>5. Send(v) => \/ Send(v) /\ session[v].stage = "confirmed" /\ UNCHANGED pool
                    /\ session' = [session EXCEPT ![v].stage = "failed"]
                 \/ /\ Send(v) /\ session[v].stage = "confirmed"
                    /\ LET tx == [session[v].tx EXCEPT !.nonce = PendingNonce(v)]
                       IN  Post(v, "online", tx)
                           /\ session' = [session EXCEPT ![v] = [stage |-> "sent", tx |-> tx]]
  BY Zenon DEF Send
<1> QED BY <1>1, <1>2, <1>3, <1>4, <1>5

LEMMA OfflineMoves ==
    ASSUME VotesTyped, NEW v \in ToolUsers, NEW k \in Bundles,
           \/ \E id \in Ids, choice \in Sides, answer \in Answers :
                 PrepareOfflineVote(v, k, id, choice, answer)
           \/ SignOfflineVote(v, k) \/ BroadcastOfflineVote(v, k)
    PROVE  \E w : VoteBecomes(v, k, w) /\ VoteMoves(v, k, VoteIn(v, k), w)
<1>1. PICK o \in Vote : o = bundle[v][k] /\ Named(o) /\ o = VoteIn(v, k)
  BY VoteAssumption DEF VotesTyped, VoteIn
<1>2. ASSUME NEW id \in Ids, NEW choice \in Sides, NEW answer \in Answers,
             PrepareOfflineVote(v, k, id, choice, answer)
      PROVE  \E w : VoteBecomes(v, k, w) /\ VoteMoves(v, k, o, w)
  <2>1. PICK w : w = [stage |-> "unsigned",
                      tx |-> [id |-> id, choice |-> choice, params |-> Encoded(answer),
                              nonce |-> PendingNonce(v), overtaken |-> PendingNonce(v)]]
    OBVIOUS
  <2>2. w \in Vote /\ Named(w)
    BY <2>1, BeginsNamed, PendingType DEF Stages
  <2>3. /\ bundle' = [bundle EXCEPT ![v][k] = w] /\ o.stage = "none"
        /\ session' = session /\ pool' = pool /\ nonces' = nonces
    BY <1>1, <1>2, <2>1, Zenon DEF PrepareOfflineVote, NonceFor
  <2>4. UNCHANGED vars
    BY <1>2, Zenon DEF PrepareOfflineVote
  <2>5. /\ w.stage = "unsigned"
        /\ w.tx.nonce = PendingNonce(v) /\ w.tx.overtaken = PendingNonce(v)
    BY <2>1
  <2>6. Waits(v, k, o, w)
    BY <2>3, <2>4, <2>5, Zenon DEF Waits
  <2> QED BY <2>2, <2>3, <2>6, BundleBecomes DEF VoteMoves
<1>3. ASSUME NEW old, NEW stage \in {"signed", "sent", "refused"},
             bundle[v][k].stage = old, bundle' = [bundle EXCEPT ![v][k].stage = stage],
             session' = session, old \in {"unsigned", "signed"}
      PROVE  \E w \in Vote : /\ VoteBecomes(v, k, w) /\ w.stage = stage /\ w.tx = o.tx
                             /\ o.stage = old /\ o.tx \in VoteTx /\ o.tx.id \in Ids
  <2>1. PICK w : w = [o EXCEPT !.stage = stage]
    OBVIOUS
  <2>2. o.tx \in VoteTx /\ o.tx.id \in Ids /\ o.stage = old
    BY <1>1, <1>3 DEF Vote, Named
  <2>3. w \in Vote /\ Named(w) /\ w.stage = stage /\ w.tx = o.tx
    BY <2>1, <2>2 DEF Vote, Named, Stages
  <2>4. bundle' = [bundle EXCEPT ![v][k] = w]
    BY <1>1, <1>3, <2>1
  <2> QED BY <1>3, <2>2, <2>3, <2>4, BundleBecomes
<1>4. CASE SignOfflineVote(v, k)
  <2>1. /\ bundle[v][k].stage = "unsigned" /\ bundle' = [bundle EXCEPT ![v][k].stage = "signed"]
        /\ session' = session /\ pool' = pool /\ nonces' = nonces
    BY <1>4 DEF SignOfflineVote
  <2>2. UNCHANGED vars
    BY <1>4, Zenon DEF SignOfflineVote
  <2>3. PICK w \in Vote : /\ VoteBecomes(v, k, w) /\ w.stage = "signed" /\ w.tx = o.tx
                          /\ o.stage = "unsigned"
    BY <1>3, <2>1
  <2>4. Waits(v, k, o, w)
    BY <2>1, <2>2, <2>3, Zenon DEF Waits
  <2> QED BY <1>1, <2>3, <2>4 DEF VoteMoves
<1>5. CASE BroadcastOfflineVote(v, k) /\ NonceFree(v, bundle[v][k].tx.nonce)
  <2>1. /\ bundle[v][k].stage = "signed" /\ bundle' = [bundle EXCEPT ![v][k].stage = "sent"]
        /\ session' = session /\ nonces' = nonces
        /\ pool' = pool \cup {PoolTxOf(v, k, o.tx)}
    BY <1>1, <1>5, Zenon DEF BroadcastOfflineVote, Post, PoolTxOf
  <2>2. UNCHANGED vars
    BY <1>5, Zenon DEF BroadcastOfflineVote
  <2>3. PICK w \in Vote : /\ VoteBecomes(v, k, w) /\ w.stage = "sent" /\ w.tx = o.tx
                          /\ o.stage = "signed"
    BY <1>3, <2>1
  <2>4. Sends(v, k, o, w)
    BY <1>1, <1>5, <2>1, <2>2, <2>3, Zenon DEF Sends
  <2> QED BY <1>1, <2>3, <2>4 DEF VoteMoves
<1>6. CASE BroadcastOfflineVote(v, k) /\ ~ NonceFree(v, bundle[v][k].tx.nonce)
  <2>1. /\ bundle[v][k].stage = "signed" /\ bundle' = [bundle EXCEPT ![v][k].stage = "refused"]
        /\ session' = session /\ nonces' = nonces /\ pool' = pool
    BY <1>1, <1>6, Zenon DEF BroadcastOfflineVote
  <2>2. UNCHANGED vars
    BY <1>6, Zenon DEF BroadcastOfflineVote
  <2>3. PICK w \in Vote : /\ VoteBecomes(v, k, w) /\ w.stage = "refused" /\ w.tx = o.tx
                          /\ o.stage = "signed"
    BY <1>3, <2>1
  <2>4. Waits(v, k, o, w)
    BY <1>1, <1>6, <2>1, <2>2, <2>3, Zenon DEF Waits
  <2> QED BY <1>1, <2>3, <2>4 DEF VoteMoves
<1> QED BY <1>1, <1>2, <1>4, <1>5, <1>6

\* Only votes under way are in the pool, once each, as they were sent.
Pooled(t) ==
    LET vote == VoteIn(t.from, t.source)
    IN  vote.stage = "sent" /\ t = PoolTxOf(t.from, t.source, vote.tx)

LEMMA MineMoves ==
    ASSUME VotesTyped, NEW t \in pool, Pooled(t), Mine(t)
    PROVE  \E w : /\ VoteBecomes(t.from, t.source, w)
                  /\ VoteMoves(t.from, t.source, VoteIn(t.from, t.source), w)
<1>1. t.from \in ToolUsers /\ t.source \in Sources
  BY DEF VotesTyped, PoolTx, Sources
<1>2. PICK v \in ToolUsers, s \in Sources : v = t.from /\ s = t.source
  BY <1>1
<1>3. PICK o \in Vote : o = VoteIn(v, s) /\ o.stage = "sent" /\ o.tx \in VoteTx /\ o.tx.id \in Ids
  <2>1. VoteIn(v, s) \in Vote /\ Named(VoteIn(v, s))
    BY DEF VotesTyped, VoteIn, Sources
  <2> QED BY <1>2, <2>1 DEF Pooled, Named, Vote
<1>4. PICK result \in {"voted", "failed"} :
         /\ Mined(t, result)
         /\ \/ /\ result = "voted" /\ VoteValid(t.from, t)
               /\ IF t.choice = 1 THEN Support(t.id, t.from) ELSE Reject(t.id, t.from)
            \/ result = "failed" /\ UNCHANGED vars
  BY Zenon DEF Mine
<1>5. PICK w : w = [o EXCEPT !.stage = result]
  OBVIOUS
<1>6. w \in Vote /\ Named(w) /\ w.stage = result /\ w.tx = o.tx
  BY <1>3, <1>5 DEF Vote, Named, Stages
<1>7. VoteBecomes(v, s, w)
  <2>1. CASE s = "online"
    <3>1. session' = [session EXCEPT ![v] = w] /\ bundle' = bundle
      BY <1>2, <1>3, <1>4, <1>5, <2>1 DEF Mined, VoteIn
    <3> QED BY <1>6, <2>1, <3>1, SessionBecomes
  <2>2. CASE s # "online"
    <3>1. bundle' = [bundle EXCEPT ![v][s] = w] /\ session' = session /\ s \in Bundles
      BY <1>2, <1>3, <1>4, <1>5, <2>2 DEF Mined, VoteIn, Sources
    <3> QED BY <1>6, <3>1, BundleBecomes
  <2> QED BY <2>1, <2>2
<1>8. /\ t.nonce = nonces[v] /\ pool' = pool \ {t}
      /\ nonces' = [nonces EXCEPT ![v] = @ + 1]
  BY <1>2 DEF Mine
<1>9. Mines(v, s, o, w)
  <2>1. \/ /\ w.stage = "voted" /\ Matches(t.id, t.params)
           /\ IF t.choice = 1 THEN Support(t.id, v) ELSE Reject(t.id, v)
        \/ w.stage = "failed" /\ UNCHANGED vars
    BY <1>2, <1>4, <1>6, Zenon DEF VoteValid
  <2> QED BY <1>2, <1>6, <1>8, <2>1, Zenon DEF Mines
<1> QED BY <1>2, <1>3, <1>7, <1>9 DEF VoteMoves

LEMMA VoteKinds ==
    ASSUME VotesTyped, \A t \in pool : Pooled(t), VoteNext
    PROVE  \E v \in ToolUsers, s \in Sources :
              \E w : VoteBecomes(v, s, w) /\ VoteMoves(v, s, VoteIn(v, s), w)
<1>1. "online" \in Sources /\ Bundles \subseteq Sources
      /\ \A t \in pool : t.from \in ToolUsers /\ t.source \in Sources
  BY DEF Sources, VotesTyped, PoolTx
<1>2. CASE \E tx \in pool : Mine(tx)
  BY <1>1, <1>2, MineMoves
<1>3. CASE \E v \in ToolUsers : \/ \E id \in Ids, choice \in Sides, answer \in Answers :
                                      Ask(v, id, choice, answer)
                                \/ Send(v)
  BY <1>1, <1>3, OnlineMoves
<1>4. CASE \E v \in ToolUsers, k \in Bundles :
              \/ \E id \in Ids, choice \in Sides, answer \in Answers :
                    PrepareOfflineVote(v, k, id, choice, answer)
              \/ SignOfflineVote(v, k) \/ BroadcastOfflineVote(v, k)
  BY <1>1, <1>4, OfflineMoves
<1> QED BY <1>2, <1>3, <1>4, Zenon DEF VoteNext

-----------------------------------------------------------------------------
(* The pool and the nonces *)

PoolOnce == \A t, u \in pool : t.from = u.from /\ t.nonce = u.nonce => t = u

\* The transactions of a voter under way have the nonces that follow the mined ones.
Queued(v) ==
    \A n \in Nat : (nonces[v] <= n /\ n < PendingNonce(v))
                   <=> \E t \in pool : t.from = v /\ t.nonce = n

\* A prepared vote has the nonce that was the next one then, and the network takes
\* no transaction back.
Timely(v, vote) ==
    /\ vote.stage \in {"unsigned", "signed"} => /\ vote.tx.nonce = vote.tx.overtaken
                                                /\ vote.tx.overtaken <= PendingNonce(v)
    /\ vote.stage = "refused" => vote.tx.overtaken < PendingNonce(v)

PoolInv == /\ VotesTyped /\ PoolOnce /\ \A t \in pool : Pooled(t)
           /\ \A v \in ToolUsers : Queued(v) /\ \A s \in Sources : Timely(v, VoteIn(v, s))

LEMMA NonceIsFree ==
    ASSUME VotesTyped, NEW v \in ToolUsers, Queued(v), NEW n \in Nat
    PROVE  NonceFree(v, n) <=> n >= PendingNonce(v)
<1>1. nonces[v] \in Nat /\ PendingNonce(v) \in Nat /\ nonces[v] <= PendingNonce(v)
  <2>1. Cardinality(SendersOf(v, pool)) \in Nat
    BY PendingType, FS_CardinalityType
  <2> QED BY <2>1, PendingType DEF VotesTyped
<1>2. (\A tx \in SendersOf(v, pool) : tx.nonce # n) <=> ~ \E t \in pool : t.from = v /\ t.nonce = n
  BY DEF SendersOf
<1> QED BY <1>1, <1>2 DEF NonceFree, Queued

LEMMA VoteInType ==
    ASSUME VotesTyped, NEW v \in ToolUsers, NEW s \in Sources
    PROVE  /\ VoteIn(v, s) \in Vote /\ Named(VoteIn(v, s)) /\ VoteIn(v, s).tx \in VoteTx
           /\ VoteIn(v, s).tx.nonce \in Nat /\ VoteIn(v, s).tx.overtaken \in Nat
<1>1. VoteIn(v, s) \in Vote /\ Named(VoteIn(v, s))
  BY DEF VotesTyped, VoteIn, Sources
<1> QED BY <1>1 DEF Vote, VoteTx

LEMMA PoolTxType ==
    ASSUME NEW v \in ToolUsers, NEW s \in Sources, NEW w \in Vote, Named(w), w.stage = "sent"
    PROVE  /\ PoolTxOf(v, s, w.tx) \in PoolTx /\ PoolTxOf(v, s, w.tx).from = v
           /\ PoolTxOf(v, s, w.tx).source = s /\ PoolTxOf(v, s, w.tx).nonce = w.tx.nonce
<1>1. w.tx \in VoteTx /\ w.tx.id \in Ids
  BY DEF Vote, Named
<1> QED BY <1>1 DEF PoolTxOf, PoolTx, VoteTx, Sources

\* What sending a transaction does to the counts of pending ones.
LEMMA SendCounts ==
    ASSUME VotesTyped, NEW v \in ToolUsers, NEW x, x.from = v, x \notin pool,
           pool' = pool \cup {x}, nonces' = nonces
    PROVE  \A u \in ToolUsers : PendingNonce(u)' = IF u = v THEN PendingNonce(u) + 1
                                                            ELSE PendingNonce(u)
<1> SUFFICES ASSUME NEW u \in ToolUsers
             PROVE  PendingNonce(u)' = IF u = v THEN PendingNonce(u) + 1 ELSE PendingNonce(u)
  OBVIOUS
<1>1. PICK S : S = SendersOf(u, pool)
  OBVIOUS
<1>2. IsFiniteSet(S) /\ Cardinality(S) \in Nat /\ nonces[u] \in Nat
  BY <1>1, PendingType, FS_CardinalityType DEF VotesTyped
<1>3. CASE u = v
  <2>1. SendersOf(u, pool)' = S \cup {x} /\ x \notin S
    BY <1>1, <1>3 DEF SendersOf
  <2>2. Cardinality(S \cup {x}) = Cardinality(S) + 1
    BY <1>2, <2>1, FS_AddElement
  <2>3. PICK c, n \in Nat : c = Cardinality(S) /\ n = nonces[u]
    BY <1>2
  <2>4. PendingNonce(u) = n + c
    BY <1>1, <2>3 DEF PendingNonce
  <2>5. PendingNonce(u)' = n + (c + 1)
    BY <2>1, <2>2, <2>3 DEF PendingNonce
  <2> QED BY <1>3, <2>4, <2>5
<1>4. CASE u # v
  <2>1. SendersOf(u, pool)' = S
    BY <1>1, <1>4 DEF SendersOf
  <2> QED BY <1>1, <1>4, <2>1 DEF PendingNonce
<1> QED BY <1>3, <1>4

LEMMA MineCounts ==
    ASSUME VotesTyped, NEW v \in ToolUsers, NEW t \in pool, t.from = v,
           pool' = pool \ {t}, nonces' = [nonces EXCEPT ![v] = @ + 1]
    PROVE  \A u \in ToolUsers : PendingNonce(u)' = PendingNonce(u)
<1> SUFFICES ASSUME NEW u \in ToolUsers PROVE PendingNonce(u)' = PendingNonce(u)
  OBVIOUS
<1>1. PICK S : S = SendersOf(u, pool)
  OBVIOUS
<1>2. IsFiniteSet(S) /\ Cardinality(S) \in Nat /\ nonces[u] \in Nat
  BY <1>1, PendingType, FS_CardinalityType DEF VotesTyped
<1>3. CASE u = v
  <2>1. SendersOf(u, pool)' = S \ {t} /\ t \in S
    BY <1>1, <1>3 DEF SendersOf
  <2>2. Cardinality(S \ {t}) = Cardinality(S) - 1
    BY <1>2, <2>1, FS_RemoveElement
  <2>3. nonces'[u] = nonces[u] + 1
    BY <1>3 DEF VotesTyped
  <2>4. PICK c, n \in Nat : c = Cardinality(S) /\ n = nonces[u]
    BY <1>2
  <2>5. PendingNonce(u) = n + c
    BY <1>1, <2>4 DEF PendingNonce
  <2>6. PendingNonce(u)' = (n + 1) + (c - 1)
    BY <2>1, <2>2, <2>3, <2>4 DEF PendingNonce
  <2> QED BY <2>4, <2>5, <2>6
<1>4. CASE u # v
  <2>1. SendersOf(u, pool)' = S /\ nonces'[u] = nonces[u]
    BY <1>1, <1>4 DEF SendersOf, VotesTyped
  <2> QED BY <1>1, <2>1 DEF PendingNonce
<1> QED BY <1>3, <1>4

LEMMA VotesTypedKept ==
    ASSUME VotesTyped, NEW v \in ToolUsers, NEW s \in Sources, NEW w, VoteBecomes(v, s, w),
           pool' \subseteq PoolTx, IsFiniteSet(pool'), nonces' \in [ToolUsers -> Nat]
    PROVE  VotesTyped'
<1>1. \A u \in ToolUsers, x \in Sources : Named(VoteIn(u, x))'
  <2> SUFFICES ASSUME NEW u \in ToolUsers, NEW x \in Sources PROVE Named(VoteIn(u, x))'
    OBVIOUS
  <2>1. Named(VoteIn(u, x)) /\ Named(w)
    BY VoteInType DEF VoteBecomes
  <2>2. VoteIn(u, x)' = w \/ VoteIn(u, x)' = VoteIn(u, x)
    BY DEF VoteBecomes
  <2> QED BY <2>1, <2>2 DEF Named
<1>2. \A u \in ToolUsers : /\ Named(session[u])'
                           /\ \A k \in Bundles : Named(bundle[u][k])'
  <2> SUFFICES ASSUME NEW u \in ToolUsers
               PROVE  Named(session[u])' /\ \A k \in Bundles : Named(bundle[u][k])'
    OBVIOUS
  <2>1. "online" \in Sources /\ \A k \in Bundles : k \in Sources /\ k # "online"
    BY VoteAssumption DEF Sources
  <2>2. VoteIn(u, "online")' = session'[u] /\ \A k \in Bundles : VoteIn(u, k)' = bundle'[u][k]
    BY <2>1 DEF VoteIn
  <2> QED BY <1>1, <2>1, <2>2 DEF Named
<1> QED BY <1>2 DEF VotesTyped, VoteBecomes

LEMMA PooledKept ==
    ASSUME VotesTyped, NEW v \in ToolUsers, NEW s \in Sources, NEW w, VoteBecomes(v, s, w),
           NEW t \in pool, Pooled(t), t.from # v \/ t.source # s
    PROVE  Pooled(t)'
<1>1. t.from \in ToolUsers /\ t.source \in Sources
  BY DEF VotesTyped, PoolTx, Sources
<1>2. VoteIn(t.from, t.source)' = VoteIn(t.from, t.source)
  BY <1>1 DEF VoteBecomes
<1> QED BY <1>2 DEF Pooled

LEMMA WaitKeeps ==
    ASSUME PoolInv, NEW v \in ToolUsers, NEW s \in Sources, NEW w, VoteBecomes(v, s, w),
           Waits(v, s, VoteIn(v, s), w)
    PROVE  PoolInv'
<1>1. PICK o : o = VoteIn(v, s)
  OBVIOUS
<1>2. pool' = pool /\ nonces' = nonces
  BY DEF Waits
<1>3. VotesTyped' /\ PoolOnce'
  BY <1>2, VotesTypedKept DEF PoolInv, VotesTyped, PoolOnce
<1>4. \A u \in ToolUsers : PendingNonce(u)' = PendingNonce(u)
  BY <1>2 DEF PendingNonce
<1>5. \A u \in ToolUsers : Queued(u)'
  BY <1>2, <1>4 DEF PoolInv, Queued
<1>6. ASSUME NEW t \in pool PROVE Pooled(t)'
  <2>1. Pooled(t) /\ (t.from = v /\ t.source = s => o.stage = "sent")
    BY <1>1 DEF PoolInv, Pooled
  <2>2. o.stage # "sent"
    BY <1>1 DEF Waits
  <2> QED BY <2>1, <2>2, PooledKept DEF PoolInv
<1>7. ASSUME NEW u \in ToolUsers, NEW x \in Sources PROVE Timely(u, VoteIn(u, x))'
  <2>1. CASE u = v /\ x = s
    <3>1. VoteIn(u, x)' = w /\ Timely(v, o) /\ Queued(v) /\ VotesTyped
      BY <1>1, <2>1 DEF VoteBecomes, PoolInv
    <3>2. PendingNonce(v) \in Nat /\ o.tx.nonce \in Nat /\ o.tx.overtaken \in Nat
      BY <1>1, <3>1, PendingType, VoteInType
    <3>3. CASE w.stage = "unsigned"
      <4>1. w.tx.nonce = PendingNonce(v) /\ w.tx.overtaken = PendingNonce(v)
        BY <1>1, <3>3 DEF Waits
      <4> QED BY <1>4, <2>1, <3>1, <3>2, <3>3, <4>1 DEF Timely
    <3>4. CASE w.stage = "signed"
      <4>1. w.tx = o.tx /\ o.stage = "unsigned"
        BY <1>1, <3>4 DEF Waits
      <4> QED BY <1>4, <2>1, <3>1, <3>2, <3>4, <4>1 DEF Timely
    <3>5. CASE w.stage = "refused"
      <4>1. w.tx = o.tx /\ o.stage = "signed" /\ ~ NonceFree(v, o.tx.nonce)
        BY <1>1, <3>5 DEF Waits
      <4>2. o.tx.nonce < PendingNonce(v) /\ o.tx.nonce = o.tx.overtaken
        BY <3>1, <3>2, <4>1, NonceIsFree DEF Timely
      <4> QED BY <1>4, <2>1, <3>1, <3>5, <4>1, <4>2 DEF Timely
    <3> QED BY <2>1, <3>1, <3>3, <3>4, <3>5 DEF Timely
  <2>2. CASE u # v \/ x # s
    <3>1. VoteIn(u, x)' = VoteIn(u, x)
      BY <2>2 DEF VoteBecomes
    <3> QED BY <1>4, <3>1 DEF PoolInv, Timely
  <2> QED BY <2>1, <2>2
<1> QED BY <1>2, <1>3, <1>5, <1>6, <1>7 DEF PoolInv

LEMMA SendKeeps ==
    ASSUME PoolInv, NEW v \in ToolUsers, NEW s \in Sources, NEW w, VoteBecomes(v, s, w),
           Sends(v, s, VoteIn(v, s), w)
    PROVE  PoolInv'
<1>1. PICK o : o = VoteIn(v, s)
  OBVIOUS
<1>2. PICK x : x = PoolTxOf(v, s, w.tx)
  OBVIOUS
<1>3. pool' = pool \cup {x} /\ nonces' = nonces /\ w.stage = "sent"
  BY <1>2 DEF Sends
<1>4. /\ VotesTyped /\ Queued(v) /\ Timely(v, o) /\ w \in Vote /\ Named(w)
      /\ PendingNonce(v) \in Nat /\ o.tx.nonce \in Nat
  BY <1>1, PendingType, VoteInType DEF PoolInv, VoteBecomes
<1>5. w.tx.nonce = PendingNonce(v)
  <2>1. CASE o.stage = "signed" /\ w.tx = o.tx /\ NonceFree(v, o.tx.nonce)
    <3>1. o.tx.nonce >= PendingNonce(v)
      BY <1>4, <2>1, NonceIsFree
    <3>2. o.tx.nonce <= PendingNonce(v)
      BY <1>4, <2>1 DEF Timely
    <3> QED BY <1>4, <2>1, <3>1, <3>2
  <2> QED BY <1>1, <2>1 DEF Sends
<1>6. x \in PoolTx /\ x.from = v /\ x.source = s /\ x.nonce = PendingNonce(v)
  BY <1>2, <1>3, <1>4, <1>5, PoolTxType
<1>7. \A t \in pool : t.from # v \/ t.nonce # x.nonce
  BY <1>4, <1>6 DEF Queued
<1>8. x \notin pool
  BY <1>6, <1>7
<1>9. VotesTyped' /\ PoolOnce'
  <2>1. IsFiniteSet(pool \cup {x})
    BY <1>4, FS_AddElement DEF VotesTyped
  <2>2. VotesTyped'
    BY <1>3, <1>4, <1>6, <2>1, VotesTypedKept DEF VotesTyped
  <2>3. PoolOnce'
    BY <1>3, <1>6, <1>7 DEF PoolInv, PoolOnce
  <2> QED BY <2>2, <2>3
<1>10. \A u \in ToolUsers : PendingNonce(u)' = IF u = v THEN PendingNonce(u) + 1
                                                        ELSE PendingNonce(u)
  BY <1>3, <1>4, <1>6, <1>8, SendCounts
<1>11. ASSUME NEW u \in ToolUsers PROVE Queued(u)'
  <2>1. PICK a, p \in Nat : a = nonces[u] /\ p = PendingNonce(u)
    BY PendingType DEF PoolInv, VotesTyped
  <2>2. a <= p
    <3>1. PICK c \in Nat : c = Cardinality(SendersOf(u, pool))
      BY PendingType, FS_CardinalityType DEF PoolInv
    <3>2. p = a + c
      BY <1>4, <2>1, <3>1, PendingType
    <3> QED BY <3>1, <3>2
  <2>3. \A n \in Nat : (a <= n /\ n < p) <=> \E t \in pool : t.from = u /\ t.nonce = n
    BY <2>1 DEF PoolInv, Queued
  <2>4. CASE u = v
    <3>1. \A n \in Nat : (a <= n /\ n < p + 1) <=> (a <= n /\ n < p) \/ n = p
      BY <2>1, <2>2
    <3>2. \A n \in Nat : (\E t \in pool' : t.from = u /\ t.nonce = n)
                         <=> (\E t \in pool : t.from = u /\ t.nonce = n) \/ n = p
      BY <1>3, <1>6, <2>1, <2>4
    <3>3. nonces'[u] = a /\ PendingNonce(u)' = p + 1
      BY <1>3, <1>10, <2>1, <2>4
    <3> QED BY <2>3, <3>1, <3>2, <3>3 DEF Queued
  <2>5. CASE u # v
    <3>1. \A n \in Nat : (\E t \in pool' : t.from = u /\ t.nonce = n)
                         <=> (\E t \in pool : t.from = u /\ t.nonce = n)
      BY <1>3, <1>6, <2>5
    <3>2. nonces'[u] = a /\ PendingNonce(u)' = p
      BY <1>3, <1>10, <2>1, <2>5
    <3> QED BY <2>3, <3>1, <3>2 DEF Queued
  <2> QED BY <2>4, <2>5
<1>12. ASSUME NEW t \in pool' PROVE Pooled(t)'
  <2>1. CASE t = x
    <3>1. VoteIn(v, s)' = w
      BY DEF VoteBecomes
    <3> QED BY <1>2, <1>3, <1>6, <2>1, <3>1 DEF Pooled
  <2>2. CASE t \in pool
    <3>1. Pooled(t) /\ (t.from = v /\ t.source = s => o.stage = "sent")
      BY <1>1, <2>2 DEF PoolInv, Pooled
    <3>2. o.stage # "sent"
      BY <1>1 DEF Sends
    <3> QED BY <1>4, <2>2, <3>1, <3>2, PooledKept
  <2> QED BY <1>3, <2>1, <2>2
<1>13. ASSUME NEW u \in ToolUsers, NEW y \in Sources PROVE Timely(u, VoteIn(u, y))'
  <2>1. CASE u = v /\ y = s
    <3>1. VoteIn(u, y)' = w
      BY <2>1 DEF VoteBecomes
    <3> QED BY <1>3, <3>1 DEF Timely
  <2>2. CASE u # v \/ y # s
    <3>1. VoteIn(u, y)' = VoteIn(u, y) /\ Timely(u, VoteIn(u, y))
      BY <2>2 DEF VoteBecomes, PoolInv
    <3>2. PICK p, q, n \in Nat : /\ p = PendingNonce(u) /\ q = PendingNonce(u)' /\ p <= q
                                 /\ n = VoteIn(u, y).tx.overtaken
      BY <1>4, <1>10, PendingType, VoteInType
    <3> QED BY <3>1, <3>2 DEF Timely
  <2> QED BY <2>1, <2>2
<1> QED BY <1>9, <1>11, <1>12, <1>13 DEF PoolInv

LEMMA MineKeeps ==
    ASSUME PoolInv, NEW v \in ToolUsers, NEW s \in Sources, NEW w, VoteBecomes(v, s, w),
           Mines(v, s, VoteIn(v, s), w)
    PROVE  PoolInv'
<1>1. PICK o : o = VoteIn(v, s)
  OBVIOUS
<1>2. PICK t \in pool : /\ t.from = v /\ t.source = s /\ t.nonce = nonces[v]
                        /\ pool' = pool \ {t} /\ nonces' = [nonces EXCEPT ![v] = @ + 1]
  BY DEF Mines
<1>3. w.stage \in {"voted", "failed"}
  BY DEF Mines
<1>4. VotesTyped /\ PoolOnce /\ nonces \in [ToolUsers -> Nat] /\ \A u \in pool : Pooled(u)
  BY DEF PoolInv, VotesTyped
<1>5. VotesTyped' /\ PoolOnce'
  <2>1. IsFiniteSet(pool') /\ pool' \subseteq PoolTx /\ nonces' \in [ToolUsers -> Nat]
    BY <1>2, <1>4, FS_Subset DEF VotesTyped
  <2> QED BY <1>2, <1>4, <2>1, VotesTypedKept DEF PoolOnce
<1>6. \A u \in ToolUsers : PendingNonce(u)' = PendingNonce(u)
  BY <1>2, <1>4, MineCounts
<1>7. ASSUME NEW u \in ToolUsers PROVE Queued(u)'
  <2>1. PICK a, p \in Nat : a = nonces[u] /\ p = PendingNonce(u)
    BY <1>4, PendingType
  <2>2. \A n \in Nat : (a <= n /\ n < p) <=> \E x \in pool : x.from = u /\ x.nonce = n
    BY <2>1 DEF PoolInv, Queued
  <2>3. PendingNonce(u)' = p
    BY <1>6, <2>1
  <2>4. CASE u = v
    <3>1. \A n \in Nat : (a + 1 <= n /\ n < p) <=> (a <= n /\ n < p /\ n # a)
      BY <2>1
    <3>2. \A n \in Nat : (\E x \in pool' : x.from = u /\ x.nonce = n)
                         <=> (\E x \in pool : x.from = u /\ x.nonce = n) /\ n # a
      BY <1>2, <1>4, <2>1, <2>4 DEF PoolOnce
    <3>3. nonces'[u] = a + 1
      BY <1>2, <1>4, <2>1, <2>4
    <3> QED BY <2>2, <2>3, <3>1, <3>2, <3>3 DEF Queued
  <2>5. CASE u # v
    <3>1. \A n \in Nat : (\E x \in pool' : x.from = u /\ x.nonce = n)
                         <=> (\E x \in pool : x.from = u /\ x.nonce = n)
      BY <1>2, <2>5
    <3>2. nonces'[u] = a
      BY <1>2, <1>4, <2>1, <2>5
    <3> QED BY <2>2, <2>3, <3>1, <3>2 DEF Queued
  <2> QED BY <2>4, <2>5
<1>8. ASSUME NEW u \in pool' PROVE Pooled(u)'
  <2>1. u \in pool /\ u # t /\ Pooled(u) /\ Pooled(t)
    BY <1>2, <1>4
  <2>2. u.from # v \/ u.source # s
    BY <1>2, <2>1 DEF Pooled
  <2> QED BY <1>4, <2>1, <2>2, PooledKept
<1>9. ASSUME NEW u \in ToolUsers, NEW y \in Sources PROVE Timely(u, VoteIn(u, y))'
  <2>1. CASE u = v /\ y = s
    <3>1. VoteIn(u, y)' = w
      BY <2>1 DEF VoteBecomes
    <3> QED BY <1>3, <3>1 DEF Timely
  <2>2. CASE u # v \/ y # s
    <3>1. VoteIn(u, y)' = VoteIn(u, y) /\ Timely(u, VoteIn(u, y))
      BY <2>2 DEF VoteBecomes, PoolInv
    <3> QED BY <1>6, <3>1 DEF Timely
  <2> QED BY <2>1, <2>2
<1> QED BY <1>5, <1>7, <1>8, <1>9 DEF PoolInv

LEMMA PoolStep ==
    ASSUME PoolInv, [ToolsNext]_allVars
    PROVE  PoolInv'
<1>1. CASE UNCHANGED voteVars
  <2>1. session' = session /\ bundle' = bundle /\ pool' = pool /\ nonces' = nonces
    BY <1>1 DEF voteVars
  <2>2. \A v \in ToolUsers, s \in Sources : VoteIn(v, s)' = VoteIn(v, s)
    BY <2>1 DEF VoteIn
  <2>3. \A v \in ToolUsers : PendingNonce(v)' = PendingNonce(v)
    BY <2>1 DEF PendingNonce
  <2>4. VotesTyped' /\ PoolOnce'
    BY <2>1 DEF PoolInv, VotesTyped, PoolOnce
  <2>5. \A t \in pool' : Pooled(t)'
    BY <2>1 DEF PoolInv, Pooled, VoteIn
  <2>6. \A v \in ToolUsers : Queued(v)'
    BY <2>1, <2>3 DEF PoolInv, Queued
  <2>7. \A v \in ToolUsers, s \in Sources : Timely(v, VoteIn(v, s))'
    BY <2>2, <2>3 DEF PoolInv, Timely
  <2> QED BY <2>4, <2>5, <2>6, <2>7 DEF PoolInv
<1>2. CASE VoteNext
  <2>1. PICK v \in ToolUsers, s \in Sources :
           \E w : VoteBecomes(v, s, w) /\ VoteMoves(v, s, VoteIn(v, s), w)
    BY <1>2, VoteKinds DEF PoolInv
  <2> QED BY <2>1, WaitKeeps, SendKeeps, MineKeeps DEF VoteMoves
<1> QED BY <1>1, <1>2 DEF ToolsNext, allVars

LEMMA PoolInit == VoteInit => PoolInv
<1> SUFFICES ASSUME VoteInit PROVE PoolInv
  OBVIOUS
<1>1. NoVote \in Vote /\ NoVote.stage = "none" /\ Named(NoVote)
  BY DEF NoVote, NoTx, Vote, VoteTx, Shown, Stages, Named
<1>2. \A v \in ToolUsers, s \in Sources : VoteIn(v, s) = NoVote
  BY DEF VoteInit, VoteIn, Sources
<1>3. VotesTyped /\ PoolOnce /\ pool = {}
  BY <1>1, FS_EmptySet DEF VoteInit, VotesTyped, PoolOnce
<1>4. ASSUME NEW v \in ToolUsers PROVE Queued(v)
  <2>1. SendersOf(v, pool) = {} /\ nonces[v] = 0
    BY <1>3 DEF SendersOf, VoteInit
  <2>2. PendingNonce(v) = 0
    BY <2>1, FS_EmptySet DEF PendingNonce
  <2> QED BY <1>3, <2>1, <2>2 DEF Queued
<1>5. \A v \in ToolUsers, s \in Sources : Timely(v, VoteIn(v, s))
  BY <1>1, <1>2 DEF Timely
<1> QED BY <1>3, <1>4, <1>5 DEF PoolInv

LEMMA ScriptTypedInit == ScriptInit => ScriptTyped
BY ScriptAssumption DEF ScriptInit, ScriptTyped, NoRun, RunRecord, Given

LEMMA ScriptTypedStep ==
    ASSUME TypeOK, ScriptTyped, [ToolsNext]_allVars
    PROVE  ScriptTyped'
<1>1. CASE UNCHANGED scriptVars
  BY <1>1 DEF scriptVars, ScriptTyped
<1>2. CASE ScriptNext
  <2>1. PICK op \in Operators, r \in RunRecord : Becomes(op, r)
    BY <1>2, ScriptBecomes
  <2> QED BY <2>1 DEF Becomes, ScriptTyped
<1> QED BY <1>1, <1>2 DEF ToolsNext, allVars

\* Whatever the script and the tools do, in any order and cut off anywhere, the
\* committee sees transactions that anybody could have sent: they implement
\* Committee, and what is proved of it holds behind them.
THEOREM ToolsImplementCommittee == ToolsSpec => Spec
<1>1. ToolsInit => Init /\ TypeOK /\ ScriptTyped /\ PoolInv
  BY InitType, ScriptTypedInit, PoolInit DEF ToolsInit
<1>2. TypeOK /\ ScriptTyped /\ PoolInv /\ [ToolsNext]_allVars
      => [Next]_vars /\ TypeOK' /\ ScriptTyped' /\ PoolInv'
  <2> SUFFICES ASSUME TypeOK, ScriptTyped, PoolInv, [ToolsNext]_allVars
               PROVE  [Next]_vars /\ TypeOK' /\ ScriptTyped' /\ PoolInv'
    OBVIOUS
  <2>1. [Next]_vars
    BY StepTransacts DEF PoolInv
  <2> QED BY <2>1, NextType, ScriptTypedStep, PoolStep
<1> QED BY <1>1, <1>2, PTL DEF ToolsSpec, Spec

-----------------------------------------------------------------------------
(* What was voted and proposed stays *)

\* Behind the tools no vote is ever counted by a batch, so that a vote cast stays.
VoteCast ==
    \/ votes' = votes
    \/ \E id \in Ids, a \in Accounts, v \in {1, -1} :
          votes[id][a] = 0 /\ votes' = [votes EXCEPT ![id][a] = v]

LEMMA VotingCasts ==
    ASSUME NEW id \in Ids, NEW a \in Accounts, Support(id, a) \/ Reject(id, a)
    PROVE  VoteCast
BY DEF Support, Reject, CastVote, NotVoted, VoteCast

LEMMA StepCasts ==
    ASSUME TypeOK, ScriptTyped, PoolInv, [ToolsNext]_allVars
    PROVE  VoteCast
<1>1. CASE UNCHANGED vars
  BY <1>1 DEF vars, govVars, VoteCast
<1>2. CASE ScriptNext
  <2>1. PICK op \in Operators, r \in RunRecord : Becomes(op, r)
    BY <1>2, ScriptBecomes
  <2>2. PICK q : q = run[op]
    OBVIOUS
  <2>3. op \in Accounts
    BY ScriptAssumption
  <2>4. UNCHANGED vars \/ Transacts(op, q, r)
    BY <2>1, <2>2 DEF Becomes, Moves, Prepares, Reads, Reports
  <2>5. CASE PrepareContractUpgrade(op, Proxy, Prepared(q))
    BY <2>5 DEF PrepareContractUpgrade, CreateOrdinary, Create, VoteCast
  <2>6. CASE UpgradeToAndCall(Proxy, <<q.impl, Calldata>>)
    BY <2>6 DEF UpgradeToAndCall, Execute, VoteCast
  <2>7. CASE q.id \in Ids /\ (Support(q.id, op) \/ Reject(q.id, op))
    BY <2>3, <2>7, VotingCasts
  <2> QED BY <1>1, <2>4, <2>5, <2>6, <2>7 DEF Transacts
<1>3. CASE VoteNext
  <2>1. PICK v \in ToolUsers, s \in Sources :
           \E w : VoteBecomes(v, s, w) /\ VoteMoves(v, s, VoteIn(v, s), w)
    BY <1>3, VoteKinds DEF PoolInv
  <2>2. UNCHANGED vars \/ \E t \in pool : Support(t.id, v) \/ Reject(t.id, v)
    BY <2>1, Zenon DEF VoteMoves, Waits, Sends, Mines
  <2>3. v \in Accounts /\ \A t \in pool : t.id \in Ids
    BY VoteAssumption DEF PoolInv, VotesTyped, PoolTx
  <2> QED BY <1>1, <2>2, <2>3, VotingCasts
<1>4. CASE Others
  BY <1>4 DEF Others, Tick, SettleProposal, Propose, CreateOrdinary, Create,
              CancelContractUpgrade, govVars, VoteCast
<1>5. CASE UNCHANGED allVars
  BY <1>1, <1>5 DEF allVars
<1> QED BY <1>2, <1>3, <1>4, <1>5 DEF ToolsNext

LEMMA CastStays ==
    ASSUME TypeOK, SeatsOnce, BookInv, [Next]_vars, VoteCast,
           NEW a \in Accounts, NEW vote, vote.id \in Ids, vote.choice \in {1, -1}, Cast(a, vote)
    PROVE  Cast(a, vote)'
<1>1. votes[vote.id][a] = vote.choice /\ proposals[vote.id].params = vote.params
  BY DEF Cast
<1>2. Created(vote.id) /\ Fresh
  BY <1>1 DEF BookInv, Fresh
<1>3. proposals'[vote.id].params = vote.params
  BY <1>1, <1>2, ParamsKept
<1>4. votes'[vote.id][a] = vote.choice
  <2>1. votes \in [Ids -> [Accounts -> {0, 1, -1, 2}]]
    BY DEF TypeOK
  <2>2. ASSUME NEW id \in Ids, NEW b \in Accounts, NEW v \in {1, -1},
               votes[id][b] = 0, votes' = [votes EXCEPT ![id][b] = v]
        PROVE  votes'[vote.id][a] = votes[vote.id][a]
    <3>1. ~ (id = vote.id /\ b = a)
      BY <1>1, <2>2
    <3> QED BY <2>1, <2>2, <3>1
  <2> QED BY <1>1, <2>2 DEF VoteCast
<1> QED BY <1>3, <1>4 DEF Cast

Names(id, r) == /\ id \in Ids /\ Created(id)
                /\ proposals[id].params = Upgrade(Proxy, Prepared(r))

LEMMA NamesStay ==
    ASSUME TypeOK, SeatsOnce, BookInv, [Next]_vars, NEW id, NEW r, Names(id, r)
    PROVE  Names(id, r)'
<1>1. id \in Ids /\ Created(id) /\ Fresh
  BY DEF Names, BookInv
<1>2. proposals'[id].params = proposals[id].params
  BY <1>1, ParamsKept
<1>3. Created(id)'
  BY <1>1, EachFate DEF Fate
<1> QED BY <1>1, <1>2, <1>3 DEF Names

\* The vote that a run was told to cast.
VoteOf(r) == [id |-> r.id, params |-> UpgradeParams(r),
              choice |-> IF r.action = "support" THEN 1 ELSE -1]

\* What a run has done by its summary.
Truthful(op, r) ==
    /\ r.action = "prepare" /\ r.pc = "write" => Names(r.receipt, r)
    /\ r.action = "prepare" /\ r.pc = "done" => Names(r.id, r)
    /\ Voting(r) /\ r.pc \in {"write", "done"} => r.id \in Ids /\ Cast(op, VoteOf(r))
    /\ Voting(r) /\ r.pc = "write" => r.receipt = 0

VotesTrue == \A v \in ToolUsers, s \in Sources :
                VoteIn(v, s).stage = "voted" => Cast(v, VoteIn(v, s).tx)
RunsTrue == \A op \in Operators : Truthful(op, run[op])

LEMMA CastNow ==
    ASSUME TypeOK, NEW id \in Ids, NEW a \in Accounts, NEW choice \in {1, -1},
           IF choice = 1 THEN Support(id, a) ELSE Reject(id, a)
    PROVE  votes'[id][a] = choice /\ votes[id][a] = 0
<1>1. votes[id][a] = 0 /\ votes' = [votes EXCEPT ![id][a] = choice]
  BY DEF Support, Reject, CastVote, NotVoted
<1> QED BY <1>1 DEF TypeOK

LEMMA TruthfulStays ==
    ASSUME TypeOK, SeatsOnce, BookInv, [Next]_vars, VoteCast,
           NEW op \in Operators, NEW r \in RunRecord, Truthful(op, r)
    PROVE  Truthful(op, r)'
<1>1. ASSUME NEW id, Names(id, r) PROVE Names(id, r)'
  BY <1>1, NamesStay
<1>2. ASSUME r.id \in Ids, Cast(op, VoteOf(r)) PROVE Cast(op, VoteOf(r))'
  <2>1. PICK vote : vote = VoteOf(r)
    OBVIOUS
  <2>2. op \in Accounts /\ vote.id \in Ids /\ vote.choice \in {1, -1} /\ Cast(op, vote)
    BY <1>2, <2>1, ScriptAssumption DEF VoteOf
  <2>3. Cast(op, vote)'
    BY <2>2, CastStays
  <2> QED BY <2>1, <2>3
<1> QED BY <1>1, <1>2 DEF Truthful

LEMMA TruthfulNow ==
    ASSUME TypeOK, ScriptTyped, SeatsOnce, BookInv, [Next]_vars, VoteCast,
           NEW op \in Operators, NEW q \in RunRecord, Given(q), Truthful(op, q),
           NEW r \in RunRecord, Moves(op, q, r)
    PROVE  Truthful(op, r)'
<1>1. op \in Accounts
  BY ScriptAssumption
<1>2. CASE Prepares(op, q, r)
  BY <1>2 DEF Prepares, Truthful, Calling, Voting
<1>3. CASE q.action = "prepare" /\ Transacts(op, q, r)
  <2>1. /\ PrepareContractUpgrade(op, Proxy, Prepared(q)) /\ curProposalId \in Ids
        /\ r = [q EXCEPT !.pc = "write", !.receipt = curProposalId]
    BY <1>3 DEF Transacts, Voting
  <2>2. /\ r.action = "prepare" /\ r.pc = "write" /\ r.receipt = curProposalId
        /\ r.impl = q.impl /\ r.mode = q.mode
    BY <1>3, <2>1 DEF RunRecord
  <2>3. /\ proposals'[curProposalId].params = Upgrade(Proxy, Prepared(q))
        /\ proposals'[curProposalId].state = "InProgress"
    BY <2>1 DEF PrepareContractUpgrade, CreateOrdinary, Create, TypeOK
  <2>4. Prepared(r) = Prepared(q)
    BY <2>2 DEF Prepared
  <2>5. Names(r.receipt, r)'
    BY <2>1, <2>2, <2>3, <2>4 DEF Names, Created, State, Prepared
  <2> QED BY <2>2, <2>5 DEF Truthful, Voting
<1>4. CASE Voting(q) /\ Transacts(op, q, r)
  <2>1. /\ q.id \in Ids /\ Matches(q.id, UpgradeParams(q)) /\ Voting(q)
        /\ IF q.action = "support" THEN Support(q.id, op) ELSE Reject(q.id, op)
        /\ r = [q EXCEPT !.pc = "write", !.receipt = 0]
    BY <1>4 DEF Transacts, Voting
  <2>2. /\ r.action = q.action /\ r.pc = "write" /\ r.receipt = 0
        /\ r.impl = q.impl /\ r.id = q.id
    BY <2>1 DEF RunRecord
  <2>3. PICK choice \in {1, -1} : choice = IF q.action = "support" THEN 1 ELSE -1
    BY Zenon
  <2>4. votes'[q.id][op] = choice /\ votes[q.id][op] = 0
    <3>1. IF choice = 1 THEN Support(q.id, op) ELSE Reject(q.id, op)
      BY <2>1, <2>3
    <3> QED BY <1>1, <2>1, <3>1, CastNow
  <2>5. proposals'[q.id].params = proposals[q.id].params
    <3>1. Created(q.id) /\ Fresh
      BY <2>1, <2>4 DEF Support, Reject, CastVote, VotingOpen, Created, BookInv
    <3> QED BY <2>1, <3>1, ParamsKept
  <2>6. Cast(op, VoteOf(r))'
    BY <2>1, <2>2, <2>3, <2>4, <2>5 DEF Cast, VoteOf, UpgradeParams, Matches
  <2> QED BY <2>1, <2>2, <2>6 DEF Truthful, Voting
<1>5. CASE q.action = "execute" /\ Transacts(op, q, r)
  <2>1. r = [q EXCEPT !.pc = "readback", !.receipt = 0]
    BY <1>5 DEF Transacts, Voting
  <2>2. r.action = "execute"
    BY <1>5, <2>1 DEF RunRecord
  <2> QED BY <2>2 DEF Truthful, Voting
<1>6. CASE Reads(op, q, r)
  <2>1. r.action = q.action /\ q.action = "execute"
    BY <1>6 DEF Reads, Given, RunRecord
  <2> QED BY <2>1 DEF Truthful, Voting
<1>7. CASE Reports(op, q, r)
  <2>1. q.pc = "write" /\ r = [q EXCEPT !.pc = "done", !.id = ReportedId(q)]
    BY <1>7 DEF Reports
  <2>2. /\ r.action = q.action /\ r.pc = "done" /\ r.impl = q.impl /\ r.mode = q.mode
        /\ r.id = ReportedId(q)
    BY <2>1 DEF RunRecord
  <2>3. Truthful(op, q)'
    BY TruthfulStays
  <2>4. CASE q.action = "prepare"
    <3>1. Names(q.receipt, q)' /\ r.id = q.receipt
      BY <2>1, <2>2, <2>3, <2>4 DEF Truthful, Names, ReportedId, Ids
    <3>2. Names(r.id, r)'
      BY <2>2, <3>1 DEF Names, Prepared
    <3> QED BY <2>2, <2>4, <3>2 DEF Truthful, Voting
  <2>5. CASE Voting(q)
    <3>1. q.id \in Ids /\ Cast(op, VoteOf(q))' /\ r.id = q.id
      BY <2>1, <2>2, <2>3, <2>5 DEF Truthful, ReportedId
    <3>2. VoteOf(r) = VoteOf(q)
      BY <2>2, <3>1 DEF VoteOf, UpgradeParams
    <3> QED BY <2>2, <2>5, <3>1, <3>2 DEF Truthful, Voting
  <2> QED BY <2>2, <2>4, <2>5 DEF Truthful, Voting
<1> QED BY <1>2, <1>3, <1>4, <1>5, <1>6, <1>7 DEF Moves, Transacts

LEMMA RunsStep ==
    ASSUME TypeOK, ScriptTyped, SeatsOnce, BookInv, RunsTrue, VoteCast, [Next]_vars,
           [ToolsNext]_allVars
    PROVE  RunsTrue'
<1>1. \A op \in Operators : Truthful(op, run[op])
  BY DEF RunsTrue
<1>2. ASSUME NEW op \in Operators, run'[op] = run[op] PROVE Truthful(op, run[op])'
  <2>1. PICK q \in RunRecord : q = run[op]
    BY DEF ScriptTyped
  <2>2. Truthful(op, q)'
    BY <1>1, <2>1, TruthfulStays
  <2> QED BY <1>2, <2>1, <2>2
<1>3. CASE UNCHANGED scriptVars
  BY <1>2, <1>3 DEF scriptVars, RunsTrue
<1>4. CASE ScriptNext
  <2>1. PICK op \in Operators, r \in RunRecord : Becomes(op, r)
    BY <1>4, ScriptBecomes
  <2>2. PICK q \in RunRecord : q = run[op] /\ Given(q)
    BY DEF ScriptTyped
  <2>3. Moves(op, q, r) /\ run' = [run EXCEPT ![op] = r] /\ Truthful(op, q)
    BY <1>1, <2>1, <2>2 DEF Becomes
  <2>4. Truthful(op, r)'
    BY <2>2, <2>3, TruthfulNow
  <2>5. run'[op] = r /\ \A o \in Operators : o # op => run'[o] = run[o]
    BY <2>3 DEF ScriptTyped
  <2>6. ASSUME NEW o \in Operators PROVE Truthful(o, run[o])'
    BY <1>2, <2>4, <2>5
  <2> QED BY <2>6 DEF RunsTrue
<1> QED BY <1>3, <1>4 DEF ToolsNext, allVars

LEMMA VotesStep ==
    ASSUME TypeOK, PoolInv, SeatsOnce, BookInv, VotesTrue, VoteCast, [Next]_vars,
           [ToolsNext]_allVars
    PROVE  VotesTrue'
<1>1. ASSUME NEW v \in ToolUsers, NEW s \in Sources, VoteIn(v, s)' = VoteIn(v, s),
             VoteIn(v, s).stage = "voted"
      PROVE  Cast(v, VoteIn(v, s).tx)'
  <2>1. PICK tx \in VoteTx : tx = VoteIn(v, s).tx /\ tx.id \in Ids
    BY <1>1, VoteInType DEF PoolInv, Named
  <2>2. v \in Accounts /\ tx.choice \in {1, -1} /\ Cast(v, tx)
    BY <1>1, <2>1, VoteAssumption DEF VotesTrue, VoteTx
  <2>3. Cast(v, tx)'
    BY <2>1, <2>2, CastStays
  <2> QED BY <1>1, <2>1, <2>3
<1>2. CASE UNCHANGED voteVars
  <2>1. \A v \in ToolUsers, s \in Sources : VoteIn(v, s)' = VoteIn(v, s)
    BY <1>2 DEF voteVars, VoteIn
  <2> QED BY <1>1, <2>1 DEF VotesTrue
<1>3. CASE VoteNext
  <2>1. PICK v \in ToolUsers, s \in Sources :
           \E w : VoteBecomes(v, s, w) /\ VoteMoves(v, s, VoteIn(v, s), w)
    BY <1>3, VoteKinds DEF PoolInv
  <2>2. PICK w : VoteBecomes(v, s, w) /\ VoteMoves(v, s, VoteIn(v, s), w)
    BY <2>1
  <2>3. VoteIn(v, s)' = w /\ \A u \in ToolUsers, x \in Sources :
                                u # v \/ x # s => VoteIn(u, x)' = VoteIn(u, x)
    BY <2>2 DEF VoteBecomes
  <2>4. ASSUME w.stage = "voted" PROVE Cast(v, w.tx)'
    <3>1. PICK o : o = VoteIn(v, s)
      OBVIOUS
    <3>2. Mines(v, s, o, w)
      BY <2>2, <2>4, <3>1 DEF VoteMoves, Waits, Sends
    <3>3. PICK t \in pool : /\ t.from = v /\ t.source = s /\ w.tx = o.tx
                            /\ Matches(t.id, t.params)
                            /\ IF t.choice = 1 THEN Support(t.id, v) ELSE Reject(t.id, v)
      BY <2>4, <3>2 DEF Mines
    <3>4. t.id = w.tx.id /\ t.choice = w.tx.choice /\ t.params = w.tx.params
      BY <3>1, <3>3 DEF PoolInv, Pooled, PoolTxOf
    <3>5. v \in Accounts /\ t.id \in Ids /\ t.choice \in {1, -1}
      BY VoteAssumption DEF PoolInv, VotesTyped, PoolTx
    <3>6. votes'[t.id][v] = t.choice
      BY <3>3, <3>5, CastNow
    <3>7. Created(t.id) /\ Fresh
      BY <3>3 DEF Support, Reject, CastVote, VotingOpen, Created, BookInv
    <3>8. proposals'[t.id].params = t.params
      BY <3>3, <3>5, <3>7, ParamsKept DEF Matches
    <3> QED BY <3>4, <3>6, <3>8 DEF Cast
  <2>5. ASSUME NEW u \in ToolUsers, NEW x \in Sources, VoteIn(u, x)'.stage = "voted"
        PROVE  Cast(u, VoteIn(u, x).tx)'
    <3>1. CASE u = v /\ x = s
      <4>1. VoteIn(u, x)' = w
        BY <2>3, <3>1
      <4>2. Cast(v, w.tx)'
        BY <2>4, <2>5, <4>1
      <4> QED BY <3>1, <4>1, <4>2 DEF Cast
    <3>2. CASE u # v \/ x # s
      <4>1. VoteIn(u, x)' = VoteIn(u, x)
        BY <2>3, <3>2
      <4> QED BY <1>1, <2>5, <4>1
    <3> QED BY <3>1, <3>2
  <2> QED BY <2>5 DEF VotesTrue
<1> QED BY <1>2, <1>3 DEF ToolsNext, allVars

\* What is known behind the tools.
ToolsInv == /\ TypeOK /\ SeatsOnce /\ BookInv
            /\ ScriptTyped /\ PoolInv /\ RunsTrue /\ VotesTrue

LEMMA TruthInit == ToolsInit => RunsTrue /\ VotesTrue
BY DEF ToolsInit, ScriptInit, VoteInit, RunsTrue, VotesTrue, Truthful, NoRun, NoVote,
       VoteIn, Sources, Voting

LEMMA ToolsInvariant == ToolsSpec => []ToolsInv
<1>1. ToolsInit => ScriptTyped /\ PoolInv /\ RunsTrue /\ VotesTrue
  BY ScriptTypedInit, PoolInit, TruthInit DEF ToolsInit
<1>2. /\ TypeOK /\ SeatsOnce /\ BookInv
      /\ ScriptTyped /\ PoolInv /\ RunsTrue /\ VotesTrue /\ [ToolsNext]_allVars
      => ScriptTyped' /\ PoolInv' /\ RunsTrue' /\ VotesTrue'
  <2> SUFFICES ASSUME TypeOK, SeatsOnce, BookInv, ScriptTyped, PoolInv, RunsTrue, VotesTrue,
                      [ToolsNext]_allVars
               PROVE  ScriptTyped' /\ PoolInv' /\ RunsTrue' /\ VotesTrue'
    OBVIOUS
  <2>1. [Next]_vars
    BY StepTransacts DEF PoolInv
  <2>2. VoteCast
    BY StepCasts
  <2> QED BY <2>1, <2>2, ScriptTypedStep, PoolStep, RunsStep, VotesStep
<1>3. TypeOK /\ SeatsInv /\ BookInv => SeatsOnce
  BY DEF SeatsInv
<1>4. ToolsSpec => [](TypeOK /\ SeatsInv /\ BookInv)
  BY ToolsImplementCommittee, NewIsEither, BookInvariant, PTL
<1> QED BY <1>1, <1>2, <1>3, <1>4, PTL DEF ToolsSpec, ToolsInv

\* The summary of a prepare, which the other members vote by, names the proposal
\* for the implementation it names, whoever else creates proposals before, between
\* and after (extractProposalId reads the receipt).
THEOREM SummariesTrue == ToolsSpec => []SummaryNamesItsProposal
<1>1. ToolsInv => SummaryNamesItsProposal
  BY DEF ToolsInv, RunsTrue, Truthful, SummaryNamesItsProposal, Finished, Names
<1> QED BY <1>1, ToolsInvariant, PTL

\* A vote that a tool or the script reports as cast is recorded, for the parameters
\* that were shown or named and with the side that was chosen, and stays so: whatever
\* the backend answered, and however long the transaction waited.
THEOREM VotesAsShown == ToolsSpec => []VotedAsShown
<1>1. ToolsInv => VotedAsShown
  <2> SUFFICES ASSUME ToolsInv PROVE VotedAsShown
    OBVIOUS
  <2>1. ASSUME NEW v \in ToolUsers
        PROVE  /\ session[v].stage = "voted" => Cast(v, session[v].tx)
               /\ \A k \in Bundles : bundle[v][k].stage = "voted" => Cast(v, bundle[v][k].tx)
    <3>1. "online" \in Sources /\ VoteIn(v, "online") = session[v]
      BY DEF Sources, VoteIn
    <3>2. \A k \in Bundles : k \in Sources /\ VoteIn(v, k) = bundle[v][k]
      BY VoteAssumption DEF Sources, VoteIn
    <3> QED BY <3>1, <3>2 DEF ToolsInv, VotesTrue
  <2>2. ASSUME NEW op \in Operators, NEW action \in {"support", "reject"},
               Finished(run[op], action)
        PROVE  Cast(op, [id |-> run[op].id, params |-> UpgradeParams(run[op]),
                         choice |-> IF action = "support" THEN 1 ELSE -1])
    <3>1. Cast(op, VoteOf(run[op])) /\ run[op].action = action
      BY <2>2 DEF ToolsInv, RunsTrue, Truthful, Finished, Voting
    <3> QED BY <3>1 DEF VoteOf
  <2> QED BY <2>1, <2>2 DEF VotedAsShown
<1> QED BY <1>1, ToolsInvariant, PTL

\* The network refuses a signed vote only if its voter has sent another transaction
\* since it was prepared: those under way then do not count (getTransactionCount of
\* the pending block).
THEOREM RefusalsDeserved == ToolsSpec => []RefusedOnlyIfOvertaken
<1>1. ToolsInv => RefusedOnlyIfOvertaken
  <2> SUFFICES ASSUME ToolsInv, NEW v \in ToolUsers, NEW k \in Bundles,
                      bundle[v][k].stage = "refused"
               PROVE  PendingNonce(v) > bundle[v][k].tx.overtaken
    BY DEF RefusedOnlyIfOvertaken
  <2>1. k \in Sources /\ VoteIn(v, k) = bundle[v][k] /\ VotesTyped
    BY VoteAssumption DEF Sources, VoteIn, ToolsInv, PoolInv
  <2>2. VoteIn(v, k).tx.overtaken < PendingNonce(v)
    BY <2>1 DEF ToolsInv, PoolInv, Timely
  <2>3. VoteIn(v, k).tx.overtaken \in Nat /\ PendingNonce(v) \in Nat
    BY <2>1, VoteInType, PendingType
  <2> QED BY <2>1, <2>2, <2>3
<1> QED BY <1>1, ToolsInvariant, PTL

-----------------------------------------------------------------------------
(* Executions and their reports *)

Executing(r, n) == r.action = "execute" /\ r.impl = n /\ r.pc \in {"readback", "write"}

\* The runs that have executed the upgrade to n and not yet reported it.
Reporters(n) == {op \in Operators : Executing(run[op], n)}

ExecutedUpgrades(n) == {id \in UpgradesOf(n) : State(id) = "Executed"}

Accounted(n) == reported[n] + Cardinality(Reporters(n)) <= Cardinality(ExecutedUpgrades(n))

LEMMA ReportersFinite ==
    ASSUME NEW n PROVE IsFiniteSet(Reporters(n)) /\ Cardinality(Reporters(n)) \in Nat
<1>1. IsFiniteSet(Operators)
  BY ScriptAssumption, TokenAssumption, FS_Subset
<1> QED BY <1>1, FS_Subset, FS_CardinalityType DEF Reporters

LEMMA ExecutedGrow ==
    ASSUME TypeOK, SeatsOnce, BookInv, [Next]_vars, NEW n
    PROVE  /\ ExecutedUpgrades(n) \subseteq ExecutedUpgrades(n)'
           /\ IsFiniteSet(ExecutedUpgrades(n)) /\ IsFiniteSet(ExecutedUpgrades(n)')
           /\ Cardinality(ExecutedUpgrades(n)) \in Nat
           /\ Cardinality(ExecutedUpgrades(n)') \in Nat
           /\ Cardinality(ExecutedUpgrades(n)) <= Cardinality(ExecutedUpgrades(n)')
<1>1. ASSUME NEW id \in ExecutedUpgrades(n) PROVE id \in ExecutedUpgrades(n)'
  <2>1. /\ id \in Ids /\ Created(id) /\ Decided(id) /\ State(id) = "Executed" /\ Fresh
        /\ proposals[id].params = Upgrade(Proxy, <<n, Calldata>>)
    BY DEF ExecutedUpgrades, UpgradesOf, Created, Decided, BookInv
  <2>2. State(id)' = "Executed"
    BY <2>1, DecidedStays DEF Final
  <2>3. proposals'[id].params = proposals[id].params
    BY <2>1, ParamsKept
  <2> QED BY <2>1, <2>2, <2>3 DEF ExecutedUpgrades, UpgradesOf
<1>2. IsFiniteSet(Ids)
  BY BoundsAssumption, FS_Interval DEF Ids
<1>3. IsFiniteSet(ExecutedUpgrades(n)) /\ IsFiniteSet(ExecutedUpgrades(n)')
  BY <1>2, FS_Subset DEF ExecutedUpgrades, UpgradesOf
<1> QED BY <1>1, <1>3, FS_Subset, FS_CardinalityType

\* An execution uses a proposal that was not executed before.
LEMMA ExecutionNew ==
    ASSUME TypeOK, SeatsOnce, BookInv, [Next]_vars, NEW n \in 1 .. MaxDeployed,
           UpgradeToAndCall(Proxy, <<n, Calldata>>)
    PROVE  Cardinality(ExecutedUpgrades(n)) + 1 <= Cardinality(ExecutedUpgrades(n)')
<1>1. PICK id : id = upgradeSlot[Proxy]
  OBVIOUS
<1>2. /\ id # 0 /\ TakeAccept(id, Upgrade(Proxy, <<n, Calldata>>))
      /\ proposals' = [proposals EXCEPT ![id] = Executed(id)]
  BY <1>1 DEF UpgradeToAndCall, Execute
<1>3. id \in Ids
  BY <1>1, <1>2, ScriptAssumption, CommitteeAssumption DEF TypeOK
<1>4. proposals[id].params = Upgrade(Proxy, <<n, Calldata>>) /\ Settled(id).state = "Accepted"
  BY <1>2 DEF TakeAccept, Matches
<1>5. State(id) # "Executed"
  BY <1>4 DEF Settled, State
<1>6. Created(id) /\ Fresh
  BY <1>3, <1>4 DEF Settled, State, Created, BookInv
<1>7. State(id)' = "Executed"
  <2>1. Executed(id).state = "Executed"
    BY <1>3, SettledFields DEF BookInv
  <2> QED BY <1>2, <1>3, <2>1 DEF State, TypeOK
<1>8. proposals'[id].params = proposals[id].params
  BY <1>3, <1>6, ParamsKept
<1>9. id \notin ExecutedUpgrades(n) /\ id \in ExecutedUpgrades(n)'
  BY <1>3, <1>4, <1>5, <1>7, <1>8 DEF ExecutedUpgrades, UpgradesOf
<1>10. PICK S, T : S = ExecutedUpgrades(n) /\ T = ExecutedUpgrades(n)'
  OBVIOUS
<1>11. IsFiniteSet(S) /\ IsFiniteSet(T) /\ S \subseteq T /\ id \in T /\ id \notin S
  BY <1>9, <1>10, ExecutedGrow
<1>12. Cardinality(S \cup {id}) = Cardinality(S) + 1 /\ IsFiniteSet(S \cup {id})
  BY <1>11, FS_AddElement
<1>13. Cardinality(S \cup {id}) <= Cardinality(T)
  BY <1>11, <1>12, FS_Subset
<1> QED BY <1>10, <1>12, <1>13

\* What becomes of the runs to report when the run of op becomes r.
LEMMA ReportersMove ==
    ASSUME ScriptTyped, NEW op \in Operators, NEW r, run' = [run EXCEPT ![op] = r],
           NEW n
    PROVE  Reporters(n)' = (Reporters(n) \ {op}) \cup (IF Executing(r, n) THEN {op} ELSE {})
<1>1. run'[op] = r /\ \A o \in Operators : o # op => run'[o] = run[o]
  BY DEF ScriptTyped
<1> QED BY <1>1 DEF Reporters

LEMMA AccountedStep ==
    ASSUME TypeOK, ScriptTyped, SeatsOnce, BookInv, [Next]_vars, NEW n \in 1 .. MaxDeployed,
           Accounted(n), ScriptNext
    PROVE  Accounted(n)'
<1>1. PICK op \in Operators, r \in RunRecord : Becomes(op, r)
  BY ScriptBecomes
<1>2. PICK q \in RunRecord : q = run[op]
  BY DEF ScriptTyped
<1>3. run' = [run EXCEPT ![op] = r] /\ Moves(op, q, r) /\ reported \in [1 .. MaxDeployed -> Nat]
  BY <1>1, <1>2 DEF Becomes, ScriptTyped
<1>4. PICK R : R = Reporters(n)
  OBVIOUS
<1>5. Reporters(n)' = (R \ {op}) \cup (IF Executing(r, n) THEN {op} ELSE {})
  BY <1>3, <1>4, ReportersMove
<1>6. op \in R <=> Executing(q, n)
  BY <1>2, <1>4 DEF Reporters
<1>7. IsFiniteSet(R) /\ Cardinality(R) \in Nat
  BY <1>4, ReportersFinite
<1>8. PICK k, c, d, e \in Nat : /\ k = reported[n] /\ c = Cardinality(R)
                                /\ d = Cardinality(ExecutedUpgrades(n))
                                /\ e = Cardinality(ExecutedUpgrades(n)')
                                /\ d <= e /\ k + c <= d
  BY <1>3, <1>4, <1>7, ExecutedGrow DEF Accounted
<1>9. ASSUME reported'[n] = reported[n], Executing(r, n) => Executing(q, n) PROVE Accounted(n)'
  <2>1. Reporters(n)' \subseteq R
    BY <1>5, <1>6, <1>9
  <2>2. PICK b \in Nat : b = Cardinality(Reporters(n)') /\ b <= c
    BY <1>7, <1>8, <2>1, FS_Subset, FS_CardinalityType
  <2> QED BY <1>8, <1>9, <2>2 DEF Accounted
<1>10. CASE Prepares(op, q, r)
  <2>1. ~ Executing(r, n)
    BY <1>10 DEF Prepares, Executing, Calling
  <2>2. reported' = reported
    BY <1>10 DEF Prepares
  <2> QED BY <1>9, <2>1, <2>2
<1>11. CASE Reads(op, q, r)
  <2>1. q.pc = "readback" /\ r = [q EXCEPT !.pc = "write"] /\ reported' = reported
    BY <1>11 DEF Reads
  <2>2. Executing(r, n) => Executing(q, n)
    BY <2>1 DEF Executing, RunRecord
  <2> QED BY <1>9, <2>1, <2>2
<1>12. CASE Transacts(op, q, r) /\ q.action # "execute"
  <2>1. r.action = q.action /\ reported' = reported
    BY <1>12 DEF Transacts, RunRecord
  <2> QED BY <1>9, <1>12, <2>1 DEF Executing
<1>13. CASE Transacts(op, q, r) /\ q.action = "execute"
  <2>1. /\ q.pc = "call" /\ r = [q EXCEPT !.pc = "readback", !.receipt = 0]
        /\ reported' = reported /\ UpgradeToAndCall(Proxy, <<q.impl, Calldata>>)
    BY <1>13 DEF Transacts, Voting
  <2>2. r.impl = q.impl /\ ~ Executing(q, n)
    BY <2>1 DEF Executing, RunRecord
  <2>3. CASE q.impl # n
    BY <1>9, <2>1, <2>2, <2>3 DEF Executing
  <2>4. CASE q.impl = n
    <3>1. d + 1 <= e
      BY <1>8, <2>1, <2>4, ExecutionNew
    <3>2. Reporters(n)' \subseteq R \cup {op} /\ op \notin R
      BY <1>5, <1>6, <2>2
    <3>3. IsFiniteSet(R \cup {op}) /\ Cardinality(R \cup {op}) = c + 1
      BY <1>7, <1>8, <3>2, FS_AddElement
    <3>4. PICK b \in Nat : b = Cardinality(Reporters(n)') /\ b <= c + 1
      BY <3>2, <3>3, FS_Subset, FS_CardinalityType
    <3> QED BY <1>8, <2>1, <3>1, <3>4 DEF Accounted
  <2> QED BY <2>3, <2>4
<1>14. CASE Reports(op, q, r)
  <2>1. /\ q.pc = "write" /\ r = [q EXCEPT !.pc = "done", !.id = ReportedId(q)]
        /\ reported' = IF q.action = "execute" THEN [reported EXCEPT ![q.impl] = @ + 1]
                                               ELSE reported
    BY <1>14 DEF Reports
  <2>2. ~ Executing(r, n)
    BY <2>1 DEF Executing, RunRecord
  <2>3. CASE ~ (q.action = "execute" /\ q.impl = n)
    BY <1>3, <1>9, <2>1, <2>2, <2>3
  <2>4. CASE q.action = "execute" /\ q.impl = n
    <3>1. reported'[n] = k + 1
      BY <1>3, <1>8, <2>1, <2>4
    <3>2. op \in R /\ Reporters(n)' = R \ {op}
      BY <1>5, <1>6, <2>1, <2>2, <2>4 DEF Executing
    <3>3. Cardinality(R \ {op}) = c - 1
      BY <1>7, <1>8, <3>2, FS_RemoveElement
    <3>4. Cardinality(Reporters(n)') = c - 1
      BY <3>2, <3>3
    <3>5. (k + 1) + (c - 1) <= e
      BY <1>8
    <3> QED BY <1>8, <3>1, <3>4, <3>5 DEF Accounted
  <2> QED BY <2>3, <2>4
<1> QED BY <1>3, <1>10, <1>11, <1>12, <1>13, <1>14 DEF Moves

LEMMA AccountedKept ==
    ASSUME TypeOK, ScriptTyped, SeatsOnce, BookInv, [Next]_vars, NEW n \in 1 .. MaxDeployed,
           Accounted(n), UNCHANGED scriptVars
    PROVE  Accounted(n)'
<1>1. PICK k, c, d, e \in Nat : /\ k = reported[n] /\ c = Cardinality(Reporters(n))
                                /\ d = Cardinality(ExecutedUpgrades(n))
                                /\ e = Cardinality(ExecutedUpgrades(n)')
                                /\ d <= e /\ k + c <= d
  BY ExecutedGrow, ReportersFinite DEF Accounted, ScriptTyped
<1>2. Reporters(n)' = Reporters(n) /\ reported'[n] = k
  BY <1>1 DEF scriptVars, Reporters
<1> QED BY <1>1, <1>2 DEF Accounted

\* Of the runs that end with a summary, not more report the execution of an
\* implementation than proposals for it were executed: a transaction that lost the
\* race is told from one that won by its receipt.
THEOREM OneReportEach == ToolsSpec => []OneReportPerExecution
<1> DEFINE AllAccounted == \A n \in 1 .. MaxDeployed : Accounted(n)
<1>1. ToolsInit => AllAccounted
  <2> SUFFICES ASSUME ToolsInit, NEW n \in 1 .. MaxDeployed PROVE Accounted(n)
    OBVIOUS
  <2>1. Reporters(n) = {} /\ reported[n] = 0
    BY DEF ToolsInit, ScriptInit, Reporters, Executing, NoRun
  <2>2. ExecutedUpgrades(n) = {}
    BY DEF ToolsInit, Init, NoProposal, State, ExecutedUpgrades, UpgradesOf
  <2> QED BY <2>1, <2>2, FS_EmptySet DEF Accounted
<1>2. ToolsInv /\ AllAccounted /\ [ToolsNext]_allVars => AllAccounted'
  <2> SUFFICES ASSUME ToolsInv, AllAccounted, [ToolsNext]_allVars,
                      NEW n \in 1 .. MaxDeployed
               PROVE  Accounted(n)'
    OBVIOUS
  <2>1. /\ TypeOK /\ ScriptTyped /\ SeatsOnce /\ BookInv /\ PoolInv /\ Accounted(n)
        /\ [Next]_vars
    BY StepTransacts DEF ToolsInv, PoolInv
  <2>2. ScriptNext \/ UNCHANGED scriptVars
    BY DEF ToolsNext, allVars
  <2> QED BY <2>1, <2>2, AccountedStep, AccountedKept
<1>3. ToolsInv /\ AllAccounted => OneReportPerExecution
  <2> SUFFICES ASSUME ToolsInv, AllAccounted, NEW n \in 1 .. MaxDeployed
               PROVE  reported[n] <= Cardinality(ExecutedUpgrades(n))
    BY DEF OneReportPerExecution, ExecutedUpgrades
  <2>1. IsFiniteSet(Ids)
    BY BoundsAssumption, FS_Interval DEF Ids
  <2>2. PICK k, c, d \in Nat : /\ k = reported[n] /\ c = Cardinality(Reporters(n))
                               /\ d = Cardinality(ExecutedUpgrades(n))
    BY <2>1, ReportersFinite, FS_Subset, FS_CardinalityType
       DEF ToolsInv, ScriptTyped, ExecutedUpgrades, UpgradesOf
  <2> QED BY <2>2 DEF Accounted
<1> QED BY <1>1, <1>2, <1>3, ToolsInvariant, PTL DEF ToolsSpec
=============================================================================
