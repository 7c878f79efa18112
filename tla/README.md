# SourceDAO: a TLA+ verification project

SourceDAO is a DAO made of a handful of upgradeable Solidity contracts
(`src/contracts`): a committee that votes, two tokens that stand for the work
done and for the right to a dividend, a project manager that turns work into
tokens, a dividend pool, a lockup and a small investment market; and of the
programs people run it with (`src/scripts`, `src/tools`): a bootstrap and its
check, an upgrade script, voting tools, a local stack with its seed. This
directory holds TLA+ modules of both, TLC configurations that check them on
small instances, and TLAPS proofs of the properties that matter most.

1. [The system](#1-the-system)
2. [Modules and code](#2-modules-and-code)
3. [Runs](#3-runs)
4. [Where code and documents disagree](#4-where-code-and-documents-disagree)
5. [Proofs](#5-proofs)
6. [Not modelled](#6-not-modelled)
7. [Plan](#7-plan)

To repeat the checks, in this directory:

    tlc -workers 2 -config committee_membership.cfg MCCommittee
    tlapm CommitteeProofs.tla        (and SettlementProofs, SumTheorems, DividendProofs,
                                      ReleasesProofs, AcquiredProofs, BootstrapProofs,
                                      ToolsProofs)

| module | configurations |
|---|---|
| `MCCommittee` | `committee_membership`, `committee_powers`, `committee_tokens`, `ratio_rises` |
| `MCDividend` | `dividend_stakes`, `dividend_rewards` |
| `MCReleases` | `releases`, `vesting_start` |
| `MCBootstrap` | `bootstrap` |
| `MCTools` | `tools`, `vote_upgrade` |
| `MCSeed` | `seed` |

## 1. The system

A transaction of the chain is atomic: it runs to its end or reverts, and a
revert leaves nothing behind. In the contracts the hard behaviours are therefore
not data races but *histories*: what somebody else did between two transactions
that belong together, in an order nobody wrote a test for. The one exception is
a call out to a receiver of native tokens, which runs foreign code in the middle
of a transaction. The scripts are the opposite: long sequences of reads and
transactions without any atomicity, which can be killed anywhere, run twice at
once, and started again on what is left.

### Committee (`contracts/Committee.sol`)

*State.* The live member list `committees`; a history of committee snapshots,
one per version; proposals, with their parameters as a Merkle root, two ballot
lists and a state; a vote map; for token-weighted ("full") proposals a tally;
one slot per target for a pending contract upgrade; the dev ratio, the weight
of a development token in hundredths of a normal one.

*Operations.* Other contracts of the DAO ask for decisions (`propose`,
`fullPropose`) and mark them executed. Members prepare the committee's own
proposals: to add or remove a member, to replace the committee, to lower the
dev ratio, to upgrade a contract. `support` and `reject` vote.
`settleProposal`, `takeResult` and every executing function settle an ordinary
proposal, by the majority of the members recorded when it was created.
`endFullPropose` settles a full one, in batches of voters that its caller
chooses.

*Interactions.* Project asks it for decisions, reads results and marks them
executed; every proxy asks it to authorize its upgrade; it reads balances and
supplies of both tokens and, from Project, whether the final version is out.
The upgrade script and the vote tools send its transactions.

*Hard behaviours.* The committee changes while proposals are open or accepted
and not executed. Several accepted proposals are executed in any order, against
a state other than the one they were prepared for. Settlement happens inside
half a dozen functions. Balances move between two batches of one settlement.
Proposals survive an upgrade from a release that kept no snapshots.

*Correct when* results are majorities of the committee of creation, electorates
never change, decisions are final and take effect at most once, the ballot
records agree, a full settlement counts every voter once, the ratio respects
its floor and is pinned by the final release, only approved code is installed,
and every proposal comes to an end.

### DevToken, NormalToken (`contracts/DevToken.sol`, `contracts/NormalToken.sol`)

*State.* ERC-20 balances. All development tokens exist from the start; those
not issued belong to the contract itself, and `totalReleased` is the rest.
*Operations.* Project draws rewards (`mintDevToken`); a holder converts
development tokens into as many normal ones, one way (`dev2normal`); a
development token may only move to and from Project and Dividend, and to
Lockup. *Hard behaviour.* Conversions and transfers change the weight of votes
already cast. *Correct when* a conversion never gains voting weight.

### Project (`contracts/Project.sol`)

*State.* Projects by id (manager, budget, version, state Preparing, Developing,
Accepting, Finished or Rejected, proposal, contributions and claims, extra
tokens in escrow); per name the latest finished version and its time; the time
of the latest finish. *Operations.* `createProject`, `cancelProject`,
`acceptProject`, `updateContribute`, `promoteProject`, `withdrawContributions`.
*Interactions.* Two committee proposals per project; rewards drawn from
DevToken; release times read by Committee and TokenLockup. *Hard behaviours.*
Projects of one name finish in an order other than that of their versions;
finishes must be seven days apart; contributions change during the vote and
after it; all projects share one balance of each token, out of which shares are
rounded down one by one. *Correct when* the latest version is the greatest
finished, finishes are apart, and the balances always cover every unclaimed
share and every escrow.

### TokenLockup (`contracts/TokenLockup.sol`)

*State.* Assigned and claimed amounts per owner and in total, and the unlock
time, stored by the first claim. *Operations.* `transferAndLock`,
`convertAndLock`, `claimTokens`. *Interactions.* Reads a release time of
Project, converts development tokens. *Hard behaviour.* The time that starts
the vesting is the one of the latest version at the first claim. *Correct when*
the balance covers what is assigned and not claimed, and nobody claims early or
more than vested.

### Dividend (`contracts/Dividend.sol`)

*State.* Cycles (start, rewards by token, total stake), checkpoints of every
user's stake, a claim map, the running total, the accounted balance of every
reward token. *Operations.* Stake and unstake either token; deposit rewards by
call (`deposit`), by plain transfer (`receive`), or unannounced, noticed later
by `updateTokenBalance`; `tryNewCycle`; `withdrawDividends`. *Interactions.*
Transfers of both tokens; native tokens are sent to claimants, who may be
contracts. *Hard behaviours.* The total that rewards are divided by and the
records that shares are measured by are kept separately, the records are
searched backwards and compacted; cycles open late and several lengths may pass
at once; claims select cycles and tokens in any order; `receive` has no
reentrancy guard. *Correct when* every cycle's total is the sum of the shares
it is divided into, the past never changes, what is owed can be paid whatever
was claimed before, and only remainders of divisions are lost.

### Acquired (`contracts/Acquired.sol`)

*State.* Investments ("rounds"): an amount of some token on offer for normal
tokens, a whitelist with percentages for the first step, what was sold, two
deadlines. *Operations.* `startInvestment`, `invest`, `endInvestment`. *Hard
behaviours.* Two roundings in the price, limits that change at a deadline, the
end racing the last purchase, several rounds over one balance. *Correct when*
no round pays out of another's tokens, limits hold in step 1 and leave everybody
on the list what the front end shows as theirs.

### SourceDao registry, upgradeable base (`contracts/Dao.sol`, `contracts/SourceDaoUpgradeable.sol`)

The registry holds seven addresses, each set once by a bootstrap administrator
whose role can be handed over. Every contract inherits the upgradeable base,
which installs an implementation only if the committee's
`verifyContractUpgrade` answers true, in the same transaction.

### Bootstrap and its check (`scripts/usdb_bootstrap_full.ts`, `usdb_bootstrap_smoke.ts`, `usdb_validate_bootstrap.ts`)

*State.* A state file (JSON), rewritten as a whole after every module; the
slots of the registry as read at the beginning; the records of the modules done.
*Operations.* Initialize the registry and the dividend, which the chain is born
with; then, module after module: take the one already wired if it answers as
configured, or deploy, check and wire one; at the end read everything back and
mark the file completed. The smoke run does the first part and a deposit. The
check reads the registry, slot after slot, and every module, and compares them
with the configuration and the state file. *Interactions.* Transactions of the
registry and of new proxies; the file is the check's input. *Hard behaviours.*
A run is killed anywhere, also while it writes the file, and is repeated; two
runs race for a slot; another configuration than that of the first run; modules
in use while the second run looks at them; a check during a bootstrap.
*Correct when* the file and the check call nothing wired that is not, a losing
or killed run leaves at most one proxy behind, and a repeated run completes.

### Upgrade script (`scripts/upgrade_existing_sourcedao.ts`)

*State.* None but what a run holds; a summary file, written at its end.
*Operations.* One of plan, status, deploy, prepare, support, reject, execute per
run, with the implementation and the proposal given on the command line.
*Interactions.* Sends the committee's and the proxy's transactions.
*Hard behaviours.* Several operators, each with a summary of another moment;
transactions that pass their static call and are mined after somebody else's; a
run killed between its transaction and its summary. *Correct when* a summary
names the proposal it made, and an upgrade is reported executed once.

### Vote tools (`tools/vote.ts`, `vote_offline.ts`, `vote_common.ts`)

*State.* Online none; offline a file with an unsigned and then a signed
transaction, nonce included. *Operations.* Fetch the parameters of a proposal
from the web backend, show them, encode them, vote; offline in the steps
prepare, sign, broadcast, on two machines. *Hard behaviours.* The backend
answers wrongly, the id is mistyped, the vote is sent long after it was signed,
other transactions of the voter are pending. *Correct when* a vote that counts
is for what its voter was shown, and a signed vote stays usable unless its voter
sends something else.

### Local stack and its seed (`scripts/deploy_frontend_local.ts`, `seed_local_scenarios.ts`)

*State.* The stack: every contract deployed, one finished project, one lockup.
The seed: variables of one run; a manifest, written at its end. *Operations.*
One long sequence of transactions by nine roles: six projects brought to six
states, a release, a claim, four investment rounds, stakes and dividends, with
the clock moved on in between. *Interactions.* All contracts; the backend,
which is notified and may refuse. *Hard behaviours.* Killed halfway and run
again on the same stack; people using the front end of that stack at the same
time. *Correct when* it does not revert by itself, whatever an earlier run
left, and its projects, the lockup and the rounds end in the states its manifest
lists. (The manifest says more than is so: section 4.)

### The rest

`contracts/Interface.sol` and `util.sol` declare; `contracts/mocks` are test
doubles, one of which, `SourceDaoCommitteeLegacyMock.sol`, is the previous
release of the committee and defines the storage an upgrade finds.
`tools/status*.ts` read and print. `old_contracts/` is the previous generation,
not deployed. `test/` states what the contracts are expected to do.

## 2. Modules and code

In the modules of contracts one transaction is one step. A transaction that
reverts changes nothing, so every `require` is a guard; what a call does in
other contracts is part of the same action. In the modules of scripts a step is
what happens between two awaited calls that others can come between.

| module | code | what it holds |
|---|---|---|
| `Committee` | `Committee.sol`; the parts of the tokens, of Project and of the upgradeable base that it meets | state, one action per transaction, fairness |
| `CommitteeLegacy` | `mocks/SourceDaoCommitteeLegacyMock.sol` | the storage of the older release under the present code |
| `CommitteeProperties` | | type invariant, invariants, action properties, liveness; a statement of the comments |
| `CommitteeProofs` | | TLAPS proofs: types, the dev ratio, the upgrade queue |
| `SettlementProofs` | | TLAPS proofs: electorates, ballots, results and what they are used for |
| `SumTheorems` | | TLAPS proofs about sums over finite sets, for the four modules of proofs that add up |
| `Dividend` | `Dividend.sol` | state and actions |
| `CycleSnapshots` | | abstract specification of stakes |
| `DividendProperties` | | invariants, action property, the refinement mapping |
| `DividendProofs` | | TLAPS proofs |
| `Chain` | `NormalToken.sol` | clock and balances that `Project`, `TokenLockup` and `Acquired` share |
| `Project` | `Project.sol`, the pool of `DevToken.sol` | projects, decisions, payments, release times |
| `TokenLockup` | `TokenLockup.sol` | locks and claims, on top of `Project` |
| `Releases` | | the composition of the two, its properties |
| `ReleasesProofs` | | TLAPS proofs |
| `Acquired` | `Acquired.sol` | rounds, purchases, ends; what they promise |
| `AcquiredProofs` | | the contract in any surroundings (`ContractSpec`), which `SeedScript` implements; TLAPS proofs |
| `Dao` | `Dao.sol` | the registry |
| `Bootstrap` | `usdb_bootstrap_full.ts`, `usdb_bootstrap_smoke.ts` | the two scripts, their faults, use of what they deploy |
| `BootstrapCheck` | `usdb_validate_bootstrap.ts` | the check beside them, properties, fairness |
| `BootstrapProofs` | | TLAPS proofs: the state file, the check's OK, orphans, the check's refusals |
| `UpgradeScript` | `upgrade_existing_sourcedao.ts` | runs of the script on top of `Committee` |
| `VoteTools` | `vote.ts`, `vote_offline.ts`, `vote_common.ts` | online and offline votes, the network's nonces |
| `GovernanceTools` | | the composition of the two, its properties |
| `ToolsProofs` | | TLAPS proofs: the tools implement `Committee`, and report what happened |
| `SeedScript` | `seed_local_scenarios.ts`, `deploy_frontend_local.ts` | the seed over `TokenLockup` (and so `Project`), `Acquired` and `Dividend`; its properties |
| `MCCommittee`, `MCDividend`, `MCReleases`, `MCBootstrap`, `MCTools`, `MCSeed` | | values for TLC |

Definitions called `..._Fault` are the changed forms of the definition that
follows them, kept beside the code they would replace: each describes a
plausible slip that one of the properties rules out. No specification uses
them.

### Committee

- `proposals[id]` is a `Proposal` with its `proposalCommitteeVersion` in
  `.version`; `extras[id]` is its `ProposalExtra`, `.full` standing for the
  test `from != address(0)`. An id not yet used is in state `NotFound`. A full
  proposal has no version.
- Parameters are kept as tuples whose first element is the operation's tag,
  which the code puts last into the array it hashes. A Merkle check is
  equality: the tree's collision resistance is assumed, and so is that nobody
  presents parameters other than the ones of some operation.
- `Settled(id)` is `_settleProposal` seen as a function of the state, because
  eight functions call it before they go on. `EnsuredSnapshots` and
  `BoundVersion` are the lazy repair of storage from the older release
  (`_ensureCommitteeSnapshotInitialized`, `_ensureProposalCommitteeVersion`).
- `Execute(id, params)` is what every executing function starts and ends with:
  `_takeResult`, `require(Accept)`, `_setProposalExecuted`.
- `UpgradeToAndCall` is the whole transaction of a proxy: the committee's
  answer, the cleared slot, and the installation, or nothing.
  `VerifyContractUpgrade` is the direct call by a target that is an ordinary
  account, whose false answer does not revert and so keeps the side effects.
- `EndFullPropose` takes a *set* of voters: a duplicate in the list finds the
  mark 2 of the first occurrence and counts for nothing. The weights are those
  of the transaction, the released total is that of the first batch.
- Project appears as the caller of `Propose`, `FullPropose`,
  `SetProposalExecuted` and `ReleaseFinalVersion`, at any time.
- Wrapping of unsigned arithmetic is not modelled: the compiler (0.8) reverts.
  Where that is reachable it is a guard.

### Dividend

- `records[user]` is `UserStakeRecords`. `Standing` is the code's backward
  search, `Compacted` its removal of a checkpoint that repeats its neighbour.
  `claimed` is the claim map, `tokenBalances` what the contract accounts for,
  and `held` what it really holds of each token.
- `Cycle` and `Opened` are `_tryNewCycle`, called first by every operation that
  deposits or changes a stake.
- `withdrawDividends` is split where foreign code may run: `WithdrawDividends`
  checks and marks everything claimed, then one `Pay` per transfer, in any
  order; between two transfers only what is not protected by `nonReentrant` may
  happen, that is `Receive`, or tokens arriving without a call. The clock
  stands still until the transaction ends. A receiver that reverts undoes the
  transaction, which is the step not taken.
- The staking contract's own tokens are not modelled beyond what a user may
  stake in total (`NormalHoldings`, `DevHoldings`).

`CycleSnapshots` is the abstract specification: everybody has a stake, and at
the beginning of a cycle all stakes are copied. No checkpoint, search or
compaction. `Dividend` implements it under the mapping in `DividendProperties`
(`stakeNow`, `weightsNow`): the stake a claim looks up for a past cycle is the
one that stood when the cycle began, for ever.

### Project, TokenLockup, Acquired

- A project is one record that joins `ProjectBrief` and `ProjectDetail`, with
  the committee's proposal as its `.decision`. What `Committee` shows of a
  proposal, that it is decided once and that an accepted one is executed once,
  is what stands behind the one action `Decide`; `Outcomes` says when which
  decision may come, a late settlement of votes given in time among them. The
  run of `Committee` and that of `Project` are so kept apart: together they
  would multiply.
- `.shares` is the list of contributions as a function, since duplicates are
  refused, and `.paid` those with `hasClaim`. `Value`, `Share` and `TotalValue`
  are the arithmetic of `withdrawContributions`, roundings included.
- `promoteProject` is two actions, `StartDevelopment` and `FinishProject`, one
  for each state it may find.
- `finishes` is a history variable: nothing reads it but the properties.
- `pool`, `treasury` and `escrow` are the balances of DevToken itself, and of
  development and extra tokens held by Project. A project has one extra token.
- `TokenLockup` extends `Project`; its `ReleaseTime` is `versionReleasedTime`,
  and the unlocking time is stored by the first claim as in the code.
- In `Acquired` a round's decimals are `Scale`, ten to the difference of the
  decimals of the two tokens. The price is rounded down twice. `stock` is what
  the contract holds of the tokens on offer and `normal[AcquiredAddress]` what it
  has been paid, for all rounds together, as in the code: nothing in the state
  says which round a token belongs to. The list of a round is a function; an
  account named twice in `whitelist` has its last percentage in the code, while
  both count towards the 10000 that may not be exceeded, so such a list is one
  of those the model starts with. `LeftAmount` is `getAddressLeftAmount`, which
  sends nothing and is part of what is promised.
- `Acquired` has no next-state relation of its own. `SeedScript` puts its actions
  under the seed and the people at the front end; `ContractSpec`, stated with the
  proofs, puts them among any people, offers and surroundings.

### Dao, Bootstrap, BootstrapCheck

- `contracts[x]` is the proxy at address `x`, in the order of deployment. Of a
  module's configuration the scripts compare two kinds of things: what never
  changes once deployed (`.terms`) and the numbers the module starts with
  (`.start`). Both are one value each; `.use` stands for how far use has moved
  the counters, and 2 for a committee whose last member was removed.
- `run[r]` is the local state of one process: `.pc` names the next awaited call,
  `.step` the module it is at, `.seen` the slots as read at the beginning,
  `.made` the records that go into the state file.
- Every awaited transaction or read that others can come between is an action.
  A transaction that does not revert is taken together with the read that
  confirms it, since set-once slots do not move afterwards.
- `CallFails` is a rejected promise anywhere, including an answer lost after its
  transaction took effect; `Crash` a killed process, which may leave the state
  file truncated, `writeFile` not being atomic.
- `scenario`, chosen at the start, says who takes part, with which
  configurations, whether with a state file, and how many faults: four small
  worlds in one run.
- `completions` is a history of the scripts: the configurations of the runs that
  completed. It is read by properties and by the operator's assumed decision to
  stop (`FairSpec`); no step of a script looks at it.
- In `BootstrapCheck`, `Accepted` are the seven `validate...` functions of the
  check, written separately from `Valid` of the bootstrap as in the code:
  `RefusedForCause` compares the two.

### UpgradeScript, VoteTools, GovernanceTools

- Both extend `Committee` and take its actions for the transactions they send;
  nothing of the committee is abstracted.
- An implementation is a pair of the number of its deployment and the hash of
  the call data approved with it; the proxy's slot holds the first only, which
  is what the script's readback compares.
- A run of the script is one record per operator. `Fails` may end it at any
  point, without a summary; `Reverted` is the transaction mined with status 0.
- `pool` and `nonces` are the network: transactions of one account are mined in
  the order of their nonces, and a nonce already taken is refused (replacement
  by a higher fee is not modelled). `.overtaken` remembers, for the property,
  how many transactions the network had taken when a vote was prepared.
- The backend's answer is any of `Answers`, whatever the proposal.

### SeedScript

- `Script` is the program as a sequence of steps, put together from the same
  helpers as in the source (`CreateProjectVersion`, `Created`, `Finished`, ...);
  `Perform` says what each step does to the contracts. `Revert` is taken exactly
  when the next step is not enabled.
- Amounts and times are those of the source, in whole tokens and minutes; the
  odd seconds that the script waits longer are one minute.
- `ids` and `rounds` are the variables in which a run remembers what it created.
  The id of a project is read (`count`) before the project is created, and the
  two are separate steps.
- `Others` are the people at the front end: they create a project of their own,
  claim, start a round, buy, end. `Kill` also stands for the backend refusing a
  notification, which ends the run.
- `LocalInit` is what `deploy_frontend_local.ts` leaves. The dividend is an
  `INSTANCE` of `Dividend` with the seed's stakers.

## 3. Runs

All instances are small because the hazards need few actors: two accepted
proposals and a third event between them, two stakers and one cycle boundary,
two processes and one slot. Identifiers are model values; no symmetry is used,
since accounts differ in their seats and holdings. States are distinct states
as TLC reports them.

`committee_membership`, `committee_powers` and the dividend configurations check
for deadlock: with the clock at its bound there are still transactions that may
be sent. The others say `CHECK_DEADLOCK FALSE`: a script ends, and so does an
instance whose runs are used up, whose proposals are all decided and whose clock
is at its bound.

| run | instance | states | properties |
|---|---|---|---|
| `committee_membership` | three seats, one outsider, two proposals out of add, remove and replace; time to 2. The committee is new, or starts over storage of the old release, with at most one proposal in it and any ballots of two members and the outsider | 3.7 M | `TypeOK`, `BallotsConsistent`, `SettlementJustified`, `SnapshotsFaithful`, `OneChangePerDecision`, `ElectorateFixed`, `ElectorateIsCommitteeAtCreation`, `DecisionsFinal`, `DecisionsBound` |
| `committee_powers` | two seats, a proxy and an account as targets, two implementations, three ratios, a full replacement, release at any time | 795 k | `ImplementationApproved`, `UpgradeSlotTracks`, `RatioAboveFinal`, `RatioPinned` |
| `committee_tokens` | two accounts with mixed holdings, two proposals, conversions, any batches, a ratio change and a release between them | 274 k | `AllVotesCounted`, `OneTokenOneVote`, `ProposalsSettle` |
| `dividend_stakes` | two users, both tokens, a reward token of which one unit may be deposited, cycles of two ticks, time to 5 | 196 k | `TotalsMatchRecords`, `RecordsCompact`, `HistoryFrozen`, `ImplementsSnapshots` |
| `dividend_rewards` | two users with stakes 1 and 2, the native token, every kind of deposit, every selection of cycles | 565 k | `TypeOK`, `Solvent`, `NothingStranded` |
| `releases` | two projects of one name, two versions, two results, two contributors, one extra token; two owners of locked tokens | 1.4 M | `Solvent`, `LatestVersionTrue`, `FinishesApart`, `VestedOnSchedule` |
| `bootstrap` | two modules and the dividend; two racing runs with a fault, or with and without state files, or reruns with two configurations, or a smoke run beside one; one check | 1.5 M | `CompletedIsWired`, `FileTellsTheTruth`, `OneOrphanPerRun`, `OkMeansWired`, `RefusedForCause`, `Converges` |
| `tools` | two operators, one voter, one proxy, one deployment, four runs, two proposals | 1.5 M | `OneReportPerExecution`, `SummaryNamesItsProposal`, `VotedAsShown`, `RefusedOnlyIfOvertaken` |
| `seed` | the whole script twice, one kill, two acts of others | 1.1 M | `RerunsSucceed`, `RoundsHonoured`, `LeavesScenarios` |

What they show of the committee, in the words of the code:

- `SettlementJustified`: whatever happens to the committee between creation and
  settlement, Accepted means that more than half of those who sat on it at
  creation voted for, Rejected that more than half voted against, Expired that
  neither did and the time is over. `ElectorateFixed` and
  `ElectorateIsCommitteeAtCreation` say that the electorate is that one and
  stays so.
- `BallotsConsistent`: the vote map and the two lists record the same votes.
- `OneChangePerDecision`, `DecisionsFinal`: an accepted proposal is used once;
  a settled one takes no votes and changes its state only to Executed.
- `SnapshotsFaithful`: the newest snapshot is the live committee and every
  snapshot counts people, not entries; a member added twice by two proposals
  would break it.
- `DecisionsBound`: a proposal of the old release is bound to a committee
  version before it is decided.
- `UpgradeSlotTracks`: nobody can lose or steal an upgrade that is open or
  accepted; `ImplementationApproved`: what runs was approved, with its call
  data.
- `AllVotesCounted`: however the batches are composed, a full result comes
  after the last voter, and nobody is counted twice.
- `OneTokenOneVote`: conversions between batches do not let the counted weight
  exceed the total that the turnout is measured by. It is checked without
  transfers: that a token which changes hands between batches counts twice is
  described in `docs/FullProposalSnapshotProposal.md` as a known limit.

Of the dividend:

- `TotalsMatchRecords`: the number rewards are divided by equals the sum of the
  stakes that claims are measured by, for every cycle.
- `HistoryFrozen` and `ImplementsSnapshots`: the past does not change, and is
  what it was when the cycle began.
- `Solvent`: whatever has not been claimed, is being paid or belongs to the
  open cycle is covered by the accounted balance, and that by what is held,
  also between two transfers of a withdrawal and after tokens are sent back
  from inside one.
- `NothingStranded`: what is covered and owed to nobody is at most one unit
  less than the number of stakers of each past cycle, the remainders of the
  divisions; in particular the reward of a cycle without stakes is carried
  over.

Of projects and the lockup:

- `Solvent` (of `Releases`): the balances that all projects share cover every
  share not yet paid and every escrow, whatever was corrected, rounded, finished
  and cancelled in between.
- `LatestVersionTrue`, `FinishesApart`: two projects of one name, also with the
  same version, may finish in either order; the latest is the greatest, with the
  time of its finish, and two finishes are more than the duration apart.
- `VestedOnSchedule`: nobody has claimed more than some release of the awaited
  version or a greater one allows (`ClaimsVested`), and what is not claimed is
  there (`ClaimsCovered`).

Of the rounds:

- `RoundsHonoured`: what the contract holds covers the unsold tokens and the
  takings of every round that has not ended, whoever ends or buys when; every
  token sold was paid for in spite of the roundings (`SoldIsPaid`); in step 1
  nobody has more than a part, and what `getAddressLeftAmount` shows to all on a
  list is unsold (`PartsKept`). The contract compares each purchase with the
  buyer's own part only; that the parts of the others are still there is the work
  of the rounding down and of the check that the parts make no more than the
  whole. `seed` checks it for the rounds of the seed and one of the front end with
  a price and parts that do not divide; section 5 proves it for all rounds.

Of the scripts:

- `CompletedIsWired`: once a run has completed, with or without a state file,
  every slot holds a module of its kind, and those whose sections the scripts
  compare (`Compared`: all but project and acquired) have the terms of its
  configuration, also where another run deployed them, and for ever. A file that
  says "completed" shows the registry and the configuration of such a run.
- `FileTellsTheTruth`: whatever the file's status, what it names exists, is of
  its kind and has the terms of the file's configuration. It may name one
  address that is not wired, and files of running and failed runs do: the module
  the run was about to wire, or lost to another run.
- `OneOrphanPerRun`: a run that does not complete leaves at most one proxy that
  is not wired.
- `OkMeansWired`: what the check calls ok is wired as it read it, for ever,
  although it reads slot after slot while others write.
- `RefusedForCause`: what the bootstrap accepts its check accepts, but for the
  three reasons the property lists.
- `SummaryNamesItsProposal`, `OneReportPerExecution`: the summaries of the
  upgrade script, with two operators racing.
- `VotedAsShown`: a vote that counts is for what was shown, since the contract
  verifies the parameters the tool sends. `RefusedOnlyIfOvertaken`: the nonce
  of an offline vote is not spoilt by transactions already under way.
- `RerunsSucceed`: the seed does not revert by itself, after a run that went
  through or was killed anywhere. `LeavesScenarios`: a run that gets to its end
  leaves its projects, the lockup and the rounds in the states the manifest
  lists. The two proposals it notes as waiting for a vote are undecided, and their
  votes are over: section 4 says why these notes are not true.

*Bounds.* `MaxProposals` is two: every race between proposals that the hazards
name is between two of them. Three seats are the fewest for which a minority can
be outvoted and half is not a majority; two suffice where only the acceptance
matters. `VotingPeriod` is one tick and time runs to two or three, so that every
vote and settlement happens before, at and after the expiry; a proposal is only
created when its expiry lies within `MaxTime`. `RatioChoices` hold a value below
`FinalRatio`, so the check that refuses it is exercised.

Three cycles (time 5 at two ticks, or 3 at one) are the fewest with a
checkpoint that is searched past, one that is compacted and one that is
current; a cycle length of two ticks makes cycles open late. Stakes 1 and 2
under a reward of 2 give a division with a remainder. `MaxHeld` bounds what the
contract holds and so the deposits. In `dividend_stakes` one unit of a reward is
deposited and nothing claimed, in `dividend_rewards` only one kind of token is staked.

In `releases` the budget of 3 at 120 and 80 percent and shares of 1 and 3 leave
remainders in every division; the pool of 5 pays one excellent finish and not
two; voting lasts longer than the two finishes must be apart, so the two
projects meet in every order; `UnlockDuration` is passed before the clock ends.

Two of the six modules suffice in `bootstrap`, since the script treats the
modules one after the other and alike: one whose numbers are compared for
equality (committee) and one whose counter may grow (project). Two runs, one
fault and one change of the administrator are the races and repetitions the
hazards name; `MaxRuns` of 4 in `tools` allows to prepare, vote and execute
twice. The seed's numbers are the real ones; two runs are a run and its
repetition, and each act of others may fall between any two of the 115 steps.

*Fairness.* `committee_tokens` uses `FairSpec` of `Committee`: block times grow,
and `OutsideCallers`, an assumption about people outside the system: for every
proposal somebody asks for the result again and again, with `settleProposal` or
with `endFullPropose` and a batch that counts somebody new. Nothing in the
repository makes this so. The two functions are open to everybody and ask for
nothing but the time (`Committee.sol:145`, `:381`), but no tool sends them: the
status tools only read (`docs/StatusTools.md:195`), the vote tool leaves
`endFullPropose` out (`docs/VoteTool.md:217-222`), and
`docs/FullProposalSnapshotProposal.md:15` leaves the call to an outside party.
So `ProposalsSettle` does not say that proposals are settled in practice. It
says that the contract never stands in the way: under the assumption no
interleaving of votes, conversions, batches, ratio changes and the release
leaves a proposal that cannot be decided. Where nobody calls, a proposal stays
in progress for ever. Nobody is assumed to vote, and no transaction of a member
is fair.

`bootstrap` uses `FairSpec` of `BootstrapCheck`: a script that runs goes on
(each is one sequential process, whose calls return or fail), and the operator
starts the full bootstrap again as long as none has completed, which is how the
script is meant to be used. `Converges` then says that a bootstrap completes in
every behaviour that stays `Undisturbed`: the administrator is not taken away,
one script runs at a time and with one configuration, no committee is emptied,
nor used before it is wired. Faults and kills are allowed, up to the scenario's
bound.

## 4. Where code and documents disagree

Three runs end in the violation of a sentence of the repository.

- `ratio_rises` (`RatioNeverRises`): `setDevRatio` is documented to "reduce the
  current dev ratio" (`Committee.sol:556`), and the preparation requires the
  new ratio to be below the current one (`:568`). The execution does not look
  again (`:594`): of two proposals prepared at 150, to 140 and to 120, the
  first executed last raises the ratio from 120 to 140. The floor holds all the
  same (`RatioAboveFinal`).
- `vote_upgrade` (`UpgradesEncoded`): `docs/VoteTool.md:175` lists
  `upgradeContract` among the types the tool supports. Its encoding
  (`tools/vote_common.ts:399-408`) has three parameters; `Committee.sol:601-612`
  makes four, the hash of the call data between them. The contract refuses every
  vote the tool sends for an upgrade.
- `vesting_start` (`VestingFromRelease`): tokens are to vest from the moment
  the version is released (`TokenLockup.sol:112`, `Interface.sol:370`).
  `versionReleasedTime` (`Project.sol:308-313`) gives the time of the *latest*
  version, and the lockup asks at the first claim: a later version finished
  before that moves the start for everybody.

Five more were met that no violated run shows:

- `docs/Committee.md:44` counts the votes of the committee at the time of the
  settlement; the code (`Committee.sol:352`), and the tests, count those of the
  committee at creation (`ElectorateIsCommitteeAtCreation`).
- `docs/Committee.md:17` has an operation performed before its proposal is
  marked executed. Whoever prepares a full replacement of the committee is its
  `fromGroup`, and can have it marked with `setProposalExecuted`
  (`Committee.sol:727`) instead of performing it; the decision is then used up.
- The seed's manifest says that "Deployer already withdrew one dividend cycle
  reward token payout" (`scripts/seed_local_scenarios.ts:1295`). The script
  withdraws from cycle 1 (`:1066-1073`), in which nothing is due to the
  deployer; the withdrawal pays nothing. `LeavesScenarios` leaves this note out.
- The manifest shows two projects as "Waiting committee vote" and "Waiting
  settlement vote" (`scripts/seed_local_scenarios.ts:1221`, `:1238`;
  `docs/LocalScenarioSeeding.md:110`, `:112`). Both votes last 30 days
  (`Project.sol:99`, `:210`), and after making these proposals the script moves
  the clock on by more than 100 days (90 of them at `:949`). When the manifest is
  written, `support` and `reject` revert with "proposal expired"
  (`Committee.sol:286`, `:315`). The projects are in the states `Preparing` and
  `Accepting` and nobody has decided their proposals, but nobody can vote on them
  either. `LeavesScenarios`, checked by `seed`, says just that of the end of
  every run: it contradicts these two notes.
- The upgrade script's prepare deploys an implementation before it looks at
  whether a proposal can be made (`scripts/upgrade_existing_sourcedao.ts:599`):
  a run that then fails leaves one behind that no summary names.

## 5. Proofs

The theorems hold for every value of the constants that satisfies the named
assumptions of the modules (`CommitteeAssumption`, `BoundsAssumption`,
`TokenAssumption`, `LegacyAssumption`, `DividendAssumption`; `ChainAssumption`, `ProjectAssumption`,
`LockupAssumption`, `HoldingsAssumption`; `AcquiredAssumption`, `SeedAssumption`; `DaoAssumption`, `OrderAssumption`, `BootstrapAssumption`,
`CheckAssumption`; `ScriptAssumption`, `VoteAssumption`): any number of accounts,
proposals, projects, cycles, tokens, configurations, processes and transactions
under way, and any bound. TLC evaluates the assumptions on
every instance.

### Committee (`CommitteeProofs`)

These theorems and those about elections are about `LegacySpec`: the committee
may start new (`Init`), or over the storage of the release without snapshots
(`LegacyInit`), with any number of its proposals and ballots. `NewIsEither`
carries them over to `Spec`.

| theorem | statement |
|---|---|
| `TypeCorrect` | `LegacySpec => []TypeOK` |
| `RatioStaysAboveFinal` | `LegacySpec => []RatioAboveFinal` |
| `RatioPinnedHolds` | `LegacySpec => RatioPinned` |
| `SlotTracksUpgrade` | `LegacySpec => []UpgradeSlotTracks` |

`TypeOK` is inductive. It rests on one lemma for each family of actions
(creation, votes, decisions, settlement in batches); the interesting case is
the removal of a member, whose swap with the last entry must leave a list of
accounts.

`RatioAboveFinal` is not: the ratio an execution installs is the one in a
proposal that was checked when it was prepared, perhaps long ago. The inductive
invariant adds that *every stored ratio proposal* is at or above the floor
(`RatiosAboveFinal` in the proofs). `StepKinds` is the lemma that the ratio and
the slots share: a step creates one proposal, or takes a decided id out of a
slot, or leaves the slots alone; the last two keep every proposal's parameters
and revive none.

`UpgradeSlotTracks` is inductive once the types are known, by the same split. A
creation takes a slot only if it is free, so it cannot push another proposal
out of it. The two actions that free a slot, `CancelContractUpgrade` and
`VerifyContractUpgrade`, do so only when the proposal they find there is then
neither open nor accepted; and a decided proposal is never open or accepted
again (`DecisionKeeps`).

### Elections (`SettlementProofs`)

| theorem | statement |
|---|---|
| `SnapshotsStayFaithful` | `LegacySpec => []SnapshotsFaithful` |
| `ElectorateStaysFixed` | `LegacySpec => ElectorateFixed` |
| `ElectorateStartsAsCommittee` | `LegacySpec => ElectorateIsCommitteeAtCreation` |
| `DecisionsStayBound` | `LegacySpec => DecisionsBound` |
| `DecisionsStayFinal` | `LegacySpec => DecisionsFinal` |
| `BallotsStayConsistent` | `LegacySpec => []BallotsConsistent` |
| `SettlementStaysJustified` | `LegacySpec => []SettlementJustified` |
| `OnlyApprovedInstalled` | `LegacySpec => []ImplementationApproved` |
| `OneChangeEach` | `LegacySpec => []OneChangePerDecision` |
| `EveryVoteCounted` | `LegacySpec => []AllVotesCounted` |
| `TokensCountOnce` | `LegacySpec /\ [][LeavesCountAlone]_vars => []OneTokenOneVote` |

`HistoryKinds` sorts the steps by what they do to an election: one creates a
proposal, casts a vote, counts a batch, decides (settles, and perhaps executes,
and perhaps seats a new committee), or does none of these. A *fate* lemma for
each kind says which proposal it touches and which of its fields it keeps.

1. *Electorates.* The snapshots are only appended to (`Grows`), perhaps after
   the first one was made up for, and the list appended repeats nobody:
   `AddMember` asks for a newcomer, the swap of a removal leaves no second copy
   (`WithoutOnce`). So `SeatsOnce`, that nobody has two seats, is inductive, and
   the size of a snapshot is a number of people (`CountOnce`). A version once
   bound is on record (`Versioned`), so what it names stays.
2. *Ballots.* `BallotsConsistent` is inductive given that a proposal not yet
   created has no votes (`Fresh`).
3. *Results.* The code counts the places of a list that name members, and the
   property the members who voted: a bijection between the two makes them equal
   (`PlacesAreVoters`, `MajorityCounted`). `SettlementJustified` is then
   inductive in the form `AllJustified`, since electorate, votes and expiry of a
   decided proposal stay. A proposal of the old release enters it in the step
   that binds it (`JustifiedBound`): a vote leaves it open, and a settlement
   binds it to the committee it counts by. No other step decides it, which is
   `DecisionsBound`.
4. *What decisions are used for.* `UpgradesOrdinary`, that no upgrade is decided
   by tokens or without a version, gives `ImplementationApproved`.
   `OneChangePerDecision` compares the number of snapshots with the set `Spent`
   of executed membership decisions: a step that seats a committee adds its own
   decision to the set, which was not in it, and no step takes one out. It is
   inductive only when a first snapshot not yet recorded is counted already
   (`ChangesPaid`): an accepted proposal of the old release may be executed
   before anything recorded one.
5. *Full proposals.* `Reckoned` strengthens `AllVotesCounted` by what the lists
   of a full proposal are: they name its voters once, the counted ones with
   mark 2. A batch moves voters from one mark to the other, and adds their number; the
   counter equals the length of the lists exactly when the counted, a subset of
   the voters, are all of them. `SlotsHold`, that a slot holds an upgrade, keeps
   `cancelContractUpgrade` and `verifyContractUpgrade`, which do not ask what
   kind of proposal they settle, away from full ones.
6. *One token, one vote.* `OneTokenOneVote` is not an invariant of every
   behaviour, so its theorem names what has to stay away. `LeavesCountAlone`
   says of a step that, while a full proposal that has had its first batch is in
   progress, no normal tokens change hands (a token transferred between batches
   counts for both its holders, `docs/FullProposalSnapshotProposal.md`) and the
   ratio does not rise (a stale proposal can raise it, which is the violation
   that the run `ratio_rises` shows). Conversions, votes, batches and everything
   else are free, and so is a count that has not begun. The supplies are the sums of
   the balances (`TokensMatch`), so the turnout's total is at least what all
   accounts weigh together, although development tokens are weighed account by
   account and rounded each time (`AllWeigh`). From then on an account's weight
   only falls: a conversion trades each development token, which weighs at
   least one since the ratio never comes below 100, for a normal one, which
   weighs one (`WeightFalls`). So `Tally`, that what is counted and what the
   accounts not counted weigh are together within the total, is inductive: a
   batch moves its voters' weights from the second part to the first.

The proposals that `LegacyInit` leaves are those that add, remove or replace
members, open or accepted. Upgrades and changes of the ratio that the old release
left accepted are outside these theorems: what was decided without a recorded
committee cannot be compared with one.

### Sums (`SumTheorems`)

What contracts owe is a sum, over users, cycles or projects, of shares rounded
down one by one. The models write it with `SumFunction` of the library, which is
a fold; `SumTheorems` proves what the proofs need to know of it. Two forms of
induction (`NumbersInduction`, `PartsInduction`) are stated over a *set* that is
closed under the step, from the well-foundedness of `<`, because theorems with a
predicate as their parameter are out of the provers' reach. From them follow that a sum is one
of its values and the sum of the rest, whichever that is, although the
definition fixes an order (`SumTake`), what a change of one value does
(`SumChanged`), sums of sums, of multiples, over unions, parts, and sets with
other names, and `SharesOfTotal`: what is divided in proportion to the parts of
a total, each share rounded down, is never exceeded, and less is left of it than
there are parts.

### Dividend (`DividendProofs`)

| theorem | statement |
|---|---|
| `TypeCorrect` | `Spec => []TypeOK` |
| `RecordsStayCompact` | `Spec => []RecordsCompact` |
| `HistoryStaysFrozen` | `Spec => HistoryFrozen` |
| `SnapshotsImplemented` | `Spec => ImplementsSnapshots`, the refinement of `CycleSnapshots` |
| `TotalsAlwaysMatch` | `Spec => []TotalsMatchRecords` |
| `AlwaysSolvent` | `Spec => []Solvent` |
| `NothingIsStranded` | `Spec => []NothingStranded` |

The first four follow from one inductive invariant,

    PoolInv == TypeOK /\ RecordsCompact /\ ClockCovers /\ HeldCovers

`TypeOK` says here that no total or balance falls below zero and that the cycle
index stays within its range. Neither is inductive by itself: that a new cycle
has an index in range needs `ClockCovers` (the cycles opened so far fit into
the time that has passed), and that a deposit noticed later is positive and a
payment covered needs `HeldCovers` (what is accounted for is held).
`RecordsCompact` is what makes the backward search find the right checkpoint:
the lemmas `AmountAt`, `SameAmount` and `AmountOfLast` say what the search
returns of a compact list, and `StakeRecorded` that a new checkpoint, with or
without its compaction, changes the answer for the current cycle only. From the
last one follow both `HistoryFrozen` and the step of the refinement: an
operation changes one user's stake of the present, and, if it opens a cycle,
copies all stakes as they were before it.

The other three are about amounts, and follow from

    BookInv == PoolInv /\ TotalsMatchRecords /\ PaidPast /\ BooksBalance

`BooksBalance` says of every token that what is owed (the unclaimed shares of
the cycles that are over, the payments still due of a withdrawal under way, and
the rewards of the current cycle) is accounted for, and that what is accounted
for beyond it is at most the `Remainders` of the divisions so far. `Solvent` and
`NothingStranded` are its two halves, read with `HeldCovers`. Neither half is inductive
without `TotalsMatchRecords`: the shares of a cycle exhaust its rewards only
because the total they are divided by is the sum of the stakes they are measured
by. Nor without `PaidPast`, that claims and payments under way are of cycles
that are over: otherwise a share could be taken out before it is due.

The proof follows the money (`Lines`, `Dues` and `Losses` are the three sums).
Steps are sorted by what they do to it (`StepKinds`). A deposit adds as much to both
sides; a withdrawal moves its shares from the unclaimed to the due, and each of
its transfers takes one due share out of both (`WithdrawBalances`,
`PayBalances`). When a cycle ends (`Advances`), its rewards turn into shares,
and at most one unit less than there are stakers is lost (`CycleEndsLines`,
`CycleEndsLosses`, with `SharesOfTotal`), or, if nobody had a stake, are carried
over whole.

### Project and the lockup (`ReleasesProofs`)

| theorem | statement |
|---|---|
| `TypeCorrect` | `Spec => []TypeOK`, with a name and a version for every project that exists |
| `FinishesStayApart` | `Spec => []FinishesApart` |
| `LatestVersionHolds` | `Spec => []LatestVersionTrue` |
| `ClaimsStayVested` | `Spec => []ClaimsVested` |
| `VestingIsKept` | `Spec => []VestedOnSchedule` |
| `AlwaysSolvent` | `Spec => []Solvent` |

`StepKinds` sorts the steps by what they do to the past: one finishes a
project, claims, locks, lets time pass, or leaves the release times and the
lockup alone. The first three theorems follow from

    ReleaseInv == TypeOK /\ FinishesPast /\ FinishesApart /\ LatestVersionTrue

`FinishesApart` compares every pair of finishes, the code only the new one with
the latest; `FinishesPast`, that no finish is younger than
`latestProjectFinishTime`, is the link. `LatestVersionTrue` is inductive: a
finish of a lower version leaves a record that some earlier finish accounts for.

`ClaimsVested` says of *some* release that the claims do not exceed what its
time allows, and is not inductive: another claim could refer to another
release. The strengthening fixes it: `VestingStarted`, the stored unlocking time
is that of a release, and `ClaimsMeasured`, every claim is within what has
vested since the stored time. Its arithmetic is in `VestedBelow`: a quotient
rounded down, after at most the whole duration, is in proportion and at most
everything. The first claim uses `LatestVersionTrue`, since the time it stores
is the one that `versionReleasedTime` answers.

`ClaimsCovered`, the other half of `VestedOnSchedule`, is inductive given that
nobody has claimed more than was assigned (`ClaimsMeasured`): locking a list
raises the sum of what is unclaimed by the total of the list, which is also what
the lockup receives (`LockRaises`), and a claim lowers both.

`AlwaysSolvent` is about all projects at once, since they share two balances. Its
inductive invariant is

    PaymentInv == TypeOK /\ RealProjects(projects) /\ FreshIds
                  /\ treasury \in Nat /\ escrow \in Nat /\ Solvent

`RealProjects` keeps the divisor of the shares positive, and says that nobody
has been paid for a project that is not finished; `FreshIds`, that the id a new
project takes has none, so nothing owed is overwritten. Every step but a payment
changes what one project is owed, and moves a balance by at least as much
(`OneProjectPaid`). A finish draws the reward, out of which the shares are
rounded down (`UnpaidAtFirst`); a payment asks for several projects together and
takes out of each the share of the one who asks (`UnpaidAfter`), so the sum of the
shares paid is the amount by which the sum of the dues falls (`WithdrawPaid`).

### Rounds (`AcquiredProofs`)

| theorem | statement |
|---|---|
| `ContractHonoured` | `ContractSpec => []RoundsHonoured` |
| `SeedImplementsContract` | `Spec => ContractSpec`, of `SeedScript` |
| `SeedHonoured` | `Spec => []RoundsHonoured`, of `SeedScript` |

`ContractSpec` is the contract in any surroundings. A step of it is one of the
rounds (`RoundsStep`: anybody starts any offer, buys for any amount or ends a
round) or one elsewhere (`Elsewhere`: the clock does not go back, and nobody but
the contract takes tokens out of its accounts; tokens may come in). The seed with
the people at the front end implements it, so the theorem holds there too. All are
about any number of accounts, rounds, tokens and decimals, any lists, prices and
durations, and the last two about any number of runs of the script, of kills and of
acts of others. They follow from

    MarketInv == now \in Nat /\ SoundRounds /\ Backed

`RoundsHonoured` is not inductive. That a purchase keeps the limits of the
others, and that an end pays two differences that are not negative, needs what
the contract keeps in three places to agree (`Sound`): the amount sold is the sum
of what everybody bought, and at most the total. That it takes nothing from
another round needs the ids not yet used to be empty (`SoundRounds`). The
invariant states the limit as the code does, with its quotient (`Within`), and
says it of open and ended rounds alike.

1. *Sums.* A transaction writes one round, so what all rounds owe changes by what
   that one owes (`OneRoundOwes`, from `SumChanged`), which is what the balances
   change by: a start adds the offer to both sides, a purchase takes its tokens
   from both and adds the payment to both, an end leaves the round owing nothing
   (`StartKeeps`, `InvestKeeps`, `EndKeeps`).
2. *Prices.* A quotient rounded down twice is paid for (`PricePaid`), and what was
   paid for before and is paid for now is paid for together (`PricesAdd`).
3. *Parts.* All limits, each rounded down, are together no more than the total
   (`LimitsFit`, with `SumTimes` and `SumAtMost`), and a limit is what is left of
   it and what was bought. So what is left for all is at most the total less what
   all bought, which is what is unsold (`LeftReserved`).
4. *Surroundings.* A step elsewhere leaves the rounds alone, takes nothing out of
   the contract's accounts and does not bring a deadline back
   (`ElsewhereKeeps`). Time, payments, every transaction of the projects, of the
   lockup and of the dividend are such steps (`TransactionStep`, `OthersDoStep`).
5. *The script.* The seed's steps come out of a program, so the refinement needs to
   know that the program names people who exist, offers that are offers and
   amounts that are numbers: `Steps` says it of a list of steps, is kept when
   lists are joined, and holds for both scripts (`ScriptsSteps`). `SeedMarket`
   adds that a run under way has a step to do. `Revert` changes nothing but the
   stage, so when it is taken does not matter.

TLC checked `MarketInv` on an instance of two people and two rounds before it was
proved.

### Bootstrap and its check (`BootstrapProofs`)

| theorem | statement |
|---|---|
| `CompletedStaysWired` | `Spec => []CompletedIsWired` |
| `FileStaysTruthful` | `Spec => []FileTellsTheTruth` |
| `OkStaysWired` | `Spec => []OkMeansWired` |
| `OrphansStayFew` | `Spec => []OneOrphanPerRun` |
| `RefusalsHaveCause` | `Spec => []RefusedForCause` |

TLC runs two bootstraps, one smoke run and at most one fault; the theorems are
about any number of each, of configurations and of changes of the administrator.

1. *What lasts.* Every step `Persists`: a slot that is taken keeps its address,
   a contract its kind, and its terms once they are set. What a script has read
   long ago is therefore still so, which is why it may read slot after slot.
2. *What a run knows.* `Sound(r)`: the addresses a run has recorded are those in
   the registry, but for the one module it has at hand between its deployment
   and its wiring (`Loose`); each has the terms of the run's configuration,
   whether the run deployed it or found it and passed it (`ValidTerms`).
3. *What the file says.* A file is written by a run out of what it knows, and so
   has the same form (`Truthful`): every address it names is a module of its
   kind with the terms of its configuration, and at most one is outside the
   registry, none when it says "completed". A killed process leaves an empty
   record. `BootInv` puts these together with the shapes of the state and
   `Fitting`, that a slot holds a module of its own kind; it is inductive, and
   `FileStaysTruthful` is read off.
   A run that completes does so when all it has recorded is in the registry, and
   by `Sound` that is wired as its configuration says, file or no file
   (`RecordAdded`). By `Persists` it stays so (`WiredPersists`), and no other
   step marks a file as completed (`OthersMarkNothing`). `Recorded` keeps this
   for all completions, and `CompletedStaysWired` follows.
4. *The check.* `CheckInv`: what it found is still in the slots, and the modules
   before the one at hand have `Passed`. Its order is that of the scripts with
   the dividend put in before the last (`CheckOrderFacts`), so at the end all have.
5. *Orphans.* `Owned(r)` is the address a run has at hand, `Abandoned` the
   addresses outside the registry that no run has. `Tally` says that the
   abandoned and the running together are no more than the starts that have not
   completed. A step of a run either goes on, with nothing new outside the
   registry but what it owns (`GoesOn`), or ends and may abandon what it owned
   (`Ends`), or completes, owning nothing (`Finishes`); `SmokeKept` says that a
   smoke run deploys nothing. The orphans are the abandoned ones and at most one
   for each run.
6. *Refusals.* What a bootstrap completed must pass the check's own, separate
   comparisons. Terms come from `Truthful`. The counter of projects needs
   `CarefulAll`: what a run or a completed file names as the project module
   counts at least as many as its configuration starts with, and use only adds
   (`Grows`). The administrator needs `Governed`: until a hand-over it is the
   operator, or nobody as long as no run has come past its first two calls. From
   these, once a check has loaded a completed file of its own configuration the
   registry `Agrees` with it for ever, every slot it reads is the one the file
   names, and a module it does not accept shows one of the causes
   (`NotAccepted`); a cause, once there, stays (`CauseLasts`).

### Governance tools (`ToolsProofs`)

| theorem | statement |
|---|---|
| `ToolsImplementCommittee` | `ToolsSpec => Spec`, of `Committee` |
| `SummariesTrue` | `ToolsSpec => []SummaryNamesItsProposal` |
| `VotesAsShown` | `ToolsSpec => []VotedAsShown` |
| `RefusalsDeserved` | `ToolsSpec => []RefusedOnlyIfOvertaken` |
| `OneReportEach` | `ToolsSpec => []OneReportPerExecution` |

1. *Refinement.* A step of the script or of a tool is one transaction of the
   committee or leaves it alone (`StepTransacts`). The committee thus behaves as
   specified behind the tools, whatever they do and wherever they stop, and all
   its theorems hold there: the proofs that follow use its types, its seats and
   its queue of upgrades without proving them again.
2. *Kinds of steps.* `Becomes` says what a step of the script makes of the run of
   one operator, and which transaction, if any, it comes with (`Moves`);
   `VoteBecomes` and `VoteMoves` say it of one vote, in the terminal or in a file.
3. *The pool.* `PoolInv`: the transactions under way are exactly those of votes
   that were sent (`Pooled`), one for each nonce of a voter; their nonces follow
   the mined ones without gaps (`Queued`); a prepared vote has the nonce that was
   next when it was prepared (`Timely`). So the network takes a nonce if and only
   if it is the next one or a later one (`NonceIsFree`), and
   `RefusedOnlyIfOvertaken` is read off.
4. *What was done stays.* `RunsTrue` and `VotesTrue` strengthen the two
   properties of summaries and votes to the runs and votes that have not yet
   reported. They last because the parameters of a proposal never change
   (`NamesStay`), and because a vote, once cast, is only ever taken off the books
   by a count in batches, of which there is none: nobody creates full proposals in
   this model (`VoteCast`).
5. *Executions.* `OneReportPerExecution` is not inductive: a run that has
   executed and not yet reported is about to raise one side only. `Accounted`
   counts these runs in. An execution uses a proposal that was not executed
   before (`ExecutionNew`), so both sides grow by one.

TLC checked the conjunction of these invariants on the instance of the run
`tools` before it was proved.

### Only model-checked

- `ProposalsSettle` and `Converges`: liveness under fairness is beyond the prover.
- `RerunsSucceed`: a run reverts when its next step is not enabled, and the prover
  does not support `ENABLED`.
- `LeavesScenarios`, which is about where each of 115 steps of one fixed program
  leaves six contracts: an invariant would have to say so step by step, and the
  instance that TLC checks has the real numbers of the script already.

## 6. Not modelled

- **Status tools** (`tools/*status*`) read and print.
- **Tests** and **the previous generation of contracts** (`old_contracts`) were
  read for what is expected, and are not deployed.
- **Mocks** are test doubles; the legacy committee among them is in
  `CommitteeLegacy`, and the receiver that sends native tokens back is why a
  withdrawal is modelled transfer by transfer.
- **The web backend** that the seed notifies and the vote tools ask: an answer
  is any value of a small set, a notification a point at which a run may end.
- **Configuration files and command lines**: a configuration is one value.
- **Tokens that misbehave** (fees on transfer, hooks, false return values): a
  transfer moves what it says or reverts.
- **Restrictions of transfers of development tokens**: the modules make no
  transfers but the allowed ones.
- **Gas**: a settlement or a claim that exceeds the block limit is a
  transaction that reverts; the batches of `endFullPropose` exist for that.
- **256-bit overflow**: arithmetic reverts, and no reachable amount comes near.
- **The Merkle tree** of the parameters is their equality.
- **Initializers and proxies' storage**: the contracts start as initialized.
- **Replacement of a pending transaction** by one with a higher fee.

Two hazards of `Project.sol` and `Committee.sol` are reached by the runs and
break no property, because nothing promises otherwise: a project whose reward
the pool cannot pay stays accepted (`Project.sol:159`), and an accepted upgrade
that cannot be installed stays in its slot. `PROJECT.json` lists them, with the
others, at their lines.

## 7. Plan

1. *(done)* `Committee`, `CommitteeProperties`, `CommitteeLegacy`; their runs
   and first theorems.
2. *(done)* `Dividend`, `CycleSnapshots`; their runs and theorems, the
   refinement among them.
3. *(done)* `Project` with the pool of DevToken, `TokenLockup`, their
   composition `Releases` and its theorems.
4. *(done)* `Dao`, the bootstrap scripts and their check.
5. *(done)* The upgrade script and the vote tools over `Committee`.
6. *(done)* `Acquired`, and the seed script over all contracts it uses.
7. *(done)* Proofs about elections: `SettlementProofs`.
8. *(done)* Proofs about the bootstrap and its check: `BootstrapProofs`.
9. *(done)* Proofs about sums: the totals and the pool of the dividend, the
   payments and the vesting of `Releases`, the tokens that count once.
10. *(done)* Proofs about the governance tools: `ToolsProofs`.
11. *(done)* The theorems of the committee and its elections over storage of the
    release without snapshots: `LegacySpec` in `CommitteeProofs` and
    `SettlementProofs`.
12. *(done)* Proofs about rounds, in any surroundings and on the local stack:
    `AcquiredProofs`.
