------------------------------- MODULE Dividend -------------------------------
(***************************************************************************)
(* The dividend pool, src/contracts/Dividend.sol.  Normal and development  *)
(* tokens are staked; a reward belongs to the cycle it is deposited in and *)
(* is shared, once that cycle is over, among the stakes that stood when    *)
(* the cycle began.  Stakes are kept as checkpoints, at most one per cycle *)
(* in which a user's stake changed.                                        *)
(*                                                                         *)
(* One transaction is one step, but for withdrawDividends: it sends its    *)
(* rewards one by one, and a receiver of native tokens runs code of its    *)
(* own, which may send tokens back (receive() has no reentrancy guard).    *)
(* A transaction that reverts changes nothing, so a require is a guard.    *)
(***************************************************************************)
EXTENDS Integers, Sequences, FiniteSets, SequencesExt, FiniteSetsExt

CONSTANTS
    Users,
    Native,           \* address(0), the main token of the chain
    RewardTokens,     \* the other tokens rewards are paid in
    CycleMinLength,
    NormalHoldings,   \* the tokens each user has, staked or not
    DevHoldings,
    StakeAmounts,     \* the amounts staked and unstaked
    RewardAmounts,    \* the amounts deposited
    Claimants,        \* the users who claim; none leaves withdrawals out of a run
    MaxHeld,          \* bound on the rewards of one token the contract holds
    MaxTime           \* bound on the clock

Tokens == {Native} \cup RewardTokens

ASSUME DividendAssumption ==
    /\ IsFiniteSet(Users) /\ Native \notin RewardTokens /\ Claimants \subseteq Users
    /\ CycleMinLength \in Nat \ {0} /\ MaxTime \in Nat /\ MaxHeld \in Nat
    /\ NormalHoldings \in [Users -> Nat] /\ DevHoldings \in [Users -> Nat]
    /\ StakeAmounts \subseteq Nat \ {0} /\ RewardAmounts \subseteq Nat \ {0}

Cycles == 0 .. MaxTime \div CycleMinLength

VARIABLES
    now,
    currentCycleIndex,
    totalStaked,
    cycles,          \* cycles[c]: start, totalStaked, and rewards by token
    records,         \* UserStakeRecords[user]
    claimed,         \* withdrawDividendState: who has claimed which cycle and token
    tokenBalances,   \* the rewards of each token the contract accounts for
    held,            \* and those it holds
    payout           \* the call of withdrawDividends under way

stakeVars  == <<totalStaked, records>>
rewardVars == <<tokenBalances, held>>
claimVars  == <<claimed, payout>>
vars == <<now, currentCycleIndex, cycles, stakeVars, rewardVars, claimVars>>

NoRewards == [t \in Tokens |-> 0]
NoCycle   == [start |-> 0, totalStaked |-> 0, rewards |-> NoRewards]
NoPayout  == [user |-> "nobody", rewards |-> {}]

\* No call holds the reentrancy guard.
Unguarded == payout = NoPayout

Init ==
    /\ now = 0 /\ currentCycleIndex = 0 /\ totalStaked = 0
    /\ cycles = [c \in Cycles |-> NoCycle]
    /\ records = [u \in Users |-> <<>>]
    /\ claimed = {} /\ payout = NoPayout
    /\ tokenBalances = NoRewards /\ held = NoRewards

-----------------------------------------------------------------------------
(* Cycles *)

CycleOver == now - cycles[currentCycleIndex].start >= CycleMinLength

\* Fault: the rewards nobody could earn are left behind.
CarriedOver_Fault == NoRewards

\* The rewards of a cycle that nobody had a stake in go to the next one.
CarriedOver == IF cycles[currentCycleIndex].totalStaked = 0
               THEN cycles[currentCycleIndex].rewards ELSE NoRewards

\* _tryNewCycle: the cycle an operation works in, and the cycles it finds.
Cycle == IF CycleOver THEN currentCycleIndex + 1 ELSE currentCycleIndex

Opened ==
    IF CycleOver
    THEN [cycles EXCEPT ![Cycle] = [start |-> now, totalStaked |-> totalStaked,
                                    rewards |-> CarriedOver]]
    ELSE cycles

TryNewCycle ==
    /\ Unguarded
    /\ currentCycleIndex' = Cycle /\ cycles' = Opened
    /\ UNCHANGED <<now, stakeVars, rewardVars, claimVars>>

-----------------------------------------------------------------------------
(* Rewards *)

\* _depositToken, after _tryNewCycle
DepositToken(token, amount) ==
    /\ currentCycleIndex' = Cycle
    /\ cycles' = [Opened EXCEPT ![Cycle].rewards[token] = @ + amount]
    /\ tokenBalances' = [tokenBalances EXCEPT ![token] = @ + amount]
    /\ UNCHANGED <<now, stakeVars, claimVars>>

Arrives(token, amount) == /\ held[token] + amount <= MaxHeld
                          /\ held' = [held EXCEPT ![token] = @ + amount]

\* receive(): anybody at any time, also from inside a withdrawal.
Receive(amount) == Arrives(Native, amount) /\ DepositToken(Native, amount)

Deposit(token, amount) ==
    /\ Unguarded /\ token # Native
    /\ Arrives(token, amount) /\ DepositToken(token, amount)

\* Tokens sent to the contract without calling it.
TransferIn(token, amount) ==
    /\ Arrives(token, amount)
    /\ UNCHANGED <<now, currentCycleIndex, cycles, stakeVars, tokenBalances, claimVars>>

\* Fault: the whole balance is credited, not what is new of it.
Unaccounted_Fault(token) == held[token]

Unaccounted(token) == held[token] - tokenBalances[token]

UpdateTokenBalance(token) ==
    /\ Unguarded /\ held[token] > tokenBalances[token]
    /\ DepositToken(token, Unaccounted(token))
    /\ UNCHANGED held

-----------------------------------------------------------------------------
(* Stakes *)

\* _getStakeAmount: going back from the newest record, the first one that is not
\* younger than the cycle.
Standing(list, cycle) ==
    {i \in DOMAIN list : /\ list[i].cycle <= cycle
                         /\ \A j \in DOMAIN list : j > i => list[j].cycle > cycle}

Amount(list, cycle) ==
    LET standing == Standing(list, cycle) IN
    IF standing = {} THEN 0
    ELSE LET r == list[CHOOSE i \in standing : TRUE] IN r.normal + r.dev

StakeAmount(user, cycle) == Amount(records[user], cycle)

Latest(user) == IF records[user] = <<>> THEN [cycle |-> Cycle, normal |-> 0, dev |-> 0]
                                        ELSE Last(records[user])

\* Fault: a record of the same cycle is not looked for.
SameCycle_Fault(user) == FALSE

SameCycle(user) == records[user] # <<>> /\ Last(records[user]).cycle = Cycle

\* Fault: the last record is changed although it is one of an older cycle.
Checkpointed_Fault(user, normal, dev) ==
    IF records[user] = <<>> THEN <<[cycle |-> Cycle, normal |-> normal, dev |-> dev]>>
    ELSE Append(Front(records[user]),
                [cycle |-> Last(records[user]).cycle, normal |-> normal, dev |-> dev])

\* The new amounts replace a record of this cycle, and follow an older one.
Checkpointed(user, normal, dev) ==
    Append(IF SameCycle(user) THEN Front(records[user]) ELSE records[user],
           [cycle |-> Cycle, normal |-> normal, dev |-> dev])

\* Fault: the development tokens are not compared.
Redundant_Fault(list) ==
    LET n == Len(list) IN
    \/ n = 1 /\ list[n].normal = 0
    \/ n > 1 /\ list[n].normal = list[n - 1].normal

\* The last record says nothing that the one before it does not say.
Redundant(list) ==
    LET n == Len(list) IN
    \/ n = 1 /\ list[n].normal = 0 /\ list[n].dev = 0
    \/ n > 1 /\ list[n].normal = list[n - 1].normal /\ list[n].dev = list[n - 1].dev

\* _compactStakeRecords
Compacted(list) == IF Redundant(list) THEN Front(list) ELSE list

\* What the four operations share: the new amounts, the total, which as a uint256
\* cannot be taken below 0, and the cycle.
SetStake(user, normal, dev) ==
    /\ Unguarded
    /\ currentCycleIndex' = Cycle /\ cycles' = Opened
    /\ records' = [records EXCEPT ![user] = Compacted(Checkpointed(user, normal, dev))]
    /\ totalStaked' = totalStaked + normal + dev - Latest(user).normal - Latest(user).dev
    /\ totalStaked' >= 0
    /\ UNCHANGED <<now, rewardVars, claimVars>>

StakeNormal(user, amount) ==
    /\ Latest(user).normal + amount <= NormalHoldings[user]
    /\ SetStake(user, Latest(user).normal + amount, Latest(user).dev)

StakeDev(user, amount) ==
    /\ Latest(user).dev + amount <= DevHoldings[user]
    /\ SetStake(user, Latest(user).normal, Latest(user).dev + amount)

UnstakeNormal(user, amount) ==
    /\ records[user] # <<>> /\ Latest(user).normal >= amount
    /\ SetStake(user, Latest(user).normal - amount, Latest(user).dev)

UnstakeDev(user, amount) ==
    /\ records[user] # <<>> /\ Latest(user).dev >= amount
    /\ SetStake(user, Latest(user).normal, Latest(user).dev - amount)

-----------------------------------------------------------------------------
(* Withdrawals *)

\* Fault: the stake is the one at the end of the cycle.
ShareBasis_Fault(user, cycle) == StakeAmount(user, cycle)

\* A stake takes effect in the cycle after the one it was made in.
ShareBasis(user, cycle) == StakeAmount(user, cycle - 1)

Earns(user, cycle) ==
    cycle # 0 /\ cycles[cycle].totalStaked # 0 /\ ShareBasis(user, cycle) # 0

Share(user, cycle, token) ==
    IF Earns(user, cycle)
    THEN (cycles[cycle].rewards[token] * ShareBasis(user, cycle)) \div cycles[cycle].totalStaked
    ELSE 0

\* Fault: what was claimed before is paid again.
NotClaimed_Fault(user, cycle, token) == TRUE

NotClaimed(user, cycle, token) == <<user, cycle, token>> \notin claimed

\* withdrawDividends up to its transfers.  Duplicates are rejected, so that the
\* lists are sets.
WithdrawDividends(user, cs, ts) ==
    /\ Unguarded /\ cs # {} /\ ts # {}
    /\ \A c \in cs : c < currentCycleIndex
    /\ \A c \in cs \ {0}, t \in ts : NotClaimed(user, c, t)
    /\ claimed' = claimed \cup {<<user, c, t>> : c \in {k \in cs : Earns(user, k)}, t \in ts}
    /\ payout' = IF \E c \in cs, t \in ts : Share(user, c, t) > 0
                 THEN [user |-> user,
                       rewards |-> {p \in cs \X ts : Share(user, p[1], p[2]) > 0}]
                 ELSE NoPayout
    /\ UNCHANGED <<now, currentCycleIndex, cycles, stakeVars, rewardVars>>

\* One transfer of the withdrawal.  The caller chose the order.
Pay(cycle, token) ==
    LET amount == Share(payout.user, cycle, token)
        left   == payout.rewards \ {<<cycle, token>>}
    IN  /\ <<cycle, token>> \in payout.rewards
        /\ tokenBalances[token] >= amount
        /\ tokenBalances' = [tokenBalances EXCEPT ![token] = @ - amount]
        /\ held' = [held EXCEPT ![token] = @ - amount]
        /\ payout' = IF left = {} THEN NoPayout ELSE [payout EXCEPT !.rewards = left]
        /\ UNCHANGED <<now, currentCycleIndex, cycles, stakeVars, claimed>>

-----------------------------------------------------------------------------
Tick ==
    /\ Unguarded /\ now < MaxTime /\ now' = now + 1
    /\ UNCHANGED <<currentCycleIndex, cycles, stakeVars, rewardVars, claimVars>>

Next ==
    \/ Tick \/ TryNewCycle
    \/ \E n \in RewardAmounts :
          \/ Receive(n)
          \/ \E t \in Tokens : Deposit(t, n) \/ TransferIn(t, n)
    \/ \E t \in Tokens : UpdateTokenBalance(t)
    \/ \E u \in Users, n \in StakeAmounts :
          \/ StakeNormal(u, n) \/ StakeDev(u, n)
          \/ UnstakeNormal(u, n) \/ UnstakeDev(u, n)
    \/ \E u \in Claimants, cs \in SUBSET Cycles, ts \in SUBSET Tokens : WithdrawDividends(u, cs, ts)
    \/ \E c \in Cycles, t \in Tokens : Pay(c, t)

Spec == Init /\ [][Next]_vars
=============================================================================
