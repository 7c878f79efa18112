---------------------------- MODULE TokenLockup ----------------------------
(***************************************************************************)
(* src/contracts/TokenLockup.sol: normal tokens locked until the release   *)
(* of a version that Project reports, and vested from then on.             *)
(***************************************************************************)
EXTENDS Project

CONSTANTS UnlockProjectName, UnlockProjectVersion,
          UnlockDuration,   \* 180 days
          Lists,            \* the lists of locked amounts, by account
          ClaimAmounts,
          MaxAssigned       \* bound on the tokens locked

ASSUME LockupAssumption == /\ UnlockProjectName \in Names /\ UnlockProjectVersion \in Nat \ {0}
                           /\ UnlockDuration \in Nat \ {0} /\ MaxAssigned \in Nat
                           /\ (\A list \in Lists : IsShareList(list)) /\ ClaimAmounts \subseteq Nat

VARIABLES unlockTime,
          unlockInfo,                     \* by account: assigned and claimed
          totalAssigned, totalClaimed     \* of all accounts

lockupVars == <<unlockTime, unlockInfo, totalAssigned, totalClaimed>>

LockupInit == /\ unlockTime = 0 /\ totalAssigned = 0 /\ totalClaimed = 0
              /\ unlockInfo = [a \in Accounts |-> [assigned |-> 0, claimed |-> 0]]

ReleaseTime == VersionReleasedTime(UnlockProjectName, UnlockProjectVersion)
IsUnlocked  == unlockTime > 0 \/ ReleaseTime > 0

\* An account listed twice counts twice, so that a list is a function.
TotalOf(list) == SumFunction(list)

\* What transferAndLock and convertAndLock share.
Lock(list) ==
    /\ ~ IsUnlocked
    /\ totalAssigned + TotalOf(list) <= MaxAssigned
    /\ unlockInfo' = [a \in Accounts |->
           IF a \in DOMAIN list THEN [unlockInfo[a] EXCEPT !.assigned = @ + list[a]]
                                ELSE unlockInfo[a]]
    /\ totalAssigned' = totalAssigned + TotalOf(list)
    /\ UNCHANGED <<now, unlockTime, totalClaimed>>

TransferAndLock(sender, list) ==
    /\ Lock(list)
    /\ Transfer(sender, LockupAddress, TotalOf(list))
    /\ UNCHANGED projectVars

\* The development tokens of somebody are burnt, and as many normal ones minted.
ConvertAndLock(list) ==
    /\ Lock(list)
    /\ devSupply - pool - treasury >= TotalOf(list)
    /\ devSupply' = devSupply - TotalOf(list)
    /\ Mint(LockupAddress, TotalOf(list))
    /\ UNCHANGED <<projectIdCounter, projects, pool, treasury, releaseVars, escrow>>

\* Fault: more than all is vested once the duration has passed.
Passed_Fault(t) == now - t

Passed(t) == IF now - t > UnlockDuration THEN UnlockDuration ELSE now - t

\* _maxClaimTokens, which reverts when less is vested than was claimed.
Vested(a, t)   == (Passed(t) * unlockInfo[a].assigned) \div UnlockDuration
MaxClaim(a, t) == Vested(a, t) - unlockInfo[a].claimed

\* The time the vesting starts at is read by the first claim.
StartOfVesting == IF unlockTime = 0 THEN ReleaseTime ELSE unlockTime

ClaimTokens(a, amount) ==
    LET t == StartOfVesting IN
    /\ t > 0 /\ MaxClaim(a, t) >= amount
    /\ unlockTime' = t
    /\ unlockInfo' = [unlockInfo EXCEPT ![a].claimed = @ + amount]
    /\ Transfer(LockupAddress, a, amount)
    /\ totalClaimed' = totalClaimed + amount
    /\ UNCHANGED <<now, totalAssigned, projectVars>>

LockupNext ==
    \/ \E list \in Lists : ConvertAndLock(list) \/ \E a \in Accounts : TransferAndLock(a, list)
    \/ \E a \in Accounts, n \in ClaimAmounts : ClaimTokens(a, n)
=============================================================================
