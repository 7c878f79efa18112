------------------------------ MODULE Releases ------------------------------
(***************************************************************************)
(* Projects, their payments, and the tokens that the release of one of     *)
(* their versions unlocks.                                                 *)
(***************************************************************************)
EXTENDS TokenLockup

vars == <<now, normal, projectVars, lockupVars>>

CONSTANT NormalHoldings   \* the normal tokens accounts have at first

ASSUME HoldingsAssumption == NormalHoldings \in [Accounts -> Nat]

Init == /\ now = MinProjectFinishDuration + 1
        /\ normal = [h \in Holders |-> IF h \in Accounts THEN NormalHoldings[h] ELSE 0]
        /\ ProjectInit /\ LockupInit

Wait == /\ \E d \in Later : Elapse(d)
        /\ UNCHANGED <<normal, projectVars, lockupVars>>

Next == \/ ProjectNext /\ UNCHANGED lockupVars
        \/ LockupNext
        \/ Wait

Spec == Init /\ [][Next]_vars

-----------------------------------------------------------------------------
(* Properties *)

\* What the contract will still have to pay for a project, in development and in
\* extra tokens, if all its contributors ask for it.
Unpaid(amount, p) == SumFunction([who \in DOMAIN p.shares |-> Share(amount, p, who)])

OwedDev(p)   == IF p.state = "Finished" THEN Unpaid(Reward(p), p) ELSE 0
OwedExtra(p) == CASE p.state = "Finished" -> Unpaid(ExtraPart(p), p)
                  [] p.state \in {"Preparing", "Developing", "Accepting"} -> p.extra
                  [] OTHER -> 0

\* The two balances that all projects share always suffice for every payment still
\* due: each contributor of each finished project once, by the shares that were
\* valid at its finish, and each manager of a project that does not come about.
Solvent ==
    /\ treasury >= SumFunction([id \in Ids |-> OwedDev(projects[id])])
    /\ escrow >= SumFunction([id \in Ids |-> OwedExtra(projects[id])])

\* The latest version of a name is the greatest that ever finished, with the time
\* of its finish, in whatever order versions, also equal ones, were finished.
LatestVersionTrue ==
    \A name \in Names :
        LET own == {f \in finishes : f.name = name}
            latest == projectLatestVersions[name]
        IN  /\ \A f \in own : f.version <= latest.version
            /\ own # {} => \E f \in own : f.version = latest.version /\ f.time = latest.time
            /\ own = {} => latest = NoVersion

\* Any two finishes, of one name or of two, are more than the duration apart.
FinishesApart ==
    \A f, g \in finishes : f # g =>
        \/ f.time - g.time > MinProjectFinishDuration
        \/ g.time - f.time > MinProjectFinishDuration

\* The finishes of the version that unlocks the tokens, or of a greater one.
Releases == {f \in finishes : f.name = UnlockProjectName /\ f.version >= UnlockProjectVersion}

\* Nobody ever has more of the locked tokens than the time since the first release
\* of the awaited version, or a greater one, allows; before it nobody has any.
ClaimsVested ==
    \A a \in Accounts : unlockInfo[a].claimed > 0 =>
        \E f \in Releases :
            /\ unlockInfo[a].claimed * UnlockDuration <= unlockInfo[a].assigned * (now - f.time)
            /\ unlockInfo[a].claimed <= unlockInfo[a].assigned

\* What is locked and not claimed yet is there.
ClaimsCovered ==
    normal[LockupAddress] >= SumFunction([a \in Accounts |->
        unlockInfo[a].assigned - unlockInfo[a].claimed])

VestedOnSchedule == ClaimsVested /\ ClaimsCovered

\* TokenLockup.sol:112 has the vesting start at the moment the version is released,
\* and Interface.sol:370 has versionReleasedTime return the time of its release.
VestingFromRelease ==
    unlockTime # 0 => \A f \in Releases : unlockTime <= f.time
=============================================================================
