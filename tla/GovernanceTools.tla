-------------------------- MODULE GovernanceTools --------------------------
(***************************************************************************)
(* The committee as it is run: upgrades through the upgrade script, votes  *)
(* through the script and the vote tools, and proposals of the Project     *)
(* contract in between.                                                    *)
(***************************************************************************)
EXTENDS UpgradeScript, VoteTools

allVars == <<vars, scriptVars, voteVars>>

ToolsInit == Init /\ ScriptInit /\ VoteInit

\* What happens on the chain besides: proposals of other members and contracts.
Others ==
    \/ Tick
    \/ \E id \in Ids : SettleProposal(id)
    \/ \E c \in DaoContracts, d \in Durations, topic \in Topics : Propose(c, d, topic)
    \/ \E op \in Operators : CancelContractUpgrade(op, Proxy)

ToolsNext ==
    \/ ScriptNext /\ UNCHANGED voteVars
    \/ VoteNext /\ UNCHANGED scriptVars
    \/ Others /\ UNCHANGED <<scriptVars, voteVars>>

ToolsSpec == ToolsInit /\ [][ToolsNext]_allVars

-----------------------------------------------------------------------------
(* Properties *)

Finished(r, action) == r.pc = "done" /\ r.action = action

UpgradesOf(n) == {id \in Ids : proposals[id].params = Upgrade(Proxy, <<n, Calldata>>)}

\* Two operators execute the same accepted upgrade, or one does it again after a
\* killed run: the transactions race, and of the runs that end with a summary not
\* more report the execution than proposals were executed, although the proxy
\* runs the right implementation for the loser as well.
OneReportPerExecution ==
    \A n \in 1 .. MaxDeployed :
        reported[n] <= Cardinality({id \in UpgradesOf(n) : State(id) = "Executed"})

\* The proposal id in the summary of a prepare, which the other members are given
\* to vote with, is that of the proposal for the implementation in the same
\* summary, whoever else creates proposals meanwhile.
SummaryNamesItsProposal ==
    \A op \in Operators : Finished(run[op], "prepare") =>
        proposals[run[op].id].params = Upgrade(Proxy, Prepared(run[op]))

\* A vote cast with any of the tools counts for the parameters its voter was
\* shown or named, even when the backend answers wrongly, the id is mistyped, or
\* the vote was signed long before it was sent.
Cast(v, vote) == /\ proposals[vote.id].params = vote.params
                 /\ votes[vote.id][v] = vote.choice

VotedAsShown ==
    /\ \A v \in ToolUsers :
          /\ session[v].stage = "voted" => Cast(v, session[v].tx)
          /\ \A k \in Bundles : bundle[v][k].stage = "voted" => Cast(v, bundle[v][k].tx)
    /\ \A op \in Operators : \A action \in {"support", "reject"} :
          Finished(run[op], action) =>
              Cast(op, [id |-> run[op].id, params |-> UpgradeParams(run[op]),
                        choice |-> IF action = "support" THEN 1 ELSE -1])

\* A signed offline vote is refused by the network only when its voter has sent
\* something else after it was prepared; transactions under way at that time do
\* not spoil it.
RefusedOnlyIfOvertaken ==
    \A v \in ToolUsers, k \in Bundles :
        bundle[v][k].stage = "refused" => PendingNonce(v) > bundle[v][k].tx.overtaken

\* docs/VoteTool.md:175 lists upgradeContract among the types the tool supports:
\* what it encodes from the right answer would be what the proposal was made of.
UpgradesEncoded ==
    \A v \in ToolUsers, target \in Proxies, impl \in Implementations :
        LET tx == session[v].tx
            upgrade == Upgrade(target, impl)
        IN  session[v].stage = "confirmed" /\ tx.params = Encoded(upgrade)
            /\ Matches(tx.id, upgrade)
            => Matches(tx.id, tx.params)
=============================================================================
