------------------------------ MODULE MCTools ------------------------------
(* Small instances of GovernanceTools: two members, one proxy, two proposals. *)
EXTENDS GovernanceTools

CONSTANTS a, b, dev, project, topic, file1, init

Solo == <<a>>
Against == {-1}
NoTokens == [x \in Accounts |-> 0]
First == <<0, "0x">>

Flag(action, impl, id) == [NoRun EXCEPT !.action = action, !.impl = impl, !.id = id]

Commands == {Flag("prepare", n, 0) : n \in 0 .. 1}
            \cup {Flag("support", 1, id) : id \in Ids}
            \cup {Flag("execute", 1, 0)}
Deployments == (1 .. MaxDeployed) \X {init, "0x"}
TheAnswers == {Decision(topic), Upgrade(dev, <<1, init>>)}
=============================================================================
