---------------------------- MODULE MCBootstrap ----------------------------
(* A small instance of BootstrapCheck: two of the six modules. *)
EXTENDS BootstrapCheck

CONSTANTS operator, heir, r1, r2, smoke

TwoModules == <<"committee", "project">>
TwoSlots   == {"committee", "project", "dividend"}
Thorough   == {<<TRUE, FALSE>>, <<FALSE, TRUE>>}

Terms(t, s) == [terms |-> t, start |-> s]
SameEverywhere(t, s) == [m \in Modules |-> Terms(t, s)]

\* Legacy defaults: other terms for the committee than a complete configuration.
LegacyDefaults == SameEverywhere(1, 1)
Complete == [m \in Modules |-> IF m = "committee" THEN Terms(2, 1) ELSE Terms(1, 1)]
NoCommittee == [Complete EXCEPT !["committee"] = Missing]
TwoConfigs == {Complete, NoCommittee}

\* Two runs side by side, one of which may fail or be killed and be repeated.
Races == [processes |-> {r1, r2}, configs |-> {Complete}, reporting |-> {TRUE},
          runs |-> 2, faults |-> 1, handovers |-> 0, uses |-> 1]
\* Two runs side by side, of which any may do without a state file.
Mixed == [Races EXCEPT !.reporting = BOOLEAN, !.faults = 0, !.uses = 0]
\* Runs one after the other, with other configurations, of a DAO in use.
Reruns == [processes |-> {r1}, configs |-> TwoConfigs, reporting |-> BOOLEAN,
           runs |-> 2, faults |-> 0, handovers |-> 1, uses |-> 2]
\* The smoke run beside a full one.
Beside == [processes |-> {r1, smoke}, configs |-> {Complete}, reporting |-> BOOLEAN,
           runs |-> 1, faults |-> 0, handovers |-> 0, uses |-> 0]
Four == {Races, Mixed, Reruns, Beside}
=============================================================================
