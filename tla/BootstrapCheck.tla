--------------------------- MODULE BootstrapCheck ---------------------------
(***************************************************************************)
(* src/scripts/usdb_validate_bootstrap.ts, which an operator runs beside   *)
(* or after the bootstrap of module Bootstrap to learn whether the DAO is  *)
(* wired as the configuration and the state file say, and the composition  *)
(* of the two.  It reads the chain call by call and changes nothing.       *)
(***************************************************************************)
EXTENDS Bootstrap, FiniteSetsExt

CONSTANTS
    CheckModes      \* strict or not, with or without a state file: pairs of Booleans

ASSUME CheckAssumption == CheckModes \subseteq BOOLEAN \X BOOLEAN

VARIABLE check    \* the local state of the script

vars == <<bootVars, check>>

\* The order of the getters, and of the checks: the dividend before the last.
CheckOrder == InsertAt(Order, Len(Order), "dividend")

NotChecking == [pc |-> "idle", step |-> 0, strict |-> FALSE, config |-> <<>>,
                expected |-> NoFile, found |-> [m \in Modules |-> NoAddress]]

Checking == check.pc \in {"admin", "read", "module"}
Checked  == CheckOrder[check.step]

Numbers(c, s) == c.use = 0 /\ c.start = s.start

\* validateProject: the counter of projects only grows.
ProjectAccepted_Fault(c, strict, s) == c.start + c.use = s.start  \* Fault: every check is strict.
ProjectAccepted(c, strict, s) ==
    IF strict THEN c.start + c.use = s.start ELSE c.start + c.use >= s.start

\* validateCommittee ... validateAcquired: what a module must look like.
Accepted(c, strict, s) ==
    CASE c.kind = "committee" -> c.use # 2 /\ c.terms = s.terms /\ (strict => Numbers(c, s))
      [] c.kind = "devToken"  -> c.terms = s.terms /\ (strict => Numbers(c, s))
      [] c.kind \in {"normalToken", "lockup"} -> c.terms = s.terms /\ (strict => c.use = 0)
      [] c.kind = "project"   -> ProjectAccepted(c, strict, s)
      [] c.kind = "acquired"  -> TRUE
      [] c.kind = "dividend"  -> c.terms = s.terms

\* loadExpectedModulesFromState: a file that is torn, missing or not
\* completed is refused; without one nothing but the dividend is expected.
Loadable == file.status = "completed"

CheckOptions == scenario.configs \X CheckModes   \* --config, --strict and --state-file

\* resolveBootstrapConfig, the check's own copy: the same defaults.
ResolveExpected(cfg) == [m \in Modules |-> Section(cfg, m)]

\* main up to the reading of the state file
StartCheck(cfg, strict, withFile) ==
    /\ check.pc = "idle"
    /\ check' = [NotChecking EXCEPT
                    !.pc = IF withFile /\ ~Loadable THEN "refused" ELSE "admin",
                    !.strict = strict, !.config = ResolveExpected(cfg),
                    !.expected = IF withFile THEN file ELSE NoFile]
    /\ UNCHANGED bootVars

\* The registry answers, with the administrator of the configuration.
CheckDao ==
    /\ check.pc = "admin"
    /\ check' = IF bootstrapAdmin = Operator
                THEN [check EXCEPT !.pc = "read", !.step = 1]
                ELSE [check EXCEPT !.pc = "refused"]
    /\ UNCHANGED bootVars

\* readDaoModuleAddress, module after module
ReadDaoModuleAddress ==
    /\ check.pc = "read"
    /\ check' = [check EXCEPT !.found[Checked] = registry[Checked],
                              !.pc = IF check.step = Len(CheckOrder) THEN "module" ELSE "read",
                              !.step = IF @ = Len(CheckOrder) THEN 1 ELSE @ + 1]
    /\ UNCHANGED bootVars

\* The address expected of a module: the state file's, or for the dividend the
\* configuration's.
Expected(m) == IF check.expected.wiring[m] # NoAddress THEN check.expected.wiring[m]
               ELSE IF m = "dividend" THEN Dividend ELSE NoAddress

\* validateModuleAddress
ModulePasses_Fault(m) ==  \* Fault: an empty slot is passed over.
    LET x == check.found[m] IN
    x # NoAddress => Expected(m) \in {NoAddress, x} /\ Accepted(contracts[x], check.strict, check.config[m])
ModulePasses(m) ==
    LET x == check.found[m] IN
    /\ x # NoAddress
    /\ Expected(m) \in {NoAddress, x}
    /\ IsDAOContract(x)
    /\ Accepted(contracts[x], check.strict, check.config[m])

ValidateModuleAddress ==
    /\ check.pc = "module"
    /\ check' = IF ~ModulePasses(Checked) THEN [check EXCEPT !.pc = "refused"]
                ELSE IF check.step = Len(CheckOrder) THEN [check EXCEPT !.pc = "ok"]
                ELSE [check EXCEPT !.step = @ + 1]
    /\ UNCHANGED bootVars

-----------------------------------------------------------------------------

Init == BootstrapInit /\ check = NotChecking

CheckNext ==
    \/ \E o \in CheckOptions : StartCheck(o[1], o[2][1], o[2][2])
    \/ CheckDao \/ ReadDaoModuleAddress \/ ValidateModuleAddress

Next == \/ BootstrapNext /\ UNCHANGED check
        \/ CheckNext

Spec == Init /\ [][Next]_vars

\* A script goes on unless it is stopped, and the operator, who has one
\* configuration to bring up, runs it again as long as it has not succeeded.
FairSpec ==
    /\ Spec
    /\ \A r \in Runners : WF_vars(Step(r) /\ UNCHANGED check)
    /\ \A cfg \in Configs :
          WF_vars(/\ completions = <<>> /\ cfg \in scenario.configs
                  /\ \E r \in Full \cap scenario.processes, keeps \in scenario.reporting :
                        StartFull(r, cfg, keeps)
                  /\ UNCHANGED check)

-----------------------------------------------------------------------------
(* Properties *)

\* The modules whose sections are compared when they are found wired already.
Compared == Modules \ {"project", "acquired"}

\* At x is the module m, with the terms of the configuration.
Good(x, m, config) ==
    /\ x \in Addresses /\ contracts[x].kind = m
    /\ m \in Compared => contracts[x].terms = config[m].terms

\* Every slot is taken, by such a module.
WiredAs(config) == \A m \in Modules : registry[m] # NoAddress /\ Good(registry[m], m, config)

\* What Finish reports is so for ever: after a run has completed, with or without
\* a state file, every module is wired with the terms of its configuration, also
\* the modules it found or another run deployed.  A file that says "completed"
\* has the registry as its final_wiring and is of a configuration a run
\* completed with, whichever run wrote it, whoever ran beside it and whatever
\* happened since.
CompletedIsWired ==
    /\ \A k \in DOMAIN completions : WiredAs(completions[k])
    /\ file.status = "completed" => /\ file.wiring = registry
                                    /\ \E k \in DOMAIN completions : file.config = completions[k]

\* Whatever the state file says of itself, also after a failure, a kill or beside
\* another run: every address it names is a module of that kind with the terms of
\* the file's configuration, and all of them are wired but at most one, the
\* module its run was about to wire (or never will, since another run did).
FileTellsTheTruth ==
    /\ \A m \in Modules : file.wiring[m] # NoAddress => Good(file.wiring[m], m, file.config)
    /\ Cardinality({m \in Modules : file.wiring[m] \notin {NoAddress, registry[m]}}) <= 1

\* However often and wherever runs fail, are killed and are repeated, also two
\* at a time: each that does not complete leaves at most one proxy outside the
\* registry (deployed, and not wired by wireDaoModule).
OneOrphanPerRun ==
    Cardinality({x \in Addresses : ~IsDAOContract(x)} \ {Dividend}) <= starts - Len(completions)

\* What main of usdb_validate_bootstrap reports as ok is so: although it reads
\* slot after slot while a bootstrap may be running, every slot is taken by what
\* it read, forever, by a module with the terms of the configuration.
OkMeansWired ==
    check.pc = "ok" => check.found = registry /\ WiredAs(check.config)

\* The two scripts agree: a DAO whose bootstrap completed is only refused by
\* a check with the same configuration if the administrator has changed, the
\* committee has been emptied, or a strict check finds a module that is in
\* use or was started with other numbers.
RefusedForCause ==
    check.pc = "refused" /\ check.expected.status = "completed"
        /\ check.config = check.expected.config =>
        \/ handovers > 0
        \/ \E m \in Modules : contracts[registry[m]].use = 2
        \/ check.strict /\ \E m \in Modules : \/ contracts[registry[m]].use > 0
                                              \/ contracts[registry[m]].start # check.config[m].start

\* Nothing stands in the way of a bootstrap with configuration cfg: the
\* administrator is not changed, one script runs at a time and with this configuration,
\* a committee is neither emptied nor used before it is wired.
Undisturbed(cfg) ==
    /\ bootstrapAdmin \in {NoAccount, Operator} /\ initialized \in {0, 1}
    /\ \A r \in Runners : Active(r) => /\ run[r].config = Resolve(cfg)
                                       /\ \A other \in Runners \ {r} : ~Active(other)
    /\ \A x \in Addresses : contracts[x].use = 0 \/ (IsDAOContract(x) /\ contracts[x].use = 1)

\* Run again after every failure, the bootstrap completes: nothing a killed or
\* losing run leaves behind, in the registry, on the chain or in the state
\* file, stops a later one.
Converges ==
    \A cfg \in Configs :
        initialized = 0 /\ cfg \in scenario.configs /\ []Undisturbed(cfg) => <>(completions # <<>>)
=============================================================================
