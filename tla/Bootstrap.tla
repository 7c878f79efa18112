----------------------------- MODULE Bootstrap -----------------------------
(***************************************************************************)
(* The scripts that bring a DAO up: src/scripts/usdb_bootstrap_full.ts,    *)
(* which initializes the registry and the dividend contract that the chain *)
(* starts with, deploys the other modules one by one, wires each into the  *)
(* registry and keeps a state file; and src/scripts/usdb_bootstrap_smoke.ts*)
(* which does its first part only and deposits a coin.  A script may fail  *)
(* or be killed anywhere and be run again, also beside another run of it,  *)
(* with the same or another configuration; what is deployed goes on being  *)
(* used meanwhile.                                                         *)
(*                                                                         *)
(* A step is one transaction, one read of the chain, or the check of one   *)
(* module, together with the snapshots of the state file written before    *)
(* the next of these.                                                      *)
(***************************************************************************)
EXTENDS Dao, Sequences, FiniteSets, SequencesExt

CONSTANTS
    Full,         \* processes that run usdb_bootstrap_full
    Smoke,        \* processes that run usdb_bootstrap_smoke
    Operator,     \* the account of bootstrapAdminPrivateKey
    Order,        \* the modules of this instance
    Configs,      \* configurations: per module a section or Missing
    Missing,
    Defaults,     \* the sections used in place of missing ones
    Scenarios     \* what happens in an instance, see ScenarioType

\* The modules in the order in which main ensures them, one block for each.
AllModules == <<"committee", "devToken", "normalToken", "lockup", "project", "acquired">>

\* The processes that take part, the configurations they are given, whether with a
\* state file, and bounds: on the starts of usdb_bootstrap_full, on crashes and
\* failed calls, on changes of the administrator, and on how far a committee is
\* used (see NewContract).
ScenarioType == [processes : SUBSET (Full \cup Smoke), configs : SUBSET Configs,
                 reporting : SUBSET BOOLEAN,
                 runs : Nat, faults : Nat, handovers : Nat, uses : 0 .. 2]

\* A section: what never changes once deployed (names, versions, ratios: .terms)
\* and the numbers the module starts with (.start).
SectionType == [terms : Nat \ {0}, start : Nat]

ASSUME OrderAssumption == Order = SelectSeq(AllModules, LAMBDA m : m \in Modules)

ASSUME BootstrapAssumption ==
    /\ Operator \in Accounts
    /\ IsFiniteSet(Full) /\ Full \cap Smoke = {}
    /\ Order \in Seq(ToSet(AllModules)) /\ Order # <<>>
    /\ Modules = ToSet(Order) \cup {"dividend"}
    /\ Missing \notin SectionType /\ Defaults \in [Modules -> SectionType]
    /\ Configs \subseteq [Modules -> SectionType \cup {Missing}]
    /\ Scenarios \subseteq ScenarioType

Runners == Full \cup Smoke
Dividend == 1            \* config.dividendAddress, in the genesis of the chain

VARIABLES
    contracts,   \* contracts[x]: the proxy at address x
    run,         \* run[r]: the local state of a script
    file,        \* the bootstrap state file
    starts,      \* starts of usdb_bootstrap_full so far
    completions, \* the configurations of those that completed, in their order
    faults, handovers,
    scenario     \* the one of this behaviour

Options == scenario.configs \X scenario.reporting   \* --config and --state-file

scriptVars == <<run, starts, completions, faults>>
bootVars   == <<contracts, file, handovers, scenario, scriptVars, daoVars>>

-----------------------------------------------------------------------------
(* Data *)

Section(cfg, m) == IF cfg[m] = Missing THEN Defaults[m] ELSE cfg[m]

\* resolveBootstrapConfig
Resolve(cfg) == [m \in Modules |-> Section(cfg, m)]

\* .use: 0 as deployed, 1 in use, 2 a committee whose last member was removed.
NewContract(m, section) == [kind |-> m, terms |-> section.terms, start |-> section.start, use |-> 0]
Uninitialized == [kind |-> "dividend", terms |-> 0, start |-> 0, use |-> 0]

\* BootstrapState: what the state file says.
NoFile == [status |-> "none", wiring |-> [m \in Modules |-> NoAddress], config |-> <<>>]

\* createEmptyModules, and the rest of a script that has not started.
NotStarted == [pc |-> "idle", step |-> 0, config |-> <<>>, keeps |-> FALSE,
               seen |-> [m \in Modules |-> NoAddress], made |-> [m \in Modules |-> NoAddress]]

Addresses == DOMAIN contracts
Current(r) == IF run[r].step = 0 THEN "dividend" ELSE Order[run[r].step]
Active(r)  == run[r].pc \notin {"idle", "done", "failed", "crashed"}

\* latestRuntimeContext is set, and there is a state file to write.
Reports(r) == run[r].keeps /\ run[r].pc \notin {"admin", "initialize", "dividend", "initDividend"}
                           /\ ~(run[r].pc \in {"wire", "send"} /\ run[r].step = 0)

-----------------------------------------------------------------------------
(* What the script checks of a module, freshly deployed or already wired *)

\* validateCommitteeModule (devRatio never falls below finalRatio, see
\* RatioAboveFinal of module CommitteeProperties)
CommitteeValid(c, mode, s) ==
    /\ c.use # 2
    /\ c.terms = s.terms
    /\ mode = "deployed" => c.use = 0 /\ c.start = s.start

\* validateDevTokenModule (what is released is never more than the supply)
DevTokenValid(c, mode, s) ==
    /\ c.terms = s.terms
    /\ mode = "deployed" => c.use = 0 /\ c.start = s.start

\* validateNormalTokenModule: deployed, nothing has been minted.
NormalTokenValid(c, mode, s) == c.terms = s.terms /\ (mode = "deployed" => c.use = 0)

\* validateTokenLockupModule: deployed, nothing has been locked.
TokenLockupValid(c, mode, s) == c.terms = s.terms /\ (mode = "deployed" => c.use = 0)

\* validateProjectModule: the counter of projects only grows.
ProjectValid(c, mode, s) ==
    LET counter == c.start + c.use IN
    IF mode = "deployed" THEN counter = s.start ELSE counter >= s.start

\* validateAcquiredModule: the contract answers.
AcquiredValid(c, mode, s) == c.kind = "acquired"

\* validateDividendModule
DividendValid(c, s) == c.terms = s.terms

Valid_Fault(x, mode, config) == TRUE  \* Fault: the addresses found are taken as they are.
Valid(x, mode, config) ==
    LET c == contracts[x]  s == config[c.kind] IN
    CASE c.kind = "committee"   -> CommitteeValid(c, mode, s)
      [] c.kind = "devToken"    -> DevTokenValid(c, mode, s)
      [] c.kind = "normalToken" -> NormalTokenValid(c, mode, s)
      [] c.kind = "lockup"      -> TokenLockupValid(c, mode, s)
      [] c.kind = "project"     -> ProjectValid(c, mode, s)
      [] c.kind = "acquired"    -> AcquiredValid(c, mode, s)
      [] c.kind = "dividend"    -> DividendValid(c, s)

-----------------------------------------------------------------------------
(* The state file *)

\* final_wiring is taken from the records of the run, the dividend from the
\* configuration.
Wiring(made) == [made EXCEPT !["dividend"] = Dividend]

\* writeBootstrapStateSnapshot; writeFile truncates before it writes.
Write(r, status, made) ==
    file' = IF ~run[r].keeps THEN file
            ELSE [status |-> status, wiring |-> Wiring(made), config |-> run[r].config]

\* updateProgress
Progress(r, made) == Write(r, "running", made)

Goto(r, pc) == run' = [run EXCEPT ![r].pc = pc]
\* The script has ended: what it knew is gone.
Exit(r, pc) == run' = [run EXCEPT ![r] = [NotStarted EXCEPT !.pc = pc]]

\* The handler of main()'s rejection: the file says so if there is a context.
Fails(r) ==
    /\ Exit(r, "failed")
    /\ IF Reports(r) THEN Write(r, "error", run[r].made) ELSE UNCHANGED file

-----------------------------------------------------------------------------
(* ensureDaoAndDividend, which both scripts begin with *)

StartRun(r, cfg, keeps) ==
    /\ ~Active(r)
    /\ run' = [run EXCEPT ![r] = [NotStarted EXCEPT !.pc = "admin", !.config = Resolve(cfg),
                                                    !.keeps = keeps]]

\* main up to ensureDaoAndDividend
StartFull(r, cfg, keeps) ==
    /\ starts < scenario.runs /\ starts' = starts + 1
    /\ StartRun(r, cfg, keeps)
    /\ UNCHANGED <<contracts, file, completions, faults, handovers, daoVars, scenario>>

\* main of usdb_bootstrap_smoke up to its transactions
StartSmoke(r, cfg) ==
    /\ run[r].pc = "idle"
    /\ StartRun(r, cfg, FALSE)
    /\ UNCHANGED <<contracts, file, starts, completions, faults, handovers, daoVars, scenario>>

CheckAdmin(r) ==
    /\ run[r].pc = "admin"
    /\ CASE bootstrapAdmin = NoAccount -> Goto(r, "initialize") /\ UNCHANGED file
         [] bootstrapAdmin = Operator  -> Goto(r, "dividend") /\ UNCHANGED file
         [] OTHER -> Fails(r)
    /\ UNCHANGED <<contracts, starts, completions, faults, handovers, daoVars, scenario>>

InitializeDao(r) ==
    /\ run[r].pc = "initialize"
    /\ \/ Initialize(Operator) /\ Goto(r, "dividend") /\ UNCHANGED file
       \/ initialized # 0 /\ Fails(r) /\ UNCHANGED daoVars
    /\ UNCHANGED <<contracts, starts, completions, faults, handovers, scenario>>

CheckDividend(r) ==
    /\ run[r].pc = "dividend"
    /\ CASE contracts[Dividend].terms = 0 -> Goto(r, "initDividend") /\ UNCHANGED file
         [] contracts[Dividend].terms # 0 /\ Valid(Dividend, "existing", run[r].config) ->
                run' = [run EXCEPT ![r].pc = "wire", ![r].made["dividend"] = Dividend]
                /\ UNCHANGED file
         [] OTHER -> Fails(r)
    /\ UNCHANGED <<contracts, starts, completions, faults, handovers, daoVars, scenario>>

InitializeDividend(r) ==
    /\ run[r].pc = "initDividend"
    /\ \/ /\ contracts[Dividend].terms = 0
          /\ contracts' = [contracts EXCEPT ![Dividend].terms = run[r].config["dividend"].terms]
          /\ run' = [run EXCEPT ![r].pc = "wire", ![r].made["dividend"] = Dividend]
          /\ UNCHANGED file
       \/ contracts[Dividend].terms # 0 /\ Fails(r) /\ UNCHANGED contracts
    /\ UNCHANGED <<starts, completions, faults, handovers, daoVars, scenario>>

-----------------------------------------------------------------------------
(* wireDaoModule *)

AfterWiring(r) == CASE r \in Smoke -> "readback"
                    [] r \in Full /\ run[r].step = 0 -> "preflight"
                    [] OTHER -> "ready"

\* The slot is read: empty, the module must be set; taken, by this module.
WiredBy_Fault(r) == registry[Current(r)] # NoAddress  \* Fault: any address will do.
WiredBy(r) == registry[Current(r)] = run[r].made[Current(r)]

ReadSlot(r) ==
    /\ run[r].pc = "wire"
    /\ CASE registry[Current(r)] = NoAddress -> Goto(r, "send") /\ UNCHANGED file
         [] registry[Current(r)] # NoAddress /\ WiredBy(r) ->
                Goto(r, AfterWiring(r)) /\ UNCHANGED file
         [] OTHER -> Fails(r)
    /\ UNCHANGED <<contracts, starts, completions, faults, handovers, daoVars, scenario>>

\* The transaction, and the slot read back.
SendSlot(r) ==
    LET x == run[r].made[Current(r)] IN
    /\ run[r].pc = "send"
    /\ \/ /\ MaySet(Operator, Current(r), x \in Addresses) /\ SetAddress(Current(r), x)
          /\ Goto(r, AfterWiring(r)) /\ UNCHANGED file
       \/ /\ ~MaySet(Operator, Current(r), x \in Addresses) /\ Fails(r) /\ UNCHANGED daoVars
    /\ UNCHANGED <<contracts, starts, completions, faults, handovers, scenario>>

\* The smoke run reads the administrator and the dividend address again.
SmokeReadback(r) ==
    /\ run[r].pc = "readback"
    /\ IF bootstrapAdmin = Operator /\ registry["dividend"] = Dividend
       THEN Goto(r, "deposit") ELSE Exit(r, "failed")
    /\ UNCHANGED <<contracts, file, starts, completions, faults, handovers, daoVars, scenario>>

\* The native deposit of the smoke run: other people's deposits and
\* withdrawals move the balance it compares.
Deposit(r) ==
    /\ run[r].pc = "deposit"
    /\ \/ Exit(r, "done")
       \/ Exit(r, "failed")
    /\ UNCHANGED <<contracts, file, starts, completions, faults, handovers, daoVars, scenario>>

-----------------------------------------------------------------------------
(* The modules, one after the other *)

Preflight(r) ==
    /\ run[r].pc = "preflight"
    /\ Progress(r, run[r].made)
    /\ run' = [run EXCEPT ![r].pc = "read", ![r].step = 1]
    /\ UNCHANGED <<contracts, starts, completions, faults, handovers, daoVars, scenario>>

LastModule_Fault(r) == run[r].step > Len(Order)  \* Fault: off by one.
LastModule(r) == run[r].step = Len(Order)

\* The six slots are read once, one call each.
ReadModules(r) ==
    /\ run[r].pc = "read"
    /\ run' = [run EXCEPT ![r].seen[Current(r)] = registry[Current(r)],
                          ![r].pc = IF LastModule(r) THEN "check" ELSE "read",
                          ![r].step = IF LastModule(r) THEN 1 ELSE @ + 1]
    /\ UNCHANGED <<contracts, file, starts, completions, faults, handovers, daoVars, scenario>>

\* A module that is wired already may have been used since.
Usable_Fault(r, x) == x \in Addresses /\ Valid(x, "deployed", run[r].config)  \* Fault: checked as if new.
Usable(r, x) == x \in Addresses /\ Valid(x, "existing", run[r].config)

\* ensureModule
EnsureModule(r) ==
    LET x == run[r].seen[Current(r)] IN
    /\ run[r].pc = "check"
    /\ CASE x = NoAddress -> Goto(r, "deploy") /\ Progress(r, run[r].made)
         [] x # NoAddress /\ Usable(r, x) ->
                /\ run' = [run EXCEPT ![r].pc = "ready", ![r].made[Current(r)] = x]
                /\ Progress(r, run[r].made)
         [] OTHER -> Fails(r)
    /\ UNCHANGED <<contracts, starts, completions, faults, handovers, daoVars, scenario>>

\* deployUupsProxy; an implementation without its proxy is invisible.
DeployUupsProxy(r) ==
    LET m == Current(r) IN
    /\ run[r].pc = "deploy"
    /\ contracts' = Append(contracts, NewContract(m, run[r].config[m]))
    /\ run' = [run EXCEPT ![r].pc = "validate", ![r].made[m] = Len(contracts) + 1]
    /\ UNCHANGED <<file, starts, completions, faults, handovers, daoVars, scenario>>

ValidateDeployed(r) ==
    /\ run[r].pc = "validate"
    /\ IF Valid(run[r].made[Current(r)], "deployed", run[r].config)
       THEN Goto(r, "wire") /\ Progress(r, run[r].made)
       ELSE Fails(r)
    /\ UNCHANGED <<contracts, starts, completions, faults, handovers, daoVars, scenario>>

ModuleReady(r) ==
    /\ run[r].pc = "ready"
    /\ Progress(r, run[r].made)
    /\ run' = [run EXCEPT ![r].pc = IF LastModule(r) THEN "final" ELSE "check",
                          ![r].step = IF LastModule(r) THEN @ ELSE @ + 1]
    /\ UNCHANGED <<contracts, starts, completions, faults, handovers, daoVars, scenario>>

\* The last readback of all the slots, and the report.
Finish(r) ==
    /\ run[r].pc = "final"
    /\ IF \A m \in Modules : registry[m] # NoAddress /\ registry[m] = run[r].made[m]
       THEN /\ Exit(r, "done") /\ Write(r, "completed", run[r].made)
            /\ completions' = Append(completions, run[r].config)
       ELSE Fails(r) /\ UNCHANGED completions
    /\ UNCHANGED <<contracts, starts, faults, handovers, daoVars, scenario>>

-----------------------------------------------------------------------------
(* Failures, and what the world does meanwhile *)

\* A call fails, or its answer is lost after it took effect.
CallFails(r) ==
    /\ Active(r) /\ faults < scenario.faults
    /\ faults' = faults + 1
    /\ Fails(r)
    /\ UNCHANGED <<contracts, starts, completions, handovers, daoVars, scenario>>

\* The steps that begin by writing the file.
Writing(r) == Reports(r) /\ run[r].pc \in {"preflight", "check", "validate", "ready", "final"}

\* The script is killed, maybe in the middle of writing the file.
Crash(r) ==
    /\ Active(r) /\ faults < scenario.faults
    /\ faults' = faults + 1
    /\ Exit(r, "crashed")
    /\ \/ UNCHANGED file
       \/ Writing(r) /\ file' = [NoFile EXCEPT !.status = "torn"]
    /\ UNCHANGED <<contracts, starts, completions, handovers, daoVars, scenario>>

\* Wired modules are used; so may a committee be before it is wired.
Use(x) ==
    /\ contracts[x].kind \notin {"dividend", "acquired"}
    /\ IsDAOContract(x) \/ contracts[x].kind = "committee"
    /\ contracts[x].use < (IF contracts[x].kind = "committee" THEN scenario.uses ELSE 1)
    /\ contracts' = [contracts EXCEPT ![x].use = @ + 1]
    /\ UNCHANGED <<file, handovers, scriptVars, daoVars, scenario>>

HandOver ==
    /\ handovers < scenario.handovers /\ handovers' = handovers + 1
    /\ \E from, to \in Accounts : from # to /\ TransferBootstrapAdmin(from, to)
    /\ UNCHANGED <<contracts, file, scriptVars, scenario>>

Migrate ==
    /\ MigrateBootstrapAdmin(Operator)
    /\ UNCHANGED <<contracts, file, handovers, scriptVars, scenario>>

-----------------------------------------------------------------------------

BootstrapInit ==
    /\ DaoInit
    /\ contracts = <<Uninitialized>>
    /\ run = [r \in Runners |-> NotStarted]
    /\ file = NoFile
    /\ scenario \in Scenarios
    /\ starts = 0 /\ completions = <<>> /\ faults = 0 /\ handovers = 0

Step(r) ==
    \/ CheckAdmin(r) \/ InitializeDao(r) \/ CheckDividend(r) \/ InitializeDividend(r)
    \/ ReadSlot(r) \/ SendSlot(r) \/ SmokeReadback(r) \/ Deposit(r)
    \/ Preflight(r) \/ ReadModules(r) \/ EnsureModule(r) \/ DeployUupsProxy(r)
    \/ ValidateDeployed(r) \/ ModuleReady(r) \/ Finish(r)

BootstrapNext ==
    \/ \E r \in Full \cap scenario.processes, o \in Options : StartFull(r, o[1], o[2])
    \/ \E r \in Smoke \cap scenario.processes, cfg \in scenario.configs : StartSmoke(r, cfg)
    \/ \E r \in Runners : Step(r) \/ CallFails(r) \/ Crash(r)
    \/ \E x \in Addresses : Use(x)
    \/ HandOver
    \/ Migrate
=============================================================================
