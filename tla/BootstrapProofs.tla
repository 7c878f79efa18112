-------------------------- MODULE BootstrapProofs --------------------------
(***************************************************************************)
(* Proofs about the bootstrap and its check: what the state file and the   *)
(* check say of the registry is so, and the check refuses nothing without  *)
(* a cause.  They hold for every number of modules, of runs side by side   *)
(* and of failures.                                                        *)
(***************************************************************************)
EXTENDS BootstrapCheck, FiniteSetTheorems, SequenceTheorems, TLAPS

Pcs == {"idle", "done", "failed", "crashed", "admin", "initialize", "dividend", "initDividend",
        "wire", "send", "readback", "deposit", "preflight", "read", "check", "deploy",
        "validate", "ready", "final"}
Statuses == {"none", "running", "error", "completed", "torn"}

Resolved     == [Modules -> SectionType]
Slots        == [Modules -> Nat]
Blank        == <<>>
ContractType == [kind : Modules, terms : Nat, start : Nat, use : Nat]
RunType      == [pc : Pcs, step : 0 .. Len(Order), config : Resolved \cup {Blank},
                 keeps : BOOLEAN, seen : Slots, made : Slots]
FileType     == [status : Statuses, wiring : Slots, config : Resolved \cup {Blank}]

Shapes ==
    /\ registry \in Slots /\ run \in [Runners -> RunType] /\ file \in FileType
    /\ contracts \in Seq(ContractType) /\ contracts # <<>>
    /\ contracts[Dividend].kind = "dividend"
    /\ scenario \in ScenarioType

\* Each slot is empty or holds a module of its kind.
Fitting == \A m \in Modules : registry[m] # NoAddress =>
              registry[m] \in Addresses /\ contracts[registry[m]].kind = m

\* The module a run has at hand and may not have wired yet.
Loose(r) == IF run[r].pc \in {"validate", "wire", "send"} THEN {Current(r)} ELSE {}

Early == {"admin", "initialize", "dividend", "initDividend"}
Late  == {"read", "check", "deploy", "validate", "ready", "final"}

\* What a run knows: all it has recorded is wired, but for one module at most.
Sound(r) == Active(r) =>
    /\ run[r].config \in Resolved
    /\ run[r].pc \in Early => run[r].step = 0
    /\ run[r].pc \in Late => run[r].step # 0
    /\ run[r].pc \notin Early => run[r].made["dividend"] = Dividend
    /\ \A m \in Modules :
          /\ run[r].seen[m] \in {NoAddress, registry[m]}
          /\ run[r].made[m] # NoAddress => Good(run[r].made[m], m, run[r].config)
          /\ m \notin Loose(r) => run[r].made[m] \in {NoAddress, registry[m]}

\* What the state file says: the same of the run that wrote it.
Truthful ==
    /\ \A m \in Modules : file.wiring[m] # NoAddress =>
          file.config \in Resolved /\ Good(file.wiring[m], m, file.config)
    /\ \E k \in Modules : \A m \in Modules \ {k} : file.wiring[m] \in {NoAddress, registry[m]}
    /\ file.status = "completed" =>
          /\ file.wiring = registry /\ file.config \in Resolved
          /\ \A m \in Modules : registry[m] # NoAddress /\ Good(registry[m], m, file.config)

BootInv == Shapes /\ Fitting /\ Truthful /\ \A r \in Runners : Sound(r)

\* The registry and the contracts in it are for ever: slots are only filled, and
\* contracts stay what they are.
Persists ==
    /\ \A m \in Modules : registry[m] # NoAddress => registry'[m] = registry[m]
    /\ \A x \in Addresses :
          /\ x \in Addresses' /\ contracts'[x].kind = contracts[x].kind
          /\ contracts[x].terms # 0 => contracts'[x].terms = contracts[x].terms

LEMMA OrderFacts ==
    /\ Len(Order) \in Nat \ {0} /\ "dividend" \in Modules
    /\ \A i \in 1 .. Len(Order) : Order[i] \in Modules /\ Order[i] # "dividend"
    /\ Modules \subseteq {"committee", "devToken", "normalToken", "lockup", "project",
                          "acquired", "dividend"}
<1>1. ToSet(AllModules)
        = {"committee", "devToken", "normalToken", "lockup", "project", "acquired"}
  BY DEF AllModules, ToSet
<1>2. Order \in Seq(ToSet(AllModules)) /\ Order # <<>>
      /\ Modules = ToSet(Order) \cup {"dividend"}
  BY BootstrapAssumption
<1>3. Len(Order) \in Nat \ {0} /\ \A i \in 1 .. Len(Order) : Order[i] \in ToSet(AllModules)
  BY <1>2
<1>4. ToSet(Order) = {Order[i] : i \in 1 .. Len(Order)}
  BY <1>2 DEF ToSet
<1>5. QED BY <1>1, <1>2, <1>3, <1>4

LEMMA ResolveType == \A cfg \in Configs : Resolve(cfg) \in Resolved
BY BootstrapAssumption DEF Resolve, Section, Resolved

LEMMA CurrentType == ASSUME Shapes, NEW r \in Runners
                     PROVE  /\ Current(r) \in Modules
                            /\ run[r].step # 0 <=> Current(r) # "dividend"
<1>1. run[r].step \in 0 .. Len(Order)
  BY DEF Shapes, RunType
<1>2. QED BY <1>1, OrderFacts DEF Current

LEMMA GoodPersists ==
    ASSUME Persists, NEW config \in Resolved, NEW m \in Modules, NEW x, Good(x, m, config)
    PROVE  Good(x, m, config)'
<1>1. config[m].terms # 0
  BY DEF Resolved, SectionType
<1>2. QED BY <1>1 DEF Persists, Good, Compared

\* A run that does nothing stays sound.
LEMMA OthersSound ==
    ASSUME Persists, NEW r \in Runners, Sound(r), run'[r] = run[r]
    PROVE  Sound(r)'
<1> SUFFICES ASSUME Active(r) PROVE Sound(r)'
  BY DEF Sound, Active
<1>1. run[r].config \in Resolved /\ Loose(r)' = Loose(r)
  BY DEF Sound, Loose, Current
<1>2. ASSUME NEW m \in Modules
      PROVE  /\ run[r].seen[m] \in {NoAddress, registry'[m]}
             /\ run[r].made[m] # NoAddress => Good(run[r].made[m], m, run[r].config)'
             /\ m \notin Loose(r) => run[r].made[m] \in {NoAddress, registry'[m]}
  <2>1. registry[m] # NoAddress => registry'[m] = registry[m]
    BY DEF Persists
  <2>2. run[r].made[m] # NoAddress => Good(run[r].made[m], m, run[r].config)
    BY DEF Sound
  <2>3. run[r].made[m] # NoAddress => Good(run[r].made[m], m, run[r].config)'
    BY <1>1, <2>2, GoodPersists
  <2>4. QED BY <2>1, <2>3 DEF Sound
<1>3. QED BY <1>1, <1>2 DEF Sound, Active, Good

LEMMA FileKept ==
    ASSUME Shapes, Truthful, Persists, file' = file, registry' \in Slots
    PROVE  Truthful'
<1>1. \E k \in Modules : \A m \in Modules \ {k} : file'.wiring[m] \in {NoAddress, registry'[m]}
  BY DEF Truthful, Persists
<1>0. ASSUME NEW m \in Modules, file'.wiring[m] # NoAddress
      PROVE  file'.config \in Resolved /\ Good(file.wiring[m], m, file.config)'
  <2>1. PICK config \in Resolved : config = file.config
    BY <1>0 DEF Truthful
  <2>2. PICK x : x = file.wiring[m]
    OBVIOUS
  <2>3. Good(x, m, config)'
    BY <1>0, <2>1, <2>2, GoodPersists DEF Truthful
  <2>4. QED BY <2>1, <2>2, <2>3 DEF Good
<1>2. CASE file.status = "completed"
  <2>1. /\ file.wiring = registry /\ file.config \in Resolved
        /\ \A m \in Modules : registry[m] # NoAddress /\ Good(registry[m], m, file.config)
    BY <1>2 DEF Truthful
  <2>2. registry' = registry
    BY <2>1 DEF Persists, Shapes, Slots
  <2>3. \A m \in Modules : Good(registry[m], m, file.config)'
    <3>1. ASSUME NEW m \in Modules PROVE Good(registry[m], m, file.config)'
      <4>1. PICK x \in Nat : x = registry[m]
        BY DEF Shapes, Slots
      <4>2. PICK config \in Resolved : config = file.config
        BY <2>1
      <4>3. Good(x, m, config)'
        BY <2>1, <4>1, <4>2, GoodPersists
      <4>4. registry'[m] = x /\ file'.config = config
        BY <2>2, <4>1, <4>2
      <4>5. QED BY <4>3, <4>4 DEF Good
    <3>2. QED BY <3>1
  <2>4. QED BY <1>0, <1>1, <2>1, <2>2, <2>3 DEF Truthful, Good
<1>3. CASE file.status # "completed"
  BY <1>0, <1>1, <1>3 DEF Truthful, Good
<1>4. QED BY <1>2, <1>3

\* A run writes what it knows, and is sound: so is the file.
LEMMA FileWritten ==
    ASSUME BootInv, NEW r \in Runners, Active(r), run[r].pc \notin Early,
           NEW status \in Statuses, Write(r, status, run[r].made), UNCHANGED <<contracts, registry>>,
           status = "completed" => \A m \in Modules : /\ registry[m] # NoAddress
                                                      /\ registry[m] = run[r].made[m]
    PROVE  file' \in FileType /\ Truthful'
<1>1. run[r] \in RunType /\ file \in FileType /\ registry \in Slots
  BY DEF BootInv, Shapes
<1>2. CASE ~ run[r].keeps
  <2>1. file' = file
    BY <1>2 DEF Write
  <2>2. QED BY <1>1, <2>1 DEF BootInv, Truthful, Good, Addresses
<1>3. CASE run[r].keeps
  <2>1. run[r].made \in Slots /\ run[r].config \in Resolved /\ run[r].made["dividend"] = Dividend
    BY <1>1 DEF BootInv, Sound, RunType
  <2>2. Wiring(run[r].made) = run[r].made
    BY <2>1, OrderFacts DEF Wiring, Slots
  <2>3. file' = [status |-> status, wiring |-> run[r].made, config |-> run[r].config]
    BY <1>3, <2>2 DEF Write
  <2>4. file' \in FileType /\ file'.wiring = run[r].made /\ file'.config = run[r].config
        /\ file'.status = status
    BY <2>1, <2>3 DEF FileType
  <2>5. \E k \in Modules : \A m \in Modules \ {k} : run[r].made[m] \in {NoAddress, registry[m]}
    BY CurrentType DEF BootInv, Sound, Loose
  <2>6. ASSUME status = "completed"
        PROVE  /\ run[r].made = registry
               /\ \A m \in Modules : registry[m] # NoAddress /\ Good(registry[m], m, run[r].config)
    BY <1>1, <2>1, <2>6 DEF BootInv, Sound, Slots
  <2>7. \A m \in Modules : run[r].made[m] # NoAddress => Good(run[r].made[m], m, run[r].config)
    BY DEF BootInv, Sound
  <2>8. QED BY <2>1, <2>4, <2>5, <2>6, <2>7 DEF Truthful, Good, Addresses
<1>4. QED BY <1>2, <1>3

-----------------------------------------------------------------------------
(* Steps of one run that leave the chain alone *)

LEMMA UnchangedPersists == ASSUME UNCHANGED <<contracts, registry>> PROVE Persists
BY DEF Persists, Addresses

LEMMA QuietStep ==
    ASSUME BootInv, UNCHANGED <<contracts, registry, scenario>>,
           NEW r \in Runners, NEW next \in RunType, run' = [run EXCEPT ![r] = next],
           file' \in FileType, Truthful', Sound(r)'
    PROVE  BootInv'
<1>1. run \in [Runners -> RunType]
  BY DEF BootInv, Shapes
<1>2. run' \in [Runners -> RunType] /\ \A q \in Runners \ {r} : run'[q] = run[q]
  BY <1>1
<1>3. Shapes'
  BY <1>2 DEF BootInv, Shapes
<1>4. Fitting'
  BY DEF BootInv, Fitting, Addresses
<1>5. \A q \in Runners \ {r} : Sound(q)'
  BY <1>2, UnchangedPersists, OthersSound DEF BootInv
<1>6. QED BY <1>3, <1>4, <1>5 DEF BootInv

LEMMA FileSame == ASSUME BootInv, UNCHANGED <<contracts, registry, file>>
                  PROVE  file' \in FileType /\ Truthful'
BY DEF BootInv, Shapes, Truthful, Good, Addresses

LEMMA BlankTypes == NotStarted \in RunType /\ NoFile \in FileType
<1> DEFINE none == [m \in Modules |-> NoAddress]
<1>1. none \in Slots /\ 0 \in 0 .. Len(Order) /\ Blank \in Resolved \cup {Blank}
  BY OrderFacts DEF Slots, NoAddress
<1>2. /\ NotStarted = [pc |-> "idle", step |-> 0, config |-> Blank, keeps |-> FALSE,
                       seen |-> none, made |-> none]
      /\ NoFile = [status |-> "none", wiring |-> none, config |-> Blank]
  BY DEF NotStarted, NoFile, Blank
<1> HIDE DEF none
<1>3. QED BY <1>1, <1>2 DEF RunType, FileType, Pcs, Statuses

LEMMA Ended ==
    ASSUME NEW n \in RunType, NEW pc \in Pcs
    PROVE  [n EXCEPT !.pc = pc] \in RunType /\ [n EXCEPT !.pc = pc].pc = pc
BY DEF RunType

LEMMA Torn ==
    ASSUME NEW f \in FileType, NEW status \in Statuses
    PROVE  /\ [f EXCEPT !.status = status] \in FileType
           /\ [f EXCEPT !.status = status].status = status
           /\ [f EXCEPT !.status = status].wiring = f.wiring
BY DEF FileType

Restarted(n, config, keeps) == [n EXCEPT !.pc = "admin", !.config = config, !.keeps = keeps]

LEMMA Started ==
    ASSUME NEW n \in RunType, NEW config \in Resolved, NEW keeps \in BOOLEAN
    PROVE  LET next == Restarted(n, config, keeps)
           IN  /\ next \in RunType /\ next.pc = "admin" /\ next.config = config
               /\ next.step = n.step /\ next.seen = n.seen /\ next.made = n.made
BY DEF RunType, Pcs, Restarted

\* The script ends, well or not.
LEMMA ExitStep ==
    ASSUME BootInv, NEW r \in Runners, NEW pc \in {"done", "failed", "crashed"}, Exit(r, pc),
           UNCHANGED <<contracts, registry, scenario>>, file' \in FileType, Truthful'
    PROVE  BootInv'
<1> DEFINE next == [NotStarted EXCEPT !.pc = pc]
<1>1. next \in RunType /\ next.pc = pc /\ run' = [run EXCEPT ![r] = next]
  <2>1. pc \in Pcs
    BY DEF Pcs
  <2>2. next \in RunType /\ next.pc = pc
    BY <2>1, BlankTypes, Ended, Zenon
  <2>3. QED BY <2>2, Zenon DEF Exit
<1> HIDE DEF next
<1>2. run'[r] = next
  BY <1>1 DEF BootInv, Shapes
<1>3. Sound(r)'
  BY <1>1, <1>2 DEF Sound, Active
<1>4. QED BY <1>1, <1>3, QuietStep

LEMMA FailsStep ==
    ASSUME BootInv, NEW r \in Runners, Active(r), Fails(r),
           UNCHANGED <<contracts, registry, scenario>>
    PROVE  BootInv'
<1>1. CASE Reports(r)
  <2>1. run[r].pc \notin Early /\ Write(r, "error", run[r].made)
    BY <1>1 DEF Fails, Reports, Early
  <2>2. file' \in FileType /\ Truthful'
    BY <2>1, FileWritten DEF Statuses
  <2>3. QED BY <2>2, ExitStep DEF Fails
<1>2. CASE ~ Reports(r)
  BY <1>2, FileSame, ExitStep DEF Fails
<1>3. QED BY <1>1, <1>2

LEMMA CrashStep ==
    ASSUME BootInv, NEW r \in Runners, Crash(r)
    PROVE  BootInv'
<1>1. UNCHANGED <<contracts, registry, scenario>> /\ Exit(r, "crashed")
  BY DEF Crash, daoVars
<1>2. CASE file' = file
  BY <1>1, <1>2, FileSame, ExitStep
<1>3. CASE file' = [NoFile EXCEPT !.status = "torn"]
  <2>1. file' \in FileType /\ file'.status = "torn" /\ file'.wiring = NoFile.wiring
    <3>1. "torn" \in Statuses
      BY DEF Statuses
    <3>2. QED BY <1>3, <3>1, BlankTypes, Torn, Zenon
  <2>2. \A m \in Modules : file'.wiring[m] = NoAddress
    BY <2>1 DEF NoFile
  <2>3. Truthful'
    BY <2>1, <2>2, OrderFacts DEF Truthful
  <2>4. QED BY <1>1, <2>1, <2>3, ExitStep
<1>4. QED BY <1>2, <1>3 DEF Crash

LEMMA StartStep ==
    ASSUME BootInv, NEW r \in Runners, NEW cfg \in Configs, NEW keeps \in BOOLEAN,
           StartRun(r, cfg, keeps), UNCHANGED <<contracts, registry, scenario, file>>
    PROVE  BootInv'
<1> DEFINE next == Restarted(NotStarted, Resolve(cfg), keeps)
<1>1. Resolve(cfg) \in Resolved
  BY ResolveType
<1>2. /\ next \in RunType /\ next.pc = "admin" /\ next.config = Resolve(cfg)
      /\ next.step = NotStarted.step /\ next.seen = NotStarted.seen
      /\ next.made = NotStarted.made
  BY <1>1, BlankTypes, Started
<1>3. run' = [run EXCEPT ![r] = next]
  BY Zenon DEF StartRun, Restarted
<1> HIDE DEF next
<1>4. /\ next.step = 0 /\ next.config \in Resolved
      /\ \A m \in Modules : next.seen[m] = NoAddress /\ next.made[m] = NoAddress
  BY <1>1, <1>2 DEF NotStarted
<1>5. run'[r] = next
  BY <1>3 DEF BootInv, Shapes
<1>6. Sound(r)'
  BY <1>2, <1>4, <1>5 DEF Sound, Early, Late
<1>7. QED BY <1>2, <1>3, <1>6, FileSame, QuietStep

\* A run goes on with what it knows, to a step that admits it.
Admits(r, pc, step) ==
    /\ pc \in Pcs /\ step \in 0 .. Len(Order)
    /\ pc \in Early => step = 0 /\ run[r].pc \in Early
    /\ pc \in Late => step # 0
    /\ pc \notin Early => run[r].made["dividend"] = Dividend
    /\ \/ pc \in {"validate", "wire", "send"} /\ step = run[r].step
       \/ \A m \in Loose(r) : run[r].made[m] \in {NoAddress, registry[m]}

LEMMA MovedStep ==
    ASSUME BootInv, NEW r \in Runners, Active(r), NEW pc, NEW step, Admits(r, pc, step),
           run' = [run EXCEPT ![r].pc = pc, ![r].step = step],
           UNCHANGED <<contracts, registry, scenario>>, file' \in FileType, Truthful'
    PROVE  BootInv'
<1> DEFINE next == [run[r] EXCEPT !.pc = pc, !.step = step]
<1>1. run[r] \in RunType /\ run \in [Runners -> RunType]
  BY DEF BootInv, Shapes
<1>2. /\ next \in RunType /\ next.pc = pc /\ next.step = step /\ next.config = run[r].config
      /\ next.seen = run[r].seen /\ next.made = run[r].made
  BY <1>1 DEF RunType, Admits
<1>3. run' = [run EXCEPT ![r] = next]
  BY <1>1
<1> HIDE DEF next
<1>4. run'[r] = next
  BY <1>1, <1>3
<1>5. \A m \in Modules : m \notin Loose(r)' => run[r].made[m] \in {NoAddress, registry[m]}
  <2>1. \A m \in Modules : m \notin Loose(r) => run[r].made[m] \in {NoAddress, registry[m]}
    BY DEF BootInv, Sound
  <2>2. CASE pc \in {"validate", "wire", "send"} /\ step = run[r].step
    <3>1. Loose(r)' = {Current(r)}
      BY <1>2, <1>4, <2>2 DEF Loose, Current
    <3>2. Loose(r) \subseteq {Current(r)}
      BY DEF Loose
    <3>3. QED BY <2>1, <3>1, <3>2
  <2>3. QED BY <2>1, <2>2 DEF Admits
<1>6. \A m \in Modules : run[r].made[m] # NoAddress => Good(run[r].made[m], m, run[r].config)
  BY DEF BootInv, Sound
<1>7. Sound(r)'
  <2>1. /\ run'[r].pc = pc /\ run'[r].step = step /\ run'[r].config = run[r].config
        /\ run'[r].seen = run[r].seen /\ run'[r].made = run[r].made
    BY <1>2, <1>4
  <2>2. /\ run[r].config \in Resolved
        /\ \A m \in Modules : run[r].seen[m] \in {NoAddress, registry[m]}
    BY DEF BootInv, Sound
  <2>3. \A m \in Modules : run[r].made[m] # NoAddress => Good(run[r].made[m], m, run[r].config)'
    BY <1>6, <2>1 DEF Good, Addresses
  <2>4. QED BY <1>5, <2>1, <2>2, <2>3 DEF Sound, Admits, Good
<1>8. QED BY <1>2, <1>3, <1>7, QuietStep

LEMMA GotoStep ==
    ASSUME BootInv, NEW r \in Runners, Active(r), NEW pc, Admits(r, pc, run[r].step), Goto(r, pc),
           UNCHANGED <<contracts, registry, scenario>>, file' \in FileType, Truthful'
    PROVE  BootInv'
<1>1. run \in [Runners -> RunType]
  BY DEF BootInv, Shapes
<1>2. run' = [run EXCEPT ![r].pc = pc, ![r].step = run[r].step]
  BY <1>1 DEF Goto, RunType
<1>3. QED BY <1>2, MovedStep

\* The step leaves the chain and the file alone.
QuietGoto(r, pc) == Goto(r, pc) /\ UNCHANGED <<contracts, registry, scenario, file>>

LEMMA QuietGotoStep ==
    ASSUME BootInv, NEW r \in Runners, Active(r), NEW pc, Admits(r, pc, run[r].step),
           QuietGoto(r, pc)
    PROVE  BootInv'
BY FileSame, GotoStep DEF QuietGoto

\* A run writes its progress and goes on.
LEMMA ProgressStep ==
    ASSUME BootInv, NEW r \in Runners, Active(r), run[r].pc \notin Early,
           Progress(r, run[r].made), UNCHANGED <<contracts, registry>>
    PROVE  file' \in FileType /\ Truthful'
BY FileWritten DEF Progress, Statuses

\* What is read of the terms of a module is right.
LEMMA ValidTerms ==
    ASSUME Shapes, NEW x \in Addresses, NEW mode, NEW config, Valid(x, mode, config),
           contracts[x].kind \in Compared
    PROVE  contracts[x].terms = config[contracts[x].kind].terms
<1>1. contracts[x].kind \in {"committee", "devToken", "normalToken", "lockup", "dividend"}
  BY OrderFacts DEF Compared
<1>2. CASE contracts[x].kind = "committee"
  BY <1>2 DEF Valid, CommitteeValid
<1>3. CASE contracts[x].kind = "devToken"
  BY <1>3 DEF Valid, DevTokenValid
<1>4. CASE contracts[x].kind = "normalToken"
  BY <1>4 DEF Valid, NormalTokenValid
<1>5. CASE contracts[x].kind = "lockup"
  BY <1>5 DEF Valid, TokenLockupValid
<1>6. CASE contracts[x].kind = "dividend"
  BY <1>6 DEF Valid, DividendValid
<1>7. QED BY <1>1, <1>2, <1>3, <1>4, <1>5, <1>6

\* What every step takes from the invariant about the run that makes it.
LEMMA Known ==
    ASSUME BootInv, NEW r \in Runners, Active(r)
    PROVE  /\ run[r] \in RunType /\ run[r].config \in Resolved /\ run[r].step \in 0 .. Len(Order)
           /\ run[r].pc \in Pcs /\ run[r].made \in Slots /\ run[r].seen \in Slots
           /\ Current(r) \in Modules /\ (run[r].step # 0 <=> Current(r) # "dividend")
           /\ run[r].pc \in Early => run[r].step = 0
           /\ run[r].pc \in Late => run[r].step # 0
           /\ run[r].pc \notin Early => run[r].made["dividend"] = Dividend
           /\ \A m \in Modules :
                 /\ run[r].seen[m] \in {NoAddress, registry[m]}
                 /\ run[r].made[m] # NoAddress => Good(run[r].made[m], m, run[r].config)
                 /\ m \notin Loose(r) => run[r].made[m] \in {NoAddress, registry[m]}
BY CurrentType DEF BootInv, Shapes, Sound, RunType

LEMMA CheckAdminStep == ASSUME BootInv, NEW r \in Runners, CheckAdmin(r) PROVE BootInv'
<1>1. run[r].pc = "admin" /\ Active(r) /\ UNCHANGED <<contracts, registry, scenario>>
  BY DEF CheckAdmin, Active, daoVars
<1>2. Admits(r, "initialize", run[r].step) /\ Admits(r, "dividend", run[r].step)
  BY <1>1, Known DEF Admits, Early, Late, Pcs, Loose
<1>3. CASE bootstrapAdmin = NoAccount
  BY <1>1, <1>2, <1>3, QuietGotoStep DEF CheckAdmin, QuietGoto
<1>4. CASE bootstrapAdmin = Operator
  <2>1. bootstrapAdmin # NoAccount
    BY <1>4, BootstrapAssumption, DaoAssumption
  <2>2. QED BY <1>1, <1>2, <1>4, <2>1, QuietGotoStep DEF CheckAdmin, QuietGoto
<1>5. CASE bootstrapAdmin \notin {NoAccount, Operator}
  BY <1>1, <1>5, FailsStep DEF CheckAdmin
<1>6. QED BY <1>3, <1>4, <1>5

LEMMA InitializeDaoStep == ASSUME BootInv, NEW r \in Runners, InitializeDao(r) PROVE BootInv'
<1>1. run[r].pc = "initialize" /\ Active(r) /\ UNCHANGED <<contracts, registry, scenario>>
  BY DEF InitializeDao, Active, daoVars, Initialize
<1>2. Admits(r, "dividend", run[r].step)
  BY <1>1, Known DEF Admits, Early, Late, Pcs, Loose
<1>3. CASE Goto(r, "dividend") /\ UNCHANGED file
  BY <1>1, <1>2, <1>3, QuietGotoStep DEF QuietGoto
<1>4. CASE Fails(r)
  BY <1>1, <1>4, FailsStep
<1>5. QED BY <1>3, <1>4 DEF InitializeDao

LEMMA AfterWiringAdmitted ==
    ASSUME BootInv, NEW r \in Runners, Active(r), run[r].pc \in {"wire", "send"}
    PROVE  /\ AfterWiring(r) \in {"readback", "preflight", "ready"}
           /\ AfterWiring(r) = "ready" => run[r].step # 0
<1>1. r \in Full \/ r \in Smoke
  BY DEF Runners
<1>2. CASE r \in Smoke
  BY <1>2 DEF AfterWiring
<1>3. CASE r \notin Smoke
  BY <1>1, <1>3 DEF AfterWiring
<1>4. QED BY <1>2, <1>3

LEMMA ReadSlotStep == ASSUME BootInv, NEW r \in Runners, ReadSlot(r) PROVE BootInv'
<1>1. run[r].pc = "wire" /\ Active(r) /\ UNCHANGED <<contracts, registry, scenario>>
  BY DEF ReadSlot, Active, daoVars
<1>2. CASE registry[Current(r)] = NoAddress
  <2>1. Admits(r, "send", run[r].step)
    BY <1>1, Known DEF Admits, Early, Late, Pcs
  <2>2. QED BY <1>1, <1>2, <2>1, QuietGotoStep DEF ReadSlot, QuietGoto
<1>3. CASE registry[Current(r)] # NoAddress /\ WiredBy(r)
  <2>1. Loose(r) = {Current(r)} /\ run[r].made[Current(r)] = registry[Current(r)]
    BY <1>1, <1>3 DEF Loose, WiredBy
  <2>2. Admits(r, AfterWiring(r), run[r].step)
    BY <1>1, <2>1, Known, AfterWiringAdmitted DEF Admits, Early, Late, Pcs
  <2>3. QED BY <1>1, <1>3, <2>2, QuietGotoStep DEF ReadSlot, QuietGoto
<1>4. CASE registry[Current(r)] # NoAddress /\ ~ WiredBy(r)
  BY <1>1, <1>4, FailsStep DEF ReadSlot
<1>5. QED BY <1>2, <1>3, <1>4

LEMMA SmokeReadbackStep == ASSUME BootInv, NEW r \in Runners, SmokeReadback(r) PROVE BootInv'
<1>1. /\ run[r].pc = "readback" /\ Active(r)
      /\ UNCHANGED <<contracts, registry, scenario, file>>
  BY DEF SmokeReadback, Active, daoVars
<1>2. Admits(r, "deposit", run[r].step)
  BY <1>1, Known DEF Admits, Early, Late, Pcs, Loose
<1>3. CASE Goto(r, "deposit")
  BY <1>1, <1>2, <1>3, QuietGotoStep DEF QuietGoto
<1>4. CASE Exit(r, "failed")
  BY <1>1, <1>4, FileSame, ExitStep
<1>5. QED BY <1>3, <1>4 DEF SmokeReadback

LEMMA DepositStep == ASSUME BootInv, NEW r \in Runners, Deposit(r) PROVE BootInv'
<1>1. UNCHANGED <<contracts, registry, scenario, file>>
      /\ \E pc \in {"done", "failed"} : Exit(r, pc)
  BY DEF Deposit, daoVars
<1>2. QED BY <1>1, FileSame, ExitStep

LEMMA PreflightStep == ASSUME BootInv, NEW r \in Runners, Preflight(r) PROVE BootInv'
<1>1. /\ run[r].pc = "preflight" /\ Active(r) /\ run[r].pc \notin Early
      /\ UNCHANGED <<contracts, registry, scenario>>
  BY DEF Preflight, Active, daoVars, Early
<1>2. Admits(r, "read", 1)
  BY <1>1, Known, OrderFacts DEF Admits, Early, Late, Pcs, Loose
<1>3. file' \in FileType /\ Truthful'
  BY <1>1, ProgressStep DEF Preflight
<1>4. QED BY <1>1, <1>2, <1>3, MovedStep DEF Preflight

LEMMA ModuleReadyStep == ASSUME BootInv, NEW r \in Runners, ModuleReady(r) PROVE BootInv'
<1>1. /\ run[r].pc = "ready" /\ Active(r) /\ run[r].pc \notin Early
      /\ UNCHANGED <<contracts, registry, scenario>>
  BY DEF ModuleReady, Active, daoVars, Early
<1> DEFINE pc == IF LastModule(r) THEN "final" ELSE "check"
           step == IF LastModule(r) THEN run[r].step ELSE run[r].step + 1
<1>2. Admits(r, pc, step)
  BY <1>1, Known, OrderFacts DEF Admits, Early, Late, Pcs, Loose, LastModule
<1>3. file' \in FileType /\ Truthful'
  BY <1>1, ProgressStep DEF ModuleReady
<1>4. run' = [run EXCEPT ![r].pc = pc, ![r].step = step]
  BY DEF ModuleReady
<1>5. QED BY <1>1, <1>2, <1>3, <1>4, MovedStep

LEMMA ValidateDeployedStep == ASSUME BootInv, NEW r \in Runners, ValidateDeployed(r) PROVE BootInv'
<1>1. /\ run[r].pc = "validate" /\ Active(r) /\ run[r].pc \notin Early
      /\ UNCHANGED <<contracts, registry, scenario>>
  BY DEF ValidateDeployed, Active, daoVars, Early
<1>2. Admits(r, "wire", run[r].step)
  BY <1>1, Known DEF Admits, Early, Late, Pcs
<1>3. CASE Goto(r, "wire") /\ Progress(r, run[r].made)
  BY <1>1, <1>2, <1>3, ProgressStep, GotoStep
<1>4. CASE Fails(r)
  BY <1>1, <1>4, FailsStep
<1>5. QED BY <1>3, <1>4 DEF ValidateDeployed

LEMMA FinishStep == ASSUME BootInv, NEW r \in Runners, Finish(r) PROVE BootInv'
<1>1. /\ run[r].pc = "final" /\ Active(r) /\ run[r].pc \notin Early
      /\ UNCHANGED <<contracts, registry, scenario>>
  BY DEF Finish, Active, daoVars, Early
<1>2. CASE \A m \in Modules : registry[m] # NoAddress /\ registry[m] = run[r].made[m]
  <2>1. Exit(r, "done") /\ Write(r, "completed", run[r].made)
    BY <1>2 DEF Finish
  <2>2. file' \in FileType /\ Truthful'
    BY <1>1, <1>2, <2>1, FileWritten DEF Statuses
  <2>3. QED BY <1>1, <2>1, <2>2, ExitStep
<1>3. CASE ~ \A m \in Modules : registry[m] # NoAddress /\ registry[m] = run[r].made[m]
  BY <1>1, <1>3, FailsStep DEF Finish
<1>4. QED BY <1>2, <1>3

-----------------------------------------------------------------------------
(* Steps of one run that change the chain, or what the run knows *)

\* What a step that changes contracts or slots must keep.
ChainKept ==
    /\ Persists /\ Fitting' /\ registry' \in Slots
    /\ contracts' \in Seq(ContractType) /\ contracts' # <<>>
    /\ scenario' = scenario

LEMMA ChainStep ==
    ASSUME BootInv, ChainKept, file' = file,
           NEW r \in Runners, NEW next \in RunType, run' = [run EXCEPT ![r] = next], Sound(r)'
    PROVE  BootInv'
<1>1. run \in [Runners -> RunType]
  BY DEF BootInv, Shapes
<1>2. run' \in [Runners -> RunType] /\ \A q \in Runners \ {r} : run'[q] = run[q]
  BY <1>1
<1>3. contracts'[Dividend].kind = "dividend"
  BY DEF BootInv, Shapes, ChainKept, Persists, Addresses, Dividend
<1>4. Shapes'
  BY <1>2, <1>3 DEF BootInv, Shapes, ChainKept
<1>5. Truthful'
  BY FileKept DEF BootInv, ChainKept
<1>6. \A q \in Runners \ {r} : Sound(q)'
  BY <1>2, OthersSound DEF BootInv, ChainKept
<1>7. QED BY <1>4, <1>5, <1>6 DEF BootInv, ChainKept

\* The world goes on, and no run does.
LEMMA WorldStep ==
    ASSUME BootInv, ChainKept, file' = file, run' = run
    PROVE  BootInv'
<1>1. contracts'[Dividend].kind = "dividend"
  BY DEF BootInv, Shapes, ChainKept, Persists, Addresses, Dividend
<1>2. Shapes'
  BY <1>1 DEF BootInv, Shapes, ChainKept
<1>3. Truthful'
  BY FileKept DEF BootInv, ChainKept
<1>4. \A q \in Runners : Sound(q)'
  BY OthersSound DEF BootInv, ChainKept
<1>5. QED BY <1>2, <1>3, <1>4 DEF BootInv, ChainKept

LEMMA ChainSame == ASSUME BootInv, UNCHANGED <<contracts, registry, scenario>> PROVE ChainKept
BY UnchangedPersists DEF BootInv, Shapes, Fitting, Addresses, ChainKept

LEMMA SameContracts ==
    ASSUME NEW m \in Modules, NEW x, NEW config, contracts' = contracts, Good(x, m, config)
    PROVE  Good(x, m, config)'
BY DEF Good, Addresses, Compared

\* The dividend of the run is the one of the chain; what else it knows stays.
LEMMA DividendKnown ==
    ASSUME BootInv, ChainKept, file' = file, NEW r \in Runners, Active(r), run[r].pc \in Early,
           Good(Dividend, "dividend", run[r].config)',
           run' = [run EXCEPT ![r].pc = "wire", ![r].made["dividend"] = Dividend]
    PROVE  BootInv'
<1>1. run[r] \in RunType /\ run \in [Runners -> RunType] /\ run[r].step = 0
      /\ run[r].config \in Resolved /\ run[r].made \in Slots
  BY Known DEF BootInv, Shapes
<1>2. [run[r].made EXCEPT !["dividend"] = Dividend] \in Slots
  BY <1>1, OrderFacts DEF Slots, Dividend
<1>3. PICK next \in RunType :
         /\ run' = [run EXCEPT ![r] = next]
         /\ next.pc = "wire" /\ next.step = 0 /\ next.config = run[r].config
         /\ next.seen = run[r].seen /\ next.made = [run[r].made EXCEPT !["dividend"] = Dividend]
  <2> DEFINE n == [run[r] EXCEPT !.pc = "wire", !.made["dividend"] = Dividend]
  <2>1. /\ n \in RunType /\ n.pc = "wire" /\ n.step = 0 /\ n.config = run[r].config
        /\ n.seen = run[r].seen /\ n.made = [run[r].made EXCEPT !["dividend"] = Dividend]
    BY <1>1, <1>2 DEF RunType, Pcs
  <2>2. run' = [run EXCEPT ![r] = n]
    BY <1>1
  <2> HIDE DEF n
  <2>3. QED BY <2>1, <2>2
<1>4. run'[r] = next
  BY <1>1, <1>3
<1>5. Loose(r)' = {"dividend"} /\ Loose(r) = {}
  BY <1>3, <1>4 DEF Loose, Current, Early
<1>6. ASSUME NEW m \in Modules
      PROVE  /\ next.seen[m] \in {NoAddress, registry'[m]}
             /\ next.made[m] # NoAddress => Good(next.made[m], m, next.config)'
             /\ m \notin Loose(r)' => next.made[m] \in {NoAddress, registry'[m]}
  <2>1. registry[m] # NoAddress => registry'[m] = registry[m]
    BY DEF ChainKept, Persists
  <2>2. CASE m = "dividend"
    <3>1. next.made[m] = Dividend /\ next.config = run[r].config
      BY <1>1, <1>3, <2>2 DEF Slots
    <3>2. Good(next.made[m], m, next.config)'
      BY <1>3, <1>4, <2>2, <3>1 DEF Good
    <3>3. QED BY <1>3, <1>5, <2>1, <2>2, <3>2, Known
  <2>3. CASE m # "dividend"
    <3>1. next.made[m] = run[r].made[m]
      BY <1>1, <1>3, <2>3 DEF Slots
    <3>2. next.made[m] # NoAddress => Good(next.made[m], m, run[r].config)
      BY <3>1, Known
    <3>3. next.made[m] # NoAddress => Good(next.made[m], m, next.config)'
      BY <1>1, <1>3, <3>2, GoodPersists DEF ChainKept
    <3>4. next.made[m] \in {NoAddress, registry'[m]}
      BY <1>5, <2>1, <3>1, Known
    <3>5. QED BY <1>3, <2>1, <3>3, <3>4, Known
  <2>4. QED BY <2>2, <2>3
<1>7. next.made["dividend"] = Dividend
  BY <1>1, <1>3, OrderFacts DEF Slots
<1>8. Sound(r)'
  BY <1>1, <1>3, <1>4, <1>6, <1>7 DEF Sound, Late, Good
<1>9. QED BY <1>3, <1>8, ChainStep

LEMMA CheckDividendStep == ASSUME BootInv, NEW r \in Runners, CheckDividend(r) PROVE BootInv'
<1>1. /\ run[r].pc = "dividend" /\ Active(r) /\ run[r].pc \in Early
      /\ UNCHANGED <<contracts, registry, scenario>>
  BY DEF CheckDividend, Active, daoVars, Early
<1>2. CASE contracts[Dividend].terms = 0
  <2>1. Admits(r, "initDividend", run[r].step)
    BY <1>1, Known DEF Admits, Early, Late, Pcs, Loose
  <2>2. QED BY <1>1, <1>2, <2>1, QuietGotoStep DEF CheckDividend, QuietGoto
<1>3. CASE contracts[Dividend].terms # 0 /\ Valid(Dividend, "existing", run[r].config)
  <2>1. Dividend \in Addresses /\ contracts[Dividend].kind = "dividend"
    BY DEF BootInv, Shapes, Addresses, Dividend
  <2>2. Good(Dividend, "dividend", run[r].config)
    BY <1>3, <2>1, ValidTerms DEF Good, BootInv
  <2>3. run'[r].config = run[r].config
    BY <1>1, <1>3, Known DEF CheckDividend, BootInv, Shapes, RunType
  <2>4. Good(Dividend, "dividend", run[r].config)'
    BY <1>1, <2>2, <2>3 DEF Good, Addresses
  <2>5. QED BY <1>1, <1>3, <2>4, ChainSame, DividendKnown DEF CheckDividend
<1>4. CASE contracts[Dividend].terms # 0 /\ ~ Valid(Dividend, "existing", run[r].config)
  BY <1>1, <1>4, FailsStep DEF CheckDividend
<1>5. QED BY <1>2, <1>3, <1>4

\* One field of one contract changes, and neither its kind nor terms that are set.
LEMMA ContractChanged ==
    ASSUME BootInv, UNCHANGED <<registry, scenario>>, NEW x \in Addresses,
           NEW c \in ContractType, contracts' = [contracts EXCEPT ![x] = c],
           c.kind = contracts[x].kind, contracts[x].terms # 0 => c.terms = contracts[x].terms
    PROVE  ChainKept /\ contracts'[x] = c
<1>1. contracts \in Seq(ContractType) /\ contracts # <<>> /\ registry \in Slots
  BY DEF BootInv, Shapes
<1>2. /\ contracts' \in Seq(ContractType) /\ contracts' # <<>> /\ Addresses' = Addresses
      /\ contracts'[x] = c /\ \A y \in Addresses \ {x} : contracts'[y] = contracts[y]
  BY <1>1 DEF Addresses
<1>3. \A y \in Addresses : /\ contracts'[y].kind = contracts[y].kind
                           /\ contracts[y].terms # 0 => contracts'[y].terms = contracts[y].terms
  BY <1>2
<1>4. Persists
  BY <1>2, <1>3 DEF Persists
<1>5. Fitting'
  BY <1>2, <1>3 DEF BootInv, Fitting
<1>6. QED BY <1>1, <1>2, <1>4, <1>5 DEF ChainKept

LEMMA InitializeDividendStep ==
    ASSUME BootInv, NEW r \in Runners, InitializeDividend(r) PROVE BootInv' /\ Persists
<1>1. /\ run[r].pc = "initDividend" /\ Active(r) /\ run[r].pc \in Early
      /\ UNCHANGED <<registry, scenario>>
  BY DEF InitializeDividend, Active, daoVars, Early
<1>2. CASE Fails(r) /\ UNCHANGED contracts
  BY <1>1, <1>2, FailsStep, UnchangedPersists
<1>3. CASE /\ contracts[Dividend].terms = 0
           /\ contracts' = [contracts EXCEPT ![Dividend].terms = run[r].config["dividend"].terms]
           /\ run' = [run EXCEPT ![r].pc = "wire", ![r].made["dividend"] = Dividend]
           /\ UNCHANGED file
  <2>1. /\ Dividend \in Addresses /\ contracts[Dividend] \in ContractType
        /\ contracts[Dividend].kind = "dividend" /\ contracts \in Seq(ContractType)
    BY DEF BootInv, Shapes, Addresses, Dividend
  <2>2. PICK terms \in Nat : terms = run[r].config["dividend"].terms
    BY <1>1, Known, OrderFacts DEF Resolved, SectionType
  <2>3. PICK c \in ContractType : /\ c.kind = "dividend" /\ c.terms = terms
                                  /\ c = [contracts[Dividend] EXCEPT !.terms = terms]
    BY <2>1 DEF ContractType
  <2>4. contracts' = [contracts EXCEPT ![Dividend] = c]
    BY <1>3, <2>1, <2>2, <2>3
  <2>5. ChainKept /\ contracts'[Dividend] = c
    <3>1. contracts[Dividend].terms # 0 => c.terms = contracts[Dividend].terms
      BY <1>3
    <3>2. c.kind = contracts[Dividend].kind
      BY <2>1, <2>3
    <3>3. UNCHANGED <<registry, scenario>>
      BY <1>1
    <3> HIDE <1>1, <1>3
    <3>4. QED BY <2>1, <2>4, <3>1, <3>2, <3>3, ContractChanged
  <2>6. run'[r].config = run[r].config
    BY <1>1, <1>3, Known DEF BootInv, Shapes, RunType
  <2>7. Good(Dividend, "dividend", run[r].config)'
    BY <2>1, <2>2, <2>3, <2>5, <2>6 DEF Good, ChainKept, Persists
  <2>8. QED BY <1>1, <1>3, <2>5, <2>7, DividendKnown DEF ChainKept
<1>4. QED BY <1>2, <1>3 DEF InitializeDividend

LEMMA SendSlotStep == ASSUME BootInv, NEW r \in Runners, SendSlot(r) PROVE BootInv' /\ Persists
<1> DEFINE k == Current(r)
           x == run[r].made[k]
<1>1. run[r].pc = "send" /\ Active(r) /\ UNCHANGED <<contracts, scenario>> /\ Loose(r) = {k}
  BY DEF SendSlot, Active, Loose
<1>2. CASE Fails(r) /\ UNCHANGED daoVars
  BY <1>1, <1>2, FailsStep, UnchangedPersists DEF daoVars
<1>3. CASE /\ MaySet(Operator, k, x \in Addresses) /\ SetAddress(k, x)
           /\ Goto(r, AfterWiring(r)) /\ UNCHANGED file
  <2>1. k \in Modules /\ registry \in Slots /\ run \in [Runners -> RunType]
    BY <1>1, Known DEF BootInv, Shapes
  <2>2. registry[k] = NoAddress /\ x \in Addresses /\ registry' = [registry EXCEPT ![k] = x]
    BY <1>3 DEF MaySet, SetAddress
  <2>3. x \in Nat /\ x # NoAddress
    BY <2>2 DEF Addresses, NoAddress, BootInv, Shapes
  <2>4. Good(x, k, run[r].config)
    BY <1>1, <2>1, <2>3, Known
  <2>5. registry' \in Slots /\ registry'[k] = x
        /\ \A m \in Modules \ {k} : registry'[m] = registry[m]
    BY <2>1, <2>2, <2>3 DEF Slots
  <2>6. Persists
    BY <1>1, <2>2, <2>5 DEF Persists, Addresses
  <2>7. Fitting'
    BY <1>1, <2>1, <2>2, <2>4, <2>5 DEF BootInv, Fitting, Good, Addresses
  <2>8. ChainKept
    BY <1>1, <2>5, <2>6, <2>7 DEF ChainKept, BootInv, Shapes
  <2>9. PICK next \in RunType :
           /\ run' = [run EXCEPT ![r] = next] /\ next.pc = AfterWiring(r)
           /\ next.step = run[r].step /\ next.config = run[r].config
           /\ next.seen = run[r].seen /\ next.made = run[r].made
    <3>1. PICK pc \in Pcs : pc = AfterWiring(r)
      BY <1>1, AfterWiringAdmitted DEF Pcs
    <3> DEFINE n == [run[r] EXCEPT !.pc = pc]
    <3>2. /\ n \in RunType /\ n.pc = pc /\ n.step = run[r].step /\ n.config = run[r].config
          /\ n.seen = run[r].seen /\ n.made = run[r].made
      BY <2>1 DEF RunType
    <3>3. run' = [run EXCEPT ![r] = n]
      BY <1>3, <2>1, <3>1 DEF Goto
    <3> HIDE DEF n
    <3>4. QED BY <3>1, <3>2, <3>3
  <2>10. run'[r] = next
    BY <2>1, <2>9
  <2>11. /\ next.pc \in {"readback", "preflight", "ready"}
         /\ next.pc = "ready" => next.step # 0
    BY <1>1, <2>9, AfterWiringAdmitted
  <2>12. Loose(r)' = {}
    BY <2>10, <2>11 DEF Loose
  <2>13. ASSUME NEW m \in Modules
         PROVE  /\ next.seen[m] \in {NoAddress, registry'[m]}
                /\ next.made[m] # NoAddress => Good(next.made[m], m, next.config)'
                /\ next.made[m] \in {NoAddress, registry'[m]}
    <3>1. next.made[m] # NoAddress => Good(next.made[m], m, next.config)
      BY <1>1, <2>9, Known
    <3>2. next.made[m] # NoAddress => Good(next.made[m], m, next.config)'
      BY <1>1, <2>6, <2>9, <3>1, GoodPersists, Known
    <3>3. next.seen[m] \in {NoAddress, registry'[m]}
      BY <1>1, <2>5, <2>2, <2>9, Known
    <3>4. next.made[m] \in {NoAddress, registry'[m]}
      BY <1>1, <2>5, <2>9, Known
    <3>5. QED BY <3>2, <3>3, <3>4
  <2>14. next.made["dividend"] = Dividend /\ next.config \in Resolved
    BY <1>1, <2>9, Known DEF Early
  <2>15. Sound(r)'
    BY <2>10, <2>11, <2>12, <2>13, <2>14 DEF Sound, Early, Late, Good
  <2>16. QED BY <1>3, <2>6, <2>8, <2>9, <2>15, ChainStep
<1>4. QED BY <1>2, <1>3 DEF SendSlot

LEMMA ReadModulesStep == ASSUME BootInv, NEW r \in Runners, ReadModules(r) PROVE BootInv'
<1> DEFINE k == Current(r)
<1>1. /\ run[r].pc = "read" /\ Active(r) /\ Loose(r) = {}
      /\ UNCHANGED <<contracts, registry, scenario, file>>
  BY DEF ReadModules, Active, daoVars, Loose
<1>2. k \in Modules /\ run[r] \in RunType /\ registry \in Slots /\ run \in [Runners -> RunType]
      /\ run[r].step \in 1 .. Len(Order)
  BY <1>1, Known, OrderFacts DEF BootInv, Shapes, Late
<1>3. PICK seen \in Slots : seen = [run[r].seen EXCEPT ![k] = registry[k]]
  BY <1>2 DEF RunType, Slots
<1>4. PICK pc \in {"read", "check"}, step \in 1 .. Len(Order) :
         /\ pc = IF LastModule(r) THEN "check" ELSE "read"
         /\ step = IF LastModule(r) THEN 1 ELSE run[r].step + 1
  BY <1>2, OrderFacts DEF LastModule
<1>5. PICK next \in RunType :
         /\ run' = [run EXCEPT ![r] = next]
         /\ next.pc = pc /\ next.step = step /\ next.config = run[r].config
         /\ next.seen = seen /\ next.made = run[r].made
  <2> DEFINE n == [run[r] EXCEPT !.seen = seen, !.pc = pc, !.step = step]
  <2>1. /\ n \in RunType /\ n.pc = pc /\ n.step = step /\ n.config = run[r].config
        /\ n.seen = seen /\ n.made = run[r].made
    <3>1. pc \in Pcs /\ step \in 0 .. Len(Order) /\ run[r] \in RunType
      BY <1>2, OrderFacts DEF Pcs
    <3>2. QED BY <3>1 DEF RunType
  <2>2. run' = [run EXCEPT ![r] = n]
    BY <1>2, <1>3, <1>4 DEF ReadModules, RunType
  <2> HIDE DEF n
  <2>3. QED BY <2>1, <2>2
<1>6. run'[r] = next
  BY <1>2, <1>5
<1>7. Loose(r)' = {}
  BY <1>4, <1>5, <1>6 DEF Loose
<1>8. ASSUME NEW m \in Modules
      PROVE  /\ next.seen[m] \in {NoAddress, registry[m]}
             /\ next.made[m] # NoAddress => Good(next.made[m], m, next.config)'
             /\ next.made[m] \in {NoAddress, registry[m]}
  <2>1. next.made[m] # NoAddress => Good(next.made[m], m, next.config)
    BY <1>1, <1>5, Known
  <2>2. next.made[m] # NoAddress => Good(next.made[m], m, next.config)'
    BY <1>1, <2>1, SameContracts
  <2>3. run[r].seen[m] \in {NoAddress, registry[m]} /\ run[r].made[m] \in {NoAddress, registry[m]}
    BY <1>1, Known
  <2>4. next.seen[m] \in {NoAddress, registry[m]}
    BY <1>2, <1>3, <1>5, <2>3 DEF RunType, Slots
  <2>5. QED BY <1>5, <2>2, <2>3, <2>4
<1>9. next.made["dividend"] = Dividend /\ next.config \in Resolved
  BY <1>1, <1>5, Known DEF Early
<1>10. Sound(r)'
  BY <1>1, <1>4, <1>5, <1>6, <1>7, <1>8, <1>9 DEF Sound, Early, Late, Good
<1>11. QED BY <1>1, <1>5, <1>10, FileSame, QuietStep

LEMMA EnsureModuleStep == ASSUME BootInv, NEW r \in Runners, EnsureModule(r) PROVE BootInv'
<1> DEFINE k == Current(r)
           x == run[r].seen[k]
<1>1. /\ run[r].pc = "check" /\ Active(r) /\ run[r].pc \notin Early /\ Loose(r) = {}
      /\ UNCHANGED <<contracts, registry, scenario>>
  BY DEF EnsureModule, Active, daoVars, Early, Loose
<1>2. CASE x = NoAddress
  <2>1. Goto(r, "deploy") /\ Progress(r, run[r].made)
    BY <1>2 DEF EnsureModule
  <2>2. Admits(r, "deploy", run[r].step)
    BY <1>1, Known DEF Admits, Early, Late, Pcs
  <2>3. QED BY <1>1, <2>1, <2>2, ProgressStep, GotoStep
<1>3. CASE x # NoAddress /\ ~ Usable(r, x)
  BY <1>1, <1>3, FailsStep DEF EnsureModule
<1>4. CASE x # NoAddress /\ Usable(r, x)
  <2>1. /\ run' = [run EXCEPT ![r].pc = "ready", ![r].made[k] = x]
        /\ Progress(r, run[r].made)
    BY <1>4 DEF EnsureModule
  <2>2. k \in Modules /\ run[r] \in RunType /\ run \in [Runners -> RunType] /\ k # "dividend"
        /\ registry \in Slots /\ run[r].step # 0
    BY <1>1, Known DEF BootInv, Shapes, Late
  <2>3. x = registry[k]
    BY <1>1, <1>4, <2>2, Known
  <2>4. x \in Addresses /\ contracts[x].kind = k
    BY <1>4, <2>2, <2>3 DEF BootInv, Fitting
  <2>5. Good(x, k, run[r].config)
    BY <1>4, <2>4, ValidTerms DEF Good, Usable, BootInv
  <2>6. PICK made \in Slots : made = [run[r].made EXCEPT ![k] = x]
    BY <2>2, <2>3 DEF RunType, Slots
  <2>7. PICK next \in RunType :
           /\ run' = [run EXCEPT ![r] = next]
           /\ next.pc = "ready" /\ next.step = run[r].step /\ next.config = run[r].config
           /\ next.seen = run[r].seen /\ next.made = made
    <3> DEFINE n == [run[r] EXCEPT !.pc = "ready", !.made = made]
    <3>1. /\ n \in RunType /\ n.pc = "ready" /\ n.step = run[r].step /\ n.config = run[r].config
          /\ n.seen = run[r].seen /\ n.made = made
      BY <2>2 DEF RunType, Pcs
    <3>2. run' = [run EXCEPT ![r] = n]
      BY <2>1, <2>2, <2>6 DEF RunType
    <3> HIDE DEF n
    <3>3. QED BY <3>1, <3>2
  <2>8. run'[r] = next
    BY <2>2, <2>7
  <2>9. Loose(r)' = {}
    BY <2>7, <2>8 DEF Loose
  <2>10. ASSUME NEW m \in Modules
         PROVE  /\ next.seen[m] \in {NoAddress, registry[m]}
                /\ next.made[m] # NoAddress => Good(next.made[m], m, next.config)'
                /\ next.made[m] \in {NoAddress, registry[m]}
    <3>1. /\ run[r].made[m] # NoAddress => Good(run[r].made[m], m, run[r].config)
          /\ run[r].made[m] \in {NoAddress, registry[m]}
          /\ run[r].seen[m] \in {NoAddress, registry[m]}
      BY <1>1, Known
    <3>2. next.made[m] = IF m = k THEN x ELSE run[r].made[m]
      BY <2>2, <2>6, <2>7 DEF RunType, Slots
    <3>3. next.made[m] # NoAddress => Good(next.made[m], m, next.config)
      BY <2>5, <2>7, <3>1, <3>2
    <3>4. next.made[m] # NoAddress => Good(next.made[m], m, next.config)'
      BY <1>1, <3>3, SameContracts
    <3>5. QED BY <2>3, <2>7, <3>1, <3>2, <3>4
  <2>11. next.made["dividend"] = Dividend /\ next.config \in Resolved
    BY <1>1, <2>2, <2>6, <2>7, Known, OrderFacts DEF RunType, Slots
  <2>12. Sound(r)'
    BY <1>1, <2>2, <2>7, <2>8, <2>9, <2>10, <2>11 DEF Sound, Early, Late, Good
  <2>13. file' \in FileType /\ Truthful'
    BY <1>1, <2>1, ProgressStep
  <2>14. QED BY <1>1, <2>7, <2>12, <2>13, QuietStep
<1>5. QED BY <1>2, <1>3, <1>4

LEMMA DeployStep == ASSUME BootInv, NEW r \in Runners, DeployUupsProxy(r) PROVE BootInv' /\ Persists
<1> DEFINE k == Current(r)
           x == Len(contracts) + 1
<1>1. /\ run[r].pc = "deploy" /\ Active(r) /\ Loose(r) = {}
      /\ UNCHANGED <<registry, scenario, file>>
  BY DEF DeployUupsProxy, Active, daoVars, Loose
<1>2. k \in Modules /\ run[r] \in RunType /\ run \in [Runners -> RunType] /\ k # "dividend"
      /\ registry \in Slots /\ run[r].step # 0 /\ run[r].config \in Resolved
      /\ contracts \in Seq(ContractType) /\ contracts # <<>>
  BY <1>1, Known DEF BootInv, Shapes, Late
<1>3. PICK c \in ContractType : /\ c = NewContract(k, run[r].config[k])
                                /\ c.kind = k /\ c.terms = run[r].config[k].terms
  <2>1. PICK section \in SectionType : section = run[r].config[k]
    BY <1>2 DEF Resolved
  <2>2. NewContract(k, section) \in ContractType
    BY <1>2, <2>1 DEF NewContract, ContractType, SectionType
  <2>3. NewContract(k, section).kind = k /\ NewContract(k, section).terms = section.terms
    BY DEF NewContract
  <2>4. QED BY <2>1, <2>2, <2>3
<1>4. contracts' = Append(contracts, c)
  BY <1>3 DEF DeployUupsProxy
<1>5. /\ contracts' \in Seq(ContractType) /\ contracts' # <<>> /\ x \in Nat
      /\ Addresses' = Addresses \cup {x} /\ contracts'[x] = c
      /\ \A y \in Addresses : contracts'[y] = contracts[y]
  BY <1>2, <1>4 DEF Addresses
<1>6. Persists
  BY <1>1, <1>5 DEF Persists
<1>7. ChainKept
  BY <1>1, <1>2, <1>5, <1>6 DEF ChainKept, BootInv, Fitting
<1>8. PICK made \in Slots : made = [run[r].made EXCEPT ![k] = x]
  BY <1>2, <1>5 DEF RunType, Slots
<1>9. PICK next \in RunType :
         /\ run' = [run EXCEPT ![r] = next]
         /\ next.pc = "validate" /\ next.step = run[r].step /\ next.config = run[r].config
         /\ next.seen = run[r].seen /\ next.made = made
  <2> DEFINE n == [run[r] EXCEPT !.pc = "validate", !.made = made]
  <2>1. /\ n \in RunType /\ n.pc = "validate" /\ n.step = run[r].step
        /\ n.config = run[r].config /\ n.seen = run[r].seen /\ n.made = made
    BY <1>2 DEF RunType, Pcs
  <2>2. run' = [run EXCEPT ![r] = n]
    BY <1>2, <1>8 DEF DeployUupsProxy, RunType
  <2> HIDE DEF n
  <2>3. QED BY <2>1, <2>2
<1>10. run'[r] = next
  BY <1>2, <1>9
<1>11. Loose(r)' = {k}
  BY <1>9, <1>10 DEF Loose, Current
<1>12. ASSUME NEW m \in Modules
       PROVE  /\ next.seen[m] \in {NoAddress, registry[m]}
              /\ next.made[m] # NoAddress => Good(next.made[m], m, next.config)'
              /\ m # k => next.made[m] \in {NoAddress, registry[m]}
  <2>1. /\ run[r].made[m] # NoAddress => Good(run[r].made[m], m, run[r].config)
        /\ run[r].made[m] \in {NoAddress, registry[m]}
        /\ run[r].seen[m] \in {NoAddress, registry[m]}
    BY <1>1, Known
  <2>2. next.made[m] = IF m = k THEN x ELSE run[r].made[m]
    BY <1>2, <1>8, <1>9 DEF RunType, Slots
  <2>3. CASE m = k
    <3>1. next.made[m] = x /\ next.config = run[r].config
      BY <1>9, <2>2, <2>3
    <3>2. x \in Addresses' /\ contracts'[x] = c
      BY <1>5
    <3>3. PICK y \in Nat : y = x
      BY <1>5
    <3>4. y \in Addresses' /\ contracts'[y].kind = m /\ contracts'[y].terms = next.config[m].terms
      BY <1>3, <2>3, <3>1, <3>2, <3>3
    <3>5. next.made[m] = y
      BY <3>1, <3>3
    <3>6. Good(next.made[m], m, next.config)'
      BY <3>4, <3>5 DEF Good, Compared
    <3>7. QED BY <1>9, <2>1, <2>3, <3>6
  <2>4. CASE m # k
    <3>1. next.made[m] # NoAddress => Good(next.made[m], m, next.config)
      BY <1>9, <2>1, <2>2, <2>4
    <3>2. next.made[m] # NoAddress => Good(next.made[m], m, next.config)'
      BY <1>2, <1>6, <1>9, <3>1, GoodPersists
    <3>3. QED BY <1>9, <2>1, <2>2, <2>4, <3>2
  <2>5. QED BY <2>3, <2>4
<1>13. next.made["dividend"] = Dividend /\ next.config \in Resolved
  BY <1>1, <1>2, <1>8, <1>9, Known, OrderFacts DEF RunType, Slots, Early
<1>14. Sound(r)'
  BY <1>1, <1>2, <1>9, <1>10, <1>11, <1>12, <1>13 DEF Sound, Early, Late, Good
<1>15. QED BY <1>1, <1>6, <1>7, <1>9, <1>14, ChainStep

-----------------------------------------------------------------------------
(* Every step *)

LEMMA UseStep == ASSUME BootInv, NEW x \in Addresses, Use(x) PROVE BootInv' /\ Persists
<1>1. /\ contracts' = [contracts EXCEPT ![x].use = @ + 1]
      /\ UNCHANGED <<registry, scenario, file, run>>
  BY DEF Use, daoVars, scriptVars
<1>2. contracts \in Seq(ContractType) /\ contracts[x] \in ContractType
  BY DEF BootInv, Shapes, Addresses
<1>3. PICK c \in ContractType :
         /\ c = [contracts[x] EXCEPT !.use = contracts[x].use + 1]
         /\ c.kind = contracts[x].kind /\ c.terms = contracts[x].terms
  <2>1. contracts[x].use + 1 \in Nat
    BY <1>2 DEF ContractType
  <2>2. ASSUME NEW old \in ContractType, NEW use \in Nat
        PROVE  LET c == [old EXCEPT !.use = use]
               IN  c \in ContractType /\ c.kind = old.kind /\ c.terms = old.terms
    BY DEF ContractType
  <2>3. QED BY <1>2, <2>1, <2>2, Zenon
<1>4. contracts' = [contracts EXCEPT ![x] = c]
  BY <1>1, <1>2, <1>3
<1>5. ChainKept
  BY <1>1, <1>3, <1>4, ContractChanged
<1>6. QED BY <1>1, <1>5, WorldStep DEF ChainKept

LEMMA StepStep == ASSUME BootInv, NEW r \in Runners, Step(r) PROVE BootInv' /\ Persists
<1>1. CASE CheckAdmin(r)
  BY <1>1, CheckAdminStep, UnchangedPersists DEF CheckAdmin, daoVars
<1>2. CASE InitializeDao(r)
  <2>1. UNCHANGED <<contracts, registry>>
    BY <1>2 DEF InitializeDao, Initialize, daoVars
  <2>2. QED BY <1>2, <2>1, InitializeDaoStep, UnchangedPersists
<1>3. CASE CheckDividend(r)
  BY <1>3, CheckDividendStep, UnchangedPersists DEF CheckDividend, daoVars
<1>4. CASE InitializeDividend(r)
  BY <1>4, InitializeDividendStep
<1>5. CASE ReadSlot(r)
  BY <1>5, ReadSlotStep, UnchangedPersists DEF ReadSlot, daoVars
<1>6. CASE SendSlot(r)
  BY <1>6, SendSlotStep
<1>7. CASE SmokeReadback(r)
  BY <1>7, SmokeReadbackStep, UnchangedPersists DEF SmokeReadback, daoVars
<1>8. CASE Deposit(r)
  BY <1>8, DepositStep, UnchangedPersists DEF Deposit, daoVars
<1>9. CASE Preflight(r)
  BY <1>9, PreflightStep, UnchangedPersists DEF Preflight, daoVars
<1>10. CASE ReadModules(r)
  BY <1>10, ReadModulesStep, UnchangedPersists DEF ReadModules, daoVars
<1>11. CASE EnsureModule(r)
  BY <1>11, EnsureModuleStep, UnchangedPersists DEF EnsureModule, daoVars
<1>12. CASE DeployUupsProxy(r)
  BY <1>12, DeployStep
<1>13. CASE ValidateDeployed(r)
  BY <1>13, ValidateDeployedStep, UnchangedPersists DEF ValidateDeployed, daoVars
<1>14. CASE ModuleReady(r)
  BY <1>14, ModuleReadyStep, UnchangedPersists DEF ModuleReady, daoVars
<1>15. CASE Finish(r)
  BY <1>15, FinishStep, UnchangedPersists DEF Finish, daoVars
<1>16. QED BY <1>1, <1>2, <1>3, <1>4, <1>5, <1>6, <1>7, <1>8, <1>9, <1>10, <1>11, <1>12,
              <1>13, <1>14, <1>15 DEF Step

LEMMA BootstrapStep == ASSUME BootInv, BootstrapNext PROVE BootInv' /\ Persists
<1>0. scenario.configs \subseteq Configs /\ scenario.reporting \subseteq BOOLEAN
  BY DEF BootInv, Shapes, ScenarioType
<1>1. ASSUME NEW r \in Full \cap scenario.processes, NEW o \in Options, StartFull(r, o[1], o[2])
      PROVE  BootInv' /\ Persists
  <2>1. o[1] \in Configs /\ o[2] \in BOOLEAN /\ r \in Runners
    BY <1>0 DEF Options, Runners
  <2>2. StartRun(r, o[1], o[2]) /\ UNCHANGED <<contracts, registry, scenario, file>>
    BY <1>1 DEF StartFull, daoVars
  <2>3. QED BY <2>1, <2>2, StartStep, UnchangedPersists
<1>2. ASSUME NEW r \in Smoke \cap scenario.processes, NEW cfg \in scenario.configs,
             StartSmoke(r, cfg)
      PROVE  BootInv' /\ Persists
  <2>1. cfg \in Configs /\ FALSE \in BOOLEAN /\ r \in Runners
    BY <1>0 DEF Runners
  <2>2. StartRun(r, cfg, FALSE) /\ UNCHANGED <<contracts, registry, scenario, file>>
    BY <1>2 DEF StartSmoke, daoVars
  <2>3. QED BY <2>1, <2>2, StartStep, UnchangedPersists
<1>3. ASSUME NEW r \in Runners, CallFails(r) PROVE BootInv' /\ Persists
  <2>1. Active(r) /\ Fails(r) /\ UNCHANGED <<contracts, registry, scenario>>
    BY <1>3 DEF CallFails, daoVars
  <2>2. QED BY <2>1, FailsStep, UnchangedPersists
<1>4. ASSUME NEW r \in Runners, Crash(r) PROVE BootInv' /\ Persists
  <2>1. UNCHANGED <<contracts, registry>>
    BY <1>4 DEF Crash, daoVars
  <2>2. QED BY <1>4, <2>1, CrashStep, UnchangedPersists
<1>5. CASE HandOver \/ Migrate
  <2>1. UNCHANGED <<contracts, registry, scenario, file, run>>
    BY <1>5 DEF HandOver, Migrate, TransferBootstrapAdmin, MigrateBootstrapAdmin, scriptVars
  <2>2. QED BY <2>1, ChainSame, WorldStep, UnchangedPersists
<1>6. QED BY <1>1, <1>2, <1>3, <1>4, <1>5, StepStep, UseStep DEF BootstrapNext

LEMMA BootUnchanged == ASSUME BootInv, UNCHANGED bootVars PROVE BootInv' /\ Persists
<1>1. UNCHANGED <<contracts, registry, scenario, file, run>>
  BY DEF bootVars, daoVars, scriptVars
<1>2. QED BY <1>1, ChainSame, WorldStep, UnchangedPersists

LEMMA BootStart == BootstrapInit => BootInv
<1> SUFFICES ASSUME BootstrapInit PROVE BootInv
  OBVIOUS
<1>1. registry \in Slots /\ \A m \in Modules : registry[m] = NoAddress
  BY DEF BootstrapInit, DaoInit, Slots, NoAddress
<1>2. Uninitialized \in ContractType /\ Uninitialized.kind = "dividend"
  BY OrderFacts DEF Uninitialized, ContractType
<1>3. contracts = <<Uninitialized>> /\ file = NoFile /\ scenario \in ScenarioType
  BY BootstrapAssumption DEF BootstrapInit
<1>4. run \in [Runners -> RunType] /\ \A r \in Runners : run[r] = NotStarted
  <2>1. run = [r \in Runners |-> NotStarted]
    BY DEF BootstrapInit
  <2>2. QED BY <2>1, BlankTypes
<1>5. contracts \in Seq(ContractType) /\ contracts # <<>> /\ contracts[Dividend].kind = "dividend"
  <2> HIDE DEF Uninitialized
  <2>1. QED BY <1>2, <1>3 DEF Dividend
<1>6. Shapes
  BY <1>1, <1>3, <1>4, <1>5, BlankTypes DEF Shapes
<1>7. Fitting
  BY <1>1 DEF Fitting
<1>8. Truthful
  BY <1>3, OrderFacts DEF Truthful, NoFile
<1>9. \A r \in Runners : Sound(r)
  BY <1>4 DEF Sound, Active, NotStarted
<1>10. QED BY <1>6, <1>7, <1>8, <1>9 DEF BootInv

LEMMA BootInvariant == Spec => []BootInv
<1>1. Init => BootInv
  BY BootStart DEF Init
<1>2. BootInv /\ [Next]_vars => BootInv'
  BY BootstrapStep, BootUnchanged DEF Next, CheckNext, vars, StartCheck, CheckDao,
     ReadDaoModuleAddress, ValidateModuleAddress
<1>3. QED BY <1>1, <1>2, PTL DEF Spec

-----------------------------------------------------------------------------

(* What completed runs leave behind *)

\* Every configuration a run completed with is wired.
Recorded ==
    /\ completions \in Seq(Resolved)
    /\ \A k \in DOMAIN completions : WiredAs(completions[k])
    /\ file.status = "completed" => \E k \in DOMAIN completions : file.config = completions[k]

\* What is wired is wired for ever.
LEMMA WiredPersists ==
    ASSUME BootInv, BootInv', Persists, NEW config \in Resolved, WiredAs(config)
    PROVE  WiredAs(config)'
<1> SUFFICES ASSUME NEW m \in Modules
             PROVE  registry'[m] # NoAddress /\ Good(registry[m], m, config)'
  BY DEF WiredAs
<1>1. PICK x : x = registry[m]
  OBVIOUS
<1>2. Good(x, m, config)'
  BY <1>1, GoodPersists DEF WiredAs
<1>3. registry'[m] = x /\ x # NoAddress
  BY <1>1 DEF WiredAs, Persists
<1>4. QED BY <1>2, <1>3 DEF Good

LEMMA RecordKept ==
    ASSUME BootInv, BootInv', Persists, Recorded, completions' = completions,
           file' = file \/ file'.status # "completed"
    PROVE  Recorded'
<1>1. ASSUME NEW k \in DOMAIN completions' PROVE WiredAs(completions[k])'
  <2>1. PICK config \in Resolved : config = completions[k]
    BY <1>1 DEF Recorded
  <2>2. WiredAs(config)'
    BY <1>1, <2>1, WiredPersists DEF Recorded
  <2>3. QED BY <2>1, <2>2 DEF WiredAs, Good
<1>2. QED BY <1>1 DEF Recorded

\* A run that completes has found or wired every module as its configuration says.
LEMMA RecordAdded ==
    ASSUME BootInv, Recorded, NEW r \in Runners, Active(r), UNCHANGED <<contracts, registry>>,
           \A m \in Modules : registry[m] # NoAddress /\ registry[m] = run[r].made[m],
           Write(r, "completed", run[r].made), completions' = Append(completions, run[r].config)
    PROVE  Recorded'
<1>1. PICK config \in Resolved : config = run[r].config
  BY DEF BootInv, Sound
<1>2. WiredAs(config)
  BY <1>1 DEF BootInv, Sound, WiredAs
<1>3. /\ completions' \in Seq(Resolved) /\ Len(completions') = Len(completions) + 1
      /\ completions'[Len(completions')] = config
      /\ \A k \in DOMAIN completions : k \in DOMAIN completions' /\ completions'[k] = completions[k]
      /\ \A k \in DOMAIN completions' : k \in DOMAIN completions \/ k = Len(completions')
  BY <1>1 DEF Recorded
<1>4. ASSUME NEW k \in DOMAIN completions' PROVE WiredAs(completions'[k])
  BY <1>2, <1>3 DEF Recorded
<1>5. ASSUME file'.status = "completed"
      PROVE  \E k \in DOMAIN completions' : file'.config = completions'[k]
  <2>1. CASE file' = file
    BY <1>3, <1>5, <2>1 DEF Recorded
  <2>2. CASE file' # file
    <3>1. file'.config = config
      BY <1>1, <2>2 DEF Write
    <3>2. Len(completions') \in DOMAIN completions'
      BY <1>3 DEF Recorded
    <3>3. QED BY <1>3, <3>1, <3>2
  <2>3. QED BY <2>1, <2>2
<1>6. QED BY <1>3, <1>4, <1>5 DEF Recorded, WiredAs, Good, Addresses

\* No other step of a run marks the file as completed.
LEMMA OthersMarkNothing ==
    ASSUME NEW r \in Runners, Step(r), ~Finish(r)
    PROVE  completions' = completions /\ (file' = file \/ file'.status # "completed")
<1>1. Fails(r) => file' = file \/ file'.status # "completed"
  BY DEF Fails, Write
<1>2. ASSUME NEW made, Progress(r, made) PROVE file' = file \/ file'.status # "completed"
  BY <1>2 DEF Progress, Write
<1>3. CASE \/ CheckAdmin(r) \/ InitializeDao(r) \/ CheckDividend(r) \/ InitializeDividend(r)
           \/ ReadSlot(r) \/ SendSlot(r) \/ SmokeReadback(r) \/ Deposit(r)
  BY <1>1, <1>3, Zenon DEF CheckAdmin, InitializeDao, CheckDividend, InitializeDividend, ReadSlot,
     SendSlot, SmokeReadback, Deposit
<1>4. CASE \/ Preflight(r) \/ ReadModules(r) \/ EnsureModule(r) \/ DeployUupsProxy(r)
           \/ ValidateDeployed(r) \/ ModuleReady(r)
  BY <1>1, <1>2, <1>4, Zenon DEF Preflight, ReadModules, EnsureModule, DeployUupsProxy,
     ValidateDeployed, ModuleReady
<1>5. QED BY <1>3, <1>4 DEF Step

LEMMA BootstrapRecorded ==
    ASSUME BootInv, Recorded, BootstrapNext PROVE Recorded'
<1>0. BootInv' /\ Persists
  BY BootstrapStep
<1>1. ASSUME NEW r \in Runners, Finish(r) PROVE Recorded'
  <2>1. Active(r) /\ UNCHANGED <<contracts, registry>>
    BY <1>1 DEF Finish, Active, daoVars
  <2>2. CASE \A m \in Modules : registry[m] # NoAddress /\ registry[m] = run[r].made[m]
    <3>1. Write(r, "completed", run[r].made) /\ completions' = Append(completions, run[r].config)
      BY <1>1, <2>2 DEF Finish
    <3>2. QED BY <2>1, <2>2, <3>1, RecordAdded
  <2>3. CASE ~ \A m \in Modules : registry[m] # NoAddress /\ registry[m] = run[r].made[m]
    <3>1. Fails(r) /\ completions' = completions
      BY <1>1, <2>3 DEF Finish
    <3>2. QED BY <1>0, <3>1, RecordKept DEF Fails, Write
  <2>4. QED BY <2>2, <2>3
<1>2. ASSUME NEW r \in Runners, Step(r), ~Finish(r) PROVE Recorded'
  BY <1>0, <1>2, OthersMarkNothing, RecordKept
<1>3. ASSUME NEW r \in Runners, CallFails(r) PROVE Recorded'
  BY <1>0, <1>3, RecordKept DEF CallFails, Fails, Write
<1>4. ASSUME NEW r \in Runners, Crash(r) PROVE Recorded'
  <2>1. "torn" \in Statuses /\ "torn" # "completed"
    BY DEF Statuses
  <2>2. [NoFile EXCEPT !.status = "torn"].status = "torn"
    BY <2>1, BlankTypes, Torn, Zenon
  <2>3. completions' = completions /\ (file' = file \/ file'.status # "completed")
    BY <1>4, <2>1, <2>2 DEF Crash
  <2>4. QED BY <1>0, <2>3, RecordKept
<1>5. ASSUME NEW r, NEW cfg, NEW keeps, StartFull(r, cfg, keeps) \/ StartSmoke(r, cfg)
      PROVE  Recorded'
  BY <1>0, <1>5, RecordKept DEF StartFull, StartSmoke
<1>6. ASSUME NEW x \in Addresses, Use(x) PROVE Recorded'
  BY <1>0, <1>6, RecordKept DEF Use, scriptVars
<1>7. CASE HandOver \/ Migrate
  BY <1>0, <1>7, RecordKept DEF HandOver, Migrate, scriptVars
<1>8. QED BY <1>1, <1>2, <1>3, <1>4, <1>5, <1>6, <1>7 DEF BootstrapNext

LEMMA CompletionsRecorded == Spec => []Recorded
<1>1. Init => Recorded
  <2> SUFFICES ASSUME Init PROVE Recorded
    OBVIOUS
  <2>1. completions = <<>> /\ file.status = "none"
    BY DEF Init, BootstrapInit, NoFile
  <2>2. QED BY <2>1 DEF Recorded
<1>2. ASSUME BootInv, Recorded, UNCHANGED bootVars PROVE Recorded'
  BY <1>2, BootUnchanged, RecordKept DEF bootVars, scriptVars
<1>3. BootInv /\ Recorded /\ [Next]_vars => Recorded'
  BY <1>2, BootstrapRecorded DEF Next, CheckNext, vars, StartCheck, CheckDao,
     ReadDaoModuleAddress, ValidateModuleAddress
<1>4. QED BY <1>1, <1>3, BootInvariant, PTL DEF Spec

\* Once a run has completed, with or without a state file, each module is wired
\* with the terms of its configuration, and stays so; a file that says "completed"
\* shows the registry as it is and the configuration of such a run.
THEOREM CompletedStaysWired == Spec => []CompletedIsWired
<1>1. BootInv /\ Recorded => CompletedIsWired
  BY DEF BootInv, Truthful, Recorded, CompletedIsWired
<1>2. QED BY <1>1, BootInvariant, CompletionsRecorded, PTL

\* Whatever the status of the state file, the addresses it names are modules of
\* their kind with the terms of its configuration, wired but for one at most.
THEOREM FileStaysTruthful == Spec => []FileTellsTheTruth
<1>1. ASSUME BootInv PROVE FileTellsTheTruth
  <2> DEFINE Unwired == {m \in Modules : file.wiring[m] \notin {NoAddress, registry[m]}}
  <2>1. PICK k \in Modules : \A m \in Modules \ {k} : file.wiring[m] \in {NoAddress, registry[m]}
    BY <1>1 DEF BootInv, Truthful
  <2>2. Unwired = {} \/ Unwired = {k}
    BY <2>1
  <2>3. Cardinality(Unwired) <= 1
    <3> HIDE DEF Unwired
    <3>1. QED BY <2>2, FS_EmptySet, FS_Singleton
  <2>4. QED BY <1>1, <2>3 DEF FileTellsTheTruth, BootInv, Truthful
<1>2. QED BY <1>1, BootInvariant, PTL

-----------------------------------------------------------------------------
(* The check *)

CheckType == [pc : {"idle", "admin", "read", "module", "ok", "refused"},
              step : 0 .. Len(CheckOrder), strict : BOOLEAN, config : Resolved \cup {Blank},
              expected : FileType, found : Slots]

\* The module is in its slot, where it was found, with the terms expected of it.
Passed(m) ==
    /\ check.found[m] # NoAddress /\ check.found[m] = registry[m]
    /\ m \in Compared => contracts[registry[m]].terms = check.config[m].terms

CheckInv ==
    /\ check \in CheckType
    /\ check.pc # "idle" => check.config \in Resolved
    /\ check.pc \in {"read", "module"} => check.step # 0
    /\ \A m \in Modules : check.found[m] \in {NoAddress, registry[m]}
    /\ check.pc = "module" => \A i \in 1 .. check.step - 1 : Passed(CheckOrder[i])
    /\ check.pc = "ok" => \A m \in Modules : Passed(m)

\* What inserting an element before the last one of a sequence gives.
LEMMA Appended == ASSUME NEW S, NEW s \in Seq(S), NEW e \in S
                  PROVE  s \o <<e>> = Append(s, e)
OBVIOUS

LEMMA LastCut == ASSUME NEW S, NEW s \in Seq(S), NEW n \in Nat \ {0}, n = Len(s)
                 PROVE  SubSeq(s, n, n) = <<s[n]>>
<1>1. PICK l : l = SubSeq(s, n, n)
  OBVIOUS
<1>2. l \in Seq(S)
  BY <1>1
<1>3. Len(l) = 1 /\ l[1] = s[n]
  BY <1>1
<1>4. l = <<l[1]>>
  BY <1>2, <1>3
<1>5. QED BY <1>1, <1>3, <1>4

LEMMA FrontCut == ASSUME NEW S, NEW s \in Seq(S), NEW n \in Nat \ {0}, n = Len(s)
                  PROVE  /\ SubSeq(s, 1, n - 1) \in Seq(S) /\ Len(SubSeq(s, 1, n - 1)) = n - 1
                         /\ \A i \in 1 .. n - 1 : SubSeq(s, 1, n - 1)[i] = s[i]
<1>1. SubSeq(s, 1, n - 1) \in Seq(S)
  OBVIOUS
<1>2. Len(SubSeq(s, 1, n - 1)) = n - 1
  OBVIOUS
<1>3. \A i \in 1 .. n - 1 : SubSeq(s, 1, n - 1)[i] = s[i]
  OBVIOUS
<1>4. QED BY <1>1, <1>2, <1>3, Zenon

LEMMA BeforeLast ==
    ASSUME NEW S, NEW f \in Seq(S), NEW e \in S, NEW l \in S, NEW n \in Nat \ {0}, Len(f) = n - 1
    PROVE  LET t == Append(Append(f, e), l)
           IN  /\ t \in Seq(S) /\ Len(t) = n + 1 /\ t[n] = e /\ t[n + 1] = l
               /\ \A i \in 1 .. n - 1 : t[i] = f[i]
OBVIOUS

\* t is a sequence over S of what s holds, and e.
Holds(t, s, e, S) ==
    /\ Len(t) \in Nat \ {0}
    /\ \A i \in 1 .. Len(t) : t[i] \in S
    /\ \A i \in 1 .. Len(s) : \E j \in 1 .. Len(t) : t[j] = s[i]
    /\ \E j \in 1 .. Len(t) : t[j] = e

LEMMA Inserted ==
    ASSUME NEW S, NEW s \in Seq(S), NEW e \in S, NEW n \in Nat \ {0}, n = Len(s),
           NEW t, t = InsertAt(s, n, e)
    PROVE  Holds(t, s, e, S)
<1>1. PICK front : /\ front = SubSeq(s, 1, n - 1) /\ front \in Seq(S) /\ Len(front) = n - 1
                   /\ \A i \in 1 .. n - 1 : front[i] = s[i]
  <2>1. SubSeq(s, 1, n - 1) \in Seq(S)
    BY FrontCut
  <2>2. Len(SubSeq(s, 1, n - 1)) = n - 1 /\ \A i \in 1 .. n - 1 : SubSeq(s, 1, n - 1)[i] = s[i]
    BY FrontCut
  <2>3. QED BY <2>1, <2>2, Zenon
<1>2. SubSeq(s, n, n) = <<s[n]>> /\ s[n] \in S
  BY LastCut
<1>3. InsertAt(s, n, e) = front \o <<e>> \o <<s[n]>>
  BY <1>1, <1>2, Zenon DEF InsertAt
<1>4. front \o <<e>> = Append(front, e) /\ Append(front, e) \in Seq(S)
  BY <1>1, Appended
<1>5. Append(front, e) \o <<s[n]>> = Append(Append(front, e), s[n])
  BY <1>2, <1>4, Appended, Zenon
<1>6. InsertAt(s, n, e) = Append(Append(front, e), s[n])
  BY <1>3, <1>4, <1>5, Zenon
<1>7. /\ t \in Seq(S) /\ Len(t) = n + 1 /\ t[n] = e /\ t[n + 1] = s[n]
      /\ \A i \in 1 .. n - 1 : t[i] = front[i]
  BY <1>1, <1>2, <1>6, BeforeLast
<1>8. ASSUME NEW i \in 1 .. n PROVE \E j \in 1 .. Len(t) : t[j] = s[i]
  <2>1. CASE i = n
    <3>1. n + 1 \in 1 .. Len(t) /\ t[n + 1] = s[i]
      BY <1>7, <2>1
    <3>2. QED BY <3>1
  <2>2. CASE i # n
    <3>1. i \in 1 .. n - 1 /\ i \in 1 .. Len(t)
      BY <1>7, <2>2
    <3>2. t[i] = s[i]
      BY <1>1, <1>7, <3>1
    <3>3. QED BY <3>1, <3>2
  <2>3. QED BY <2>1, <2>2
<1>9. n \in 1 .. Len(t) /\ t[n] = e
  BY <1>7
<1>10. Len(t) \in Nat \ {0} /\ \A i \in 1 .. Len(t) : t[i] \in S
  BY <1>7
<1>11. QED BY <1>8, <1>9, <1>10 DEF Holds

LEMMA CheckOrderFacts ==
    /\ Len(CheckOrder) \in Nat \ {0}
    /\ \A i \in 1 .. Len(CheckOrder) : CheckOrder[i] \in Modules
    /\ \A m \in Modules : \E i \in 1 .. Len(CheckOrder) : CheckOrder[i] = m
<1>1. Order \in Seq(Modules) /\ Len(Order) \in Nat \ {0} /\ "dividend" \in Modules
  BY BootstrapAssumption, OrderFacts
<1>2. Modules = {Order[i] : i \in 1 .. Len(Order)} \cup {"dividend"}
  BY BootstrapAssumption DEF ToSet
<1>3. Holds(CheckOrder, Order, "dividend", Modules)
  BY <1>1, Inserted, Zenon DEF CheckOrder
<1>4. QED BY <1>2, <1>3 DEF Holds

\* What passed stays as it is, for it is in the registry.
LEMMA PassedPersists ==
    ASSUME BootInv, Persists, NEW m \in Modules, Passed(m), check' = check, check.config \in Resolved
    PROVE  Passed(m)'
<1>1. registry'[m] = registry[m] /\ registry[m] \in Addresses
  BY DEF Passed, Persists, BootInv, Fitting
<1>2. check.config[m].terms # 0
  BY DEF Resolved, SectionType
<1>3. QED BY <1>1, <1>2 DEF Passed, Persists, Compared

LEMMA CheckWaits == ASSUME BootInv, Persists, CheckInv, check' = check PROVE CheckInv'
<1>1. \A m \in Modules : check.found[m] \in {NoAddress, registry'[m]}
  BY DEF CheckInv, Persists
<1>2. ASSUME check.pc = "module", NEW i \in 1 .. check.step - 1 PROVE Passed(CheckOrder[i])'
  <2>1. i \in 1 .. Len(CheckOrder) /\ check.config \in Resolved
    BY <1>2, CheckOrderFacts DEF CheckInv, CheckType
  <2>2. PICK m \in Modules : m = CheckOrder[i]
    BY <2>1, CheckOrderFacts
  <2>3. Passed(m)
    BY <1>2, <2>2 DEF CheckInv
  <2>4. Passed(m)'
    BY <2>1, <2>3, PassedPersists
  <2>5. QED BY <2>2, <2>4
<1>3. ASSUME check.pc = "ok", NEW m \in Modules PROVE Passed(m)'
  BY <1>3, PassedPersists DEF CheckInv
<1>4. QED BY <1>1, <1>2, <1>3 DEF CheckInv

\* A step of the check: it goes on with what it has found.
LEMMA CheckGoesOn ==
    ASSUME BootInv, CheckInv, UNCHANGED bootVars, check.config \in Resolved,
           NEW pc \in {"read", "module", "ok", "refused"}, NEW step \in 1 .. Len(CheckOrder),
           NEW found \in Slots, \A m \in Modules : found[m] \in {NoAddress, registry[m]},
           check' = [check EXCEPT !.pc = pc, !.step = step, !.found = found],
           pc = "module" => \A i \in 1 .. step - 1 : check.found = found /\ Passed(CheckOrder[i]),
           pc = "ok" => check.found = found /\ \A m \in Modules : Passed(m)
    PROVE  CheckInv'
<1>1. UNCHANGED <<contracts, registry>>
  BY DEF bootVars, daoVars
<1>2. /\ check' \in CheckType /\ check'.pc = pc /\ check'.step = step
      /\ check'.config = check.config /\ check'.found = found
  <2>1. ASSUME NEW old \in CheckType
        PROVE  LET new == [old EXCEPT !.pc = pc, !.step = step, !.found = found]
               IN  /\ new \in CheckType /\ new.pc = pc /\ new.step = step
                   /\ new.config = old.config /\ new.found = found
    <3>1. step \in 0 .. Len(CheckOrder)
      BY CheckOrderFacts
    <3>2. QED BY <3>1 DEF CheckType
  <2>2. QED BY <2>1, Zenon DEF CheckInv
<1>3. \A m \in Modules : check.found = found /\ Passed(m) => Passed(m)'
  BY <1>1, <1>2 DEF Passed
<1>4. ASSUME pc = "module", NEW i \in 1 .. step - 1 PROVE Passed(CheckOrder[i])'
  <2>1. i \in 1 .. Len(CheckOrder)
    BY CheckOrderFacts
  <2>2. PICK m \in Modules : m = CheckOrder[i]
    BY <2>1, CheckOrderFacts
  <2>3. QED BY <1>3, <1>4, <2>2
<1>5. QED BY <1>1, <1>2, <1>3, <1>4 DEF CheckInv

LEMMA BlankCheck == NotChecking \in CheckType
<1> DEFINE none == [m \in Modules |-> NoAddress]
<1>1. none \in Slots /\ 0 \in 0 .. Len(CheckOrder) /\ NoFile \in FileType
  BY CheckOrderFacts, BlankTypes DEF Slots, NoAddress
<1>2. NotChecking = [pc |-> "idle", step |-> 0, strict |-> FALSE, config |-> Blank,
                     expected |-> NoFile, found |-> none]
  BY DEF NotChecking, Blank
<1> HIDE DEF none, NoFile
<1>3. QED BY <1>1, <1>2 DEF CheckType

LEMMA StartCheckStep ==
    ASSUME BootInv, CheckInv, NEW cfg \in Configs, NEW strict \in BOOLEAN, NEW withFile \in BOOLEAN,
           StartCheck(cfg, strict, withFile)
    PROVE  CheckInv'
<1>1. ResolveExpected(cfg) \in Resolved /\ file \in FileType
  BY BootstrapAssumption DEF ResolveExpected, Section, Resolved, BootInv, Shapes
<1>2. PICK pc \in {"admin", "refused"}, config \in Resolved, expected \in FileType :
         check' = [NotChecking EXCEPT !.pc = pc, !.strict = strict, !.config = config,
                                      !.expected = expected]
  <2>1. PICK pc \in {"admin", "refused"} : pc = IF withFile /\ ~Loadable THEN "refused" ELSE "admin"
    OBVIOUS
  <2>2. PICK expected \in FileType : expected = IF withFile THEN file ELSE NoFile
    BY <1>1, BlankTypes
  <2>3. QED BY <1>1, <2>1, <2>2, Zenon DEF StartCheck
<1>3. /\ check' \in CheckType /\ check'.pc = pc /\ check'.config = config
      /\ check'.found = NotChecking.found
  <2>1. ASSUME NEW old \in CheckType
        PROVE  LET new == [old EXCEPT !.pc = pc, !.strict = strict, !.config = config,
                                      !.expected = expected]
               IN  /\ new \in CheckType /\ new.pc = pc /\ new.config = config
                   /\ new.found = old.found
    BY DEF CheckType
  <2>2. QED BY <1>2, <2>1, BlankCheck, Zenon
<1>4. \A m \in Modules : check'.found[m] = NoAddress
  BY <1>3 DEF NotChecking
<1>5. QED BY <1>3, <1>4 DEF CheckInv

LEMMA ReadStep == ASSUME BootInv, CheckInv, ReadDaoModuleAddress PROVE CheckInv'
<1> DEFINE k == Checked
<1>1. /\ check.pc = "read" /\ check \in CheckType /\ check.step \in 1 .. Len(CheckOrder)
      /\ check.config \in Resolved /\ UNCHANGED bootVars /\ registry \in Slots
  BY CheckOrderFacts DEF ReadDaoModuleAddress, CheckInv, CheckType, BootInv, Shapes
<1>2. k \in Modules
  BY <1>1, CheckOrderFacts DEF Checked
<1>3. PICK found \in Slots : found = [check.found EXCEPT ![k] = registry[k]]
  BY <1>1, <1>2 DEF CheckType, Slots
<1>4. PICK pc \in {"read", "module"}, step \in 1 .. Len(CheckOrder) :
         /\ pc = IF check.step = Len(CheckOrder) THEN "module" ELSE "read"
         /\ step = IF check.step = Len(CheckOrder) THEN 1 ELSE check.step + 1
  BY <1>1, CheckOrderFacts
<1>5. check' = [check EXCEPT !.pc = pc, !.step = step, !.found = found]
  BY <1>1, <1>3, <1>4 DEF ReadDaoModuleAddress, CheckType
<1>6. \A m \in Modules : found[m] \in {NoAddress, registry[m]}
  BY <1>1, <1>2, <1>3 DEF CheckInv, CheckType, Slots
<1>7. pc = "module" => 1 .. step - 1 = {}
  BY <1>4
<1>8. QED BY <1>1, <1>4, <1>5, <1>6, <1>7, CheckGoesOn

\* What a module must look like includes its terms.
LEMMA AcceptedTerms ==
    ASSUME NEW c, NEW strict, NEW s, Accepted(c, strict, s), c.kind \in Compared
    PROVE  c.terms = s.terms
<1>1. c.kind \in {"committee", "devToken", "normalToken", "lockup", "dividend"}
  BY OrderFacts DEF Compared
<1>2. CASE c.kind = "committee"
  BY <1>2 DEF Accepted
<1>3. CASE c.kind = "devToken"
  BY <1>3 DEF Accepted
<1>4. CASE c.kind \in {"normalToken", "lockup"}
  BY <1>4 DEF Accepted
<1>5. CASE c.kind = "dividend"
  BY <1>5 DEF Accepted
<1>6. QED BY <1>1, <1>2, <1>3, <1>4, <1>5

LEMMA ModuleStep == ASSUME BootInv, CheckInv, ValidateModuleAddress PROVE CheckInv'
<1> DEFINE k == Checked
<1>1. /\ check.pc = "module" /\ check \in CheckType /\ check.step \in 1 .. Len(CheckOrder)
      /\ check.config \in Resolved /\ UNCHANGED bootVars /\ check.found \in Slots
      /\ \A m \in Modules : check.found[m] \in {NoAddress, registry[m]}
      /\ \A i \in 1 .. check.step - 1 : Passed(CheckOrder[i])
  BY CheckOrderFacts DEF ValidateModuleAddress, CheckInv, CheckType
<1>2. k \in Modules
  BY <1>1, CheckOrderFacts DEF Checked
<1>3. ASSUME ModulePasses(k) PROVE Passed(k)
  <2>1. check.found[k] # NoAddress /\ check.found[k] = registry[k]
        /\ Accepted(contracts[registry[k]], check.strict, check.config[k])
    BY <1>1, <1>2, <1>3 DEF ModulePasses
  <2>2. contracts[registry[k]].kind = k
    BY <1>2, <2>1 DEF BootInv, Fitting
  <2>3. k \in Compared => contracts[registry[k]].terms = check.config[k].terms
    BY <2>1, <2>2, AcceptedTerms
  <2>4. QED BY <2>1, <2>3 DEF Passed
<1>4. ASSUME ModulePasses(k) PROVE \A i \in 1 .. check.step : Passed(CheckOrder[i])
  BY <1>1, <1>3, <1>4 DEF Checked
<1>5. ASSUME NEW pc \in {"module", "ok", "refused"}, NEW step \in 1 .. Len(CheckOrder),
             check' = [check EXCEPT !.pc = pc, !.step = step]
      PROVE  check' = [check EXCEPT !.pc = pc, !.step = step, !.found = check.found]
  BY <1>1, <1>5 DEF CheckType
<1>6. CASE ~ ModulePasses(k)
  <2>1. check' = [check EXCEPT !.pc = "refused", !.step = check.step]
    BY <1>1, <1>6 DEF ValidateModuleAddress, CheckType
  <2>2. check' = [check EXCEPT !.pc = "refused", !.step = check.step, !.found = check.found]
    BY <1>1, <1>5, <2>1
  <2>3. QED BY <1>1, <2>2, CheckGoesOn
<1>7. CASE ModulePasses(k) /\ check.step = Len(CheckOrder)
  <2>1. check' = [check EXCEPT !.pc = "ok", !.step = check.step]
    BY <1>1, <1>7 DEF ValidateModuleAddress, CheckType
  <2>2. check' = [check EXCEPT !.pc = "ok", !.step = check.step, !.found = check.found]
    BY <1>1, <1>5, <2>1
  <2>3. \A m \in Modules : Passed(m)
    BY <1>4, <1>7, CheckOrderFacts
  <2>4. QED BY <1>1, <2>2, <2>3, CheckGoesOn
<1>8. CASE ModulePasses(k) /\ check.step # Len(CheckOrder)
  <2>1. PICK step \in 1 .. Len(CheckOrder) : step = check.step + 1 /\ step - 1 = check.step
    BY <1>1, <1>8, CheckOrderFacts
  <2>2. check' = [check EXCEPT !.pc = "module", !.step = step]
    BY <1>1, <1>8, <2>1 DEF ValidateModuleAddress, CheckType
  <2>3. check' = [check EXCEPT !.pc = "module", !.step = step, !.found = check.found]
    BY <1>5, <2>2
  <2>4. \A i \in 1 .. step - 1 : Passed(CheckOrder[i])
    BY <1>4, <1>8, <2>1
  <2>5. QED BY <1>1, <2>3, <2>4, CheckGoesOn
<1>9. QED BY <1>6, <1>7, <1>8

LEMMA CheckDaoStep == ASSUME BootInv, CheckInv, CheckDao PROVE CheckInv'
<1>1. /\ check.pc = "admin" /\ check \in CheckType /\ check.config \in Resolved
      /\ UNCHANGED bootVars /\ check.found \in Slots
      /\ \A m \in Modules : check.found[m] \in {NoAddress, registry[m]}
  BY DEF CheckDao, CheckInv, CheckType
<1>2. CASE check' = [check EXCEPT !.pc = "read", !.step = 1]
  <2>1. 1 \in 1 .. Len(CheckOrder)
    BY CheckOrderFacts
  <2>2. check' = [check EXCEPT !.pc = "read", !.step = 1, !.found = check.found]
    BY <1>1, <1>2 DEF CheckType
  <2>3. QED BY <1>1, <2>1, <2>2, CheckGoesOn
<1>3. CASE check' = [check EXCEPT !.pc = "refused"]
  <2>1. check' \in CheckType /\ check'.pc = "refused" /\ check'.config = check.config
        /\ check'.found = check.found
    BY <1>1, <1>3 DEF CheckType
  <2>2. registry' = registry
    BY <1>1 DEF bootVars, daoVars
  <2>3. QED BY <1>1, <2>1, <2>2 DEF CheckInv
<1>4. QED BY <1>2, <1>3 DEF CheckDao

LEMMA CheckInvariant == Spec => [](BootInv /\ CheckInv)
<1>1. Init => CheckInv
  <2> SUFFICES ASSUME Init PROVE CheckInv
    OBVIOUS
  <2>1. check \in CheckType /\ check.pc = "idle"
    BY BlankCheck DEF Init, NotChecking
  <2>2. \A m \in Modules : check.found[m] = NoAddress
    BY DEF Init, NotChecking
  <2>3. QED BY <2>1, <2>2 DEF CheckInv
<1>2. ASSUME BootInv, CheckInv, CheckNext PROVE CheckInv'
  <2>1. ASSUME NEW o \in CheckOptions, StartCheck(o[1], o[2][1], o[2][2]) PROVE CheckInv'
    <3>1. o[1] \in Configs /\ o[2] \in BOOLEAN \X BOOLEAN
      BY <1>2, CheckAssumption DEF CheckOptions, BootInv, Shapes, ScenarioType
    <3>2. o[2][1] \in BOOLEAN /\ o[2][2] \in BOOLEAN
      BY <3>1
    <3>3. QED BY <1>2, <2>1, <3>1, <3>2, StartCheckStep
  <2>2. QED BY <1>2, <2>1, CheckDaoStep, ReadStep, ModuleStep DEF CheckNext
<1>3. BootInv /\ CheckInv /\ [Next]_vars => CheckInv'
  BY <1>2, BootstrapStep, BootUnchanged, CheckWaits DEF Next, vars
<1>4. QED BY <1>1, <1>3, BootInvariant, PTL DEF Spec

\* A check that reports ok has seen the registry as it is and will be, with every
\* slot filled and the terms it expects.
THEOREM OkStaysWired == Spec => []OkMeansWired
<1>1. ASSUME BootInv, CheckInv PROVE OkMeansWired
  <2> SUFFICES ASSUME check.pc = "ok" PROVE OkMeansWired
    BY DEF OkMeansWired
  <2>1. \A m \in Modules : Passed(m)
    BY <1>1 DEF CheckInv
  <2>2. check.found = registry
    BY <1>1, <2>1 DEF Passed, CheckInv, CheckType, BootInv, Shapes, Slots
  <2>3. WiredAs(check.config)
    BY <1>1, <2>1 DEF WiredAs, Good, Passed, BootInv, Fitting
  <2>4. QED BY <2>2, <2>3 DEF OkMeansWired
<1>2. QED BY <1>1, CheckInvariant, PTL

-----------------------------------------------------------------------------
(* What failed runs leave behind *)

Orphans == {x \in Addresses : ~IsDAOContract(x)} \ {Dividend}
Busy    == {r \in Full : Active(r)}

\* What a run has deployed or found, and may have to wire.
Owned(r) == IF run[r].pc \in {"validate", "wire", "send"} THEN {run[r].made[Current(r)]} ELSE {}

\* The orphans that no run will wire any more.
Abandoned == {x \in Orphans : \A r \in Busy : x \notin Owned(r)}

\* Each run of usdb_bootstrap_full that has started is under way, has completed, or
\* may have left one orphan.
Tally ==
    /\ starts \in Nat /\ completions \in Seq(Resolved)
    /\ Cardinality(Abandoned) + Cardinality(Busy) <= starts - Len(completions)

\* The smoke run deploys nothing.
SmokePcs  == Early \cup {"wire", "send", "readback", "deposit"}
SmokeKept == \A r \in Smoke : Active(r) => run[r].pc \in SmokePcs

GoesOn(r) ==
    /\ Active(r) /\ Active(r)' /\ completions' = completions
    /\ r \in Full \/ Orphans' \subseteq Orphans
    /\ \A x \in Orphans' : x \in Orphans \/ x \in Owned(r)'
    /\ \A x \in Owned(r) : x \in Owned(r)' \/ x \notin Orphans'
    /\ r \in Smoke => run'[r].pc \in SmokePcs

Ends(r) == Active(r) /\ ~Active(r)' /\ completions' = completions /\ Orphans' \subseteq Orphans

Finishes(r) ==
    /\ Active(r) /\ ~Active(r)' /\ Orphans' \subseteq Orphans
    /\ \E config \in Resolved : completions' = Append(completions, config)
    /\ r \in Full /\ Owned(r) = {}

Alone(r) == \A q \in Runners \ {r} : run'[q] = run[q]

LEMMA Finite == ASSUME BootInv
                PROVE  /\ IsFiniteSet(Abandoned) /\ Cardinality(Abandoned) \in Nat
                       /\ IsFiniteSet(Busy) /\ Cardinality(Busy) \in Nat
                       /\ IsFiniteSet(Orphans) /\ Cardinality(Orphans) \in Nat
<1>1. Addresses = 1 .. Len(contracts) /\ Len(contracts) \in Nat
  BY DEF BootInv, Shapes, Addresses
<1>2. IsFiniteSet(Addresses)
  BY <1>1, FS_Interval
<1>3. Abandoned \in SUBSET Addresses /\ Orphans \in SUBSET Addresses /\ Busy \in SUBSET Full
  BY DEF Abandoned, Orphans, Busy
<1>4. IsFiniteSet(Abandoned) /\ IsFiniteSet(Orphans)
  BY <1>2, <1>3, FS_Subset
<1>5. IsFiniteSet(Busy)
  BY <1>3, FS_Subset, BootstrapAssumption
<1>6. QED BY <1>4, <1>5, FS_CardinalityType

LEMMA GoesOnTally ==
    ASSUME BootInv, Tally, NEW r \in Runners, Alone(r), GoesOn(r), starts' = starts PROVE Tally'
<1>1. Busy' = Busy
  BY DEF Busy, Active, GoesOn, Alone, Runners
<1>2. \A q \in Runners \ {r} : Owned(q)' = Owned(q)
  BY DEF Alone, Owned, Current
<1>3. Abandoned' \subseteq Abandoned
  <2> SUFFICES ASSUME NEW x \in Abandoned' PROVE x \in Abandoned
    OBVIOUS
  <2>1. x \in Orphans' /\ \A q \in Busy : x \notin Owned(q)'
    BY <1>1 DEF Abandoned
  <2>2. x \in Orphans
    BY <2>1 DEF GoesOn, Busy
  <2>3. ASSUME NEW q \in Busy PROVE x \notin Owned(q)
    <3>1. CASE q = r
      BY <2>1, <3>1 DEF GoesOn
    <3>2. CASE q # r
      BY <1>2, <2>1, <3>2 DEF Busy, Runners
    <3>3. QED BY <3>1, <3>2
  <2>4. QED BY <2>2, <2>3 DEF Abandoned
<1>4. Cardinality(Abandoned') <= Cardinality(Abandoned) /\ Cardinality(Abandoned') \in Nat
  <2>1. IsFiniteSet(Abandoned') /\ Cardinality(Abandoned') <= Cardinality(Abandoned)
    BY <1>3, Finite, FS_Subset
  <2>2. QED BY <2>1, FS_CardinalityType
<1>5. QED BY <1>1, <1>4, Finite DEF Tally, GoesOn

LEMMA EndsTally ==
    ASSUME BootInv, Tally, NEW r \in Runners, Alone(r), Ends(r) \/ Finishes(r), starts' = starts
    PROVE  Tally'
<1>1. Busy' = Busy \ {r} /\ (r \in Full => r \in Busy) /\ Orphans' \subseteq Orphans
  BY DEF Busy, Active, Ends, Finishes, Alone, Runners
<1>2. \A q \in Runners \ {r} : Owned(q)' = Owned(q)
  BY DEF Alone, Owned, Current
<1>3. ASSUME NEW x \in Abandoned' PROVE x \in Abandoned \/ (r \in Full /\ x \in Owned(r))
  <2>1. x \in Orphans' /\ \A q \in Busy \ {r} : x \notin Owned(q)'
    BY <1>1 DEF Abandoned
  <2>2. x \in Orphans /\ \A q \in Busy \ {r} : x \notin Owned(q)
    BY <1>1, <1>2, <2>1 DEF Busy, Runners
  <2>3. QED BY <2>2 DEF Abandoned, Busy
<1>4. CASE r \notin Full \/ Owned(r) = {}
  <2>1. Abandoned' \in SUBSET Abandoned
    BY <1>3, <1>4
  <2>2. /\ IsFiniteSet(Abandoned') /\ Cardinality(Abandoned') <= Cardinality(Abandoned)
        /\ Cardinality(Abandoned') \in Nat
    BY <2>1, Finite, FS_Subset, FS_CardinalityType
  <2>3. /\ Cardinality(Busy') = IF r \in Busy THEN Cardinality(Busy) - 1 ELSE Cardinality(Busy)
        /\ Cardinality(Busy') \in Nat
    BY <1>1, Finite, FS_RemoveElement, FS_CardinalityType
  <2>4. /\ completions' \in Seq(Resolved)
        /\ Ends(r) => Len(completions') = Len(completions)
        /\ Finishes(r) => Len(completions') = Len(completions) + 1 /\ r \in Busy
    BY <1>1 DEF Tally, Ends, Finishes
  <2>5. QED BY <2>2, <2>3, <2>4, Finite DEF Tally
<1>5. CASE r \in Full /\ Owned(r) # {}
  <2>1. completions' = completions
    BY <1>5 DEF Ends, Finishes
  <2>2. PICK x : Owned(r) = {x}
    BY <1>5 DEF Owned
  <2>3. Abandoned' \in SUBSET (Abandoned \cup {x})
    BY <1>3, <2>2
  <2>4. /\ IsFiniteSet(Abandoned \cup {x})
        /\ Cardinality(Abandoned \cup {x}) <= Cardinality(Abandoned) + 1
        /\ Cardinality(Abandoned \cup {x}) \in Nat
    <3>1. /\ IsFiniteSet(Abandoned \cup {x})
          /\ Cardinality(Abandoned \cup {x}) =
                IF x \in Abandoned THEN Cardinality(Abandoned) ELSE Cardinality(Abandoned) + 1
      BY Finite, FS_AddElement, Zenon
    <3>2. QED BY <3>1, Finite
  <2>5. /\ IsFiniteSet(Abandoned') /\ Cardinality(Abandoned') <= Cardinality(Abandoned \cup {x})
        /\ Cardinality(Abandoned') \in Nat
    BY <2>3, <2>4, FS_Subset, FS_CardinalityType
  <2>6. Cardinality(Busy') = Cardinality(Busy) - 1 /\ Cardinality(Busy') \in Nat
    BY <1>1, <1>5, Finite, FS_RemoveElement, FS_CardinalityType
  <2>7. QED BY <2>1, <2>4, <2>5, <2>6, Finite DEF Tally
<1>6. QED BY <1>4, <1>5

LEMMA SameOrphans == ASSUME UNCHANGED <<contracts, registry>> PROVE Orphans' = Orphans
BY DEF Orphans, Addresses, IsDAOContract

LEMMA Exited ==
    ASSUME BootInv, NEW r \in Runners, NEW pc \in {"done", "failed", "crashed"}, Exit(r, pc)
    PROVE  Alone(r) /\ ~Active(r)'
<1> DEFINE next == [NotStarted EXCEPT !.pc = pc]
<1>1. next \in RunType /\ next.pc = pc /\ run' = [run EXCEPT ![r] = next]
  <2>1. pc \in Pcs
    BY DEF Pcs
  <2>2. next \in RunType /\ next.pc = pc
    BY <2>1, BlankTypes, Ended, Zenon
  <2>3. QED BY <2>2, Zenon DEF Exit
<1> HIDE DEF next
<1>2. run'[r] = next /\ Alone(r)
  BY <1>1 DEF BootInv, Shapes, Alone
<1>3. QED BY <1>1, <1>2 DEF Active

LEMMA FailsEnds ==
    ASSUME BootInv, NEW r \in Runners, Active(r), Fails(r),
           UNCHANGED <<contracts, registry, completions>>
    PROVE  Alone(r) /\ Ends(r)
BY Exited, SameOrphans DEF Fails, Ends

\* A run that goes on with what it has, on an unchanged chain.
LEMMA PassesOn ==
    ASSUME BootInv, NEW r \in Runners, Active(r), NEW pc \in Pcs, Goto(r, pc),
           UNCHANGED <<contracts, registry, completions>>,
           pc \notin {"idle", "done", "failed", "crashed"}, r \in Smoke => pc \in SmokePcs,
           \/ Owned(r) = {}
           \/ pc \in {"wire", "send"}
           \/ Owned(r) = {registry[Current(r)]} /\ Current(r) \in Modules
    PROVE  Alone(r) /\ GoesOn(r)
<1>1. run \in [Runners -> RunType]
  BY DEF BootInv, Shapes
<1>2. /\ Alone(r) /\ run'[r].pc = pc /\ run'[r].made = run[r].made
      /\ run'[r].step = run[r].step
  BY <1>1 DEF Goto, RunType, Alone
<1>3. Orphans' = Orphans /\ Active(r)'
  BY <1>2, SameOrphans DEF Active
<1>4. ASSUME NEW x \in Owned(r) PROVE x \in Owned(r)' \/ x \notin Orphans
  <2>1. CASE pc \in {"wire", "send"}
    BY <1>2, <1>4, <2>1 DEF Owned, Current
  <2>2. CASE Owned(r) = {registry[Current(r)]} /\ Current(r) \in Modules
    BY <1>4, <2>2 DEF Orphans, IsDAOContract
  <2>3. QED BY <1>4, <2>1, <2>2
<1>5. QED BY <1>2, <1>3, <1>4 DEF GoesOn

Kinds(r) == Alone(r) /\ starts' = starts /\ (GoesOn(r) \/ Ends(r) \/ Finishes(r))

LEMMA BeginningKinds ==
    ASSUME BootInv, NEW r \in Runners,
           CheckAdmin(r) \/ InitializeDao(r) \/ SmokeReadback(r) \/ Deposit(r)
    PROVE  Kinds(r)
<1>1. /\ Active(r) /\ UNCHANGED <<contracts, registry, starts, completions>> /\ Owned(r) = {}
  BY DEF CheckAdmin, InitializeDao, SmokeReadback, Deposit, Active, daoVars, Initialize, Owned
<1>2. \/ \E pc \in {"initialize", "dividend", "deposit"} : Goto(r, pc)
      \/ Fails(r) \/ \E pc \in {"done", "failed"} : Exit(r, pc)
  BY DEF CheckAdmin, InitializeDao, SmokeReadback, Deposit
<1>3. ASSUME NEW pc \in {"initialize", "dividend", "deposit"}, Goto(r, pc) PROVE Kinds(r)
  BY <1>1, <1>3, PassesOn DEF Kinds, Pcs, SmokePcs, Early
<1>4. CASE Fails(r)
  BY <1>1, <1>4, FailsEnds DEF Kinds
<1>5. ASSUME NEW pc \in {"done", "failed"}, Exit(r, pc) PROVE Kinds(r)
  BY <1>1, <1>5, Exited, SameOrphans DEF Kinds, Ends
<1>6. QED BY <1>2, <1>3, <1>4, <1>5

LEMMA DividendKinds ==
    ASSUME BootInv, NEW r \in Runners, CheckDividend(r) \/ InitializeDividend(r)
    PROVE  Kinds(r)
<1>1. /\ Active(r) /\ UNCHANGED <<registry, starts, completions>> /\ Owned(r) = {}
      /\ run \in [Runners -> RunType] /\ contracts \in Seq(ContractType)
  BY DEF CheckDividend, InitializeDividend, Active, daoVars, Owned, BootInv, Shapes
<1>2. CASE run' = [run EXCEPT ![r].pc = "wire", ![r].made["dividend"] = Dividend]
  <2>1. Alone(r) /\ run'[r].pc = "wire" /\ Active(r)'
    BY <1>1, <1>2 DEF Alone, RunType, Active
  <2>2. Addresses' = Addresses
    BY <1>1 DEF CheckDividend, InitializeDividend, Addresses
  <2>3. Orphans' = Orphans
    BY <1>1, <2>2 DEF Orphans, IsDAOContract
  <2>4. QED BY <1>1, <2>1, <2>3 DEF Kinds, GoesOn, SmokePcs
<1>3. CASE Goto(r, "initDividend") /\ UNCHANGED contracts
  BY <1>1, <1>3, PassesOn DEF Kinds, Pcs, SmokePcs, Early
<1>4. CASE Fails(r) /\ UNCHANGED contracts
  BY <1>1, <1>4, FailsEnds DEF Kinds
<1>5. QED BY <1>2, <1>3, <1>4 DEF CheckDividend, InitializeDividend

LEMMA WiringKinds ==
    ASSUME BootInv, NEW r \in Runners, ReadSlot(r) \/ SendSlot(r) PROVE Kinds(r)
<1> DEFINE k == Current(r)
<1>1. /\ Active(r) /\ UNCHANGED <<contracts, starts, completions>> /\ k \in Modules
      /\ run[r].pc \in {"wire", "send"} /\ Owned(r) = {run[r].made[k]}
  <2>1. Active(r) /\ run[r].pc \in {"wire", "send"} /\ UNCHANGED <<contracts, starts, completions>>
    BY DEF ReadSlot, SendSlot, Active
  <2>2. QED BY <2>1, Known DEF Owned
<1>2. /\ AfterWiring(r) \in {"readback", "preflight", "ready"}
      /\ r \in Smoke => AfterWiring(r) = "readback"
  <2>1. AfterWiring(r) \in {"readback", "preflight", "ready"}
    BY <1>1, AfterWiringAdmitted
  <2>2. r \in Smoke => AfterWiring(r) = "readback"
    BY BootstrapAssumption DEF AfterWiring
  <2>3. QED BY <2>1, <2>2
<1>3. CASE Fails(r) /\ UNCHANGED daoVars
  BY <1>1, <1>3, FailsEnds DEF Kinds, daoVars
<1>4. CASE Goto(r, "send") /\ UNCHANGED daoVars
  BY <1>1, <1>4, PassesOn DEF Kinds, Pcs, SmokePcs, daoVars
<1>5. CASE Goto(r, AfterWiring(r)) /\ UNCHANGED daoVars /\ WiredBy(r)
  BY <1>1, <1>2, <1>5, PassesOn DEF Kinds, Pcs, SmokePcs, daoVars, WiredBy
<1>6. CASE /\ Goto(r, AfterWiring(r)) /\ SetAddress(k, run[r].made[k])
           /\ MaySet(Operator, k, run[r].made[k] \in Addresses)
  <2>1. run \in [Runners -> RunType] /\ registry \in Slots
    BY DEF BootInv, Shapes
  <2>2. Alone(r) /\ run'[r].pc = AfterWiring(r) /\ Active(r)'
    BY <1>2, <1>6, <2>1 DEF Goto, RunType, Alone, Active
  <2>3. /\ registry'[k] = run[r].made[k] /\ registry[k] = NoAddress
        /\ \A m \in Modules \ {k} : registry'[m] = registry[m]
    BY <1>1, <1>6, <2>1 DEF SetAddress, MaySet, Slots
  <2>4. Orphans' \subseteq Orphans
    <3>1. Addresses' = Addresses /\ \A x \in Addresses : x # NoAddress
      BY <1>1 DEF Addresses, NoAddress, BootInv, Shapes
    <3>2. \A x \in Addresses : IsDAOContract(x) => IsDAOContract(x)'
      BY <2>3, <3>1 DEF IsDAOContract
    <3>3. QED BY <3>1, <3>2 DEF Orphans
  <2>5. run[r].made[k] \notin Orphans'
    BY <1>1, <2>3 DEF Orphans, IsDAOContract
  <2>6. QED BY <1>1, <1>2, <2>2, <2>4, <2>5 DEF Kinds, GoesOn, SmokePcs
<1>7. CASE ReadSlot(r)
  BY <1>3, <1>4, <1>5, <1>7 DEF ReadSlot
<1>8. CASE SendSlot(r)
  BY <1>3, <1>6, <1>8 DEF SendSlot
<1>9. QED BY <1>7, <1>8

LEMMA FullOnly ==
    ASSUME SmokeKept, NEW r \in Runners, Active(r), run[r].pc \notin SmokePcs
    PROVE  r \in Full /\ r \notin Smoke
BY DEF SmokeKept, Runners

LEMMA ModulesKinds ==
    ASSUME BootInv, SmokeKept, NEW r \in Runners, Preflight(r) \/ ReadModules(r) \/ ModuleReady(r)
    PROVE  Kinds(r)
<1>1. /\ Active(r) /\ UNCHANGED <<contracts, registry, starts, completions>> /\ Owned(r) = {}
      /\ run[r].pc \notin SmokePcs
  BY DEF Preflight, ReadModules, ModuleReady, Active, daoVars, Owned, SmokePcs, Early
<1>2. run \in [Runners -> RunType]
  BY DEF BootInv, Shapes
<1>3. Alone(r) /\ run'[r].pc \in {"read", "check", "final"}
  <2>1. CASE Preflight(r)
    BY <1>2, <2>1 DEF Preflight, RunType, Alone
  <2>2. CASE ReadModules(r)
    BY <1>2, <2>2 DEF ReadModules, RunType, Alone
  <2>3. CASE ModuleReady(r)
    BY <1>2, <2>3 DEF ModuleReady, RunType, Alone
  <2>4. QED BY <2>1, <2>2, <2>3
<1>4. Active(r)' /\ Orphans' = Orphans
  BY <1>1, <1>3, SameOrphans DEF Active
<1>5. QED BY <1>1, <1>3, <1>4, FullOnly DEF Kinds, GoesOn

LEMMA EnsureKinds ==
    ASSUME BootInv, SmokeKept, NEW r \in Runners, EnsureModule(r) PROVE Kinds(r)
<1>1. /\ Active(r) /\ UNCHANGED <<contracts, registry, starts, completions>> /\ Owned(r) = {}
      /\ run[r].pc \notin SmokePcs
  BY DEF EnsureModule, Active, daoVars, Owned, SmokePcs, Early
<1>2. run \in [Runners -> RunType] /\ r \notin Smoke
  BY <1>1, FullOnly DEF BootInv, Shapes
<1>3. CASE Goto(r, "deploy")
  BY <1>1, <1>2, <1>3, PassesOn DEF Kinds, Pcs
<1>4. CASE Fails(r)
  BY <1>1, <1>4, FailsEnds DEF Kinds
<1>5. ASSUME NEW x, run' = [run EXCEPT ![r].pc = "ready", ![r].made[Current(r)] = x]
      PROVE  Kinds(r)
  <2>1. Alone(r) /\ run'[r].pc = "ready"
    BY <1>2, <1>5 DEF RunType, Alone
  <2>2. Active(r)' /\ Orphans' = Orphans
    BY <1>1, <2>1, SameOrphans DEF Active
  <2>3. QED BY <1>1, <1>2, <2>1, <2>2, FullOnly DEF Kinds, GoesOn
<1>6. QED BY <1>3, <1>4, <1>5 DEF EnsureModule

LEMMA DeployKinds ==
    ASSUME BootInv, SmokeKept, NEW r \in Runners, DeployUupsProxy(r) PROVE Kinds(r)
<1> DEFINE m == Current(r)
           x == Len(contracts) + 1
<1>1. /\ Active(r) /\ UNCHANGED <<registry, starts, completions>> /\ Owned(r) = {}
      /\ run[r].pc \notin SmokePcs
      /\ contracts' = Append(contracts, NewContract(m, run[r].config[m]))
      /\ run' = [run EXCEPT ![r].pc = "validate", ![r].made[m] = x]
  BY DEF DeployUupsProxy, Active, daoVars, Owned, SmokePcs, Early
<1>2. /\ run \in [Runners -> RunType] /\ contracts \in Seq(ContractType) /\ m \in Modules
      /\ r \in Full /\ r \notin Smoke
  BY <1>1, FullOnly, Known DEF BootInv, Shapes
<1>3. /\ Alone(r) /\ run'[r].pc = "validate" /\ run'[r].step = run[r].step
      /\ run'[r].made[m] = x
  BY <1>1, <1>2 DEF RunType, Slots, Alone
<1>4. Owned(r)' = {x} /\ Active(r)'
  BY <1>3 DEF Owned, Current, Active
<1>5. \A y \in Orphans' : y \in Orphans \/ y = x
  <2>1. Addresses' = Addresses \cup {x}
    <3>1. PICK c : contracts' = Append(contracts, c)
      BY <1>1
    <3>2. contracts \in Seq(ContractType \cup {c})
      BY <1>2
    <3>3. QED BY <3>1, <3>2 DEF Addresses
  <2>2. QED BY <1>1, <2>1 DEF Orphans, IsDAOContract
<1>6. QED BY <1>1, <1>2, <1>3, <1>4, <1>5 DEF Kinds, GoesOn

LEMMA ValidateKinds ==
    ASSUME BootInv, SmokeKept, NEW r \in Runners, ValidateDeployed(r) PROVE Kinds(r)
<1>1. /\ Active(r) /\ UNCHANGED <<contracts, registry, starts, completions>>
  BY DEF ValidateDeployed, Active, daoVars
<1>2. CASE Goto(r, "wire")
  BY <1>1, <1>2, PassesOn DEF Kinds, Pcs, SmokePcs
<1>3. CASE Fails(r)
  BY <1>1, <1>3, FailsEnds DEF Kinds
<1>4. QED BY <1>2, <1>3 DEF ValidateDeployed

LEMMA FinishKinds ==
    ASSUME BootInv, SmokeKept, NEW r \in Runners, Finish(r) PROVE Kinds(r)
<1>1. /\ Active(r) /\ UNCHANGED <<contracts, registry, starts>> /\ Owned(r) = {}
      /\ run[r].pc \notin SmokePcs
  BY DEF Finish, Active, daoVars, Owned, SmokePcs, Early
<1>2. CASE Exit(r, "done") /\ completions' = Append(completions, run[r].config)
  BY <1>1, <1>2, Known, Exited, SameOrphans, FullOnly DEF Kinds, Finishes
<1>3. CASE Fails(r) /\ UNCHANGED completions
  BY <1>1, <1>3, FailsEnds DEF Kinds
<1>4. QED BY <1>2, <1>3 DEF Finish

LEMMA StepTally ==
    ASSUME BootInv, Tally, SmokeKept, NEW r \in Runners, Step(r) PROVE Tally' /\ SmokeKept'
<1>1. Kinds(r)
  BY BeginningKinds, DividendKinds, WiringKinds, ModulesKinds, EnsureKinds, DeployKinds,
     ValidateKinds, FinishKinds DEF Step
<1>2. Tally'
  BY <1>1, GoesOnTally, EndsTally DEF Kinds
<1>3. SmokeKept'
  BY <1>1 DEF Kinds, SmokeKept, Alone, Active, GoesOn, Ends, Finishes, Runners
<1>4. QED BY <1>2, <1>3

LEMMA StartsAs ==
    ASSUME BootInv, NEW r \in Runners, NEW cfg \in Configs, NEW keeps \in BOOLEAN,
           StartRun(r, cfg, keeps)
    PROVE  Alone(r) /\ run'[r].pc = "admin" /\ ~Active(r)
<1> DEFINE next == Restarted(NotStarted, Resolve(cfg), keeps)
<1>1. next \in RunType /\ next.pc = "admin"
  BY ResolveType, BlankTypes, Started
<1>2. run' = [run EXCEPT ![r] = next]
  BY Zenon DEF StartRun, Restarted
<1> HIDE DEF next
<1>3. QED BY <1>1, <1>2 DEF BootInv, Shapes, Alone, StartRun

LEMMA StartFullTally ==
    ASSUME BootInv, Tally, SmokeKept, NEW r \in Full, NEW cfg \in Configs, NEW keeps \in BOOLEAN,
           StartFull(r, cfg, keeps)
    PROVE  Tally' /\ SmokeKept'
<1>1. /\ r \in Runners /\ r \notin Smoke /\ UNCHANGED <<contracts, registry, completions>>
      /\ starts' = starts + 1
  BY BootstrapAssumption DEF Runners, StartFull, daoVars
<1>2. Alone(r) /\ run'[r].pc = "admin" /\ ~Active(r)
  BY <1>1, StartsAs DEF StartFull
<1>3. Orphans' = Orphans /\ Busy' = Busy \cup {r} /\ r \notin Busy
  BY <1>1, <1>2, SameOrphans DEF Busy, Active, Alone, Runners
<1>4. \A q \in Busy : Owned(q)' = Owned(q)
  BY <1>2, <1>3 DEF Owned, Current, Alone, Busy, Runners
<1>5. Abandoned' \in SUBSET Abandoned
  BY <1>3, <1>4 DEF Abandoned
<1>6. /\ IsFiniteSet(Abandoned') /\ Cardinality(Abandoned') <= Cardinality(Abandoned)
      /\ Cardinality(Abandoned') \in Nat
  BY <1>5, Finite, FS_Subset, FS_CardinalityType
<1>7. Cardinality(Busy') = Cardinality(Busy) + 1
  BY <1>3, Finite, FS_AddElement
<1>8. Tally'
  BY <1>1, <1>6, <1>7, Finite DEF Tally
<1>9. SmokeKept'
  BY <1>1, <1>2 DEF SmokeKept, Alone, Active, Runners
<1>10. QED BY <1>8, <1>9

LEMMA StartSmokeTally ==
    ASSUME BootInv, Tally, SmokeKept, NEW r \in Smoke, NEW cfg \in Configs, StartSmoke(r, cfg)
    PROVE  Tally' /\ SmokeKept'
<1>1. /\ r \in Runners /\ r \notin Full
      /\ UNCHANGED <<contracts, registry, completions, starts>>
  BY BootstrapAssumption DEF Runners, StartSmoke, daoVars
<1>2. Alone(r) /\ run'[r].pc = "admin"
  BY <1>1, StartsAs DEF StartSmoke
<1>3. Orphans' = Orphans /\ Busy' = Busy
  BY <1>1, <1>2, SameOrphans DEF Busy, Active, Alone, Runners
<1>4. \A q \in Busy : Owned(q)' = Owned(q)
  BY <1>1, <1>2 DEF Owned, Current, Alone, Busy, Runners
<1>5. Abandoned' = Abandoned
  BY <1>3, <1>4 DEF Abandoned
<1>6. Tally'
  BY <1>1, <1>3, <1>5 DEF Tally
<1>7. SmokeKept'
  BY <1>2 DEF SmokeKept, Alone, Active, Runners, SmokePcs, Early
<1>8. QED BY <1>6, <1>7

LEMMA SameTally ==
    ASSUME Tally, SmokeKept, Addresses' = Addresses, UNCHANGED <<run, registry, starts, completions>>
    PROVE  Tally' /\ SmokeKept'
<1>1. Orphans' = Orphans /\ Busy' = Busy /\ \A q \in Busy : Owned(q)' = Owned(q)
  BY DEF Orphans, IsDAOContract, Busy, Active, Owned, Current
<1>2. Abandoned' = Abandoned
  BY <1>1 DEF Abandoned
<1>3. QED BY <1>1, <1>2 DEF Tally, SmokeKept, Active

LEMMA BootstrapTally == ASSUME BootInv, Tally, SmokeKept, BootstrapNext PROVE Tally' /\ SmokeKept'
<1>0. scenario.configs \subseteq Configs /\ scenario.reporting \subseteq BOOLEAN
  BY DEF BootInv, Shapes, ScenarioType
<1>1. ASSUME NEW r \in Full \cap scenario.processes, NEW o \in Options, StartFull(r, o[1], o[2])
      PROVE  Tally' /\ SmokeKept'
  <2>1. o[1] \in Configs /\ o[2] \in BOOLEAN
    BY <1>0, BootstrapAssumption DEF Options
  <2>2. QED BY <1>1, <2>1, StartFullTally
<1>2. ASSUME NEW r \in Smoke \cap scenario.processes, NEW cfg \in scenario.configs,
             StartSmoke(r, cfg)
      PROVE  Tally' /\ SmokeKept'
  BY <1>0, <1>2, StartSmokeTally
<1>3. ASSUME NEW r \in Runners, CallFails(r) \/ Crash(r) PROVE Tally' /\ SmokeKept'
  <2>1. Active(r) /\ UNCHANGED <<contracts, registry, starts, completions>>
    BY <1>3 DEF CallFails, Crash, daoVars
  <2>2. Alone(r) /\ Ends(r)
    BY <1>3, <2>1, FailsEnds, Exited, SameOrphans DEF CallFails, Crash, Ends
  <2>3. Tally'
    BY <2>1, <2>2, EndsTally
  <2>4. SmokeKept'
    BY <2>2 DEF SmokeKept, Alone, Active, Ends, Runners
  <2>5. QED BY <2>3, <2>4
<1>4. ASSUME NEW x \in Addresses, Use(x) PROVE Tally' /\ SmokeKept'
  <2>1. Addresses' = Addresses /\ UNCHANGED <<run, registry, starts, completions>>
    BY <1>4 DEF Use, Addresses, scriptVars, daoVars, BootInv, Shapes
  <2>2. QED BY <2>1, SameTally
<1>5. CASE HandOver \/ Migrate
  <2>1. Addresses' = Addresses /\ UNCHANGED <<run, registry, starts, completions>>
    BY <1>5 DEF HandOver, Migrate, TransferBootstrapAdmin, MigrateBootstrapAdmin, scriptVars,
                Addresses
  <2>2. QED BY <2>1, SameTally
<1>6. QED BY <1>1, <1>2, <1>3, <1>4, <1>5, StepTally DEF BootstrapNext

LEMMA TallyStarts == BootstrapInit => Tally /\ SmokeKept
<1> SUFFICES ASSUME BootstrapInit PROVE Tally /\ SmokeKept
  OBVIOUS
<1>1. contracts = <<Uninitialized>> /\ starts = 0 /\ completions = <<>>
      /\ \A r \in Runners : run[r].pc = "idle"
  BY DEF BootstrapInit, NotStarted
<1>2. Addresses = {1}
  <2> HIDE DEF Uninitialized
  <2>1. QED BY <1>1 DEF Addresses
<1>3. Abandoned = {} /\ Busy = {}
  BY <1>1, <1>2 DEF Abandoned, Orphans, Dividend, Busy, Active, Runners
<1>4. Tally
  BY <1>1, <1>3, FS_EmptySet DEF Tally
<1>5. SmokeKept
  BY <1>1 DEF SmokeKept, Active, Runners
<1>6. QED BY <1>4, <1>5

\* Every address outside the registry is abandoned, or in the hands of a run that
\* goes on, and of one such run only one is.
LEMMA OrphansCounted == ASSUME BootInv, Tally PROVE OneOrphanPerRun
<1> DEFINE f    == [r \in Busy |-> run[r].made[Current(r)]]
           Held == {f[r] : r \in Busy}
<1>1. Orphans \in SUBSET (Abandoned \cup Held)
  <2> SUFFICES ASSUME NEW x \in Orphans, x \notin Abandoned PROVE x \in Held
    OBVIOUS
  <2>1. PICK r \in Busy : x \in Owned(r)
    BY DEF Abandoned
  <2>2. QED BY <2>1 DEF Owned
<1>2. f \in Surjection(Busy, Held)
  BY DEF Surjection
<1> HIDE DEF f, Held
<1>3. IsFiniteSet(Held) /\ Cardinality(Held) <= Cardinality(Busy) /\ Cardinality(Held) \in Nat
  BY <1>2, Finite, FS_Surjection, FS_CardinalityType
<1>4. /\ IsFiniteSet(Abandoned \cup Held) /\ Cardinality(Abandoned \cup Held) \in Nat
      /\ Cardinality(Abandoned \cup Held) <= Cardinality(Abandoned) + Cardinality(Held)
  <2>1. /\ IsFiniteSet(Abandoned \cup Held)
        /\ Cardinality(Abandoned \cup Held) =
              Cardinality(Abandoned) + Cardinality(Held) - Cardinality(Abandoned \cap Held)
    BY <1>3, Finite, FS_Union
  <2>2. Cardinality(Abandoned \cap Held) \in Nat
    <3>1. Abandoned \cap Held \in SUBSET Abandoned
      OBVIOUS
    <3>2. QED BY <3>1, Finite, FS_Subset, FS_CardinalityType
  <2>3. PICK a \in Nat, h \in Nat, b \in Nat :
           /\ a = Cardinality(Abandoned) /\ h = Cardinality(Held)
           /\ b = Cardinality(Abandoned \cap Held)
    BY <1>3, <2>2, Finite
  <2>4. Cardinality(Abandoned \cup Held) = a + h - b
    BY <2>1, <2>3
  <2>5. Cardinality(Abandoned \cup Held) \in Nat
    BY <2>1, FS_CardinalityType
  <2>6. QED BY <2>1, <2>3, <2>4, <2>5
<1>5. Cardinality(Orphans) <= Cardinality(Abandoned \cup Held)
  BY <1>1, <1>4, FS_Subset
<1>6. Cardinality(Orphans) <= starts - Len(completions)
  BY <1>3, <1>4, <1>5, Finite DEF Tally
<1>7. QED BY <1>6 DEF OneOrphanPerRun, Orphans

\* However many runs of usdb_bootstrap_full start, race, fail and are killed: each of
\* them that has not completed leaves at most one deployed contract outside the
\* registry.
THEOREM OrphansStayFew == Spec => []OneOrphanPerRun
<1>1. Init => Tally /\ SmokeKept
  BY TallyStarts DEF Init
<1>2. BootInv /\ Tally /\ SmokeKept /\ [Next]_vars => Tally' /\ SmokeKept'
  <2>1. ASSUME BootInv, Tally, SmokeKept, [Next]_vars PROVE Tally' /\ SmokeKept'
    <3>1. CASE BootstrapNext
      BY <2>1, <3>1, BootstrapTally
    <3>2. CASE UNCHANGED bootVars
      <4>1. Addresses' = Addresses /\ UNCHANGED <<run, registry, starts, completions>>
        BY <3>2 DEF bootVars, daoVars, scriptVars, Addresses
      <4>2. QED BY <2>1, <4>1, SameTally
    <3>3. CASE CheckNext
      <4>1. UNCHANGED bootVars
        BY <3>3, Zenon DEF CheckNext, StartCheck, CheckDao, ReadDaoModuleAddress,
                           ValidateModuleAddress
      <4>2. QED BY <3>2, <4>1
    <3>4. QED BY <2>1, <3>1, <3>2, <3>3 DEF Next, vars
  <2>2. QED BY <2>1
<1>3. Spec => [](Tally /\ SmokeKept)
  BY <1>1, <1>2, BootInvariant, PTL DEF Spec
<1>4. QED BY <1>3, BootInvariant, OrphansCounted, PTL

-----------------------------------------------------------------------------
(* Use only adds *)

Grows ==
    /\ \A x \in Addresses : /\ contracts'[x].start = contracts[x].start
                            /\ contracts'[x].use >= contracts[x].use
                            /\ contracts[x].use = 2 => contracts'[x].use = 2
    /\ handovers' \in Nat /\ handovers' >= handovers

LEMMA NumbersType ==
    ASSUME BootInv, NEW x \in Addresses PROVE contracts[x].start \in Nat /\ contracts[x].use \in Nat
<1>1. contracts[x] \in ContractType
  BY DEF BootInv, Shapes, Addresses
<1>2. QED BY <1>1 DEF ContractType

LEMMA SameGrows ==
    ASSUME BootInv, handovers \in Nat, contracts' = contracts,
           handovers' \in Nat, handovers' >= handovers
    PROVE  Grows
BY NumbersType DEF Grows

LEMMA InitializeGrows ==
    ASSUME BootInv, handovers \in Nat, NEW r \in Runners, InitializeDividend(r) PROVE Grows
<1>1. handovers' = handovers
  BY DEF InitializeDividend
<1>2. contracts \in Seq(ContractType)
  BY DEF BootInv, Shapes
<1>3. ASSUME NEW terms, contracts' = [contracts EXCEPT ![Dividend].terms = terms],
             NEW x \in Addresses
      PROVE  contracts'[x].start = contracts[x].start /\ contracts'[x].use = contracts[x].use
  <2>1. contracts[x] \in ContractType
    BY <1>2 DEF Addresses
  <2>2. CASE x # Dividend
    BY <1>3, <2>2 DEF Addresses
  <2>3. CASE x = Dividend
    <3>1. contracts'[x] = [contracts[x] EXCEPT !.terms = terms]
      BY <1>2, <1>3, <2>3 DEF Addresses
    <3>2. QED BY <2>1, <3>1 DEF ContractType
  <2>4. QED BY <2>2, <2>3
<1>4. CASE contracts' = contracts
  BY <1>1, <1>4, SameGrows
<1>5. CASE \E terms : contracts' = [contracts EXCEPT ![Dividend].terms = terms]
  BY <1>1, <1>3, <1>5, NumbersType DEF Grows
<1>6. QED BY <1>4, <1>5 DEF InitializeDividend

LEMMA DeployGrows ==
    ASSUME BootInv, handovers \in Nat, NEW r \in Runners, DeployUupsProxy(r) PROVE Grows
<1>1. PICK c : contracts' = Append(contracts, c)
  BY DEF DeployUupsProxy
<1>2. handovers' = handovers
  BY DEF DeployUupsProxy
<1>3. contracts \in Seq(ContractType \cup {c})
  BY DEF BootInv, Shapes
<1>4. \A x \in Addresses : contracts'[x] = contracts[x]
  BY <1>1, <1>3 DEF Addresses
<1>5. QED BY <1>2, <1>4, NumbersType DEF Grows

LEMMA UseGrows == ASSUME BootInv, handovers \in Nat, NEW a \in Addresses, Use(a) PROVE Grows
<1>1. contracts' = [contracts EXCEPT ![a].use = contracts[a].use + 1] /\ handovers' = handovers
  BY DEF Use
<1>2. contracts \in Seq(ContractType) /\ contracts[a] \in ContractType
  BY DEF BootInv, Shapes, Addresses
<1>3. contracts[a].use < 2
  <2>1. scenario.uses \in 0 .. 2
    BY DEF BootInv, Shapes, ScenarioType
  <2>2. contracts[a].use \in Nat
    BY NumbersType
  <2>3. QED BY <2>1, <2>2 DEF Use
<1>4. PICK u \in Nat : u = contracts[a].use
  BY NumbersType
<1>5. contracts'[a].start = contracts[a].start /\ contracts'[a].use = u + 1
  <2>1. contracts'[a] = [contracts[a] EXCEPT !.use = u + 1]
    BY <1>1, <1>2, <1>4 DEF Addresses
  <2>2. QED BY <1>2, <2>1 DEF ContractType
<1>6. \A x \in Addresses \ {a} : contracts'[x] = contracts[x]
  BY <1>1, <1>2 DEF Addresses
<1>7. ASSUME NEW x \in Addresses
      PROVE  /\ contracts'[x].start = contracts[x].start
             /\ contracts'[x].use >= contracts[x].use
             /\ contracts[x].use = 2 => contracts'[x].use = 2
  <2>1. CASE x = a
    BY <1>3, <1>4, <1>5, <2>1
  <2>2. CASE x # a
    BY <1>6, <2>2, NumbersType
  <2>3. QED BY <2>1, <2>2
<1>8. QED BY <1>1, <1>7 DEF Grows

LEMMA StepGrows == ASSUME BootInv, handovers \in Nat, NEW r \in Runners, Step(r) PROVE Grows
<1>1. CASE InitializeDividend(r)
  BY <1>1, InitializeGrows
<1>2. CASE DeployUupsProxy(r)
  BY <1>2, DeployGrows
<1>3. CASE contracts' = contracts /\ handovers' = handovers
  BY <1>3, SameGrows
<1>4. QED BY <1>1, <1>2, <1>3 DEF Step, CheckAdmin, InitializeDao, CheckDividend, ReadSlot, SendSlot,
             SmokeReadback, Deposit, Preflight, ReadModules, EnsureModule, ValidateDeployed,
             ModuleReady, Finish

LEMMA BootstrapGrows == ASSUME BootInv, handovers \in Nat, BootstrapNext PROVE Grows
<1>1. ASSUME NEW r \in Runners, CallFails(r) \/ Crash(r) PROVE Grows
  <2>1. contracts' = contracts /\ handovers' = handovers
    BY <1>1 DEF CallFails, Crash
  <2>2. QED BY <2>1, SameGrows
<1>2. CASE HandOver
  BY <1>2, SameGrows DEF HandOver
<1>3. CASE Migrate
  BY <1>3, SameGrows DEF Migrate
<1>4. ASSUME NEW r, NEW cfg, NEW keeps, StartFull(r, cfg, keeps) \/ StartSmoke(r, cfg) PROVE Grows
  <2>1. contracts' = contracts /\ handovers' = handovers
    BY <1>4 DEF StartFull, StartSmoke
  <2>2. QED BY <2>1, SameGrows
<1>5. QED BY <1>1, <1>2, <1>3, <1>4, StepGrows, UseGrows DEF BootstrapNext

-----------------------------------------------------------------------------
(* The number of projects is at least that of the configuration *)

Counts(x, config) == "project" \in Modules /\ x # NoAddress =>
    x \in Addresses /\ contracts[x].start + contracts[x].use >= config["project"].start

RunAhead(r) == Active(r) => Counts(run[r].made["project"], run[r].config)
FileAhead   == file.status = "completed" => Counts(file.wiring["project"], file.config)

\* A step keeps the invariant of the bootstrap, what lasts, and use only adds.
Lasts == BootInv /\ BootInv' /\ Persists /\ Grows

LEMMA CountsLast ==
    ASSUME Lasts, NEW x, NEW config \in Resolved, Counts(x, config) PROVE Counts(x, config)'
<1> SUFFICES ASSUME "project" \in Modules, x # NoAddress
             PROVE  /\ x \in Addresses'
                    /\ contracts'[x].start + contracts'[x].use >= config["project"].start
  BY DEF Counts
<1>1. x \in Addresses /\ contracts[x].start + contracts[x].use >= config["project"].start
  BY DEF Counts
<1>2. x \in Addresses'
  BY <1>1 DEF Lasts, Persists
<1>3. contracts[x].start \in Nat /\ contracts[x].use \in Nat
  BY <1>1, NumbersType DEF Lasts
<1>4. contracts'[x].use \in Nat
  <2>1. contracts'[x] \in ContractType
    BY <1>2 DEF Lasts, BootInv, Shapes, Addresses
  <2>2. QED BY <2>1 DEF ContractType
<1>5. config["project"].start \in Nat
  BY DEF Resolved, SectionType
<1>6. contracts'[x].start = contracts[x].start /\ contracts'[x].use >= contracts[x].use
  BY <1>1 DEF Lasts, Grows
<1>7. QED BY <1>1, <1>2, <1>3, <1>4, <1>5, <1>6

\* A run that goes on with the record of the project it has.
Keeps(r) == /\ "project" \in Modules => run'[r].made["project"] = run[r].made["project"]
            /\ run'[r].config = run[r].config

LEMMA KeepsAhead ==
    ASSUME Lasts, NEW r \in Runners, RunAhead(r), Active(r), Keeps(r) PROVE RunAhead(r)'
<1>1. run[r].config \in Resolved
  BY DEF Lasts, BootInv, Sound
<1>2. PICK config \in Resolved : config = run[r].config
  BY <1>1
<1>3. PICK x : x = run[r].made["project"]
  OBVIOUS
<1>4. Counts(x, config)'
  BY <1>2, <1>3, CountsLast DEF RunAhead
<1>5. run'[r].config = config /\ ("project" \in Modules => run'[r].made["project"] = x)
  BY <1>2, <1>3 DEF Keeps
<1>6. QED BY <1>4, <1>5 DEF RunAhead, Counts

LEMMA RestsAhead ==
    ASSUME Lasts, NEW r \in Runners, RunAhead(r), run'[r] = run[r] PROVE RunAhead(r)'
<1>1. CASE Active(r)
  BY <1>1, KeepsAhead DEF Keeps
<1>2. CASE ~Active(r)
  BY <1>2 DEF RunAhead, Active
<1>3. QED BY <1>1, <1>2

\* What a step does to the file.
Records(r) ==
    \/ file' = file
    \/ file'.status # "completed"
    \/ /\ Active(r) /\ run[r].pc = "final" /\ contracts' = contracts
       /\ Write(r, "completed", run[r].made)

LEMMA FileStaysAhead ==
    ASSUME Lasts, NEW r \in Runners, FileAhead, RunAhead(r), Records(r) PROVE FileAhead'
<1>1. CASE file'.status # "completed"
  BY <1>1 DEF FileAhead
<1>2. CASE file' = file /\ file.status = "completed"
  <2>1. PICK config \in Resolved : config = file.config
    BY <1>2 DEF Lasts, BootInv, Truthful
  <2>2. PICK x : x = file.wiring["project"]
    OBVIOUS
  <2>3. Counts(x, config)'
    BY <1>2, <2>1, <2>2, CountsLast DEF FileAhead
  <2>4. QED BY <1>2, <2>1, <2>2, <2>3 DEF FileAhead, Counts
<1>3. CASE file' # file /\ file'.status = "completed"
  <2>1. /\ Active(r) /\ contracts' = contracts
        /\ file' = [status |-> "completed", wiring |-> Wiring(run[r].made), config |-> run[r].config]
    BY <1>3 DEF Records, Write
  <2>2. run[r].made \in Slots
    BY <2>1, Known DEF Lasts
  <2>3. "project" \in Modules => Wiring(run[r].made)["project"] = run[r].made["project"]
    BY <2>2 DEF Wiring, Slots
  <2>4. QED BY <2>1, <2>3 DEF FileAhead, RunAhead, Counts, Addresses
<1>4. QED BY <1>1, <1>2, <1>3

Careful(r) == Alone(r) /\ Records(r) /\ RunAhead(r)'

LEMMA GotoCareful ==
    ASSUME Lasts, NEW r \in Runners, RunAhead(r), Active(r), NEW pc, Goto(r, pc),
           file' = file \/ file'.status # "completed"
    PROVE  Careful(r)
<1>1. run \in [Runners -> RunType]
  BY DEF Lasts, BootInv, Shapes
<1>2. Alone(r) /\ Keeps(r)
  BY <1>1 DEF Goto, RunType, Alone, Keeps
<1>3. QED BY <1>2, KeepsAhead DEF Careful, Records

LEMMA ExitCareful ==
    ASSUME Lasts, NEW r \in Runners, NEW pc \in {"done", "failed", "crashed"}, Exit(r, pc),
           Records(r)
    PROVE  Careful(r)
BY Exited DEF Lasts, Careful, RunAhead

LEMMA FailsCareful == ASSUME Lasts, NEW r \in Runners, Fails(r) PROVE Careful(r)
<1>1. file' = file \/ file'.status # "completed"
  BY DEF Fails, Write
<1>2. QED BY <1>1, ExitCareful DEF Fails, Records

LEMMA ProgressRecords ==
    ASSUME NEW r, NEW made, Progress(r, made) PROVE file' = file \/ file'.status # "completed"
BY DEF Progress, Write

LEMMA BeginningCareful ==
    ASSUME Lasts, NEW r \in Runners, RunAhead(r),
           CheckAdmin(r) \/ InitializeDao(r) \/ SmokeReadback(r) \/ Deposit(r)
    PROVE  Careful(r)
<1>1. Active(r)
  BY DEF CheckAdmin, InitializeDao, SmokeReadback, Deposit, Active
<1>2. \/ \E pc : Goto(r, pc) /\ file' = file
      \/ Fails(r) \/ \E pc \in {"done", "failed"} : Exit(r, pc) /\ file' = file
  BY DEF CheckAdmin, InitializeDao, SmokeReadback, Deposit
<1>3. QED BY <1>1, <1>2, GotoCareful, FailsCareful, ExitCareful DEF Records

LEMMA WiringCareful ==
    ASSUME Lasts, NEW r \in Runners, RunAhead(r), ReadSlot(r) \/ SendSlot(r) \/ ValidateDeployed(r)
    PROVE  Careful(r)
<1>1. Active(r)
  BY DEF ReadSlot, SendSlot, ValidateDeployed, Active
<1>2. \/ \E pc : Goto(r, pc) /\ (file' = file \/ file'.status # "completed")
      \/ Fails(r)
  <2>1. CASE ReadSlot(r)
    BY <2>1 DEF ReadSlot
  <2>2. CASE SendSlot(r)
    BY <2>2 DEF SendSlot
  <2>3. CASE ValidateDeployed(r)
    BY <2>3, ProgressRecords DEF ValidateDeployed
  <2>4. QED BY <2>1, <2>2, <2>3
<1>3. QED BY <1>1, <1>2, GotoCareful, FailsCareful

LEMMA DividendCareful ==
    ASSUME Lasts, NEW r \in Runners, RunAhead(r), CheckDividend(r) \/ InitializeDividend(r)
    PROVE  Careful(r)
<1>1. Active(r) /\ run \in [Runners -> RunType]
  BY DEF CheckDividend, InitializeDividend, Active, Lasts, BootInv, Shapes
<1>2. CASE run' = [run EXCEPT ![r].pc = "wire", ![r].made["dividend"] = Dividend] /\ file' = file
  <2>1. Alone(r) /\ Keeps(r)
    BY <1>1, <1>2 DEF RunType, Slots, Alone, Keeps
  <2>2. QED BY <1>1, <1>2, <2>1, KeepsAhead DEF Careful, Records
<1>3. CASE Goto(r, "initDividend") /\ file' = file
  BY <1>1, <1>3, GotoCareful
<1>4. CASE Fails(r)
  BY <1>4, FailsCareful
<1>5. QED BY <1>2, <1>3, <1>4 DEF CheckDividend, InitializeDividend

LEMMA ModulesCareful ==
    ASSUME Lasts, NEW r \in Runners, RunAhead(r), Preflight(r) \/ ReadModules(r) \/ ModuleReady(r)
    PROVE  Careful(r)
<1>1. /\ Active(r) /\ run \in [Runners -> RunType]
      /\ file' = file \/ file'.status # "completed"
  BY ProgressRecords DEF Preflight, ReadModules, ModuleReady, Active, Lasts, BootInv, Shapes
<1>2. Alone(r) /\ Keeps(r)
  <2>1. CASE Preflight(r)
    BY <1>1, <2>1 DEF Preflight, RunType, Alone, Keeps
  <2>2. CASE ReadModules(r)
    BY <1>1, <2>2 DEF ReadModules, RunType, Alone, Keeps
  <2>3. CASE ModuleReady(r)
    BY <1>1, <2>3 DEF ModuleReady, RunType, Alone, Keeps
  <2>4. QED BY <2>1, <2>2, <2>3
<1>3. QED BY <1>1, <1>2, KeepsAhead DEF Careful, Records

LEMMA FinishCareful ==
    ASSUME Lasts, NEW r \in Runners, RunAhead(r), Finish(r) PROVE Careful(r)
<1>1. CASE Exit(r, "done") /\ Write(r, "completed", run[r].made)
  <2>1. Records(r)
    BY <1>1 DEF Records, Finish, Active
  <2>2. QED BY <1>1, <2>1, ExitCareful
<1>2. CASE Fails(r)
  BY <1>2, FailsCareful
<1>3. QED BY <1>1, <1>2 DEF Finish

LEMMA EnsureCareful ==
    ASSUME Lasts, NEW r \in Runners, RunAhead(r), EnsureModule(r) PROVE Careful(r)
<1> DEFINE k == Current(r)
           x == run[r].seen[k]
<1>1. /\ Active(r) /\ run \in [Runners -> RunType] /\ k \in Modules
      /\ contracts' = contracts /\ registry' = registry
  BY Known DEF EnsureModule, Active, Lasts, BootInv, Shapes, daoVars
<1>2. CASE Goto(r, "deploy") /\ Progress(r, run[r].made)
  BY <1>1, <1>2, ProgressRecords, GotoCareful
<1>3. CASE Fails(r)
  BY <1>3, FailsCareful
<1>4. CASE /\ x # NoAddress /\ Usable(r, x) /\ Progress(r, run[r].made)
           /\ run' = [run EXCEPT ![r].pc = "ready", ![r].made[k] = x]
  <2>1. file' = file \/ file'.status # "completed"
    BY <1>4, ProgressRecords
  <2>2. /\ Alone(r) /\ run'[r].config = run[r].config
        /\ run'[r].made = [run[r].made EXCEPT ![k] = x] /\ run[r].made \in Slots
    BY <1>1, <1>4 DEF RunType, Alone
  <2>3. CASE k # "project"
    <3>1. Keeps(r)
      BY <1>1, <2>2, <2>3 DEF Keeps, Slots
    <3>2. QED BY <1>1, <2>1, <2>2, <3>1, KeepsAhead DEF Careful, Records
  <2>4. CASE k = "project"
    <3>1. x = registry[k]
      BY <1>1, <1>4, Known DEF Lasts
    <3>2. x \in Addresses /\ contracts[x].kind = "project"
      BY <1>1, <1>4, <2>4, <3>1 DEF Lasts, BootInv, Fitting
    <3>3. Valid(x, "existing", run[r].config)
      BY <1>4 DEF Usable
    <3>4. contracts[x].start + contracts[x].use >= run[r].config["project"].start
      BY <3>2, <3>3 DEF Valid, ProjectValid
    <3>5. run'[r].made["project"] = x
      BY <1>1, <2>2, <2>4 DEF Slots
    <3>6. RunAhead(r)'
      BY <1>1, <2>2, <3>2, <3>4, <3>5 DEF RunAhead, Counts, Addresses
    <3>7. QED BY <2>1, <2>2, <3>6 DEF Careful, Records
  <2>5. QED BY <2>3, <2>4
<1>5. QED BY <1>2, <1>3, <1>4 DEF EnsureModule

LEMMA DeployCareful ==
    ASSUME Lasts, NEW r \in Runners, RunAhead(r), DeployUupsProxy(r) PROVE Careful(r)
<1> DEFINE k == Current(r)
           x == Len(contracts) + 1
<1>1. /\ Active(r) /\ run \in [Runners -> RunType] /\ k \in Modules /\ file' = file
      /\ run' = [run EXCEPT ![r].pc = "validate", ![r].made[k] = x]
      /\ run[r].config \in Resolved
  BY Known DEF DeployUupsProxy, Active, Lasts, BootInv, Shapes
<1>2. /\ Alone(r) /\ run'[r].config = run[r].config
      /\ run'[r].made = [run[r].made EXCEPT ![k] = x] /\ run[r].made \in Slots
  BY <1>1 DEF RunType, Alone
<1>3. CASE k # "project"
  <2>1. Keeps(r)
    BY <1>1, <1>2, <1>3 DEF Keeps, Slots
  <2>2. QED BY <1>1, <1>2, <2>1, KeepsAhead DEF Careful, Records
<1>4. CASE k = "project"
  <2>1. PICK section \in SectionType : section = run[r].config[k]
    BY <1>1 DEF Resolved
  <2>2. PICK c : c = NewContract(k, section) /\ c.start = section.start /\ c.use = 0
    <3>1. NewContract(k, section).start = section.start /\ NewContract(k, section).use = 0
      BY DEF NewContract
    <3>2. QED BY <3>1
  <2>3. contracts' = Append(contracts, c)
    BY <2>1, <2>2 DEF DeployUupsProxy
  <2>4. contracts \in Seq(ContractType \cup {c})
    BY DEF Lasts, BootInv, Shapes
  <2>5. x \in Addresses' /\ contracts'[x] = c
    BY <2>3, <2>4 DEF Addresses
  <2>6. run'[r].made["project"] = x
    BY <1>1, <1>2, <1>4 DEF Slots
  <2>7. c.start + c.use >= section.start
    BY <2>2 DEF SectionType
  <2>8. RunAhead(r)'
    BY <1>2, <1>4, <2>1, <2>5, <2>6, <2>7 DEF RunAhead, Counts
  <2>9. QED BY <1>1, <1>2, <2>8 DEF Careful, Records
<1>5. QED BY <1>3, <1>4

LEMMA StepCareful ==
    ASSUME Lasts, NEW r \in Runners, RunAhead(r), Step(r) PROVE Careful(r)
BY BeginningCareful, WiringCareful, DividendCareful, ModulesCareful, EnsureCareful, DeployCareful,
   FinishCareful DEF Step

LEMMA StartCareful ==
    ASSUME Lasts, NEW r \in Runners, NEW cfg \in Configs, NEW keeps \in BOOLEAN,
           StartRun(r, cfg, keeps), file' = file
    PROVE  Careful(r)
<1> DEFINE next == Restarted(NotStarted, Resolve(cfg), keeps)
<1>1. next \in RunType /\ next.made = NotStarted.made
  BY ResolveType, BlankTypes, Started
<1>2. run' = [run EXCEPT ![r] = next]
  BY Zenon DEF StartRun, Restarted
<1> HIDE DEF next
<1>3. Alone(r) /\ run'[r] = next
  BY <1>1, <1>2 DEF Lasts, BootInv, Shapes, Alone
<1>4. "project" \in Modules => next.made["project"] = NoAddress
  BY <1>1 DEF NotStarted
<1>5. QED BY <1>3, <1>4 DEF Careful, Records, RunAhead, Counts

CarefulAll == FileAhead /\ \A r \in Runners : RunAhead(r)

LEMMA BootstrapCareful == ASSUME Lasts, CarefulAll, BootstrapNext PROVE CarefulAll'
<1>0. scenario.configs \subseteq Configs /\ scenario.reporting \subseteq BOOLEAN
  BY DEF Lasts, BootInv, Shapes, ScenarioType
<1>1. ASSUME NEW r \in Runners, Careful(r) PROVE CarefulAll'
  <2>1. FileAhead'
    BY <1>1, FileStaysAhead DEF Careful, CarefulAll
  <2>2. ASSUME NEW q \in Runners PROVE RunAhead(q)'
    BY <1>1, <2>2, RestsAhead DEF Careful, CarefulAll, Alone
  <2>3. QED BY <2>1, <2>2 DEF CarefulAll
<1>2. ASSUME run' = run, file' = file PROVE CarefulAll'
  <2>1. \A q \in Runners : RunAhead(q)'
    BY <1>2, RestsAhead DEF CarefulAll
  <2>2. FileAhead'
    <3>1. CASE file.status = "completed"
      <4>1. PICK config \in Resolved : config = file.config
        BY <3>1 DEF Lasts, BootInv, Truthful
      <4>2. PICK x : x = file.wiring["project"]
        OBVIOUS
      <4>3. Counts(x, config)'
        BY <3>1, <4>1, <4>2, CountsLast DEF FileAhead, CarefulAll
      <4>4. QED BY <1>2, <4>1, <4>2, <4>3 DEF FileAhead, Counts
    <3>2. CASE file.status # "completed"
      BY <1>2, <3>2 DEF FileAhead
    <3>3. QED BY <3>1, <3>2
  <2>3. QED BY <2>1, <2>2 DEF CarefulAll
<1>3. ASSUME NEW r \in Full \cap scenario.processes, NEW o \in Options, StartFull(r, o[1], o[2])
      PROVE  CarefulAll'
  <2>1. o[1] \in Configs /\ o[2] \in BOOLEAN /\ r \in Runners
    BY <1>0 DEF Options, Runners
  <2>2. StartRun(r, o[1], o[2]) /\ file' = file
    BY <1>3 DEF StartFull
  <2>3. QED BY <1>1, <2>1, <2>2, StartCareful
<1>4. ASSUME NEW r \in Smoke \cap scenario.processes, NEW cfg \in scenario.configs,
             StartSmoke(r, cfg)
      PROVE  CarefulAll'
  <2>1. cfg \in Configs /\ FALSE \in BOOLEAN /\ r \in Runners
    BY <1>0 DEF Runners
  <2>2. StartRun(r, cfg, FALSE) /\ file' = file
    BY <1>4 DEF StartSmoke
  <2>3. QED BY <1>1, <2>1, <2>2, StartCareful
<1>5. ASSUME NEW r \in Runners, Step(r) PROVE CarefulAll'
  BY <1>1, <1>5, StepCareful DEF CarefulAll
<1>6. ASSUME NEW r \in Runners, CallFails(r) PROVE CarefulAll'
  BY <1>1, <1>6, FailsCareful DEF CallFails
<1>7. ASSUME NEW r \in Runners, Crash(r) PROVE CarefulAll'
  <2>1. NoFile \in FileType /\ "torn" \in Statuses
    BY BlankTypes DEF Statuses
  <2>2. [NoFile EXCEPT !.status = "torn"].status = "torn"
    BY <2>1, Torn, Zenon
  <2>3. Records(r)
    BY <1>7, <2>2 DEF Crash, Records
  <2>4. QED BY <1>1, <1>7, <2>3, ExitCareful DEF Crash
<1>8. ASSUME NEW x \in Addresses, Use(x) PROVE CarefulAll'
  BY <1>2, <1>8 DEF Use, scriptVars
<1>9. CASE HandOver \/ Migrate
  BY <1>2, <1>9 DEF HandOver, Migrate, scriptVars
<1>10. QED BY <1>3, <1>4, <1>5, <1>6, <1>7, <1>8, <1>9 DEF BootstrapNext

-----------------------------------------------------------------------------
(* The administrator, as long as nobody hands over *)

Governed == handovers = 0 =>
    \/ bootstrapAdmin = Operator
    \/ /\ bootstrapAdmin = NoAccount /\ file.status # "completed"
       /\ \A r \in Runners : Active(r) => run[r].pc \in {"admin", "initialize"}

AdminStays == bootstrapAdmin = Operator /\ handovers' = 0 => bootstrapAdmin' = Operator

LEMMA OperatorIsSomebody == Operator # NoAccount
BY BootstrapAssumption, DaoAssumption

LEMMA StepGoverned ==
    ASSUME Lasts, handovers \in Nat, Governed, NEW r \in Runners, Step(r), Careful(r)
    PROVE  Governed' /\ AdminStays
<1>1. handovers' = handovers
  BY DEF Step, CheckAdmin, InitializeDao, CheckDividend, InitializeDividend, ReadSlot, SendSlot,
         SmokeReadback, Deposit, Preflight, ReadModules, EnsureModule, DeployUupsProxy,
         ValidateDeployed, ModuleReady, Finish
<1>2. CASE InitializeDao(r) /\ bootstrapAdmin' = Operator
  BY <1>2 DEF Governed, AdminStays
<1>3. bootstrapAdmin' = bootstrapAdmin \/ (InitializeDao(r) /\ bootstrapAdmin' = Operator)
  BY DEF Step, CheckAdmin, InitializeDao, CheckDividend, InitializeDividend, ReadSlot, SendSlot,
         SmokeReadback, Deposit, Preflight, ReadModules, EnsureModule, DeployUupsProxy,
         ValidateDeployed, ModuleReady, Finish, Initialize, SetAddress, daoVars
<1>4. CASE bootstrapAdmin' = bootstrapAdmin
  <2>1. CASE handovers = 0 => bootstrapAdmin = Operator
    BY <1>1, <1>4, <2>1 DEF Governed, AdminStays
  <2>2. CASE handovers = 0 /\ bootstrapAdmin # Operator
    <3>1. /\ bootstrapAdmin = NoAccount /\ file.status # "completed"
          /\ \A q \in Runners : Active(q) => run[q].pc \in {"admin", "initialize"}
      BY <2>2 DEF Governed
    <3>2. run[r].pc \in {"admin", "initialize"}
      <4>1. Active(r)
        BY DEF Step, CheckAdmin, InitializeDao, CheckDividend, InitializeDividend, ReadSlot,
               SendSlot, SmokeReadback, Deposit, Preflight, ReadModules, EnsureModule,
               DeployUupsProxy, ValidateDeployed, ModuleReady, Finish, Active
      <4>2. QED BY <3>1, <4>1
    <3>3. CheckAdmin(r) \/ InitializeDao(r)
      BY <3>2 DEF Step, CheckDividend, InitializeDividend, ReadSlot, SendSlot,
               SmokeReadback, Deposit, Preflight, ReadModules, EnsureModule,
               DeployUupsProxy, ValidateDeployed, ModuleReady, Finish
    <3>4. (CheckAdmin(r) /\ Goto(r, "initialize")) \/ Fails(r)
      BY <1>4, <3>1, <3>3, OperatorIsSomebody DEF CheckAdmin, InitializeDao, Initialize
    <3>5. run'[r].pc = "initialize" \/ ~Active(r)'
      <4>1. run \in [Runners -> RunType]
        BY DEF Lasts, BootInv, Shapes
      <4>2. CASE Goto(r, "initialize")
        BY <4>1, <4>2 DEF Goto, RunType
      <4>3. CASE Fails(r)
        BY <4>3, Exited DEF Fails, Lasts
      <4>4. QED BY <3>4, <4>2, <4>3
    <3>6. file'.status # "completed"
      <4>1. CASE Goto(r, "initialize") /\ CheckAdmin(r)
        <5>1. (Goto(r, "initialize") /\ file' = file) \/ Fails(r)
          BY <3>1, <4>1 DEF CheckAdmin
        <5>2. QED BY <3>1, <5>1 DEF Fails, Write
      <4>2. CASE Fails(r)
        BY <3>1, <4>2 DEF Fails, Write
      <4>3. QED BY <3>4, <4>1, <4>2
    <3>7. QED BY <1>1, <1>4, <2>2, <3>1, <3>5, <3>6 DEF Governed, AdminStays, Careful, Alone, Active
  <2>3. QED BY <2>1, <2>2
<1>5. QED BY <1>2, <1>3, <1>4

\* A run that starts or ends.
LEMMA ControlGoverned ==
    ASSUME Governed, NEW r \in Runners, Alone(r), run'[r].pc = "admin" \/ ~Active(r)',
           UNCHANGED <<bootstrapAdmin, handovers>>, file' = file \/ file'.status # "completed"
    PROVE  Governed' /\ AdminStays
BY DEF Governed, AdminStays, Alone, Active

LEMMA BootstrapGoverned ==
    ASSUME Lasts, handovers \in Nat, Governed, CarefulAll, BootstrapNext
    PROVE  Governed' /\ AdminStays
<1>0. scenario.configs \subseteq Configs /\ scenario.reporting \subseteq BOOLEAN
  BY DEF Lasts, BootInv, Shapes, ScenarioType
<1>1. ASSUME NEW r \in Full \cap scenario.processes, NEW o \in Options, StartFull(r, o[1], o[2])
      PROVE  Governed' /\ AdminStays
  <2>1. o[1] \in Configs /\ o[2] \in BOOLEAN /\ r \in Runners
    BY <1>0 DEF Options, Runners
  <2>2. StartRun(r, o[1], o[2]) /\ UNCHANGED <<file, bootstrapAdmin, handovers>>
    BY <1>1 DEF StartFull, daoVars
  <2>3. QED BY <2>1, <2>2, StartsAs, ControlGoverned DEF Lasts
<1>2. ASSUME NEW r \in Smoke \cap scenario.processes, NEW cfg \in scenario.configs,
             StartSmoke(r, cfg)
      PROVE  Governed' /\ AdminStays
  <2>1. cfg \in Configs /\ FALSE \in BOOLEAN /\ r \in Runners
    BY <1>0 DEF Runners
  <2>2. StartRun(r, cfg, FALSE) /\ UNCHANGED <<file, bootstrapAdmin, handovers>>
    BY <1>2 DEF StartSmoke, daoVars
  <2>3. QED BY <2>1, <2>2, StartsAs, ControlGoverned DEF Lasts
<1>3. ASSUME NEW r \in Runners, Step(r) PROVE Governed' /\ AdminStays
  BY <1>3, StepCareful, StepGoverned DEF CarefulAll
<1>4. ASSUME NEW r \in Runners, CallFails(r) PROVE Governed' /\ AdminStays
  <2>1. Fails(r) /\ UNCHANGED <<bootstrapAdmin, handovers>>
    BY <1>4 DEF CallFails, daoVars
  <2>2. Alone(r) /\ ~Active(r)'
    BY <2>1, Exited DEF Fails, Lasts
  <2>3. QED BY <2>1, <2>2, ControlGoverned DEF Fails, Write
<1>5. ASSUME NEW r \in Runners, Crash(r) PROVE Governed' /\ AdminStays
  <2>1. Exit(r, "crashed") /\ UNCHANGED <<bootstrapAdmin, handovers>>
    BY <1>5 DEF Crash, daoVars
  <2>2. Alone(r) /\ ~Active(r)'
    BY <2>1, Exited DEF Lasts
  <2>3. NoFile \in FileType /\ "torn" \in Statuses
    BY BlankTypes DEF Statuses
  <2>4. [NoFile EXCEPT !.status = "torn"].status = "torn"
    BY <2>3, Torn, Zenon
  <2>5. QED BY <1>5, <2>1, <2>2, <2>4, ControlGoverned DEF Crash
<1>6. ASSUME NEW x \in Addresses, Use(x) PROVE Governed' /\ AdminStays
  BY <1>6 DEF Use, scriptVars, daoVars, Governed, AdminStays, Active
<1>7. CASE HandOver
  BY <1>7 DEF HandOver, Governed, AdminStays
<1>8. CASE Migrate
  BY <1>8, OperatorIsSomebody DEF Migrate, MigrateBootstrapAdmin, Governed, AdminStays
<1>9. QED BY <1>1, <1>2, <1>3, <1>4, <1>5, <1>6, <1>7, <1>8 DEF BootstrapNext

-----------------------------------------------------------------------------
(* The check *)

\* The check has a completed file of its own configuration.
Matches == check.pc # "idle" /\ check.expected.status = "completed"
                             /\ check.config = check.expected.config

\* The registry is what the configuration says.
Agrees(config) ==
    /\ \A m \in Modules : registry[m] # NoAddress /\ Good(registry[m], m, config)
    /\ Counts(registry["project"], config)
    /\ handovers = 0 => bootstrapAdmin = Operator

Cause(strict, config) ==
    \/ handovers > 0
    \/ \E m \in Modules : contracts[registry[m]].use = 2
    \/ strict /\ \E m \in Modules : \/ contracts[registry[m]].use > 0
                                    \/ contracts[registry[m]].start # config[m].start

\* What has been read of a full registry.
Read == /\ check.pc = "read" =>
              \A i \in 1 .. check.step - 1 : check.found[CheckOrder[i]] # NoAddress
        /\ check.pc = "module" => \A m \in Modules : check.found[m] # NoAddress

RefusalInv == Matches =>
    /\ check.expected.wiring = registry /\ Agrees(check.config) /\ Read
    /\ check.pc = "refused" => Cause(check.strict, check.config)

LEMMA AgreesLasts ==
    ASSUME Lasts, AdminStays, handovers \in Nat, NEW config \in Resolved, Agrees(config)
    PROVE  Agrees(config)' /\ registry' = registry
<1>1. registry' = registry
  BY DEF Lasts, BootInv, Shapes, Slots, Agrees, Persists
<1>2. ASSUME NEW m \in Modules PROVE Good(registry[m], m, config)'
  <2>1. PICK x : x = registry[m]
    OBVIOUS
  <2>2. Good(x, m, config)'
    BY <2>1, GoodPersists DEF Lasts, Agrees
  <2>3. QED BY <1>1, <2>1, <2>2 DEF Good
<1>3. Counts(registry["project"], config)'
  <2>1. PICK x : x = registry["project"]
    OBVIOUS
  <2>2. Counts(x, config)'
    BY <2>1, CountsLast DEF Agrees
  <2>3. QED BY <1>1, <2>1, <2>2 DEF Counts
<1>4. handovers' = 0 => bootstrapAdmin' = Operator
  BY DEF Lasts, Grows, AdminStays, Agrees
<1>5. QED BY <1>1, <1>2, <1>3, <1>4 DEF Agrees

LEMMA CauseLasts ==
    ASSUME Lasts, handovers \in Nat, NEW config \in Resolved, Agrees(config), NEW strict,
           registry' = registry, Cause(strict, config)
    PROVE  Cause(strict, config)'
<1>1. ASSUME NEW m \in Modules
      PROVE  /\ contracts'[registry'[m]].start = contracts[registry[m]].start
             /\ contracts[registry[m]].use = 2 => contracts'[registry'[m]].use = 2
             /\ contracts[registry[m]].use > 0 => contracts'[registry'[m]].use > 0
  <2>1. PICK x \in Addresses : x = registry[m]
    BY DEF Agrees, Good
  <2>2. /\ contracts'[x].start = contracts[x].start
        /\ contracts'[x].use >= contracts[x].use
        /\ contracts[x].use = 2 => contracts'[x].use = 2
    BY DEF Lasts, Grows
  <2>3. contracts[x].use \in Nat
    BY NumbersType DEF Lasts
  <2>4. contracts'[x].use \in Nat
    <3>1. contracts'[x] \in ContractType
      BY DEF Lasts, Persists, BootInv, Shapes, Addresses
    <3>2. QED BY <3>1 DEF ContractType
  <2>5. contracts[x].use > 0 => contracts'[x].use > 0
    BY <2>2, <2>3, <2>4
  <2>6. QED BY <2>1, <2>2, <2>5
<1>2. handovers > 0 => handovers' > 0
  BY DEF Lasts, Grows
<1>3. QED BY <1>1, <1>2 DEF Cause

LEMMA RefusalWaits ==
    ASSUME Lasts, AdminStays, handovers \in Nat, CheckInv, RefusalInv, check' = check
    PROVE  RefusalInv'
<1> SUFFICES ASSUME Matches PROVE RefusalInv'
  BY DEF Matches, RefusalInv
<1>1. PICK config \in Resolved : config = check.config
  BY DEF CheckInv, Matches
<1>2. PICK strict : strict = check.strict
  OBVIOUS
<1>3. Agrees(config)' /\ registry' = registry
  BY <1>1, AgreesLasts DEF RefusalInv
<1>4. check.pc = "refused" => Cause(strict, config)'
  BY <1>1, <1>2, <1>3, CauseLasts DEF RefusalInv
<1>5. check'.config = config /\ check'.strict = strict
  BY <1>1, <1>2
<1>6. Agrees(check.config)'
  BY <1>3, <1>5 DEF Agrees, Good, Counts
<1>7. check.pc = "refused" => Cause(check.strict, check.config)'
  BY <1>4, <1>5 DEF Cause
<1>8. Read'
  BY DEF RefusalInv, Read
<1>9. QED BY <1>3, <1>6, <1>7, <1>8 DEF RefusalInv

\* A step of the check that is past its beginning.
Onward == /\ UNCHANGED bootVars
          /\ check.pc # "idle" /\ check'.expected = check.expected
          /\ check'.config = check.config /\ check'.strict = check.strict

LEMMA RefusalGoesOn ==
    ASSUME RefusalInv, Onward,
           Matches /\ Agrees(check.config) /\ check.expected.wiring = registry /\ Read => Read',
           Matches /\ Agrees(check.config) /\ check.expected.wiring = registry /\ Read
              /\ check'.pc = "refused" => Cause(check.strict, check.config)
    PROVE  RefusalInv'
<1> SUFFICES ASSUME Matches' PROVE RefusalInv'
  BY DEF RefusalInv
<1>1. UNCHANGED <<contracts, registry, handovers, bootstrapAdmin>>
  BY DEF Onward, bootVars, daoVars
<1>2. Matches
  BY DEF Matches, Onward
<1>3. /\ check.expected.wiring = registry /\ Agrees(check.config) /\ Read
  BY <1>2 DEF RefusalInv
<1>4. Agrees(check.config)'
  BY <1>1, <1>3 DEF Agrees, Good, Counts, Onward, Addresses
<1>5. check'.pc = "refused" => Cause(check.strict, check.config)'
  BY <1>1, <1>2, <1>3 DEF Cause, Onward
<1>6. QED BY <1>1, <1>2, <1>3, <1>4, <1>5 DEF RefusalInv, Onward

LEMMA AdminRefusal == ASSUME CheckInv, RefusalInv, handovers \in Nat, CheckDao PROVE RefusalInv'
<1>1. check \in CheckType /\ UNCHANGED bootVars /\ check.pc = "admin"
  BY DEF CheckInv, CheckDao
<1>2. CASE bootstrapAdmin = Operator
  <2>1. check' = [check EXCEPT !.pc = "read", !.step = 1]
    BY <1>2 DEF CheckDao
  <2>2. Onward /\ check'.pc = "read" /\ check'.step = 1
    BY <1>1, <2>1 DEF CheckType, Onward
  <2>3. Read'
    BY <2>2 DEF Read
  <2>4. QED BY <2>2, <2>3, RefusalGoesOn
<1>3. CASE bootstrapAdmin # Operator
  <2>1. check' = [check EXCEPT !.pc = "refused"]
    BY <1>3 DEF CheckDao
  <2>2. Onward /\ check'.pc = "refused"
    BY <1>1, <2>1 DEF CheckType, Onward
  <2>3. Agrees(check.config) => Cause(check.strict, check.config)
    BY <1>3 DEF Agrees, Cause
  <2>4. Read'
    BY <2>2 DEF Read
  <2>5. QED BY <2>2, <2>3, <2>4, RefusalGoesOn
<1>4. QED BY <1>2, <1>3

LEMMA ReadRefusal ==
    ASSUME BootInv, CheckInv, RefusalInv, ReadDaoModuleAddress PROVE RefusalInv'
<1> DEFINE k == Checked
<1>1. /\ check.pc = "read" /\ check \in CheckType /\ check.step \in 1 .. Len(CheckOrder)
      /\ UNCHANGED bootVars /\ check.found \in Slots /\ registry \in Slots
  BY CheckOrderFacts DEF ReadDaoModuleAddress, CheckInv, CheckType, BootInv, Shapes
<1>2. k \in Modules
  BY <1>1, CheckOrderFacts DEF Checked
<1>3. /\ Onward /\ check'.found = [check.found EXCEPT ![k] = registry[k]]
      /\ check'.pc = IF check.step = Len(CheckOrder) THEN "module" ELSE "read"
      /\ check'.step = IF check.step = Len(CheckOrder) THEN 1 ELSE check.step + 1
  BY <1>1 DEF ReadDaoModuleAddress, CheckType, Onward
<1>4. ASSUME Agrees(check.config), Read PROVE Read'
  <2>1. \A m \in Modules : check.found[m] # NoAddress => check'.found[m] # NoAddress
    BY <1>1, <1>2, <1>3, <1>4 DEF Agrees, Slots
  <2>2. check'.found[k] # NoAddress
    BY <1>1, <1>2, <1>3, <1>4 DEF Agrees, Slots
  <2>3. ASSUME NEW i \in 1 .. check.step PROVE check'.found[CheckOrder[i]] # NoAddress
    <3>1. CASE i = check.step
      BY <2>2, <3>1 DEF Checked
    <3>2. CASE i # check.step
      <4>1. check.found[CheckOrder[i]] # NoAddress
        BY <1>1, <1>4, <3>2 DEF Read
      <4>2. CheckOrder[i] \in Modules
        BY <1>1, CheckOrderFacts
      <4>3. QED BY <2>1, <4>1, <4>2
    <3>3. QED BY <3>1, <3>2
  <2>4. CASE check.step = Len(CheckOrder)
    <3>1. \A m \in Modules : check'.found[m] # NoAddress
      BY <2>3, <2>4, CheckOrderFacts
    <3>2. QED BY <1>3, <2>4, <3>1 DEF Read
  <2>5. CASE check.step # Len(CheckOrder)
    <3>1. check'.pc = "read" /\ check'.step - 1 = check.step
      BY <1>1, <1>3, <2>5
    <3>2. QED BY <2>3, <3>1 DEF Read
  <2>6. QED BY <2>4, <2>5
<1>5. check'.pc # "refused"
  BY <1>3
<1>6. QED BY <1>3, <1>4, <1>5, RefusalGoesOn

\* A module of the configuration that is not accepted has been used, or has
\* started with other numbers.
LEMMA NotAccepted ==
    ASSUME BootInv, NEW m \in Modules, NEW strict \in BOOLEAN, NEW config \in Resolved,
           Agrees(config), ~Accepted(contracts[registry[m]], strict, config[m])
    PROVE  Cause(strict, config)
<1>1. PICK x \in Addresses : x = registry[m]
  BY DEF Agrees, Good
<1>2. PICK c \in ContractType : c = contracts[x]
  BY DEF BootInv, Shapes, Addresses
<1>3. PICK s \in SectionType : s = config[m]
  BY DEF Resolved
<1>4. c.kind = m /\ (m \in Compared => c.terms = s.terms) /\ ~Accepted(c, strict, s)
  BY <1>1, <1>2, <1>3 DEF Agrees, Good
<1>5. c.use \in Nat /\ c.start \in Nat /\ s.start \in Nat
  BY DEF ContractType, SectionType
<1>6. m = "project" => c.start + c.use >= s.start
  BY <1>1, <1>2, <1>3 DEF Agrees, Counts, NoAddress, Addresses, BootInv, Shapes
<1>7. c.use = 2 \/ (strict /\ (c.use > 0 \/ c.start # s.start))
  <2>1. m \in {"committee", "devToken", "normalToken", "lockup", "project", "acquired", "dividend"}
    BY OrderFacts
  <2>2. m \notin {"project", "acquired"} => c.terms = s.terms
    BY <1>4 DEF Compared
  <2>3. CASE m = "committee"
    BY <1>4, <1>5, <2>2, <2>3 DEF Accepted, Numbers
  <2>4. CASE m = "devToken"
    BY <1>4, <1>5, <2>2, <2>4 DEF Accepted, Numbers
  <2>5. CASE m = "normalToken"
    BY <1>4, <1>5, <2>2, <2>5 DEF Accepted
  <2>6. CASE m = "lockup"
    BY <1>4, <1>5, <2>2, <2>6 DEF Accepted
  <2>7. CASE m = "project"
    BY <1>4, <1>5, <1>6, <2>7 DEF Accepted, ProjectAccepted
  <2>8. CASE m = "acquired"
    BY <1>4, <2>8 DEF Accepted
  <2>9. CASE m = "dividend"
    BY <1>4, <2>2, <2>9 DEF Accepted
  <2>10. QED BY <2>1, <2>3, <2>4, <2>5, <2>6, <2>7, <2>8, <2>9
<1>8. QED BY <1>1, <1>2, <1>3, <1>7 DEF Cause

LEMMA ModuleRefusal ==
    ASSUME BootInv, CheckInv, RefusalInv, ValidateModuleAddress PROVE RefusalInv'
<1> DEFINE k == Checked
<1>1. /\ check.pc = "module" /\ check \in CheckType /\ check.step \in 1 .. Len(CheckOrder)
      /\ UNCHANGED bootVars /\ check.config \in Resolved /\ check.strict \in BOOLEAN
      /\ \A m \in Modules : check.found[m] \in {NoAddress, registry[m]}
  BY CheckOrderFacts DEF ValidateModuleAddress, CheckInv, CheckType
<1>2. k \in Modules
  BY <1>1, CheckOrderFacts DEF Checked
<1>3. Onward /\ check'.found = check.found /\ check'.pc \in {"module", "ok", "refused"}
  BY <1>1 DEF ValidateModuleAddress, CheckType, Onward
<1>4. check'.pc = "refused" => ~ModulePasses(k)
  BY <1>1 DEF ValidateModuleAddress, CheckType
<1>5. Read => Read'
  BY <1>1, <1>3 DEF Read
<1>6. ASSUME Agrees(check.config), check.expected.wiring = registry, Read, ~ModulePasses(k)
      PROVE  Cause(check.strict, check.config)
  <2>1. check.found[k] = registry[k] /\ registry[k] # NoAddress
    BY <1>1, <1>2, <1>6 DEF Read
  <2>2. Expected(k) = registry[k] /\ IsDAOContract(registry[k])
    BY <1>2, <1>6, <2>1 DEF Expected, IsDAOContract
  <2>3. ~Accepted(contracts[registry[k]], check.strict, check.config[k])
    BY <1>6, <2>1, <2>2 DEF ModulePasses
  <2>4. QED BY <1>1, <1>2, <1>6, <2>3, NotAccepted
<1>7. QED BY <1>3, <1>4, <1>5, <1>6, RefusalGoesOn

LEMMA StartRefusal ==
    ASSUME BootInv, CarefulAll, Governed, CheckInv, NEW cfg \in Configs, NEW strict \in BOOLEAN,
           NEW withFile \in BOOLEAN, StartCheck(cfg, strict, withFile)
    PROVE  RefusalInv'
<1> SUFFICES ASSUME Matches' PROVE RefusalInv'
  BY DEF RefusalInv
<1>1. UNCHANGED bootVars /\ UNCHANGED <<contracts, registry, handovers, bootstrapAdmin>>
  BY DEF StartCheck, bootVars, daoVars
<1>2. /\ check'.expected = IF withFile THEN file ELSE NoFile
      /\ check'.pc = IF withFile /\ ~Loadable THEN "refused" ELSE "admin"
  <2>1. PICK pc, config, expected :
           /\ pc = IF withFile /\ ~Loadable THEN "refused" ELSE "admin"
           /\ expected = IF withFile THEN file ELSE NoFile
           /\ check' = [NotChecking EXCEPT !.pc = pc, !.strict = strict, !.config = config,
                                           !.expected = expected]
    BY Zenon DEF StartCheck
  <2>2. ASSUME NEW old \in CheckType
        PROVE  LET new == [old EXCEPT !.pc = pc, !.strict = strict, !.config = config,
                                      !.expected = expected]
               IN  new.pc = pc /\ new.expected = expected
    BY DEF CheckType
  <2>3. check'.pc = pc /\ check'.expected = expected
    BY <2>1, <2>2, BlankCheck, Zenon
  <2>4. QED BY <2>1, <2>3
<1>3. withFile /\ file.status = "completed" /\ check'.config = file.config
  <2>1. check'.expected.status = "completed" /\ check'.config = check'.expected.config
    BY DEF Matches
  <2>2. NoFile.status # "completed"
    BY DEF NoFile
  <2>3. QED BY <1>2, <2>1, <2>2
<1>4. check'.pc = "admin"
  BY <1>2, <1>3 DEF Loadable
<1>5. file.wiring = registry /\ Agrees(file.config)
  BY <1>3, OperatorIsSomebody DEF BootInv, Truthful, Agrees, CarefulAll, FileAhead, Governed
<1>6. Agrees(check.config)'
  BY <1>1, <1>3, <1>5 DEF Agrees, Good, Counts, Addresses
<1>7. QED BY <1>1, <1>2, <1>3, <1>4, <1>5, <1>6 DEF RefusalInv, Read

-----------------------------------------------------------------------------

WorldInv == handovers \in Nat /\ CarefulAll /\ Governed /\ RefusalInv

LEMMA BootLasts ==
    ASSUME BootInv, CheckInv, WorldInv, BootstrapNext, check' = check PROVE WorldInv'
<1>1. Lasts
  BY BootstrapStep, BootstrapGrows DEF Lasts, WorldInv
<1>2. CarefulAll' /\ Governed' /\ AdminStays
  BY <1>1, BootstrapCareful, BootstrapGoverned DEF WorldInv
<1>3. RefusalInv'
  BY <1>1, <1>2, RefusalWaits DEF WorldInv
<1>4. QED BY <1>1, <1>2, <1>3 DEF WorldInv, Lasts, Grows

LEMMA NothingHappens ==
    ASSUME BootInv, CheckInv, WorldInv, UNCHANGED bootVars
    PROVE  /\ handovers' \in Nat /\ CarefulAll' /\ Governed'
           /\ check' = check => RefusalInv'
<1>1. UNCHANGED <<contracts, registry, scenario, file, run, handovers, bootstrapAdmin>>
  BY DEF bootVars, daoVars, scriptVars
<1>2. handovers' \in Nat /\ CarefulAll' /\ Governed'
  BY <1>1 DEF WorldInv, CarefulAll, FileAhead, RunAhead, Counts, Governed, Active, Addresses
<1>3. Lasts
  BY <1>1, BootUnchanged, SameGrows DEF Lasts, WorldInv
<1>4. AdminStays
  BY <1>1 DEF AdminStays
<1>5. QED BY <1>2, <1>3, <1>4, RefusalWaits DEF WorldInv

LEMMA CheckLasts == ASSUME BootInv, CheckInv, WorldInv, CheckNext PROVE WorldInv'
<1>1. UNCHANGED bootVars
  BY Zenon DEF CheckNext, StartCheck, CheckDao, ReadDaoModuleAddress, ValidateModuleAddress
<1>2. ASSUME NEW o \in CheckOptions, StartCheck(o[1], o[2][1], o[2][2]) PROVE RefusalInv'
  <2>1. o[1] \in Configs /\ o[2] \in BOOLEAN \X BOOLEAN
    BY <1>2, CheckAssumption DEF CheckOptions, BootInv, Shapes, ScenarioType
  <2>2. o[2][1] \in BOOLEAN /\ o[2][2] \in BOOLEAN
    BY <2>1
  <2>3. QED BY <1>2, <2>1, <2>2, StartRefusal DEF WorldInv
<1>3. RefusalInv'
  BY <1>2, AdminRefusal, ReadRefusal, ModuleRefusal DEF CheckNext, WorldInv
<1>4. QED BY <1>1, <1>3, NothingHappens DEF WorldInv

LEMMA WorldInvariant == Spec => []WorldInv
<1>1. Init => WorldInv
  <2> SUFFICES ASSUME Init PROVE WorldInv
    OBVIOUS
  <2>1. handovers = 0 /\ bootstrapAdmin = NoAccount /\ file = NoFile
        /\ \A r \in Runners : run[r].pc = "idle"
    BY DEF Init, BootstrapInit, DaoInit, NotStarted
  <2>2. file.status # "completed" /\ check.pc = "idle"
    BY <2>1 DEF NoFile, Init, NotChecking
  <2>3. QED BY <2>1, <2>2 DEF WorldInv, CarefulAll, FileAhead, RunAhead, Active, Governed,
               RefusalInv, Matches
<1>2. BootInv /\ CheckInv /\ WorldInv /\ [Next]_vars => WorldInv'
  <2> SUFFICES ASSUME BootInv, CheckInv, WorldInv, [Next]_vars PROVE WorldInv'
    OBVIOUS
  <2>1. CASE BootstrapNext /\ check' = check
    BY <2>1, BootLasts
  <2>2. CASE CheckNext
    BY <2>2, CheckLasts
  <2>3. CASE UNCHANGED vars
    BY <2>3, NothingHappens DEF WorldInv, vars
  <2>4. QED BY <2>1, <2>2, <2>3 DEF Next
<1>3. QED BY <1>1, <1>2, CheckInvariant, PTL DEF Spec

\* validate... of the check refuse what validate... of the bootstrap accepted and
\* the bootstrap wired only when the administrator changed, the committee was
\* emptied, or a strict check finds use or other numbers.
THEOREM RefusalsHaveCause == Spec => []RefusedForCause
<1>1. CheckInv /\ WorldInv => RefusedForCause
  BY DEF CheckInv, WorldInv, RefusalInv, Matches, Cause, RefusedForCause
<1>2. QED BY <1>1, WorldInvariant, CheckInvariant, PTL
=============================================================================
