SPECIFICATION FairSpec
CONSTANTS
    NoAccount = NoAccount  Missing = Missing  operator = operator  heir = heir
    r1 = r1  r2 = r2  smoke = smoke
    Accounts = {operator, heir}
    Operator = operator
    Full = {r1, r2}
    Smoke = {smoke}
    Modules <- TwoSlots
    Order <- TwoModules
    Configs <- TwoConfigs
    Defaults <- LegacyDefaults
    Scenarios <- Four
    CheckModes <- Thorough
CHECK_DEADLOCK FALSE
INVARIANTS
    CompletedIsWired
    FileTellsTheTruth
    OneOrphanPerRun
    OkMeansWired
    RefusedForCause
PROPERTIES
    Converges
