SPECIFICATION Spec
CONSTANTS
    Accounts <- TheAccounts
    LockupAddress = "lockup"
    AcquiredAddress = "acquired"
    Later = {}
    MaxTime = 1000000
    Managers = {}
    Names <- TheNames
    Versions = {}
    Budgets = {}
    Results = {}
    ExtraAmounts = {}
    Contributions = {}
    Values = {}
    DevSupply = 1000000
    DevPool = 900000
    VotingDuration <- Month
    MinProjectFinishDuration <- Week
    MaxProjects = 14
    UnlockProjectName <- Buckyos
    UnlockProjectVersion = 2
    UnlockDuration <- SixMonths
    Lists = {}
    ClaimAmounts = {}
    MaxAssigned = 1000
    SaleTokens = {"LSALE", "ODD"}
    Scale <- NoDecimals
    MaxRounds = 9
    MaxSeeds = 2
    MaxKills = 1
    MaxOthers = 2
    Offers <- OddOffers
    Purchases = {20, 40}
    MaxCycles = 12
CHECK_DEADLOCK FALSE
INVARIANTS
    RerunsSucceed
    RoundsHonoured
PROPERTIES
    LeavesScenarios
