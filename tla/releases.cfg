SPECIFICATION Spec
CONSTANTS
    ann = ann  bob = bob
    Accounts = {ann, bob}
    LockupAddress = LockupAddress
    AcquiredAddress = AcquiredAddress
    Later = {2}
    MaxTime = 7
    Managers = {ann}
    Names = {"Buckyos"}
    Versions = {1, 2}
    Budgets = {3}
    Results = {"Excellent", "Normal"}
    ExtraAmounts = {3}
    Contributions <- Shared
    Values = {3}
    DevSupply = 160
    DevPool = 5
    VotingDuration = 3
    MinProjectFinishDuration = 2
    MaxProjects = 2
    UnlockProjectName = "Buckyos"
    UnlockProjectVersion = 1
    UnlockDuration = 3
    Lists <- Locks
    ClaimAmounts = {2}
    MaxAssigned = 4
    NormalHoldings <- AnnHolds
CHECK_DEADLOCK FALSE
INVARIANTS
    Solvent
    LatestVersionTrue
    FinishesApart
    VestedOnSchedule
