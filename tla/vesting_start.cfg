SPECIFICATION Spec
CONSTANTS
    ann = ann  bob = bob
    Accounts = {ann, bob}
    LockupAddress = LockupAddress
    AcquiredAddress = AcquiredAddress
    Later = {2}
    MaxTime = 9
    Managers = {ann}
    Names = {"Buckyos"}
    Versions = {1, 2}
    Budgets = {3}
    Results = {"Excellent"}
    ExtraAmounts = {0}
    Contributions <- Shared
    Values = {}
    DevSupply = 160
    DevPool = 6
    VotingDuration = 3
    MinProjectFinishDuration = 2
    MaxProjects = 2
    UnlockProjectName = "Buckyos"
    UnlockProjectVersion = 1
    UnlockDuration = 3
    Lists <- Locks
    ClaimAmounts = {2}
    MaxAssigned = 4
    NormalHoldings <- AnnHolds
CHECK_DEADLOCK FALSE
INVARIANTS VestingFromRelease
