SPECIFICATION Spec
CONSTANTS
    u1 = u1  u2 = u2  eth = eth  usd = usd
    Users = {u1, u2}
    Native = eth
    RewardTokens = {usd}
    CycleMinLength = 2
    NormalHoldings <- OneTwo
    DevHoldings <- JustOne
    StakeAmounts = {1}
    Claimants = {}
    RewardAmounts = {1}
    MaxHeld = 1
    MaxTime = 5
INVARIANTS
    TotalsMatchRecords
    RecordsCompact
PROPERTIES
    HistoryFrozen
    ImplementsSnapshots
