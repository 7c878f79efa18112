SPECIFICATION Spec
CONSTANTS
    u1 = u1  u2 = u2  eth = eth  usd = usd
    Users = {u1, u2}
    Native = eth
    RewardTokens = {}
    CycleMinLength = 1
    NormalHoldings <- OneTwo
    DevHoldings <- NoStake
    StakeAmounts = {1, 2}
    Claimants = {u1, u2}
    RewardAmounts = {2}
    MaxHeld = 4
    MaxTime = 3
INVARIANTS
    TypeOK
    Solvent
    NothingStranded
