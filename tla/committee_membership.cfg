SPECIFICATION LegacySpec
CONSTANTS
    a = a  b = b  c = c  d = d  project = project  v1 = v1  v2 = v2  topic = topic
    Committee = Committee
    Original = Original
    VotingPeriod = 1
    FullThreshold = 40
    InitRatio = 150
    FinalRatio = 110
    Accounts = {a, b, c, d}
    InitialCommittee <- Trio
    DaoContracts = {}
    Proxies = {}
    AddTargets = {d}
    RemoveTargets = {c}
    Replacements <- NewPair
    RatioChoices = {}
    UpgradeTargets = {}
    Implementations = {}
    Topics = {}
    Durations = {}
    Thresholds = {}
    FullReplacements = {}
    NormalHoldings <- NoTokens
    DevHoldings <- NoTokens
    TransferAmounts = {}
    ConvertAmounts = {}
    MaxTime = 2
    MaxProposals = 2
    LegacyVoters = {a, b, d}
    MaxLegacy = 1
INVARIANTS
    TypeOK
    BallotsConsistent
    SettlementJustified
    SnapshotsFaithful
    OneChangePerDecision
PROPERTIES
    ElectorateFixed
    ElectorateIsCommitteeAtCreation
    DecisionsFinal
    DecisionsBound
