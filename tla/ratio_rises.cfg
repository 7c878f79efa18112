SPECIFICATION Spec
CONSTANTS
    a = a  b = b  c = c  d = d  project = project  v1 = v1  v2 = v2  topic = topic
    Committee = Committee
    Original = Original
    VotingPeriod = 1
    FullThreshold = 40
    InitRatio = 150
    FinalRatio = 110
    Accounts = {a, b, c}
    InitialCommittee <- Pair
    DaoContracts = {}
    Proxies = {}
    AddTargets = {}
    RemoveTargets = {}
    Replacements = {}
    RatioChoices = {140, 120, 100}
    UpgradeTargets = {}
    Implementations = {}
    Topics = {}
    Durations = {}
    Thresholds = {}
    FullReplacements = {}
    NormalHoldings <- NoTokens
    DevHoldings <- NoTokens
    TransferAmounts = {}
    ConvertAmounts = {}
    MaxTime = 3
    MaxProposals = 2
    LegacyVoters = {}
    MaxLegacy = 0
PROPERTIES
    RatioNeverRises
