SPECIFICATION Spec
CONSTANTS
    a = a  b = b  c = c  d = d  project = project  v1 = v1  v2 = v2  topic = topic
    Committee = Committee
    Original = Original
    VotingPeriod = 1
    FullThreshold = 40
    InitRatio = 150
    FinalRatio = 110
    Accounts = {a, b}
    InitialCommittee <- Pair
    DaoContracts = {}
    Proxies = {project}
    AddTargets = {}
    RemoveTargets = {}
    Replacements = {}
    RatioChoices = {140, 120, 100}
    UpgradeTargets = {project, c}
    Implementations = {v1, v2}
    Topics = {}
    Durations = {}
    Thresholds = {}
    FullReplacements <- NewPeer
    NormalHoldings <- OneToken
    DevHoldings <- NoTokens
    TransferAmounts = {1}
    ConvertAmounts = {}
    MaxTime = 2
    MaxProposals = 2
    LegacyVoters = {}
    MaxLegacy = 0
INVARIANTS
    ImplementationApproved
    UpgradeSlotTracks
    RatioAboveFinal
PROPERTIES
    RatioPinned
