SPECIFICATION FairSpec
CONSTANTS
    a = a  b = b  c = c  d = d  project = project  v1 = v1  v2 = v2  topic = topic
    Committee = Committee
    Original = Original
    VotingPeriod = 1
    FullThreshold = 40
    InitRatio = 150
    FinalRatio = 110
    Accounts = {a, b}
    InitialCommittee <- Solo
    DaoContracts = {project}
    Proxies = {}
    AddTargets = {}
    RemoveTargets = {}
    Replacements = {}
    RatioChoices = {120}
    UpgradeTargets = {}
    Implementations = {}
    Topics = {topic}
    Durations = {1}
    Thresholds = {50}
    FullReplacements = {}
    NormalHoldings <- MixedNormal
    DevHoldings <- MixedDev
    TransferAmounts = {}
    ConvertAmounts = {3}
    MaxTime = 3
    MaxProposals = 2
    LegacyVoters = {}
    MaxLegacy = 0
CHECK_DEADLOCK FALSE
INVARIANTS
    AllVotesCounted
    OneTokenOneVote
PROPERTIES
    ProposalsSettle
