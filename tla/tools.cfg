SPECIFICATION ToolsSpec
CONSTANTS
    a = a  b = b  dev = dev  project = project  topic = topic
    file1 = file1  init = init
    Committee = Committee
    Original <- First
    VotingPeriod = 1
    FullThreshold = 40
    InitRatio = 150
    FinalRatio = 110
    Accounts = {a, b}
    InitialCommittee <- Solo
    DaoContracts = {project}
    Proxies = {dev}
    AddTargets = {}
    RemoveTargets = {}
    Replacements = {}
    RatioChoices = {}
    UpgradeTargets = {dev}
    Implementations <- Deployments
    Topics = {topic}
    Durations = {1}
    Thresholds = {}
    FullReplacements = {}
    NormalHoldings <- NoTokens
    DevHoldings <- NoTokens
    TransferAmounts = {}
    ConvertAmounts = {}
    MaxTime = 2
    MaxProposals = 2
    Operators = {a, b}
    Proxy = dev
    Calldata = init
    Empty = "0x"
    AllowLegacyCalldata = FALSE
    Flags <- Commands
    MaxDeployed = 1
    MaxRuns = 4
    ToolUsers = {a}
    Answers <- TheAnswers
    Sides <- Against
    Bundles = {file1}
CHECK_DEADLOCK FALSE
INVARIANTS
    OneReportPerExecution
    SummaryNamesItsProposal
    VotedAsShown
    RefusedOnlyIfOvertaken
