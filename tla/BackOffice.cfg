SPECIFICATION MCSpec
CONSTANTS
    w1 = w1
    w2 = w2
    r3 = r3
    r4 = r4
    l1 = l1
    l2 = l2
    l3 = l3
    l4 = l4
    l5 = l5
    None = None
    Missing = None
    Off = None
    Gone = None
    Unknown = None
    Never = None
    Workers <- MCWorkers
    Restaurants = {r1}
    MaxItems = 3
    MaxVersion = 4
    Leads = {l1, l2, l3, l4, l5}
    Variants = {"A", "B", "C"}
    VariantOf <- MCVariantOf
    SampleSize = 2
    Values <- MCValues
    ConfigScopes = {"market"}
    MaxVersions = 3
    Scored = {r3, r4}
    Signals = {"volume", "density"}
    Lazy = {"density"}
    Raw <- MCRaw
    Configs <- MCConfigs
    RuleChoices <- MCRules
    Converted = {r3}
    MaxSnapshots = 2
    MaxJobs = 2
    Invited = {r3}
    MaxCommits = 3
    ColumnValues = {"new", "qualified", "won"}
    First = "new"
    Qualified = "qualified"
    DealStages = {"buy", "won", "other"}
    StageMap <- MCStageMap
    MaxMoves = 2
    MaxPosts = 2
    MaxWrites = 2
    Contexts <- MCContexts
    MaxRequests = 1
    Measured <- MCMetrics
    MaxStatuses = 4
    Scopes = {"leads:read", "admin:all"}
    Lifetime = 1
    MaxTime = 3
    MaxTokens = 3
    Limit = 1
    Default = 2
    Window = 2
    MaxClock = 3
    MaxCalls = 3
SYMMETRY Interchangeable
INVARIANTS TypesOK DuplicatesExplained HistoriesTellState CampaignsTellWork AccessEnds RecordsTellWork
\* Rows and versions are bounded and an experiment has so many leads.
CHECK_DEADLOCK FALSE
