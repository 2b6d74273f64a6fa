SPECIFICATION MCSpec
CONSTANTS
    w1 = w1
    w2 = w2
    r1 = r1
    r2 = r2
    r3 = r3
    r4 = r4
    None = None
    Workers <- MCWorkers
    Restaurants <- All
    Zips <- MCZips
    Near <- NearBy
    Around <- Reach
    Score <- Scores
    MinSize = 2
    ActiveSize = 3
    MatureSize = 4
    MaxRequests = 5
    Jobs <- MCJobs
    Kind <- MCKind
    Sources <- MCSources
    Addressed = {r1, r2}
    MaxFaults = 1
    Rated = {r1, r2}
    Close <- MCClose
    MinCluster = 2
    Known <- MCKnown
    Logs <- MCLogs
    MaxChanges = 1
    Facts <- MCFacts
    Expiry = 1
    MaxDay = 1
    MaxResults = 2
    MaxReviews = 2
    Merchants = {r1, r2, r3}
    Areas <- MCAreas
    TypeOf <- MCTypes
    Related <- MCRelated
    MaxPeers = 1
    MaxBuilds = 2
    Leads = {"ann", "bob"}
    Tokens = {1, 2, 3}
    LeadOf <- MCLeadOf
    Targeted = {1, 2}
    MaxVisits = 2
    MaxSignals = 2
    MaxRuns = 2
SYMMETRY Interchangeable
INVARIANTS TypeOK TypesOK PlannedOnce LaunchesApart DetectionComplete
INVARIANTS ScoresTellFacts ReviewsTellStatus GraphLinksPeers FindingsAccounted
\* Requests may be used up.
CHECK_DEADLOCK FALSE
