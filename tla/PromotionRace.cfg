SPECIFICATION FairSpec
CONSTANTS
    q1 = q1
    q2 = q2
    r1 = r1
    r2 = r2
    ghost = ghost
    c1 = c1
    Requests = {q1, q2}
    Restaurants = {r1}
    Batch <- Single
    Known = {r1}
    Campaign <- MCCampaign
    Workers = {w1}
    None = None
    MaxRetries = 1
    MaxFaults = 0
    MaxMoves = 0
INVARIANT
    QualifiedLeadAdvances
