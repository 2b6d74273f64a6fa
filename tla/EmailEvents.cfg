SPECIFICATION FairSpec
CONSTANTS
    w1 = w1
    w2 = w2
    t1 = t1
    t2 = t2
    l1 = l1
    l2 = l2
    m1 = m1
    m2 = m2
    e1 = e1
    e2 = e2
    e3 = e3
    e4 = e4
    e5 = e5
    e6 = e6
    null = null
    Workers = {w1, w2}
    Targets = {t1, t2}
    Leads = {l1, l2}
    LeadOf <- MCLeadOf
    Messages = {m1, m2}
    TargetOf <- MCTargetOf
    Batches <- SeparateBatches
    None = null
    MaxPosts = 2
    MaxRetries = 1
    MaxFaults = 1
INVARIANTS
    TypeOK
    OptOutFollowsRecord
    StatusBackedByEvent
    HistoryEndsAtStatus
    EventsAccounted
PROPERTIES
    FollowsLifecycle
    QueueDrains
