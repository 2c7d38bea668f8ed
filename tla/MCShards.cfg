CONSTANTS
    p1 = p1
    p2 = p2
    w1 = w1
    w2 = w2
    m1 = m1
    Nobody = Nobody
    Planners <- MCPlanners
    Workers <- MCWorkers
    Mergers <- MCMergers
    ShardCount = 2
    MaxCrashes = 2
SPECIFICATION Spec
SYMMETRY Symmetry
INVARIANTS
    ShardTypeOK
    ReportIsTrue
    MergeIsExact
PROPERTY MeetsStore
CHECK_DEADLOCK FALSE
