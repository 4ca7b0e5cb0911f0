SPECIFICATION Spec
CONSTANTS
    r1 = r1
    r2 = r2
    r3 = r3
    t1 = t1
    t2 = t2
    i1 = i1
    i2 = i2
    i3 = i3
    NoId = NoId
    Requests = {r1, r2, r3}
    Threads = {t1, t2}
    Ids = {i1, i2, i3}
    Configs <- AllConfigs
    MaxDepth = 2
SYMMETRY Interchangeable
INVARIANTS
    TypeOK
    OnlyRaisedReportsLeak
    RunningIsMonitored
    Isolation
CHECK_DEADLOCK FALSE
