\* All settings, requests that fail and that are cancelled.
SPECIFICATION Spec
CONSTANTS
    r1 = r1
    r2 = r2
    r3 = r3
    r4 = r4
    t1 = t1
    t2 = t2
    i1 = i1
    i2 = i2
    NoId = NoId
    Requests = {r1, r2, r3, r4}
    Contexts = {t1, t2}
    Ids = {i1, i2}
    Excluded = {r4}
    Configs <- AllConfigs
    MayCancel = TRUE
SYMMETRY Interchangeable
INVARIANTS
    TypeOK
    OnlyAbnormalEndsLeak
    RunningIsMonitored
    Isolation
CHECK_DEADLOCK FALSE
