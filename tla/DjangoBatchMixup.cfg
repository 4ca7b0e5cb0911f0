\* Two requests in batch mode at the same time.
SPECIFICATION Spec
CONSTANTS
    r1 = r1
    r2 = r2
    r3 = r3
    r4 = r4
    t1 = t1
    t2 = t2
    i1 = i1
    i2 = i2
    NoId = NoId
    Requests = {r1, r2, r3}
    Contexts = {t1, t2}
    Ids = {i1, i2}
    Excluded = {r3}
    Configs <- BatchConfigs
    MayCancel = FALSE
SYMMETRY Interchangeable
INVARIANT
    BatchIsOwn
CHECK_DEADLOCK FALSE
