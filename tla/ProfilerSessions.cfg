\* setup() and teardown() in any order, Profiler blocks and requests around and inside.
SPECIFICATION Spec
CONSTANTS
    t1 = t1
    t2 = t2
    r1 = r1
    s1 = s1
    s2 = s2
    p1 = p1
    None = None
    ANY = ANY
    Threads = {t1, t2}
    Requests = {r1}
    Sessions = {s1, s2}
    Profilers = {p1}
    Configs <- SomeConfigs
SYMMETRY Interchangeable
INVARIANTS
    TypeOK
    ActiveIsMonitored
    OnlyRaisedOrReplacedLeak
    ThreadsAreIsolated
CHECK_DEADLOCK FALSE
