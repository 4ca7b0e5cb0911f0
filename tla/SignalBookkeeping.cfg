\* Disconnects, and the entry of a block at ANY, are caught in the middle.
SPECIFICATION Spec
CONSTANTS
    a = a
    b = b
    c = c
    a2 = a2
    w1 = w1
    w2 = w2
    p1 = p1
    p2 = p2
    q = q
    z1 = z1
    z2 = z2
    ANY = ANY
    None = None
    Flows = {a, a2, c}
    Receivers = {p1, z1, z2}
    Workers = {w1, w2}
    FlowScope <- SomeFlowScope
    ReceiverScope <- SomeReceiverScope
    WeakWorkers = {w1}
SYMMETRY Interchangeable
INVARIANTS
    TypeOK
    LiveIsSubscribed
    InverseTables
    OnlyLockFreeRaces
    EmptyBucketsArePruned
CHECK_DEADLOCK FALSE
