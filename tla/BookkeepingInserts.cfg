\* Sends insert buckets.
SPECIFICATION Spec
CONSTANTS
    a = a
    b = b
    c = c
    a2 = a2
    w1 = w1
    w2 = w2
    p1 = p1
    p2 = p2
    q = q
    z1 = z1
    z2 = z2
    ANY = ANY
    None = None
    Flows = {a, b, c}
    Receivers = {p1, q, z1}
    Workers = {w1, w2}
    FlowScope <- SomeFlowScope
    ReceiverScope <- SomeReceiverScope
    WeakWorkers = {w1}
INVARIANTS
    SendsNeverInsert
CHECK_DEADLOCK FALSE
