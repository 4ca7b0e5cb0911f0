\* A block at ANY fails to be entered half way, and gives nothing back.
SPECIFICATION Spec
CONSTANTS
    a = a
    b = b
    c = c
    a2 = a2
    w1 = w1
    w2 = w2
    p1 = p1
    p2 = p2
    q = q
    z1 = z1
    z2 = z2
    ANY = ANY
    None = None
    Flows = {a, c}
    Receivers = {p1, p2, z1, z2}
    Workers = {w1, w2}
    FlowScope <- SomeFlowScope
    ReceiverScope <- SomeReceiverScope
    WeakWorkers = {w1}
SYMMETRY Interchangeable
INVARIANTS
    IgnoreRestores
CHECK_DEADLOCK FALSE
