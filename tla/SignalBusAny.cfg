\* One flow has no worker of its own (ANY), two are alone in theirs.
SPECIFICATION Spec
CONSTANTS
    a = a
    b = b
    c = c
    w1 = w1
    w2 = w2
    p = p
    q = q
    z = z
    ANY = ANY
    Self = b
    Flows = {a, b, c}
    Receivers = {p, q, z}
    Workers = {w1, w2}
    FlowScope <- AnyFlowScope
    ReceiverScope <- AnyReceiverScope
    Weak = {z}
    Reconnected = {q}
    MaxNesting = 2
INVARIANTS
    LiveIsReachable
    IgnoreSuppresses
    NoResurrection
PROPERTIES
    ImplementsWorkerBus
