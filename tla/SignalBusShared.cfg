\* Two flows share the worker w2, a third is alone in w1.
SPECIFICATION FairSpec
CONSTANTS
    a = a
    b = b
    c = c
    w1 = w1
    w2 = w2
    p = p
    q = q
    z = z
    ANY = ANY
    Self = a
    Flows = {a, b, c}
    Receivers = {p, q, z}
    Workers = {w1, w2}
    FlowScope <- SharedFlowScope
    ReceiverScope <- SharedReceiverScope
    Weak = {z}
    Reconnected = {}
    MaxNesting = 2
INVARIANTS
    TypeOK
    LiveIsReachable
    StrengthKept
    IgnoreSuppresses
    NoResurrection
PROPERTIES
    ImplementsWorkerBus
    HeardAgain
