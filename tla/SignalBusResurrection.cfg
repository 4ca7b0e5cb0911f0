\* One flow of a worker cleans up while another is in an ignore block.
SPECIFICATION Spec
CONSTANTS
    a = a
    b = b
    c = c
    w1 = w1
    w2 = w2
    p = p
    q = q
    z = z
    ANY = ANY
    Self = a
    Flows = {a, b, c}
    Receivers = {p, q, z}
    Workers = {w1, w2}
    FlowScope <- SharedFlowScope
    ReceiverScope <- SharedReceiverScope
    Weak = {z}
    Reconnected = {}
    MaxNesting = 2
INVARIANT
    NoResurrectionOfAny
