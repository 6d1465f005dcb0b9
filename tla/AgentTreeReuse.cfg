SPECIFICATION Spec
CONSTANTS
    a1 = a1
    a2 = a2
    b1 = b1
    c1 = c1
    Root = Root
    None = None
    m1 = m1
    k1 = k1
    k2 = k2
    Nodes = {a1, a2}
    PathOf <- MCPathOf
    DepthFirst <- MCDepthFirst
    Messages = {m1}
    Followups = {m1}
    Closers = {k1, k2}
    Stoppers = {}
    MaxThreads = 2
    MaxDepth = 1
    CloseBelow = FALSE
    MaxPauses = 0
    MaxFailures = 0
SYMMETRY MCSymmetry
INVARIANTS
    NoTriggerStranded
    OpenAgentStaysListed
