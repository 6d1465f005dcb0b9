SPECIFICATION Spec
CONSTANTS
    a1 = a1
    a2 = a2
    b1 = b1
    c1 = c1
    Root = Root
    None = None
    k1 = k1
    s1 = s1
    s2 = s2
    Nodes = {a1, b1}
    PathOf <- MCPathOf
    DepthFirst <- MCDepthFirst
    Messages = {}
    Followups = {}
    Closers = {k1}
    Stoppers = {s1, s2}
    MaxThreads = 2
    MaxDepth = 2
    CloseBelow = TRUE
    MaxPauses = 0
    MaxFailures = 1
SYMMETRY MCSymmetry
INVARIANTS
    OpenUnderOpen
    StoppedAgentIsQuiet
    ShutdownQuiesces
