SPECIFICATION FairSpec
CONSTANTS
    a1 = a1
    a2 = a2
    b1 = b1
    c1 = c1
    Root = Root
    None = None
    s1 = s1
    Nodes = {a1, b1}
    PathOf <- MCPathOf
    DepthFirst <- MCDepthFirst
    Messages = {}
    Followups = {}
    Closers = {}
    Stoppers = {s1}
    MaxThreads = 2
    MaxDepth = 2
    CloseBelow = TRUE
    MaxPauses = 0
    MaxFailures = 0
PROPERTIES
    CloseFinishes
