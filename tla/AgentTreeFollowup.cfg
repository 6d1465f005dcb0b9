SPECIFICATION FairSpec
CONSTANTS
    a1 = a1
    a2 = a2
    b1 = b1
    c1 = c1
    Root = Root
    None = None
    m1 = m1
    k1 = k1
    s1 = s1
    Nodes = {a1}
    PathOf <- MCPathOf
    DepthFirst <- MCDepthFirst
    Messages = {m1}
    Followups = {m1}
    Closers = {k1}
    Stoppers = {s1}
    MaxThreads = 1
    MaxDepth = 1
    CloseBelow = FALSE
    MaxPauses = 1
    MaxFailures = 0
PROPERTIES
    FollowupIsRead
    ShutdownFinishes
    CloseFinishes
