SPECIFICATION Spec
CONSTANTS
    c1 = c1
    c2 = c2
    t1 = t1
    config = config
    NoKey = NoKey
    Connections = {c1, c2}
    Threads = {}
    Resources = {config}
    Profiles <- QueueProfiles
    MaxRequests = 3
    MaxSignals = 0
SYMMETRY MCSymmetry
CHECK_DEADLOCK FALSE
INVARIANTS
    Serialized
    CleanedIsQuiet
