SPECIFICATION Spec
CONSTANTS
    c1 = c1
    c2 = c2
    t1 = t1
    config = config
    NoKey = NoKey
    Connections = {c1}
    Threads = {t1}
    Resources = {}
    Profiles <- TurnProfiles
    MaxRequests = 2
    MaxSignals = 2
INVARIANTS
    DrainedIsQuiet
PROPERTIES
    DrainEnds
    RequestsSettle
CHECK_DEADLOCK FALSE
