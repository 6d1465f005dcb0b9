SPECIFICATION Spec
CONSTANTS
    NCalls = 3
    Exclusive = {3}
    Claims <- MCClaims
    Writes <- MCWrites
    Fates <- MCFates
    NResources = 2
    Slots = 2
    Deferred = {3}
    Stubborn = {2}
    Agents = {1}
    None = None
CHECK_DEADLOCK FALSE
INVARIANTS
    NoLockDeadlock
    AllOrNothing
    WorstFailureReported
PROPERTIES
    TeardownReturns
