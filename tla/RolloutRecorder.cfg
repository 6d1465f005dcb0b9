SPECIFICATION Spec
CONSTANTS
    i1 = i1
    i2 = i2
    i3 = i3
    Items <- MCItems
    Payload <- MCPayload
    Use <- MCUse
    Calls = {c1}
    CheckpointInterval = 3
    MaxFailures = 3
    MaxRestarts = 1
CHECK_DEADLOCK FALSE
INVARIANTS
    RecoveryExact
    WriterKnowsItsFile
PROPERTIES
    ImplementsDurableLog
    CallAnswered
