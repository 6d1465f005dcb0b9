SPECIFICATION FairSpec
CONSTANTS
    r1 = r1
    r2 = r2
    r3 = r3
    c1 = c1
    c2 = c2
    s0 = s0
    s1 = s1
    NoRequest = NoRequest
    NoConfig = NoConfig
    NoSchema = NoSchema
    Requests = {r1, r2}
    WithMessage = {r1, r2}
    SchemaOf <- PlainSchemas
    SettingsOf <- PlainSettings
    Configs = {s0}
    InitialConfig = s0
    Published = {}
    Closers = {c1}
    WallClock = FALSE
    MaxSteps = 1
    MaxPauses = 2
CHECK_DEADLOCK FALSE
INVARIANTS
    TurnEventsWellFormed
    RolloutReplaysHistory
    RunEndIsLast
    ResumesItsOwnPause
PROPERTIES
    InterruptedTurnEnds
    WaitingSubmissionAnswered
    ShutdownReturns
