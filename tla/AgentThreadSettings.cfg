SPECIFICATION Spec
CONSTANTS
    r1 = r1
    r2 = r2
    r3 = r3
    c1 = c1
    c2 = c2
    s0 = s0
    s1 = s1
    NoRequest = NoRequest
    NoConfig = NoConfig
    NoSchema = NoSchema
    Requests = {r1, r2}
    WithMessage = {r1}
    SchemaOf <- OneSchema
    SettingsOf <- OneSetting
    Configs = {s0, s1}
    InitialConfig = s0
    Published = {s0}
    Closers = {}
    WallClock = TRUE
    MaxSteps = 1
    MaxPauses = 1
CHECK_DEADLOCK FALSE
INVARIANTS
    TypeOK
    PauseKeepsStepSettings
