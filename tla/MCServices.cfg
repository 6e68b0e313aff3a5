SPECIFICATION ServicesSpec
CONSTANTS
    Events = {e1, e2}
    telegram = telegram
    lark = lark
    Registered <- Order
    Cached = {lark}
    OldChannel = slack
    Targets = {x}
    NoTarget = NoTarget
    x = x
    Defaults <- EnvDefaults
    Settings <- BotSettings
    BatchSize = 2
    MaxRetries = 2
    MaxRows = 2
    MaxConfigs = 1
    MaxRevoked = 1
    MaxStops = 1
    Sessions = {s1}
    Tasks = {task1, task2}
    Keywords = {k1}
    PositiveTarget = 2
    NegativeTarget = 1
    LowCount = 1
    MaxUpload = 1
    Hosts <- HostSets
    None = none
INVARIANTS
    MirrorSafe
    TasksSafe
PROPERTIES
    ForwardingSpec
    TasksKeep
    ServicesSettle
CHECK_DEADLOCK FALSE
