SPECIFICATION CasesSpec
CONSTANTS
    MaxKey = 3
    HasWatcher = TRUE
    OtherSyncs = FALSE
    QueueMax = 4
    DriftSlack = 1
    MaxFrames = 2
    MaxEdits = 3
    MaxDrops = 0
    MaxFails = 0
    MaxRestarts = 0
INVARIANTS
    NoHole
    TableBoundsCursor
PROPERTIES
    AppendWithFaults
    HolesWithFaults
    Converges
