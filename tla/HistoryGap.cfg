SPECIFICATION Spec
CONSTANTS
    MaxKey = 3
    HasWatcher = TRUE
    OtherSyncs = TRUE
    QueueMax = 4
    DriftSlack = 1
    MaxFrames = 2
    MaxEdits = 0
    MaxDrops = 0
    MaxFails = 0
    MaxRestarts = 0
PROPERTIES
    SyncFetchesAll
