SPECIFICATION Spec
CONSTANTS
    Msgs = {1}
    Audio = {}
    MaxRetries = 2
    SlowStorage = FALSE
    InboundExpires = FALSE
    MaxDrops = 1
    MaxReloads = 0
    MaxRestarts = 0
    MaxClicks = 1
PROPERTIES
    FailedStaysForRetry
