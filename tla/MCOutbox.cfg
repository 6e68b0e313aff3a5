SPECIFICATION CasesSpec
CONSTANTS
    Msgs = {1}
    Audio = {1}
    MaxRetries = 2
    SlowStorage = FALSE
    InboundExpires = TRUE
    MaxDrops = 2
    MaxReloads = 0
    MaxRestarts = 0
    MaxClicks = 1
INVARIANTS
    NothingLost
    Attended
    
    TwoMessages
PROPERTIES
    
    MessagesSettle
