SPECIFICATION SessionsSpec
CONSTANTS
    t1 = t1
    t2 = t2
    Turns = {t1, t2}
    Compact = Compact
    MaxGen = 2
    MaxFaults = 2
    Chats = {1, 2}
    Other = 0
    Length = 1
    MaxSocks = 3
    MaxLosses = 1
INVARIANTS
    
    GatewaySafe
PROPERTIES
    SessionsSettle
CHECK_DEADLOCK FALSE
