SPECIFICATION PlayerSpec
CONSTANTS
    MaxPieces = 2
    Voiced = {1}
    Length = 1
    MaxFaults = 0
    MaxCalls = 1
INVARIANTS
    StaleDiscarded
CHECK_DEADLOCK FALSE
