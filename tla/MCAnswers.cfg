SPECIFICATION AnswersSpec
CONSTANTS
    Web = {1, 2}
    Terminal = {3}
    Tools = {1}
    NullStops = {2}
    Resumable = TRUE
    MaxFaults = 1
    MaxPieces = 2
    Voiced = {1}
    Length = 2
    MaxFailures = 1
    MaxCalls = 2
    MaxRecs = 2
    MaxTaps = 3
INVARIANTS
    EntriesMatch
    VoiceSafe
PROPERTIES
    EndsAwake
    VoiceRests
CHECK_DEADLOCK FALSE
