SPECIFICATION ModeSpec
CONSTANTS
  Sessions = {1, 2}
  Own <- OwnConversations
  MaxConv = 5
  MaxEvents = 2
  Prompts = {p1, p2}
  MaxReqs = 4
  MaxRetries = 2
  MaxAsks = 3
  MaxFaults = 1
INVARIANTS
    TerminalsSafe
    QuestionsSafe
PROPERTIES
    LaunchKeeps
    
CHECK_DEADLOCK FALSE
