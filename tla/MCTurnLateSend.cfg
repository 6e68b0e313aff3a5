SPECIFICATION Spec
CONSTANTS
    t1 = t1
    t2 = t2
    b1 = b1
    m1 = m1
    m2 = m2
    NoTurn = NoTurn
    Turns = {t1, t2}
    Bots = {b1}
    Clients = {c1}
    Msgs = {m1, m2}
    BotOf <- OneBot
    MsgOf <- DistinctMsgs
    Orphaned = {}
    RetryMax = 1
    SupportsCancel = TRUE
    WatchdogFires = TRUE
    HardLimit = TRUE
    StatusExpires = FALSE
PROPERTIES
    CancelledNotSubmitted
