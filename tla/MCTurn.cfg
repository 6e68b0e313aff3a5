SPECIFICATION TurnSpec
CONSTANTS
    t1 = t1
    t2 = t2
    t3 = t3
    b1 = b1
    b2 = b2
    m1 = m1
    m2 = m2
    c1 = c1
    NoTurn = NoTurn
    Turns = {t1, t2}
    Bots = {b1}
    Clients = {}
    Msgs = {m1, m2}
    BotOf <- OneBot
    MsgOf <- SameMsg
    Orphaned = {}
    RetryMax = 1
    SupportsCancel = TRUE
    WatchdogFires = TRUE
    HardLimit = TRUE
    StatusExpires = TRUE
INVARIANTS
    TypeOK
    LockDiscipline
    RetryAfterReap
    SubmitBounded
    OwnerLive
    IdleWhenQuiet
    CancelledAndApart
PROPERTIES
    TurnsAreServed
