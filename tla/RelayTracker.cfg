SPECIFICATION Spec
CONSTANTS
    Players = {p1, p2, p3}
    NoPlayer = NoPlayer
    Accounts = {p1, p2, p3}
    MaxConn = 2
    TicketsRequired = FALSE
    ChannelCap = 1
    EventCap = 2
    MaxMissed = 1
    InitialEmpty = 1
    EmptyBudget = 1
    Outside = {"resign"}
SYMMETRY Symmetry
INVARIANTS
    RankingExact
CHECK_DEADLOCK FALSE
