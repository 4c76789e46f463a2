SPECIFICATION Spec
CONSTANTS
    Players = {p1, p2}
    NoPlayer = NoPlayer
    Accounts = {p1, p2}
    MaxConn = 3
    TicketsRequired = TRUE
    ChannelCap = 1
    EventCap = 2
    MaxMissed = 1
    InitialEmpty = 1
    EmptyBudget = 1
    Outside = {}
PROPERTY EndsOnlyWhenOver
CHECK_DEADLOCK FALSE
