SPECIFICATION FairSpec
CONSTANTS
    Players = {p1}
    NoPlayer = NoPlayer
    Accounts = {p1}
    MaxConn = 2
    TicketsRequired = TRUE
    ChannelCap = 1
    EventCap = 2
    MaxMissed = 1
    InitialEmpty = 2
    EmptyBudget = 1
    Outside = {"overtime", "close"}
PROPERTIES
    MatchEnds
    ConnectionsClose
    GhostsLeave
CHECK_DEADLOCK FALSE
