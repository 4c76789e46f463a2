SPECIFICATION Spec
CONSTANTS
    Players = {p1}
    NoPlayer = NoPlayer
    Accounts = {}
    MaxConn = 3
    TicketsRequired = TRUE
    ChannelCap = 1
    EventCap = 2
    MaxMissed = 2
    InitialEmpty = 1
    EmptyBudget = 1
    Outside = {"rematch", "expire"}
INVARIANTS
    TypeOK
    TicketAdmitsOnce
    RoutedToNewest
    MarkFollowsRoster
PROPERTIES
    ReplacedForward
    SeatIsSafe
CHECK_DEADLOCK FALSE
