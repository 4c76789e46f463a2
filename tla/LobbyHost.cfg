SPECIFICATION HostSpec
CONSTANTS
    c1 = c1
    c2 = c2
    c3 = c3
    a1 = a1
    a2 = a2
    Conns = {c1, c2, c3}
    Account <- TwoAccounts
    Guest = guest
    Bot = bot
    Empty = empty
    MaxLobbies = 2
    Rematches = 1
    MaxPid = 2
    MaxJoins = 3
    EventCap = 1
    Cap = 2
    BotFill = 0
    CountTicks = 2
    ForceTicks = 1
    LoadTicks = 1
    SettleTicks = 1
    Ports = 0
SYMMETRY SecondConnection
INVARIANTS
    SeatingRules
PROPERTIES
    TakeoverByOwner
