SPECIFICATION Spec
CONSTANTS
    c1 = c1
    c2 = c2
    c3 = c3
    a1 = a1
    a2 = a2
    Conns = {c1, c2}
    Account <- TwoAccounts
    Guest = guest
    Bot = bot
    Empty = empty
    MaxLobbies = 2
    Rematches = 0
    MaxPid = 2
    MaxJoins = 3
    EventCap = 2
    Cap = 2
    BotFill = 1
    CountTicks = 2
    ForceTicks = 1
    LoadTicks = 2
    SettleTicks = 1
    Ports = 1
INVARIANTS
    NeverStranded
