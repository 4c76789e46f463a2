SPECIFICATION Spec
CONSTANTS
    Players = {p1}
    MaxTurns = 3
    MaxLinks = 1
    QueueCap = 1
    LiveCap = 4
    ChannelCap = 4
    MaxMissed = 2
    DiskFails = FALSE
    LoadedFirst = TRUE
INVARIANTS
    Lockstep
CHECK_DEADLOCK FALSE
