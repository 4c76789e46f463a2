SPECIFICATION FairSpec
CONSTANTS
    Players = {p1}
    MaxTurns = 3
    MaxLinks = 2
    QueueCap = 2
    LiveCap = 2
    ChannelCap = 2
    MaxMissed = 2
    DiskFails = TRUE
    LoadedFirst = FALSE
INVARIANTS
    TypeOK
    ReplayFaithful
    JournalFirst
    NothingBetween
PROPERTIES
    ImplementsLog
    TickReturns
    FinalizeSettles
CHECK_DEADLOCK FALSE
