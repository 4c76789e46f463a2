SPECIFICATION ServicesSpec
CONSTANTS
    Requests = {r1, r2}
    Attempts = 2
    Skins = {skin}
    Leaders = {leader}
    Free = {}
    Secrets = {s1}
    Absent = Absent
    NoSecret = NoSecret
    Bare = Bare
    Grants = {buy}
    Refunds = {back}
    Worth <- OneEach
    Price <- OnePrice
    Gift = 1
    Reward = 1
    MaxMatches = 1
    Faults = {"call", "mirror", "reboot", "ram"}
    Matches = {m1, m2}
    Id <- Again
    Entrants = 1
    Tries = 2
    Handlers = {h1, h2}
    Nil = Nil
    Torn = Torn
    Lapses = {"post", "disk", "valkey", "redb", "relay", "data", "keys"}
    Games = {g1, g2}
    Number <- Reused
    PortCount = 2
    Asks = 2
    None = None
    Mishaps = {"data", "call", "bind", "server", "relay"}
    MaxPeers = 2
    MaxFd = 1
    MaxSlots = 1
    TxCap = 2
    RxCap = 1
    InboxCap = 1
    ParkBudget = 3
    OwedCap = 2
    Size = 2
    MaxWrites <- Written
    MaxChunks <- Sent
SYMMETRY Alike
INVARIANTS
    ServicesTypeOK
    BooksBalance
    ErasedStaysErased
    ReplayKept
    StartedWasHosted
    StreamsExact
PROPERTIES
    WholeUpdates
    LateCountsNothing
    ClosedForCause
CHECK_DEADLOCK FALSE
