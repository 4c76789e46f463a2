SPECIFICATION EngineSpec
CONSTANTS
    Players = {1, 2}
    Humans = {1}
    Bots = {1, 2}
    RequestTicks = 1
    CooldownTicks = 2
    RenewalTicks = 2
    BetrayalTicks = 2
    BotBlade = 1
    HumanBlade = 2
    GraceTicks = 2
    DurationTicks = 4
    Owners = {p, t}
    People = {p}
    Nations = {p}
    Tribes = {t}
    Beyond = {t}
    Tiles = {a, b}
    Nobody = Nobody
    NoCity = NoCity
    NoCalc = NoCalc
    MaxCities = 2
    MaxLevel = 2
    NeededLand = 1
    InnerRadius <- Each
    MaxLobby = 2
    Retries = 2
    DialCap = 2
INVARIANTS
    EngineTypeOK
    AlliesAgree
    RequestsFit
    AlliesAtPeace
    DerivedCurrent
    DialAnswered
PROPERTIES
    Consent
    ExitEnds
