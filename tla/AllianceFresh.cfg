SPECIFICATION Spec
CONSTANTS
    Players = {1, 2}
    Humans = {1}
    Bots = {2}
    RequestTicks = 1
    CooldownTicks = 2
    RenewalTicks = 2
    BetrayalTicks = 2
    BotBlade = 1
    HumanBlade = 2
    GraceTicks = 2
    DurationTicks = 4
PROPERTIES
    FreshIsProtected
