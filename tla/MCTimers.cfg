SPECIFICATION FairSpec
CONSTANTS
    Free <- OneFree
    Byte <- NoChannel
    Half = 2
    Rates <- SlowRate
    ResetRate = 2
    Period = 2
    Enables <- AllAtOnce
    MaxWrites = 2
INVARIANTS WordsWhole
PROPERTIES FlagsAcknowledged EveryFlagAsks HeartbeatGoesOn
