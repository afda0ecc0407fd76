SPECIFICATION FairSpec
CONSTANTS
    Sources <- ThreeSources
    Level <- MixedLevels
    Closed <- ClosedIrq0
    Vectors <- TwoTraps
    Masks <- OpenOrShut
    Traces <- MaybeTraced
    Routines = TRUE
    Raises = 2
    MaxTraps = 1
INVARIANTS
    NeverReentered
PROPERTIES
    ShadowRespected
    EveryRequestServed
