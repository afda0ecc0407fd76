SPECIFICATION Spec
CONSTANTS
    PageFrames = 4
    PageNum = 2
    MaxFrames = 7
    Wrap = FALSE
    StartModes <- Plain
    Switches <- Doubled
    Paced = FALSE
CHECK_DEADLOCK FALSE
INVARIANTS NoLapLost HeardOnce

