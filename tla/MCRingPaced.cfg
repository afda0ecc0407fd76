SPECIFICATION FairSpec
CONSTANTS
    PageFrames = 4
    PageNum = 2
    MaxFrames = 13
    Wrap = TRUE
    StartModes <- Either
    Switches <- Never
    Paced = TRUE
CHECK_DEADLOCK FALSE
INVARIANTS DrawsAlone
PROPERTIES ImplementsDelayLine QuitHonoured WorkThreadEnds
