SPECIFICATION SnapSpec
CONSTANTS
    Size = 4
    Schedule <- ThreeEvents
    HostBytes = 0
    HostPaced = FALSE
    MaxCycle = 3
    RxDelay = 1
    Mk2 = TRUE
INVARIANTS NoGap
