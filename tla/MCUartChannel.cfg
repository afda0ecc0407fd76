CONSTANTS
    Size = 4
    Schedule <- SeqSchedule
    HostBytes = 3
    HostPaced = TRUE
    MaxCycle = 4
    RxDelay = 1
    Mk2 = TRUE
SPECIFICATION BoardsSpec
PROPERTIES NoUnreadOverwritten ImplementsChannel
