CONSTANTS
    c1 = c1
    c2 = c2
    ChildSlots = {c1}
    MaxLiveChildren = 1
    MaxFaults = 0
    FaultExits <- MCAllFaults
    MaxForkFailures = 0
    RestartAfterCrash = TRUE
    ArchiveMode = "off"
    StopModes = {2, 3}
    AdminEvents = {}
    ArchiverThrottle = FALSE
SPECIFICATION FairSpec
PROPERTY FastShutdownCompletes
