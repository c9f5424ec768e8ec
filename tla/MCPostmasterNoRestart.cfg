CONSTANTS
    c1 = c1
    c2 = c2
    ChildSlots = {c1}
    MaxLiveChildren = 1
    MaxFaults = 1
    FaultExits <- MCAllFaults
    MaxForkFailures = 0
    RestartAfterCrash = FALSE
    ArchiveMode = "on"
    StopModes = {}
    AdminEvents = {}
    ArchiverThrottle = TRUE
SPECIFICATION FairSpec
 
PROPERTY ArchiverRestarted
