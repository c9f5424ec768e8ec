CONSTANTS
    c1 = c1
    c2 = c2
    ChildSlots = {c1}
    MaxLiveChildren = 1
    MaxFaults = 1
    FaultExits <- MCAllFaults
    MaxForkFailures = 0
    RestartAfterCrash = TRUE
    ArchiveMode = "off"
    StopModes = {}
    AdminEvents = {}
    ArchiverThrottle = FALSE
SYMMETRY MCSymmetry
SPECIFICATION Spec
INVARIANT NoServiceBeforeReinit
