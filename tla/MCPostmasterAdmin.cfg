CONSTANTS
    c1 = c1
    c2 = c2
    ChildSlots = {c1}
    MaxLiveChildren = 1
    MaxFaults = 0
    FaultExits <- MCAllFaults
    MaxForkFailures = 0
    RestartAfterCrash = FALSE
    ArchiveMode = "always"
    StopModes = {1, 3}
    AdminEvents = {"reload", "lockfile"}
    ArchiverThrottle = FALSE
SYMMETRY MCSymmetry
SPECIFICATION Spec
INVARIANT TypeOK CodeAssertionsHold ShutdownCheckpointAlone
PROPERTY LifecycleRefined
