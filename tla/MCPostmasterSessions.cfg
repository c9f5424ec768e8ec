CONSTANTS
    c1 = c1
    c2 = c2
    ChildSlots = {c1, c2}
    MaxLiveChildren = 2
    MaxFaults = 0
    FaultExits <- MCAllFaults
    MaxForkFailures = 0
    RestartAfterCrash = TRUE
    ArchiveMode = "off"
    StopModes = {1, 2}
    AdminEvents = {}
    ArchiverThrottle = FALSE
SYMMETRY MCSymmetry
SPECIFICATION Spec
INVARIANT RegistryMatchesProcesses
PROPERTY SessionsAdmittedOnlyWhenServing LifecycleRefined
