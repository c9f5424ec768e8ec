CONSTANTS
    c1 = c1
    c2 = c2
    ChildSlots = {c1}
    MaxLiveChildren = 1
    MaxFaults = 1
    FaultExits <- MCAllFaults
    MaxForkFailures = 1
    RestartAfterCrash = TRUE
    ArchiveMode = "on"
    StopModes = {2}
    AdminEvents = {}
    ArchiverThrottle = FALSE
SYMMETRY MCSymmetry
SPECIFICATION Spec
INVARIANT RegistryMatchesProcesses SegmentIsCurrent CodeAssertionsHold FatalErrorOnlyInCrashStates ShutdownCheckpointAlone ShutdownCheckpointRequested
PROPERTY SessionsAdmittedOnlyWhenServing LifecycleRefined
