SPECIFICATION Spec
CONSTANTS
    Builds <- MCBuilds
    OOMPossible = TRUE
    InitArgv <- MCArgv
    InitUsers <- MCUsers
    InitEnv <- MCLocaleEnv
INVARIANT PrivilegedOnlyReadOnly LocaleInherited SupervisorNeverPrivileged CHandledBeforeLock UbsanOptionsSeen
