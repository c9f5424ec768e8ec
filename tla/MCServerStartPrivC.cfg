SPECIFICATION Spec
CONSTANTS
    Builds <- MCBuilds
    OOMPossible = FALSE
    InitArgv <- MCArgv
    InitUsers <- MCUsers
    InitEnv <- MCPlainEnv
INVARIANT DataDirUntouchedByPrivileged
