--------------------------- MODULE PostmasterStart ---------------------------
(***************************************************************************)
(* PostmasterMain (postmaster.c) from the option parsing up to the set-up *)
(* of shared memory, the part that decides whether the process goes on to *)
(* become the supervisor:                                                  *)
(*   - the getopt loop and the test for non-option arguments;             *)
(*   - SelectConfigFiles;                                                  *)
(*   - -C for an ordinary GUC: print it and exit;                          *)
(*   - the data directory and the GUC combination checks;                  *)
(*   - CreateDataDirLockFile;                                              *)
(*   - the control file and process_shared_preload_libraries;              *)
(*   - -C for a runtime-computed GUC: print it and exit.                   *)
(* The rest of PostmasterMain and ServerLoop are the subject of            *)
(* Postmaster.tla; ppc = "serverloop" is where that module's Init starts.   *)
(*                                                                         *)
(* Failures that depend on files, the configuration or another server     *)
(* (no configuration file, a bad data directory or control file, a lock   *)
(* file held by a live postmaster) are chosen with \E at the step that     *)
(* meets them.  An ereport(ERROR) this early has no handler to catch it    *)
(* and is promoted to FATAL, which exits with status 1 exactly as          *)
(* ExitPostmaster(1) does.                                                  *)
(***************************************************************************)
EXTENDS Integers

CONSTANTS
    InitArgv        \* the command lines: records [argc, arg1, arg2]

VARIABLES
    argv,           \* the command line (fixed)
    ppc,            \* the step of PostmasterMain to run next
    lockFile,       \* this process holds the data directory's postmaster.pid
    preloaded,      \* shared_preload_libraries have been loaded and run
    pmStatus        \* -1 while running, else the status given to proc_exit

pvars == <<ppc, lockFile, preloaded, pmStatus>>

PSteps == {"options", "config", "early_c", "datadir", "lock", "libs",
           "late_c", "serverloop", "exited"}

(* The GUC names the model uses for -C, by what GetConfigOptionFlags      *)
(* reports: an ordinary GUC, a runtime-computed one, or no GUC at all.     *)
KnownGucs == {"shared_buffers", "shared_memory_size"}
RuntimeComputedGucs == {"shared_memory_size"}
NULL == "NULL"

(* output_config_variable after the getopt loop: the value of -C.          *)
output_config_variable(a) ==
    IF a.argc >= 3 /\ a.arg1 = "-C" THEN a.arg2 ELSE NULL

(***************************************************************************)
(* The getopt loop and the "invalid argument" test, for command lines of  *)
(* at most two arguments: accepted are no argument, and -C or -D with its  *)
(* value.  A switch missing its value, an unknown switch and a trailing    *)
(* non-option argument reach ExitPostmaster(1); a --name or --name=value   *)
(* that sets no GUC raises ERROR, promoted to FATAL.                       *)
(***************************************************************************)
OptionsAccepted(a) ==
    \/ a.argc = 1
    \/ a.argc = 3 /\ a.arg1 \in {"-C", "-D"}

TypeOK ==
    /\ ppc \in PSteps
    /\ lockFile \in BOOLEAN
    /\ preloaded \in BOOLEAN
    /\ pmStatus \in {-1, 0, 1, 2}

Init ==
    /\ argv \in InitArgv
    /\ ppc = "options"
    /\ lockFile = FALSE
    /\ preloaded = FALSE
    /\ pmStatus = -1

(* ExitPostmaster(status): proc_exit, whose on_proc_exit callbacks include *)
(* UnlinkLockFiles once CreateDataDirLockFile has registered it.            *)
ExitPostmaster(status) ==
    /\ ppc' = "exited"
    /\ pmStatus' = status
    /\ lockFile' = FALSE
    /\ UNCHANGED preloaded

(* Go on to step s.                                                        *)
Goto(s) ==
    /\ ppc' = s
    /\ UNCHANGED <<lockFile, preloaded, pmStatus>>

GetOptions ==
    /\ ppc = "options"
    /\ \/ OptionsAccepted(argv) /\ Goto("config")
       \/ ~OptionsAccepted(argv) /\ ExitPostmaster(1)

(* SelectConfigFiles fails when the configuration files or the data       *)
(* directory cannot be found.                                              *)
SelectConfigFiles ==
    /\ ppc = "config"
    /\ \/ Goto("early_c")
       \/ ExitPostmaster(2)

(* Mutant (a plausible slip in the code it stands for): every -C is held  *)
(* back until after the data directory is locked.                          *)
EarlyConfigOutputDeferred ==
    /\ ppc = "early_c"
    /\ Goto("datadir")

(***************************************************************************)
(* -C for a GUC GetConfigOptionFlags does not mark runtime-computed: print *)
(* it and ExitPostmaster(0).  An unknown name has flags 0 and reaches      *)
(* GetConfigOption(name, false, false), whose ERROR ends the process.      *)
(* A runtime-computed GUC, and no -C at all, go on.                        *)
(***************************************************************************)
EarlyConfigOutput ==
    /\ ppc = "early_c"
    /\ LET name == output_config_variable(argv) IN
         \/ name \in RuntimeComputedGucs \cup {NULL} /\ Goto("datadir")
         \/ name \in KnownGucs \ RuntimeComputedGucs /\ ExitPostmaster(0)
         \/ name \notin KnownGucs \cup {NULL} /\ ExitPostmaster(1)

(* checkDataDir, checkControlFile, ChangeToDataDir and the checks of GUC  *)
(* combinations and of the date token tables; any of them may end the     *)
(* process with status 1.                                                  *)
CheckDataDirectory ==
    /\ ppc = "datadir"
    /\ \/ Goto("lock")
       \/ ExitPostmaster(1)

(* CreateDataDirLockFile(true): FATAL when a live postmaster holds         *)
(* postmaster.pid, else the file is written and its removal registered.   *)
CreateDataDirLockFile ==
    /\ ppc = "lock"
    /\ \/ /\ lockFile' = TRUE
          /\ ppc' = "libs"
          /\ UNCHANGED <<preloaded, pmStatus>>
       \/ ExitPostmaster(1)

(* LocalProcessControlFile, which is FATAL on a bad control file, then    *)
(* ApplyLauncherRegister and process_shared_preload_libraries.             *)
LoadLibraries ==
    /\ ppc = "libs"
    /\ \/ /\ preloaded' = TRUE
          /\ ppc' = "late_c"
          /\ UNCHANGED <<lockFile, pmStatus>>
       \/ ExitPostmaster(1)

(* After InitializeShmemGUCs, -C of a runtime-computed GUC prints it and  *)
(* exits with status 0; without -C the set-up of shared memory follows.   *)
LateConfigOutput ==
    /\ ppc = "late_c"
    /\ \/ output_config_variable(argv) # NULL /\ ExitPostmaster(0)
       \/ output_config_variable(argv) = NULL /\ Goto("serverloop")

(* The process has exited, or is the supervisor (Postmaster.tla).          *)
Done ==
    /\ ppc \in {"exited", "serverloop"}
    /\ UNCHANGED pvars

(* The command line never changes.                                         *)
Next ==
    /\ UNCHANGED argv
    /\ \/ GetOptions
       \/ SelectConfigFiles
       \/ EarlyConfigOutput
       \/ CheckDataDirectory
       \/ CreateDataDirLockFile
       \/ LoadLibraries
       \/ LateConfigOutput
       \/ Done

Spec == Init /\ [][Next]_<<argv, pvars>>

====
