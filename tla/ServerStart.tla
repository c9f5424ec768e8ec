----------------------------- MODULE ServerStart -----------------------------
(***************************************************************************)
(* A server process from exec to the supervisor: main() (Main.tla)         *)
(* dispatches to PostmasterMain, whose start-up (PostmasterStart.tla)      *)
(* either exits or reaches the point where Postmaster.tla begins.  The two *)
(* share the command line; the credentials check_root judged stay those   *)
(* of the process PostmasterMain runs in.                                  *)
(***************************************************************************)
EXTENDS Integers

CONSTANTS Builds, OOMPossible, InitArgv, InitUsers, InitEnv

VARIABLES build, pc, reached_main, do_check_root, argv, user, env, adopted,
          idx, exitStatus, out, sub, environMoved, psDisplaySet, ubsan,
          ppc, lockFile, preloaded, pmStatus

M == INSTANCE Main
P == INSTANCE PostmasterStart

mvars == <<build, pc, reached_main, do_check_root, argv, user, env, adopted,
           idx, exitStatus, out, sub, environMoved, psDisplaySet, ubsan>>
pvars == <<ppc, lockFile, preloaded, pmStatus>>
allvars == <<mvars, pvars>>

TypeOK ==
    /\ M!TypeOK
    /\ ppc \in P!PSteps \cup {"not_called"}
    /\ lockFile \in BOOLEAN
    /\ preloaded \in BOOLEAN
    /\ pmStatus \in {-1, 0, 1, 2}

Init ==
    /\ M!Init
    /\ ppc = "not_called"
    /\ lockFile = FALSE
    /\ preloaded = FALSE
    /\ pmStatus = -1

(* The last branch of main()'s dispatch: PostmasterMain(argc, argv).       *)
CallPostmasterMain ==
    /\ pc = "dispatched"
    /\ sub = "PostmasterMain"
    /\ ppc = "not_called"
    /\ ppc' = "options"
    /\ UNCHANGED <<mvars, lockFile, preloaded, pmStatus>>

(* Once PostmasterMain has exited nothing of the process runs, not even   *)
(* the sanitizer hook.  Children, which set the ps display, are forked     *)
(* only by the supervisor.                                                 *)
Next ==
    \/ /\ ppc # "exited" /\ M!Next /\ UNCHANGED pvars
       /\ psDisplaySet' # psDisplaySet => ppc = "serverloop"
    \/ CallPostmasterMain
    \/ P!Next /\ UNCHANGED mvars
    \/ ppc = "exited" /\ UNCHANGED allvars

Spec == Init /\ [][Next]_allvars

-----------------------------------------------------------------------------
(* main()'s properties, checked on the composed process.                  *)
PrivilegedOnlyReadOnly == M!PrivilegedOnlyReadOnly
LocaleInherited == M!LocaleInherited
UbsanOptionsSeen == M!UbsanOptionsSeen

(***************************************************************************)
(* Root, a process whose real and effective uids differ, or a Windows     *)
(* administrator never becomes the supervisor (spec: "Root execution is    *)
(* refused except for read-only modes").  It takes main()'s standard      *)
(* options, check_root and dispatch, and both -C exits of PostmasterMain.  *)
(***************************************************************************)
SupervisorNeverPrivileged ==
    ppc = "serverloop" => ~M!Privileged(user)

(***************************************************************************)
(* -C of a GUC that is not runtime-computed never takes the data          *)
(* directory's lock file, so that it can be used beside a running server   *)
(* (the comments before the two -C exits of PostmasterMain).               *)
(***************************************************************************)
CHandledBeforeLock ==
    P!output_config_variable(argv) \notin P!RuntimeComputedGucs \cup {P!NULL}
        => ~lockFile

(***************************************************************************)
(* The activities root is let through main() for are read-only (the       *)
(* comment in main() on -C, and spec: "Root execution is refused except   *)
(* for read-only modes"): a privileged process never writes postmaster.pid *)
(* into the data directory and never loads and runs the                    *)
(* shared_preload_libraries.                                              *)
(***************************************************************************)
DataDirUntouchedByPrivileged ==
    M!Privileged(user) => ~lockFile /\ ~preloaded

====
