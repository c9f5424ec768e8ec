----------------------------- MODULE Postmaster -----------------------------
(***************************************************************************)
(* The supervisor process of postmaster.c (src/unnamed/part_001): its     *)
(* lifecycle state machine (pmState, Shutdown, FatalError), its accounting *)
(* of children (the special-child PIDs and BackendList), the signal flags *)
(* set by its handlers, the handlers ServerLoop dispatches, and the OS    *)
(* processes it forks, signals and reaps.                                 *)
(*                                                                        *)
(* The C handlers run to completion on a single thread, so each one is    *)
(* one action.  They call one another (HandleChildCrash, the state        *)
(* machine, TerminateChildren, ...) in sequence; those callees are        *)
(* written as operators from a "world" record                             *)
(*     [pm |-> supervisor globals, procs |-> OS processes, ghost |-> ...] *)
(* to the world after the call, and an action composes them in the        *)
(* order of the code.  The waitpid() loop of process_pm_child_exit is one *)
(* action per reaped child, because children keep dying while it runs.    *)
(***************************************************************************)
EXTENDS Integers, FiniteSets, Functions, TLC

CONSTANTS
    ChildSlots,         \* identities of BackendList children (sessions, dead-ends)
    MaxLiveChildren,    \* MaxLivePostmasterChildren()
    MaxFaults,          \* bound on child failures nobody asked for
    FaultExits,         \* the <<child, status>> failures the outside may cause
    MaxForkFailures,    \* bound on fork() failures of special children
    RestartAfterCrash,  \* GUC restart_after_crash
    ArchiveMode,        \* GUC archive_mode
    ArchiverThrottle,   \* whether PgArchCanRestart may refuse a restart
    StopModes,          \* the pg_ctl stop modes the administrator may use
    AdminEvents         \* which of "reload", "lockfile"
                        \* the outside may cause

ASSUME /\ ChildSlots # {}
       /\ MaxLiveChildren \in Nat \ {0}
       /\ MaxFaults \in Nat
       /\ FaultExits \subseteq
            (ChildSlots \cup {"startup", "checkpointer", "bgwriter", "walwriter", "archiver"})
              \X {1, 2}
       /\ MaxForkFailures \in Nat
       /\ RestartAfterCrash \in BOOLEAN
       /\ ArchiveMode \in {"off", "on", "always"}
       /\ ArchiverThrottle \in BOOLEAN
       /\ StopModes \subseteq {1, 2, 3}
       /\ AdminEvents \subseteq {"reload", "lockfile"}

(* The special children modelled, each tracked by one PID variable.       *)
Specials == {"startup", "checkpointer", "bgwriter", "walwriter", "archiver"}
Procs == Specials \cup ChildSlots

NoShutdown == 0
SmartShutdown == 1
FastShutdown == 2
ImmediateShutdown == 3

(* The PMState enum, with the order its comparisons (<) use.              *)
PMRank == [PM_INIT |-> 0, PM_STARTUP |-> 1, PM_RECOVERY |-> 2,
           PM_HOT_STANDBY |-> 3, PM_RUN |-> 4, PM_STOP_BACKENDS |-> 5,
           PM_WAIT_BACKENDS |-> 6, PM_SHUTDOWN |-> 7, PM_SHUTDOWN_2 |-> 8,
           PM_WAIT_DEAD_END |-> 9, PM_NO_CHILDREN |-> 10]
PMStates == DOMAIN PMRank

StartupStatuses == {"STARTUP_NOT_RUNNING", "STARTUP_RUNNING",
                    "STARTUP_SIGNALED", "STARTUP_CRASHED"}

(* Exit statuses the code tells apart: 0, 1 (FATAL), 3 (recovery target   *)
(* reached) and 2 standing for every other status (quickdie's _exit(2),   *)
(* death by a signal).                                                    *)
ExitCodes == {0, 1, 2, 3}
Signals == {"SIGTERM", "SIGQUIT", "SIGUSR2"}

(* bkend_type values; a "normal" child that has set its walsender flag in *)
(* shared memory is counted as a walsender (the relabelling done by       *)
(* CountChildren and SignalSomeChildren whenever target # ALL).           *)
BackendTypes == {"normal"}
BACKEND_TYPE_ALL == {"normal", "walsender", "autovac", "bgworker"}

PMSignalReasons == {"RECOVERY_STARTED", "BEGIN_HOT_STANDBY",
                    "ADVANCE_STATE_MACHINE"}

NoProc == [st |-> "none", code |-> 0, seg |-> 0, sigs |-> {},
           walsnd |-> FALSE, redo |-> "redo"]

VARIABLES
    pm,         \* the supervisor's private globals
    procs,      \* the OS processes it has forked, by identity
    flags,      \* the pending_pm_* flags set by the signal handlers
    pmsignals,  \* PMSignalState: the reasons children have raised in shmem
    env,        \* outside the supervisor: fault budget, data-dir lock file
    ghost       \* history kept only for the properties

vars == <<pm, procs, flags, pmsignals, env, ghost>>

ProcRec == [st : {"none", "alive", "zombie"}, code : ExitCodes,
            seg : Nat, sigs : SUBSET Signals, walsnd : BOOLEAN,
            redo : {"redo", "recovery", "consistent"}]
BackendRec == [bkend_type : BackendTypes, dead_end : BOOLEAN]

TypeOK ==
    /\ pm.pmState \in PMStates
    /\ pm.Shutdown \in NoShutdown..ImmediateShutdown
    /\ pm.FatalError \in BOOLEAN
    /\ pm.connsAllowed \in BOOLEAN
    /\ pm.StartupStatus \in StartupStatuses
    /\ pm.AbortStartTime \in BOOLEAN          \* AbortStartTime # 0
    /\ pm.archStarted \in BOOLEAN             \* last_pgarch_start_time # 0
    /\ pm.PID \in [Specials -> BOOLEAN]        \* StartupPID # 0, ...
    /\ DOMAIN pm.BackendList \subseteq ChildSlots
    /\ \A c \in DOMAIN pm.BackendList : pm.BackendList[c] \in BackendRec
    /\ pm.segment \in Nat
    /\ pm.listening \in BOOLEAN               \* pm_wait_set has the sockets
    /\ pm.reaping \in BOOLEAN                 \* inside the waitpid() loop
    /\ pm.exit \in {-1, 0, 1}                 \* ExitPostmaster(status), -1: running
    /\ procs \in [Procs -> ProcRec]
    /\ flags \in [shutdown : BOOLEAN, fast : BOOLEAN, immediate : BOOLEAN,
                  reload : BOOLEAN, childExit : BOOLEAN, pmsignal : BOOLEAN]
    /\ pmsignals \subseteq PMSignalReasons
    /\ env \in [faults : 0..MaxFaults, lockFileValid : BOOLEAN]
    /\ ghost \in [cascade : BOOLEAN, assertOK : BOOLEAN,
                  forkFailures : 0..MaxForkFailures]

-----------------------------------------------------------------------------
(* Helpers on a world record w.                                           *)

(* forkFail and archRestart are not state: the set of special children    *)
(* whose fork() fails if the step tries one, and what PgArchCanRestart    *)
(* answers in the step (ForkingWorld).                                    *)
World == [pm |-> pm, procs |-> procs, ghost |-> ghost, pmsignals |-> pmsignals,
          forkFail |-> {}, archRestart |-> TRUE]
(* Op(w), with w evaluated once.  The handlers are chains of calls, and   *)
(* without this TLC re-evaluates an argument at each of its uses where it *)
(* decides ENABLED for the fairness conditions.                           *)
Call(Op(_), w) == CHOOSE r \in {Op(v) : v \in {w}} : TRUE

SetWorld(w0) ==
    \E w \in {w0} : /\ pm' = w.pm /\ procs' = w.procs /\ ghost' = w.ghost
                    /\ pmsignals' = w.pmsignals

Running(w) == w.pm.exit = -1

(* An Assert() of the code: remembered as failed when cond is false.      *)
Check(w, cond) == [w EXCEPT !.ghost.assertOK = @ /\ cond]

MaxInt(a, b) == IF a >= b THEN a ELSE b

(* kill(): a signal reaches only a process that is still running.  A      *)
(* caught signal is remembered until the child acts on it; SIGKILL        *)
(* cannot be caught and ends the process at once (exit status 2 stands    *)
(* for "killed by a signal").                                             *)
signal_child(w, P, sig) ==
    [w EXCEPT !.procs = [p \in Procs |->
        IF p \in P /\ w.procs[p].st = "alive"
        THEN IF sig = "SIGKILL"
             THEN [w.procs[p] EXCEPT !.st = "zombie", !.code = 2]
             ELSE [w.procs[p] EXCEPT !.sigs = @ \cup {sig}]
        ELSE w.procs[p]]]

RunningSpecials(w, S) == {k \in S : w.pm.PID[k]}

TypeOf(w, c) ==
    IF w.pm.BackendList[c].bkend_type = "normal" /\ w.procs[c].walsnd
    THEN "walsender" ELSE w.pm.BackendList[c].bkend_type

(* The BackendList children of the target types; dead_end ones never.     *)
ChildrenOf(w, target) ==
    {c \in DOMAIN w.pm.BackendList :
        ~w.pm.BackendList[c].dead_end /\ TypeOf(w, c) \in target}

CountChildren(w, target) == Cardinality(ChildrenOf(w, target))

SignalSomeChildren(w, sig, target) == signal_child(w, ChildrenOf(w, target), sig)

TerminateChildren(w, sig) ==
    LET w1 == signal_child(SignalSomeChildren(w, sig, BACKEND_TYPE_ALL),
                           RunningSpecials(w, Specials), sig)
    IN IF w.pm.PID["startup"] /\ sig \in {"SIGQUIT", "SIGKILL"}
       THEN [w1 EXCEPT !.pm.StartupStatus = "STARTUP_SIGNALED"]
       ELSE w1

(* fork() of a process attached to the current shared-memory segment.     *)
Forked(w, p) == [w EXCEPT !.procs[p] = [NoProc EXCEPT !.st = "alive",
                                                      !.seg = w.pm.segment]]

ExitPostmaster(w, status) == [w EXCEPT !.pm.exit = status]

(* StartChildProcess: the PID of the forked child, or 0 when fork()      *)
(* fails; a failure to fork the startup process ends the postmaster.      *)
StartChildProcess(w, k) ==
    IF k \in w.forkFail
    THEN LET w1 == [w EXCEPT !.ghost.forkFailures = @ + 1]
         IN IF k = "startup" THEN ExitPostmaster(w1, 1) ELSE w1
    ELSE [Forked(w, k) EXCEPT !.pm.PID[k] = TRUE]

(* The "if (XxxPID == 0 && cond) XxxPID = StartChildProcess(...)" idiom.  *)
MaybeStart(w, k, cond) ==
    IF cond /\ ~w.pm.PID[k] THEN StartChildProcess(w, k) ELSE w

(* Mutant (a plausible slip in the code it stands for): the archiver      *)
(* is also allowed before recovery has started.                           *)
PgArchStartupAllowedEarly(w) ==
    /\ \/ ArchiveMode \in {"on", "always"} /\ w.pm.pmState = "PM_RUN"
       \/ ArchiveMode = "always" /\ w.pm.pmState \in {"PM_STARTUP", "PM_RECOVERY", "PM_HOT_STANDBY"}
    /\ ~w.pm.archStarted \/ w.archRestart

(* PgArchStartupAllowed(): archiving is active in this state, and          *)
(* PgArchCanRestart (pgarch.c, not in this repository) allows a start: it  *)
(* allows the first, and refuses one less than PGARCH_RESTART_INTERVAL     *)
(* after the last it allowed, a wall-clock test the model leaves to the    *)
(* oracle w.archRestart.                                                   *)
PgArchStartupAllowed(w) ==
    /\ \/ ArchiveMode \in {"on", "always"} /\ w.pm.pmState = "PM_RUN"
       \/ ArchiveMode = "always" /\ w.pm.pmState \in {"PM_RECOVERY", "PM_HOT_STANDBY"}
    /\ ~w.pm.archStarted \/ w.archRestart

(* PgArchCanRestart, the last test of PgArchStartupAllowed, notes the     *)
(* time of each start it allows, whether a start or a fork follows or not. *)
(* Without ArchiverThrottle nothing reads the note, and it is not kept.    *)
NoteArchStart(w) ==
    IF ArchiverThrottle /\ PgArchStartupAllowed(w)
    THEN [w EXCEPT !.pm.archStarted = TRUE] ELSE w

(* "if (PgArchPID == 0 && PgArchStartupAllowed()) PgArchPID =             *)
(* StartChildProcess(B_ARCHIVER)".                                         *)
MaybeStartArchiver(w) ==
    IF ~w.pm.PID["archiver"] /\ PgArchStartupAllowed(w)
    THEN StartChildProcess(NoteArchStart(w), "archiver")
    ELSE w


(* Mutant (a plausible slip in the code it stands for): the test of       *)
(* pmState is lost, only the later checks remain.                         *)
canAcceptConnectionsAnyState(w, backend_type) ==
    IF ~w.pm.connsAllowed /\ backend_type = "normal" THEN "CAC_SHUTDOWN"
    ELSE IF CountChildren(w, BACKEND_TYPE_ALL) >= MaxLiveChildren THEN "CAC_TOOMANY"
    ELSE "CAC_OK"

(* Mutant (a plausible slip in the code it stands for): connsAllowed      *)
(* (the smart-shutdown gate) is not consulted.                            *)
canAcceptConnectionsIgnoringSmart(w, backend_type) ==
    IF w.pm.pmState \notin {"PM_RUN", "PM_HOT_STANDBY"} /\ backend_type # "bgworker"
    THEN IF w.pm.Shutdown > NoShutdown THEN "CAC_SHUTDOWN" ELSE "CAC_RECOVERY"
    ELSE IF CountChildren(w, BACKEND_TYPE_ALL) >= MaxLiveChildren THEN "CAC_TOOMANY"
    ELSE "CAC_OK"

canAcceptConnections(w, backend_type) ==
    IF w.pm.pmState \notin {"PM_RUN", "PM_HOT_STANDBY"} /\ backend_type # "bgworker"
    THEN IF w.pm.Shutdown > NoShutdown THEN "CAC_SHUTDOWN"
         ELSE IF ~w.pm.FatalError /\ w.pm.pmState = "PM_STARTUP" THEN "CAC_STARTUP"
         ELSE IF ~w.pm.FatalError /\ w.pm.pmState = "PM_RECOVERY" THEN "CAC_NOTCONSISTENT"
         ELSE "CAC_RECOVERY"
    ELSE IF ~w.pm.connsAllowed /\ backend_type = "normal" THEN "CAC_SHUTDOWN"
    ELSE IF CountChildren(w, BACKEND_TYPE_ALL) >= MaxLiveChildren THEN "CAC_TOOMANY"
    ELSE "CAC_OK"

(* Removes a dead child from BackendList (ReleasePostmasterChildSlot and  *)
(* dlist_delete).                                                         *)
RemoveBackend(w, c) ==
    [w EXCEPT !.pm.BackendList = [x \in DOMAIN w.pm.BackendList \ {c} |->
                                      w.pm.BackendList[x]]]

(* Mutant (a plausible slip in the code it stands for): the crashed       *)
(* child is not removed from BackendList.                                 *)
HandleChildCrashKeepsEntry(w, p) ==
    LET take_action == ~w.pm.FatalError /\ w.pm.Shutdown # ImmediateShutdown
        w1 == [w EXCEPT !.pm.PID = [k \in Specials |->
                                                 @[k] /\ k # p]]
        others == {c \in DOMAIN w1.pm.BackendList :
                      w1.pm.BackendList[c].bkend_type # "bgworker"}
                  \cup RunningSpecials(w1, Specials)
        w2 == IF take_action THEN signal_child(w1, others, "SIGQUIT") ELSE w1
        w3 == IF take_action /\ w1.pm.PID["startup"]
              THEN [w2 EXCEPT !.pm.StartupStatus = "STARTUP_SIGNALED"] ELSE w2
    IN [w3 EXCEPT
          !.pm.FatalError = @ \/ w.pm.Shutdown # ImmediateShutdown,
          !.pm.pmState = IF @ \in {"PM_RECOVERY", "PM_HOT_STANDBY", "PM_RUN",
                                   "PM_STOP_BACKENDS", "PM_SHUTDOWN"}
                         THEN "PM_WAIT_BACKENDS" ELSE @,
          !.pm.AbortStartTime = TRUE,
          !.ghost.cascade = TRUE]

(* Mutant (a plausible slip in the code it stands for): FatalError        *)
(* is not raised.                                                         *)
HandleChildCrashNoFatalError(w, p) ==
    LET take_action == ~w.pm.FatalError /\ w.pm.Shutdown # ImmediateShutdown
        w1 == [RemoveBackend(w, p) EXCEPT !.pm.PID = [k \in Specials |->
                                                 @[k] /\ k # p]]
        others == {c \in DOMAIN w1.pm.BackendList :
                      w1.pm.BackendList[c].bkend_type # "bgworker"}
                  \cup RunningSpecials(w1, Specials)
        w2 == IF take_action THEN signal_child(w1, others, "SIGQUIT") ELSE w1
        w3 == IF take_action /\ w1.pm.PID["startup"]
              THEN [w2 EXCEPT !.pm.StartupStatus = "STARTUP_SIGNALED"] ELSE w2
    IN [w3 EXCEPT
          !.pm.FatalError = @,
          !.pm.pmState = IF @ \in {"PM_RECOVERY", "PM_HOT_STANDBY", "PM_RUN",
                                   "PM_STOP_BACKENDS", "PM_SHUTDOWN"}
                         THEN "PM_WAIT_BACKENDS" ELSE @,
          !.pm.AbortStartTime = TRUE,
          !.ghost.cascade = TRUE]

(* Mutant (a plausible slip in the code it stands for): PM_RUN is         *)
(* not among the states left for PM_WAIT_BACKENDS.                        *)
HandleChildCrashStaysInRun(w, p) ==
    LET take_action == ~w.pm.FatalError /\ w.pm.Shutdown # ImmediateShutdown
        w1 == [RemoveBackend(w, p) EXCEPT !.pm.PID = [k \in Specials |->
                                                 @[k] /\ k # p]]
        others == {c \in DOMAIN w1.pm.BackendList :
                      w1.pm.BackendList[c].bkend_type # "bgworker"}
                  \cup RunningSpecials(w1, Specials)
        w2 == IF take_action THEN signal_child(w1, others, "SIGQUIT") ELSE w1
        w3 == IF take_action /\ w1.pm.PID["startup"]
              THEN [w2 EXCEPT !.pm.StartupStatus = "STARTUP_SIGNALED"] ELSE w2
    IN [w3 EXCEPT
          !.pm.FatalError = @ \/ w.pm.Shutdown # ImmediateShutdown,
          !.pm.pmState = IF @ \in {"PM_RECOVERY", "PM_HOT_STANDBY",
                                   "PM_STOP_BACKENDS", "PM_SHUTDOWN"}
                         THEN "PM_WAIT_BACKENDS" ELSE @,
          !.pm.AbortStartTime = TRUE,
          !.ghost.cascade = TRUE]

(* HandleChildCrash: the child p died badly.  Unless a crash or an        *)
(* immediate shutdown is already being handled, every other child gets    *)
(* SIGQUIT (bgworkers in BackendList excepted, dead-end ones included);   *)
(* then FatalError, the move to PM_WAIT_BACKENDS and the SIGKILL timer.   *)
HandleChildCrash(w, p) ==
    LET take_action == ~w.pm.FatalError /\ w.pm.Shutdown # ImmediateShutdown
        w1 == [RemoveBackend(w, p) EXCEPT !.pm.PID = [k \in Specials |->
                                                 @[k] /\ k # p]]
        others == {c \in DOMAIN w1.pm.BackendList :
                      w1.pm.BackendList[c].bkend_type # "bgworker"}
                  \cup RunningSpecials(w1, Specials)
        w2 == IF take_action THEN signal_child(w1, others, "SIGQUIT") ELSE w1
        w3 == IF take_action /\ w1.pm.PID["startup"]
              THEN [w2 EXCEPT !.pm.StartupStatus = "STARTUP_SIGNALED"] ELSE w2
    IN [w3 EXCEPT
          !.pm.FatalError = @ \/ w.pm.Shutdown # ImmediateShutdown,
          !.pm.pmState = IF @ \in {"PM_RECOVERY", "PM_HOT_STANDBY", "PM_RUN",
                                   "PM_STOP_BACKENDS", "PM_SHUTDOWN"}
                         THEN "PM_WAIT_BACKENDS" ELSE @,
          !.pm.AbortStartTime = TRUE,
          !.ghost.cascade = TRUE]

-----------------------------------------------------------------------------
(* PostmasterStateMachine, one operator per "if (pmState == ...)" block;  *)
(* the blocks run in sequence, so a call can pass through several states. *)

SmartStep(w) ==
    IF w.pm.pmState \in {"PM_RUN", "PM_HOT_STANDBY"} /\ ~w.pm.connsAllowed
       /\ CountChildren(w, {"normal"}) = 0
    THEN [w EXCEPT !.pm.pmState = "PM_STOP_BACKENDS"] ELSE w

(* Mutant (a plausible slip in the code it stands for): the               *)
(* bgwriter is left out of the SIGTERMs.                                  *)
StopBackendsStepSparesBgwriter(w) ==
    IF w.pm.pmState = "PM_STOP_BACKENDS"
    THEN LET w1 == SignalSomeChildren(w, "SIGTERM",
                                      BACKEND_TYPE_ALL \ {"walsender"})
             w2 == signal_child(w1, RunningSpecials(w1,
                            {"walwriter", "startup"}), "SIGTERM")
         IN [w2 EXCEPT !.pm.pmState = "PM_WAIT_BACKENDS"]
    ELSE w

StopBackendsStep(w) ==
    IF w.pm.pmState = "PM_STOP_BACKENDS"
    THEN LET w1 == SignalSomeChildren(w, "SIGTERM",
                                      BACKEND_TYPE_ALL \ {"walsender"})
             w2 == signal_child(w1, RunningSpecials(w1,
                            {"bgwriter", "walwriter", "startup"}), "SIGTERM")
         IN [w2 EXCEPT !.pm.pmState = "PM_WAIT_BACKENDS"]
    ELSE w

(* Mutant (a plausible slip in the code it stands for): the               *)
(* bgwriter is not waited for.                                            *)
WaitBackendsDoneIgnoresBgwriter(w) ==
    /\ CountChildren(w, BACKEND_TYPE_ALL \ {"walsender"}) = 0
    /\ ~w.pm.PID["startup"]
    /\ (~w.pm.PID["checkpointer"] \/
          (~w.pm.FatalError /\ w.pm.Shutdown < ImmediateShutdown))
    /\ ~w.pm.PID["walwriter"]

(* Mutant (a plausible slip in the code it stands for): the               *)
(* startup process is not waited for.                                     *)
WaitBackendsDoneIgnoresStartup(w) ==
    /\ CountChildren(w, BACKEND_TYPE_ALL \ {"walsender"}) = 0
    /\ ~w.pm.PID["bgwriter"]
    /\ (~w.pm.PID["checkpointer"] \/
          (~w.pm.FatalError /\ w.pm.Shutdown < ImmediateShutdown))
    /\ ~w.pm.PID["walwriter"]

(* Mutant (a plausible slip in the code it stands for): regular           *)
(* backends are not counted.                                              *)
WaitBackendsDoneIgnoresBackends(w) ==
    /\ ~w.pm.PID["startup"]
    /\ ~w.pm.PID["bgwriter"]
    /\ (~w.pm.PID["checkpointer"] \/
          (~w.pm.FatalError /\ w.pm.Shutdown < ImmediateShutdown))
    /\ ~w.pm.PID["walwriter"]

(* The condition under which PM_WAIT_BACKENDS is left.                    *)
WaitBackendsDone(w) ==
    /\ CountChildren(w, BACKEND_TYPE_ALL \ {"walsender"}) = 0
    /\ ~w.pm.PID["startup"]
    /\ ~w.pm.PID["bgwriter"]
    /\ (~w.pm.PID["checkpointer"] \/
          (~w.pm.FatalError /\ w.pm.Shutdown < ImmediateShutdown))
    /\ ~w.pm.PID["walwriter"]

(* Mutant (a plausible slip in the code it stands for): the checkpointer *)
(* is told to shut down without testing that it could be started.         *)
WaitBackendsStepIgnoresForkFailure(w) ==
    IF w.pm.pmState = "PM_WAIT_BACKENDS" /\ WaitBackendsDone(w)
    THEN IF w.pm.Shutdown >= ImmediateShutdown \/ w.pm.FatalError
         THEN [w EXCEPT !.pm.pmState = "PM_WAIT_DEAD_END"]
         ELSE LET w1 == MaybeStart(Check(w, w.pm.Shutdown > NoShutdown),
                                   "checkpointer", TRUE)
              IN [signal_child(w1, {"checkpointer"}, "SIGUSR2")
                    EXCEPT !.pm.pmState = "PM_SHUTDOWN"]
    ELSE w

WaitBackendsStep(w) ==
    IF w.pm.pmState = "PM_WAIT_BACKENDS" /\ WaitBackendsDone(w)
    THEN IF w.pm.Shutdown >= ImmediateShutdown \/ w.pm.FatalError
         THEN [w EXCEPT !.pm.pmState = "PM_WAIT_DEAD_END"]
         ELSE LET w1 == MaybeStart(Check(w, w.pm.Shutdown > NoShutdown),
                                   "checkpointer", TRUE)
              IN IF w1.pm.PID["checkpointer"]
                 THEN [signal_child(w1, {"checkpointer"}, "SIGUSR2")
                         EXCEPT !.pm.pmState = "PM_SHUTDOWN"]
                 ELSE LET w2 == SignalSomeChildren(
                                  [w1 EXCEPT !.pm.FatalError = TRUE,
                                             !.pm.pmState = "PM_WAIT_DEAD_END"],
                                  "SIGQUIT", BACKEND_TYPE_ALL)
                      IN signal_child(w2, RunningSpecials(w2, {"archiver"}), "SIGQUIT")
    ELSE w

Shutdown2Step(w) ==
    IF w.pm.pmState = "PM_SHUTDOWN_2" /\ ~w.pm.PID["archiver"]
       /\ CountChildren(w, BACKEND_TYPE_ALL) = 0
    THEN [w EXCEPT !.pm.pmState = "PM_WAIT_DEAD_END"] ELSE w

(* Mutant (a plausible slip in the code it stands for): the dead-end      *)
(* children in BackendList are not waited for.                            *)
WaitDeadEndStepIgnoresDeadEnd(w) ==
    IF w.pm.pmState = "PM_WAIT_DEAD_END"
    THEN LET w1 == [w EXCEPT !.pm.listening = FALSE]
         IN IF ~w.pm.PID["archiver"]
            THEN [Check(w1, \A k \in Specials \ {"archiver"} : ~w.pm.PID[k])
                    EXCEPT !.pm.pmState = "PM_NO_CHILDREN"]
            ELSE w1
    ELSE w

WaitDeadEndStep(w) ==
    IF w.pm.pmState = "PM_WAIT_DEAD_END"
    THEN LET w1 == [w EXCEPT !.pm.listening = FALSE]
         IN IF DOMAIN w.pm.BackendList = {} /\ ~w.pm.PID["archiver"]
            THEN [Check(w1, \A k \in Specials \ {"archiver"} : ~w.pm.PID[k])
                    EXCEPT !.pm.pmState = "PM_NO_CHILDREN"]
            ELSE w1
    ELSE w

(* Mutant (a plausible slip in the code it stands for): the exit test    *)
(* loses its pmState == PM_NO_CHILDREN guard.                             *)
ExitStepAnyState(w) ==
    IF w.pm.Shutdown > NoShutdown
    THEN ExitPostmaster(w, IF w.pm.FatalError THEN 1 ELSE 0)
    ELSE w

ExitStep(w) ==
    IF w.pm.Shutdown > NoShutdown /\ w.pm.pmState = "PM_NO_CHILDREN"
    THEN ExitPostmaster(w, IF w.pm.FatalError THEN 1 ELSE 0)
    ELSE w

NoChildrenStep(w) ==
    IF Running(w) /\ w.pm.pmState = "PM_NO_CHILDREN"
       /\ (w.pm.StartupStatus = "STARTUP_CRASHED" \/ ~RestartAfterCrash)
    THEN ExitPostmaster(w, 1)
    ELSE w

(* Crash recovery: a new shared-memory segment (which also clears the     *)
(* PMSignalState array) and a new startup process.                        *)
ReinitStep(w) ==
    IF Running(w) /\ w.pm.FatalError /\ w.pm.pmState = "PM_NO_CHILDREN"
    THEN LET w1 == [w EXCEPT !.pm.segment = @ + 1, !.pmsignals = {},
                             !.ghost.cascade = FALSE]
         IN [StartChildProcess(w1, "startup") EXCEPT
               !.pm.StartupStatus = "STARTUP_RUNNING",
               !.pm.pmState = "PM_STARTUP",
               !.pm.AbortStartTime = FALSE,
               !.pm.listening = TRUE]
    ELSE w

(* Mutant (a plausible slip in the code it stands for): the crash        *)
(* re-initialisation is tried before the shutdown exit.                   *)
PostmasterStateMachineReinitFirst(w) ==
    Call(NoChildrenStep, Call(ExitStep, Call(ReinitStep,
      Call(WaitDeadEndStep, Call(Shutdown2Step,
        Call(WaitBackendsStep, Call(StopBackendsStep, Call(SmartStep, w))))))))

PostmasterStateMachine(w) ==
    Call(ReinitStep, Call(NoChildrenStep, Call(ExitStep,
      Call(WaitDeadEndStep, Call(Shutdown2Step,
        Call(WaitBackendsStep, Call(StopBackendsStep, Call(SmartStep, w))))))))

-----------------------------------------------------------------------------
(* The branches of the waitpid() loop in process_pm_child_exit.           *)

(* Mutant (a plausible slip in the code it stands for): FatalError        *)
(* is not reset when normal running begins.                               *)
StartupSucceededKeepsFatalError(w) ==
    LET w1 == [w EXCEPT !.pm.StartupStatus = "STARTUP_NOT_RUNNING",
                        !.pm.AbortStartTime = FALSE,
                        !.pm.pmState = "PM_RUN",
                        !.pm.connsAllowed = TRUE]
        w2 == MaybeStart(MaybeStart(MaybeStart(w1, "checkpointer", TRUE),
                                    "bgwriter", TRUE), "walwriter", TRUE)
    IN \* "if (PgArchStartupAllowed() && PgArchPID == 0)": the throttle is
       \* consulted even while the archiver started in recovery runs
       IF PgArchStartupAllowed(w2)
       THEN MaybeStart(NoteArchStart(w2), "archiver", TRUE) ELSE w2

(* The startup process succeeded: normal running begins.                  *)
StartupSucceeded(w) ==
    LET w1 == [w EXCEPT !.pm.StartupStatus = "STARTUP_NOT_RUNNING",
                        !.pm.FatalError = FALSE,
                        !.pm.AbortStartTime = FALSE,
                        !.pm.pmState = "PM_RUN",
                        !.pm.connsAllowed = TRUE]
        w2 == MaybeStart(MaybeStart(MaybeStart(w1, "checkpointer", TRUE),
                                    "bgwriter", TRUE), "walwriter", TRUE)
    IN \* "if (PgArchStartupAllowed() && PgArchPID == 0)": the throttle is
       \* consulted even while the archiver started in recovery runs
       IF PgArchStartupAllowed(w2)
       THEN MaybeStart(NoteArchStart(w2), "archiver", TRUE) ELSE w2

(* Mutant (a plausible slip in the code it stands for): a recovery        *)
(* target raises Shutdown by one level instead of to at least smart.      *)
StartupExitAddsShutdown(w, code) ==
    LET w0 == [w EXCEPT !.pm.PID["startup"] = FALSE]
    IN IF w.pm.Shutdown > NoShutdown /\ code \in {0, 1}
       THEN [w0 EXCEPT !.pm.StartupStatus = "STARTUP_NOT_RUNNING",
                       !.pm.pmState = "PM_WAIT_BACKENDS"]
       ELSE IF code = 3
       THEN [TerminateChildren([w0 EXCEPT
                  !.pm.StartupStatus = "STARTUP_NOT_RUNNING",
                  !.pm.Shutdown = @ + SmartShutdown], "SIGTERM")
               EXCEPT !.pm.pmState = "PM_WAIT_BACKENDS"]
       ELSE IF w.pm.pmState = "PM_STARTUP"
               /\ w.pm.StartupStatus # "STARTUP_SIGNALED" /\ code # 0
       THEN ExitPostmaster(w0, 1)
       ELSE IF code # 0
       THEN HandleChildCrash(
              IF w.pm.StartupStatus = "STARTUP_SIGNALED"
              THEN [w0 EXCEPT !.pm.StartupStatus = "STARTUP_NOT_RUNNING",
                              !.pm.pmState = IF @ = "PM_STARTUP"
                                             THEN "PM_WAIT_BACKENDS" ELSE @]
              ELSE [w0 EXCEPT !.pm.StartupStatus = "STARTUP_CRASHED"],
              "startup")
       ELSE StartupSucceeded(w0)

(* Mutant (a plausible slip in the code it stands for): the exit of the  *)
(* startup process during a shutdown is not told apart.                   *)
StartupExitIgnoresShutdown(w, code) ==
    LET w0 == [w EXCEPT !.pm.PID["startup"] = FALSE]
    IN IF code = 3
       THEN [TerminateChildren([w0 EXCEPT
                  !.pm.StartupStatus = "STARTUP_NOT_RUNNING",
                  !.pm.Shutdown = MaxInt(@, SmartShutdown)], "SIGTERM")
               EXCEPT !.pm.pmState = "PM_WAIT_BACKENDS"]
       ELSE IF w.pm.pmState = "PM_STARTUP"
               /\ w.pm.StartupStatus # "STARTUP_SIGNALED" /\ code # 0
       THEN ExitPostmaster(w0, 1)
       ELSE IF code # 0
       THEN HandleChildCrash(
              IF w.pm.StartupStatus = "STARTUP_SIGNALED"
              THEN [w0 EXCEPT !.pm.StartupStatus = "STARTUP_NOT_RUNNING",
                              !.pm.pmState = IF @ = "PM_STARTUP"
                                             THEN "PM_WAIT_BACKENDS" ELSE @]
              ELSE [w0 EXCEPT !.pm.StartupStatus = "STARTUP_CRASHED"],
              "startup")
       ELSE StartupSucceeded(w0)

StartupExit(w, code) ==
    LET w0 == [w EXCEPT !.pm.PID["startup"] = FALSE]
    IN IF w.pm.Shutdown > NoShutdown /\ code \in {0, 1}
       THEN [w0 EXCEPT !.pm.StartupStatus = "STARTUP_NOT_RUNNING",
                       !.pm.pmState = "PM_WAIT_BACKENDS"]
       ELSE IF code = 3
       THEN [TerminateChildren([w0 EXCEPT
                  !.pm.StartupStatus = "STARTUP_NOT_RUNNING",
                  !.pm.Shutdown = MaxInt(@, SmartShutdown)], "SIGTERM")
               EXCEPT !.pm.pmState = "PM_WAIT_BACKENDS"]
       ELSE IF w.pm.pmState = "PM_STARTUP"
               /\ w.pm.StartupStatus # "STARTUP_SIGNALED" /\ code # 0
       THEN ExitPostmaster(w0, 1)
       ELSE IF code # 0
       THEN HandleChildCrash(
              IF w.pm.StartupStatus = "STARTUP_SIGNALED"
              THEN [w0 EXCEPT !.pm.StartupStatus = "STARTUP_NOT_RUNNING",
                              !.pm.pmState = IF @ = "PM_STARTUP"
                                             THEN "PM_WAIT_BACKENDS" ELSE @]
              ELSE [w0 EXCEPT !.pm.StartupStatus = "STARTUP_CRASHED"],
              "startup")
       ELSE StartupSucceeded(w0)

(* bgwriter and walwriter: any exit but 0 is a crash.                     *)
AuxExit(w, k, code) ==
    LET w0 == [w EXCEPT !.pm.PID[k] = FALSE]
    IN IF code # 0 THEN HandleChildCrash(w0, k) ELSE w0

(* The checkpointer's exit 0 in PM_SHUTDOWN ends the shutdown checkpoint: *)
(* the archiver and the walsenders are told to finish.                    *)
CheckpointerExit(w, code) ==
    LET w0 == [w EXCEPT !.pm.PID["checkpointer"] = FALSE]
    IN IF code = 0 /\ w.pm.pmState = "PM_SHUTDOWN"
       THEN LET w1 == signal_child(Check(w0, w.pm.Shutdown > NoShutdown),
                                   RunningSpecials(w0, {"archiver"}), "SIGUSR2")
            IN [SignalSomeChildren(w1, "SIGUSR2", BACKEND_TYPE_ALL)
                  EXCEPT !.pm.pmState = "PM_SHUTDOWN_2"]
       ELSE HandleChildCrash(w0, "checkpointer")

(* The archiver may exit 0 or 1, and is restarted at once if allowed.     *)
PgArchExit(w, code) ==
    LET w0 == [w EXCEPT !.pm.PID["archiver"] = FALSE]
        w1 == IF code \notin {0, 1} THEN HandleChildCrash(w0, "archiver") ELSE w0
    IN MaybeStartArchiver(w1)

(* Mutant (a plausible slip in the code it stands for): a backend         *)
(* that exits cleanly is not deleted from BackendList.                    *)
CleanupBackendKeepsEntry(w, c, code) ==
    IF code \notin {0, 1} THEN HandleChildCrash(w, c) ELSE w

CleanupBackend(w, c, code) ==
    IF code \notin {0, 1} THEN HandleChildCrash(w, c) ELSE RemoveBackend(w, c)

ChildExited(w, p, code) ==
    CASE p = "startup"                  -> StartupExit(w, code)
      [] p \in {"bgwriter", "walwriter"} -> AuxExit(w, p, code)
      [] p = "checkpointer"             -> CheckpointerExit(w, code)
      [] p = "archiver"                 -> PgArchExit(w, code)
      [] OTHER                          -> CleanupBackend(w, p, code)

-----------------------------------------------------------------------------
(* The supervisor: one action per handler ServerLoop dispatches.          *)

Idle == Running(World) /\ ~pm.reaping

(* The fork() outcomes of one step: at most one special child fails to    *)
(* fork, while the budget MaxForkFailures lasts.                          *)
ForkOutcomes ==
    {{}} \cup (IF ghost.forkFailures < MaxForkFailures
              THEN {{k} : k \in Specials} ELSE {})

ForkingWorld(F, A) == [World EXCEPT !.forkFail = F, !.archRestart = A]

(* What PgArchCanRestart may answer in a step.                            *)
ArchRestartOutcomes == IF ArchiverThrottle THEN BOOLEAN ELSE {TRUE}

(* process_pm_shutdown_request: the strongest pending request wins.       *)
ProcessShutdownRequest ==
    /\ Idle /\ flags.shutdown
    /\ \E F \in ForkOutcomes, A \in ArchRestartOutcomes :
       LET mode == IF flags.immediate THEN ImmediateShutdown
                   ELSE IF flags.fast THEN FastShutdown ELSE SmartShutdown
           w == ForkingWorld(F, A)
           w1 == [w EXCEPT !.pm.Shutdown = mode]
           smart == [w1 EXCEPT
                       !.pm.connsAllowed = IF w.pm.pmState \in {"PM_RUN", "PM_HOT_STANDBY"}
                                           THEN FALSE ELSE @,
                       !.pm.pmState = IF w.pm.pmState \in {"PM_STARTUP", "PM_RECOVERY"}
                                      THEN "PM_STOP_BACKENDS" ELSE @]
           fast == [w1 EXCEPT
                       !.pm.pmState = IF w.pm.pmState \in {"PM_STARTUP", "PM_RECOVERY",
                                                           "PM_RUN", "PM_HOT_STANDBY"}
                                      THEN "PM_STOP_BACKENDS" ELSE @]
           immediate == [TerminateChildren(w1, "SIGQUIT") EXCEPT
                           !.pm.pmState = "PM_WAIT_BACKENDS",
                           !.pm.AbortStartTime = TRUE]
       IN SetWorld(IF w.pm.Shutdown >= mode THEN w
                   ELSE PostmasterStateMachine(CASE mode = SmartShutdown -> smart
                                                 [] mode = FastShutdown -> fast
                                                 [] OTHER -> immediate))
    /\ flags' = [flags EXCEPT !.shutdown = FALSE, !.fast = FALSE, !.immediate = FALSE]
    /\ UNCHANGED env

(* process_pm_reload_request: the configuration is re-read and SIGHUP is  *)
(* forwarded; no modelled state depends on it.                            *)
ProcessReloadRequest ==
    /\ Idle /\ flags.reload
    /\ flags' = [flags EXCEPT !.reload = FALSE]
    /\ UNCHANGED <<pm, procs, pmsignals, env, ghost>>

(* process_pm_child_exit enters its waitpid() loop.                       *)
ProcessChildExit ==
    /\ Idle /\ flags.childExit
    /\ flags' = [flags EXCEPT !.childExit = FALSE]
    /\ pm' = [pm EXCEPT !.reaping = TRUE]
    /\ UNCHANGED <<procs, pmsignals, env, ghost>>

(* One waitpid() return: the zombie p is collected and its branch runs.   *)
ReapChild(p) ==
    /\ Running(World) /\ pm.reaping /\ procs[p].st = "zombie"
    /\ \E F \in ForkOutcomes, A \in ArchRestartOutcomes :
       LET w == [ForkingWorld(F, A) EXCEPT !.procs[p] = NoProc]
       IN SetWorld(ChildExited(w, p, procs[p].code))
    /\ UNCHANGED <<flags, env>>

(* waitpid() finds no more zombies: the state machine runs.               *)
ReapDone ==
    /\ Running(World) /\ pm.reaping /\ \A p \in Procs : procs[p].st # "zombie"
    /\ \E F \in ForkOutcomes, A \in ArchRestartOutcomes :
         SetWorld(PostmasterStateMachine([ForkingWorld(F, A) EXCEPT !.pm.reaping = FALSE]))
    /\ UNCHANGED <<flags, env>>

(* process_pm_pmsignal: each reason is tested and cleared in turn.        *)
ProcessPmsignal ==
    /\ Idle /\ flags.pmsignal
    /\ \E F \in ForkOutcomes, A \in ArchRestartOutcomes :
       LET w == ForkingWorld(F, A)
           w1 == IF "RECOVERY_STARTED" \in w.pmsignals
                    /\ w.pm.pmState = "PM_STARTUP" /\ w.pm.Shutdown = NoShutdown
                 THEN LET v == Check([w EXCEPT !.pm.FatalError = FALSE,
                                               !.pm.AbortStartTime = FALSE],
                                     ~w.pm.PID["archiver"])
                      IN [MaybeStart(v, "archiver", ArchiveMode = "always")
                            EXCEPT !.pm.pmState = "PM_RECOVERY"]
                 ELSE w
           w2 == IF "BEGIN_HOT_STANDBY" \in w.pmsignals
                    /\ w1.pm.pmState = "PM_RECOVERY" /\ w1.pm.Shutdown = NoShutdown
                 THEN [w1 EXCEPT !.pm.pmState = "PM_HOT_STANDBY",
                                 !.pm.connsAllowed = TRUE]
                 ELSE w1
           w3 == IF "ADVANCE_STATE_MACHINE" \in w.pmsignals
                 THEN PostmasterStateMachine(w2) ELSE w2
       IN SetWorld([w3 EXCEPT !.pmsignals = {}])
    /\ flags' = [flags EXCEPT !.pmsignal = FALSE]
    /\ UNCHANGED env

(* BackendStartup for a connection on slot c: a child that may not serve  *)
(* it is still forked, as a dead_end one that only reports the refusal.   *)
BackendStartup(c) ==
    /\ Idle /\ pm.listening
    /\ c \notin DOMAIN pm.BackendList
    /\ procs[c].st = "none"
    /\ LET w == World
           dead_end == canAcceptConnections(w, "normal") # "CAC_OK"
           w1 == [w EXCEPT !.pm.BackendList = pm.BackendList @@
                      (c :> [bkend_type |-> "normal", dead_end |-> dead_end])]
       IN SetWorld(Forked(w1, c))
    /\ UNCHANGED <<flags, env>>

(* Mutant (a plausible slip in the code it stands for): the loop no       *)
(* longer tries to start a lost archiver.  The rest is ServerLoopTail's.   *)
(* The tail of each ServerLoop iteration: restarts of the special         *)
(* children, the SIGKILL escalation once SIGKILL_CHILDREN_AFTER_SECS have *)
(* passed (elapsed), and the minutely data-directory lock-file recheck    *)
(* (recheck), whose failure makes the postmaster SIGQUIT itself.          *)
(* archRestart is PgArchCanRestart's answer in this iteration.            *)
ServerLoopTailNoArchiver(elapsed, recheck, archRestart) ==
    /\ Idle
    /\ \E F \in ForkOutcomes :
       LET w == ForkingWorld(F, archRestart)
           w1 == IF w.pm.pmState \in {"PM_RUN", "PM_RECOVERY", "PM_HOT_STANDBY",
                                      "PM_STARTUP"}
                 THEN MaybeStart(MaybeStart(w, "checkpointer", TRUE), "bgwriter", TRUE)
                 ELSE w
           w2 == MaybeStart(w1, "walwriter", w1.pm.pmState = "PM_RUN")
           w3 == w2
           kill == (w3.pm.Shutdown >= ImmediateShutdown \/ w3.pm.FatalError)
                   /\ w3.pm.AbortStartTime /\ elapsed
           w4 == IF kill
                 THEN [TerminateChildren(w3, "SIGKILL") EXCEPT !.pm.AbortStartTime = FALSE]
                 ELSE w3
           selfQuit == recheck /\ ~env.lockFileValid
       IN /\ SetWorld(w4)
          /\ flags' = [flags EXCEPT
                         !.childExit = @ \/ \E p \in Procs : w4.procs[p].st # w3.procs[p].st,
                         !.shutdown = @ \/ selfQuit,
                         !.immediate = @ \/ selfQuit]
    /\ UNCHANGED env


(* The tail of each ServerLoop iteration: restarts of the special         *)
(* children, the SIGKILL escalation once SIGKILL_CHILDREN_AFTER_SECS have *)
(* passed (elapsed), and the minutely data-directory lock-file recheck    *)
(* (recheck), whose failure makes the postmaster SIGQUIT itself.          *)
(* archRestart is PgArchCanRestart's answer in this iteration.            *)
ServerLoopTail(elapsed, recheck, archRestart) ==
    /\ Idle
    /\ \E F \in ForkOutcomes :
       LET w == ForkingWorld(F, archRestart)
           w1 == IF w.pm.pmState \in {"PM_RUN", "PM_RECOVERY", "PM_HOT_STANDBY",
                                      "PM_STARTUP"}
                 THEN MaybeStart(MaybeStart(w, "checkpointer", TRUE), "bgwriter", TRUE)
                 ELSE w
           w2 == MaybeStart(w1, "walwriter", w1.pm.pmState = "PM_RUN")
           w3 == Call(MaybeStartArchiver, w2)
           kill == (w3.pm.Shutdown >= ImmediateShutdown \/ w3.pm.FatalError)
                   /\ w3.pm.AbortStartTime /\ elapsed
           w4 == IF kill
                 THEN [TerminateChildren(w3, "SIGKILL") EXCEPT !.pm.AbortStartTime = FALSE]
                 ELSE w3
           selfQuit == recheck /\ ~env.lockFileValid
       IN /\ SetWorld(w4)
          /\ flags' = [flags EXCEPT
                         !.childExit = @ \/ \E p \in Procs : w4.procs[p].st # w3.procs[p].st,
                         !.shutdown = @ \/ selfQuit,
                         !.immediate = @ \/ selfQuit]
    /\ UNCHANGED env

-----------------------------------------------------------------------------
(* The children and the outside world.                                    *)

(* The exit statuses a signal obliges process p to exit with.             *)
Demanded(p) ==
    LET sigs == procs[p].sigs
        session == p \in ChildSlots
    IN  (IF "SIGQUIT" \in sigs THEN {2} ELSE {})
        \cup (IF "SIGTERM" \in sigs
              THEN CASE p = "startup" -> {1}
                     [] p \in {"bgwriter", "walwriter"} -> {0}
                     [] session -> {1}
                     [] OTHER -> {}
              ELSE {})
        \cup (IF "SIGUSR2" \in sigs /\
                 (p \in {"checkpointer", "archiver"} \/ (session /\ procs[p].walsnd))
              THEN {0} ELSE {})

(* The statuses p may exit with of its own accord: a session when its     *)
(* client goes away, a dead-end child after reporting its refusal, the    *)
(* startup process at the end of recovery or at a recovery target.        *)
Voluntary(p) ==
    CASE p \in ChildSlots -> {0, 1}
      [] p = "startup" -> IF procs[p].redo = "redo" THEN {0} ELSE {0, 3}
      [] OTHER -> {}

(* Any other exit: a FATAL error or a crash of the child.                 *)
Faulty(p) == {code \in {1, 2} : <<p, code>> \in FaultExits}

ChildExit(p, code) ==
    /\ procs[p].st = "alive"
    /\ \/ code \in Demanded(p) \cup Voluntary(p) /\ UNCHANGED env
       \/ /\ code \in Faulty(p) \ (Demanded(p) \cup Voluntary(p))
          /\ env.faults < MaxFaults
          /\ env' = [env EXCEPT !.faults = @ + 1]
    /\ procs' = [procs EXCEPT ![p].st = "zombie", ![p].code = code]
    /\ flags' = [flags EXCEPT !.childExit = TRUE]
    /\ UNCHANGED <<pm, pmsignals, ghost>>

(* The startup process reports progress through PMSignalState: archive    *)
(* recovery has started, then a consistent state for hot standby.         *)
StartupReports ==
    /\ procs["startup"].st = "alive"
    /\ procs["startup"].redo # "consistent"
    /\ LET next == IF procs["startup"].redo = "redo" THEN "recovery" ELSE "consistent"
       IN /\ procs' = [procs EXCEPT !["startup"].redo = next]
          /\ pmsignals' = pmsignals \cup {IF next = "recovery" THEN "RECOVERY_STARTED"
                                          ELSE "BEGIN_HOT_STANDBY"}
    /\ flags' = [flags EXCEPT !.pmsignal = TRUE]
    /\ UNCHANGED <<pm, env, ghost>>

(* A regular backend that is a replication connection announces itself    *)
(* as a walsender, and asks the state machine to re-count.                *)
WalSenderAnnounce(c) ==
    /\ procs[c].st = "alive" /\ ~procs[c].walsnd
    /\ c \in DOMAIN pm.BackendList /\ ~pm.BackendList[c].dead_end
    /\ procs[c].seg = pm.segment
    /\ procs' = [procs EXCEPT ![c].walsnd = TRUE]
    /\ pmsignals' = pmsignals \cup {"ADVANCE_STATE_MACHINE"}
    /\ flags' = [flags EXCEPT !.pmsignal = TRUE]
    /\ UNCHANGED <<pm, env, ghost>>

(* The shutdown mode the pending flags ask for.                           *)
PendingMode ==
    IF flags.immediate THEN ImmediateShutdown ELSE IF flags.fast THEN FastShutdown
    ELSE IF flags.shutdown THEN SmartShutdown ELSE NoShutdown

(* pg_ctl stop -m smart|fast|immediate: SIGTERM, SIGINT, SIGQUIT.  A      *)
(* request no stronger than one already made or pending is left out: the  *)
(* handler would ignore it ("if (Shutdown >= mode) break").               *)
PgCtlStop(mode) ==
    /\ Running(World) /\ mode \in StopModes
    /\ mode > MaxInt(pm.Shutdown, PendingMode)
    /\ flags' = [flags EXCEPT !.shutdown = TRUE,
                              !.fast = @ \/ mode = FastShutdown,
                              !.immediate = @ \/ mode = ImmediateShutdown]
    /\ UNCHANGED <<pm, procs, pmsignals, env, ghost>>

PgCtlReload ==
    /\ "reload" \in AdminEvents /\ Running(World) /\ ~flags.reload
    /\ flags' = [flags EXCEPT !.reload = TRUE]
    /\ UNCHANGED <<pm, procs, pmsignals, env, ghost>>

(* Someone removes or replaces postmaster.pid.                            *)
LockFileRemoved ==
    /\ "lockfile" \in AdminEvents /\ env.lockFileValid
    /\ env' = [env EXCEPT !.lockFileValid = FALSE]
    /\ UNCHANGED <<pm, procs, flags, pmsignals, ghost>>

-----------------------------------------------------------------------------

(* The state PostmasterMain enters ServerLoop in.                         *)
Init ==
    /\ pm = [pmState |-> "PM_STARTUP", Shutdown |-> NoShutdown,
             FatalError |-> FALSE, connsAllowed |-> TRUE,
             StartupStatus |-> "STARTUP_RUNNING", AbortStartTime |-> FALSE,
             archStarted |-> FALSE,
             PID |-> [k \in Specials |-> k \in {"startup", "checkpointer", "bgwriter"}],
             BackendList |-> <<>>, segment |-> 1, listening |-> TRUE,
             reaping |-> FALSE, exit |-> -1]
    /\ procs = [p \in Procs |->
                  IF p \in {"startup", "checkpointer", "bgwriter"}
                  THEN [NoProc EXCEPT !.st = "alive", !.seg = 1] ELSE NoProc]
    /\ flags = [shutdown |-> FALSE, fast |-> FALSE, immediate |-> FALSE,
                reload |-> FALSE, childExit |-> FALSE, pmsignal |-> FALSE]
    /\ pmsignals = {}
    /\ env = [faults |-> 0, lockFileValid |-> TRUE]
    /\ ghost = [cascade |-> FALSE, assertOK |-> TRUE, forkFailures |-> 0]

(* After ExitPostmaster nothing of the supervisor is left.                *)
Terminated == ~Running(World) /\ UNCHANGED vars

Next ==
    \/ ProcessShutdownRequest
    \/ ProcessReloadRequest
    \/ ProcessChildExit
    \/ \E p \in Procs : ReapChild(p)
    \/ ReapDone
    \/ ProcessPmsignal
    \/ \E c \in ChildSlots : BackendStartup(c)
    \/ \E elapsed, recheck \in BOOLEAN, a \in ArchRestartOutcomes :
          ServerLoopTail(elapsed, recheck, a)
    \/ \E p \in Procs, code \in ExitCodes : ChildExit(p, code)
    \/ StartupReports
    \/ \E c \in ChildSlots : WalSenderAnnounce(c)
    \/ \E mode \in {SmartShutdown, FastShutdown, ImmediateShutdown} : PgCtlStop(mode)
    \/ PgCtlReload
    \/ LockFileRemoved
    \/ Terminated

Spec == Init /\ [][Next]_vars

(* The scheduling the code relies on.  ServerLoop wakes up on the latch   *)
(* every handler sets and at least once a minute (DetermineSleepTime), and *)
(* every iteration tests every pending flag, so a handler whose flag is   *)
(* set infinitely often runs (strong fairness: the waitpid() loop of      *)
(* another handler may disable it in between), and wall-clock time        *)
(* passes, so a running SIGKILL timer expires and PgArchCanRestart,       *)
(* PGARCH_RESTART_INTERVAL after the last start, allows the next.  A      *)
(* child obeys a signal that demands its exit; a dead-end child quits     *)
(* after sending its rejection.  Clients of regular sessions are under no *)
(* obligation.                                                             *)
DemandedExit(p) == \E code \in Demanded(p) : ChildExit(p, code)
DeadEndExit(c) ==
    /\ c \in DOMAIN pm.BackendList /\ pm.BackendList[c].dead_end
    /\ \E code \in {0, 1} : ChildExit(c, code)

Fairness ==
    /\ SF_vars(ProcessShutdownRequest)
    /\ SF_vars(ProcessChildExit)
    /\ SF_vars(ProcessPmsignal)
    /\ WF_vars(\E p \in Procs : ReapChild(p))
    /\ WF_vars(ReapDone)
    /\ SF_vars(ServerLoopTail(TRUE, FALSE, TRUE))
    /\ \A p \in Procs : WF_vars(DemandedExit(p))
    /\ \A c \in ChildSlots : WF_vars(DeadEndExit(c))

FairSpec == Spec /\ Fairness

-----------------------------------------------------------------------------
(* Properties.                                                            *)

(* No stale and no lost child: while the postmaster runs, a special PID   *)
(* is set and a BackendList entry exists exactly when the OS process      *)
(* exists (running or not yet reaped).  Breaks if a reap branch, or the   *)
(* crash cascade, forgets to clear what it has reaped.                    *)
RegistryMatchesProcesses ==
    Running(World) =>
        /\ \A k \in Specials : pm.PID[k] <=> procs[k].st # "none"
        /\ \A c \in ChildSlots : c \in DOMAIN pm.BackendList <=> procs[c].st # "none"

(* The shared segment is re-created only when no child of the old one is  *)
(* left (ReinitStep after PM_WAIT_DEAD_END), so every child the running   *)
(* postmaster has is attached to the current segment.                     *)
SegmentIsCurrent ==
    Running(World) => \A p \in Procs : procs[p].st # "none" => procs[p].seg = pm.segment

(* No Assert() of the modelled code fails: Shutdown > NoShutdown on the   *)
(* way to the shutdown checkpoint, every special child gone on reaching   *)
(* PM_NO_CHILDREN, no archiver when archive recovery starts.              *)
CodeAssertionsHold == ghost.assertOK

(* The comment on PMState: "FatalError is never true in PM_RECOVERY,      *)
(* PM_HOT_STANDBY, or PM_RUN states, nor in PM_SHUTDOWN" - the crash      *)
(* cascade leaves those states and only a successful startup returns.     *)
FatalErrorOnlyInCrashStates ==
    pm.FatalError => pm.pmState \notin {"PM_RECOVERY", "PM_HOT_STANDBY",
                                        "PM_RUN", "PM_SHUTDOWN"}

FatalErrorNeverInShutdownStates ==
    pm.FatalError => pm.pmState \notin {"PM_RECOVERY", "PM_HOT_STANDBY",
                                        "PM_RUN", "PM_SHUTDOWN", "PM_SHUTDOWN_2"}

(* The shutdown checkpoint is written alone: while the checkpointer has   *)
(* been told to write it (PM_SHUTDOWN, PM_SHUTDOWN_2), no regular backend *)
(* other than a walsender, no startup process, bgwriter or walwriter is   *)
(* alive.                                                                 *)
ShutdownCheckpointAlone ==
    pm.pmState \in {"PM_SHUTDOWN", "PM_SHUTDOWN_2"} =>
        /\ \A k \in {"startup", "bgwriter", "walwriter"} : procs[k].st = "none"
        /\ \A c \in ChildSlots : procs[c].st = "alive" /\ ~procs[c].walsnd
               => c \in DOMAIN pm.BackendList /\ pm.BackendList[c].dead_end

(* PM_SHUTDOWN is left only when the checkpointer exits (its reap branch  *)
(* moves on to PM_SHUTDOWN_2, a crash to PM_WAIT_BACKENDS).  So whenever  *)
(* the postmaster is in PM_SHUTDOWN, a checkpointer exists and has been   *)
(* sent SIGUSR2 to write the shutdown checkpoint - even when starting one *)
(* in PM_WAIT_BACKENDS failed to fork.                                    *)
ShutdownCheckpointRequested ==
    (Running(World) /\ pm.pmState = "PM_SHUTDOWN") =>
        /\ pm.PID["checkpointer"]
        /\ procs["checkpointer"].st = "zombie"
           \/ "SIGUSR2" \in procs["checkpointer"].sigs

(* BackendStartup admits a regular session (dead_end = FALSE) only in     *)
(* normal running or hot standby, without a pending shutdown or an        *)
(* unfinished crash.                                                      *)
SessionsAdmittedOnlyWhenServing ==
    [][\A c \in ChildSlots :
         (c \in DOMAIN pm.BackendList' \ DOMAIN pm.BackendList
          /\ ~pm.BackendList'[c].dead_end)
         => /\ pm.pmState \in {"PM_RUN", "PM_HOT_STANDBY"}
            /\ pm.Shutdown = NoShutdown /\ ~pm.FatalError]_vars

(* A fast or immediate shutdown request always ends with the postmaster   *)
(* exiting, whatever the children were doing.                             *)
FastShutdownCompletes ==
    (flags.shutdown /\ (flags.fast \/ flags.immediate)) ~> ~Running(World)

(* The archiver is owed a process: the postmaster runs in a state where    *)
(* PgArchStartupAllowed holds but for the restart throttle.                *)
ArchiverExpected ==
    Running(World) /\ PgArchStartupAllowed([World EXCEPT !.archRestart = TRUE])

(* The comment on the restart in ServerLoop: "If fail, we'll try again in  *)
(* future cycles of the postmaster's main loop" - an archiver that exited  *)
(* (with status 1 it is no crash), whose start PgArchCanRestart refused    *)
(* or whose fork failed is started again, unless the state stops owing     *)
(* one.                                                                    *)
ArchiverRestarted ==
    ArchiverExpected ~> (pm.PID["archiver"] \/ ~ArchiverExpected)

(* Spec 4.5 and 8.2: a child crash is handled by a reset - every child    *)
(* exits, shared memory is re-created, startup runs again - so between    *)
(* HandleChildCrash and ReinitStep the postmaster never serves (recovery, *)
(* hot standby or normal running).                                        *)
NoServiceBeforeReinit ==
    ghost.cascade => pm.pmState \notin {"PM_RECOVERY", "PM_HOT_STANDBY", "PM_RUN"}

(* The comment on the startup-failure exit in process_pm_child_exit:      *)
(* "There are no other processes running yet, so we can just exit" - the  *)
(* postmaster never exits while a child it started is still running.      *)
NoChildOutlivesPostmaster ==
    ~Running(World) => \A p \in Procs : procs[p].st # "alive"

(* The children PM_WAIT_BACKENDS waits for (WaitBackendsDone).            *)
AwaitedChildren ==
    ChildrenOf(World, BACKEND_TYPE_ALL \ {"walsender"})
    \cup RunningSpecials(World, {"startup", "bgwriter", "walwriter"})
    \cup (IF pm.FatalError \/ pm.Shutdown >= ImmediateShutdown
         THEN RunningSpecials(World, {"checkpointer"}) ELSE {})

(* PM_WAIT_BACKENDS can always be left: every child it waits for that is  *)
(* still running has been sent a signal that makes it exit, or the        *)
(* SIGKILL timer is running and will kill it.  Whoever moves the state    *)
(* machine into PM_WAIT_BACKENDS (PM_STOP_BACKENDS, HandleChildCrash, the *)
(* startup process's exit, an immediate shutdown) owes those signals.     *)
WaitBackendsCanFinish ==
    (Running(World) /\ pm.pmState = "PM_WAIT_BACKENDS" /\ ~pm.AbortStartTime)
        => \A p \in AwaitedChildren : procs[p].st = "alive" => Demanded(p) # {}

-----------------------------------------------------------------------------
(* The refinement mapping to the lifecycle the supervisor promises        *)
(* (PostmasterLifecycle): pmState collapses to a phase, Shutdown,         *)
(* FatalError and the exit status map to themselves.                     *)
LifecyclePhase ==
    IF ~Running(World) THEN "exited"
    ELSE IF pm.pmState \in {"PM_STARTUP", "PM_RECOVERY"} THEN "starting"
    ELSE IF pm.pmState \in {"PM_HOT_STANDBY", "PM_RUN"} THEN "serving"
    ELSE "stopping"

Lifecycle == INSTANCE PostmasterLifecycle
               WITH phase <- LifecyclePhase, shutdown <- pm.Shutdown,
                    crashed <- pm.FatalError, status <- pm.exit

(* Every step of the supervisor is a step of its promised lifecycle: a    *)
(* stop request never lowers Shutdown or resumes service, crash recovery  *)
(* restarts only when no stop was requested, an immediate shutdown does   *)
(* not count as a crash, and exit(0) ends only a requested stop without a *)
(* crash.  It ties together process_pm_shutdown_request, HandleChildCrash *)
(* and the state machine's PM_NO_CHILDREN and exit steps.                 *)
LifecycleRefined == Lifecycle!Spec

=============================================================================
