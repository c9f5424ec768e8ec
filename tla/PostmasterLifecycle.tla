------------------------- MODULE PostmasterLifecycle -------------------------
(***************************************************************************)
(* What the supervisor promises about its own lifecycle (spec 4.5), with   *)
(* the children, the registry and the signals left out.  The eleven        *)
(* pmState values collapse to four phases:                                 *)
(*   - starting: startup or recovery, no sessions served yet;             *)
(*   - serving: normal running or hot standby;                            *)
(*   - stopping: stopping children, by request or after a crash;          *)
(*   - exited.                                                             *)
(* shutdown is the most severe stop request received (0 none, 1 smart,     *)
(* 2 fast, 3 immediate).  crashed marks a crash-recovery cycle in progress *)
(* (FatalError).  status is the exit status, -1 while running.             *)
(*                                                                         *)
(* The promises:                                                           *)
(*   - requests only ever make shutdown more severe;                       *)
(*   - sessions are served again only when no stop was requested;          *)
(*   - a restart happens only to recover from a crash and only when no     *)
(*     stop was requested;                                                 *)
(*   - an immediate shutdown is not a crash;                               *)
(*   - exit status 0 is given only at the end of a requested stop that     *)
(*     met no crash;                                                       *)
(*   - exiting is final.                                                   *)
(***************************************************************************)
EXTENDS Integers

VARIABLES phase, shutdown, crashed, status

avars == <<phase, shutdown, crashed, status>>

Phases == {"starting", "serving", "stopping", "exited"}
Smart == 1
Fast == 2
Immediate == 3

TypeOK ==
    /\ phase \in Phases
    /\ shutdown \in 0..Immediate
    /\ crashed \in BOOLEAN
    /\ status \in {-1, 0, 1}

Init ==
    /\ phase = "starting"
    /\ shutdown = 0
    /\ crashed = FALSE
    /\ status = -1

Live == phase # "exited"

(* The startup process makes progress (recovery begins, or it finishes   *)
(* and sessions are served): a crash cycle ends.  It may finish even      *)
(* while the children of a crash cycle are being stopped, if the SIGQUIT  *)
(* sent to it came too late (the comment on the startup-process branch of  *)
(* process_pm_child_exit accepts this).                                    *)
Ready ==
    /\ shutdown = 0
    /\ \/ phase = "starting" /\ phase' \in {"starting", "serving"}
       \/ phase = "stopping" /\ crashed /\ phase' = "serving"
    /\ crashed' = FALSE
    /\ UNCHANGED <<shutdown, status>>

(* A stop request more severe than any before.  Outside normal running    *)
(* any request stops the children; while serving a smart one may first    *)
(* wait for the sessions to end.  The stop it begins may at once meet a   *)
(* failure that counts as a crash (no checkpointer can be started).       *)
RequestShutdown(m) ==
    /\ Live /\ m > shutdown
    /\ shutdown' = m
    /\ phase' \in IF phase = "serving" /\ m = Smart
                  THEN {"serving", "stopping"} ELSE {"stopping"}
    /\ crashed' \in IF m < Immediate THEN {crashed, TRUE} ELSE {crashed}
    /\ UNCHANGED status

(* The stop a smart request waited for begins.                            *)
StopServing ==
    /\ phase = "serving" /\ shutdown > 0
    /\ phase' = "stopping"
    /\ UNCHANGED <<shutdown, crashed, status>>

(* A child crashed.  Unless an immediate shutdown is under way this is a  *)
(* crash cycle; while serving, the children are stopped.                  *)
Crash ==
    /\ Live
    /\ crashed' = (crashed \/ shutdown < Immediate)
    /\ phase' \in IF phase = "serving" THEN {"stopping"} ELSE {phase, "stopping"}
    /\ UNCHANGED <<shutdown, status>>

(* Every child of the crashed cycle is gone and no stop was requested:    *)
(* shared memory is re-created and a new startup process is launched.     *)
Restart ==
    /\ phase = "stopping" /\ crashed /\ shutdown = 0
    /\ phase' = "starting"
    /\ UNCHANGED <<shutdown, crashed, status>>

(* The supervisor exits; status 0 only at the end of a requested stop     *)
(* without a crash.  An exit with status 1 may come in the same step as   *)
(* the failure that causes it.                                            *)
Exit(s) ==
    /\ Live
    /\ s = 0 => phase = "stopping" /\ shutdown > 0 /\ ~crashed
    /\ phase' = "exited"
    /\ status' = s
    /\ crashed' \in IF s = 0 THEN {crashed} ELSE {crashed, TRUE}
    /\ UNCHANGED shutdown

Next ==
    \/ Ready
    \/ \E m \in Smart..Immediate : RequestShutdown(m)
    \/ StopServing
    \/ Crash
    \/ Restart
    \/ \E s \in {0, 1} : Exit(s)

Spec == Init /\ [][Next]_avars

====
