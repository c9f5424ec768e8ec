-------------------------------- MODULE Main --------------------------------
(***************************************************************************)
(* The entry point of every PostgreSQL server process:                     *)
(* src/backend/main/main.c.  main() runs a fixed sequence of steps:        *)
(*   - platform start-up hacks and save_ps_display_args;                  *)
(*   - adopting the locale categories from the environment;                *)
(*   - removing LC_ALL;                                                    *)
(*   - the standard options --help and --version;                          *)
(*   - the refusal to run as root;                                         *)
(*   - the dispatch, on argv[1], to one of the subprograms.               *)
(* Each step is an action and pc names the step to run next.  The         *)
(* sanitizer runtime may initialise, and call the hook                     *)
(* __ubsan_default_options, at any moment, even before main(); a child of  *)
(* the postmaster later overwrites the original environment with its ps    *)
(* display.  Both are actions of their own.                                *)
(*                                                                         *)
(* The build (WIN32 or not, EXEC_BACKEND), the command line, the user ids  *)
(* and the environment are chosen in Init from sets the model-checking     *)
(* module gives.  Arguments are TLA+ strings, so that       *)
(* strcmp and the 11-character strncmp are modelled by what they do.       *)
(***************************************************************************)
EXTENDS Integers, Sequences, FiniteSets

CONSTANTS
    Builds,         \* the builds: records [platform, exec_backend]
    OOMPossible,    \* whether pg_perm_setlocale may fail for want of memory
    InitArgv,       \* the command lines: records [argc, arg1, arg2]
    InitUsers,      \* the credentials: records [euid, uid, admin]
    InitEnv         \* the environments: functions EnvVars -> values

VARIABLES
    build,          \* the build this binary is (fixed)
    pc,             \* the step of main() to run next
    reached_main,   \* the static flag set on entry to main()
    do_check_root,  \* main()'s local flag
    argv,           \* the command line (fixed)
    user,           \* the process credentials (fixed)
    env,            \* the process environment
    adopted,        \* the locale adopted for each category, or "none"
    idx,            \* the next init_locale call of main()
    exitStatus,     \* -1 while running, else the status given to exit()
    out,            \* the message main() wrote before exiting, or "none"
    sub,            \* the subprogram main() dispatched to, or "none"
    environMoved,   \* save_ps_display_args moved the environment strings
    psDisplaySet,   \* the ps display has overwritten the original environ area
    ubsan           \* what the sanitizer runtime read when it initialised

vars == <<build, pc, environMoved, psDisplaySet, reached_main, do_check_root, argv, user, env, adopted, idx,
          exitStatus, out, sub, ubsan>>

(* The locale categories and the environment variables read by setlocale. *)
Categories == {"LC_COLLATE", "LC_CTYPE", "LC_MESSAGES",
               "LC_MONETARY", "LC_NUMERIC", "LC_TIME"}
EnvVars == Categories \cup {"LC_ALL", "LANG", "UBSAN_OPTIONS"}
Unset == "unset"

(* The #ifdef WIN32 and #ifdef EXEC_BACKEND branches of this build.        *)
Platform == build.platform
EXEC_BACKEND == build.exec_backend

(* The locales the operating system has installed.                        *)
InstalledLocales == {"C", "en", "fr"}

Subprograms == {"BootstrapModeMain", "SubPostmasterMain", "GucInfoMain",
                "PostgresSingleUserMain", "PostmasterMain"}

(* The six init_locale calls of main(), in the order they are made:       *)
(* the categories absorbed from the environment (""), then those kept at  *)
(* "C".  LC_MESSAGES is defined on both platforms.                        *)
LocaleCalls == << [cat |-> "LC_COLLATE",  locale |-> ""],
                  [cat |-> "LC_CTYPE",    locale |-> ""],
                  [cat |-> "LC_MESSAGES", locale |-> ""],
                  [cat |-> "LC_MONETARY", locale |-> "C"],
                  [cat |-> "LC_NUMERIC",  locale |-> "C"],
                  [cat |-> "LC_TIME",     locale |-> "C"] >>

Steps == {"pre", "hacks", "locale", "unsetenv", "options", "root",
          "dispatch", "exited", "dispatched"}

TypeOK ==
    /\ build \in Builds
    /\ pc \in Steps
    /\ reached_main \in BOOLEAN
    /\ do_check_root \in BOOLEAN
    /\ env \in [EnvVars -> STRING]
    /\ adopted \in [Categories -> InstalledLocales \cup {"none"}]
    /\ idx \in 1..Len(LocaleCalls) + 1
    /\ exitStatus \in {-1, 0, 1}
    /\ sub \in Subprograms \cup {"none"}
    /\ out \in STRING
    /\ environMoved \in BOOLEAN
    /\ psDisplaySet \in BOOLEAN
    /\ ubsan \in [hook : STRING, proc : STRING]

(***************************************************************************)
(* setlocale(category, locale) as the C library does it (POSIX).  An      *)
(* empty locale name means "take it from the environment": LC_ALL if set,  *)
(* else the category's own variable, else LANG, else "C".  The result is   *)
(* NULL when the name is not an installed locale.                          *)
(***************************************************************************)
EnvLocale(e, cat) ==
    IF e["LC_ALL"] # Unset THEN e["LC_ALL"]
    ELSE IF e[cat] # Unset THEN e[cat]
    ELSE IF e["LANG"] # Unset THEN e["LANG"]
    ELSE "C"

setlocale(e, cat, locale) ==
    LET name == IF locale = "" THEN EnvLocale(e, cat) ELSE locale
    IN  IF name \in InstalledLocales THEN name ELSE "NULL"

(***************************************************************************)
(* pg_perm_setlocale (pg_locale.c): setlocale, then setenv of the          *)
(* category's variable to the result so that child processes inherit it.  *)
(* Either step may fail for want of memory (oom); the result is NULL then. *)
(***************************************************************************)
pg_perm_setlocale(e, cat, locale, oom) ==
    IF oom \/ setlocale(e, cat, locale) = "NULL" THEN "NULL"
    ELSE setlocale(e, cat, locale)

(* What the sanitizer has read before it initialises.                    *)
NotInitialised == [hook |-> "none", proc |-> "none"]

Faults == IF OOMPossible THEN BOOLEAN ELSE {FALSE}

-----------------------------------------------------------------------------
Init ==
    /\ build \in Builds
    /\ pc = "pre"
    /\ reached_main = FALSE
    /\ do_check_root = FALSE
    /\ argv \in InitArgv
    /\ user \in InitUsers
    /\ env \in InitEnv
    /\ adopted = [c \in Categories |-> "none"]
    /\ idx = 1
    /\ exitStatus = -1
    /\ out = "none"
    /\ sub = "none"
    /\ environMoved = FALSE
    /\ psDisplaySet = FALSE
    /\ ubsan = NotInitialised

(* exit(status) after writing message m.                                  *)
Exit(status, m) ==
    /\ pc' = "exited"
    /\ exitStatus' = status
    /\ out' = m

(* Entry to main(): do_check_root = true, reached_main = true, the WIN32  *)
(* crash-dump handler and get_progname, which change nothing modelled.    *)
EnterMain ==
    /\ pc = "pre"
    /\ pc' = "hacks"
    /\ reached_main' = TRUE
    /\ do_check_root' = TRUE
    /\ UNCHANGED <<environMoved, psDisplaySet, build, argv, user, env, adopted, idx, exitStatus, out, sub, ubsan>>

(* startup_hacks(progname): only WIN32's WSAStartup can fail, and its     *)
(* failure is exit(1); the stream and error-mode settings change nothing  *)
(* modelled.                                                               *)
startup_hacks ==
    IF Platform = "win32" THEN {"ok", "WSAStartup failed"} ELSE {"ok"}

(* Mutant (a plausible slip in the code it stands for): the environment   *)
(* is not moved out of the way of the ps display.                          *)
EssentialSubsystemsNoMove ==
    /\ pc = "hacks"
    /\ \E r \in startup_hacks :
         \/ r = "ok" /\ pc' = "locale" /\ UNCHANGED <<exitStatus, out>>
         \/ r # "ok" /\ Exit(1, r)
    /\ UNCHANGED <<environMoved, psDisplaySet, reached_main, do_check_root, build,
                   argv, user, env, adopted, idx, sub, ubsan>>

(***************************************************************************)
(* The start of main() after get_progname: startup_hacks, then            *)
(* save_ps_display_args, which where the ps display overwrites the argv   *)
(* area (everywhere but WIN32) copies the environment strings elsewhere    *)
(* and points environ at the copies; getpid, MemoryContextInit and         *)
(* set_pglocale_pgservice change nothing modelled.                         *)
(***************************************************************************)
EssentialSubsystems ==
    /\ pc = "hacks"
    /\ \E r \in startup_hacks :
         \/ /\ r = "ok"
            /\ pc' = "locale"
            /\ environMoved' = (Platform # "win32")
            /\ UNCHANGED <<exitStatus, out>>
         \/ r # "ok" /\ Exit(1, r) /\ UNCHANGED environMoved
    /\ UNCHANGED <<psDisplaySet, reached_main, do_check_root, build, argv,
                   user, env, adopted, idx, sub, ubsan>>

(***************************************************************************)
(* init_locale(categoryname, category, locale) for the idx-th call of      *)
(* main(): pg_perm_setlocale with the given locale, and if that returns    *)
(* NULL, with "C"; if both fail, elog(FATAL), which exits with status 1.   *)
(* A successful call also sets the category's environment variable.       *)
(***************************************************************************)
init_locale ==
    /\ pc = "locale"
    /\ LET call == LocaleCalls[idx]
           Adopt(r) ==
               /\ adopted' = [adopted EXCEPT ![call.cat] = r]
               /\ env' = [env EXCEPT ![call.cat] = r]
               /\ idx' = idx + 1
               /\ pc' = IF idx = Len(LocaleCalls) THEN "unsetenv" ELSE "locale"
               /\ UNCHANGED <<environMoved, psDisplaySet, exitStatus, out>>
       IN  \E oom1, oom2 \in Faults :
             LET first  == pg_perm_setlocale(env, call.cat, call.locale, oom1)
                 second == pg_perm_setlocale(env, call.cat, "C", oom2)
             IN  \/ first # "NULL" /\ Adopt(first)
                 \/ /\ first = "NULL"
                    /\ second # "NULL"
                    /\ Adopt(second)
                 \/ /\ first = "NULL"
                    /\ second = "NULL"
                    /\ Exit(1, "could not adopt locale")
                    /\ UNCHANGED <<environMoved, psDisplaySet, adopted, env, idx>>
    /\ UNCHANGED <<environMoved, psDisplaySet, reached_main, do_check_root, build, argv, user, sub, ubsan>>

(* Mutant (a plausible slip in the code it stands for): LC_ALL is left in *)
(* the environment.                                                        *)
UnsetLcAllSkipped ==
    /\ pc = "unsetenv"
    /\ pc' = "options"
    /\ UNCHANGED <<environMoved, psDisplaySet, reached_main, do_check_root, build, argv, user, env, adopted, idx,
                   exitStatus, out, sub, ubsan>>

(* unsetenv("LC_ALL"), so that the variables pg_perm_setlocale installed   *)
(* have force.                                                             *)
UnsetLcAll ==
    /\ pc = "unsetenv"
    /\ env' = [env EXCEPT !["LC_ALL"] = Unset]
    /\ pc' = "options"
    /\ UNCHANGED <<environMoved, psDisplaySet, reached_main, do_check_root, build, argv, user, adopted, idx,
                   exitStatus, out, sub, ubsan>>

(* help(progname): the usage text, printed to stdout.  Its wording is     *)
(* left out; only that the usage was written matters here.                *)
help == "usage"

(* Mutant (a plausible slip in the code it stands for): "-C" bypasses the *)
(* root check as soon as there is one argument, argc > 1 for argc > 2.     *)
StandardOptionsCBypassOffByOne ==
    /\ pc = "options"
    /\ \/ /\ argv.argc > 1
          /\ argv.arg1 \in {"--help", "-?"}
          /\ Exit(0, help)
          /\ UNCHANGED do_check_root
       \/ /\ argv.argc > 1
          /\ argv.arg1 \in {"--version", "-V"}
          /\ Exit(0, "version")
          /\ UNCHANGED do_check_root
       \/ /\ argv.argc <= 1 \/ argv.arg1 \notin {"--help", "-?", "--version", "-V"}
          /\ do_check_root' =
                ~ /\ argv.argc > 1
                  /\ \/ argv.arg1 = "--describe-config"
                     \/ argv.argc > 1 /\ argv.arg1 = "-C"
          /\ pc' = "root"
          /\ UNCHANGED <<environMoved, psDisplaySet, exitStatus, out>>
    /\ UNCHANGED <<environMoved, psDisplaySet, reached_main, build, argv, user, env, adopted, idx, sub, ubsan>>

(***************************************************************************)
(* The standard options, caught before the root check: --help/-? and      *)
(* --version/-V write their text and exit(0).  --describe-config, and -C   *)
(* when it is the first of at least two arguments, turn the root check     *)
(* off.                                                                    *)
(***************************************************************************)
StandardOptions ==
    /\ pc = "options"
    /\ \/ /\ argv.argc > 1
          /\ argv.arg1 \in {"--help", "-?"}
          /\ Exit(0, help)
          /\ UNCHANGED do_check_root
       \/ /\ argv.argc > 1
          /\ argv.arg1 \in {"--version", "-V"}
          /\ Exit(0, "version")
          /\ UNCHANGED do_check_root
       \/ /\ argv.argc <= 1 \/ argv.arg1 \notin {"--help", "-?", "--version", "-V"}
          /\ do_check_root' =
                ~ /\ argv.argc > 1
                  /\ \/ argv.arg1 = "--describe-config"
                     \/ argv.argc > 2 /\ argv.arg1 = "-C"
          /\ pc' = "root"
          /\ UNCHANGED <<environMoved, psDisplaySet, exitStatus, out>>
    /\ UNCHANGED <<environMoved, psDisplaySet, reached_main, build, argv, user, env, adopted, idx, sub, ubsan>>

(* Mutant (a plausible slip in the code it stands for): the WIN32 branch  *)
(* of check_root is lost and Windows runs the uid tests.                   *)
check_rootUidOnly(u) ==
    IF u.euid = 0 THEN "root execution not permitted"
    ELSE IF u.uid # u.euid THEN "real and effective user IDs must match"
    ELSE "ok"

(***************************************************************************)
(* check_root(progname): refuse effective uid 0 and a real uid that        *)
(* differs from the effective one; on WIN32, refuse administrative         *)
(* permissions.  The message names the refusal; the result is "ok" when    *)
(* the process may go on.                                                  *)
(***************************************************************************)
check_root(u) ==
    IF Platform # "win32"
    THEN IF u.euid = 0 THEN "root execution not permitted"
         ELSE IF u.uid # u.euid THEN "real and effective user IDs must match"
         ELSE "ok"
    ELSE IF u.admin THEN "administrative permissions not permitted"
         ELSE "ok"

CheckRoot ==
    /\ pc = "root"
    /\ \/ /\ ~do_check_root \/ check_root(user) = "ok"
          /\ pc' = "dispatch"
          /\ UNCHANGED <<environMoved, psDisplaySet, exitStatus, out>>
       \/ /\ do_check_root
          /\ check_root(user) # "ok"
          /\ Exit(1, check_root(user))
    /\ UNCHANGED <<environMoved, psDisplaySet, reached_main, do_check_root, build, argv, user, env, adopted,
                   idx, sub, ubsan>>

(* strncmp(a, prefix, n) = 0 for a prefix of n characters.                *)
PrefixMatch(a, prefix, n) ==
    Len(a) >= n /\ SubSeq(a, 1, n) = prefix

(***************************************************************************)
(* The dispatch on the first argument.  None of the subprograms returns,   *)
(* so the abort() after the dispatch is never reached.                     *)
(***************************************************************************)
Subprogram(a) ==
    IF a.argc > 1 /\ a.arg1 = "--check" THEN "BootstrapModeMain"
    ELSE IF a.argc > 1 /\ a.arg1 = "--boot" THEN "BootstrapModeMain"
    ELSE IF EXEC_BACKEND /\ a.argc > 1 /\ PrefixMatch(a.arg1, "--forkchild", 11)
         THEN "SubPostmasterMain"
    ELSE IF a.argc > 1 /\ a.arg1 = "--describe-config" THEN "GucInfoMain"
    ELSE IF a.argc > 1 /\ a.arg1 = "--single" THEN "PostgresSingleUserMain"
    ELSE "PostmasterMain"

Dispatch ==
    /\ pc = "dispatch"
    /\ sub' = Subprogram(argv)
    /\ pc' = "dispatched"
    /\ UNCHANGED <<environMoved, psDisplaySet, reached_main, do_check_root, build, argv, user, env, adopted,
                   idx, exitStatus, out, ubsan>>

(***************************************************************************)
(* The environment as two readers see it.  getenv reads the strings        *)
(* environ points at, which the ps display overwrites unless               *)
(* save_ps_display_args has moved them; the sanitizer library reads        *)
(* /proc/$pid/environ, which shows the original area (the comment before   *)
(* __ubsan_default_options).  "clobbered" stands for what is left there.   *)
(***************************************************************************)
getenv(v) == IF psDisplaySet /\ ~environMoved THEN "clobbered" ELSE env[v]
ProcEnviron(v) == IF psDisplaySet THEN "clobbered" ELSE env[v]

(* Mutant (a plausible slip in the code it stands for): the test of        *)
(* reached_main is inverted.                                               *)
UbsanDefaultOptionsInverted ==
    IF reached_main THEN "" ELSE getenv("UBSAN_OPTIONS")

(***************************************************************************)
(* __ubsan_default_options: "" until main() has been reached, so that libc *)
(* is not called before it is initialised, and getenv("UBSAN_OPTIONS")     *)
(* after.                                                                  *)
(***************************************************************************)
UbsanDefaultOptions ==
    IF ~reached_main THEN "" ELSE getenv("UBSAN_OPTIONS")

(***************************************************************************)
(* The sanitizer runtime initialises once, at the first error it reports,  *)
(* which may be at any step, even before main(): it takes the defaults the *)
(* hook returns and then UBSAN_OPTIONS from /proc/$pid/environ.            *)
(***************************************************************************)
SanitizerInit ==
    /\ pc # "exited"
    /\ ubsan = NotInitialised
    /\ ubsan' = [hook |-> UbsanDefaultOptions, proc |-> ProcEnviron("UBSAN_OPTIONS")]
    /\ UNCHANGED <<environMoved, psDisplaySet, pc, reached_main, do_check_root, build,
                   argv, user, env, adopted, idx, exitStatus, out, sub>>

(***************************************************************************)
(* init_ps_display (ps_status.c, not in this repository), in every child   *)
(* the postmaster forks: where the process title is written over the argv  *)
(* area (not on WIN32) it overwrites the original environment too.  The   *)
(* child inherits reached_main and environ; from here on the process       *)
(* modelled is such a child.                                               *)
(***************************************************************************)
init_ps_display ==
    /\ pc = "dispatched" /\ sub = "PostmasterMain"
    /\ Platform # "win32"
    /\ ~psDisplaySet
    /\ psDisplaySet' = TRUE
    /\ UNCHANGED <<environMoved, pc, reached_main, do_check_root, build, argv,
                   user, env, adopted, idx, exitStatus, out, sub, ubsan>>

(* The process has exited, or runs the subprogram; PostmasterMain is     *)
(* PostmasterStart.tla, composed with this module in ServerStart.tla.      *)
Finished ==
    /\ pc \in {"exited", "dispatched"}
    /\ UNCHANGED vars

Next ==
    \/ EnterMain
    \/ EssentialSubsystems
    \/ init_locale
    \/ UnsetLcAll
    \/ StandardOptions
    \/ CheckRoot
    \/ Dispatch
    \/ SanitizerInit
    \/ init_ps_display
    \/ Finished

Spec == Init /\ [][Next]_vars

-----------------------------------------------------------------------------
(* The credentials check_root refuses.                                    *)
Privileged(u) ==
    IF Platform # "win32" THEN u.euid = 0 \/ u.uid # u.euid ELSE u.admin

(***************************************************************************)
(* Root may only run read-only activities (the comment in main() on the   *)
(* standard options): a privileged process that gets past main() runs      *)
(* GucInfoMain, or PostmasterMain with -C as the first of at least two     *)
(* arguments; every other subprogram, the server itself included, is only  *)
(* reached by an unprivileged user.  It relates the argument parsing of    *)
(* the standard options, check_root and the dispatch.                      *)
(***************************************************************************)
PrivilegedOnlyReadOnly ==
    (sub # "none" /\ Privileged(user)) =>
        \/ sub = "GucInfoMain"
        \/ /\ sub = "PostmasterMain"
           /\ argv.argc > 2
           /\ argv.arg1 = "-C"

(***************************************************************************)
(* Once main() has adopted the locale and removed LC_ALL, the environment  *)
(* a child process inherits selects, for every category, the locale this   *)
(* process adopted (the comments on init_locale and on unsetenv).  This is *)
(* about the six init_locale calls and the unsetenv after them.           *)
(***************************************************************************)
LocaleInherited ==
    pc \in {"options", "root", "dispatch", "dispatched"} =>
        \A c \in Categories :
            /\ adopted[c] # "none"
            /\ setlocale(env, c, "") = adopted[c]

(***************************************************************************)
(* The sanitizer always sees the UBSAN_OPTIONS the process was started     *)
(* with: from /proc/$pid/environ while that is intact, and through the     *)
(* hook once the ps display has overwritten it (the comment before         *)
(* __ubsan_default_options).  It relates the hook, save_ps_display_args    *)
(* and the moment the runtime happens to initialise.                       *)
(***************************************************************************)
UbsanOptions(u) == IF u.proc # "clobbered" THEN u.proc ELSE u.hook

UbsanOptionsSeen ==
    ubsan # NotInitialised => UbsanOptions(ubsan) = env["UBSAN_OPTIONS"]

====
