---------------------------- MODULE MCServerStart ----------------------------
(* Model values for ServerStart: the builds, command lines, credentials   *)
(* and environments a server process starts with.                         *)
EXTENDS ServerStart

(* Main's EnvVars and Unset, spelled out: a definition that gives a      *)
(* constant of the instance M cannot itself be read through M.            *)
MCEnvVars == {"LC_COLLATE", "LC_CTYPE", "LC_MESSAGES", "LC_MONETARY",
              "LC_NUMERIC", "LC_TIME", "LC_ALL", "LANG", "UBSAN_OPTIONS"}
MCUnset == "unset"

(* A Unix build, and a WIN32 one, which always uses EXEC_BACKEND.          *)
MCBuilds == {[platform |-> "unix",  exec_backend |-> FALSE],
             [platform |-> "win32", exec_backend |-> TRUE]}

(* argv[1]: every option main() tests, the --forkchild prefix with and    *)
(* without a suffix and one character short of it, and an ordinary         *)
(* postmaster switch.                                                      *)
MCTokens == {"--help", "-?", "--version", "-V", "--describe-config", "-C",
             "--check", "--boot", "--forkchild", "--forkchild=3",
             "--forkchil", "--single", "-D"}

(* argc = 1 (no argument), 2 and 3, since "-C" bypasses the root check     *)
(* only when argc > 2.  The value of -C is an ordinary GUC, a             *)
(* runtime-computed one, or no GUC; any other second argument is "x".      *)
MCArgv == {[argc |-> 1, arg1 |-> "", arg2 |-> ""]} \cup
          {[argc |-> 2, arg1 |-> t, arg2 |-> ""] : t \in MCTokens} \cup
          {[argc |-> 3, arg1 |-> t, arg2 |-> "x"] : t \in MCTokens \ {"-C"}} \cup
          {[argc |-> 3, arg1 |-> "-C", arg2 |-> g] :
                g \in {"shared_buffers", "shared_memory_size", "x"}}

(* Credentials: every combination of root and the postgres user (uid 70) *)
(* as real and effective uid, and Windows administrative permissions with *)
(* matching and with differing uids; on each build only the fields it      *)
(* tests matter.                                                           *)
MCUsers == {[euid |-> 70, uid |-> 70, admin |-> FALSE],
            [euid |-> 70, uid |-> 70, admin |-> TRUE],
            [euid |-> 0,  uid |-> 0,  admin |-> TRUE],
            [euid |-> 0,  uid |-> 70, admin |-> FALSE],
            [euid |-> 70, uid |-> 0,  admin |-> FALSE]}

(* An environment with no locale variables set.                           *)
MCPlainEnv == {[v \in MCEnvVars |-> IF v = "UBSAN_OPTIONS" THEN "opts"
                                  ELSE MCUnset]}

(* Every combination of LC_ALL, LANG, two categories main() absorbs from  *)
(* the environment and one it sets to "C": unset, naming an installed      *)
(* locale, or naming one that is not installed.  The other categories      *)
(* behave as the ones of their kind.                                       *)
MCEnvVaried == {"LC_ALL", "LANG", "LC_COLLATE", "LC_MESSAGES", "LC_MONETARY"}
MCLocaleEnv ==
    { [v \in MCEnvVars |-> IF v = "UBSAN_OPTIONS" THEN "opts"
                         ELSE IF v \in MCEnvVaried THEN f[v] ELSE MCUnset] :
        f \in [MCEnvVaried -> {MCUnset, "en", "bad"}] }

====
