---------------------------- MODULE UpgradeDaemon ----------------------------
(***************************************************************************)
(* `AutoDeploy.py start` and the daemon it leaves behind (Upgrade.py).     *)
(* start brings the service up with docker compose and turns itself into a *)
(* daemon unless the PID file exists.  The daemon answers POST /upgrade    *)
(* with "success" and lets a thread of its own do the upgrade, one at a    *)
(* time.  docker, the compose file and the PID file are shared by all      *)
(* processes of the host, the upgrade lock is not.                         *)
(*                                                                         *)
(* Images are versions, 1 the one that docker-compose.yml names at first.  *)
(* A package is [named, image]: the version its file name says, 0 for a    *)
(* name the pattern does not match, and the version of the image in it.    *)
(***************************************************************************)
EXTENDS Naturals, Host

CONSTANTS
    Upgrade,        \* upgrade requests
    Packages,       \* packages that may be asked for
    NoProcess       \* no process

ASSUME PackagesAssumption == Packages \subseteq [named : Nat, image : Nat \ {0}]
ASSUME NoProcessAssumption == NoProcess \notin Process

VARIABLES
    compose,        \* version in docker-compose.yml, 0 when it is empty or cut short
    images,         \* versions docker has loaded
    service,        \* version of the running container, 0 for none
    pidFile,        \* process in the PID file, or NoProcess
    start,          \* where each process is in start
    upgrade         \* the upgrade threads: [at, daemon, package]

dockerVars == <<compose, images, service>>
daemonVars == <<dockerVars, pidFile, start, upgrade>>

Base == 1

UDInit ==
    /\ compose = Base /\ images = {} /\ service = 0   \* nothing runs before deploy.sh
    /\ pidFile = NoProcess
    /\ start = [p \in Process |-> "idle"]
    /\ upgrade = [u \in Upgrade |->
                    [at |-> "none", daemon |-> NoProcess, package |-> [named |-> 0, image |-> 1]]]

GoOn(p, place) == start' = [start EXCEPT ![p] = place]
GoOnUpgrade(u, place) == upgrade' = [upgrade EXCEPT ![u].at = place]

Live(p) == start[p] \in {"bind", "serving", "deaf", "exiting"}

\* docker compose up -d starts what the file names, if docker has it.
CanComeUp == compose \in images

--------------------------------------------------------------------------------
(* start_services                                                          *)

\* enable_system_core_dump rewrites the same system files each time.
EnableCoreDump(p, works) ==
    /\ start[p] = "idle"
    /\ GoOn(p, IF works THEN "connect" ELSE "failed")
    /\ UNCHANGED <<dockerVars, pidFile, upgrade>>

\* check_db_connections: MySQL knows the schema and MongoDB answers.
CheckConnections(p, reachable) ==
    /\ start[p] = "connect"
    /\ GoOn(p, IF reachable THEN "check_service" ELSE "failed")
    /\ UNCHANGED <<dockerVars, pidFile, upgrade>>

\* check_service_running asks docker compose, which needs the file.
CheckService(p) ==
    /\ start[p] \in {"check_service", "verify"}
    /\ GoOn(p, IF service # 0 /\ compose # 0 THEN "check_daemon"
               ELSE IF start[p] = "check_service" THEN "down" ELSE "failed")
    /\ UNCHANGED <<dockerVars, pidFile, upgrade>>

\* docker_compose_up, docker compose down.
StartDown(p) ==
    /\ start[p] = "down"
    /\ service' = IF compose # 0 THEN 0 ELSE service
    /\ GoOn(p, IF compose # 0 THEN "up" ELSE "failed")
    /\ UNCHANGED <<compose, images, pidFile, upgrade>>

\* docker_compose_up, docker compose up -d.
StartUp(p) ==
    /\ start[p] = "up"
    /\ service' = IF CanComeUp THEN compose ELSE service
    /\ GoOn(p, IF CanComeUp THEN "verify" ELSE "failed")
    /\ UNCHANGED <<compose, images, pidFile, upgrade>>

\* is_autodeploy_running, and the same look once more in daemonize, where a
\* PID file raises.
CheckDaemon(p) ==
    /\ start[p] \in {"check_daemon", "daemonize"}
    /\ GoOn(p, CASE pidFile = NoProcess /\ start[p] = "check_daemon" -> "daemonize"
                 [] pidFile = NoProcess /\ start[p] = "daemonize" -> "write_pid"
                 [] pidFile # NoProcess /\ start[p] = "check_daemon" -> "done"
                 [] OTHER -> "failed")
    /\ UNCHANGED <<dockerVars, pidFile, upgrade>>

\* daemonize, after its forks.
WritePid(p) ==
    /\ start[p] = "write_pid"
    /\ pidFile' = p
    /\ GoOn(p, "bind")
    /\ UNCHANGED <<dockerVars, upgrade>>

\* start_Upgrade_process: the HTTP thread ends when the port is taken, the
\* main thread stays.
Bind(p) ==
    /\ start[p] = "bind"
    /\ GoOn(p, IF \E q \in Process : start[q] = "serving" THEN "deaf" ELSE "serving")
    /\ UNCHANGED <<dockerVars, pidFile, upgrade>>

\* handle_exit closes the port; the main thread sees exit_event later.
Terminate(p) ==
    /\ start[p] \in {"serving", "deaf"}
    /\ GoOn(p, "exiting")
    /\ UNCHANGED <<dockerVars, pidFile, upgrade>>

\* Mutant: the PID file is not removed at exit.
ExitLeavingPid(p) ==
    /\ start[p] = "exiting"
    /\ GoOn(p, "exited")
    /\ UNCHANGED <<dockerVars, pidFile, upgrade>>

\* The main thread returns: atexit removes the PID file, whoever wrote it,
\* and the upgrade threads, which are daemon threads, end where they are.
Exit(p) ==
    /\ start[p] = "exiting"
    /\ pidFile' = NoProcess
    /\ GoOn(p, "exited")
    /\ UNCHANGED <<dockerVars, upgrade>>

\* SIGKILL, or an exception of docker in start_services.
StartDies(p) ==
    /\ start[p] \notin {"idle", "done", "failed", "exited", "killed"}
    /\ GoOn(p, "killed")
    /\ UNCHANGED <<dockerVars, pidFile, upgrade>>

StartStep(p) ==
    \/ CheckService(p) \/ StartDown(p) \/ StartUp(p) \/ CheckDaemon(p)
    \/ WritePid(p) \/ Bind(p) \/ Terminate(p) \/ Exit(p)

\* `AutoDeploy.py loadImage`: the compose file must be readable and the .iso
\* of its image there; packages are copied there before they are loaded.
LoadComposeImage ==
    /\ compose \in images \cup {Base}
    /\ images' = images \cup {compose}
    /\ UNCHANGED <<compose, service, pidFile, start, upgrade>>

--------------------------------------------------------------------------------
(* UpgradeHandler and do_upgrade                                           *)

\* A thread runs as long as its daemon does.
Runs(u) == upgrade[u].daemon # NoProcess /\ Live(upgrade[u].daemon)

InUpgrade(u) == upgrade[u].at \in {"load", "read", "truncate", "write", "down", "up"}

\* do_POST with a package: "success" is sent before the thread is started.
Post(u, package) ==
    /\ upgrade[u].at = "none"
    /\ \E p \in Process :
          /\ start[p] = "serving"
          /\ upgrade' = [upgrade EXCEPT ![u] =
                [at |-> "lock", daemon |-> p, package |-> package]]
    /\ UNCHANGED <<dockerVars, pidFile, start>>

\* with upgrade_lock
Lock(u) ==
    /\ Runs(u) /\ upgrade[u].at = "lock"
    /\ \A v \in Upgrade : InUpgrade(v) => upgrade[v].daemon # upgrade[u].daemon
    /\ GoOnUpgrade(u, "load")
    /\ UNCHANGED <<dockerVars, pidFile, start>>

\* Mutant: the image is loaded when the compose file is written already.
SkipLoad(u) ==
    /\ Runs(u) /\ upgrade[u].at = "load"
    /\ GoOnUpgrade(u, "read")
    /\ UNCHANGED <<dockerVars, pidFile, start>>

\* load_image_from_upgrade_dir
LoadImage(u) ==
    /\ Runs(u) /\ upgrade[u].at = "load"
    /\ images' = images \cup {upgrade[u].package.image}
    /\ GoOnUpgrade(u, "read")
    /\ UNCHANGED <<compose, service, pidFile, start>>

\* Mutant: the file is opened for writing before the name is looked at.
ReadComposeLate(u) ==
    /\ Runs(u) /\ upgrade[u].at = "read"
    /\ compose' = 0
    /\ GoOnUpgrade(u, IF compose # 0 /\ upgrade[u].package.named # 0 THEN "write" ELSE "raised")
    /\ UNCHANGED <<images, service, pidFile, start>>

\* load_compose and increment_image_version: an empty file or a name that
\* does not match raises.
ReadCompose(u) ==
    /\ Runs(u) /\ upgrade[u].at = "read"
    /\ GoOnUpgrade(u, IF compose # 0 /\ upgrade[u].package.named # 0 THEN "truncate" ELSE "raised")
    /\ UNCHANGED <<dockerVars, pidFile, start>>

\* save_compose: open with "w", then the dump.
TruncateCompose(u) ==
    /\ Runs(u) /\ upgrade[u].at = "truncate"
    /\ compose' = 0
    /\ GoOnUpgrade(u, "write")
    /\ UNCHANGED <<images, service, pidFile, start>>

\* Mutant: docker_compose_up without the `down`, and an `up` that finds the
\* service running.
WriteComposeOnly(u) ==
    /\ Runs(u) /\ upgrade[u].at = "write"
    /\ compose' = upgrade[u].package.named
    /\ GoOnUpgrade(u, IF service # 0 THEN "done" ELSE "up")
    /\ UNCHANGED <<images, service, pidFile, start>>

WriteCompose(u) ==
    /\ Runs(u) /\ upgrade[u].at = "write"
    /\ compose' = upgrade[u].package.named
    /\ GoOnUpgrade(u, "down")
    /\ UNCHANGED <<images, service, pidFile, start>>

\* docker_compose_up of do_upgrade.
UpgradeDown(u) ==
    /\ Runs(u) /\ upgrade[u].at = "down"
    /\ service' = IF compose # 0 THEN 0 ELSE service
    /\ GoOnUpgrade(u, IF compose # 0 THEN "up" ELSE "raised")
    /\ UNCHANGED <<compose, images, pidFile, start>>

\* The result of check_service_running is not looked at.
UpgradeUp(u) ==
    /\ Runs(u) /\ upgrade[u].at = "up"
    /\ service' = IF CanComeUp THEN compose ELSE service
    /\ GoOnUpgrade(u, IF CanComeUp THEN "done" ELSE "raised")
    /\ UNCHANGED <<compose, images, pidFile, start>>

\* A missing or broken package, a file that cannot be opened, a dump for
\* which the disk is full, a docker command that fails: the exception ends
\* the thread and the `with` gives the lock back.  Nothing is undone.
UpgradeFails(u) ==
    /\ Runs(u) /\ InUpgrade(u)
    /\ GoOnUpgrade(u, CASE upgrade[u].at = "write" -> "not_written"
                        [] upgrade[u].at = "down" -> "not_taken_down"
                        [] OTHER -> "raised")
    /\ UNCHANGED <<dockerVars, pidFile, start>>

UpgradeStep(u) ==
    \/ Lock(u) \/ LoadImage(u) \/ ReadCompose(u) \/ TruncateCompose(u)
    \/ WriteCompose(u) \/ UpgradeDown(u) \/ UpgradeUp(u)
================================================================================
