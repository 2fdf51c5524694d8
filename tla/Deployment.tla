------------------------------ MODULE Deployment ------------------------------
(***************************************************************************)
(* One host on which deploy.sh runs, AutoDeploy.py is run by hand and the  *)
(* upgrade daemon serves: deploy.sh over modules DeployDB and              *)
(* UpgradeDaemon.  Each Process is a shell; a host has no lock that keeps  *)
(* two of them apart.                                                      *)
(*                                                                         *)
(* deploy.sh runs under `set -e`.  MongoDB, the virtual environment and    *)
(* the dependencies are left out: they can fail like the image can.        *)
(***************************************************************************)
EXTENDS DeployDB, UpgradeDaemon

VARIABLE script         \* where each shell is

vars == <<dbVars, installVars, faults, daemonVars, script>>

Init ==
    /\ DBInit
    /\ UDInit
    /\ script = [p \in Process |-> "idle"]

FreshInit == Init /\ ~server /\ ~exists

NextLine(p, line) == script' = [script EXCEPT ![p] = line]

DeploySh(p) ==
    /\ script[p] = "idle"
    /\ NextLine(p, "mysql")
    /\ UNCHANGED <<dbVars, installVars, faults, daemonVars>>

\* docker ps
CheckMySQL(p) ==
    /\ script[p] = "mysql"
    /\ NextLine(p, IF server THEN "image" ELSE "remove")
    /\ UNCHANGED <<dbVars, installVars, faults, daemonVars>>

\* docker rm -f: a container that is there, stopped or started meanwhile,
\* goes with its data.
RemoveMySQL(p) ==
    /\ script[p] = "remove"
    /\ server' = FALSE /\ exists' = FALSE
    /\ tables' = {} /\ stamped' = FALSE /\ admin' = 0
    /\ NextLine(p, "run")
    /\ UNCHANGED <<installVars, faults, daemonVars>>

\* docker run: MYSQL_DATABASE makes the image create the schema.
RunMySQL(p) ==
    /\ script[p] = "run"
    /\ server' = TRUE
    /\ exists' = TRUE
    /\ NextLine(p, IF server THEN "aborted" ELSE "image")
    /\ UNCHANGED <<tables, stamped, admin, installVars, faults, daemonVars>>

\* docker load, when docker images does not list the base image.
LoadBaseImage(p) ==
    /\ script[p] = "image"
    /\ images' = images \cup {Base}
    /\ NextLine(p, "initDB")
    /\ UNCHANGED <<compose, service, pidFile, start, upgrade, dbVars, installVars, faults>>

LoadBaseImageFails(p) ==
    /\ script[p] = "image" /\ Base \notin images
    /\ Fault
    /\ NextLine(p, "aborted")
    /\ UNCHANGED <<dbVars, installVars, daemonVars>>

\* AutoDeploy.py initDB, by the script or by hand.
RunInitDB(p) ==
    /\ script[p] \in {"initDB", "idle"}
    /\ InitDB(p)
    /\ NextLine(p, IF script[p] = "idle" THEN "by_hand" ELSE "initDB")
    /\ UNCHANGED daemonVars

InstallEnded(p) == install[p] \in {"installed", "failed", "exited", "killed"}

\* The exit status of initDB.
InitDBEnded(p) ==
    /\ script[p] = "initDB" /\ InstallEnded(p)
    /\ NextLine(p, IF install[p] = "installed" THEN "start" ELSE "aborted")
    /\ UNCHANGED <<dbVars, installVars, faults, daemonVars>>

\* AutoDeploy.py start, by the script or by hand.
RunStart(p) ==
    /\ \/ script[p] = "start" /\ UNCHANGED script
       \/ script[p] = "idle" /\ NextLine(p, "by_hand")
       \/ script[p] = "by_hand" /\ InstallEnded(p) /\ UNCHANGED script
    /\ \/ EnableCoreDump(p, TRUE) /\ UNCHANGED faults
       \/ EnableCoreDump(p, FALSE) /\ Fault
    /\ UNCHANGED <<dbVars, installVars>>

Connect(p) ==
    /\ \/ server /\ exists /\ CheckConnections(p, TRUE) /\ UNCHANGED faults
       \/ CheckConnections(p, FALSE) /\ (IF server /\ exists THEN Fault ELSE UNCHANGED faults)
    /\ UNCHANGED <<dbVars, installVars, script>>

\* start returns 0 to the script when it has nothing to do or has forked,
\* whatever becomes of the daemon.
StartEnded(p) ==
    /\ script[p] = "start"
    /\ \/ start[p] \in {"failed", "killed"} /\ NextLine(p, "aborted")
       \/ /\ start[p] \in {"done", "write_pid", "exited", "killed"} \/ Live(p)
          /\ NextLine(p, "complete")
    /\ UNCHANGED <<dbVars, installVars, faults, daemonVars>>

LoadByHand == LoadComposeImage /\ UNCHANGED <<dbVars, installVars, faults, script>>

ShellStep(p) ==
    \/ DeploySh(p) \/ CheckMySQL(p) \/ RemoveMySQL(p) \/ RunMySQL(p)
    \/ LoadBaseImage(p) \/ LoadBaseImageFails(p) \/ RunInitDB(p) \/ InitDBEnded(p)
    \/ RunStart(p) \/ Connect(p) \/ StartEnded(p)

\* A step of an upgrade thread, among them those after a fault.
ThreadStep(u) ==
    /\ UpgradeStep(u)
    /\ UNCHANGED <<dbVars, installVars, faults, script>>

Next ==
    \/ \E p \in Process :
          \/ ShellStep(p)
          \/ InstallStep(p) /\ UNCHANGED <<daemonVars, script>>
          \/ StartStep(p) /\ UNCHANGED <<dbVars, installVars, faults, script>>
          \/ StartDies(p) /\ Fault /\ UNCHANGED <<dbVars, installVars, script>>
    \/ \E u \in Upgrade :
          \/ ThreadStep(u)
          \/ UpgradeFails(u) /\ Fault /\ UNCHANGED <<dbVars, installVars, script>>
          \/ \E package \in Packages :
                Post(u, package) /\ UNCHANGED <<dbVars, installVars, faults, script>>
    \/ LoadByHand

Spec == Init /\ [][Next]_vars

FreshSpec == FreshInit /\ [][Next]_vars

--------------------------------------------------------------------------------
DeployTypeOK ==
    /\ DBTypeOK
    /\ compose \in Nat /\ images \subseteq Nat \ {0} /\ service \in images \cup {0}
    /\ pidFile \in Process \cup {NoProcess}
    /\ start \in [Process -> {"idle", "connect", "check_service", "verify", "down", "up",
                              "check_daemon", "daemonize", "write_pid", "bind", "serving",
                              "deaf", "exiting", "exited", "done", "failed", "killed"}]
    /\ \A u \in Upgrade :
          /\ upgrade[u].at \in {"none", "lock", "load", "read", "truncate", "write", "down",
                                "up", "done", "not_written", "not_taken_down", "raised"}
          /\ upgrade[u].at # "none" => upgrade[u].daemon \in Process
    /\ script \in [Process -> {"idle", "mysql", "remove", "run", "image", "initDB", "start",
                               "by_hand", "complete", "aborted"}]

(***************************************************************************)
(* What the compose file may be after any fault.  It is empty only while   *)
(* an upgrade is between opening and writing it, or because one ended      *)
(* there, with its daemon or by a dump that failed (save_compose writes in *)
(* place): no other failure of an upgrade, a misnamed package included,    *)
(* costs the file.  Otherwise docker has the image it names, but for the   *)
(* time before the first load and a package whose name lies about its      *)
(* image.                                                                  *)
(***************************************************************************)
ComposeUsable ==
    IF compose = 0 THEN \E u \in Upgrade : upgrade[u].at \in {"write", "not_written"}
    ELSE compose \notin images =>
            \/ compose = Base
            \/ \E package \in Packages : package.named = compose /\ package.image # compose

(***************************************************************************)
(* A container that is not the one the compose file names runs under an    *)
(* empty file, or until the upgrade that wrote the name takes it down,     *)
(* which it may fail to do: upgrades of two daemons and starts by hand may *)
(* take turns at docker compose.                                           *)
(***************************************************************************)
RunsWhatComposeNames ==
    service # 0 /\ compose \notin {0, service} =>
        \E u \in Upgrade : /\ upgrade[u].at \in {"down", "not_taken_down"}
                           /\ upgrade[u].package.named = compose

(***************************************************************************)
(* A PID file that names no live daemon is left by one that was killed,    *)
(* and a daemon without a PID file has lost it to another daemon's exit,   *)
(* which removes the file whoever wrote it.                                *)
(***************************************************************************)
PidFileTruth ==
    /\ pidFile # NoProcess /\ ~Live(pidFile) => start[pidFile] = "killed"
    /\ \A p \in Process : Live(p) /\ pidFile = NoProcess =>
          \E q \in Process \ {p} : start[q] = "exited"

(***************************************************************************)
(* deploy.sh is the "Full Deployment Script": on a fresh host on which     *)
(* nothing fails it gets to "Deployment Complete!" (deploy.sh:8,78,87).    *)
(***************************************************************************)
ScriptCompletes == \A p \in Process : script[p] # "aborted"
================================================================================
