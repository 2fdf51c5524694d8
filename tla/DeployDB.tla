------------------------------ MODULE DeployDB ------------------------------
(***************************************************************************)
(* `AutoDeploy.py initDB`: deploy_db of mysqlInit/DeployDB.py, retried by  *)
(* run_with_retry of Util.py, against one MySQL server.  MySQL commits     *)
(* every CREATE TABLE of the migration on its own, so a migration that     *)
(* dies leaves the tables it has made.  Several processes may run initDB   *)
(* at once: deploy.sh and operators.                                       *)
(*                                                                         *)
(* Faults are lost connections, refused statements, full disks: any step   *)
(* that talks to MySQL may raise, MaxFaults times in all, and every one    *)
(* does while the server is down.                                          *)
(***************************************************************************)
EXTENDS Naturals, Host

CONSTANTS
    NumTables,      \* tables of the initial migration
    MaxRetry,       \* run_with_retry's max_retry
    MaxFaults       \* bound on the faults of a behaviour

ASSUME DeployAssumption ==
    /\ NumTables \in Nat \ {0}
    /\ MaxRetry \in Nat \ {0}
    /\ MaxFaults \in Nat

VARIABLES
    server,         \* the MySQL server runs
    exists,         \* its container has the schema PilotOS_DB
    tables,         \* its tables, by their place in the migration
    stamped,        \* alembic_version names the revision
    admin,          \* rows of sys_user with the name 'admin'
    install,        \* where each process is in initDB
    attempt,        \* attempts run_with_retry has begun
    progress,       \* tables each process' alembic has created
    faults          \* faults so far

dbVars == <<server, exists, tables, stamped, admin>>
installVars == <<install, attempt, progress>>

Fault == faults < MaxFaults /\ faults' = faults + 1

\* A statement raises: there is no server, or a fault.
Refused == IF server THEN Fault ELSE UNCHANGED faults

\* The container of an earlier installation may be there and stopped.
DBInit ==
    /\ server \in BOOLEAN /\ exists \in BOOLEAN
    /\ \/ tables = {} /\ stamped = FALSE /\ admin = 0
       \/ exists /\ tables = 1 .. NumTables /\ stamped = TRUE /\ admin = 1
    /\ install = [p \in Process |-> "idle"]
    /\ attempt = [p \in Process |-> 0]
    /\ progress = [p \in Process |-> 0]
    /\ faults = 0

Goto(p, place) == install' = [install EXCEPT ![p] = place]

\* init_db: the first attempt.
InitDB(p) ==
    /\ install[p] = "idle"
    /\ Goto(p, "ensure")
    /\ attempt' = [attempt EXCEPT ![p] = 1]
    /\ UNCHANGED <<dbVars, progress, faults>>

\* Mutant: one attempt too many.
RaiseOnceMore(p) ==
    /\ Goto(p, IF attempt[p] <= MaxRetry THEN "ensure" ELSE "failed")
    /\ attempt' = [attempt EXCEPT ![p] = IF @ <= MaxRetry THEN @ + 1 ELSE @]
    /\ UNCHANGED <<dbVars, progress>>

\* An exception leaves deploy_db: the next attempt, or the end.
Raise(p) ==
    /\ Goto(p, IF attempt[p] < MaxRetry THEN "ensure" ELSE "failed")
    /\ attempt' = [attempt EXCEPT ![p] = IF @ < MaxRetry THEN @ + 1 ELSE @]
    /\ UNCHANGED <<dbVars, progress>>

\* Mutant: an existing database is taken for this installation's own.
FindDatabaseAndGoOn(p) ==
    /\ install[p] = "ensure" /\ server
    /\ Goto(p, IF exists THEN "migrate" ELSE "create")
    /\ UNCHANGED <<dbVars, attempt, progress, faults>>

\* ensure_database_exists, SHOW DATABASES: an existing database raises.
FindDatabase(p) ==
    /\ install[p] = "ensure" /\ server
    /\ \/ exists /\ Raise(p)
       \/ ~exists /\ Goto(p, "create") /\ UNCHANGED <<dbVars, attempt, progress>>
    /\ UNCHANGED faults

\* ensure_database_exists, CREATE DATABASE: refused when another process was
\* faster.
CreateDatabase(p) ==
    /\ install[p] = "create" /\ server
    /\ \/ exists /\ Raise(p)
       \/ /\ ~exists
          /\ exists' = TRUE
          /\ Goto(p, "migrate")
          /\ UNCHANGED <<server, tables, stamped, admin, attempt, progress>>
    /\ UNCHANGED faults

\* The connection cannot be made or is lost before the statement.
DatabaseFails(p) ==
    /\ install[p] \in {"ensure", "create"}
    /\ Refused
    /\ Raise(p)

\* upgrade() of the revision: the next op.create_table.
CreateTable(p) ==
    /\ install[p] = "migrate" /\ server
    /\ progress[p] < NumTables
    /\ progress[p] + 1 \notin tables
    /\ tables' = tables \cup {progress[p] + 1}
    /\ progress' = [progress EXCEPT ![p] = @ + 1]
    /\ UNCHANGED <<server, exists, stamped, admin, install, attempt, faults>>

\* env.py writes the revision when upgrade() is through.
Stamp(p) ==
    /\ install[p] = "migrate" /\ server
    /\ progress[p] = NumTables
    /\ stamped' = TRUE
    /\ Goto(p, "admin")
    /\ UNCHANGED <<server, exists, tables, admin, attempt, progress, faults>>

\* Mutant: the exit code of alembic is not checked.
MigrationIgnored(p) ==
    /\ install[p] = "migrate"
    /\ Refused
    /\ Goto(p, "admin")
    /\ UNCHANGED <<dbVars, attempt, progress>>

\* run_alembic_upgrade exits when alembic fails; SystemExit passes through
\* the `except Exception` of run_with_retry.
MigrationFails(p) ==
    /\ install[p] = "migrate"
    /\ Refused
    /\ Goto(p, "exited")
    /\ UNCHANGED <<dbVars, attempt, progress>>

\* insert_admin_user: an INSERT that fails is logged and forgotten.
InsertAdmin(p) ==
    /\ install[p] = "admin"
    /\ \/ server /\ admin' = 1 /\ UNCHANGED faults
       \/ Refused /\ UNCHANGED admin
    /\ Goto(p, "installed")
    /\ UNCHANGED <<server, exists, tables, stamped, attempt, progress>>

\* insert_admin_user connects outside its `try`.
AdminConnectFails(p) ==
    /\ install[p] = "admin"
    /\ Refused
    /\ Raise(p)

\* The terminal is closed: the process ends, and alembic with it.
InstallKilled(p) ==
    /\ install[p] \in {"ensure", "create", "migrate", "admin"}
    /\ Fault
    /\ Goto(p, "killed")
    /\ UNCHANGED <<dbVars, attempt, progress>>

InstallStep(p) ==
    \/ FindDatabase(p) \/ CreateDatabase(p) \/ DatabaseFails(p)
    \/ CreateTable(p) \/ Stamp(p) \/ MigrationFails(p)
    \/ InsertAdmin(p) \/ AdminConnectFails(p) \/ InstallKilled(p)

--------------------------------------------------------------------------------
DBTypeOK ==
    /\ server \in BOOLEAN /\ exists \in BOOLEAN /\ stamped \in BOOLEAN
    /\ tables \subseteq 1 .. NumTables
    /\ admin \in 0 .. 1
    /\ install \in [Process -> {"idle", "ensure", "create", "migrate", "admin",
                                "installed", "failed", "exited", "killed"}]
    /\ attempt \in [Process -> 0 .. MaxRetry]
    /\ progress \in [Process -> 0 .. NumTables]
    /\ faults \in 0 .. MaxFaults

(***************************************************************************)
(* However many processes run initDB at once, one of them migrates: the    *)
(* look for the database and its creation are two statements, and only the *)
(* refusal of the second CREATE DATABASE keeps a second alembic away.  The *)
(* migrator finds the tables it has made and no others, so no              *)
(* op.create_table fails on a table that is already there.                 *)
(***************************************************************************)
OneMigrator ==
    \A p \in Process : install[p] = "migrate" =>
        /\ tables = 1 .. progress[p]
        /\ \A q \in Process \ {p} : install[q] # "migrate"

(***************************************************************************)
(* initDB reports success only over a complete schema, stamped with its    *)
(* revision, whatever failed in earlier attempts or other processes.       *)
(***************************************************************************)
InstalledMeansSchema ==
    \A p \in Process : install[p] = "installed" => tables = 1 .. NumTables /\ stamped
================================================================================
