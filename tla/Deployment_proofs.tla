-------------------------- MODULE Deployment_proofs --------------------------
(***************************************************************************)
(* Proofs about the installation and the upgrade daemon, for every number  *)
(* of shells, upgrades, tables, attempts and faults and every set of       *)
(* packages.  The inductive invariant has a part for the database and one  *)
(* for docker and the daemons; deploy.sh is all that joins them.           *)
(***************************************************************************)
EXTENDS Deployment, TLAPS

USE DEF dbVars, installVars, dockerVars, daemonVars

InstallPlace == {"idle", "ensure", "create", "migrate", "admin",
                 "installed", "failed", "exited", "killed"}

ScriptLine == {"idle", "mysql", "remove", "run", "image", "initDB", "start",
               "by_hand", "complete", "aborted"}

--------------------------------------------------------------------------------
(***************************************************************************)
(* Who may touch the database.                                             *)
(***************************************************************************)

\* What deploy.sh does to the database, and what it leaves alone.
LEMMA ShellOnDatabase ==
    ASSUME NEW p \in Process, ShellStep(p)
    PROVE  \/ RemoveMySQL(p)
           \/ RunMySQL(p)
           \/ InitDB(p)
           \/ UNCHANGED <<dbVars, installVars>>
BY DEF ShellStep, DeploySh, CheckMySQL, RemoveMySQL, RunMySQL, LoadBaseImage,
       LoadBaseImageFails, RunInitDB, InitDBEnded, RunStart, Connect, StartEnded

\* A step that touches the database is one of the script or of initDB.
LEMMA StepsOnDatabase ==
    ASSUME [Next]_vars
    PROVE  \/ \E p \in Process : ShellStep(p)
           \/ \E p \in Process : InstallStep(p) /\ UNCHANGED script
           \/ UNCHANGED <<dbVars, installVars, script>>
BY DEF Next, vars, ThreadStep, LoadByHand

\* The same for the number of faults.
LEMMA FaultsGrow ==
    ASSUME [Next]_vars, faults \in 0 .. MaxFaults
    PROVE  faults' \in 0 .. MaxFaults
<1>1. Fault => faults' \in 0 .. MaxFaults
  BY DeployAssumption DEF Fault
<1>2. ASSUME NEW p \in Process, ShellStep(p) PROVE Fault \/ UNCHANGED faults
  BY <1>2 DEF ShellStep, DeploySh, CheckMySQL, RemoveMySQL, RunMySQL, LoadBaseImage,
              LoadBaseImageFails, RunInitDB, InitDB, InitDBEnded, RunStart, Connect, StartEnded
<1>3. ASSUME NEW p \in Process, InstallStep(p) PROVE Fault \/ UNCHANGED faults
  BY <1>3 DEF InstallStep, FindDatabase, CreateDatabase, DatabaseFails, CreateTable, Stamp,
              MigrationFails, InsertAdmin, AdminConnectFails, InstallKilled, Refused
<1>4. QED
  BY <1>1, <1>2, <1>3 DEF Next, vars, ThreadStep, LoadByHand

\* Steps of initDB that raise or end it go to the next attempt or nowhere.
LEMMA RaiseFacts ==
    ASSUME DBTypeOK, NEW p \in Process, Raise(p)
    PROVE  /\ install' = [install EXCEPT ![p] = install'[p]]
           /\ install'[p] \in {"ensure", "failed"}
           /\ attempt' \in [Process -> 0 .. MaxRetry]
           /\ UNCHANGED <<dbVars, progress>>
<1>1. /\ install \in [Process -> InstallPlace] /\ attempt \in [Process -> 0 .. MaxRetry]
      /\ MaxRetry \in Nat
  BY DeployAssumption DEF DBTypeOK, InstallPlace
<1>2. install' = [install EXCEPT ![p] = install'[p]] /\ install'[p] \in {"ensure", "failed"}
  BY <1>1 DEF Raise, Goto
<1>3. attempt' \in [Process -> 0 .. MaxRetry]
  BY <1>1 DEF Raise
<1>4. QED
  BY <1>2, <1>3 DEF Raise

LEMMA DatabaseTyped ==
    ASSUME DBTypeOK, [Next]_vars
    PROVE  DBTypeOK'
<1>t. /\ install \in [Process -> InstallPlace] /\ attempt \in [Process -> 0 .. MaxRetry]
      /\ progress \in [Process -> 0 .. NumTables] /\ tables \subseteq 1 .. NumTables
      /\ NumTables \in Nat \ {0} /\ MaxRetry \in Nat \ {0}
  BY DeployAssumption DEF DBTypeOK, InstallPlace
<1>f. faults' \in 0 .. MaxFaults
  BY FaultsGrow DEF DBTypeOK
<1>1. ASSUME NEW p \in Process, InstallStep(p) PROVE DBTypeOK'
  <2>1. CASE Raise(p)
    BY <1>t, <1>f, <2>1, RaiseFacts DEF DBTypeOK, InstallPlace
  <2>2. CASE CreateTable(p)
    <3>1. progress[p] \in 0 .. NumTables /\ progress[p] < NumTables
      BY <1>t, <2>2 DEF CreateTable
    <3>2. progress[p] + 1 \in 0 .. NumTables /\ progress[p] + 1 \in 1 .. NumTables
      BY <1>t, <3>1
    <3>3. tables' \subseteq 1 .. NumTables
      BY <1>t, <2>2, <3>2 DEF CreateTable
    <3>4. progress' \in [Process -> 0 .. NumTables]
      BY <1>t, <2>2, <3>2 DEF CreateTable
    <3>5. QED
      BY <1>f, <2>2, <3>3, <3>4 DEF CreateTable, DBTypeOK
  <2>3. CASE Stamp(p) \/ MigrationFails(p) \/ InsertAdmin(p) \/ InstallKilled(p)
    <3>1. install' \in [Process -> InstallPlace]
      BY <1>t, <2>3 DEF Stamp, MigrationFails, InsertAdmin, InstallKilled, Goto, InstallPlace
    <3>2. stamped' = TRUE \/ UNCHANGED stamped
      BY <2>3 DEF Stamp, MigrationFails, InsertAdmin, InstallKilled
    <3>3. admin' = 1 \/ UNCHANGED admin
      BY <2>3 DEF Stamp, MigrationFails, InsertAdmin, InstallKilled
    <3>4. UNCHANGED <<server, exists, tables, attempt, progress>>
      BY <2>3 DEF Stamp, MigrationFails, InsertAdmin, InstallKilled
    <3>5. stamped' \in BOOLEAN
      BY <3>2 DEF DBTypeOK
    <3>6. admin' \in 0 .. 1
      BY <3>3 DEF DBTypeOK
    <3>7. QED
      BY <1>f, <3>1, <3>4, <3>5, <3>6 DEF DBTypeOK, InstallPlace
  <2>4. CASE ~Raise(p) /\ (FindDatabase(p) \/ CreateDatabase(p))
    BY <1>t, <1>f, <2>4 DEF FindDatabase, CreateDatabase, Goto, DBTypeOK, InstallPlace
  <2>5. QED
    BY <1>1, <2>1, <2>2, <2>3, <2>4
       DEF InstallStep, DatabaseFails, AdminConnectFails
<1>2. ASSUME NEW p \in Process, ShellStep(p) PROVE DBTypeOK'
  <2>1. CASE InitDB(p)
    BY <1>t, <1>f, <2>1 DEF InitDB, Goto, DBTypeOK, InstallPlace
  <2>2. CASE RemoveMySQL(p) \/ RunMySQL(p) \/ UNCHANGED <<dbVars, installVars>>
    <3>1. CASE RemoveMySQL(p)
      <4>1. /\ server' = FALSE /\ exists' = FALSE /\ tables' = {} /\ stamped' = FALSE /\ admin' = 0
            /\ UNCHANGED installVars
        BY <3>1 DEF RemoveMySQL
      <4>2. server' \in BOOLEAN /\ exists' \in BOOLEAN /\ stamped' \in BOOLEAN
        BY <4>1
      <4>3. tables' \subseteq 1 .. NumTables
        BY <4>1
      <4>4. admin' \in 0 .. 1
        BY <4>1
      <4>5. QED
        BY <1>f, <4>1, <4>2, <4>3, <4>4 DEF DBTypeOK
    <3>2. CASE RunMySQL(p)
      <4>1. server' = TRUE /\ exists' = TRUE /\ UNCHANGED <<tables, stamped, admin, installVars>>
        BY <3>2 DEF RunMySQL
      <4>2. server' \in BOOLEAN /\ exists' \in BOOLEAN
        BY <4>1
      <4>3. QED
        BY <1>f, <4>1, <4>2 DEF DBTypeOK
    <3>3. CASE UNCHANGED <<dbVars, installVars>>
      BY <1>f, <3>3 DEF DBTypeOK
    <3>4. QED
      BY <2>2, <3>1, <3>2, <3>3
  <2>3. QED
    BY <1>2, <2>1, <2>2, ShellOnDatabase
<1>3. CASE UNCHANGED <<dbVars, installVars, script>>
  BY <1>3, <1>f DEF DBTypeOK
<1>4. QED
  BY <1>1, <1>2, <1>3, StepsOnDatabase

--------------------------------------------------------------------------------
(***************************************************************************)
(* One migrator.  A host is in one of two situations for good.  Either the *)
(* server was there from the beginning: then no script ever removes it, a  *)
(* database that exists stays, and only the process that created it gets   *)
(* past ensure_database_exists.  Or a script has brought the server up, or *)
(* is about to: then what an old container held is removed before, the     *)
(* image creates the schema with the server, and no initDB gets past       *)
(* ensure_database_exists at all.                                          *)
(***************************************************************************)
Established == server /\ \A p \in Process : script[p] \notin {"remove", "run"}

NotBegun(p) == install[p] \in {"idle", "ensure", "failed", "killed"} /\ progress[p] = 0

Fresh ==
    /\ server => exists
    /\ ~exists \/ server \/ (\E p \in Process : script[p] = "run") => tables = {}
    /\ \A p \in Process : NotBegun(p)

\* Nothing has been made where there is no database.
NothingBefore ==
    ~exists => /\ tables = {}
               /\ \A p \in Process : /\ install[p] \notin {"migrate", "admin", "installed"}
                                     /\ progress[p] = 0

\* Past its migration a process has the whole schema.
WholeAfter ==
    \A p \in Process : install[p] \in {"admin", "installed"} => tables = 1 .. NumTables /\ stamped

SchemaInv ==
    /\ DBTypeOK
    /\ script \in [Process -> ScriptLine]
    /\ Established \/ Fresh
    /\ NothingBefore
    /\ OneMigrator
    /\ WholeAfter

LEMMA SchemaInit == Init => SchemaInv
<1> SUFFICES ASSUME Init PROVE SchemaInv
  OBVIOUS
<1>1. DBTypeOK
  <2>1. server \in BOOLEAN /\ exists \in BOOLEAN /\ stamped \in BOOLEAN
    BY DEF Init, DBInit
  <2>2. tables = {} \/ tables = 1 .. NumTables
    BY DEF Init, DBInit
  <2>3. admin = 0 \/ admin = 1
    BY DEF Init, DBInit
  <2>4. tables \subseteq 1 .. NumTables
    BY <2>2
  <2>5. admin \in 0 .. 1
    BY <2>3
  <2>6. QED
    BY <2>1, <2>4, <2>5, DeployAssumption DEF Init, DBInit, DBTypeOK
<1>2. script \in [Process -> ScriptLine]
  BY DEF Init, ScriptLine
<1>3. Established \/ Fresh
  <2>1. CASE server
    BY <2>1 DEF Init, Established
  <2>2. CASE ~server
    <3>1. ~exists => tables = {}
      BY DEF Init, DBInit
    <3>2. \A p \in Process : NotBegun(p) /\ script[p] # "run"
      BY DEF Init, DBInit, NotBegun
    <3>3. QED
      BY <2>2, <3>1, <3>2 DEF Fresh
  <2>3. QED
    BY <2>1, <2>2
<1>4. NothingBefore /\ OneMigrator /\ WholeAfter
  BY DEF Init, DBInit, NothingBefore, OneMigrator, WholeAfter
<1>5. QED
  BY <1>1, <1>2, <1>3, <1>4 DEF SchemaInv

LEMMA ScriptTyped ==
    ASSUME script \in [Process -> ScriptLine], [Next]_vars
    PROVE  script' \in [Process -> ScriptLine]
<1>1. ASSUME NEW p \in Process, ShellStep(p) PROVE script' \in [Process -> ScriptLine]
  BY <1>1 DEF ShellStep, DeploySh, CheckMySQL, RemoveMySQL, RunMySQL, LoadBaseImage,
              LoadBaseImageFails, RunInitDB, InitDBEnded, RunStart, Connect, StartEnded,
              NextLine, ScriptLine
<1>2. QED
  BY <1>1, StepsOnDatabase

\* A server that is there is not removed.
LEMMA StaysEstablished ==
    ASSUME SchemaInv, Established, [Next]_vars
    PROVE  /\ Established'
           /\ ~ \E p \in Process : RemoveMySQL(p) \/ RunMySQL(p)
<1>t. script \in [Process -> ScriptLine] /\ server
  BY DEF SchemaInv, Established
<1>1. ~ \E p \in Process : RemoveMySQL(p) \/ RunMySQL(p)
  BY DEF Established, RemoveMySQL, RunMySQL
<1>2. ASSUME NEW p \in Process, ShellStep(p)
      PROVE  /\ server' = server
             /\ \A q \in Process : script'[q] \in {script[q]} \cup (ScriptLine \ {"remove", "run"})
  <2>1. CASE CheckMySQL(p)
    BY <1>t, <2>1 DEF CheckMySQL, NextLine, ScriptLine
  <2>2. CASE DeploySh(p) \/ LoadBaseImage(p) \/ LoadBaseImageFails(p) \/ RunInitDB(p)
    BY <1>t, <2>2 DEF DeploySh, LoadBaseImage, LoadBaseImageFails, RunInitDB, InitDB,
                      NextLine, ScriptLine
  <2>3. CASE InitDBEnded(p) \/ RunStart(p) \/ Connect(p) \/ StartEnded(p)
    BY <1>t, <2>3 DEF InitDBEnded, RunStart, Connect, StartEnded, NextLine, ScriptLine
  <2>4. QED
    BY <1>1, <1>2, <2>1, <2>2, <2>3 DEF ShellStep
<1>3. ASSUME NEW p \in Process, InstallStep(p) PROVE server' = server
  BY <1>3 DEF InstallStep, FindDatabase, CreateDatabase, DatabaseFails, CreateTable, Stamp,
              MigrationFails, InsertAdmin, AdminConnectFails, InstallKilled, Raise
<1>4. Established'
  BY <1>2, <1>3, StepsOnDatabase DEF Established
<1>5. QED
  BY <1>1, <1>4

\* A step of one process' initDB, for the three parts of the invariant that
\* speak of processes.
LEMMA InstallKeepsSchema ==
    ASSUME SchemaInv, NEW p \in Process, InstallStep(p)
    PROVE  NothingBefore' /\ OneMigrator' /\ WholeAfter'
<1>t. /\ install \in [Process -> InstallPlace] /\ progress \in [Process -> 0 .. NumTables]
      /\ NumTables \in Nat \ {0} /\ tables \subseteq 1 .. NumTables
      /\ NothingBefore /\ OneMigrator /\ WholeAfter
  BY DeployAssumption DEF SchemaInv, DBTypeOK, InstallPlace
<1> USE DEF NothingBefore, OneMigrator, WholeAfter
<1>1. CASE \* leaves initDB or begins it anew
           /\ install' = [install EXCEPT ![p] = install'[p]]
           /\ install'[p] \in {"ensure", "create", "failed", "exited", "killed"}
           /\ UNCHANGED <<dbVars, progress>>
  BY <1>t, <1>1
<1>2. CASE CreateDatabase(p) /\ ~Raise(p)
  <2>1. /\ ~exists /\ exists' = TRUE /\ tables = {} /\ progress[p] = 0
        /\ install' = [install EXCEPT ![p] = "migrate"]
        /\ UNCHANGED <<tables, stamped, progress>>
    BY <1>t, <1>2 DEF CreateDatabase, Goto
  <2>2. QED
    BY <1>t, <2>1
<1>3. CASE CreateTable(p)
  <2>1. /\ install[p] = "migrate" /\ progress[p] < NumTables /\ tables = 1 .. progress[p]
        /\ tables' = tables \cup {progress[p] + 1}
        /\ progress' = [progress EXCEPT ![p] = progress[p] + 1]
        /\ UNCHANGED <<install, exists, stamped>>
    BY <1>t, <1>3 DEF CreateTable
  <2>2. tables' = 1 .. progress'[p] /\ exists
    BY <1>t, <2>1
  <2>3. \A q \in Process : install[q] \notin {"admin", "installed"}
    BY <1>t, <2>1
  <2>4. QED
    BY <1>t, <2>1, <2>2, <2>3
<1>4. CASE Stamp(p)
  BY <1>t, <1>4 DEF Stamp, Goto
<1>5. CASE InsertAdmin(p)
  BY <1>t, <1>5 DEF InsertAdmin, Goto
<1>6. CASE MigrationFails(p) \/ InstallKilled(p) \/ (FindDatabase(p) /\ ~Raise(p))
  BY <1>t, <1>1, <1>6 DEF MigrationFails, InstallKilled, FindDatabase, Goto
<1>7. CASE Raise(p)
  BY <1>1, <1>7, RaiseFacts DEF SchemaInv
<1>8. QED
  BY <1>2, <1>3, <1>4, <1>5, <1>6, <1>7
     DEF InstallStep, DatabaseFails, AdminConnectFails

\* Only what has just removed the container runs a new one.
LEMMA RunAfterRemove ==
    ASSUME script \in [Process -> ScriptLine], NEW p \in Process, ShellStep(p), ~RemoveMySQL(p)
    PROVE  \A q \in Process : script'[q] = "run" => script[q] = "run"
BY DEF ShellStep, DeploySh, CheckMySQL, RunMySQL, LoadBaseImage, LoadBaseImageFails, RunInitDB,
       InitDBEnded, RunStart, Connect, StartEnded, NextLine, ScriptLine

\* On a host without its own server nothing is ever installed.
LEMMA StaysFresh ==
    ASSUME SchemaInv, Fresh, [Next]_vars
    PROVE  Fresh'
<1>t. /\ install \in [Process -> InstallPlace] /\ progress \in [Process -> 0 .. NumTables]
      /\ script \in [Process -> ScriptLine]
  BY DEF SchemaInv, DBTypeOK, InstallPlace
<1>1. ASSUME NEW p \in Process, InstallStep(p), UNCHANGED script PROVE Fresh'
  <2>1. install[p] = "ensure"
    BY <1>1 DEF InstallStep, Fresh, NotBegun, FindDatabase, CreateDatabase, DatabaseFails,
                CreateTable, Stamp, MigrationFails, InsertAdmin, AdminConnectFails, InstallKilled
  <2>2. Raise(p) \/ InstallKilled(p)
    BY <1>1, <2>1 DEF InstallStep, Fresh, FindDatabase, CreateDatabase, DatabaseFails,
                CreateTable, Stamp, MigrationFails, InsertAdmin, AdminConnectFails
  <2>3. CASE Raise(p)
    BY <1>t, <1>1, <2>3, RaiseFacts DEF SchemaInv, Fresh, NotBegun
  <2>4. CASE InstallKilled(p)
    BY <1>t, <1>1, <2>4 DEF InstallKilled, Goto, Fresh, NotBegun
  <2>5. QED
    BY <2>2, <2>3, <2>4
<1>2. ASSUME NEW p \in Process, ShellStep(p) PROVE Fresh'
  <2>1. CASE RemoveMySQL(p)
    BY <2>1 DEF RemoveMySQL, Fresh, NotBegun
  <2>2. CASE RunMySQL(p)
    BY <2>2 DEF RunMySQL, Fresh, NotBegun
  <2>3. ASSUME ~RemoveMySQL(p), UNCHANGED dbVars, \A q \in Process : NotBegun(q)' PROVE Fresh'
    <3>1. \A q \in Process : script'[q] = "run" => script[q] = "run"
      BY <1>t, <1>2, <2>3, RunAfterRemove
    <3>2. QED
      BY <2>3, <3>1 DEF Fresh
  <2>4. CASE InitDB(p)
    <3>1. \A q \in Process : NotBegun(q)'
      BY <1>t, <2>4 DEF InitDB, Goto, Fresh, NotBegun
    <3>2. QED
      BY <2>1, <2>3, <2>4, <3>1 DEF InitDB
  <2>5. CASE UNCHANGED <<dbVars, installVars>>
    BY <2>1, <2>3, <2>5 DEF Fresh, NotBegun
  <2>6. QED
    BY <1>2, <2>1, <2>2, <2>4, <2>5, ShellOnDatabase
<1>3. CASE UNCHANGED <<dbVars, installVars, script>>
  BY <1>3 DEF Fresh, NotBegun
<1>4. QED
  BY <1>1, <1>2, <1>3, StepsOnDatabase

LEMMA SchemaKept == SchemaInv /\ [Next]_vars => SchemaInv'
<1> SUFFICES ASSUME SchemaInv, [Next]_vars PROVE SchemaInv'
  OBVIOUS
<1>1. DBTypeOK' /\ script' \in [Process -> ScriptLine]
  BY DatabaseTyped, ScriptTyped DEF SchemaInv
<1>2. Established' \/ Fresh'
  BY StaysEstablished, StaysFresh DEF SchemaInv
<1>3. NothingBefore' /\ OneMigrator' /\ WholeAfter'
  <2>1. CASE Fresh'
    BY <2>1 DEF Fresh, NotBegun, NothingBefore, OneMigrator, WholeAfter
  <2>2. CASE Established /\ \E p \in Process : ShellStep(p)
    <3>1. PICK p \in Process : ShellStep(p)
      BY <2>2
    <3>2. InitDB(p) \/ UNCHANGED <<dbVars, installVars>>
      BY <2>2, <3>1, ShellOnDatabase, StaysEstablished
    <3>3. install \in [Process -> InstallPlace]
      BY DEF SchemaInv, DBTypeOK, InstallPlace
    <3>4. QED
      BY <3>2, <3>3 DEF SchemaInv, InitDB, Goto, NothingBefore, OneMigrator, WholeAfter
  <2>3. CASE \E p \in Process : InstallStep(p)
    BY <2>3, InstallKeepsSchema
  <2>4. CASE UNCHANGED <<dbVars, installVars, script>>
    BY <2>4 DEF SchemaInv, NothingBefore, OneMigrator, WholeAfter
  <2>5. QED
    BY <2>1, <2>2, <2>3, <2>4, StepsOnDatabase, StaysFresh DEF SchemaInv
<1>4. QED
  BY <1>1, <1>2, <1>3 DEF SchemaInv

LEMMA SchemaAlways == Spec => []SchemaInv
BY SchemaInit, SchemaKept, PTL DEF Spec

(***************************************************************************)
(* ensure_database_exists lets one process migrate, and alembic finds the  *)
(* tables it has made itself and no others, however many shells run initDB *)
(* or deploy.sh at once, whatever fails and whoever is killed.             *)
(***************************************************************************)
THEOREM OneProcessMigrates == Spec => []OneMigrator
<1>1. SchemaInv => OneMigrator
  BY DEF SchemaInv
<1>2. QED
  BY <1>1, SchemaAlways, PTL

(***************************************************************************)
(* initDB ends in success only over the complete, stamped schema, after    *)
(* any number of attempts and whatever other processes did meanwhile.      *)
(***************************************************************************)
THEOREM InitDBInstallsSchema == Spec => []InstalledMeansSchema
<1>1. SchemaInv => InstalledMeansSchema
  BY DEF SchemaInv, WholeAfter, InstalledMeansSchema
<1>2. QED
  BY <1>1, SchemaAlways, PTL

--------------------------------------------------------------------------------
(***************************************************************************)
(* The daemons, the PID file, the compose file and the container.          *)
(***************************************************************************)
StartPlace == {"idle", "connect", "check_service", "verify", "down", "up", "check_daemon",
               "daemonize", "write_pid", "bind", "serving", "deaf", "exiting", "exited",
               "done", "failed", "killed"}

UpgradePlace == {"none", "lock", "load", "read", "truncate", "write", "down",
                 "up", "done", "not_written", "not_taken_down", "raised"}

UpgradeThread == [at : UpgradePlace, daemon : Process \cup {NoProcess},
                  package : [named : Nat, image : Nat \ {0}]]

\* A step of start in one process, by hand or from the script.
StartMove(p) ==
    \/ \E works \in BOOLEAN : EnableCoreDump(p, works)
    \/ \E reachable \in BOOLEAN : CheckConnections(p, reachable)
    \/ StartStep(p)
    \/ StartDies(p)

UpgradeMove(u) == UpgradeStep(u) \/ UpgradeFails(u) \/ \E package \in Packages : Post(u, package)

LoadImages ==
    /\ images' = images \cup {Base} \/ LoadComposeImage
    /\ UNCHANGED <<compose, service, pidFile, start, upgrade>>

LEMMA StepsOnDaemons ==
    ASSUME [Next]_vars
    PROVE  \/ \E p \in Process : StartMove(p)
           \/ \E u \in Upgrade : UpgradeMove(u)
           \/ LoadImages
           \/ UNCHANGED daemonVars
<1>1. ASSUME NEW p \in Process, ShellStep(p)
      PROVE  StartMove(p) \/ LoadImages \/ UNCHANGED daemonVars
  BY <1>1 DEF ShellStep, DeploySh, CheckMySQL, RemoveMySQL, RunMySQL, LoadBaseImage,
              LoadBaseImageFails, RunInitDB, InitDBEnded, RunStart, Connect, StartEnded,
              StartMove, LoadImages
<1>2. LoadByHand => LoadImages
  BY DEF LoadByHand, LoadComposeImage, LoadImages
<1>3. QED
  BY <1>1, <1>2 DEF Next, vars, ThreadStep, StartMove, UpgradeMove

\* What such a step does to the places and to what is shared.
LEMMA StartFacts ==
    ASSUME NEW p \in Process, start \in [Process -> StartPlace], StartMove(p)
    PROVE  /\ start' = [start EXCEPT ![p] = start'[p]]
           /\ start'[p] \in StartPlace \ {"idle"}
           /\ UNCHANGED <<compose, images, upgrade>>
           /\ service' \in {service, 0} \/ (CanComeUp /\ service' = compose)
           /\ start[p] \notin {"exited", "killed"}
<1> USE DEF GoOn, StartPlace
<1>1. CASE \/ \E works \in BOOLEAN : EnableCoreDump(p, works)
           \/ \E reachable \in BOOLEAN : CheckConnections(p, reachable)
  BY <1>1 DEF EnableCoreDump, CheckConnections
<1>2. CASE CheckService(p) \/ StartDown(p) \/ StartUp(p) \/ Bind(p) \/ Terminate(p)
  BY <1>2 DEF CheckService, StartDown, StartUp, Bind, Terminate
<1>3. CASE CheckDaemon(p)
  BY <1>3 DEF CheckDaemon
<1>4. CASE WritePid(p) \/ Exit(p) \/ StartDies(p)
  BY <1>4 DEF WritePid, Exit, StartDies
<1>5. QED
  BY <1>1, <1>2, <1>3, <1>4 DEF StartMove, StartStep

\* Who writes the PID file, and where a daemon goes.
LEMMA PidFacts ==
    ASSUME NEW p \in Process, start \in [Process -> StartPlace], StartMove(p)
    PROVE  \/ pidFile' = p /\ Live(p)' /\ ~Live(p)
           \/ pidFile' = NoProcess /\ start'[p] = "exited"
           \/ pidFile' = pidFile /\ (Live(p) => Live(p)' \/ start'[p] = "killed")
                                 /\ (Live(p)' => Live(p))
<1> USE DEF GoOn, StartPlace, Live
<1>1. CASE \/ \E works \in BOOLEAN : EnableCoreDump(p, works)
           \/ \E reachable \in BOOLEAN : CheckConnections(p, reachable)
  BY <1>1 DEF EnableCoreDump, CheckConnections
<1>2. CASE CheckService(p) \/ StartDown(p) \/ StartUp(p) \/ Bind(p) \/ Terminate(p)
  BY <1>2 DEF CheckService, StartDown, StartUp, Bind, Terminate
<1>3. CASE CheckDaemon(p)
  BY <1>3 DEF CheckDaemon
<1>4. CASE WritePid(p) \/ Exit(p) \/ StartDies(p)
  BY <1>4 DEF WritePid, Exit, StartDies
<1>5. QED
  BY <1>1, <1>2, <1>3, <1>4 DEF StartMove, StartStep

PidInv ==
    /\ start \in [Process -> StartPlace]
    /\ pidFile \in Process \cup {NoProcess}
    /\ PidFileTruth

LEMMA PidInit == Init => PidInv
BY DEF Init, UDInit, PidInv, StartPlace, PidFileTruth, Live

LEMMA PidKept == PidInv /\ [Next]_vars => PidInv'
<1> SUFFICES ASSUME PidInv, [Next]_vars PROVE PidInv'
  OBVIOUS
<1>t. start \in [Process -> StartPlace] /\ pidFile \in Process \cup {NoProcess}
  BY DEF PidInv
<1>1. ASSUME NEW p \in Process, StartMove(p) PROVE PidInv'
  <2>1. /\ start' = [start EXCEPT ![p] = start'[p]]
        /\ start' \in [Process -> StartPlace]
        /\ start[p] \notin {"exited", "killed"}
        /\ \A q \in Process \ {p} : start'[q] = start[q]
    BY <1>t, <1>1, StartFacts
  <2>2. \A q \in Process \ {p} : Live(q)' <=> Live(q)
    BY <2>1 DEF Live
  <2>3. CASE pidFile' = p /\ Live(p)' /\ ~Live(p)
    BY <1>t, <2>1, <2>3, NoProcessAssumption DEF PidInv, PidFileTruth
  <2>4. CASE pidFile' = NoProcess /\ start'[p] = "exited"
    <3>1. ~Live(p)'
      BY <2>4 DEF Live
    <3>2. QED
      BY <1>t, <2>1, <2>4, <3>1 DEF PidInv, PidFileTruth
  <2>5. CASE /\ pidFile' = pidFile /\ (Live(p) => Live(p)' \/ start'[p] = "killed")
             /\ Live(p)' => Live(p)
    <3>1. ASSUME pidFile # NoProcess, ~Live(pidFile)' PROVE start'[pidFile] = "killed"
      <4>1. CASE pidFile = p
        <5>1. Live(p) \/ start[p] = "killed"
          BY <3>1, <4>1 DEF PidInv, PidFileTruth, Live
        <5>2. QED
          BY <2>1, <2>5, <3>1, <4>1, <5>1 DEF Live
      <4>2. CASE pidFile # p
        BY <1>t, <2>1, <2>5, <3>1, <4>2 DEF PidInv, PidFileTruth, Live
      <4>3. QED
        BY <4>1, <4>2
    <3>2. ASSUME NEW q \in Process, Live(q)', pidFile = NoProcess
          PROVE  \E r \in Process \ {q} : start'[r] = "exited"
      <4>1. Live(q)
        BY <2>2, <2>5, <3>2
      <4>2. PICK r \in Process \ {q} : start[r] = "exited"
        BY <3>2, <4>1 DEF PidInv, PidFileTruth
      <4>3. QED
        BY <2>1, <4>2
    <3>3. PidFileTruth'
      BY <2>5, <3>1, <3>2 DEF PidFileTruth
    <3>4. QED
      BY <1>t, <2>1, <2>5, <3>3 DEF PidInv
  <2>6. QED
    BY <1>t, <1>1, <2>3, <2>4, <2>5, PidFacts
<1>2. ASSUME NEW u \in Upgrade, UpgradeMove(u) PROVE UNCHANGED <<start, pidFile>>
  BY <1>2 DEF UpgradeMove, UpgradeStep, Lock, LoadImage, ReadCompose, TruncateCompose,
              WriteCompose, UpgradeDown, UpgradeUp, UpgradeFails, Post
<1>3. CASE UNCHANGED <<start, pidFile>>
  BY <1>3 DEF PidInv, PidFileTruth, Live
<1>4. QED
  BY <1>1, <1>2, <1>3, StepsOnDaemons DEF LoadImages

(***************************************************************************)
(* The PID file tells the truth as far as the code can make it: a dead     *)
(* process in it was killed, and a daemon it does not name has lost it to  *)
(* another daemon's exit, for any number of shells that run start.         *)
(***************************************************************************)
THEOREM PidFileTellsTruth == Spec => []PidFileTruth
<1>1. PidInv => PidFileTruth
  BY DEF PidInv
<1>2. QED
  BY <1>1, PidInit, PidKept, PTL DEF Spec

--------------------------------------------------------------------------------
(***************************************************************************)
(* The compose file and the container.  An upgrade that is about to write  *)
(* a version has loaded the image of its package before and knows that the *)
(* name was understood; so whoever empties the file can fill it.           *)
(***************************************************************************)
UpgradeFits(u) ==
    /\ upgrade[u].at # "none" => upgrade[u].daemon \in Process /\ upgrade[u].package \in Packages
    /\ upgrade[u].at \in {"read", "truncate", "write"} => upgrade[u].package.image \in images
    /\ upgrade[u].at \in {"truncate", "write"} => upgrade[u].package.named # 0

DockerTypeOK ==
    /\ compose \in Nat /\ images \subseteq Nat \ {0} /\ service \in images \cup {0}
    /\ upgrade \in [Upgrade -> UpgradeThread]

DockerInv ==
    /\ DockerTypeOK
    /\ \A u \in Upgrade : UpgradeFits(u)
    /\ ComposeUsable
    /\ RunsWhatComposeNames

LEMMA DockerInit == Init => DockerInv
<1> SUFFICES ASSUME Init PROVE DockerInv
  OBVIOUS
<1>1. /\ compose = Base /\ images = {} /\ service = 0
      /\ upgrade = [u \in Upgrade |->
            [at |-> "none", daemon |-> NoProcess, package |-> [named |-> 0, image |-> 1]]]
  BY DEF Init, UDInit
<1>2. DockerTypeOK
  BY <1>1 DEF DockerTypeOK, UpgradeThread, UpgradePlace, Base
<1>3. \A u \in Upgrade : UpgradeFits(u)
  BY <1>1 DEF UpgradeFits
<1>4. ComposeUsable /\ RunsWhatComposeNames
  BY <1>1 DEF ComposeUsable, RunsWhatComposeNames, Base
<1>5. QED
  BY <1>2, <1>3, <1>4 DEF DockerInv

\* A thread that goes on keeps its daemon and its package, the others stay.
LEMMA ThreadGoesOn ==
    ASSUME upgrade \in [Upgrade -> UpgradeThread], NEW u \in Upgrade, NEW place \in UpgradePlace,
           GoOnUpgrade(u, place)
    PROVE  /\ upgrade' \in [Upgrade -> UpgradeThread]
           /\ upgrade'[u].at = place
           /\ upgrade'[u].daemon = upgrade[u].daemon
           /\ upgrade'[u].package = upgrade[u].package
           /\ \A v \in Upgrade \ {u} : upgrade'[v] = upgrade[v]
BY DEF GoOnUpgrade, UpgradeThread

\* It fits at its new place, and images are never unloaded.
LEMMA FitsKept ==
    ASSUME DockerInv, NEW u \in Upgrade, images \subseteq images', UpgradeFits(u)',
           \A v \in Upgrade \ {u} : upgrade'[v] = upgrade[v]
    PROVE  \A v \in Upgrade : UpgradeFits(v)'
BY DEF DockerInv, UpgradeFits

\* The upgrade is why the file is empty, or why the old container runs.
ToBlame(at) ==
    CASE at \in {"write", "not_written"} -> "file"
      [] at \in {"down", "not_taken_down"} -> "container"
      [] OTHER -> "nothing"

\* The steps of an upgrade that leave docker alone, and do not end its
\* responsibility for an empty file or an old container.
LEMMA QuietStep ==
    ASSUME DockerInv, NEW u \in Upgrade, upgrade' \in [Upgrade -> UpgradeThread],
           \A v \in Upgrade \ {u} : upgrade'[v] = upgrade[v],
           ToBlame(upgrade[u].at) # "nothing" =>
              /\ ToBlame(upgrade'[u].at) = ToBlame(upgrade[u].at)
              /\ upgrade'[u].package = upgrade[u].package,
           UpgradeFits(u)',
           UNCHANGED <<compose, images, service>>
    PROVE  DockerInv'
<1>1. DockerTypeOK' /\ \A v \in Upgrade : UpgradeFits(v)'
  BY FitsKept DEF DockerInv, DockerTypeOK
<1>2. ComposeUsable'
  BY DEF DockerInv, ComposeUsable, ToBlame
<1>3. RunsWhatComposeNames'
  BY DEF DockerInv, RunsWhatComposeNames, ToBlame
<1>4. QED
  BY <1>1, <1>2, <1>3 DEF DockerInv

LEMMA UpgradeKeepsDocker ==
    ASSUME DockerInv, NEW u \in Upgrade, UpgradeMove(u)
    PROVE  DockerInv'
<1>t. /\ compose \in Nat /\ images \subseteq Nat \ {0} /\ service \in images \cup {0}
      /\ upgrade \in [Upgrade -> UpgradeThread] /\ upgrade[u] \in UpgradeThread
      /\ upgrade[u].package.named \in Nat /\ upgrade[u].package.image \in Nat \ {0}
      /\ UpgradeFits(u)
  BY DEF DockerInv, DockerTypeOK, UpgradeThread
<1>1. CASE Lock(u) \/ ReadCompose(u) \/ UpgradeFails(u)
  <2>1. UNCHANGED dockerVars
    BY <1>1 DEF Lock, ReadCompose, UpgradeFails
  <2>2. PICK place \in {"load", "truncate", "raised", "not_written", "not_taken_down"} :
            /\ GoOnUpgrade(u, place)
            /\ place = "truncate" => upgrade[u].at = "read" /\ upgrade[u].package.named # 0
            /\ upgrade[u].at = "write" => place = "not_written"
            /\ upgrade[u].at = "down" => place = "not_taken_down"
            /\ upgrade[u].at \in {"lock", "load", "read", "truncate", "write", "down", "up"}
    BY <1>1 DEF Lock, ReadCompose, UpgradeFails, InUpgrade
  <2>3. /\ upgrade' \in [Upgrade -> UpgradeThread]
        /\ upgrade'[u].at = place
        /\ upgrade'[u].daemon = upgrade[u].daemon
        /\ upgrade'[u].package = upgrade[u].package
        /\ \A v \in Upgrade \ {u} : upgrade'[v] = upgrade[v]
    BY <1>t, <2>2, ThreadGoesOn DEF UpgradePlace
  <2>4. UpgradeFits(u)'
    BY <1>t, <2>1, <2>2, <2>3 DEF UpgradeFits
  <2>5. ToBlame(upgrade[u].at) # "nothing" =>
            /\ ToBlame(upgrade'[u].at) = ToBlame(upgrade[u].at)
            /\ upgrade'[u].package = upgrade[u].package
    BY <2>2, <2>3 DEF ToBlame
  <2>6. UNCHANGED <<compose, images, service>>
    BY <2>1
  <2>7. QED
    BY <2>3, <2>4, <2>5, <2>6, QuietStep
<1>2. CASE \E package \in Packages : Post(u, package)
  <2>1. PICK package \in Packages, p \in Process :
            /\ upgrade[u].at = "none"
            /\ upgrade' = [upgrade EXCEPT ![u] = [at |-> "lock", daemon |-> p, package |-> package]]
            /\ UNCHANGED dockerVars
    BY <1>2 DEF Post
  <2>2. package \in [named : Nat, image : Nat \ {0}]
    BY PackagesAssumption
  <2>3. [at |-> "lock", daemon |-> p, package |-> package] \in UpgradeThread
    BY <2>2 DEF UpgradeThread, UpgradePlace
  <2>4. /\ upgrade' \in [Upgrade -> UpgradeThread]
        /\ upgrade'[u] = [at |-> "lock", daemon |-> p, package |-> package]
        /\ \A v \in Upgrade \ {u} : upgrade'[v] = upgrade[v]
    BY <1>t, <2>1, <2>3
  <2>5. UpgradeFits(u)'
    BY <2>4 DEF UpgradeFits
  <2>6. ToBlame(upgrade[u].at) = "nothing" /\ UNCHANGED <<compose, images, service>>
    BY <2>1 DEF ToBlame
  <2>7. QED
    BY <2>4, <2>5, <2>6, QuietStep
<1>3. CASE LoadImage(u)
  <2>1. /\ upgrade[u].at = "load" /\ GoOnUpgrade(u, "read")
        /\ images' = images \cup {upgrade[u].package.image}
        /\ UNCHANGED <<compose, service>>
    BY <1>3 DEF LoadImage
  <2>2. /\ upgrade' \in [Upgrade -> UpgradeThread]
        /\ upgrade'[u].at = "read"
        /\ upgrade'[u].daemon = upgrade[u].daemon
        /\ upgrade'[u].package = upgrade[u].package
        /\ \A v \in Upgrade \ {u} : upgrade'[v] = upgrade[v]
    BY <1>t, <2>1, ThreadGoesOn DEF UpgradePlace
  <2>3. \A v \in Upgrade : UpgradeFits(v)'
    BY <1>t, <2>1, <2>2, FitsKept DEF UpgradeFits
  <2>4. ComposeUsable' /\ RunsWhatComposeNames'
    BY <2>1, <2>2 DEF DockerInv, ComposeUsable, RunsWhatComposeNames
  <2>5. QED
    BY <1>t, <2>1, <2>2, <2>3, <2>4 DEF DockerInv, DockerTypeOK
<1>4. CASE TruncateCompose(u)
  <2>1. /\ upgrade[u].at = "truncate" /\ GoOnUpgrade(u, "write")
        /\ compose' = 0
        /\ UNCHANGED <<images, service>>
    BY <1>4 DEF TruncateCompose
  <2>2. /\ upgrade' \in [Upgrade -> UpgradeThread]
        /\ upgrade'[u].at = "write"
        /\ upgrade'[u].daemon = upgrade[u].daemon
        /\ upgrade'[u].package = upgrade[u].package
        /\ \A v \in Upgrade \ {u} : upgrade'[v] = upgrade[v]
    BY <1>t, <2>1, ThreadGoesOn DEF UpgradePlace
  <2>3. \A v \in Upgrade : UpgradeFits(v)'
    BY <1>t, <2>1, <2>2, FitsKept DEF UpgradeFits
  <2>4. ComposeUsable' /\ RunsWhatComposeNames'
    BY <2>1, <2>2 DEF ComposeUsable, RunsWhatComposeNames
  <2>5. QED
    BY <1>t, <2>1, <2>2, <2>3, <2>4 DEF DockerInv, DockerTypeOK
<1>5. CASE WriteCompose(u)
  <2>1. /\ upgrade[u].at = "write" /\ GoOnUpgrade(u, "down")
        /\ compose' = upgrade[u].package.named
        /\ UNCHANGED <<images, service>>
    BY <1>5 DEF WriteCompose
  <2>2. /\ upgrade' \in [Upgrade -> UpgradeThread]
        /\ upgrade'[u].at = "down"
        /\ upgrade'[u].daemon = upgrade[u].daemon
        /\ upgrade'[u].package = upgrade[u].package
        /\ \A v \in Upgrade \ {u} : upgrade'[v] = upgrade[v]
    BY <1>t, <2>1, ThreadGoesOn DEF UpgradePlace
  <2>3. \A v \in Upgrade : UpgradeFits(v)'
    BY <1>t, <2>1, <2>2, FitsKept DEF UpgradeFits
  <2>4. /\ upgrade[u].package \in Packages /\ upgrade[u].package.named # 0
        /\ upgrade[u].package.image \in images
    BY <1>t, <2>1 DEF UpgradeFits
  <2>5. ComposeUsable'
    BY <2>1, <2>4 DEF ComposeUsable
  <2>6. RunsWhatComposeNames'
    BY <2>1, <2>2 DEF RunsWhatComposeNames
  <2>7. QED
    BY <1>t, <2>1, <2>2, <2>3, <2>5, <2>6 DEF DockerInv, DockerTypeOK
<1>6. CASE UpgradeDown(u) \/ UpgradeUp(u)
  <2>1. PICK place \in {"up", "done", "raised"} :
            /\ upgrade[u].at \in {"down", "up"} /\ GoOnUpgrade(u, place)
            /\ \/ upgrade[u].at = "down" /\ service' = IF compose # 0 THEN 0 ELSE service
               \/ upgrade[u].at = "up" /\ service' = IF CanComeUp THEN compose ELSE service
            /\ UNCHANGED <<compose, images>>
    BY <1>6 DEF UpgradeDown, UpgradeUp
  <2>2. /\ upgrade' \in [Upgrade -> UpgradeThread]
        /\ upgrade'[u].at = place
        /\ upgrade'[u].daemon = upgrade[u].daemon
        /\ upgrade'[u].package = upgrade[u].package
        /\ \A v \in Upgrade \ {u} : upgrade'[v] = upgrade[v]
    BY <1>t, <2>1, ThreadGoesOn DEF UpgradePlace
  <2>3. \A v \in Upgrade : UpgradeFits(v)'
    BY <1>t, <2>1, <2>2, FitsKept DEF UpgradeFits
  <2>4. ComposeUsable'
    BY <2>1, <2>2 DEF DockerInv, ComposeUsable
  <2>5. RunsWhatComposeNames'
    <3>1. CASE compose = 0
      BY <2>1, <2>2, <2>4, <3>1 DEF ComposeUsable, RunsWhatComposeNames
    <3>2. CASE compose # 0
      BY <2>1, <2>2, <3>2 DEF DockerInv, RunsWhatComposeNames
    <3>3. QED
      BY <3>1, <3>2
  <2>6. service' \in images' \cup {0}
    BY <1>t, <2>1 DEF CanComeUp
  <2>7. QED
    BY <1>t, <2>1, <2>2, <2>3, <2>4, <2>5, <2>6 DEF DockerInv, DockerTypeOK
<1>7. QED
  BY <1>1, <1>2, <1>3, <1>4, <1>5, <1>6 DEF UpgradeMove, UpgradeStep

LEMMA DockerKept ==
    ASSUME DockerInv, start \in [Process -> StartPlace], [Next]_vars
    PROVE  DockerInv'
<1> USE DEF DockerInv, DockerTypeOK, UpgradeFits, ComposeUsable, RunsWhatComposeNames
<1>1. ASSUME NEW p \in Process, StartMove(p) PROVE DockerInv'
  <2>1. /\ UNCHANGED <<compose, images, upgrade>>
        /\ service' \in {service, 0} \/ (CanComeUp /\ service' = compose)
    BY <1>1, StartFacts
  <2>2. service' \in images' \cup {0}
    BY <2>1 DEF CanComeUp
  <2>3. RunsWhatComposeNames'
    <3>1. CASE service' \in {0, compose}
      BY <2>1, <3>1
    <3>2. CASE service' = service
      BY <2>1, <3>2
    <3>3. QED
      BY <2>1, <3>1, <3>2
  <2>4. QED
    BY <2>1, <2>2, <2>3
<1>2. CASE LoadImages
  <2>1. PICK version \in images \cup {1} : images' = images \cup {version}
    BY <1>2 DEF LoadImages, LoadComposeImage, Base
  <2>2. images \subseteq images' /\ images' \subseteq Nat \ {0}
    <3>1. images \subseteq Nat \ {0}
      OBVIOUS
    <3>2. QED
      BY <2>1, <3>1, SMT
  <2>3. UNCHANGED <<compose, service, upgrade>>
    BY <1>2 DEF LoadImages
  <2>4. QED
    BY <2>2, <2>3
<1>3. CASE UNCHANGED daemonVars
  BY <1>3
<1>4. QED
  BY <1>1, <1>2, <1>3, StepsOnDaemons, UpgradeKeepsDocker

LEMMA DockerAlways == Spec => []DockerInv
<1>1. PidInv => start \in [Process -> StartPlace]
  BY DEF PidInv
<1>2. DockerInv /\ PidInv /\ [Next]_vars => DockerInv' /\ PidInv'
  BY <1>1, DockerKept, PidKept
<1>3. QED
  BY <1>2, DockerInit, PidInit, PTL DEF Spec

(***************************************************************************)
(* docker-compose.yml can be brought up, or names the image of the first   *)
(* load or of a misnamed package, or is empty while an upgrade writes it   *)
(* or because one ended there, whichever steps of any number of upgrades   *)
(* by any number of daemons fail.                                          *)
(***************************************************************************)
THEOREM ComposeStaysUsable == Spec => []ComposeUsable
<1>1. DockerInv => ComposeUsable
  BY DEF DockerInv
<1>2. QED
  BY <1>1, DockerAlways, PTL

(***************************************************************************)
(* The container is the one the compose file names, unless the file is     *)
(* empty or the upgrade that wrote the name has not taken the old one down *)
(* yet, or could not.                                                      *)
(***************************************************************************)
THEOREM ServiceRunsWhatComposeNames == Spec => []RunsWhatComposeNames
<1>1. DockerInv => RunsWhatComposeNames
  BY DEF DockerInv
<1>2. QED
  BY <1>1, DockerAlways, PTL

(***************************************************************************)
(* The type invariant of the whole host.                                   *)
(***************************************************************************)
THEOREM DeploymentType == Spec => []DeployTypeOK
<1>1. SchemaInv /\ PidInv /\ DockerInv => DeployTypeOK
  <2> SUFFICES ASSUME SchemaInv, PidInv, DockerInv PROVE DeployTypeOK
    OBVIOUS
  <2>1. \A u \in Upgrade : /\ upgrade[u].at \in UpgradePlace
                           /\ upgrade[u].at # "none" => upgrade[u].daemon \in Process
    BY DEF DockerInv, DockerTypeOK, UpgradeThread, UpgradeFits
  <2>2. QED
    BY <2>1 DEF SchemaInv, PidInv, DockerInv, DockerTypeOK, DeployTypeOK, StartPlace,
                UpgradePlace, ScriptLine
<1>2. PidInv /\ [Next]_vars => PidInv'
  BY PidKept
<1>3. QED
  BY <1>1, <1>2, PidInit, SchemaAlways, DockerAlways, PTL DEF Spec
================================================================================
