--------------------------- MODULE TaskManager_proofs ---------------------------
(***************************************************************************)
(* Proofs about the task table, for every set of ids and clients, every    *)
(* MAX_QUEUE_SIZE and every bound.  The inductive invariant has two parts: *)
(* TableInv, which holds whatever its callers do, and QueueListsTable,     *)
(* which needs that nobody calls remove_task, as in the server.            *)
(***************************************************************************)
EXTENDS TaskManager, SequenceTheorems, TLAPS

TableInv == TMTypeOK /\ TableBounded /\ RefersToLatest

\* A deque below its maxlen just grows.
LEMMA DequeGrows ==
    ASSUME NEW q \in Seq(TaskId), NEW id \in TaskId, Len(q) < MaxQueueSize
    PROVE  DequeAppend(q, id) = Append(q, id)
BY QueueSizeAssumption DEF DequeAppend

\* Stamping with the clock keeps every timestamp a natural number.
LEMMA StampedType ==
    ASSUME NEW time \in [Stamp -> Nat], NEW stamps, clock \in Epoch .. MaxTime
    PROVE  Stamped(time, stamps) \in [Stamp -> Nat]
BY TimeAssumption DEF Stamped

\* The dictionary and the objects after an add_task, before the eviction.
LEMMA InfosAppended ==
    ASSUME TMTypeOK, NEW id \in TaskId, NEW identity \in Client, NEW sn \in Sn,
           NEW configure \in Configure,
           infos' = Append(infos, NewTaskInfo(id, identity, sn, configure))
    PROVE  /\ infos' \in Seq(TaskInfo)
           /\ DOMAIN infos = 1 .. Len(infos)
           /\ DOMAIN infos' = 1 .. Len(infos) + 1
           /\ Len(infos) \in Nat
           /\ \A r \in 1 .. Len(infos) : infos'[r] = infos[r]
           /\ infos'[Len(infos) + 1].task_id = id
<1> DEFINE new == NewTaskInfo(id, identity, sn, configure)
<1>1. new \in TaskInfo /\ new.task_id = id
  BY DEF NewTaskInfo, TaskInfo, Status
<1>2. infos \in Seq(TaskInfo)
  BY DEF TMTypeOK
<1>3. QED
  BY <1>1, <1>2, AppendProperties, LenProperties

\* A step that rewrites fields of one object other than its id leaves every
\* conjunct about ids as it is.
LEMMA ObjectRewritten ==
    ASSUME TableInv, NEW r \in DOMAIN infos, NEW o \in TaskInfo,
           o.task_id = infos[r].task_id,
           infos' = [infos EXCEPT ![r] = o],
           UNCHANGED <<tasks, taskQueue, clock>>
    PROVE  TableInv'
<1>1. /\ infos \in Seq(TaskInfo)
      /\ DOMAIN infos = 1 .. Len(infos)
  BY LenProperties DEF TableInv, TMTypeOK
<1>2. /\ infos' \in Seq(TaskInfo)
      /\ DOMAIN infos' = DOMAIN infos
      /\ \A i \in DOMAIN infos : infos'[i].task_id = infos[i].task_id
  BY <1>1, ExceptSeq, LenProperties
<1>3. TMTypeOK'
  BY <1>2 DEF TableInv, TMTypeOK, IsPresent
<1>4. TableBounded'
  BY DEF TableInv, TableBounded, Present, IsPresent
<1>5. RefersToLatest'
  BY <1>2 DEF TableInv, TMTypeOK, RefersToLatest, IsPresent
<1>6. QED
  BY <1>3, <1>4, <1>5 DEF TableInv

\* add_task, with and without an eviction.
LEMMA AddTaskKeepsTableInv ==
    ASSUME TableInv, NEW id \in TaskId, NEW identity \in Client, NEW sn \in Sn,
           NEW configure \in Configure, AddTask(id, identity, sn, configure)
    PROVE  TableInv'
<1> DEFINE inserted == [tasks EXCEPT ![id] = Len(infos) + 1]
           appended == Append(taskQueue, id)
<1>1. /\ infos' \in Seq(TaskInfo)
      /\ DOMAIN infos = 1 .. Len(infos)
      /\ DOMAIN infos' = 1 .. Len(infos) + 1
      /\ Len(infos) \in Nat
      /\ \A r \in 1 .. Len(infos) : infos'[r] = infos[r]
      /\ infos'[Len(infos) + 1].task_id = id
  BY InfosAppended DEF AddTask, TableInv
<1>2. /\ taskQueue \in Seq(TaskId) /\ tasks \in [TaskId -> Nat]
      /\ Len(taskQueue) \in Nat /\ DOMAIN taskQueue = 1 .. Len(taskQueue)
      /\ Len(taskQueue) < MaxQueueSize
      /\ clock' = clock /\ clock \in Epoch .. MaxTime
  BY LenProperties DEF TableInv, TMTypeOK, TableBounded, AddTask
<1>3. /\ appended \in Seq(TaskId) /\ appended # <<>>
      /\ Len(appended) = Len(taskQueue) + 1
      /\ \A i \in 1 .. Len(taskQueue) : appended[i] = taskQueue[i]
      /\ appended[Len(taskQueue) + 1] = id
      /\ DOMAIN appended = 1 .. Len(taskQueue) + 1
  BY <1>2, AppendProperties, LenProperties
<1>4. DequeAppend(taskQueue, id) = appended
  BY <1>2, DequeGrows
<1>5. \A i \in TaskId : IsPresent(i) => tasks[i] \in 1 .. Len(infos)
  BY <1>1 DEF TableInv, TMTypeOK
<1>6. \A i \in TaskId : IsPresent(i) => \E k \in 1 .. Len(taskQueue) : taskQueue[k] = i
  BY <1>2 DEF TableInv, TableBounded, Present, ToSet
<1>7. /\ inserted \in [TaskId -> Nat]
      /\ inserted[id] = Len(infos) + 1
      /\ \A i \in TaskId \ {id} : inserted[i] = tasks[i]
  BY <1>1, <1>2
<1> HIDE DEF inserted, appended
<1>l. ASSUME \A i \in TaskId : tasks'[i] # NoTask => tasks'[i] = inserted[i]
      PROVE  RefersToLatest'
  <2> SUFFICES ASSUME NEW i \in TaskId, tasks'[i] # NoTask
               PROVE  /\ infos'[tasks'[i]].task_id = i
                      /\ \A r \in DOMAIN infos' : infos'[r].task_id = i => r <= tasks'[i]
    BY DEF RefersToLatest, IsPresent
  <2>1. CASE i = id
    <3>1. tasks'[i] = Len(infos) + 1
      BY <1>l, <1>7, <2>1
    <3>2. QED
      BY <1>1, <2>1, <3>1
  <2>2. CASE i # id
    <3>1. tasks'[i] = tasks[i] /\ IsPresent(i)
      BY <1>l, <1>7, <2>2 DEF IsPresent
    <3>2. /\ tasks[i] \in 1 .. Len(infos)
          /\ infos[tasks[i]].task_id = i
          /\ \A r \in 1 .. Len(infos) : infos[r].task_id = i => r <= tasks[i]
      BY <1>1, <1>5, <3>1 DEF TableInv, RefersToLatest
    <3>3. ASSUME NEW r \in DOMAIN infos', infos'[r].task_id = i
          PROVE  r \in 1 .. Len(infos) /\ infos[r].task_id = i
      BY <1>1, <2>2, <3>3
    <3>4. QED
      BY <1>1, <3>1, <3>2, <3>3
  <2>3. QED
    BY <2>1, <2>2
<1>8. CASE Len(appended) < MaxQueueSize /\ tasks' = inserted /\ taskQueue' = appended
  <2>1. TMTypeOK'
    <3>1. ASSUME NEW i \in TaskId, tasks'[i] # NoTask
          PROVE  tasks'[i] \in DOMAIN infos'
      <4>1. CASE i = id
        BY <1>1, <1>7, <1>8, <4>1
      <4>2. CASE i # id
        BY <1>1, <1>5, <1>7, <1>8, <3>1, <4>2 DEF IsPresent
      <4>3. QED
        BY <4>1, <4>2
    <3>2. QED
      BY <1>1, <1>2, <1>3, <1>7, <1>8, <3>1 DEF TMTypeOK, IsPresent
  <2>2. TableBounded'
    <3>1. ASSUME NEW i \in TaskId, tasks'[i] # NoTask
          PROVE  \E k \in DOMAIN appended : appended[k] = i
      <4>1. CASE i = id
        BY <1>2, <1>3, <4>1
      <4>2. CASE i # id
        <5>1. PICK k \in 1 .. Len(taskQueue) : taskQueue[k] = i
          BY <1>6, <1>7, <1>8, <3>1, <4>2 DEF IsPresent
        <5>2. k \in DOMAIN appended /\ appended[k] = i
          BY <1>2, <1>3, <5>1
        <5>3. QED
          BY <5>2
      <4>3. QED
        BY <4>1, <4>2
    <3>2. QED
      BY <1>8, <3>1 DEF TableBounded, Present, IsPresent, ToSet
  <2>3. RefersToLatest'
    BY <1>l, <1>8
  <2>4. QED
    BY <2>1, <2>2, <2>3 DEF TableInv
<1>9. CASE /\ Len(appended) >= MaxQueueSize
           /\ tasks' = [inserted EXCEPT ![Head(appended)] = NoTask]
           /\ taskQueue' = Tail(appended)
  <2>1. /\ Head(appended) \in TaskId /\ Head(appended) = appended[1]
        /\ taskQueue' \in Seq(TaskId)
        /\ Len(taskQueue') = Len(taskQueue)
        /\ DOMAIN taskQueue' = 1 .. Len(taskQueue)
        /\ \A i \in 1 .. Len(taskQueue) : taskQueue'[i] = appended[i + 1]
    BY <1>3, <1>2, <1>9, HeadTailProperties, LenProperties
  <2>2. /\ tasks' \in [TaskId -> Nat]
        /\ tasks'[Head(appended)] = NoTask
        /\ \A i \in TaskId \ {Head(appended)} : tasks'[i] = inserted[i]
    BY <1>7, <1>9, <2>1 DEF NoTask
  <2>3. TMTypeOK'
    <3>1. ASSUME NEW i \in TaskId, tasks'[i] # NoTask
          PROVE  tasks'[i] \in DOMAIN infos'
      <4>1. i # Head(appended) /\ tasks'[i] = inserted[i]
        BY <2>2, <3>1
      <4>2. CASE i = id
        BY <1>1, <1>7, <4>1, <4>2
      <4>3. CASE i # id
        BY <1>1, <1>5, <1>7, <3>1, <4>1, <4>3 DEF IsPresent
      <4>4. QED
        BY <4>2, <4>3
    <3>2. QED
      BY <1>1, <1>2, <2>1, <2>2, <3>1 DEF TMTypeOK, IsPresent
  <2>4. TableBounded'
    <3>1. ASSUME NEW i \in TaskId, tasks'[i] # NoTask
          PROVE  \E k \in DOMAIN taskQueue' : taskQueue'[k] = i
      <4>1. i # Head(appended) /\ inserted[i] # NoTask
        BY <2>2, <3>1
      <4>2. \E k \in 1 .. Len(taskQueue) + 1 : appended[k] = i
        <5>1. CASE i = id
          BY <1>2, <1>3, <5>1
        <5>2. CASE i # id
          BY <1>2, <1>3, <1>6, <1>7, <4>1, <5>2 DEF IsPresent
        <5>3. QED
          BY <5>1, <5>2
      <4>3. PICK k \in 1 .. Len(taskQueue) + 1 : appended[k] = i
        BY <4>2
      <4>4. k # 1
        BY <2>1, <4>1, <4>3
      <4>5. k - 1 \in 1 .. Len(taskQueue) /\ taskQueue'[k - 1] = appended[k]
        <5>1. k - 1 \in 1 .. Len(taskQueue) /\ (k - 1) + 1 = k
          BY <1>2, <4>4
        <5>2. taskQueue'[k - 1] = appended[(k - 1) + 1]
          BY <2>1, <5>1
        <5>3. QED
          BY <5>1, <5>2
      <4>6. QED
        BY <2>1, <4>3, <4>5
    <3>2. QED
      BY <1>2, <2>1, <3>1 DEF TableBounded, Present, IsPresent, ToSet
  <2>5. RefersToLatest'
    BY <1>l, <2>2
  <2>6. QED
    BY <2>3, <2>4, <2>5 DEF TableInv
<1>10. QED
  BY <1>4, <1>8, <1>9 DEF AddTask, inserted, appended

\* Changing the status and the times of an object leaves its id alone.
LEMMA InfoUpdated ==
    ASSUME NEW info \in TaskInfo, NEW status \in Status, NEW time \in [Stamp -> Nat]
    PROVE  /\ [info EXCEPT !.status = status, !.time = time] \in TaskInfo
           /\ [info EXCEPT !.status = status, !.time = time].task_id = info.task_id
BY DEF TaskInfo

\* update_task_status.
LEMMA UpdateKeepsTableInv ==
    ASSUME TableInv, NEW id \in TaskId, NEW status \in Statuses,
           UpdateTaskStatus(id, status)
    PROVE  TableInv'
<1> DEFINE r == tasks[id]
           o == WithStatus(infos[r], status)
<1>1. CASE IsPresent(id)
  <2>1. r \in DOMAIN infos
    BY <1>1 DEF TableInv, TMTypeOK
  <2>2. infos[r] \in TaskInfo
    BY <2>1, ElementOfSeq, LenProperties DEF TableInv, TMTypeOK
  <2>3. Stamped(infos[r].time, StampsOf(status)) \in [Stamp -> Nat]
    <3>1. infos[r].time \in [Stamp -> Nat] /\ clock \in Epoch .. MaxTime
      BY <2>2 DEF TaskInfo, TableInv, TMTypeOK
    <3>2. QED
      BY <3>1, StampedType
  <2>4. o \in TaskInfo /\ o.task_id = infos[r].task_id
    <3>1. status \in Status
      BY StatusesAssumption
    <3>2. QED
      BY <2>2, <2>3, <3>1, InfoUpdated DEF WithStatus
  <2>5. infos' = [infos EXCEPT ![r] = o]
    BY <1>1 DEF UpdateTaskStatus
  <2> HIDE DEF r, o
  <2>6. QED
    BY <2>1, <2>4, <2>5, ObjectRewritten DEF UpdateTaskStatus
<1>2. CASE ~IsPresent(id)
  BY <1>2 DEF UpdateTaskStatus, TableInv, TMTypeOK, TableBounded, RefersToLatest,
              Present, IsPresent
<1>3. QED
  BY <1>1, <1>2

\* The unlocked writes of process_task.
LEMMA SetProcessTimesKeepsTableInv ==
    ASSUME TableInv, NEW r \in DOMAIN infos, SetProcessTimes(r)
    PROVE  TableInv'
<1> DEFINE o == [infos[r] EXCEPT !.time = Stamped(infos[r].time, {"process_start", "process_end"})]
<1>1. infos[r] \in TaskInfo
  BY ElementOfSeq, LenProperties DEF TableInv, TMTypeOK
<1>2. Stamped(infos[r].time, {"process_start", "process_end"}) \in [Stamp -> Nat]
  <2>1. infos[r].time \in [Stamp -> Nat] /\ clock \in Epoch .. MaxTime
    BY <1>1 DEF TaskInfo, TableInv, TMTypeOK
  <2>2. QED
    BY <2>1, StampedType
<1>3. o \in TaskInfo /\ o.task_id = infos[r].task_id
  BY <1>1, <1>2 DEF TaskInfo
<1>4. infos' = [infos EXCEPT ![r] = o]
  BY DEF SetProcessTimes
<1> HIDE DEF o
<1>5. QED
  BY <1>3, <1>4, ObjectRewritten DEF SetProcessTimes

\* remove_task.
LEMMA RemoveKeepsTableInv ==
    ASSUME TableInv, NEW id \in TaskId, RemoveTask(id)
    PROVE  TableInv'
<1>1. /\ tasks' \in [TaskId -> Nat]
      /\ \A i \in TaskId : tasks'[i] # NoTask => tasks'[i] = tasks[i] /\ IsPresent(i)
  BY DEF RemoveTask, TableInv, TMTypeOK, IsPresent, NoTask
<1>2. UNCHANGED <<infos, taskQueue, clock>>
  BY DEF RemoveTask
<1>3. TMTypeOK'
  BY <1>1, <1>2 DEF TableInv, TMTypeOK, IsPresent
<1>4. TableBounded'
  BY <1>1, <1>2 DEF TableInv, TableBounded, Present, IsPresent
<1>5. RefersToLatest'
  BY <1>1, <1>2 DEF TableInv, RefersToLatest, IsPresent
<1>6. QED
  BY <1>3, <1>4, <1>5 DEF TableInv

\* The clock.
LEMMA TickKeepsTableInv ==
    ASSUME TableInv, Tick
    PROVE  TableInv'
<1>1. clock' \in Epoch .. MaxTime /\ UNCHANGED <<infos, tasks, taskQueue>>
  BY TimeAssumption DEF Tick, TableInv, TMTypeOK
<1>2. QED
  BY <1>1 DEF TableInv, TMTypeOK, TableBounded, RefersToLatest, Present, IsPresent

\* The empty table of __init__.
LEMMA InitTableInv == TMInit => TableInv
<1> SUFFICES ASSUME TMInit PROVE TableInv
  OBVIOUS
<1>1. infos = <<>> /\ taskQueue = <<>> /\ clock = Epoch
  BY DEF TMInit
<1>2. Present = {} /\ \A id \in TaskId : ~IsPresent(id)
  BY DEF TMInit, Present, IsPresent
<1>3. TMTypeOK
  BY <1>1, <1>2, EmptySeq, TimeAssumption DEF TMTypeOK, TMInit, NoTask
<1>4. TableBounded
  BY <1>1, <1>2, QueueSizeAssumption DEF TableBounded
<1>5. RefersToLatest
  BY <1>2 DEF RefersToLatest
<1>6. QED
  BY <1>3, <1>4, <1>5 DEF TableInv

\* Every step of the table keeps the part of the invariant that needs no
\* assumption on the callers.
LEMMA NextKeepsTableInv == TableInv /\ [TMNext]_tmVars => TableInv'
<1> SUFFICES ASSUME TableInv, [TMNext]_tmVars PROVE TableInv'
  OBVIOUS
<1>1. ASSUME NEW id \in TaskId, NEW identity \in Client, NEW sn \in Sn,
             NEW configure \in Configure, AddTask(id, identity, sn, configure)
      PROVE  TableInv'
  BY <1>1, AddTaskKeepsTableInv
<1>2. ASSUME NEW id \in TaskId, NEW status \in Statuses, UpdateTaskStatus(id, status)
      PROVE  TableInv'
  BY <1>2, UpdateKeepsTableInv
<1>3. ASSUME NEW r \in DOMAIN infos, SetProcessTimes(r)
      PROVE  TableInv'
  BY <1>3, SetProcessTimesKeepsTableInv
<1>4. ASSUME NEW id \in Removable, RemoveTask(id)
      PROVE  TableInv'
  BY <1>4, RemoveKeepsTableInv, RemovableAssumption
<1>5. CASE Tick
  BY <1>5, TickKeepsTableInv
<1>6. CASE UNCHANGED tmVars
  BY <1>6 DEF tmVars, TableInv, TMTypeOK, TableBounded, RefersToLatest, Present, IsPresent
<1>7. QED
  BY <1>1, <1>2, <1>3, <1>4, <1>5, <1>6 DEF TMNext

(***************************************************************************)
(* The task table is type correct in every reachable state.                *)
(***************************************************************************)
THEOREM TableType == TMSpec => []TMTypeOK
<1>1. TableInv => TMTypeOK
  BY DEF TableInv
<1>2. QED
  BY <1>1, InitTableInv, NextKeepsTableInv, PTL DEF TMSpec

(***************************************************************************)
(* The table never reaches MAX_QUEUE_SIZE, and every task in it can still  *)
(* be evicted, even if ids are removed from it at any time.                *)
(***************************************************************************)
THEOREM TableStaysBounded == TMSpec => []TableBounded
<1>1. TableInv => TableBounded
  BY DEF TableInv
<1>2. QED
  BY <1>1, InitTableInv, NextKeepsTableInv, PTL DEF TMSpec

(***************************************************************************)
(* An id of the table always refers to the object of its latest            *)
(* submission.                                                             *)
(***************************************************************************)
THEOREM TableRefersToLatest == TMSpec => []RefersToLatest
<1>1. TableInv => RefersToLatest
  BY DEF TableInv
<1>2. QED
  BY <1>1, InitTableInv, NextKeepsTableInv, PTL DEF TMSpec

--------------------------------------------------------------------------------
\* QueueListsTable position by position, which is how the proofs use it.
Listed(queue, table) ==
    /\ \A i \in DOMAIN queue : table[queue[i]] # NoTask
    /\ \A id \in TaskId : table[id] # NoTask => \E i \in DOMAIN queue : queue[i] = id
    /\ \A i, j \in DOMAIN queue : i < j => table[queue[i]] < table[queue[j]]

LEMMA ListedIsQueueListsTable ==
    ASSUME Removable = {}, TMTypeOK
    PROVE  QueueListsTable <=> Listed(taskQueue, tasks)
<1>1. \A i \in DOMAIN taskQueue : taskQueue[i] \in TaskId
  BY ElementOfSeq, LenProperties DEF TMTypeOK
<1>2. QED
  BY <1>1 DEF QueueListsTable, Listed, Present, IsPresent, ToSet

\* Admitting an id keeps the deque and the dictionary in step, whether or not
\* the oldest id has to leave.
LEMMA AddTaskKeepsListed ==
    ASSUME TableInv, Listed(taskQueue, tasks), NEW id \in TaskId, NEW identity \in Client,
           NEW sn \in Sn, NEW configure \in Configure, AddTask(id, identity, sn, configure)
    PROVE  Listed(taskQueue', tasks')
<1> DEFINE n == Len(taskQueue)
           inserted == [tasks EXCEPT ![id] = Len(infos) + 1]
           appended == Append(taskQueue, id)
<1>1. /\ taskQueue \in Seq(TaskId) /\ tasks \in [TaskId -> Nat]
      /\ n \in Nat /\ DOMAIN taskQueue = 1 .. n /\ n < MaxQueueSize
      /\ Len(infos) \in Nat /\ DOMAIN infos = 1 .. Len(infos)
      /\ ~IsPresent(id)
  BY LenProperties DEF TableInv, TMTypeOK, TableBounded, AddTask
<1>2. /\ appended \in Seq(TaskId) /\ appended # <<>>
      /\ Len(appended) = n + 1
      /\ \A i \in 1 .. n : appended[i] = taskQueue[i]
      /\ appended[n + 1] = id
      /\ DOMAIN appended = 1 .. n + 1
  BY <1>1, AppendProperties, LenProperties
<1>3. DequeAppend(taskQueue, id) = appended
  BY <1>1, DequeGrows
<1>4. \A i \in 1 .. n : /\ taskQueue[i] \in TaskId
                        /\ tasks[taskQueue[i]] \in 1 .. Len(infos)
                        /\ taskQueue[i] # id
  BY <1>1, ElementOfSeq DEF TableInv, TMTypeOK, Listed, IsPresent
<1>5. /\ inserted \in [TaskId -> Nat]
      /\ inserted[id] = Len(infos) + 1
      /\ \A i \in TaskId \ {id} : inserted[i] = tasks[i]
  BY <1>1
<1> HIDE DEF inserted, appended
<1>6. Listed(appended, inserted)
  <2>1. \A i \in 1 .. n : /\ appended[i] = taskQueue[i]
                          /\ inserted[appended[i]] = tasks[taskQueue[i]]
                          /\ inserted[appended[i]] \in 1 .. Len(infos)
    BY <1>2, <1>4, <1>5
  <2>2. ASSUME NEW i \in 1 .. n + 1
        PROVE  inserted[appended[i]] # NoTask
    <3>1. CASE i = n + 1
      BY <1>1, <1>2, <1>5, <3>1 DEF NoTask
    <3>2. CASE i # n + 1
      <4>1. i \in 1 .. n
        BY <1>1, <3>2
      <4>2. QED
        BY <1>1, <2>1, <4>1 DEF NoTask
    <3>3. QED
      BY <3>1, <3>2
  <2>3. ASSUME NEW x \in TaskId, inserted[x] # NoTask
        PROVE  \E i \in 1 .. n + 1 : appended[i] = x
    <3>1. CASE x = id
      BY <1>1, <1>2, <3>1
    <3>2. CASE x # id
      <4>1. PICK i \in 1 .. n : taskQueue[i] = x
        BY <1>1, <1>5, <2>3, <3>2 DEF Listed
      <4>2. i \in 1 .. n + 1 /\ appended[i] = x
        BY <1>1, <1>2, <4>1
      <4>3. QED
        BY <4>2
    <3>3. QED
      BY <3>1, <3>2
  <2>4. ASSUME NEW i \in 1 .. n + 1, NEW j \in 1 .. n + 1, i < j
        PROVE  inserted[appended[i]] < inserted[appended[j]]
    <3>1. i \in 1 .. n
      BY <1>1, <2>4
    <3>2. CASE j = n + 1
      BY <1>1, <1>2, <1>5, <2>1, <3>1, <3>2
    <3>3. CASE j # n + 1
      <4>1. j \in 1 .. n
        BY <1>1, <3>3
      <4>2. tasks[taskQueue[i]] < tasks[taskQueue[j]]
        BY <1>1, <2>4, <3>1, <4>1 DEF Listed
      <4>3. QED
        BY <2>1, <3>1, <4>1, <4>2
    <3>4. QED
      BY <3>2, <3>3
  <2>5. QED
    BY <1>2, <2>2, <2>3, <2>4 DEF Listed
<1>7. CASE tasks' = inserted /\ taskQueue' = appended
  BY <1>6, <1>7
<1>8. CASE /\ tasks' = [inserted EXCEPT ![Head(appended)] = NoTask]
           /\ taskQueue' = Tail(appended)
  <2>1. /\ Head(appended) \in TaskId /\ Head(appended) = appended[1]
        /\ DOMAIN taskQueue' = 1 .. n
        /\ \A i \in 1 .. n : taskQueue'[i] = appended[i + 1]
    BY <1>1, <1>2, <1>8, HeadTailProperties, LenProperties
  <2>2. \A i \in 1 .. n + 1 : /\ appended[i] \in TaskId
                              /\ inserted[appended[i]] \in Nat
    BY <1>2, <1>5, ElementOfSeq
  <2>3. \A i \in 1 .. n : /\ appended[i + 1] # Head(appended)
                          /\ i + 1 \in 1 .. n + 1
    <3>1. ASSUME NEW i \in 1 .. n
          PROVE  appended[i + 1] # Head(appended) /\ i + 1 \in 1 .. n + 1
      <4>1. 1 \in 1 .. n + 1 /\ i + 1 \in 1 .. n + 1 /\ 1 < i + 1
        BY <1>1
      <4>2. inserted[appended[1]] < inserted[appended[i + 1]]
        BY <1>2, <1>6, <4>1 DEF Listed
      <4>3. QED
        BY <2>1, <2>2, <4>1, <4>2
    <3>2. QED
      BY <3>1
  <2>4. /\ tasks'[Head(appended)] = NoTask
        /\ \A x \in TaskId \ {Head(appended)} : tasks'[x] = inserted[x]
    BY <1>5, <1>8, <2>1
  <2>5. \A i \in 1 .. n : tasks'[taskQueue'[i]] = inserted[appended[i + 1]]
    BY <2>1, <2>2, <2>3, <2>4
  <2>6. \A i \in 1 .. n : tasks'[taskQueue'[i]] # NoTask
    BY <1>2, <1>6, <2>3, <2>5 DEF Listed
  <2>7. ASSUME NEW x \in TaskId, tasks'[x] # NoTask
        PROVE  \E i \in 1 .. n : taskQueue'[i] = x
    <3>1. x # Head(appended) /\ inserted[x] # NoTask
      BY <2>4, <2>7
    <3>2. PICK i \in 1 .. n + 1 : appended[i] = x
      BY <1>2, <1>6, <3>1 DEF Listed
    <3>3. i - 1 \in 1 .. n /\ taskQueue'[i - 1] = x
      BY <1>1, <2>1, <3>1, <3>2
    <3>4. QED
      BY <3>3
  <2>8. ASSUME NEW i \in 1 .. n, NEW j \in 1 .. n, i < j
        PROVE  tasks'[taskQueue'[i]] < tasks'[taskQueue'[j]]
    <3>1. i + 1 < j + 1
      BY <2>8
    <3>2. inserted[appended[i + 1]] < inserted[appended[j + 1]]
      BY <1>2, <1>6, <2>3, <3>1 DEF Listed
    <3>3. QED
      BY <2>5, <3>2
  <2>9. QED
    BY <2>1, <2>6, <2>7, <2>8 DEF Listed
<1>9. QED
  BY <1>3, <1>7, <1>8 DEF AddTask, inserted, appended

\* One step of a server, which never removes a task.
LEMMA NextKeepsListed ==
    ASSUME Removable = {}, TableInv, QueueListsTable, [TMNext]_tmVars
    PROVE  QueueListsTable'
<1>1. Listed(taskQueue, tasks)
  BY ListedIsQueueListsTable DEF TableInv
<1>2. TMTypeOK'
  BY NextKeepsTableInv DEF TableInv
<1>3. QueueListsTable' <=> Listed(taskQueue', tasks')
  <2>1. \A i \in DOMAIN taskQueue' : taskQueue'[i] \in TaskId
    BY <1>2, ElementOfSeq, LenProperties DEF TMTypeOK
  <2>2. QED
    BY <2>1 DEF QueueListsTable, Listed, Present, IsPresent, ToSet
<1>4. ASSUME NEW id \in TaskId, NEW identity \in Client, NEW sn \in Sn,
             NEW configure \in Configure, AddTask(id, identity, sn, configure)
      PROVE  Listed(taskQueue', tasks')
  BY <1>1, <1>4, AddTaskKeepsListed
<1>5. CASE UNCHANGED <<taskQueue, tasks>>
  BY <1>1, <1>3, <1>5
<1>6. QED
  BY <1>3, <1>4, <1>5
     DEF TMNext, UpdateTaskStatus, SetProcessTimes, Tick, tmVars

(***************************************************************************)
(* In a server, which never calls remove_task, the deque lists exactly the *)
(* tasks of the dictionary, in the order of their admission.               *)
(***************************************************************************)
THEOREM QueueAlwaysListsTable ==
    ASSUME Removable = {}
    PROVE  TMSpec => []QueueListsTable
<1>1. TMInit => QueueListsTable
  BY DEF TMInit, QueueListsTable, Present, IsPresent, ToSet
<1>2. TableInv /\ QueueListsTable /\ [TMNext]_tmVars => QueueListsTable'
  BY NextKeepsListed
<1>3. QED
  BY <1>1, <1>2, InitTableInv, NextKeepsTableInv, PTL DEF TMSpec

(***************************************************************************)
(* So the `del` of add_task always finds its key: add_task never raises    *)
(* KeyError in a server.                                                   *)
(***************************************************************************)
THEOREM AddTaskNeverRaises ==
    ASSUME Removable = {}
    PROVE  TMSpec => [](\A id \in TaskId : ~AddTaskRaises(id))
<1>1. TableInv /\ QueueListsTable => \A id \in TaskId : ~AddTaskRaises(id)
  <2> SUFFICES ASSUME TableInv, QueueListsTable, NEW id \in TaskId, AddTaskRaises(id)
               PROVE  FALSE
    OBVIOUS
  <2> DEFINE appended == Append(taskQueue, id)
  <2>1. /\ taskQueue \in Seq(TaskId)
        /\ Len(taskQueue) \in Nat /\ DOMAIN taskQueue = 1 .. Len(taskQueue)
        /\ DequeAppend(taskQueue, id) = appended
    BY DequeGrows, LenProperties DEF TableInv, TMTypeOK, TableBounded
  <2>2. Head(appended) = IF taskQueue = <<>> THEN id ELSE Head(taskQueue)
    BY <2>1, HeadTailAppend
  <2> HIDE DEF appended
  <2>3. taskQueue # <<>> /\ ~IsPresent(Head(taskQueue))
    BY <2>1, <2>2 DEF AddTaskRaises
  <2>4. 1 \in DOMAIN taskQueue /\ Head(taskQueue) = taskQueue[1]
    BY <2>1, <2>3, EmptySeq
  <2>5. Head(taskQueue) \in Present
    BY <2>4 DEF QueueListsTable, ToSet
  <2>6. QED
    BY <2>3, <2>5 DEF Present
<1>2. TMSpec => []TableInv
  BY InitTableInv, NextKeepsTableInv, PTL DEF TMSpec
<1>3. QED
  BY <1>1, <1>2, QueueAlwaysListsTable, PTL

--------------------------------------------------------------------------------
\* An id that leaves the table in an add_task was the head of a full deque.
LEMMA AddTaskEvictsOldest ==
    ASSUME Removable = {}, TableInv, QueueListsTable, NEW new \in TaskId, NEW identity \in Client,
           NEW sn \in Sn, NEW configure \in Configure,
           AddTask(new, identity, sn, configure),
           NEW id \in TaskId, IsPresent(id), ~IsPresent(id)'
    PROVE  /\ Len(taskQueue) = MaxQueueSize - 1
           /\ \A other \in Present : tasks[id] <= tasks[other]
           /\ \E n \in TaskId \ Present : IsPresent(n)'
<1> DEFINE inserted == [tasks EXCEPT ![new] = Len(infos) + 1]
           appended == Append(taskQueue, new)
<1>1. /\ taskQueue \in Seq(TaskId) /\ tasks \in [TaskId -> Nat]
      /\ Len(taskQueue) \in Nat /\ DOMAIN taskQueue = 1 .. Len(taskQueue)
      /\ Len(taskQueue) < MaxQueueSize /\ Len(infos) \in Nat
      /\ DequeAppend(taskQueue, new) = appended
      /\ ~IsPresent(new)
  BY DequeGrows, LenProperties DEF TableInv, TMTypeOK, TableBounded, AddTask
<1>2. id # new
  BY <1>1
<1>3. /\ Len(appended) = Len(taskQueue) + 1
      /\ Head(appended) = IF taskQueue = <<>> THEN new ELSE Head(taskQueue)
  BY <1>1, AppendProperties, HeadTailAppend
<1>4. /\ inserted[new] = Len(infos) + 1
      /\ \A i \in TaskId \ {new} : inserted[i] = tasks[i]
      /\ inserted \in [TaskId -> Nat]
  BY <1>1
<1> HIDE DEF inserted, appended
<1>5. CASE tasks' = inserted
  BY <1>2, <1>4, <1>5 DEF IsPresent
<1>6. CASE /\ Len(appended) >= MaxQueueSize
           /\ tasks' = [inserted EXCEPT ![Head(appended)] = NoTask]
  <2>1. id = Head(appended)
    BY <1>2, <1>4, <1>6 DEF IsPresent
  <2>2. taskQueue # <<>> /\ id = Head(taskQueue)
    BY <1>2, <1>3, <2>1
  <2>3. 1 \in DOMAIN taskQueue /\ id = taskQueue[1]
    BY <1>1, <2>2, EmptySeq
  <2>4. Len(taskQueue) = MaxQueueSize - 1
    BY <1>1, <1>3, <1>6, QueueSizeAssumption
  <2>5. ASSUME NEW other \in Present
        PROVE  tasks[id] <= tasks[other]
    <3>1. PICK k \in DOMAIN taskQueue : taskQueue[k] = other
      BY DEF QueueListsTable, ToSet
    <3>2. tasks[id] \in Nat /\ tasks[other] \in Nat
      BY <1>1 DEF Present
    <3>3. CASE k = 1
      BY <2>3, <3>1, <3>2, <3>3
    <3>4. CASE k # 1
      <4>1. 1 < k
        BY <1>1, <3>1, <3>4
      <4>2. QED
        BY <2>3, <3>1, <3>2, <4>1 DEF QueueListsTable
    <3>5. QED
      BY <3>3, <3>4
  <2>6. IsPresent(new)' /\ new \in TaskId \ Present
    BY <1>1, <1>2, <1>4, <1>6, <2>1 DEF IsPresent, Present, NoTask
  <2>7. QED
    BY <2>4, <2>5, <2>6
<1>7. QED
  BY <1>1, <1>5, <1>6 DEF AddTask, inserted, appended

(***************************************************************************)
(* In a server a task leaves the table only as the oldest task of a full   *)
(* table, and a younger one takes its place.                               *)
(***************************************************************************)
THEOREM OnlyOldestIsEvicted ==
    ASSUME Removable = {}
    PROVE  TMSpec => EvictsOldestWhenFull
<1> DEFINE Leaves(id) == IsPresent(id) /\ ~IsPresent(id)'
           Evicted(id) == /\ Len(taskQueue) = MaxQueueSize - 1
                          /\ \A other \in Present \ Removable : tasks[id] <= tasks[other]
                          /\ \E new \in TaskId \ Present : IsPresent(new)'
           Step == \A id \in TaskId \ Removable : Leaves(id) => Evicted(id)
<1>1. TableInv /\ QueueListsTable /\ [TMNext]_tmVars => [Step]_tmVars
  <2> SUFFICES ASSUME TableInv, QueueListsTable, TMNext, NEW id \in TaskId, Leaves(id)
               PROVE  Evicted(id)
    BY DEF tmVars
  <2>1. ASSUME NEW new \in TaskId, NEW identity \in Client, NEW sn \in Sn,
               NEW configure \in Configure, AddTask(new, identity, sn, configure)
        PROVE  Evicted(id)
    BY <2>1, AddTaskEvictsOldest
  <2>2. CASE UNCHANGED tasks
    BY <2>2 DEF IsPresent
  <2>3. QED
    BY <2>1, <2>2 DEF TMNext, UpdateTaskStatus, SetProcessTimes, Tick
<1>2. TMSpec => []TableInv
  BY InitTableInv, NextKeepsTableInv, PTL DEF TMSpec
<1>3. TMSpec => [][Step]_tmVars
  BY <1>1, <1>2, QueueAlwaysListsTable, PTL DEF TMSpec
<1>4. QED
  BY <1>3 DEF EvictsOldestWhenFull
================================================================================
