------------------------------ MODULE TaskManager ------------------------------
(***************************************************************************)
(* The task table of one simulated quantum system, class TaskManager of    *)
(* python_simulator/task_manager.py: a dictionary of TaskInfo objects by   *)
(* task id and a deque of the ids in the order they were admitted.  Every  *)
(* method holds self.lock for its whole body, so every method that changes *)
(* state is one action.  process_task, which calls these methods from a    *)
(* task thread without holding the lock in between, is the thread of       *)
(* module RouterServer.                                                    *)
(*                                                                         *)
(* Threads keep references to TaskInfo objects that outlive their entry in *)
(* the dictionary, so the objects are kept apart from the dictionary:      *)
(* infos[r] is the r-th object ever created and tasks[id] is the reference *)
(* the dictionary holds for id, NoTask (None) when it holds none.          *)
(***************************************************************************)
EXTENDS Integers, Sequences, SequencesExt

CONSTANTS
    TaskId,        \* the task ids clients use
    Client,        \* the identities of the ROUTER socket's peers
    Sn,            \* the sequence numbers of requests
    MaxQueueSize,  \* ServerConfig.MAX_QUEUE_SIZE
    Statuses,      \* the statuses update_task_status is called with
    Removable,     \* the ids remove_task is called with: {} in the server
    MaxTasks,      \* bound: TaskInfo objects created in a behaviour
    Epoch,         \* time.time() when the server starts; a run with a clock that stays
                   \* at 0 leaves the timestamps out
    MaxTime        \* bound: the last instant of the clock

Status == {"PENDING", "COMPILING", "COMPILED", "RUNNING", "SUCCESSED", "FAILED"}

ASSUME QueueSizeAssumption == MaxQueueSize \in Nat \ {0}
ASSUME StatusesAssumption == Statuses \subseteq Status
ASSUME RemovableAssumption == Removable \subseteq TaskId
ASSUME TimeAssumption == /\ Epoch \in Nat
                         /\ MaxTime \in Nat
                         /\ Epoch <= MaxTime

VARIABLES
    infos,      \* the TaskInfo objects, in order of creation
    tasks,      \* self.tasks
    taskQueue,  \* self.task_queue
    clock       \* time.time()

tmVars == <<infos, tasks, taskQueue, clock>>

NoTask == 0

Stamp == {"compile_start", "compile_end", "pending_start", "pending_end",
          "measure_start", "measure_end", "process_start", "process_end"}

Configure == {"valid", "malformed"}

TaskInfo == [task_id : TaskId, identity : Client, sn : Sn, configure : Configure,
             status : Status, time : [Stamp -> Nat]]

NewTaskInfo(id, identity, sn, configure) ==
    [task_id |-> id, identity |-> identity, sn |-> sn, configure |-> configure,
     status |-> "PENDING", time |-> [s \in Stamp |-> 0]]

TMInit ==
    /\ infos = <<>>
    /\ tasks = [id \in TaskId |-> NoTask]
    /\ taskQueue = <<>>
    /\ clock = Epoch

IsPresent(id) == tasks[id] # NoTask

Present == {id \in TaskId : IsPresent(id)}

\* deque(maxlen=MaxQueueSize).append: a full deque drops its head by itself.
DequeAppend(q, id) ==
    Append(IF Len(q) = MaxQueueSize THEN Tail(q) ELSE q, id)

\* Mutant: the oldest id leaves the deque only.
AddTaskWithoutDel(id, identity, sn, configure) ==
    /\ ~IsPresent(id)
    /\ Len(infos) < MaxTasks
    /\ infos' = Append(infos, NewTaskInfo(id, identity, sn, configure))
    /\ tasks' = [tasks EXCEPT ![id] = Len(infos) + 1]
    /\ LET appended == DequeAppend(taskQueue, id)
       IN taskQueue' = IF Len(appended) >= MaxQueueSize THEN Tail(appended) ELSE appended
    /\ UNCHANGED clock

\* Mutant: the deque may grow to MaxQueueSize.
AddTaskWhenAbove(id, identity, sn, configure) ==
    /\ ~IsPresent(id)
    /\ Len(infos) < MaxTasks
    /\ infos' = Append(infos, NewTaskInfo(id, identity, sn, configure))
    /\ tasks' = [tasks EXCEPT ![id] = Len(infos) + 1]
    /\ taskQueue' = DequeAppend(taskQueue, id)
    /\ UNCHANGED clock

\* Mutant: pop() for popleft(), and the id before the new one leaves.
AddTaskPoppingRight(id, identity, sn, configure) ==
    /\ ~IsPresent(id)
    /\ Len(infos) < MaxTasks
    /\ infos' = Append(infos, NewTaskInfo(id, identity, sn, configure))
    /\ LET inserted == [tasks EXCEPT ![id] = Len(infos) + 1]
           appended == Append(taskQueue, id)
       IN IF Len(appended) < MaxQueueSize
            THEN tasks' = inserted /\ taskQueue' = appended
            ELSE /\ tasks' = [inserted EXCEPT ![Last(taskQueue)] = NoTask]
                 /\ taskQueue' = Append(Front(taskQueue), id)
    /\ UNCHANGED clock

\* Mutant: no check for a duplicate, tasks.setdefault for tasks[task_id].
AddTaskSetDefault(id, identity, sn, configure) ==
    /\ Len(infos) < MaxTasks
    /\ infos' = Append(infos, NewTaskInfo(id, identity, sn, configure))
    /\ tasks' = [tasks EXCEPT ![id] = IF @ = NoTask THEN Len(infos) + 1 ELSE @]
    /\ UNCHANGED <<taskQueue, clock>>

(***************************************************************************)
(* add_task.  The new id enters the dictionary and the deque first; the    *)
(* deque is then cut back to MaxQueueSize - 1 by deleting the oldest id,   *)
(* which is the new one itself when MaxQueueSize = 1.  `del` raises        *)
(* KeyError when the oldest id has left the dictionary before: the insert  *)
(* and the popleft have already happened then.                             *)
(***************************************************************************)
AddTask(id, identity, sn, configure) ==
    /\ ~IsPresent(id)
    /\ Len(infos) < MaxTasks
    /\ infos' = Append(infos, NewTaskInfo(id, identity, sn, configure))
    /\ LET inserted == [tasks EXCEPT ![id] = Len(infos) + 1]
           appended == DequeAppend(taskQueue, id)
       IN \/ /\ Len(appended) < MaxQueueSize
             /\ tasks' = inserted
             /\ taskQueue' = appended
          \/ /\ Len(appended) >= MaxQueueSize
             /\ tasks' = [inserted EXCEPT ![Head(appended)] = NoTask]
             /\ taskQueue' = Tail(appended)
    /\ UNCHANGED clock

\* The `del` of add_task would raise KeyError.
AddTaskRaises(id) ==
    LET appended == DequeAppend(taskQueue, id)
    IN /\ ~IsPresent(id)
       /\ Len(appended) >= MaxQueueSize
       /\ Head(appended) # id
       /\ ~IsPresent(Head(appended))

\* Mutant: COMPILED does not start the pending time.
StampsWithoutPending(status) ==
    CASE status = "COMPILING" -> {"compile_start"}
      [] status = "COMPILED"  -> {"compile_end"}
      [] status = "RUNNING"   -> {"measure_start", "pending_end"}
      [] status = "SUCCESSED" -> {"measure_end", "process_start"}
      [] status = "FAILED"    -> {"measure_end"}
      [] OTHER                -> {}

\* The timestamps update_task_status sets for each status.
StampsOf(status) ==
    CASE status = "COMPILING" -> {"compile_start"}
      [] status = "COMPILED"  -> {"compile_end", "pending_start"}
      [] status = "RUNNING"   -> {"measure_start", "pending_end"}
      [] status = "SUCCESSED" -> {"measure_end", "process_start"}
      [] status = "FAILED"    -> {"measure_end"}
      [] OTHER                -> {}

Stamped(time, stamps) == [s \in Stamp |-> IF s \in stamps THEN clock ELSE time[s]]

WithStatus(info, status) ==
    [info EXCEPT !.status = status, !.time = Stamped(info.time, StampsOf(status))]

\* update_task_status: nothing happens when the id has left the dictionary.
UpdateTaskStatus(id, status) ==
    /\ infos' = IF IsPresent(id)
                  THEN [infos EXCEPT ![tasks[id]] = WithStatus(infos[tasks[id]], status)]
                  ELSE infos
    /\ UNCHANGED <<tasks, taskQueue, clock>>

\* process_task writes the post-processing times into the object it got at
\* its start, without the lock, whether or not the object is still in tasks.
SetProcessTimes(r) ==
    /\ infos' = [infos EXCEPT
          ![r].time = Stamped(infos[r].time, {"process_start", "process_end"})]
    /\ UNCHANGED <<tasks, taskQueue, clock>>

\* remove_task: the id stays in the deque.
RemoveTask(id) ==
    /\ IsPresent(id)
    /\ tasks' = [tasks EXCEPT ![id] = NoTask]
    /\ UNCHANGED <<infos, taskQueue, clock>>

\* get_task_status
GetTaskStatus(id) == IF IsPresent(id) THEN infos[tasks[id]].status ELSE "NOTASK"

\* get_timing_info: the empty dictionary, here <<>>, when the task is gone.
GetTimingInfo(id) ==
    IF ~IsPresent(id) THEN <<>>
    ELSE LET t == infos[tasks[id]].time
         IN [CompileTime     |-> t["compile_end"] - t["compile_start"],
             MeasureTime     |-> t["measure_end"] - t["measure_start"],
             PostProcessTime |-> t["process_end"] - t["process_start"],
             PendingTime     |-> t["pending_end"] - t["pending_start"]]

\* Time passes between two steps of the threads.
Tick ==
    /\ clock < MaxTime
    /\ clock' = clock + 1
    /\ UNCHANGED <<infos, tasks, taskQueue>>

TMNext ==
    \/ \E id \in TaskId, identity \in Client, sn \in Sn, configure \in Configure :
          AddTask(id, identity, sn, configure)
    \/ \E id \in TaskId, status \in Statuses : UpdateTaskStatus(id, status)
    \/ \E r \in DOMAIN infos : SetProcessTimes(r)
    \/ \E id \in Removable : RemoveTask(id)
    \/ Tick

TMSpec == TMInit /\ [][TMNext]_tmVars

--------------------------------------------------------------------------------
(***************************************************************************)
(* Type invariant of the task table.                                       *)
(***************************************************************************)
TMTypeOK ==
    /\ infos \in Seq(TaskInfo)
    /\ tasks \in [TaskId -> Nat]
    /\ \A id \in TaskId : IsPresent(id) => tasks[id] \in DOMAIN infos
    /\ taskQueue \in Seq(TaskId)
    /\ clock \in Epoch .. MaxTime

(***************************************************************************)
(* The dictionary and the deque, updated by separate statements of         *)
(* add_task, list the same ids, and the deque lists them in the order of   *)
(* their admission, each once; only ids that are removed by hand may be    *)
(* left over in the deque or out of order.  So the `del` of add_task finds *)
(* its key in a server, and no id stays out of reach of eviction.          *)
(***************************************************************************)
QueueListsTable ==
    /\ Present \subseteq ToSet(taskQueue)
    /\ ToSet(taskQueue) \ Present \subseteq Removable
    /\ \A i, j \in DOMAIN taskQueue :
          i < j /\ {taskQueue[i], taskQueue[j]} \cap Removable = {} =>
              tasks[taskQueue[i]] < tasks[taskQueue[j]]

(***************************************************************************)
(* The table holds fewer than MAX_QUEUE_SIZE tasks after every call, so    *)
(* the deque's own maxlen never drops an id behind the dictionary's back,  *)
(* and every id of the dictionary can still be evicted.  This survives     *)
(* remove_task, which leaves ids behind in the deque.                      *)
(***************************************************************************)
TableBounded ==
    /\ Len(taskQueue) < MaxQueueSize
    /\ Present \subseteq ToSet(taskQueue)

(***************************************************************************)
(* An id that is in the table refers to the object created by its latest   *)
(* submission: a status update or a query never reaches the object of      *)
(* another id or of an earlier submission of the same id.                  *)
(***************************************************************************)
RefersToLatest ==
    \A id \in TaskId : IsPresent(id) =>
        /\ infos[tasks[id]].task_id = id
        /\ \A r \in DOMAIN infos : infos[r].task_id = id => r <= tasks[id]

(***************************************************************************)
(* A task that is not removed by hand leaves the table only by the         *)
(* eviction in add_task: the deque was at its capacity of                  *)
(* MAX_QUEUE_SIZE - 1 ids, the task that leaves was admitted before all    *)
(* others of its kind, and a younger one takes its place in the same step. *)
(***************************************************************************)
EvictsOldestWhenFull ==
    [][\A id \in TaskId \ Removable :
          IsPresent(id) /\ ~IsPresent(id)' =>
             /\ Len(taskQueue) = MaxQueueSize - 1
             /\ \A other \in Present \ Removable : tasks[id] <= tasks[other]
             /\ \E new \in TaskId \ Present : IsPresent(new)']_tmVars
================================================================================
