--------------------------- MODULE RouterServer_proofs ---------------------------
(***************************************************************************)
(* Proofs about the router server, for every number of clients, requests   *)
(* and tasks and every MAX_QUEUE_SIZE, evictions and disconnects included. *)
(* What the server does to the task table is what module TaskManager       *)
(* allows, so the theorems about the table hold of the server.             *)
(***************************************************************************)
EXTENDS RouterServer, TaskManager_proofs, SequenceLemmas, FiniteSetTheorems

\* No step makes an object disappear or changes whose it is.
ObjectsKept ==
    /\ DOMAIN infos \subseteq DOMAIN infos'
    /\ \A r \in DOMAIN infos : /\ infos'[r].task_id = infos[r].task_id
                               /\ infos'[r].identity = infos[r].identity
                               /\ infos'[r].sn = infos[r].sn

LEMMA RewriteKeepsObjects ==
    ASSUME TableInv, NEW r \in DOMAIN infos, NEW status, NEW time,
           infos' = [infos EXCEPT ![r] = [infos[r] EXCEPT !.status = status, !.time = time]]
    PROVE  ObjectsKept /\ Len(infos') = Len(infos)
<1>1. infos[r] \in TaskInfo /\ infos \in Seq(TaskInfo)
  BY ElementOfSeq, LenProperties DEF TableInv, TMTypeOK
<1>2. /\ DOMAIN infos' = DOMAIN infos /\ Len(infos') = Len(infos)
      /\ \A i \in DOMAIN infos : i # r => infos'[i] = infos[i]
      /\ infos'[r] = [infos[r] EXCEPT !.status = status, !.time = time]
  BY <1>1, LenProperties
<1>3. /\ infos'[r].task_id = infos[r].task_id
      /\ infos'[r].identity = infos[r].identity
      /\ infos'[r].sn = infos[r].sn
  BY <1>1, <1>2 DEF TaskInfo
<1>4. QED
  BY <1>2, <1>3 DEF ObjectsKept

LEMMA TableKeepsObjects ==
    ASSUME TableInv, [TMNext]_tmVars, Len(infos) <= MaxTasks
    PROVE  ObjectsKept /\ Len(infos') <= MaxTasks
<1>t. /\ infos \in Seq(TaskInfo) /\ Len(infos) \in Nat /\ DOMAIN infos = 1 .. Len(infos)
      /\ \A i \in TaskId : IsPresent(i) => tasks[i] \in DOMAIN infos
  BY LenProperties DEF TableInv, TMTypeOK
<1>1. ASSUME NEW id \in TaskId, NEW identity \in Client, NEW sn \in Sn,
             NEW configure \in Configure, AddTask(id, identity, sn, configure)
      PROVE  ObjectsKept /\ Len(infos') <= MaxTasks
  <2>1. infos' = Append(infos, NewTaskInfo(id, identity, sn, configure)) /\ Len(infos) < MaxTasks
    BY <1>1 DEF AddTask
  <2>2. /\ infos' \in Seq(TaskInfo) /\ DOMAIN infos' = 1 .. Len(infos) + 1
        /\ \A r \in 1 .. Len(infos) : infos'[r] = infos[r]
    BY <2>1, InfosAppended DEF TableInv
  <2>3. Len(infos') = Len(infos) + 1
    BY <1>t, <2>2, LenProperties
  <2>4. QED
    BY <1>t, <2>1, <2>2, <2>3, RequestsAssumption DEF ObjectsKept
<1>2. ASSUME NEW id \in TaskId, NEW status \in Statuses, UpdateTaskStatus(id, status)
      PROVE  ObjectsKept /\ Len(infos') <= MaxTasks
  <2>1. CASE IsPresent(id)
    BY <1>2, <1>t, <2>1, RewriteKeepsObjects DEF UpdateTaskStatus, WithStatus
  <2>2. CASE ~IsPresent(id)
    BY <1>2, <2>2 DEF UpdateTaskStatus, ObjectsKept
  <2>3. QED
    BY <2>1, <2>2
<1>3. ASSUME NEW r \in DOMAIN infos, SetProcessTimes(r)
      PROVE  ObjectsKept /\ Len(infos') <= MaxTasks
  <2> DEFINE time == Stamped(infos[r].time, {"process_start", "process_end"})
  <2>1. infos[r] \in TaskInfo
    BY <1>t, ElementOfSeq
  <2>2. infos' = [infos EXCEPT ![r].time = time]
    BY <1>3 DEF SetProcessTimes
  <2> HIDE DEF time
  <2>3. /\ DOMAIN infos' = DOMAIN infos /\ Len(infos') = Len(infos)
        /\ \A i \in DOMAIN infos : i # r => infos'[i] = infos[i]
        /\ infos'[r] = [infos[r] EXCEPT !.time = time]
    BY <1>t, <2>1, <2>2
  <2>4. /\ infos'[r].task_id = infos[r].task_id
        /\ infos'[r].identity = infos[r].identity
        /\ infos'[r].sn = infos[r].sn
    BY <2>1, <2>3 DEF TaskInfo
  <2>5. QED
    BY <2>3, <2>4 DEF ObjectsKept
<1>4. CASE \/ \E id \in Removable : RemoveTask(id)
           \/ Tick
           \/ UNCHANGED tmVars
  BY <1>4 DEF RemoveTask, Tick, tmVars, ObjectsKept
<1>5. QED
  BY <1>1, <1>2, <1>3, <1>4 DEF TMNext

--------------------------------------------------------------------------------
(***************************************************************************)
(* The inductive invariant.  A thread that holds an object holds one of    *)
(* its own id, and what it measured is of that object or an earlier one;   *)
(* the process thread starts the thread of the object it made last.        *)
(***************************************************************************)
RequestsOK ==
    /\ requests \in Seq([client : Client, msg : Offered])
    /\ requestQueue \in Seq(DOMAIN requests)
    /\ Len(requests) <= MaxRequests

RepliesOK ==
    /\ replyQueue \in Seq(Replies)
    /\ inbox \in [Client -> Seq(Replies)]
    /\ undelivered \in Seq(Replies)

StartsLatest ==
    proc.at \in {"pending", "spawn"} =>
        /\ infos # <<>>
        /\ infos[Len(infos)].task_id = proc.reply.task_id

ProcOK ==
    /\ proc \in [at : {"idle", "pending", "spawn", "reply"}, reply : Replies \cup {NoReply}]
    /\ proc.at # "idle" => proc.reply \in Replies
    /\ StartsLatest

Holding == {"compile", "compiled", "run", "succeed", "fail", "post", "lookup", "timing",
            "success", "result"}

\* What holds of the thread t of the r-th object.
ThreadFits(r, t) ==
    /\ t.at \notin {"idle", "done"} => r \in DOMAIN infos
    /\ t.task \in {NoTask} \cup DOMAIN infos
    /\ t.at \in Holding => /\ t.task \in DOMAIN infos
                           /\ infos[t.task].task_id = infos[r].task_id
                           /\ CountsFit(t.measured, t.task)

Thread == [at : At, task : Nat, measured : Nat, note : ReplyData]

ThreadsOK ==
    /\ threads \in [1 .. MaxTasks -> Thread]
    /\ \A r \in 1 .. MaxTasks : ThreadFits(r, threads[r])

RouterInv ==
    /\ TableInv
    /\ Len(infos) <= MaxTasks
    /\ RequestsOK
    /\ RepliesOK
    /\ ProcOK
    /\ ThreadsOK
    /\ published \in [Watched -> Seq(Status)]
    /\ connected \subseteq Client

LEMMA InvGivesType == RouterInv => RouterTypeOK
BY DEF RouterInv, TableInv, RequestsOK, RepliesOK, ProcOK, ThreadsOK, ThreadFits, Thread, RouterTypeOK

LEMMA InfosFacts ==
    ASSUME RouterInv
    PROVE  /\ infos \in Seq(TaskInfo) /\ Len(infos) \in Nat /\ DOMAIN infos = 1 .. Len(infos)
           /\ DOMAIN infos \subseteq 1 .. MaxTasks
           /\ \A r \in DOMAIN infos : infos[r] \in TaskInfo /\ IdOf(r) \in TaskId
<1>1. /\ infos \in Seq(TaskInfo) /\ Len(infos) \in Nat /\ DOMAIN infos = 1 .. Len(infos)
      /\ Len(infos) <= MaxTasks
  BY LenProperties DEF RouterInv, TableInv, TMTypeOK
<1>2. DOMAIN infos \subseteq 1 .. MaxTasks
  BY <1>1, RequestsAssumption
<1>3. ASSUME NEW r \in DOMAIN infos PROVE infos[r] \in TaskInfo /\ IdOf(r) \in TaskId
  <2>1. infos[r] \in TaskInfo
    BY <1>1, ElementOfSeq
  <2>2. QED
    BY <2>1 DEF IdOf, TaskInfo
<1>4. QED
  BY <1>1, <1>2, <1>3

LEMMA ThreadFitsKept ==
    ASSUME ObjectsKept, NEW r, NEW t, ThreadFits(r, t)
    PROVE  ThreadFits(r, t)'
<1>1. t.at \notin {"idle", "done"} => r \in DOMAIN infos /\ infos'[r].task_id = infos[r].task_id
  BY DEF ThreadFits, ObjectsKept
<1>2. t.at \in Holding => t.at \notin {"idle", "done"}
  BY DEF Holding
<1>3. t.at \in Holding => CountsFit(t.measured, t.task)'
  BY DEF ThreadFits, ObjectsKept, CountsFit
<1>4. QED
  BY <1>1, <1>2, <1>3 DEF ThreadFits, ObjectsKept

LEMMA ThreadsKept ==
    ASSUME RouterInv, ObjectsKept, threads' = threads
    PROVE  ThreadsOK'
<1>1. ASSUME NEW r \in 1 .. MaxTasks PROVE ThreadFits(r, threads[r])'
  <2>1. ThreadFits(r, threads[r])
    BY DEF RouterInv, ThreadsOK
  <2>2. QED
    BY <2>1, ThreadFitsKept DEF ThreadFits
<1>2. QED
  BY <1>1 DEF RouterInv, ThreadsOK

\* The r-th thread becomes t.
LEMMA ThreadReplaced ==
    ASSUME RouterInv, ObjectsKept, NEW r \in 1 .. MaxTasks, NEW t \in Thread, ThreadFits(r, t),
           threads' = [threads EXCEPT ![r] = t]
    PROVE  ThreadsOK'
<1>1. threads \in [1 .. MaxTasks -> Thread]
  BY DEF RouterInv, ThreadsOK
<1>2. threads' \in [1 .. MaxTasks -> Thread]
  BY <1>1
<1>3. ASSUME NEW i \in 1 .. MaxTasks PROVE ThreadFits(i, threads[i])'
  <2>1. CASE i = r
    <3>1. threads'[i] = t
      BY <1>1, <2>1
    <3>2. QED
      BY <2>1, <3>1, ThreadFitsKept DEF ThreadFits
  <2>2. CASE i # r
    <3>1. threads'[i] = threads[i] /\ ThreadFits(i, threads[i])
      BY <1>1, <2>2 DEF RouterInv, ThreadsOK
    <3>2. QED
      BY <3>1, ThreadFitsKept DEF ThreadFits
  <2>3. QED
    BY <2>1, <2>2
<1>4. QED
  BY <1>2, <1>3 DEF ThreadsOK, Thread

\* The thread of a task that runs has an object, and so does what it holds.
LEMMA RunningThread ==
    ASSUME RouterInv, NEW r \in 1 .. MaxTasks, threads[r].at \notin {"idle", "done"}
    PROVE  /\ threads[r] \in Thread /\ ThreadFits(r, threads[r])
           /\ r \in DOMAIN infos /\ IdOf(r) \in TaskId
BY InfosFacts DEF RouterInv, ThreadsOK, ThreadFits

\* What Dequeue hands to a handler.
LEMMA DequeueFacts ==
    ASSUME RouterInv, NEW type, Dequeue(type)
    PROVE  LET sn == Head(requestQueue)
               m  == requests[sn].msg
           IN /\ proc.at = "idle"
              /\ requestQueue' \in Seq(DOMAIN requests)
              /\ sn \in DOMAIN requests /\ sn \in Sn
              /\ requests[sn].client \in Client
              /\ m \in Offered /\ m \in Request /\ m.type = type
<1> DEFINE sn == Head(requestQueue)
<1>1. /\ requests \in Seq([client : Client, msg : Offered])
      /\ requestQueue \in Seq(DOMAIN requests) /\ Len(requests) <= MaxRequests
  BY DEF RouterInv, RequestsOK
<1>2. requestQueue # <<>> /\ proc.at = "idle" /\ requests[sn].msg.type = type
      /\ requestQueue' = Tail(requestQueue)
  BY DEF Dequeue
<1>3. sn \in DOMAIN requests /\ requestQueue' \in Seq(DOMAIN requests)
  BY <1>1, <1>2, HeadTailProperties
<1>4. DOMAIN requests = 1 .. Len(requests) /\ Len(requests) \in Nat
  BY <1>1, LenProperties
<1>5. sn \in Sn
  BY <1>1, <1>3, <1>4, RequestsAssumption
<1>6. requests[sn] \in [client : Client, msg : Offered]
  BY <1>1, <1>3, <1>4, ElementOfSeq
<1>7. QED
  BY <1>2, <1>3, <1>5, <1>6, OfferedAssumption

--------------------------------------------------------------------------------
(***************************************************************************)
(* Every step of the server is a step of the task table or leaves it.      *)
(***************************************************************************)
LEMMA HandleTaskOnTable ==
    ASSUME RouterInv, HandleTask
    PROVE  [TMNext]_tmVars
<1> DEFINE sn == Head(requestQueue)
           m  == requests[sn].msg
<1>1. /\ sn \in Sn /\ requests[sn].client \in Client /\ m \in Offered
      /\ m \in Request /\ m.type = "MsgTask"
  BY DequeueFacts DEF HandleTask
<1>2. m.id \in TaskId /\ m.configure \in Configure
  BY <1>1, OfferedAssumption DEF Request
<1>3. UNCHANGED tmVars \/ AddTask(m.id, requests[sn].client, sn, m.configure)
  BY DEF HandleTask
<1>4. QED
  BY <1>1, <1>2, <1>3 DEF TMNext

LEMMA SetStatusOnTable ==
    ASSUME RouterInv, NEW r \in 1 .. MaxTasks, NEW from, NEW to, NEW status \in Statuses,
           from \notin {"idle", "done"}, SetStatus(r, from, status, to)
    PROVE  TMNext
<1>1. IdOf(r) \in TaskId
  BY RunningThread DEF SetStatus, Goto
<1>2. UpdateTaskStatus(IdOf(r), status)
  BY DEF SetStatus
<1>3. QED
  BY <1>1, <1>2 DEF TMNext

LEMMA ThreadOnTable ==
    ASSUME RouterInv, NEW r \in 1 .. MaxTasks, ThreadStep(r)
    PROVE  [TMNext]_tmVars
<1>1. CASE Compiling(r) \/ Compiled(r) \/ Running(r) \/ Succeeded(r) \/ Fail(r)
  BY <1>1, SetStatusOnTable, ServerStatusesAssumption
     DEF Compiling, Compiled, Running, Succeeded, Fail
<1>2. CASE PostProcess(r)
  <2>1. threads[r].at = "post" /\ SetProcessTimes(threads[r].task)
    BY <1>2 DEF PostProcess, Goto
  <2>2. threads[r].task \in DOMAIN infos
    BY <2>1, RunningThread DEF ThreadFits, Holding
  <2>3. QED
    BY <2>1, <2>2 DEF TMNext
<1>3. CASE \/ PublishRunning(r) \/ GetTask(r) \/ PublishNoTask(r) \/ LookUpResult(r)
           \/ TakeTiming(r) \/ PublishSucceeded(r) \/ QueueResult(r) \/ QueueErrorResult(r)
  BY <1>3 DEF PublishRunning, GetTask, PublishNoTask, LookUpResult, TakeTiming,
              PublishSucceeded, QueueResult, QueueErrorResult
<1>4. QED
  BY <1>1, <1>2, <1>3 DEF ThreadStep

LEMMA StepsOnTable ==
    ASSUME RouterInv, [Next]_vars
    PROVE  [TMNext]_tmVars
<1>1. CASE ProcessStep
  <2>1. CASE HandleTask
    BY <2>1, HandleTaskOnTable
  <2>2. CASE \/ PublishPending \/ StartThread \/ HandleTaskStatus \/ HandleOther
             \/ HandleBroken \/ HandleSilent \/ QueueReply
    BY <2>2 DEF PublishPending, StartThread, HandleTaskStatus, HandleOther, HandleBroken,
                HandleSilent, QueueReply
  <2>3. QED
    BY <1>1, <2>1, <2>2 DEF ProcessStep
<1>2. ASSUME NEW r \in 1 .. MaxTasks, ThreadStep(r) PROVE [TMNext]_tmVars
  BY <1>2, ThreadOnTable
<1>3. ASSUME NEW c \in Client, NEW m \in Offered, Receive(c, m) PROVE [TMNext]_tmVars
  BY <1>3 DEF Receive
<1>4. CASE SendReply \/ (\E c \in Client : Disconnect(c))
  BY <1>4 DEF SendReply, Disconnect
<1>5. CASE Tick /\ UNCHANGED serverVars
  BY <1>5 DEF TMNext
<1>6. CASE UNCHANGED vars
  BY <1>6 DEF vars
<1>7. QED
  BY <1>1, <1>2, <1>3, <1>4, <1>5, <1>6 DEF Next

\* So the table's invariant and its objects are kept.
LEMMA StepKeepsTable ==
    ASSUME RouterInv, [Next]_vars
    PROVE  TableInv' /\ ObjectsKept /\ Len(infos') <= MaxTasks
BY StepsOnTable, NextKeepsTableInv, TableKeepsObjects DEF RouterInv

--------------------------------------------------------------------------------
(***************************************************************************)
(* The rest of the invariant, one lemma for each conjunct.                 *)
(***************************************************************************)
LEMMA ThreadFrame ==
    ASSUME NEW r, ThreadStep(r)
    PROVE  UNCHANGED <<requests, requestQueue, proc, inbox, undelivered, connected>>
BY DEF ThreadStep, PublishRunning, GetTask, PublishNoTask, SetStatus, Compiling, Compiled,
       Running, Succeeded, Fail, PostProcess, LookUpResult, TakeTiming, PublishSucceeded,
       QueueResult, QueueErrorResult

LEMMA ProcessFrame ==
    ASSUME ProcessStep
    PROVE  UNCHANGED <<requests, inbox, undelivered, connected>>
BY DEF ProcessStep, HandleTask, PublishPending, StartThread, HandleTaskStatus, HandleOther,
       HandleBroken, HandleSilent, QueueReply

LEMMA StepKeepsRequests ==
    ASSUME RouterInv, [Next]_vars
    PROVE  RequestsOK'
<1>t. /\ requests \in Seq([client : Client, msg : Offered])
      /\ requestQueue \in Seq(DOMAIN requests) /\ Len(requests) <= MaxRequests
      /\ Len(requests) \in Nat /\ DOMAIN requests = 1 .. Len(requests)
  BY LenProperties DEF RouterInv, RequestsOK
<1>1. ASSUME NEW c \in Client, NEW m \in Offered, Receive(c, m) PROVE RequestsOK'
  <2> DEFINE request == [client |-> c, msg |-> m]
  <2>1. /\ requests' = Append(requests, request) /\ Len(requests) < MaxRequests
        /\ \/ requestQueue' = requestQueue
           \/ requestQueue' = Append(requestQueue, Len(requests) + 1)
    BY <1>1 DEF Receive
  <2>2. request \in [client : Client, msg : Offered]
    OBVIOUS
  <2> HIDE DEF request
  <2>3. /\ requests' \in Seq([client : Client, msg : Offered])
        /\ Len(requests') = Len(requests) + 1
    BY <1>t, <2>1, <2>2, AppendProperties
  <2>4. DOMAIN requests' = 1 .. Len(requests) + 1
    BY <2>3, LenProperties
  <2>5. requestQueue \in Seq(DOMAIN requests') /\ Len(requests) + 1 \in DOMAIN requests'
    BY <1>t, <2>4
  <2>6. requestQueue' \in Seq(DOMAIN requests')
    <3>1. Append(requestQueue, Len(requests) + 1) \in Seq(DOMAIN requests')
      BY <2>5, AppendProperties
    <3>2. QED
      BY <2>1, <2>5, <3>1
  <2>7. QED
    BY <1>t, <2>1, <2>3, <2>6, RequestsAssumption DEF RequestsOK
<1>2. CASE ProcessStep
  <2>1. requestQueue' = requestQueue \/ \E type : Dequeue(type)
    BY <1>2 DEF ProcessStep, HandleTask, PublishPending, StartThread, HandleTaskStatus,
                HandleOther, HandleBroken, HandleSilent, QueueReply
  <2>2. requestQueue' \in Seq(DOMAIN requests)
    BY <1>t, <2>1, DequeueFacts
  <2>3. requests' = requests
    BY <1>2, ProcessFrame
  <2>4. QED
    BY <1>t, <2>2, <2>3 DEF RequestsOK
<1>3. CASE \/ SendReply \/ (\E c \in Client : Disconnect(c)) \/ UNCHANGED serverVars
           \/ \E r \in 1 .. MaxTasks : ThreadStep(r)
  <2>1. UNCHANGED <<requests, requestQueue>>
    BY <1>3, ThreadFrame DEF SendReply, Disconnect, serverVars
  <2>2. QED
    BY <1>t, <2>1 DEF RequestsOK
<1>4. QED
  BY <1>1, <1>2, <1>3 DEF Next, vars

\* A reply the server builds is a reply.
LEMMA ReplyTyped ==
    ASSUME NEW client \in Client, NEW type \in ReplyType, NEW sn \in Sn \cup {NoSn},
           NEW id \in TaskId \cup {NoId}, NEW err \in Nat, NEW data \in ReplyData
    PROVE  Reply(client, type, sn, id, err, data) \in Replies
BY DEF Reply, Replies, NoTask

\* The result of object o, under the id of object r.
LEMMA ResultType ==
    ASSUME RouterInv, NEW o \in DOMAIN infos, NEW d \in Nat, NEW r \in DOMAIN infos,
           NEW err \in Nat, NEW data \in ReplyData
    PROVE  ResultOf(o, d, IdOf(r), err, data) \in Replies
<1>1. infos[o] \in TaskInfo /\ IdOf(r) \in TaskId
  BY InfosFacts
<1>2. infos[o].identity \in Client /\ infos[o].sn \in Sn
  BY <1>1 DEF TaskInfo
<1>3. Reply(infos[o].identity, "MsgTaskResult", infos[o].sn, IdOf(r), err, data) \in Replies
  <2>1. infos[o].sn \in Sn \cup {NoSn} /\ IdOf(r) \in TaskId \cup {NoId}
    BY <1>1, <1>2
  <2>2. "MsgTaskResult" \in ReplyType
    BY DEF ReplyType
  <2>3. QED
    BY <1>2, <2>1, <2>2, ReplyTyped
<1>4. QED
  BY <1>3 DEF ResultOf, Replies

\* What the reply queue gains in a step.
LEMMA QueuedReply ==
    ASSUME RouterInv, NEW r \in 1 .. MaxTasks, ThreadStep(r)
    PROVE  \/ replyQueue' = replyQueue
           \/ \E o, i \in DOMAIN infos, d \in Nat, err \in Nat, data \in ReplyData :
                 /\ infos[o].task_id = IdOf(i)
                 /\ err = NO_ERROR => CountsFit(d, o)
                 /\ replyQueue' = Append(replyQueue, ResultOf(o, d, IdOf(i), err, data))
<1>1. CASE QueueResult(r)
  <2>1. /\ threads[r].at = "result"
        /\ replyQueue' = Append(replyQueue,
              ResultOf(threads[r].task, threads[r].measured, IdOf(r), NO_ERROR, threads[r].note))
    BY <1>1 DEF QueueResult, Exit
  <2>2. /\ r \in DOMAIN infos /\ threads[r].task \in DOMAIN infos
        /\ infos[threads[r].task].task_id = IdOf(r) /\ threads[r].note \in ReplyData
        /\ threads[r].measured \in Nat /\ CountsFit(threads[r].measured, threads[r].task)
    BY <2>1, RunningThread DEF ThreadFits, Holding, Thread, IdOf
  <2>3. QED
    BY <2>1, <2>2 DEF NO_ERROR
<1>2. CASE QueueErrorResult(r)
  <2>1. r \in DOMAIN infos /\ IdOf(r) \in TaskId
    BY <1>2, RunningThread DEF QueueErrorResult, Exit
  <2>2. CASE IsPresent(IdOf(r))
    <3>1. tasks[IdOf(r)] \in DOMAIN infos /\ infos[tasks[IdOf(r)]].task_id = IdOf(r)
      BY <2>1, <2>2 DEF RouterInv, TableInv, TMTypeOK, RefersToLatest
    <3>2. replyQueue' = Append(replyQueue,
                               ResultOf(tasks[IdOf(r)], NoTask, IdOf(r), UNDEFINED_ERROR, NoData))
      BY <1>2, <2>2 DEF QueueErrorResult
    <3>3. QED
      BY <2>1, <3>1, <3>2 DEF UNDEFINED_ERROR, NO_ERROR, ReplyData, NoTask
  <2>3. CASE ~IsPresent(IdOf(r))
    BY <1>2, <2>3 DEF QueueErrorResult
  <2>4. QED
    BY <2>2, <2>3
<1>3. CASE \/ PublishRunning(r) \/ GetTask(r) \/ PublishNoTask(r)
           \/ Compiling(r) \/ Compiled(r) \/ Running(r) \/ Succeeded(r) \/ PostProcess(r)
           \/ LookUpResult(r) \/ TakeTiming(r) \/ PublishSucceeded(r) \/ Fail(r)
  BY <1>3 DEF PublishRunning, GetTask, PublishNoTask, SetStatus, Compiling, Compiled, Running,
              Succeeded, Fail, PostProcess, LookUpResult, TakeTiming, PublishSucceeded
<1>4. QED
  BY <1>1, <1>2, <1>3 DEF ThreadStep

LEMMA ProcessQueues ==
    ASSUME ProcessStep
    PROVE  \/ replyQueue' = replyQueue
           \/ /\ QueueReply
              /\ proc.at = "reply" /\ replyQueue' = Append(replyQueue, proc.reply)
BY DEF ProcessStep, HandleTask, PublishPending, StartThread, HandleTaskStatus, HandleOther,
       HandleBroken, HandleSilent, QueueReply

\* What the send thread does with the reply at the head of the queue.
LEMMA SendFacts ==
    ASSUME RouterInv, SendReply
    PROVE  LET reply == Head(replyQueue)
           IN /\ replyQueue # <<>> /\ reply \in Replies /\ reply.client \in Client
              /\ replyQueue' = Tail(replyQueue)
              /\ \/ /\ inbox' = [inbox EXCEPT ![reply.client] =
                                    Append(inbox[reply.client], reply)]
                    /\ undelivered' = undelivered
                 \/ inbox' = inbox /\ undelivered' = Append(undelivered, reply)
<1> DEFINE reply == Head(replyQueue)
<1>1. replyQueue # <<>> /\ replyQueue' = Tail(replyQueue)
  BY DEF SendReply
<1>2. reply \in Replies
  BY <1>1, HeadTailProperties DEF RouterInv, RepliesOK
<1>3. reply.client \in Client
  BY <1>2 DEF Replies
<1>4. \/ /\ inbox' = [inbox EXCEPT ![reply.client] = Append(inbox[reply.client], reply)]
         /\ undelivered' = undelivered
      \/ inbox' = inbox /\ undelivered' = Append(undelivered, reply)
  BY DEF SendReply
<1>5. QED
  BY <1>1, <1>2, <1>3, <1>4

LEMMA StepKeepsReplies ==
    ASSUME RouterInv, [Next]_vars
    PROVE  RepliesOK'
<1>t. /\ replyQueue \in Seq(Replies) /\ inbox \in [Client -> Seq(Replies)]
      /\ undelivered \in Seq(Replies)
  BY DEF RouterInv, RepliesOK
<1>1. CASE SendReply
  <2> DEFINE reply == Head(replyQueue)
  <2>1. /\ replyQueue # <<>> /\ reply \in Replies /\ reply.client \in Client
        /\ replyQueue' = Tail(replyQueue)
        /\ \/ /\ inbox' = [inbox EXCEPT ![reply.client] = Append(inbox[reply.client], reply)]
              /\ undelivered' = undelivered
           \/ inbox' = inbox /\ undelivered' = Append(undelivered, reply)
    BY <1>1, SendFacts
  <2> HIDE DEF reply
  <2>2. replyQueue' \in Seq(Replies)
    BY <1>t, <2>1, HeadTailProperties
  <2>3. Append(inbox[reply.client], reply) \in Seq(Replies)
    BY <1>t, <2>1, AppendProperties
  <2>4. inbox' \in [Client -> Seq(Replies)]
    BY <1>t, <2>1, <2>3
  <2>5. undelivered' \in Seq(Replies)
    <3>1. undelivered' = undelivered \/ undelivered' = Append(undelivered, reply)
      BY <2>1
    <3>2. Append(undelivered, reply) \in Seq(Replies)
      BY <1>t, <2>1, AppendProperties
    <3>3. QED
      BY <1>t, <3>1, <3>2
  <2>6. QED
    BY <2>2, <2>4, <2>5 DEF RepliesOK
<1>2. CASE ProcessStep
  <2>1. UNCHANGED <<inbox, undelivered>>
    BY <1>2, ProcessFrame
  <2>2. proc.at = "reply" => proc.reply \in Replies
    BY DEF RouterInv, ProcOK
  <2>3. replyQueue' \in Seq(Replies)
    <3>1. \/ replyQueue' = replyQueue
          \/ proc.reply \in Replies /\ replyQueue' = Append(replyQueue, proc.reply)
      BY <1>2, <2>2, ProcessQueues
    <3>2. proc.reply \in Replies => Append(replyQueue, proc.reply) \in Seq(Replies)
      BY <1>t, AppendProperties
    <3>3. QED
      BY <1>t, <3>1, <3>2
  <2>4. QED
    BY <1>t, <2>1, <2>3 DEF RepliesOK
<1>3. ASSUME NEW r \in 1 .. MaxTasks, ThreadStep(r) PROVE RepliesOK'
  <2>1. UNCHANGED <<inbox, undelivered>>
    BY <1>3, ThreadFrame
  <2>2. replyQueue' \in Seq(Replies)
    <3>1. replyQueue' = replyQueue \/ \E x \in Replies : replyQueue' = Append(replyQueue, x)
      BY <1>3, QueuedReply, ResultType
    <3>2. \A x \in Replies : Append(replyQueue, x) \in Seq(Replies)
      BY <1>t, AppendProperties
    <3>3. QED
      BY <1>t, <3>1, <3>2
  <2>3. QED
    BY <1>t, <2>1, <2>2 DEF RepliesOK
<1>4. CASE \/ \E c \in Client, m \in Offered : Receive(c, m)
           \/ \E c \in Client : Disconnect(c)
           \/ UNCHANGED serverVars
  <2>1. UNCHANGED <<replyQueue, inbox, undelivered>>
    BY <1>4 DEF Receive, Disconnect, serverVars
  <2>2. QED
    BY <1>t, <2>1 DEF RepliesOK
<1>5. QED
  BY <1>1, <1>2, <1>3, <1>4 DEF Next, vars

\* add_task makes no other id appear.
LEMMA AddedPresence ==
    ASSUME TableInv, NEW id \in TaskId, NEW identity, NEW sn, NEW configure,
           AddTask(id, identity, sn, configure)
    PROVE  \A other \in TaskId : IsPresent(other)' => IsPresent(other) \/ other = id
<1> DEFINE appended == DequeAppend(taskQueue, id)
           inserted == [tasks EXCEPT ![id] = Len(infos) + 1]
<1>1. tasks' = inserted \/ tasks' = [inserted EXCEPT ![Head(appended)] = NoTask]
  BY DEF AddTask
<1>2. tasks \in [TaskId -> Nat]
  BY DEF TableInv, TMTypeOK
<1> HIDE DEF appended
<1>3. QED
  BY <1>1, <1>2 DEF IsPresent

\* A handler that leaves the reply to the process thread.
LEMMA AnswerKeepsProc ==
    ASSUME NEW type, RouterInv, Dequeue(type), NEW at \in {"reply", "pending"},
           NEW ack \in ReplyType, NEW replySn \in Sn \cup {NoSn}, NEW id \in TaskId \cup {NoId},
           NEW err \in Nat, NEW data \in ReplyData,
           Answer(at, Head(requestQueue), ack, replySn, id, err, data)
    PROVE  /\ proc' \in [at : {"reply", "pending"}, reply : Replies]
           /\ proc'.at = at /\ proc'.reply.type = ack /\ proc'.reply.task_id = id
<1> DEFINE client == requests[Head(requestQueue)].client
           reply == Reply(client, ack, replySn, id, err, data)
<1>1. client \in Client
  BY DequeueFacts
<1>2. proc' = [at |-> at, reply |-> reply]
  BY DEF Answer
<1>3. reply \in Replies /\ reply.type = ack /\ reply.task_id = id
  BY <1>1, ReplyTyped DEF Reply
<1> HIDE DEF reply
<1>4. QED
  BY <1>2, <1>3

LEMMA AckTypes ==
    /\ {"MsgTaskAck", "TaskStatusAck", "UndefinedMsg"} \subseteq ReplyType
    /\ \A type \in DOMAIN AckType : AckType[type] \in ReplyType /\ AckType[type] # "MsgTaskResult"
    /\ \A type \in DOMAIN BrokenType : BrokenType[type] \in Nat
    /\ \A type : AckErrors(type) \subseteq Nat
    /\ {NO_ERROR, UNDEFINED_ERROR, TASK_ID_DUPLICATE} \subseteq Nat
    /\ NoData \in ReplyData
<1>1. {NO_ERROR, UNDEFINED_ERROR, TASK_PARAM_ERROR, JSON_ERROR, AUTH_ERROR, TASK_ID_DUPLICATE}
         \subseteq Nat
  BY DEF NO_ERROR, UNDEFINED_ERROR, TASK_PARAM_ERROR, JSON_ERROR, AUTH_ERROR, TASK_ID_DUPLICATE
<1>2. \A type : AckErrors(type) \subseteq Nat
  BY <1>1 DEF AckErrors
<1>3. \A type \in DOMAIN BrokenType : BrokenType[type] \in Nat
  BY <1>1 DEF BrokenType
<1>4. \A type \in DOMAIN AckType : AckType[type] \in ReplyType /\ AckType[type] # "MsgTaskResult"
  BY DEF ReplyType, AckType
<1>5. QED
  BY <1>1, <1>2, <1>3, <1>4 DEF ReplyType, ReplyData

\* The status a query is answered with.
LEMMA StatusData ==
    ASSUME RouterInv, NEW id \in TaskId
    PROVE  GetTaskStatus(id) \in Status \cup {"NOTASK"}
<1>1. CASE IsPresent(id)
  <2>1. infos[tasks[id]] \in TaskInfo
    BY <1>1, InfosFacts DEF RouterInv, TableInv, TMTypeOK
  <2>2. QED
    BY <1>1, <2>1 DEF GetTaskStatus, TaskInfo
<1>2. CASE ~IsPresent(id)
  BY <1>2 DEF GetTaskStatus
<1>3. QED
  BY <1>1, <1>2

\* What the handlers leave behind: a reply to be queued, or a submission whose
\* object is the latest.
LEMMA HandlerFacts ==
    ASSUME RouterInv, ProcessStep
    PROVE  \/ /\ proc' \in [at : {"reply"}, reply : Replies]
              /\ proc'.reply.type # "MsgTaskResult"
           \/ /\ proc' \in [at : {"pending"}, reply : Replies]
              /\ proc'.reply.type # "MsgTaskResult"
              /\ infos' # <<>> /\ infos'[Len(infos')].task_id = proc'.reply.task_id
              /\ \A id \in TaskId : IsPresent(id)' => IsPresent(id) \/ id = proc'.reply.task_id
           \/ PublishPending \/ StartThread
           \/ proc' = [at |-> "idle", reply |-> NoReply]
           \/ proc' = proc /\ infos' = infos
<1> DEFINE sn == Head(requestQueue)
           m  == requests[sn].msg
<1>1. CASE HandleTask
  <2>1. Dequeue("MsgTask")
    BY <1>1 DEF HandleTask
  <2>2. /\ sn \in Sn /\ requests[sn].client \in Client /\ m \in Offered
        /\ m \in Request /\ m.type = "MsgTask"
    BY <2>1, DequeueFacts
  <2>3. m.id \in TaskId /\ m.configure \in Configure
    BY <2>2, OfferedAssumption DEF Request
  <2>4. \/ Answer("reply", sn, "MsgTaskAck", sn, m.id, TASK_ID_DUPLICATE, NoData)
        \/ /\ AddTask(m.id, requests[sn].client, sn, m.configure)
           /\ Answer("pending", sn, "MsgTaskAck", sn, m.id, NO_ERROR, NoData)
    BY <1>1 DEF HandleTask
  <2> HIDE DEF m, sn
  <2>5. CASE Answer("reply", sn, "MsgTaskAck", sn, m.id, TASK_ID_DUPLICATE, NoData)
    BY <2>1, <2>2, <2>3, <2>5, AckTypes, AnswerKeepsProc DEF sn
  <2>6. CASE /\ AddTask(m.id, requests[sn].client, sn, m.configure)
             /\ Answer("pending", sn, "MsgTaskAck", sn, m.id, NO_ERROR, NoData)
    <3>1. /\ proc' \in [at : {"pending"}, reply : Replies]
          /\ proc'.reply.type = "MsgTaskAck" /\ proc'.reply.task_id = m.id
      BY <2>1, <2>2, <2>3, <2>6, AckTypes, AnswerKeepsProc DEF sn
    <3>2. infos' = Append(infos, NewTaskInfo(m.id, requests[sn].client, sn, m.configure))
      BY <2>6 DEF AddTask
    <3>3. /\ infos' \in Seq(TaskInfo) /\ Len(infos) \in Nat
          /\ DOMAIN infos' = 1 .. Len(infos) + 1
          /\ infos'[Len(infos) + 1].task_id = m.id
      BY <2>2, <2>3, <3>2, InfosAppended DEF RouterInv, TableInv
    <3>4. Len(infos') = Len(infos) + 1 /\ infos' # <<>>
      BY <3>3, LenProperties
    <3>5. \A id \in TaskId : IsPresent(id)' => IsPresent(id) \/ id = m.id
      BY <2>3, <2>6, AddedPresence DEF RouterInv
    <3>6. QED
      BY <3>1, <3>3, <3>4, <3>5
  <2>7. QED
    BY <2>4, <2>5, <2>6
<1>2. CASE HandleTaskStatus
  <2>1. /\ Dequeue("TaskStatus")
        /\ \E status \in Status \cup {"NOTASK"} :
              Answer("reply", sn, "TaskStatusAck", sn, NoId, NO_ERROR, [TaskStatus |-> status])
    BY <1>2, StatusData DEF HandleTaskStatus
  <2>2. PICK status \in Status \cup {"NOTASK"} :
              Answer("reply", sn, "TaskStatusAck", sn, NoId, NO_ERROR, [TaskStatus |-> status])
    BY <2>1
  <2>3. sn \in Sn /\ [TaskStatus |-> status] \in ReplyData
    BY <2>1, DequeueFacts DEF ReplyData
  <2>4. QED
    BY <2>1, <2>2, <2>3, AckTypes, AnswerKeepsProc
<1>3. CASE HandleOther
  <2>1. PICK type \in DOMAIN AckType :
           /\ Dequeue(type)
           /\ \E err \in AckErrors(type), replySn \in {sn, NoSn} :
                 Answer("reply", sn, AckType[type], replySn, NoId, err, NoData)
    BY <1>3 DEF HandleOther
  <2>2. PICK err \in AckErrors(type), replySn \in {sn, NoSn} :
           Answer("reply", sn, AckType[type], replySn, NoId, err, NoData)
    BY <2>1
  <2>3. sn \in Sn /\ err \in Nat
    BY <2>1, DequeueFacts, AckTypes
  <2>4. /\ AckType[type] \in ReplyType /\ AckType[type] # "MsgTaskResult"
        /\ NoData \in ReplyData
    BY AckTypes
  <2>5. /\ proc' \in [at : {"reply", "pending"}, reply : Replies]
        /\ proc'.at = "reply" /\ proc'.reply.type = AckType[type]
    BY <2>1, <2>2, <2>3, <2>4, AnswerKeepsProc
  <2>6. QED
    BY <2>4, <2>5
<1>4. CASE HandleBroken
  <2>1. PICK type \in DOMAIN BrokenType :
           /\ Dequeue(type)
           /\ Answer("reply", sn, "UndefinedMsg", NoSn, NoId, BrokenType[type], NoData)
    BY <1>4 DEF HandleBroken
  <2>2. QED
    BY <2>1, AckTypes, AnswerKeepsProc
<1>5. CASE HandleSilent \/ QueueReply \/ PublishPending \/ StartThread
  BY <1>5 DEF HandleSilent, QueueReply, tmVars
<1>6. QED
  BY <1>1, <1>2, <1>3, <1>4, <1>5 DEF ProcessStep

\* A task thread rewrites objects and makes none.
LEMMA ThreadKeepsLength ==
    ASSUME RouterInv, [Next]_vars, NEW r \in 1 .. MaxTasks, ThreadStep(r)
    PROVE  Len(infos') = Len(infos) /\ DOMAIN infos' = DOMAIN infos
<1>1. DOMAIN infos' = DOMAIN infos
  BY DEF ThreadStep, PublishRunning, GetTask, PublishNoTask, SetStatus, Compiling, Compiled,
         Running, Succeeded, Fail, PostProcess, LookUpResult, TakeTiming, PublishSucceeded,
         QueueResult, QueueErrorResult, UpdateTaskStatus, SetProcessTimes, tmVars
<1>2. infos \in Seq(TaskInfo) /\ infos' \in Seq(TaskInfo)
  BY StepKeepsTable DEF RouterInv, TableInv, TMTypeOK
<1>3. /\ DOMAIN infos = 1 .. Len(infos) /\ Len(infos) \in Nat
      /\ DOMAIN infos' = 1 .. Len(infos') /\ Len(infos') \in Nat
  BY <1>2, LenProperties
<1>4. QED
  BY <1>1, <1>3

\* Any step that leaves the process thread alone leaves its object the latest.
LEMMA ProcKept ==
    ASSUME RouterInv, [Next]_vars, proc' = proc, Len(infos') = Len(infos)
    PROVE  ProcOK'
<1>1. proc.at \in {"pending", "spawn"} => infos # <<>> /\ infos[Len(infos)].task_id = proc.reply.task_id
  BY DEF RouterInv, ProcOK, StartsLatest
<1>2. /\ ObjectsKept /\ infos \in Seq(TaskInfo) /\ DOMAIN infos = 1 .. Len(infos)
      /\ Len(infos) \in Nat
  BY StepKeepsTable, InfosFacts
<1>3. infos # <<>> => Len(infos) \in DOMAIN infos
  BY <1>2, EmptySeq
<1>4. infos # <<>> => infos' # <<>>
  BY <1>2, <1>3 DEF ObjectsKept
<1>5. StartsLatest'
  BY <1>1, <1>2, <1>3, <1>4 DEF StartsLatest, ObjectsKept
<1>6. QED
  BY <1>5 DEF RouterInv, ProcOK

LEMMA StepKeepsProc ==
    ASSUME RouterInv, [Next]_vars
    PROVE  ProcOK'
<1>t. /\ proc \in [at : {"idle", "pending", "spawn", "reply"}, reply : Replies \cup {NoReply}]
      /\ proc.at # "idle" => proc.reply \in Replies
      /\ StartsLatest
  BY DEF RouterInv, ProcOK
<1>1. CASE ProcessStep
  <2>1. CASE proc' \in [at : {"reply"}, reply : Replies]
    BY <2>1 DEF ProcOK, StartsLatest
  <2>2. CASE /\ proc' \in [at : {"pending"}, reply : Replies]
             /\ infos' # <<>> /\ infos'[Len(infos')].task_id = proc'.reply.task_id
    BY <2>2 DEF ProcOK, StartsLatest
  <2>3. CASE PublishPending
    <3>1. /\ proc.at = "pending" /\ proc' = [proc EXCEPT !.at = "spawn"] /\ infos' = infos
      BY <2>3 DEF PublishPending, tmVars
    <3>2. proc'.at = "spawn" /\ proc'.reply = proc.reply
      BY <1>t, <3>1
    <3>3. proc' \in [at : {"spawn"}, reply : Replies]
      BY <1>t, <3>1
    <3>4. QED
      BY <1>t, <3>1, <3>2, <3>3 DEF ProcOK, StartsLatest
  <2>4. CASE StartThread
    <3>1. proc.at = "spawn" /\ proc' = [proc EXCEPT !.at = "reply"]
      BY <2>4 DEF StartThread
    <3>2. proc' \in [at : {"reply"}, reply : Replies]
      BY <1>t, <3>1
    <3>3. QED
      BY <3>2 DEF ProcOK, StartsLatest
  <2>5. CASE proc' = [at |-> "idle", reply |-> NoReply]
    BY <2>5 DEF ProcOK, StartsLatest
  <2>6. CASE proc' = proc /\ infos' = infos
    BY <2>6, ProcKept
  <2>7. QED
    BY <1>1, <2>1, <2>2, <2>3, <2>4, <2>5, <2>6, HandlerFacts
<1>2. ASSUME NEW r \in 1 .. MaxTasks, ThreadStep(r) PROVE ProcOK'
  BY <1>2, ThreadFrame, ThreadKeepsLength, ProcKept
<1>3. CASE \/ \E c \in Client, m \in Offered : Receive(c, m)
           \/ SendReply \/ (\E c \in Client : Disconnect(c))
           \/ Tick /\ UNCHANGED serverVars
           \/ UNCHANGED vars
  <2>1. proc' = proc /\ infos' = infos
    BY <1>3 DEF Receive, SendReply, Disconnect, Tick, serverVars, tmVars, vars
  <2>2. QED
    BY <2>1, ProcKept
<1>4. QED
  BY <1>1, <1>2, <1>3 DEF Next

\* The times a task thread takes for its result.
LEMMA TimingData ==
    ASSUME RouterInv, NEW id \in TaskId
    PROVE  GetTimingInfo(id) \in ReplyData
<1>1. CASE IsPresent(id)
  <2> DEFINE t == infos[tasks[id]].time
  <2>1. infos[tasks[id]] \in TaskInfo
    BY <1>1, InfosFacts DEF RouterInv, TableInv, TMTypeOK
  <2>2. t \in [Stamp -> Nat]
    BY <2>1 DEF TaskInfo
  <2>3. \A s \in Stamp : t[s] \in Int
    BY <2>2
  <2> HIDE DEF t
  <2>4. /\ t["compile_end"] - t["compile_start"] \in Int
        /\ t["measure_end"] - t["measure_start"] \in Int
        /\ t["process_end"] - t["process_start"] \in Int
        /\ t["pending_end"] - t["pending_start"] \in Int
    BY <2>3 DEF Stamp
  <2>5. GetTimingInfo(id) = [CompileTime     |-> t["compile_end"] - t["compile_start"],
                             MeasureTime     |-> t["measure_end"] - t["measure_start"],
                             PostProcessTime |-> t["process_end"] - t["process_start"],
                             PendingTime     |-> t["pending_end"] - t["pending_start"]]
    BY <1>1 DEF GetTimingInfo, t
  <2>6. QED
    BY <2>4, <2>5 DEF ReplyData
<1>2. CASE ~IsPresent(id)
  BY <1>2 DEF GetTimingInfo, ReplyData, NoData
<1>3. QED
  BY <1>1, <1>2

LEMMA GotoKeepsThreads ==
    ASSUME RouterInv, ObjectsKept, NEW r \in 1 .. MaxTasks, NEW from \in At, NEW to \in At,
           Goto(r, from, to), from \notin {"idle", "done"}, to \in Holding => from \in Holding
    PROVE  ThreadsOK'
<1> DEFINE t == [threads[r] EXCEPT !.at = to]
<1>1. threads[r].at = from /\ threads \in [1 .. MaxTasks -> Thread]
  BY DEF Goto, RouterInv, ThreadsOK
<1>2. threads[r] \in Thread /\ ThreadFits(r, threads[r]) /\ r \in DOMAIN infos
  BY <1>1, RunningThread
<1>3. threads' = [threads EXCEPT ![r] = t]
  BY DEF Goto
<1>4. t \in Thread /\ t.at = to /\ t.task = threads[r].task /\ t.measured = threads[r].measured
  BY <1>2 DEF Thread
<1> HIDE DEF t
<1>5. ThreadFits(r, t)
  BY <1>1, <1>2, <1>4 DEF ThreadFits
<1>6. QED
  BY <1>3, <1>4, <1>5, ThreadReplaced

\* A thread that has ended holds nothing.
LEMMA DoneFits ==
    ASSUME NEW r
    PROVE  [Idle EXCEPT !.at = "done"] \in Thread /\ ThreadFits(r, [Idle EXCEPT !.at = "done"])
<1> DEFINE t == [Idle EXCEPT !.at = "done"]
<1>1. Idle \in Thread /\ Idle.task = NoTask
  BY DEF Idle, Thread, At, ReplyData, NoTask
<1>2. t \in Thread /\ t.at = "done" /\ t.task = NoTask
  BY <1>1 DEF Thread, At
<1> HIDE DEF t
<1>3. ThreadFits(r, t)
  BY <1>2 DEF ThreadFits, Holding
<1>4. QED
  BY <1>2, <1>3 DEF t

LEMMA ExitKeepsThreads ==
    ASSUME RouterInv, ObjectsKept, NEW r \in 1 .. MaxTasks, NEW from, Exit(r, from)
    PROVE  ThreadsOK'
<1>1. threads' = [threads EXCEPT ![r] = [Idle EXCEPT !.at = "done"]]
  BY DEF Exit
<1>2. QED
  BY <1>1, DoneFits, ThreadReplaced

\* A thread that looks its object up by id finds one of its id.
LEMMA LookedUp ==
    ASSUME RouterInv, NEW id \in TaskId, IsPresent(id)
    PROVE  /\ tasks[id] \in DOMAIN infos /\ infos[tasks[id]].task_id = id /\ tasks[id] \in Nat
           /\ \A d \in DOMAIN infos : infos[d].task_id = id => CountsFit(d, tasks[id])
BY DEF RouterInv, TableInv, TMTypeOK, RefersToLatest, CountsFit

LEMMA ThreadStepKeepsThreads ==
    ASSUME RouterInv, ObjectsKept, NEW r \in 1 .. MaxTasks, ThreadStep(r)
    PROVE  ThreadsOK'
<1>1. CASE PublishRunning(r) \/ PublishSucceeded(r)
  <2>1. Goto(r, "running", "get") \/ Goto(r, "success", "result")
    BY <1>1 DEF PublishRunning, PublishSucceeded
  <2>2. QED
    BY <2>1, GotoKeepsThreads DEF At, Holding
<1>2. CASE Compiling(r) \/ Compiled(r) \/ Succeeded(r) \/ PostProcess(r) \/ Fail(r)
  <2>1. \/ Goto(r, "compile", "compiled") \/ Goto(r, "compiled", "run")
        \/ Goto(r, "succeed", "post") \/ Goto(r, "post", "lookup") \/ Goto(r, "fail", "error")
    BY <1>2 DEF Compiling, Compiled, Succeeded, PostProcess, Fail, SetStatus
  <2>2. QED
    BY <2>1, GotoKeepsThreads DEF At, Holding
<1>3. CASE Running(r)
  <2>1. \E to \in {"succeed", "fail"} : Goto(r, "run", to)
    BY <1>3 DEF Running, SetStatus
  <2>2. QED
    BY <2>1, GotoKeepsThreads DEF At, Holding
<1>4. CASE GetTask(r)
  <2> DEFINE id == IdOf(r)
             at == IF IsPresent(id) THEN "compile" ELSE "notask"
             t  == [threads[r] EXCEPT !.at = at, !.task = tasks[id], !.measured = tasks[id]]
  <2>1. threads[r].at = "get" /\ threads' = [threads EXCEPT ![r] = t]
    BY <1>4 DEF GetTask
  <2>2. threads[r] \in Thread /\ r \in DOMAIN infos /\ id \in TaskId
    BY <2>1, RunningThread
  <2>3. /\ at \in At /\ at \notin {"idle", "done"} /\ tasks[id] \in Nat
        /\ at \in Holding => /\ tasks[id] \in DOMAIN infos /\ infos[tasks[id]].task_id = id
                             /\ CountsFit(tasks[id], tasks[id])
        /\ tasks[id] \in {NoTask} \cup DOMAIN infos
    <3>1. CASE IsPresent(id)
      BY <2>2, <3>1, LookedUp DEF At
    <3>2. CASE ~IsPresent(id)
      BY <3>2 DEF At, Holding, IsPresent, NoTask
    <3>3. QED
      BY <3>1, <3>2
  <2> HIDE DEF at
  <2>4. t \in Thread /\ t.at = at /\ t.task = tasks[id] /\ t.measured = tasks[id]
    BY <2>2, <2>3 DEF Thread
  <2> HIDE DEF t
  <2>5. ThreadFits(r, t)
    BY <2>2, <2>3, <2>4 DEF ThreadFits, IdOf
  <2>6. QED
    BY <2>1, <2>4, <2>5, ThreadReplaced
<1>5. CASE LookUpResult(r)
  <2> DEFINE id == IdOf(r)
             t  == [threads[r] EXCEPT !.at = "timing", !.task = tasks[id]]
  <2>1. threads[r].at = "lookup"
    BY <1>5 DEF LookUpResult
  <2>2. threads[r] \in Thread /\ r \in DOMAIN infos /\ id \in TaskId
    BY <2>1, RunningThread
  <2>m. threads[r].measured \in DOMAIN infos /\ infos[threads[r].measured].task_id = id
    BY <2>1, RunningThread DEF ThreadFits, Holding, CountsFit, IdOf
  <2>3. CASE IsPresent(id)
    <3>1. threads' = [threads EXCEPT ![r] = t]
      BY <1>5, <2>3 DEF LookUpResult
    <3>2. /\ tasks[id] \in DOMAIN infos /\ infos[tasks[id]].task_id = id /\ tasks[id] \in Nat
          /\ CountsFit(threads[r].measured, tasks[id])
      BY <2>2, <2>m, <2>3, LookedUp
    <3>3. t \in Thread /\ t.at = "timing" /\ t.task = tasks[id] /\ t.measured = threads[r].measured
      BY <2>2, <3>2 DEF Thread, At
    <3> HIDE DEF t
    <3>4. ThreadFits(r, t)
      BY <2>2, <3>2, <3>3 DEF ThreadFits, IdOf
    <3>5. QED
      BY <3>1, <3>3, <3>4, ThreadReplaced
  <2>4. CASE ~IsPresent(id)
    <3>1. threads' = [threads EXCEPT ![r] = [Idle EXCEPT !.at = "done"]]
      BY <1>5, <2>4 DEF LookUpResult
    <3>2. QED
      BY <3>1, DoneFits, ThreadReplaced
  <2>5. QED
    BY <2>3, <2>4
<1>6. CASE TakeTiming(r)
  <2> DEFINE note == GetTimingInfo(IdOf(r))
             t    == [threads[r] EXCEPT !.at = "success", !.note = note]
  <2>1. threads[r].at = "timing" /\ threads' = [threads EXCEPT ![r] = t]
    BY <1>6 DEF TakeTiming
  <2>2. /\ threads[r] \in Thread /\ r \in DOMAIN infos /\ IdOf(r) \in TaskId
        /\ ThreadFits(r, threads[r])
    BY <2>1, RunningThread
  <2>3. note \in ReplyData
    BY <2>2, TimingData
  <2> HIDE DEF note
  <2>4. /\ t \in Thread /\ t.at = "success" /\ t.task = threads[r].task
        /\ t.measured = threads[r].measured
    BY <2>2, <2>3 DEF Thread, At
  <2> HIDE DEF t
  <2>5. ThreadFits(r, t)
    BY <2>1, <2>2, <2>4 DEF ThreadFits, Holding
  <2>6. QED
    BY <2>1, <2>4, <2>5, ThreadReplaced
<1>7. CASE PublishNoTask(r) \/ QueueResult(r) \/ QueueErrorResult(r)
  BY <1>7, ExitKeepsThreads DEF PublishNoTask, QueueResult, QueueErrorResult
<1>8. QED
  BY <1>1, <1>2, <1>3, <1>4, <1>5, <1>6, <1>7 DEF ThreadStep

LEMMA StartKeepsThreads ==
    ASSUME RouterInv, ObjectsKept, StartThread
    PROVE  ThreadsOK'
<1> DEFINE r == Len(infos)
           t == [threads[r] EXCEPT !.at = "running"]
<1>1. proc.at = "spawn" /\ threads' = [threads EXCEPT ![r] = t]
  BY DEF StartThread
<1>2. r \in DOMAIN infos /\ r \in 1 .. MaxTasks
  BY <1>1, InfosFacts, EmptySeq DEF RouterInv, ProcOK, StartsLatest
<1>3. threads[r] \in Thread /\ threads[r].task \in {NoTask} \cup DOMAIN infos
  BY <1>2 DEF RouterInv, ThreadsOK, ThreadFits
<1> HIDE DEF r
<1>4. t \in Thread /\ t.at = "running" /\ t.task = threads[r].task
  BY <1>3 DEF Thread, At
<1> HIDE DEF t
<1>5. ThreadFits(r, t)
  BY <1>2, <1>3, <1>4 DEF ThreadFits, Holding
<1>6. QED
  BY <1>1, <1>2, <1>4, <1>5, ThreadReplaced

LEMMA StepKeepsThreads ==
    ASSUME RouterInv, [Next]_vars
    PROVE  ThreadsOK'
<1>t. ObjectsKept
  BY StepKeepsTable
<1>1. ASSUME NEW r \in 1 .. MaxTasks, ThreadStep(r) PROVE ThreadsOK'
  BY <1>t, <1>1, ThreadStepKeepsThreads
<1>2. CASE StartThread
  BY <1>t, <1>2, StartKeepsThreads
<1>3. CASE \/ HandleTask \/ PublishPending \/ HandleTaskStatus \/ HandleOther
           \/ HandleBroken \/ HandleSilent \/ QueueReply
           \/ \E c \in Client, m \in Offered : Receive(c, m)
           \/ SendReply \/ (\E c \in Client : Disconnect(c)) \/ UNCHANGED serverVars
  <2>1. threads' = threads
    BY <1>3 DEF HandleTask, PublishPending, HandleTaskStatus, HandleOther, HandleBroken,
                HandleSilent, QueueReply, Receive, SendReply, Disconnect, serverVars
  <2>2. QED
    BY <1>t, <2>1, ThreadsKept
<1>4. QED
  BY <1>1, <1>2, <1>3 DEF Next, ProcessStep, vars

LEMMA PublishKeepsType ==
    ASSUME published \in [Watched -> Seq(Status)], NEW id, NEW status \in Status,
           Publish(id, status)
    PROVE  published' \in [Watched -> Seq(Status)]
<1>1. \A i \in Watched : Append(published[i], status) \in Seq(Status)
  BY AppendProperties
<1>2. published' = [i \in Watched |-> IF i = id THEN Append(published[i], status)
                                                ELSE published[i]]
  BY DEF Publish
<1>3. QED
  BY <1>1, <1>2

LEMMA StepKeepsPublished ==
    ASSUME RouterInv, [Next]_vars
    PROVE  published' \in [Watched -> Seq(Status)]
<1>t. published \in [Watched -> Seq(Status)]
  BY DEF RouterInv
<1>1. ASSUME NEW r \in 1 .. MaxTasks, ThreadStep(r) PROVE published' \in [Watched -> Seq(Status)]
  <2>1. \/ published' = published
        \/ \E status \in {"RUNNING", "SUCCESSED", "FAILED"} : Publish(IdOf(r), status)
    BY <1>1 DEF ThreadStep, PublishRunning, GetTask, PublishNoTask, SetStatus, Compiling, Compiled,
                Running, Succeeded, Fail, PostProcess, LookUpResult, TakeTiming, PublishSucceeded,
                QueueResult, QueueErrorResult
  <2>2. QED
    BY <1>t, <2>1, PublishKeepsType DEF Status
<1>2. CASE PublishPending
  BY <1>t, <1>2, PublishKeepsType DEF PublishPending, Status
<1>3. CASE \/ HandleTask \/ StartThread \/ HandleTaskStatus \/ HandleOther
           \/ HandleBroken \/ HandleSilent \/ QueueReply
           \/ \E c \in Client, m \in Offered : Receive(c, m)
           \/ SendReply \/ (\E c \in Client : Disconnect(c)) \/ UNCHANGED serverVars
  BY <1>t, <1>3 DEF HandleTask, StartThread, HandleTaskStatus, HandleOther, HandleBroken,
                    HandleSilent, QueueReply, Receive, SendReply, Disconnect, serverVars
<1>4. QED
  BY <1>1, <1>2, <1>3 DEF Next, ProcessStep, vars

LEMMA StepKeepsConnected ==
    ASSUME RouterInv, [Next]_vars
    PROVE  connected' \subseteq Client
<1>1. connected' \subseteq connected
  BY ProcessFrame, ThreadFrame DEF Next, vars, Receive, SendReply, Disconnect, serverVars
<1>2. QED
  BY <1>1 DEF RouterInv

LEMMA InitRouterInv == Init => RouterInv
<1> SUFFICES ASSUME Init PROVE RouterInv
  OBVIOUS
<1>1. TableInv /\ Len(infos) <= MaxTasks
  BY InitTableInv, EmptySeq, RequestsAssumption DEF Init, TMInit
<1>2. RequestsOK
  BY EmptySeq, RequestsAssumption DEF Init, RequestsOK
<1>3. RepliesOK
  BY EmptySeq DEF Init, RepliesOK
<1>4. ProcOK
  BY DEF Init, ProcOK, StartsLatest
<1>5. ThreadsOK
  <2>1. Idle \in Thread /\ \A r : ThreadFits(r, Idle)
    BY DEF Idle, Thread, At, ReplyData, NoTask, ThreadFits, Holding
  <2>2. QED
    BY <2>1 DEF Init, ThreadsOK
<1>6. published \in [Watched -> Seq(Status)] /\ connected \subseteq Client
  BY EmptySeq DEF Init
<1>7. QED
  BY <1>1, <1>2, <1>3, <1>4, <1>5, <1>6 DEF RouterInv

LEMMA NextKeepsRouterInv == RouterInv /\ [Next]_vars => RouterInv'
BY StepKeepsTable, StepKeepsRequests, StepKeepsReplies, StepKeepsProc, StepKeepsThreads,
   StepKeepsPublished, StepKeepsConnected DEF RouterInv

--------------------------------------------------------------------------------
(***************************************************************************)
(* Type correctness of the server, for every number of clients, requests   *)
(* and tasks: no thread works on an object that does not exist.            *)
(***************************************************************************)
THEOREM RouterType == Spec => []RouterTypeOK
BY InitRouterInv, NextKeepsRouterInv, InvGivesType, PTL DEF Spec

(***************************************************************************)
(* The server implements the task table: whatever its three threads and    *)
(* the task threads do, the table moves only by the methods of             *)
(* TaskManager, called with arguments of their types.                      *)
(***************************************************************************)
THEOREM ServerUsesTable == Spec => TMSpec
<1>1. Init => TMInit
  BY DEF Init
<1>2. RouterInv /\ [Next]_vars => [TMNext]_tmVars
  BY StepsOnTable
<1>3. QED
  BY <1>1, <1>2, InitRouterInv, NextKeepsRouterInv, PTL DEF Spec, TMSpec

(***************************************************************************)
(* So a server, which never calls remove_task, evicts only its oldest      *)
(* task, and only when its table is full, and the `del` of add_task never  *)
(* raises in the process thread.                                           *)
(***************************************************************************)
THEOREM ServerEvictsOldest ==
    ASSUME Removable = {}
    PROVE  Spec => EvictsOldestWhenFull /\ [](\A id \in TaskId : ~AddTaskRaises(id))
BY ServerUsesTable, OnlyOldestIsEvicted, AddTaskNeverRaises

--------------------------------------------------------------------------------
(***************************************************************************)
(* Results go to submitters.  The reply in the hands of the process thread *)
(* is never a task result, and every reply that was queued stands for a    *)
(* submission.                                                             *)
(***************************************************************************)
SubmitterInv ==
    /\ \A i \in DOMAIN replyQueue : FromSubmission(replyQueue[i])
    /\ \A i \in DOMAIN undelivered : FromSubmission(undelivered[i])
    /\ \A c \in Client : \A i \in DOMAIN inbox[c] :
          FromSubmission(inbox[c][i]) /\ inbox[c][i].client = c
    /\ proc.at # "idle" => ~IsResult(proc.reply)

\* The objects a reply stands for are kept.
LEMMA FromSubmissionKept ==
    ASSUME ObjectsKept, NEW reply, FromSubmission(reply)
    PROVE  FromSubmission(reply)'
<1>1. \A o \in DOMAIN infos : \A d : CountsFit(d, o) => CountsFit(d, o)'
  BY DEF ObjectsKept, CountsFit
<1>2. QED
  BY <1>1 DEF ObjectsKept, FromSubmission, IsResult

\* A property of the members of a sequence, after Append and Tail.
LEMMA AppendMembers ==
    ASSUME NEW q \in Seq(Replies), NEW x
    PROVE  \A i \in DOMAIN Append(q, x) :
              Append(q, x)[i] = x \/ \E j \in DOMAIN q : Append(q, x)[i] = q[j]
<1>1. /\ Len(Append(q, x)) = Len(q) + 1 /\ Append(q, x)[Len(q) + 1] = x
      /\ \A j \in 1 .. Len(q) : Append(q, x)[j] = q[j]
      /\ Len(q) \in Nat /\ DOMAIN q = 1 .. Len(q)
      /\ DOMAIN Append(q, x) = 1 .. Len(q) + 1
  BY LenProperties, AppendProperties
<1>2. QED
  BY <1>1

LEMMA TailMembers ==
    ASSUME NEW q \in Seq(Replies), q # <<>>
    PROVE  /\ \A i \in DOMAIN Tail(q) : \E j \in DOMAIN q : Tail(q)[i] = q[j]
           /\ \E j \in DOMAIN q : Head(q) = q[j]
<1>1. /\ Tail(q) \in Seq(Replies) /\ Len(Tail(q)) = Len(q) - 1
      /\ \A i \in 1 .. Len(Tail(q)) : Tail(q)[i] = q[i + 1]
      /\ Len(q) \in Nat \ {0} /\ DOMAIN q = 1 .. Len(q)
  BY HeadTailProperties, LenProperties, EmptySeq
<1>2. DOMAIN Tail(q) = 1 .. Len(q) - 1
  BY <1>1, LenProperties
<1>3. Head(q) = q[1]
  OBVIOUS
<1>4. QED
  BY <1>1, <1>2, <1>3

LEMMA SendKeepsSubmitter ==
    ASSUME RouterInv, SubmitterInv, SendReply
    PROVE  SubmitterInv'
<1> DEFINE reply == Head(replyQueue)
<1>t. /\ replyQueue \in Seq(Replies) /\ inbox \in [Client -> Seq(Replies)]
      /\ undelivered \in Seq(Replies)
  BY DEF RouterInv, RepliesOK
<1>1. /\ replyQueue # <<>> /\ reply.client \in Client
      /\ replyQueue' = Tail(replyQueue)
      /\ \/ /\ inbox' = [inbox EXCEPT ![reply.client] = Append(inbox[reply.client], reply)]
            /\ undelivered' = undelivered
         \/ inbox' = inbox /\ undelivered' = Append(undelivered, reply)
  BY SendFacts
<1>2. infos' = infos /\ proc' = proc
  BY DEF SendReply, tmVars
<1>3. \A x : FromSubmission(x)' <=> FromSubmission(x)
  BY <1>2 DEF FromSubmission, IsResult, CountsFit
<1>4. FromSubmission(reply)
  BY <1>t, <1>1, TailMembers DEF SubmitterInv
<1> HIDE DEF reply
<1>5. \A i \in DOMAIN Tail(replyQueue) : FromSubmission(Tail(replyQueue)[i])
  BY <1>t, <1>1, TailMembers DEF SubmitterInv
<1>6. \A i \in DOMAIN undelivered' : FromSubmission(undelivered'[i])
  <2>1. undelivered' = undelivered \/ undelivered' = Append(undelivered, reply)
    BY <1>1
  <2>2. \A i \in DOMAIN Append(undelivered, reply) : FromSubmission(Append(undelivered, reply)[i])
    BY <1>t, <1>4, AppendMembers DEF SubmitterInv
  <2>3. QED
    BY <2>1, <2>2 DEF SubmitterInv
<1>7. ASSUME NEW c \in Client, NEW i \in DOMAIN inbox'[c]
      PROVE  FromSubmission(inbox'[c][i]) /\ inbox'[c][i].client = c
  <2>1. inbox'[c] = inbox[c] \/ (c = reply.client /\ inbox'[c] = Append(inbox[c], reply))
    BY <1>t, <1>1
  <2>2. \/ i \in DOMAIN inbox[c] /\ inbox'[c][i] = inbox[c][i]
        \/ /\ c = reply.client
           /\ inbox'[c][i] = reply \/ \E j \in DOMAIN inbox[c] : inbox'[c][i] = inbox[c][j]
    <3>1. inbox[c] \in Seq(Replies)
      BY <1>t
    <3>2. \A k \in DOMAIN Append(inbox[c], reply) :
             \/ Append(inbox[c], reply)[k] = reply
             \/ \E j \in DOMAIN inbox[c] : Append(inbox[c], reply)[k] = inbox[c][j]
      BY <3>1, AppendMembers
    <3>3. CASE inbox'[c] = inbox[c]
      BY <3>3
    <3>4. CASE c = reply.client /\ inbox'[c] = Append(inbox[c], reply)
      BY <3>2, <3>4
    <3>5. QED
      BY <2>1, <3>3, <3>4
  <2>3. QED
    BY <1>4, <2>2 DEF SubmitterInv
<1>8. QED
  BY <1>1, <1>2, <1>3, <1>5, <1>6, <1>7 DEF SubmitterInv, IsResult

\* A reply is queued.
LEMMA QueueKeepsSubmitter ==
    ASSUME RouterInv, SubmitterInv, ObjectsKept, UNCHANGED <<inbox, undelivered>>,
           proc'.at # "idle" => ~IsResult(proc'.reply),
           \/ replyQueue' = replyQueue
           \/ \E x : FromSubmission(x) /\ replyQueue' = Append(replyQueue, x)
    PROVE  SubmitterInv'
<1>1. replyQueue \in Seq(Replies)
  BY DEF RouterInv, RepliesOK
<1>2. \A i \in DOMAIN replyQueue' : FromSubmission(replyQueue'[i])
  BY <1>1, AppendMembers DEF SubmitterInv
<1>3. \A i \in DOMAIN replyQueue' : FromSubmission(replyQueue[i])'
  BY <1>2, FromSubmissionKept DEF FromSubmission, IsResult
<1>4. \A i \in DOMAIN undelivered' : FromSubmission(undelivered[i])'
  BY FromSubmissionKept DEF SubmitterInv, FromSubmission, IsResult
<1>5. \A c \in Client : \A i \in DOMAIN inbox'[c] :
         FromSubmission(inbox[c][i])' /\ inbox'[c][i].client = c
  BY FromSubmissionKept DEF SubmitterInv, FromSubmission, IsResult
<1>6. QED
  BY <1>3, <1>4, <1>5 DEF SubmitterInv, IsResult

LEMMA StepKeepsSubmitter ==
    ASSUME RouterInv, SubmitterInv, [Next]_vars
    PROVE  SubmitterInv'
<1>t. ObjectsKept
  BY StepKeepsTable
<1>1. CASE SendReply
  BY <1>1, SendKeepsSubmitter
<1>2. CASE ProcessStep
  <2>1. UNCHANGED <<inbox, undelivered>>
    BY <1>2, ProcessFrame
  <2>2. proc'.at # "idle" => ~IsResult(proc'.reply)
    <3>1. CASE /\ proc' \in [at : {"reply", "pending"}, reply : Replies]
               /\ proc'.reply.type # "MsgTaskResult"
      BY <3>1 DEF IsResult
    <3>2. CASE PublishPending \/ StartThread
      <4>1. /\ proc.at # "idle" /\ proc \in [at : {"idle", "pending", "spawn", "reply"},
                                            reply : Replies \cup {NoReply}]
        BY <3>2 DEF PublishPending, StartThread, RouterInv, ProcOK
      <4>2. proc'.reply = proc.reply
        BY <3>2, <4>1 DEF PublishPending, StartThread
      <4>3. QED
        BY <4>1, <4>2 DEF SubmitterInv, IsResult
    <3>3. CASE proc' = [at |-> "idle", reply |-> NoReply] \/ proc' = proc
      BY <3>3 DEF SubmitterInv
    <3>4. QED
      BY <1>2, <3>1, <3>2, <3>3, HandlerFacts
  <2>3. \/ replyQueue' = replyQueue
        \/ \E x : FromSubmission(x) /\ replyQueue' = Append(replyQueue, x)
    <3>1. proc.at = "reply" => FromSubmission(proc.reply)
      BY DEF SubmitterInv, FromSubmission
    <3>2. QED
      BY <1>2, <3>1, ProcessQueues
  <2>4. QED
    BY <1>t, <2>1, <2>2, <2>3, QueueKeepsSubmitter
<1>3. ASSUME NEW r \in 1 .. MaxTasks, ThreadStep(r) PROVE SubmitterInv'
  <2>1. UNCHANGED <<proc, inbox, undelivered>>
    BY <1>3, ThreadFrame
  <2>2. \/ replyQueue' = replyQueue
        \/ \E x : FromSubmission(x) /\ replyQueue' = Append(replyQueue, x)
    <3>1. ASSUME NEW o \in DOMAIN infos, NEW d, NEW i \in DOMAIN infos, NEW err, NEW data,
                 infos[o].task_id = IdOf(i), err = NO_ERROR => CountsFit(d, o)
          PROVE  FromSubmission(ResultOf(o, d, IdOf(i), err, data))
      BY <3>1 DEF FromSubmission, ResultOf, Reply
    <3>2. QED
      BY <1>3, <3>1, QueuedReply
  <2>3. QED
    BY <1>t, <2>1, <2>2, QueueKeepsSubmitter DEF SubmitterInv
<1>4. CASE \/ \E c \in Client, m \in Offered : Receive(c, m)
           \/ \E c \in Client : Disconnect(c)
           \/ UNCHANGED serverVars
  <2>1. UNCHANGED <<replyQueue, proc, inbox, undelivered>>
    BY <1>4 DEF Receive, Disconnect, serverVars
  <2>2. QED
    BY <1>t, <2>1, QueueKeepsSubmitter DEF SubmitterInv
<1>5. QED
  BY <1>1, <1>2, <1>3, <1>4 DEF Next, vars

(***************************************************************************)
(* Every result goes to a client that submitted the id, under the SN of    *)
(* one of its submissions of it, with the counts of that submission or of  *)
(* an earlier one of the id: for any number of clients and any table,      *)
(* evicted and resubmitted ids included.                                   *)
(***************************************************************************)
THEOREM ResultsGoToSubmitters == Spec => []ResultToSubmitter
<1>1. Init => SubmitterInv
  BY DEF Init, SubmitterInv
<1>2. RouterInv /\ SubmitterInv /\ [Next]_vars => SubmitterInv'
  BY StepKeepsSubmitter
<1>3. SubmitterInv => ResultToSubmitter
  BY DEF SubmitterInv, ResultToSubmitter, EveryReply
<1>4. QED
  BY <1>1, <1>2, <1>3, InitRouterInv, NextKeepsRouterInv, PTL DEF Spec

--------------------------------------------------------------------------------
(***************************************************************************)
(* No task is stuck.  A thread that has set the final status may still be  *)
(* running, so the invariant asks for a thread that is yet to set one.     *)
(***************************************************************************)
Working == {"running", "get", "compile", "compiled", "run", "succeed", "fail"}

HasThread(id) ==
    \/ \E r \in DOMAIN infos : IdOf(r) = id /\ threads[r].at \in Working
    \/ proc.at \in {"pending", "spawn"} /\ proc.reply.task_id = id

IsUnfinished(id) == IsPresent(id) /\ GetTaskStatus(id) \notin Terminal

ProgressInv == \A id \in TaskId : IsUnfinished(id) => HasThread(id)

\* What each method of the table does to the unfinished tasks.
LEMMA AddUnfinished ==
    ASSUME TableInv, NEW new \in TaskId, NEW identity \in Client, NEW sn \in Sn,
           NEW configure \in Configure, AddTask(new, identity, sn, configure)
    PROVE  \A id \in TaskId : IsUnfinished(id)' => id = new \/ IsUnfinished(id)
<1> DEFINE appended == DequeAppend(taskQueue, new)
           inserted == [tasks EXCEPT ![new] = Len(infos) + 1]
<1> SUFFICES ASSUME NEW id \in TaskId, IsUnfinished(id)', id # new PROVE IsUnfinished(id)
  OBVIOUS
<1>1. infos' = Append(infos, NewTaskInfo(new, identity, sn, configure))
  BY DEF AddTask
<1>2. DOMAIN infos = 1 .. Len(infos) /\ \A r \in 1 .. Len(infos) : infos'[r] = infos[r]
  BY <1>1, InfosAppended DEF TableInv
<1>3. tasks' = inserted \/ tasks' = [inserted EXCEPT ![Head(appended)] = NoTask]
  BY DEF AddTask
<1>4. tasks \in [TaskId -> Nat]
  BY DEF TableInv, TMTypeOK
<1> HIDE DEF appended
<1>5. tasks'[id] # NoTask
  BY DEF IsUnfinished, IsPresent
<1>6. tasks'[id] = tasks[id]
  BY <1>3, <1>4, <1>5
<1>7. IsPresent(id) /\ tasks[id] \in DOMAIN infos
  BY <1>5, <1>6 DEF IsPresent, TableInv, TMTypeOK
<1>8. GetTaskStatus(id)' = GetTaskStatus(id)
  BY <1>2, <1>5, <1>6, <1>7 DEF GetTaskStatus, IsPresent
<1>9. QED
  BY <1>7, <1>8 DEF IsUnfinished

LEMMA UpdateUnfinished ==
    ASSUME TableInv, NEW of \in TaskId, NEW status \in Status, UpdateTaskStatus(of, status)
    PROVE  \A id \in TaskId : IsUnfinished(id)' =>
              \/ id # of /\ IsUnfinished(id)
              \/ id = of /\ status \notin Terminal
<1> SUFFICES ASSUME NEW id \in TaskId, IsUnfinished(id)'
             PROVE  \/ id # of /\ IsUnfinished(id)
                    \/ id = of /\ status \notin Terminal
  OBVIOUS
<1>1. tasks' = tasks /\ IsPresent(id) /\ IsPresent(id)' /\ GetTaskStatus(id)' \notin Terminal
  BY DEF UpdateTaskStatus, IsUnfinished, IsPresent
<1>2. /\ infos \in Seq(TaskInfo) /\ tasks[id] \in DOMAIN infos
      /\ infos[tasks[id]].task_id = id
      /\ IsPresent(of) => tasks[of] \in DOMAIN infos /\ infos[tasks[of]].task_id = of
  BY <1>1 DEF TableInv, TMTypeOK, RefersToLatest
<1>3. GetTaskStatus(id)' = infos'[tasks[id]].status /\ GetTaskStatus(id) = infos[tasks[id]].status
  BY <1>1 DEF GetTaskStatus
<1>4. CASE id = of
  <2> DEFINE o == WithStatus(infos[tasks[id]], status)
  <2>1. infos' = [infos EXCEPT ![tasks[id]] = o]
    BY <1>1, <1>4 DEF UpdateTaskStatus
  <2>2. infos[tasks[id]] \in TaskInfo
    BY <1>2, ElementOfSeq, LenProperties
  <2>3. o.status = status
    BY <2>2 DEF WithStatus, TaskInfo
  <2> HIDE DEF o
  <2>4. infos'[tasks[id]] = o
    BY <1>2, <2>1
  <2>5. QED
    BY <1>1, <1>3, <1>4, <2>3, <2>4
<1>5. CASE id # of
  <2>1. infos'[tasks[id]] = infos[tasks[id]]
    <3>1. CASE IsPresent(of)
      <4>1. tasks[of] # tasks[id]
        BY <1>2, <1>5, <3>1
      <4>2. infos' = [infos EXCEPT ![tasks[of]] = WithStatus(infos[tasks[of]], status)]
        BY <3>1 DEF UpdateTaskStatus
      <4>3. QED
        BY <1>2, <4>1, <4>2
    <3>2. CASE ~IsPresent(of)
      BY <3>2 DEF UpdateTaskStatus
    <3>3. QED
      BY <3>1, <3>2
  <2>2. QED
    BY <1>1, <1>3, <1>5, <2>1 DEF IsUnfinished
<1>6. QED
  BY <1>4, <1>5

LEMMA TimesUnfinished ==
    ASSUME TableInv, NEW r \in DOMAIN infos, SetProcessTimes(r)
    PROVE  \A id \in TaskId : IsUnfinished(id)' => IsUnfinished(id)
<1> DEFINE time == Stamped(infos[r].time, {"process_start", "process_end"})
<1> SUFFICES ASSUME NEW id \in TaskId, IsUnfinished(id)' PROVE IsUnfinished(id)
  OBVIOUS
<1>1. tasks' = tasks /\ IsPresent(id) /\ IsPresent(id)'
  BY DEF SetProcessTimes, IsUnfinished, IsPresent
<1>2. infos \in Seq(TaskInfo) /\ tasks[id] \in DOMAIN infos
  BY <1>1 DEF TableInv, TMTypeOK
<1>3. infos[r] \in TaskInfo
  BY <1>2, ElementOfSeq, LenProperties
<1>4. infos' = [infos EXCEPT ![r].time = time]
  BY DEF SetProcessTimes
<1> HIDE DEF time
<1>5. infos'[tasks[id]].status = infos[tasks[id]].status
  BY <1>2, <1>3, <1>4 DEF TaskInfo
<1>6. QED
  BY <1>1, <1>5 DEF IsUnfinished, GetTaskStatus

LEMMA SameTableUnfinished ==
    ASSUME UNCHANGED <<infos, tasks>>
    PROVE  \A id \in TaskId : IsUnfinished(id)' <=> IsUnfinished(id)
BY DEF IsUnfinished, GetTaskStatus, IsPresent

\* Thread r moves, and the other threads do not.
LEMMA ThreadKeepsProgress ==
    ASSUME RouterInv, ProgressInv, ObjectsKept, proc' = proc,
           NEW r \in DOMAIN infos,
           \A i \in DOMAIN infos : i # r => threads'[i] = threads[i],
           \A id \in TaskId : IsUnfinished(id)' =>
              \/ IsUnfinished(id)
              \/ id = IdOf(r) /\ threads'[r].at \in Working,
           \A id \in TaskId : threads[r].at \in Working /\ id = IdOf(r) /\ IsUnfinished(id)'
                                => threads'[r].at \in Working
    PROVE  ProgressInv'
<1> SUFFICES ASSUME NEW id \in TaskId, IsUnfinished(id)' PROVE HasThread(id)'
  BY DEF ProgressInv
<1>1. \A i \in DOMAIN infos : i \in DOMAIN infos' /\ IdOf(i)' = IdOf(i)
  BY DEF ObjectsKept, IdOf
<1>2. CASE id = IdOf(r) /\ threads'[r].at \in Working
  BY <1>1, <1>2 DEF HasThread
<1>3. CASE HasThread(id) /\ ~(id = IdOf(r) /\ threads'[r].at \in Working)
  <2>1. CASE proc.at \in {"pending", "spawn"} /\ proc.reply.task_id = id
    BY <2>1 DEF HasThread
  <2>2. ASSUME NEW i \in DOMAIN infos, IdOf(i) = id, threads[i].at \in Working
        PROVE  HasThread(id)'
    <3>1. i # r
      BY <1>3, <2>2
    <3>2. QED
      BY <1>1, <2>2, <3>1 DEF HasThread
  <2>3. QED
    BY <1>3, <2>1, <2>2 DEF HasThread
<1>4. QED
  BY <1>2, <1>3 DEF ProgressInv

\* Every other process than r's thread is left alone by a step of thread r.
LEMMA GotoThreads ==
    ASSUME RouterInv, NEW r \in 1 .. MaxTasks, NEW from, NEW to, Goto(r, from, to)
    PROVE  /\ threads[r].at = from /\ threads'[r].at = to
           /\ \A i \in DOMAIN infos : i # r => threads'[i] = threads[i]
<1>1. threads \in [1 .. MaxTasks -> Thread] /\ DOMAIN infos \subseteq 1 .. MaxTasks
  BY InfosFacts DEF RouterInv, ThreadsOK
<1>2. threads[r].at = from /\ threads' = [threads EXCEPT ![r] = [threads[r] EXCEPT !.at = to]]
  BY DEF Goto
<1>3. [threads[r] EXCEPT !.at = to].at = to
  BY <1>1 DEF Thread
<1>4. QED
  BY <1>1, <1>2, <1>3

LEMMA UpdateStepKeepsProgress ==
    ASSUME RouterInv, ProgressInv, [Next]_vars, NEW r \in 1 .. MaxTasks, ThreadStep(r),
           NEW from \in Working, NEW status \in Statuses, NEW to, SetStatus(r, from, status, to),
           status \notin Terminal => to \in Working
    PROVE  ProgressInv'
<1>1. /\ threads[r].at = from /\ threads'[r].at = to
      /\ \A i \in DOMAIN infos : i # r => threads'[i] = threads[i]
  BY GotoThreads DEF SetStatus
<1>2. r \in DOMAIN infos /\ IdOf(r) \in TaskId
  BY <1>1, RunningThread DEF Working
<1>3. UpdateTaskStatus(IdOf(r), status) /\ status \in Status
  BY StatusesAssumption DEF SetStatus
<1>4. \A id \in TaskId : IsUnfinished(id)' =>
         \/ id # IdOf(r) /\ IsUnfinished(id)
         \/ id = IdOf(r) /\ to \in Working
  BY <1>2, <1>3, UpdateUnfinished DEF RouterInv
<1>5. ObjectsKept /\ proc' = proc
  BY StepKeepsTable, ThreadFrame
<1>6. QED
  BY <1>1, <1>2, <1>4, <1>5, ThreadKeepsProgress

\* A step after the final status: whatever thread r does, it does not matter.
LEMMA LateStepKeepsProgress ==
    ASSUME RouterInv, ProgressInv, [Next]_vars, NEW r \in 1 .. MaxTasks, ThreadStep(r),
           threads[r].at \notin Working \cup {"idle", "done"},
           \A id \in TaskId : IsUnfinished(id)' => IsUnfinished(id),
           \A i \in DOMAIN infos : i # r => threads'[i] = threads[i]
    PROVE  ProgressInv'
<1>1. r \in DOMAIN infos
  BY RunningThread
<1>2. ObjectsKept /\ proc' = proc
  BY StepKeepsTable, ThreadFrame
<1>3. QED
  BY <1>1, <1>2, ThreadKeepsProgress

LEMMA ThreadStepKeepsProgress ==
    ASSUME RouterInv, ProgressInv, [Next]_vars, NEW r \in 1 .. MaxTasks, ThreadStep(r)
    PROVE  ProgressInv'
<1>t. /\ threads \in [1 .. MaxTasks -> Thread] /\ DOMAIN infos \subseteq 1 .. MaxTasks
      /\ TableInv /\ ObjectsKept /\ proc' = proc
  BY InfosFacts, StepKeepsTable, ThreadFrame DEF RouterInv, ThreadsOK
<1>1. CASE Compiling(r) \/ Compiled(r) \/ Running(r) \/ Succeeded(r) \/ Fail(r)
  <2>1. \/ SetStatus(r, "compile", "COMPILING", "compiled")
        \/ SetStatus(r, "compiled", "COMPILED", "run")
        \/ \E to \in {"succeed", "fail"} : SetStatus(r, "run", "RUNNING", to)
        \/ SetStatus(r, "succeed", "SUCCESSED", "post")
        \/ SetStatus(r, "fail", "FAILED", "error")
    BY <1>1 DEF Compiling, Compiled, Running, Succeeded, Fail
  <2>2. /\ {"compile", "compiled", "run", "succeed", "fail"} \subseteq Working
        /\ "SUCCESSED" \in Terminal /\ "FAILED" \in Terminal
    BY DEF Working, Terminal
  <2>3. QED
    BY <2>1, <2>2, ServerStatusesAssumption, UpdateStepKeepsProgress
<1>2. CASE PublishRunning(r)
  <2>1. Goto(r, "running", "get") /\ UNCHANGED <<infos, tasks>>
    BY <1>2 DEF PublishRunning, tmVars
  <2>2. /\ threads[r].at = "running" /\ threads'[r].at = "get"
        /\ \A i \in DOMAIN infos : i # r => threads'[i] = threads[i]
    BY <2>1, GotoThreads
  <2>3. r \in DOMAIN infos
    BY <2>2, RunningThread
  <2>4. \A id \in TaskId : IsUnfinished(id)' => IsUnfinished(id)
    BY <2>1, SameTableUnfinished
  <2>5. QED
    BY <1>t, <2>2, <2>3, <2>4, ThreadKeepsProgress DEF Working
<1>3. CASE GetTask(r)
  <2> DEFINE at == IF IsPresent(IdOf(r)) THEN "compile" ELSE "notask"
  <2>1. /\ threads[r].at = "get" /\ UNCHANGED <<infos, tasks>>
        /\ threads' = [threads EXCEPT ![r] = [threads[r] EXCEPT !.at = at, !.task = tasks[IdOf(r)],
                                                              !.measured = tasks[IdOf(r)]]]
    BY <1>3 DEF GetTask, tmVars
  <2>2. r \in DOMAIN infos
    BY <2>1, RunningThread
  <2>3. \A id \in TaskId : IsUnfinished(id)' => IsUnfinished(id)
    BY <2>1, SameTableUnfinished
  <2>4. \A id \in TaskId : id = IdOf(r) /\ IsUnfinished(id)' => at \in Working
    BY <2>3 DEF IsUnfinished, Working
  <2> HIDE DEF at
  <2>5. threads'[r].at = at /\ \A i \in DOMAIN infos : i # r => threads'[i] = threads[i]
    BY <1>t, <2>1, <2>2 DEF Thread
  <2>6. QED
    BY <1>t, <2>2, <2>3, <2>4, <2>5, ThreadKeepsProgress
<1>4. CASE PostProcess(r)
  <2>1. Goto(r, "post", "lookup") /\ SetProcessTimes(threads[r].task)
    BY <1>4 DEF PostProcess
  <2>2. /\ threads[r].at = "post"
        /\ \A i \in DOMAIN infos : i # r => threads'[i] = threads[i]
    BY <2>1, GotoThreads
  <2>3. threads[r].task \in DOMAIN infos
    BY <2>2, RunningThread DEF ThreadFits, Holding
  <2>4. \A id \in TaskId : IsUnfinished(id)' => IsUnfinished(id)
    BY <1>t, <2>1, <2>3, TimesUnfinished
  <2>5. QED
    BY <2>2, <2>4, LateStepKeepsProgress DEF Working
<1>5. CASE \/ PublishNoTask(r) \/ LookUpResult(r) \/ TakeTiming(r) \/ PublishSucceeded(r)
           \/ QueueResult(r) \/ QueueErrorResult(r)
  <2>1. /\ threads[r].at \in {"notask", "lookup", "timing", "success", "result", "error"}
        /\ UNCHANGED <<infos, tasks>>
        /\ \E t : threads' = [threads EXCEPT ![r] = t]
    BY <1>5 DEF PublishNoTask, LookUpResult, TakeTiming, PublishSucceeded, QueueResult,
                QueueErrorResult, Goto, Exit, tmVars
  <2>2. \A i \in DOMAIN infos : i # r => threads'[i] = threads[i]
    BY <1>t, <2>1
  <2>3. \A id \in TaskId : IsUnfinished(id)' => IsUnfinished(id)
    BY <2>1, SameTableUnfinished
  <2>4. QED
    BY <2>1, <2>2, <2>3, LateStepKeepsProgress DEF Working
<1>6. QED
  BY <1>1, <1>2, <1>3, <1>4, <1>5 DEF ThreadStep

\* A step that leaves the task threads alone.
LEMMA OtherStepKeepsProgress ==
    ASSUME RouterInv, ProgressInv, ObjectsKept, threads' = threads,
           proc.at \in {"idle", "reply"} \/ proc' = proc,
           \A id \in TaskId : IsUnfinished(id)' =>
              IsUnfinished(id) \/ (proc'.at = "pending" /\ proc'.reply.task_id = id)
    PROVE  ProgressInv'
<1> SUFFICES ASSUME NEW id \in TaskId, IsUnfinished(id)' PROVE HasThread(id)'
  BY DEF ProgressInv
<1>1. \A i \in DOMAIN infos : i \in DOMAIN infos' /\ IdOf(i)' = IdOf(i)
  BY DEF ObjectsKept, IdOf
<1>2. CASE proc'.at = "pending" /\ proc'.reply.task_id = id
  BY <1>2 DEF HasThread
<1>3. CASE HasThread(id)
  BY <1>1, <1>3 DEF HasThread
<1>4. QED
  BY <1>2, <1>3 DEF ProgressInv

LEMMA ProcessKeepsProgress ==
    ASSUME RouterInv, ProgressInv, [Next]_vars, ProcessStep
    PROVE  ProgressInv'
<1>t. ObjectsKept /\ TableInv
  BY StepKeepsTable DEF RouterInv
<1>1. CASE HandleTask
  <2>1. proc.at = "idle" /\ threads' = threads
    BY <1>1 DEF HandleTask, Dequeue
  <2>2. CASE UNCHANGED tmVars
    BY <1>t, <2>1, <2>2, SameTableUnfinished, OtherStepKeepsProgress DEF tmVars
  <2>3. CASE ~UNCHANGED tmVars
    <3> DEFINE sn == Head(requestQueue)
               m  == requests[sn].msg
    <3>1. /\ sn \in Sn /\ requests[sn].client \in Client /\ m \in Offered
          /\ m \in Request /\ m.type = "MsgTask"
      BY <1>1, DequeueFacts DEF HandleTask
    <3>2. m.id \in TaskId /\ m.configure \in Configure
      BY <3>1, OfferedAssumption DEF Request
    <3>3. /\ AddTask(m.id, requests[sn].client, sn, m.configure)
          /\ Answer("pending", sn, "MsgTaskAck", sn, m.id, NO_ERROR, NoData)
      BY <1>1, <2>3 DEF HandleTask
    <3>4. proc'.at = "pending" /\ proc'.reply.task_id = m.id
      BY <3>3 DEF Answer, Reply
    <3>5. \A id \in TaskId : IsUnfinished(id)' => id = m.id \/ IsUnfinished(id)
      BY <1>t, <3>1, <3>2, <3>3, AddUnfinished
    <3>6. QED
      BY <1>t, <2>1, <3>4, <3>5, OtherStepKeepsProgress
  <2>4. QED
    BY <2>2, <2>3
<1>2. CASE PublishPending
  <2>1. /\ proc.at = "pending" /\ proc' = [proc EXCEPT !.at = "spawn"]
        /\ UNCHANGED <<infos, tasks, threads>>
    BY <1>2 DEF PublishPending, tmVars
  <2>2. proc'.at = "spawn" /\ proc'.reply = proc.reply
    BY <2>1 DEF RouterInv, ProcOK
  <2>3. ASSUME NEW id \in TaskId, HasThread(id) PROVE HasThread(id)'
    BY <2>1, <2>2, <2>3 DEF HasThread, IdOf
  <2>4. QED
    BY <2>1, <2>3, SameTableUnfinished DEF ProgressInv
<1>3. CASE StartThread
  <2> DEFINE new == Len(infos)
  <2>1. /\ proc.at = "spawn"
        /\ threads' = [threads EXCEPT ![new] = [threads[new] EXCEPT !.at = "running"]]
        /\ UNCHANGED <<infos, tasks>>
    BY <1>3 DEF StartThread, tmVars
  <2>2. /\ threads \in [1 .. MaxTasks -> Thread] /\ DOMAIN infos \subseteq 1 .. MaxTasks
        /\ new \in DOMAIN infos /\ IdOf(new) = proc.reply.task_id
    BY <2>1, InfosFacts, EmptySeq DEF RouterInv, ThreadsOK, ProcOK, StartsLatest, IdOf
  <2> HIDE DEF new
  <2>3. /\ threads'[new].at = "running"
        /\ \A i \in DOMAIN infos : i # new => threads'[i] = threads[i]
    BY <2>1, <2>2 DEF Thread
  <2>4. ASSUME NEW id \in TaskId, HasThread(id) PROVE HasThread(id)'
    <3>1. CASE IdOf(new) = id
      BY <2>1, <2>2, <2>3, <3>1 DEF HasThread, IdOf, Working
    <3>2. CASE IdOf(new) # id
      <4>1. PICK i \in DOMAIN infos : IdOf(i) = id /\ threads[i].at \in Working
        BY <2>2, <2>4, <3>2 DEF HasThread
      <4>2. threads'[i] = threads[i]
        BY <2>3, <3>2, <4>1
      <4>3. QED
        BY <2>1, <4>1, <4>2 DEF HasThread, IdOf
    <3>3. QED
      BY <3>1, <3>2
  <2>5. QED
    BY <2>1, <2>4, SameTableUnfinished DEF ProgressInv
<1>4. CASE HandleTaskStatus \/ HandleOther \/ HandleBroken \/ HandleSilent \/ QueueReply
  <2>1. /\ proc.at \in {"idle", "reply"} /\ threads' = threads
        /\ UNCHANGED <<infos, tasks>>
    BY <1>4 DEF HandleTaskStatus, HandleOther, HandleBroken, HandleSilent, QueueReply, Dequeue,
                tmVars
  <2>2. QED
    BY <1>t, <2>1, SameTableUnfinished, OtherStepKeepsProgress
<1>5. QED
  BY <1>1, <1>2, <1>3, <1>4 DEF ProcessStep

LEMMA StepKeepsProgress ==
    ASSUME RouterInv, ProgressInv, [Next]_vars
    PROVE  ProgressInv'
<1>1. CASE ProcessStep
  BY <1>1, ProcessKeepsProgress
<1>2. ASSUME NEW r \in 1 .. MaxTasks, ThreadStep(r) PROVE ProgressInv'
  BY <1>2, ThreadStepKeepsProgress
<1>3. CASE \/ \E c \in Client, m \in Offered : Receive(c, m)
           \/ SendReply \/ (\E c \in Client : Disconnect(c))
           \/ Tick /\ UNCHANGED serverVars
           \/ UNCHANGED vars
  <2>1. UNCHANGED <<infos, tasks, proc, threads>>
    BY <1>3 DEF Receive, SendReply, Disconnect, Tick, serverVars, tmVars, vars
  <2>2. QED
    BY <2>1, StepKeepsTable, SameTableUnfinished, OtherStepKeepsProgress
<1>4. QED
  BY <1>1, <1>2, <1>3 DEF Next

(***************************************************************************)
(* No task of the table is stuck with a status that is not final: a thread *)
(* of its id is running or about to be started, for any number of          *)
(* resubmissions of the id and threads of them.                            *)
(***************************************************************************)
THEOREM NoTaskIsStuck == Spec => []UnfinishedHasThread
<1>1. Init => ProgressInv
  BY DEF Init, TMInit, ProgressInv, IsUnfinished, IsPresent
<1>2. RouterInv /\ ProgressInv /\ [Next]_vars => ProgressInv'
  BY StepKeepsProgress
<1>3. ProgressInv => UnfinishedHasThread
  <2> SUFFICES ASSUME ProgressInv, NEW id \in Present, GetTaskStatus(id) \notin Terminal
               PROVE  \/ \E r \in DOMAIN infos : /\ IdOf(r) = id
                                                 /\ threads[r].at \notin {"idle", "done"}
                      \/ /\ proc.at \in {"pending", "spawn"}
                         /\ proc.reply.task_id = id
    BY DEF UnfinishedHasThread
  <2>1. HasThread(id)
    BY DEF Present, ProgressInv, IsUnfinished
  <2>2. QED
    BY <2>1 DEF HasThread, Working
<1>4. QED
  BY <1>1, <1>2, <1>3, InitRouterInv, NextKeepsRouterInv, PTL DEF Spec

--------------------------------------------------------------------------------
(***************************************************************************)
(* Acknowledgements keep the order of the requests.  Along each line of    *)
(* replies the acknowledgements rise, and each is older than the reply in  *)
(* the hands of the process thread and than every request that waits.      *)
(***************************************************************************)
IsAck(reply) == ~IsResult(reply) /\ reply.sn # NoSn

Rising(line) ==
    \A i, j \in DOMAIN line : i < j /\ IsAck(line[i]) /\ IsAck(line[j]) => line[i].sn < line[j].sn

\* What is behind an acknowledgement that has left the process thread.
Served(reply) ==
    /\ reply.sn \in DOMAIN requests
    /\ \A n \in DOMAIN requestQueue : reply.sn < requestQueue[n]
    /\ proc.at # "idle" /\ IsAck(proc.reply) => reply.sn < proc.reply.sn

AllServed(line) == \A i \in DOMAIN line : IsAck(line[i]) => Served(line[i])

Ahead(line, next) ==
    \A i \in DOMAIN line, j \in DOMAIN next :
        IsAck(line[i]) /\ IsAck(next[j]) => line[i].sn < next[j].sn

RequestsRise ==
    /\ \A i, j \in DOMAIN requestQueue : i < j => requestQueue[i] < requestQueue[j]
    /\ proc.at # "idle" /\ IsAck(proc.reply) =>
          /\ proc.reply.sn \in DOMAIN requests
          /\ \A n \in DOMAIN requestQueue : proc.reply.sn < requestQueue[n]

LinesServed == AllServed(replyQueue) /\ \A c \in Client : AllServed(inbox[c])

LinesRise ==
    /\ Rising(replyQueue)
    /\ \A c \in Client : Rising(inbox[c]) /\ Ahead(inbox[c], replyQueue)

AckInv == RequestsRise /\ LinesServed /\ LinesRise

\* What a step does to the requests that wait and to the one that is served.
LEMMA ServeFacts ==
    ASSUME RouterInv, ProcessStep
    PROVE  /\ requests' = requests
           /\ \/ /\ requestQueue' = requestQueue
                 /\ proc'.at # "idle" => proc.at # "idle" /\ proc'.reply = proc.reply
              \/ /\ proc.at = "idle" /\ requestQueue # <<>>
                 /\ requestQueue' = Tail(requestQueue)
                 /\ proc'.at # "idle" => proc'.reply.sn \in {NoSn, Head(requestQueue)}
<1> DEFINE sn == Head(requestQueue)
<1>1. requests' = requests
  BY ProcessFrame
<1>2. CASE HandleTask \/ HandleTaskStatus \/ HandleOther \/ HandleBroken \/ HandleSilent
  <2>1. /\ proc.at = "idle" /\ requestQueue # <<>> /\ requestQueue' = Tail(requestQueue)
    BY <1>2 DEF HandleTask, HandleTaskStatus, HandleOther, HandleBroken, HandleSilent, Dequeue
  <2>2. \/ proc' = proc
        \/ \E at, type, replySn, id, err, data :
              /\ replySn \in {NoSn, sn}
              /\ Answer(at, sn, type, replySn, id, err, data)
    BY <1>2 DEF HandleTask, HandleTaskStatus, HandleOther, HandleBroken, HandleSilent
  <2>3. QED
    BY <1>1, <2>1, <2>2 DEF Answer, Reply
<1>3. CASE PublishPending \/ StartThread
  <2>1. /\ proc.at # "idle" /\ requestQueue' = requestQueue
        /\ \E at : proc' = [proc EXCEPT !.at = at]
    BY <1>3 DEF PublishPending, StartThread
  <2>2. proc'.reply = proc.reply
    BY <2>1 DEF RouterInv, ProcOK
  <2>3. QED
    BY <1>1, <2>1, <2>2
<1>4. CASE QueueReply
  BY <1>1, <1>4 DEF QueueReply
<1>5. QED
  BY <1>1, <1>2, <1>3, <1>4 DEF ProcessStep

\* The requests after a request was taken.
LEMMA TakenRequests ==
    ASSUME RouterInv, RequestsRise, requestQueue # <<>>
    PROVE  /\ Head(requestQueue) = requestQueue[1] /\ 1 \in DOMAIN requestQueue
           /\ Head(requestQueue) \in DOMAIN requests
           /\ \A n \in DOMAIN Tail(requestQueue) :
                 /\ n + 1 \in DOMAIN requestQueue
                 /\ Tail(requestQueue)[n] = requestQueue[n + 1]
                 /\ Head(requestQueue) < Tail(requestQueue)[n]
<1>1. requestQueue \in Seq(DOMAIN requests)
  BY DEF RouterInv, RequestsOK
<1>2. PICK q \in Seq(DOMAIN requests) : q = requestQueue
  BY <1>1
<1>3. /\ Head(q) \in DOMAIN requests /\ Head(q) = q[1] /\ DOMAIN q = 1 .. Len(q)
      /\ Len(q) \in Nat \ {0} /\ DOMAIN Tail(q) = 1 .. Len(q) - 1
      /\ \A n \in 1 .. Len(q) - 1 : Tail(q)[n] = q[n + 1]
  BY <1>2, Taken
<1>4. \A n \in 1 .. Len(q) - 1 : n + 1 \in DOMAIN q /\ 1 < n + 1 /\ 1 \in DOMAIN q
  BY <1>3
<1>5. \A i, j \in DOMAIN q : i < j => q[i] < q[j]
  BY <1>2 DEF RequestsRise
<1>6. \A n \in 1 .. Len(q) - 1 : q[1] < q[n + 1]
  BY <1>4, <1>5
<1>7. 1 \in DOMAIN q
  BY <1>3
<1>8. QED
  BY <1>2, <1>3, <1>4, <1>6, <1>7

LEMMA ProcessKeepsOrder ==
    ASSUME RouterInv, RequestsRise, ProcessStep
    PROVE  RequestsRise' /\ \A reply : Served(reply) => Served(reply)'
<1>1. CASE /\ requests' = requests /\ requestQueue' = requestQueue
           /\ proc'.at # "idle" => proc.at # "idle" /\ proc'.reply = proc.reply
  BY <1>1 DEF RequestsRise, Served, IsAck, IsResult
<1>2. CASE /\ requests' = requests /\ requestQueue # <<>> /\ requestQueue' = Tail(requestQueue)
           /\ proc'.at # "idle" => proc'.reply.sn \in {NoSn, Head(requestQueue)}
  <2>1. /\ Head(requestQueue) = requestQueue[1] /\ 1 \in DOMAIN requestQueue
        /\ Head(requestQueue) \in DOMAIN requests
        /\ \A n \in DOMAIN requestQueue' :
              /\ n + 1 \in DOMAIN requestQueue
              /\ requestQueue'[n] = requestQueue[n + 1]
              /\ Head(requestQueue) < requestQueue'[n]
    BY <1>2, TakenRequests
  <2>2. proc'.at # "idle" /\ IsAck(proc'.reply) => proc'.reply.sn = requestQueue[1]
    BY <1>2, <2>1 DEF IsAck
  <2>3. \A i, j \in DOMAIN requestQueue' : i < j => requestQueue'[i] < requestQueue'[j]
    <3>1. DOMAIN requestQueue' \subseteq Nat
      BY <1>2, HeadTailProperties, LenProperties DEF RouterInv, RequestsOK
    <3>2. \A i, j \in DOMAIN requestQueue' : i < j => i + 1 < j + 1
      BY <3>1
    <3>3. QED
      BY <2>1, <3>2 DEF RequestsRise
  <2>4. ASSUME NEW reply, Served(reply) PROVE Served(reply)'
    BY <1>2, <2>1, <2>2, <2>4 DEF Served, IsAck, IsResult
  <2>5. RequestsRise'
    BY <1>2, <2>1, <2>2, <2>3 DEF RequestsRise, IsAck, IsResult
  <2>6. QED
    BY <2>4, <2>5
<1>3. QED
  BY <1>1, <1>2, ServeFacts

LEMMA ReceiveKeepsOrder ==
    ASSUME RouterInv, RequestsRise, NEW c \in Client, NEW m \in Offered, Receive(c, m)
    PROVE  RequestsRise' /\ \A reply : Served(reply) => Served(reply)'
<1> DEFINE new == Len(requests) + 1
<1>1. /\ requests \in Seq([client : Client, msg : Offered])
      /\ requestQueue \in Seq(DOMAIN requests)
  BY DEF RouterInv, RequestsOK
<1>2. [client |-> c, msg |-> m] \in [client : Client, msg : Offered]
  OBVIOUS
<1>3. /\ requests' = Append(requests, [client |-> c, msg |-> m]) /\ proc' = proc
      /\ requestQueue' = requestQueue \/ requestQueue' = Append(requestQueue, new)
  BY DEF Receive
<1>4. /\ Len(requests) \in Nat /\ DOMAIN requests = 1 .. Len(requests)
      /\ DOMAIN requests' = 1 .. new
  BY <1>1, <1>2, <1>3, Appended
<1>5. requestQueue \in Seq(1 .. new) /\ new \in 1 .. new
  BY <1>1, <1>4
<1>6. PICK q \in Seq(1 .. new) : q = requestQueue
  BY <1>5
<1>7. /\ Len(q) \in Nat /\ DOMAIN q = 1 .. Len(q) /\ DOMAIN Append(q, new) = 1 .. Len(q) + 1
      /\ \A i \in 1 .. Len(q) : Append(q, new)[i] = q[i]
      /\ Append(q, new)[Len(q) + 1] = new
  BY <1>5, Appended
<1>8. \A i \in DOMAIN q : q[i] \in 1 .. Len(requests)
  <2>1. q \in Seq(1 .. Len(requests))
    BY <1>1, <1>4, <1>6
  <2>2. QED
    BY <2>1, <1>7, ElementOfSeq
<1>9. requestQueue' = q \/ requestQueue' = Append(q, new)
  BY <1>3, <1>6
<1>10. \A k \in DOMAIN requests : k \in DOMAIN requests' /\ k < new
  BY <1>4
<1> HIDE DEF new
<1>11. ASSUME NEW k \in DOMAIN requests, \A n \in DOMAIN requestQueue : k < requestQueue[n]
       PROVE  \A n \in DOMAIN requestQueue' : k < requestQueue'[n]
  <2>1. \A n \in DOMAIN q : k < q[n]
    BY <1>6, <1>11
  <2>2. \A n \in 1 .. Len(q) + 1 : k < Append(q, new)[n]
    BY <1>7, <1>10, <2>1
  <2>3. QED
    BY <1>7, <1>9, <2>1, <2>2
<1>12. \A i, j \in DOMAIN requestQueue' : i < j => requestQueue'[i] < requestQueue'[j]
  <2>1. \A i, j \in DOMAIN q : i < j => q[i] < q[j]
    BY <1>6 DEF RequestsRise
  <2>2. \A i \in DOMAIN q : q[i] < new
    BY <1>4, <1>8, <1>10
  <2>3. \A i, j \in 1 .. Len(q) + 1 : i < j => Append(q, new)[i] < Append(q, new)[j]
    BY <1>7, <2>1, <2>2
  <2>4. QED
    BY <1>7, <1>9, <2>1, <2>3
<1>13. ASSUME NEW reply, Served(reply) PROVE Served(reply)'
  BY <1>3, <1>10, <1>11, <1>13 DEF Served, IsAck, IsResult
<1>14. RequestsRise'
  BY <1>3, <1>10, <1>11, <1>12 DEF RequestsRise, IsAck, IsResult
<1>15. QED
  BY <1>13, <1>14

LEMMA StepKeepsOrder ==
    ASSUME RouterInv, RequestsRise, [Next]_vars
    PROVE  RequestsRise' /\ \A reply : Served(reply) => Served(reply)'
<1>1. ASSUME UNCHANGED <<requests, requestQueue, proc>>
      PROVE  RequestsRise' /\ \A reply : Served(reply) => Served(reply)'
  BY <1>1 DEF RequestsRise, Served, IsAck, IsResult
<1>2. CASE SendReply \/ (\E c \in Client : Disconnect(c)) \/ UNCHANGED serverVars
  BY <1>1, <1>2 DEF SendReply, Disconnect, serverVars
<1>3. ASSUME NEW r \in 1 .. MaxTasks, ThreadStep(r)
      PROVE  RequestsRise' /\ \A reply : Served(reply) => Served(reply)'
  BY <1>1, <1>3, ThreadFrame
<1>4. QED
  BY <1>2, <1>3, ProcessKeepsOrder, ReceiveKeepsOrder DEF Next, vars

\* A line of acknowledgements that grows or is taken from.
LEMMA LineGrows ==
    ASSUME NEW line \in Seq(Replies), NEW x \in Replies, Rising(line),
           \A i \in DOMAIN line : IsAck(line[i]) /\ IsAck(x) => line[i].sn < x.sn
    PROVE  Rising(Append(line, x))
<1>1. /\ DOMAIN line = 1 .. Len(line) /\ DOMAIN Append(line, x) = 1 .. Len(line) + 1
      /\ Len(line) \in Nat /\ Append(line, x)[Len(line) + 1] = x
      /\ \A i \in 1 .. Len(line) : Append(line, x)[i] = line[i]
  BY Appended
<1>2. ASSUME NEW i \in DOMAIN Append(line, x), ~(i \in DOMAIN line)
      PROVE  i = Len(line) + 1
  BY <1>1, <1>2
<1>3. ASSUME NEW i \in DOMAIN line, NEW j \in DOMAIN Append(line, x), j < i
      PROVE  j \in DOMAIN line
  BY <1>1, <1>3
<1>4. ASSUME NEW i \in DOMAIN Append(line, x) PROVE ~(i < i)
  BY <1>1
<1>5. QED
  BY <1>1, <1>2, <1>3, <1>4 DEF Rising

LEMMA LineTaken ==
    ASSUME NEW line \in Seq(Replies), line # <<>>
    PROVE  /\ AllServed(line) => AllServed(Tail(line)) /\ (IsAck(Head(line)) => Served(Head(line)))
           /\ Rising(line) => Rising(Tail(line)) /\ Ahead(<<Head(line)>>, Tail(line))
           /\ \A next \in Seq(Replies) : Ahead(next, line) =>
                 /\ Ahead(next, Tail(line))
                 /\ \A i \in DOMAIN next :
                       IsAck(next[i]) /\ IsAck(Head(line)) => next[i].sn < Head(line).sn
<1>1. /\ Head(line) = line[1] /\ DOMAIN line = 1 .. Len(line) /\ Len(line) \in Nat \ {0}
      /\ DOMAIN Tail(line) = 1 .. Len(line) - 1
      /\ \A i \in 1 .. Len(line) - 1 : Tail(line)[i] = line[i + 1]
  BY Taken
<1>2. /\ 1 \in DOMAIN line
      /\ \A i \in DOMAIN Tail(line) : i + 1 \in DOMAIN line /\ 1 < i + 1 /\ Tail(line)[i] = line[i + 1]
      /\ \A i, j \in DOMAIN Tail(line) : i < j => i + 1 < j + 1
  BY <1>1
<1>3. ASSUME AllServed(line)
      PROVE  AllServed(Tail(line)) /\ (IsAck(Head(line)) => Served(Head(line)))
  BY <1>1, <1>2, <1>3 DEF AllServed
<1>4. ASSUME Rising(line) PROVE Rising(Tail(line)) /\ Ahead(<<Head(line)>>, Tail(line))
  <2>1. Rising(Tail(line))
    BY <1>2, <1>4 DEF Rising
  <2>2. DOMAIN <<Head(line)>> = {1} /\ <<Head(line)>>[1] = line[1]
    BY <1>1
  <2>3. QED
    BY <1>2, <1>4, <2>1, <2>2 DEF Rising, Ahead
<1>5. ASSUME NEW next \in Seq(Replies), Ahead(next, line)
      PROVE  /\ Ahead(next, Tail(line))
             /\ \A i \in DOMAIN next : IsAck(next[i]) /\ IsAck(Head(line)) => next[i].sn < Head(line).sn
  BY <1>1, <1>2, <1>5 DEF Ahead
<1>6. QED
  BY <1>3, <1>4, <1>5

LEMMA AheadGrows ==
    ASSUME NEW line \in Seq(Replies), NEW next \in Seq(Replies), NEW x \in Replies
    PROVE  /\ /\ Ahead(line, next)
              /\ \A i \in DOMAIN line : IsAck(line[i]) /\ IsAck(x) => line[i].sn < x.sn
              => Ahead(line, Append(next, x))
           /\ Ahead(line, next) /\ Ahead(<<x>>, next) => Ahead(Append(line, x), next)
<1>1. /\ \A i \in DOMAIN Append(line, x) :
            \/ i \in DOMAIN line /\ Append(line, x)[i] = line[i]
            \/ Append(line, x)[i] = x
      /\ \A i \in DOMAIN Append(next, x) :
            \/ i \in DOMAIN next /\ Append(next, x)[i] = next[i]
            \/ Append(next, x)[i] = x
  BY Appended
<1>2. DOMAIN <<x>> = {1} /\ <<x>>[1] = x
  OBVIOUS
<1>3. QED
  BY <1>1, <1>2 DEF Ahead

\* What a step other than that of the send thread adds to the replies.
LEMMA LinesGain ==
    ASSUME RouterInv, RequestsRise, [Next]_vars, ~SendReply
    PROVE  /\ UNCHANGED <<inbox, undelivered>>
           /\ connected' \subseteq connected
           /\ \/ replyQueue' = replyQueue
              \/ \E x \in Replies :
                    /\ replyQueue' = Append(replyQueue, x)
                    /\ IsAck(x) => /\ Served(x)'
                                   /\ \A reply : Served(reply) => reply.sn < x.sn
<1>1. CASE ProcessStep
  <2>1. UNCHANGED <<inbox, undelivered, connected>>
    BY <1>1, ProcessFrame
  <2>2. CASE QueueReply
    <3>1. /\ proc.at = "reply" /\ replyQueue' = Append(replyQueue, proc.reply)
          /\ proc'.at = "idle" /\ UNCHANGED <<requests, requestQueue>>
      BY <2>2 DEF QueueReply
    <3>2. proc.reply \in Replies
      BY <3>1 DEF RouterInv, ProcOK
    <3>3. PICK x \in Replies : x = proc.reply
      BY <3>2
    <3>4. IsAck(x) => Served(x)' /\ \A reply : Served(reply) => reply.sn < x.sn
      BY <3>1, <3>3 DEF RequestsRise, Served
    <3>5. QED
      BY <2>1, <3>1, <3>3, <3>4
  <2>3. CASE ~QueueReply
    BY <1>1, <2>1, <2>3, ProcessQueues
  <2>4. QED
    BY <2>2, <2>3
<1>2. ASSUME NEW r \in 1 .. MaxTasks, ThreadStep(r)
      PROVE  /\ UNCHANGED <<inbox, undelivered, connected>>
             /\ \/ replyQueue' = replyQueue
                \/ \E x \in Replies : replyQueue' = Append(replyQueue, x) /\ ~IsAck(x)
  <2>1. UNCHANGED <<inbox, undelivered, connected>>
    BY <1>2, ThreadFrame
  <2>2. ASSUME NEW o \in DOMAIN infos, NEW d \in Nat, NEW i \in DOMAIN infos, NEW err \in Nat,
               NEW data \in ReplyData
        PROVE  /\ ResultOf(o, d, IdOf(i), err, data) \in Replies
               /\ ~IsAck(ResultOf(o, d, IdOf(i), err, data))
    BY ResultType DEF ResultOf, Reply, IsAck, IsResult
  <2>3. QED
    BY <1>2, <2>1, <2>2, QueuedReply
<1>3. CASE \/ \E c \in Client, m \in Offered : Receive(c, m)
           \/ \E c \in Client : Disconnect(c)
           \/ UNCHANGED serverVars
  BY <1>3 DEF Receive, Disconnect, serverVars
<1>4. QED
  BY <1>1, <1>2, <1>3 DEF Next, vars

\* The lines stay behind the process thread.
LEMMA LineStays ==
    ASSUME RouterInv, RequestsRise, [Next]_vars, NEW line \in Seq(Replies), AllServed(line)
    PROVE  /\ AllServed(line)'
           /\ \A x \in Replies : (IsAck(x) => Served(x)') => AllServed(Append(line, x))'
<1>1. AllServed(line)'
  BY StepKeepsOrder DEF AllServed, IsAck, IsResult
<1>2. ASSUME NEW x \in Replies, IsAck(x) => Served(x)' PROVE AllServed(Append(line, x))'
  <2>1. \A i \in DOMAIN Append(line, x) :
           \/ i \in DOMAIN line /\ Append(line, x)[i] = line[i]
           \/ Append(line, x)[i] = x
    BY Appended
  <2>2. QED
    BY <1>1, <1>2, <2>1 DEF AllServed, IsAck, IsResult
<1>3. QED
  BY <1>1, <1>2

LEMMA LinesTyped ==
    ASSUME RouterInv
    PROVE  /\ replyQueue \in Seq(Replies) /\ undelivered \in Seq(Replies)
           /\ \A c \in Client : inbox[c] \in Seq(Replies)
BY DEF RouterInv, RepliesOK

LEMMA OtherStepKeepsLines ==
    ASSUME RouterInv, AckInv, [Next]_vars, ~SendReply
    PROVE  LinesServed' /\ LinesRise'
<1>1. /\ UNCHANGED inbox
      /\ \/ replyQueue' = replyQueue
         \/ \E x \in Replies :
               /\ replyQueue' = Append(replyQueue, x)
               /\ IsAck(x) => Served(x)' /\ \A reply : Served(reply) => reply.sn < x.sn
  BY LinesGain DEF AckInv
<1>2. PICK q \in Seq(Replies) : q = replyQueue
  BY LinesTyped
<1>3. AllServed(q) /\ Rising(q)
  BY <1>2 DEF AckInv, LinesServed, LinesRise
<1>4. AllServed(q)'
  BY <1>3, LineStays DEF AckInv
<1>5. ASSUME NEW c \in Client
      PROVE  AllServed(inbox[c])'
  <2>1. PICK line \in Seq(Replies) : line = inbox[c]
    BY LinesTyped
  <2>2. AllServed(line)'
    BY <2>1, LineStays DEF AckInv, LinesServed
  <2>3. QED
    BY <1>1, <2>1, <2>2 DEF AllServed
<1>6. CASE replyQueue' = q
  BY <1>1, <1>2, <1>3, <1>4, <1>5, <1>6
     DEF AckInv, LinesServed, LinesRise, AllServed, Rising, Ahead, IsAck, IsResult
<1>7. ASSUME NEW x \in Replies, replyQueue' = Append(q, x), IsAck(x) => Served(x)',
             IsAck(x) => \A reply : Served(reply) => reply.sn < x.sn
      PROVE  LinesServed' /\ LinesRise'
  <2>1. AllServed(Append(q, x))'
    BY <1>3, <1>7, LineStays DEF AckInv
  <2>2. ASSUME NEW line, AllServed(line)
        PROVE  \A i \in DOMAIN line : IsAck(line[i]) /\ IsAck(x) => line[i].sn < x.sn
    BY <1>7, <2>2 DEF AllServed
  <2>3. Rising(Append(q, x))
    BY <1>3, <2>2, LineGrows
  <2>4. ASSUME NEW c \in Client PROVE Ahead(inbox[c], Append(q, x))
    <3>1. inbox[c] \in Seq(Replies) /\ AllServed(inbox[c]) /\ Ahead(inbox[c], q)
      BY <1>2, LinesTyped DEF AckInv, LinesServed, LinesRise
    <3>2. QED
      BY <2>2, <3>1, AheadGrows
  <2>5. LinesServed'
    BY <1>1, <1>2, <1>4, <1>5, <1>7, <2>1 DEF LinesServed, AllServed
  <2>6. /\ Rising(replyQueue)'
        /\ \A c \in Client : Ahead(inbox[c], replyQueue)' /\ Rising(inbox[c])'
    BY <1>1, <1>2, <1>3, <1>7, <2>3, <2>4 DEF AckInv, LinesRise, Rising, Ahead, IsAck, IsResult
  <2>7. QED
    BY <1>1, <2>5, <2>6 DEF LinesRise, IsAck, IsResult
<1>8. QED
  BY <1>1, <1>2, <1>6, <1>7

LEMMA SendKeepsLines ==
    ASSUME RouterInv, AckInv, [Next]_vars, SendReply
    PROVE  LinesServed' /\ LinesRise'
<1>1. PICK q \in Seq(Replies) : q = replyQueue
  BY LinesTyped
<1>2. PICK x \in Replies : x = Head(q) /\ x.client \in Client /\ q # <<>>
  BY <1>1, SendFacts
<1>3. /\ replyQueue' = Tail(q)
      /\ \/ inbox' = [inbox EXCEPT ![x.client] = Append(inbox[x.client], x)]
         \/ inbox' = inbox
  BY <1>1, <1>2 DEF SendReply
<1>4. AllServed(q) /\ Rising(q)
  BY <1>1 DEF AckInv, LinesServed, LinesRise
<1>5. /\ AllServed(Tail(q)) /\ (IsAck(x) => Served(x))
      /\ Rising(Tail(q)) /\ Ahead(<<x>>, Tail(q))
      /\ \A line \in Seq(Replies) : Ahead(line, q) =>
            /\ Ahead(line, Tail(q))
            /\ \A i \in DOMAIN line : IsAck(line[i]) /\ IsAck(x) => line[i].sn < x.sn
  BY <1>2, <1>4, LineTaken
<1>6. Tail(q) \in Seq(Replies) /\ (IsAck(x) => Served(x)')
  BY <1>2, <1>5, HeadTailProperties, StepKeepsOrder DEF AckInv
<1>7. AllServed(Tail(q))'
  BY <1>5, <1>6, LineStays DEF AckInv
<1>8. ASSUME NEW c \in Client
      PROVE  AllServed(inbox[c])' /\ Rising(inbox[c])' /\ Ahead(inbox[c], replyQueue)'
  <2>1. PICK line \in Seq(Replies) : line = inbox[c]
    BY LinesTyped
  <2>2. AllServed(line) /\ Rising(line) /\ Ahead(line, q)
    BY <1>1, <2>1, <1>8 DEF AckInv, LinesServed, LinesRise
  <2>3. /\ Ahead(line, Tail(q))
        /\ \A i \in DOMAIN line : IsAck(line[i]) /\ IsAck(x) => line[i].sn < x.sn
    BY <1>5, <2>2
  <2>4. /\ AllServed(line)' /\ AllServed(Append(line, x))'
        /\ Rising(Append(line, x)) /\ Ahead(Append(line, x), Tail(q))
    BY <1>5, <1>6, <2>2, <2>3, LineStays, LineGrows, AheadGrows DEF AckInv
  <2>5. inbox'[c] = line \/ inbox'[c] = Append(line, x)
    BY <1>3, <2>1 DEF RouterInv, RepliesOK
  <2>6. QED
    BY <1>3, <2>2, <2>3, <2>4, <2>5 DEF AllServed, Rising, Ahead, IsAck, IsResult
<1>9. AllServed(replyQueue)' /\ Rising(replyQueue)'
  BY <1>3, <1>5, <1>7 DEF AllServed, Rising, IsAck, IsResult
<1>10. QED
  BY <1>8, <1>9 DEF LinesServed, LinesRise, IsAck, IsResult

\* The replies to a client, one line after the other.
\* A place among the replies of a client is a place in one of the three lines.
LEMMA QueuedPlaces ==
    ASSUME RouterInv, NEW c \in Client
    PROVE  LET b == Len(inbox[c])
               u == Len(inbox[c]) + Len(undelivered)
           IN /\ b \in Nat /\ u \in Nat /\ b <= u
              /\ DOMAIN inbox[c] = 1 .. b /\ DOMAIN undelivered = 1 .. Len(undelivered)
              /\ Len(undelivered) \in Nat
              /\ DOMAIN replyQueue = 1 .. Len(replyQueue) /\ Len(replyQueue) \in Nat
              /\ DOMAIN Queued(c) = 1 .. u + Len(replyQueue)
              /\ \A n \in DOMAIN Queued(c) :
                    \/ n \in DOMAIN inbox[c] /\ Queued(c)[n] = inbox[c][n]
                    \/ n - b \in DOMAIN undelivered /\ Queued(c)[n] = undelivered[n - b]
                    \/ n - u \in DOMAIN replyQueue /\ Queued(c)[n] = replyQueue[n - u]
<1>1. PICK q \in Seq(Replies), u \in Seq(Replies), b \in Seq(Replies) :
         q = replyQueue /\ u = undelivered /\ b = inbox[c]
  BY LinesTyped
<1>2. /\ b \o u \in Seq(Replies) /\ Len(b \o u) = Len(b) + Len(u)
      /\ \A n \in 1 .. Len(b) + Len(u) : (b \o u)[n] = IF n <= Len(b) THEN b[n] ELSE u[n - Len(b)]
  BY ConcatProperties
<1>3. PICK bu \in Seq(Replies) : bu = b \o u
  BY <1>2
<1>4. /\ bu \o q \in Seq(Replies) /\ Len(bu \o q) = Len(bu) + Len(q)
      /\ \A n \in 1 .. Len(bu) + Len(q) : (bu \o q)[n] = IF n <= Len(bu) THEN bu[n] ELSE q[n - Len(bu)]
  BY ConcatProperties
<1>5. /\ Len(b) \in Nat /\ DOMAIN b = 1 .. Len(b) /\ Len(u) \in Nat /\ DOMAIN u = 1 .. Len(u)
      /\ Len(q) \in Nat /\ DOMAIN q = 1 .. Len(q) /\ Len(bu) = Len(b) + Len(u)
      /\ DOMAIN (bu \o q) = 1 .. Len(bu) + Len(q)
  BY <1>2, <1>3, <1>4, LenProperties
<1>6. Queued(c) = bu \o q
  BY <1>1, <1>3 DEF Queued
<1>7. ASSUME NEW n \in DOMAIN Queued(c)
      PROVE  \/ n \in DOMAIN b /\ Queued(c)[n] = b[n]
             \/ n - Len(b) \in DOMAIN u /\ Queued(c)[n] = u[n - Len(b)]
             \/ n - Len(bu) \in DOMAIN q /\ Queued(c)[n] = q[n - Len(bu)]
  <2>1. n \in 1 .. Len(bu) + Len(q)
    BY <1>5, <1>6
  <2>2. CASE n <= Len(b)
    <3>1. n <= Len(bu) /\ n \in 1 .. Len(b) + Len(u) /\ n \in DOMAIN b
      BY <1>5, <2>1, <2>2
    <3>2. QED
      BY <1>2, <1>3, <1>4, <1>6, <2>1, <2>2, <3>1
  <2>3. CASE ~(n <= Len(b)) /\ n <= Len(bu)
    <3>1. n \in 1 .. Len(b) + Len(u) /\ n - Len(b) \in DOMAIN u
      BY <1>5, <2>1, <2>3
    <3>2. QED
      BY <1>2, <1>3, <1>4, <1>6, <2>1, <2>3, <3>1
  <2>4. CASE ~(n <= Len(bu))
    <3>1. n - Len(bu) \in DOMAIN q
      BY <1>5, <2>1, <2>4
    <3>2. QED
      BY <1>4, <1>6, <2>1, <2>4, <3>1
  <2>5. QED
    BY <2>2, <2>3, <2>4
<1>8. Len(b) \in Nat /\ Len(bu) \in Nat /\ Len(b) <= Len(bu) /\ Len(bu) = Len(b) + Len(u)
  BY <1>5
<1>9. QED
  BY <1>1, <1>5, <1>6, <1>7, <1>8

LEMMA OneLine ==
    ASSUME RouterInv, AckInv
    PROVE  AnswersInOrder
<1> SUFFICES ASSUME NEW c \in Client,
                    NEW i \in DOMAIN (inbox[c] \o replyQueue), NEW j \in DOMAIN (inbox[c] \o replyQueue),
                    i < j, IsAckTo(c, (inbox[c] \o replyQueue)[i]), IsAckTo(c, (inbox[c] \o replyQueue)[j])
             PROVE  (inbox[c] \o replyQueue)[i].sn < (inbox[c] \o replyQueue)[j].sn
  BY DEF AnswersInOrder
<1>1. PICK q \in Seq(Replies), line \in Seq(Replies) : q = replyQueue /\ line = inbox[c]
  BY LinesTyped
<1>2. PICK all \in Seq(Replies) : all = line \o q
  BY ConcatProperties
<1>3. /\ Len(all) = Len(line) + Len(q)
      /\ \A n \in 1 .. Len(line) + Len(q) :
            all[n] = IF n <= Len(line) THEN line[n] ELSE q[n - Len(line)]
  BY <1>2, ConcatProperties
<1>4. /\ Len(line) \in Nat /\ DOMAIN line = 1 .. Len(line) /\ Len(q) \in Nat
      /\ DOMAIN q = 1 .. Len(q) /\ DOMAIN all = 1 .. Len(line) + Len(q)
  BY <1>3, LenProperties
<1>5. i \in DOMAIN all /\ j \in DOMAIN all /\ IsAckTo(c, all[i]) /\ IsAckTo(c, all[j])
  BY <1>1, <1>2
<1>6. ASSUME NEW n \in DOMAIN all
      PROVE  \/ n \in DOMAIN line /\ n <= Len(line) /\ all[n] = line[n]
             \/ n - Len(line) \in DOMAIN q /\ n > Len(line) /\ all[n] = q[n - Len(line)]
  BY <1>3, <1>4
<1>7. i - Len(line) < j - Len(line) /\ (j <= Len(line) => i <= Len(line))
  BY <1>4, <1>5
<1>8. Rising(line) /\ Rising(q) /\ Ahead(line, q)
  BY <1>1 DEF AckInv, LinesRise
<1>9. IsAck(all[i]) /\ IsAck(all[j])
  BY <1>5 DEF IsAckTo, IsAck
<1>10. CASE i \in DOMAIN line /\ all[i] = line[i]
  <2>1. CASE j \in DOMAIN line /\ all[j] = line[j]
    BY <1>1, <1>2, <1>8, <1>9, <1>10, <2>1 DEF Rising
  <2>2. CASE j - Len(line) \in DOMAIN q /\ all[j] = q[j - Len(line)]
    BY <1>1, <1>2, <1>8, <1>9, <1>10, <2>2 DEF Ahead
  <2>3. QED
    BY <1>5, <1>6, <2>1, <2>2
<1>11. CASE i - Len(line) \in DOMAIN q /\ i > Len(line) /\ all[i] = q[i - Len(line)]
  <2>1. j - Len(line) \in DOMAIN q /\ all[j] = q[j - Len(line)]
    BY <1>4, <1>5, <1>6, <1>7, <1>11
  <2>2. QED
    BY <1>1, <1>2, <1>7, <1>8, <1>9, <1>11, <2>1 DEF Rising
<1>12. QED
  BY <1>5, <1>6, <1>10, <1>11

(***************************************************************************)
(* Acknowledgements reach each client in the order of its requests and at  *)
(* most once, through two queues and three threads, whatever the task      *)
(* threads put between them, whichever clients disconnect meanwhile and    *)
(* whatever replies time out on the way.                                   *)
(***************************************************************************)
THEOREM AnswersKeepOrder == Spec => []AnswersInOrder
<1>1. Init => AckInv
  BY DEF Init, AckInv, RequestsRise, LinesServed, LinesRise, AllServed, Rising, Ahead
<1>2. RouterInv /\ AckInv /\ [Next]_vars => AckInv'
  BY StepKeepsOrder, OtherStepKeepsLines, SendKeepsLines DEF AckInv
<1>3. RouterInv /\ AckInv => AnswersInOrder
  BY OneLine
<1>4. QED
  BY <1>1, <1>2, <1>3, InitRouterInv, NextKeepsRouterInv, PTL DEF Spec

--------------------------------------------------------------------------------
(***************************************************************************)
(* As long as no task was evicted, a thread that looks its object up by id *)
(* finds its own.  An object that has left the table never comes back, so  *)
(* the condition holds of every earlier state too.                         *)
(***************************************************************************)
NoneEvicted == \A r \in DOMAIN infos : tasks[infos[r].task_id] = r

LEMMA TableKeepsEvicted ==
    ASSUME TableInv, [TMNext]_tmVars, NoneEvicted'
    PROVE  NoneEvicted
<1>t. /\ infos \in Seq(TaskInfo) /\ Len(infos) \in Nat /\ DOMAIN infos = 1 .. Len(infos)
      /\ tasks \in [TaskId -> Nat]
      /\ \A i \in TaskId : IsPresent(i) => tasks[i] \in DOMAIN infos
      /\ \A r \in DOMAIN infos : infos[r].task_id \in TaskId
  <2>1. /\ infos \in Seq(TaskInfo) /\ tasks \in [TaskId -> Nat]
        /\ \A i \in TaskId : IsPresent(i) => tasks[i] \in DOMAIN infos
    BY DEF TableInv, TMTypeOK
  <2>2. Len(infos) \in Nat /\ DOMAIN infos = 1 .. Len(infos)
    BY <2>1, LenProperties
  <2>3. \A r \in DOMAIN infos : infos[r] \in TaskInfo
    BY <2>1, <2>2, ElementOfSeq
  <2>4. QED
    BY <2>1, <2>2, <2>3 DEF TaskInfo
<1>1. ASSUME NEW id \in TaskId, NEW identity \in Client, NEW sn \in Sn,
             NEW configure \in Configure, AddTask(id, identity, sn, configure)
      PROVE  NoneEvicted
  <2> DEFINE inserted == [tasks EXCEPT ![id] = Len(infos) + 1]
             oldest   == Head(DequeAppend(taskQueue, id))
  <2>1. /\ infos' = Append(infos, NewTaskInfo(id, identity, sn, configure))
        /\ tasks' = inserted \/ tasks' = [inserted EXCEPT ![oldest] = NoTask]
    BY <1>1 DEF AddTask
  <2>2. /\ DOMAIN infos' = 1 .. Len(infos) + 1
        /\ \A r \in 1 .. Len(infos) : infos'[r] = infos[r]
    BY <2>1, InfosAppended DEF TableInv
  <2> HIDE DEF oldest
  <2>3. ASSUME NEW r \in DOMAIN infos PROVE tasks[infos[r].task_id] = r
    <3>1. tasks'[infos[r].task_id] = r
      BY <1>t, <2>2 DEF NoneEvicted
    <3>2. r # NoTask /\ r # Len(infos) + 1 /\ infos[r].task_id \in TaskId
      BY <1>t DEF NoTask
    <3>3. tasks'[infos[r].task_id] \in {tasks[infos[r].task_id], NoTask, Len(infos) + 1}
      BY <1>t, <2>1, <3>2
    <3>4. QED
      BY <3>1, <3>2, <3>3
  <2>4. QED
    BY <2>3 DEF NoneEvicted
<1>2. ASSUME ObjectsKept, tasks' = tasks PROVE NoneEvicted
  BY <1>2 DEF ObjectsKept, NoneEvicted
<1>3. ASSUME NEW id \in Removable, RemoveTask(id) PROVE NoneEvicted
  <2>1. infos' = infos /\ tasks' = [tasks EXCEPT ![id] = NoTask]
    BY <1>3 DEF RemoveTask
  <2>2. ASSUME NEW r \in DOMAIN infos PROVE tasks[infos[r].task_id] = r
    BY <1>t, <2>1 DEF NoneEvicted, NoTask
  <2>3. QED
    BY <2>2 DEF NoneEvicted
<1>4. ASSUME NEW id \in TaskId, NEW status \in Statuses, UpdateTaskStatus(id, status)
      PROVE  NoneEvicted
  <2>1. tasks' = tasks
    BY <1>4 DEF UpdateTaskStatus
  <2>2. CASE IsPresent(id)
    BY <1>t, <1>2, <1>4, <2>1, <2>2, RewriteKeepsObjects DEF UpdateTaskStatus, WithStatus
  <2>3. CASE ~IsPresent(id)
    BY <1>4, <2>1, <2>3 DEF UpdateTaskStatus, NoneEvicted
  <2>4. QED
    BY <2>2, <2>3
<1>5. ASSUME NEW r \in DOMAIN infos, SetProcessTimes(r) PROVE NoneEvicted
  <2> DEFINE time == Stamped(infos[r].time, {"process_start", "process_end"})
  <2>1. infos[r] \in TaskInfo
    BY <1>t, ElementOfSeq
  <2>2. infos' = [infos EXCEPT ![r].time = time] /\ tasks' = tasks
    BY <1>5 DEF SetProcessTimes
  <2> HIDE DEF time
  <2>3. DOMAIN infos' = DOMAIN infos /\ \A i \in DOMAIN infos : infos'[i].task_id = infos[i].task_id
    BY <1>t, <2>1, <2>2 DEF TaskInfo
  <2>4. QED
    BY <2>2, <2>3 DEF NoneEvicted
<1>6. CASE Tick \/ UNCHANGED tmVars
  BY <1>6 DEF Tick, tmVars, NoneEvicted
<1>7. QED
  BY <1>1, <1>3, <1>4, <1>5, <1>6 DEF TMNext

LEMMA StepKeepsEvicted ==
    ASSUME RouterInv, [Next]_vars, NoneEvicted'
    PROVE  NoneEvicted
BY StepsOnTable, TableKeepsEvicted DEF RouterInv

\* Each object is the one its id refers to, and the only one of its id.
LEMMA OwnObject ==
    ASSUME RouterInv, NoneEvicted, NEW r \in DOMAIN infos
    PROVE  /\ tasks[IdOf(r)] = r /\ IsPresent(IdOf(r)) /\ IdOf(r) \in TaskId
           /\ \A i \in DOMAIN infos : IdOf(i) = IdOf(r) => i = r
           /\ infos[r] \in TaskInfo /\ infos[r].time \in [Stamp -> Nat]
<1>1. IdOf(r) \in TaskId /\ DOMAIN infos = 1 .. Len(infos) /\ infos[r] \in TaskInfo
  BY InfosFacts
<1>2. \A i \in DOMAIN infos : tasks[IdOf(i)] = i
  BY DEF NoneEvicted, IdOf
<1>3. r # NoTask
  BY <1>1 DEF NoTask
<1>4. QED
  BY <1>1, <1>2, <1>3 DEF IsPresent, TaskInfo

\* What a thread does to the table when it finds its own object there.
LEMMA OwnStatusSet ==
    ASSUME RouterInv, NoneEvicted, NEW r \in 1 .. MaxTasks, NEW from, NEW to, NEW status,
           from \notin {"idle", "done"}, SetStatus(r, from, status, to)
    PROVE  /\ r \in DOMAIN infos /\ DOMAIN infos' = DOMAIN infos
           /\ threads[r].at = from /\ threads' = [threads EXCEPT ![r].at = to]
           /\ UNCHANGED <<tasks, taskQueue, clock, proc, published>>
           /\ \A i \in DOMAIN infos : i # r => infos'[i] = infos[i]
           /\ infos'[r].status = status /\ infos'[r].task_id = infos[r].task_id
           /\ infos'[r].sn = infos[r].sn /\ infos'[r].configure = infos[r].configure
           /\ infos'[r].time = Stamped(infos[r].time, StampsOf(status))
<1>1. threads[r].at = from /\ threads' = [threads EXCEPT ![r].at = to]
  BY DEF SetStatus, Goto
<1>2. r \in DOMAIN infos
  BY <1>1, RunningThread
<1>3. tasks[IdOf(r)] = r /\ IsPresent(IdOf(r)) /\ infos[r] \in TaskInfo
  BY <1>2, OwnObject
<1>4. infos' = [infos EXCEPT ![r] = WithStatus(infos[r], status)]
  BY <1>3 DEF SetStatus, UpdateTaskStatus
<1>5. UNCHANGED <<tasks, taskQueue, clock, proc, published>>
  BY DEF SetStatus, UpdateTaskStatus
<1>6. PICK time : time = Stamped(infos[r].time, StampsOf(status))
  OBVIOUS
<1>7. PICK o : o = [infos[r] EXCEPT !.status = status, !.time = time]
  OBVIOUS
<1>8. /\ o.status = status /\ o.time = time /\ o.task_id = infos[r].task_id
      /\ o.sn = infos[r].sn /\ o.configure = infos[r].configure
  BY <1>3, <1>7 DEF TaskInfo
<1>9. infos' = [infos EXCEPT ![r] = o]
  BY <1>4, <1>6, <1>7 DEF WithStatus
<1>10. QED
  BY <1>1, <1>2, <1>5, <1>6, <1>8, <1>9

(***************************************************************************)
(* What is known of a task nobody evicted, by where its thread is: the     *)
(* status in the table, what was published, the timestamps set so far, and *)
(* the durations the thread has taken.                                     *)
(***************************************************************************)
FromPost == {"post", "lookup", "timing"}
FromSucceed == {"succeed"} \cup FromPost
FromRun == {"run"} \cup FromSucceed
FromCompiled == {"compiled"} \cup FromRun
Begun == FromCompiled \cup {"get", "compile", "fail", "success", "error"}

StatusFits(at, status) ==
    /\ at # "notask"
    /\ at \in {"idle", "running", "get", "compile"} => status = "PENDING"
    /\ at = "compiled" => status = "COMPILING"
    /\ at = "run" => status = "COMPILED"
    /\ at \in {"succeed", "fail"} => status = "RUNNING"
    /\ at \in FromPost \cup {"success", "result"} => status = "SUCCESSED"
    /\ at = "error" => status = "FAILED"
    /\ at = "done" => status \in Terminal

StoryFits(at, status, story, handing) ==
    /\ at = "idle" => story = IF handing = "pending" THEN <<>> ELSE <<"PENDING">>
    /\ at = "running" => story = <<"PENDING">>
    /\ at \in Begun => story = <<"PENDING", "RUNNING">>
    /\ at = "result" => story = <<"PENDING", "RUNNING", "SUCCESSED">>
    /\ at = "done" => story = IF status = "SUCCESSED" THEN <<"PENDING", "RUNNING", "SUCCESSED">>
                                                      ELSE <<"PENDING", "RUNNING">>

TimesFit(at, t, now) ==
    /\ at \in FromCompiled => t["compile_start"] \in Epoch .. now
    /\ at \in FromRun => /\ t["compile_end"] \in t["compile_start"] .. now
                         /\ t["pending_start"] \in Epoch .. now
    /\ at \in FromSucceed => /\ t["pending_end"] \in t["pending_start"] .. now
                             /\ t["measure_start"] \in Epoch .. now
    /\ at \in FromPost => t["measure_end"] \in t["measure_start"] .. now
    /\ at \in {"lookup", "timing"} => /\ t["process_start"] \in Epoch .. now
                                      /\ t["process_end"] \in t["process_start"] .. now

Durations == {"CompileTime", "MeasureTime", "PostProcessTime", "PendingTime"}

SaneNote(note, now) ==
    /\ DOMAIN note = Durations
    /\ \A f \in Durations : note[f] \in 0 .. (now - Epoch)

Own(r) ==
    /\ threads[r].at \in Holding => threads[r].task = r
    /\ StatusFits(threads[r].at, infos[r].status)
    /\ TimesFit(threads[r].at, infos[r].time, clock)
    /\ threads[r].at \in {"success", "result"} => SaneNote(threads[r].note, clock)
    /\ IdOf(r) \in Watched =>
          StoryFits(threads[r].at, infos[r].status, published[IdOf(r)], proc.at)

\* Only the thread of the latest object may not have started yet.
Starts ==
    /\ \A r \in 1 .. MaxTasks : r \notin DOMAIN infos => threads[r].at = "idle"
    /\ \A r \in DOMAIN infos :
          threads[r].at = "idle" <=> proc.at \in {"pending", "spawn"} /\ r = Len(infos)

Untold == \A id \in Watched : (\A r \in DOMAIN infos : IdOf(r) # id) => published[id] = <<>>

OwnInv == Starts /\ Untold /\ \A r \in DOMAIN infos : Own(r)

LEMMA ClockGrows ==
    ASSUME RouterInv, [Next]_vars
    PROVE  clock \in Nat /\ clock' \in Nat /\ clock <= clock' /\ Epoch \in Nat /\ Epoch <= clock
<1>1. clock \in Epoch .. MaxTime /\ clock' \in Epoch .. MaxTime
  BY StepKeepsTable DEF RouterInv, TableInv, TMTypeOK
<1>2. clock' = clock \/ clock' = clock + 1
  BY StepsOnTable DEF TMNext, AddTask, UpdateTaskStatus, SetProcessTimes, RemoveTask, Tick, tmVars
<1>3. QED
  BY <1>1, <1>2, TimeAssumption

\* What is known stays true while time passes.
LEMMA FitsLater ==
    ASSUME NEW now \in Nat, NEW later \in Nat, now <= later, Epoch \in Nat, NEW at,
           NEW t \in [Stamp -> Nat], NEW note
    PROVE  /\ TimesFit(at, t, now) => TimesFit(at, t, later)
           /\ SaneNote(note, now) => SaneNote(note, later)
<1>1. \A x \in Nat : x .. now \subseteq x .. later
  OBVIOUS
<1>2. \A s \in Stamp : t[s] \in Nat
  OBVIOUS
<1>3. TimesFit(at, t, now) => TimesFit(at, t, later)
  BY <1>1, <1>2 DEF TimesFit, Stamp
<1>4. 0 .. (now - Epoch) \subseteq 0 .. (later - Epoch)
  OBVIOUS
<1>5. SaneNote(note, now) => SaneNote(note, later)
  BY <1>4 DEF SaneNote
<1>6. QED
  BY <1>3, <1>5

\* A task whose thread does not move.
LEMMA OwnKept ==
    ASSUME RouterInv, [Next]_vars, NoneEvicted, NEW r \in DOMAIN infos, Own(r),
           infos'[r] = infos[r], threads'[r] = threads[r],
           threads[r].at = "idle" => proc'.at = proc.at,
           IdOf(r) \in Watched => published'[IdOf(r)] = published[IdOf(r)]
    PROVE  Own(r)'
<1>1. /\ clock \in Nat /\ clock' \in Nat /\ clock <= clock' /\ Epoch \in Nat
      /\ infos[r].time \in [Stamp -> Nat]
  BY ClockGrows, OwnObject
<1>2. PICK at, t, note : at = threads[r].at /\ t = infos[r].time /\ note = threads[r].note
  OBVIOUS
<1>3. /\ TimesFit(at, t, clock) /\ (at \in {"success", "result"} => SaneNote(note, clock))
  BY <1>2 DEF Own
<1>4. PICK now \in Nat, later \in Nat : now = clock /\ later = clock'
  BY <1>1
<1>5. TimesFit(at, t, later) /\ (at \in {"success", "result"} => SaneNote(note, later))
  BY <1>1, <1>2, <1>3, <1>4, FitsLater
<1>6. TimesFit(threads[r].at, infos[r].time, clock)'
  BY <1>2, <1>4, <1>5 DEF TimesFit
<1>7. (threads[r].at \in {"success", "result"} => SaneNote(threads[r].note, clock))'
  BY <1>2, <1>4, <1>5 DEF SaneNote
<1>8. (threads[r].at \in Holding => threads[r].task = r)'
  BY DEF Own
<1>9. StatusFits(threads[r].at, infos[r].status)'
  BY DEF Own, StatusFits
<1>10. (IdOf(r) \in Watched =>
          StoryFits(threads[r].at, infos[r].status, published[IdOf(r)], proc.at))'
  BY DEF Own, StoryFits, IdOf, Begun, FromCompiled, FromRun, FromSucceed, FromPost
<1>11. QED
  BY <1>6, <1>7, <1>8, <1>9, <1>10 DEF Own

\* What each status update adds to the timestamps.
LEMMA StampedTimes ==
    ASSUME NEW t \in [Stamp -> Nat], clock \in Nat, Epoch \in Nat, Epoch <= clock
    PROVE  /\ TimesFit("compiled", Stamped(t, StampsOf("COMPILING")), clock)
           /\ TimesFit("compiled", t, clock)
                => TimesFit("run", Stamped(t, StampsOf("COMPILED")), clock)
           /\ TimesFit("run", t, clock)
                => TimesFit("succeed", Stamped(t, StampsOf("RUNNING")), clock)
           /\ TimesFit("succeed", t, clock)
                => TimesFit("post", Stamped(t, StampsOf("SUCCESSED")), clock)
           /\ TimesFit("post", t, clock)
                => TimesFit("lookup", Stamped(t, {"process_start", "process_end"}), clock)
<1>1. \A stamps : \A s \in Stamp :
         Stamped(t, stamps)[s] = IF s \in stamps THEN clock ELSE t[s]
  BY DEF Stamped
<1>2. /\ StampsOf("COMPILING") = {"compile_start"}
      /\ StampsOf("COMPILED") = {"compile_end", "pending_start"}
      /\ StampsOf("RUNNING") = {"measure_start", "pending_end"}
      /\ StampsOf("SUCCESSED") = {"measure_end", "process_start"}
  BY DEF StampsOf
<1>3. Stamp = {"compile_start", "compile_end", "pending_start", "pending_end",
               "measure_start", "measure_end", "process_start", "process_end"}
  BY DEF Stamp
<1>4. \A s \in Stamp : t[s] \in Nat
  OBVIOUS
<1> USE DEF TimesFit, FromCompiled, FromRun, FromSucceed, FromPost
<1>5. TimesFit("compiled", Stamped(t, StampsOf("COMPILING")), clock)
  BY <1>1, <1>2, <1>3
<1>6. ASSUME TimesFit("compiled", t, clock)
      PROVE  TimesFit("run", Stamped(t, StampsOf("COMPILED")), clock)
  BY <1>1, <1>2, <1>3, <1>4, <1>6
<1>7. ASSUME TimesFit("run", t, clock)
      PROVE  TimesFit("succeed", Stamped(t, StampsOf("RUNNING")), clock)
  BY <1>1, <1>2, <1>3, <1>4, <1>7
<1>8. ASSUME TimesFit("succeed", t, clock)
      PROVE  TimesFit("post", Stamped(t, StampsOf("SUCCESSED")), clock)
  BY <1>1, <1>2, <1>3, <1>4, <1>8
<1>9. ASSUME TimesFit("post", t, clock)
      PROVE  TimesFit("lookup", Stamped(t, {"process_start", "process_end"}), clock)
  BY <1>1, <1>2, <1>3, <1>4, <1>9
<1>10. QED
  BY <1>5, <1>6, <1>7, <1>8, <1>9

LEMMA TakenTimes ==
    ASSUME RouterInv, NoneEvicted, NEW r \in DOMAIN infos,
           TimesFit("timing", infos[r].time, clock)
    PROVE  SaneNote(GetTimingInfo(IdOf(r)), clock)
<1>1. PICK t \in [Stamp -> Nat] : t = infos[r].time
  BY OwnObject
<1>2. GetTimingInfo(IdOf(r)) =
         [CompileTime     |-> t["compile_end"] - t["compile_start"],
          MeasureTime     |-> t["measure_end"] - t["measure_start"],
          PostProcessTime |-> t["process_end"] - t["process_start"],
          PendingTime     |-> t["pending_end"] - t["pending_start"]]
  BY <1>1, OwnObject DEF GetTimingInfo
<1>3. PICK now : now = clock /\ now \in Nat /\ Epoch \in Nat /\ Epoch <= now
  BY TimeAssumption DEF RouterInv, TableInv, TMTypeOK
<1>4. TimesFit("timing", t, now)
  BY <1>1, <1>3
<1>5. \A s \in Stamp : t[s] \in Nat
  BY <1>1
<1>6. /\ t["compile_end"] - t["compile_start"] \in 0 .. (now - Epoch)
      /\ t["measure_end"] - t["measure_start"] \in 0 .. (now - Epoch)
      /\ t["process_end"] - t["process_start"] \in 0 .. (now - Epoch)
      /\ t["pending_end"] - t["pending_start"] \in 0 .. (now - Epoch)
  BY <1>3, <1>4, <1>5 DEF TimesFit, FromCompiled, FromRun, FromSucceed, FromPost, Stamp
<1>7. QED
  BY <1>2, <1>3, <1>6 DEF SaneNote, Durations

\* A task thread moves, and with it nothing but its own object and its own story.
OnlyOwn(r) ==
    /\ r \in DOMAIN infos /\ DOMAIN infos' = DOMAIN infos /\ UNCHANGED <<tasks, clock, proc>>
    /\ \A i \in DOMAIN infos : i # r => infos'[i] = infos[i]
    /\ infos'[r].task_id = infos[r].task_id /\ infos'[r].sn = infos[r].sn
    /\ \A i \in 1 .. MaxTasks : i # r => threads'[i] = threads[i]
    /\ threads'[r].at # "idle"
    /\ \A id \in Watched : id # IdOf(r) => published'[id] = published[id]

LEMMA UpdateKeepsOwn ==
    ASSUME RouterInv, NoneEvicted, NEW r \in 1 .. MaxTasks, \A i \in DOMAIN infos : Own(i),
           Compiling(r) \/ Compiled(r) \/ Running(r) \/ Succeeded(r) \/ Fail(r)
    PROVE  OnlyOwn(r) /\ Own(r)'
<1>1. PICK from, to, status :
         /\ <<from, status, to>> \in {<<"compile", "COMPILING", "compiled">>,
                                      <<"compiled", "COMPILED", "run">>,
                                      <<"run", "RUNNING", "succeed">>,
                                      <<"run", "RUNNING", "fail">>,
                                      <<"succeed", "SUCCESSED", "post">>,
                                      <<"fail", "FAILED", "error">>}
         /\ SetStatus(r, from, status, to)
  BY DEF Compiling, Compiled, Running, Succeeded, Fail
<1>2. from \notin {"idle", "done"} /\ from \in Begun /\ to \in Begun /\ from \in Holding
      /\ StatusFits(to, status) /\ to \notin {"success", "result"}
  BY <1>1 DEF Begun, FromCompiled, FromRun, FromSucceed, FromPost, StatusFits, Holding
<1>3. /\ r \in DOMAIN infos /\ DOMAIN infos' = DOMAIN infos
      /\ threads[r].at = from /\ threads' = [threads EXCEPT ![r].at = to]
      /\ UNCHANGED <<tasks, taskQueue, clock, proc, published>>
      /\ \A i \in DOMAIN infos : i # r => infos'[i] = infos[i]
      /\ infos'[r].status = status /\ infos'[r].task_id = infos[r].task_id
      /\ infos'[r].sn = infos[r].sn
      /\ infos'[r].time = Stamped(infos[r].time, StampsOf(status))
  BY <1>1, <1>2, OwnStatusSet
<1>4. threads[r] \in Thread /\ threads \in [1 .. MaxTasks -> Thread]
  BY DEF RouterInv, ThreadsOK
<1>5. PICK t : t = [threads[r] EXCEPT !.at = to]
  OBVIOUS
<1>6. t.at = to /\ t.task = threads[r].task /\ t.note = threads[r].note
  BY <1>4, <1>5 DEF Thread
<1>7. threads'[r] = t /\ \A i \in 1 .. MaxTasks : i # r => threads'[i] = threads[i]
  BY <1>3, <1>4, <1>5
<1>8. OnlyOwn(r)
  <2>1. threads'[r].at # "idle"
    BY <1>1, <1>6, <1>7
  <2>2. QED
    BY <1>3, <1>7, <2>1 DEF OnlyOwn
<1>9. Own(r)
  BY <1>3
<1>10. TimesFit(to, infos'[r].time, clock)
  <2>1. PICK x \in [Stamp -> Nat] : x = infos[r].time
    BY <1>3, OwnObject
  <2>2. TimesFit(from, x, clock)
    BY <1>3, <1>9, <2>1 DEF Own
  <2>3. clock \in Nat /\ Epoch \in Nat /\ Epoch <= clock
    BY TimeAssumption DEF RouterInv, TableInv, TMTypeOK
  <2>4. CASE to \in {"compiled", "run", "succeed", "post"}
    BY <1>1, <1>3, <2>1, <2>2, <2>3, <2>4, StampedTimes
  <2>5. CASE to \in {"fail", "error"}
    BY <2>5 DEF TimesFit, FromCompiled, FromRun, FromSucceed, FromPost
  <2>6. QED
    BY <1>1, <2>4, <2>5
<1>11. TimesFit(threads[r].at, infos[r].time, clock)'
  BY <1>3, <1>6, <1>7, <1>10 DEF TimesFit
<1>12. StatusFits(threads[r].at, infos[r].status)'
  BY <1>2, <1>3, <1>6, <1>7 DEF StatusFits
<1>13. (IdOf(r) \in Watched =>
          StoryFits(threads[r].at, infos[r].status, published[IdOf(r)], proc.at))'
  <2>1. to \notin {"idle", "running", "result", "done"}
    BY <1>1
  <2>2. QED
    BY <1>2, <1>3, <1>6, <1>7, <1>9, <2>1 DEF Own, StoryFits, IdOf
<1>14. (threads[r].at \in Holding => threads[r].task = r)'
  BY <1>2, <1>3, <1>6, <1>7, <1>9 DEF Own
<1>15. QED
  BY <1>2, <1>6, <1>7, <1>8, <1>11, <1>12, <1>13, <1>14 DEF Own

\* Thread r becomes t and leaves the table alone.
LEMMA ThreadMoves ==
    ASSUME RouterInv, NEW r \in DOMAIN infos, NEW t, t.at # "idle",
           threads' = [threads EXCEPT ![r] = t],
           UNCHANGED <<infos, tasks, clock, proc>>,
           published' = published \/ \E status : Publish(IdOf(r), status)
    PROVE  OnlyOwn(r) /\ threads'[r] = t
<1>1. threads \in [1 .. MaxTasks -> Thread] /\ r \in 1 .. MaxTasks
  BY InfosFacts DEF RouterInv, ThreadsOK
<1>2. threads'[r] = t /\ \A i \in 1 .. MaxTasks : i # r => threads'[i] = threads[i]
  BY <1>1
<1>3. \A id \in Watched : id # IdOf(r) => published'[id] = published[id]
  BY DEF Publish
<1>4. QED
  BY <1>2, <1>3 DEF OnlyOwn

\* A status is added to a story.
LEMMA StoryGrows ==
    ASSUME RouterInv, NEW id \in Watched, NEW status, Publish(id, status)
    PROVE  published'[id] = Append(published[id], status)
BY DEF Publish

LEMMA Stories ==
    /\ Append(<<>>, "PENDING") = <<"PENDING">>
    /\ Append(<<"PENDING">>, "RUNNING") = <<"PENDING", "RUNNING">>
    /\ Append(<<"PENDING", "RUNNING">>, "SUCCESSED") = <<"PENDING", "RUNNING", "SUCCESSED">>
<1>1. "PENDING" \in Status /\ "RUNNING" \in Status /\ "SUCCESSED" \in Status
  BY DEF Status
<1>2. QED
  BY <1>1, AppendedTuples

LEMMA PublishKeepsOwn ==
    ASSUME RouterInv, NoneEvicted, NEW r \in 1 .. MaxTasks, \A i \in DOMAIN infos : Own(i),
           PublishRunning(r) \/ PublishSucceeded(r)
    PROVE  OnlyOwn(r) /\ Own(r)'
<1>1. PICK from, to, status :
         /\ <<from, status, to>> \in {<<"running", "RUNNING", "get">>,
                                      <<"success", "SUCCESSED", "result">>}
         /\ Goto(r, from, to) /\ Publish(IdOf(r), status)
         /\ UNCHANGED <<infos, tasks, clock, proc>>
  BY DEF PublishRunning, PublishSucceeded, tmVars
<1>2. threads[r].at = from /\ threads' = [threads EXCEPT ![r].at = to]
  BY <1>1 DEF Goto
<1>3. r \in DOMAIN infos /\ threads[r] \in Thread
  BY <1>1, <1>2, RunningThread
<1>4. PICK t : t = [threads[r] EXCEPT !.at = to]
  OBVIOUS
<1>5. t.at = to /\ t.task = threads[r].task /\ t.note = threads[r].note
  BY <1>3, <1>4 DEF Thread
<1>6. to # "idle" /\ threads' = [threads EXCEPT ![r] = t]
  BY <1>1, <1>2, <1>4
<1>7. OnlyOwn(r) /\ threads'[r] = t
  BY <1>1, <1>3, <1>5, <1>6, ThreadMoves
<1>8. Own(r)
  BY <1>3
<1>9. (threads[r].at \in Holding => threads[r].task = r)'
  BY <1>1, <1>2, <1>5, <1>7, <1>8 DEF Own, Holding
<1>10. StatusFits(threads[r].at, infos[r].status)'
  BY <1>1, <1>2, <1>5, <1>7, <1>8 DEF Own, StatusFits, FromPost
<1>11. TimesFit(threads[r].at, infos[r].time, clock)'
  BY <1>1, <1>5, <1>7 DEF TimesFit, FromCompiled, FromRun, FromSucceed, FromPost
<1>12. (threads[r].at \in {"success", "result"} => SaneNote(threads[r].note, clock))'
  BY <1>1, <1>2, <1>5, <1>7, <1>8 DEF Own, SaneNote
<1>13. (IdOf(r) \in Watched =>
          StoryFits(threads[r].at, infos[r].status, published[IdOf(r)], proc.at))'
  <2>1. IdOf(r)' = IdOf(r)
    BY <1>1 DEF IdOf
  <2>2. CASE IdOf(r) \in Watched
    <3>1. published'[IdOf(r)] = Append(published[IdOf(r)], status)
      BY <1>1, <2>2, StoryGrows
    <3>2. StoryFits(from, infos[r].status, published[IdOf(r)], proc.at)
      BY <1>2, <1>8, <2>2 DEF Own
    <3>3. CASE from = "running"
      <4>1. published'[IdOf(r)] = <<"PENDING", "RUNNING">>
        BY <1>1, <3>1, <3>2, <3>3, Stories DEF StoryFits
      <4>2. QED
        BY <1>1, <1>5, <1>7, <2>1, <3>3, <4>1 DEF StoryFits
    <3>4. CASE from = "success"
      <4>1. published'[IdOf(r)] = <<"PENDING", "RUNNING", "SUCCESSED">>
        BY <1>1, <3>1, <3>2, <3>4, Stories DEF StoryFits, Begun
      <4>2. QED
        BY <1>1, <1>5, <1>7, <2>1, <3>4, <4>1
           DEF StoryFits, Begun, FromCompiled, FromRun, FromSucceed, FromPost
    <3>5. QED
      BY <1>1, <3>3, <3>4
  <2>3. QED
    BY <2>1, <2>2
<1>14. QED
  BY <1>7, <1>9, <1>10, <1>11, <1>12, <1>13 DEF Own

LEMMA LookUpKeepsOwn ==
    ASSUME RouterInv, NoneEvicted, NEW r \in 1 .. MaxTasks, \A i \in DOMAIN infos : Own(i),
           GetTask(r) \/ LookUpResult(r) \/ TakeTiming(r)
    PROVE  OnlyOwn(r) /\ Own(r)'
<1>1. /\ threads[r].at \in {"get", "lookup", "timing"}
      /\ UNCHANGED <<infos, tasks, clock, proc, published>>
  BY DEF GetTask, LookUpResult, TakeTiming, tmVars
<1>2. r \in DOMAIN infos /\ threads[r] \in Thread
  BY <1>1, RunningThread
<1>3. tasks[IdOf(r)] = r /\ IsPresent(IdOf(r)) /\ Own(r)
  BY <1>2, OwnObject
<1>4. PICK from, to, task, note, t :
         /\ \/ from = "get" /\ to = "compile" /\ task = r
            \/ from = "lookup" /\ to = "timing" /\ task = r
            \/ /\ from = "timing" /\ to = "success" /\ task = threads[r].task
               /\ note = GetTimingInfo(IdOf(r))
         /\ threads[r].at = from /\ t.at = to /\ t.task = task
         /\ from = "timing" => t.note = note
         /\ threads' = [threads EXCEPT ![r] = t]
  <2>1. CASE GetTask(r)
    <3>1. PICK t : t = [threads[r] EXCEPT !.at = "compile", !.task = r, !.measured = r]
      OBVIOUS
    <3>2. t.at = "compile" /\ t.task = r
      BY <1>2, <3>1 DEF Thread
    <3>3. threads' = [threads EXCEPT ![r] = t] /\ threads[r].at = "get"
      BY <1>3, <2>1, <3>1 DEF GetTask
    <3>4. QED
      BY <3>2, <3>3
  <2>2. CASE LookUpResult(r)
    <3>1. PICK t : t = [threads[r] EXCEPT !.at = "timing", !.task = r]
      OBVIOUS
    <3>2. t.at = "timing" /\ t.task = r
      BY <1>2, <3>1 DEF Thread
    <3>3. threads' = [threads EXCEPT ![r] = t] /\ threads[r].at = "lookup"
      BY <1>3, <2>2, <3>1 DEF LookUpResult
    <3>4. QED
      BY <3>2, <3>3
  <2>3. CASE TakeTiming(r)
    <3>1. PICK note : note = GetTimingInfo(IdOf(r))
      OBVIOUS
    <3>2. PICK t : t = [threads[r] EXCEPT !.at = "success", !.note = note]
      OBVIOUS
    <3>3. t.at = "success" /\ t.task = threads[r].task /\ t.note = note
      BY <1>2, <3>2 DEF Thread
    <3>4. threads' = [threads EXCEPT ![r] = t] /\ threads[r].at = "timing"
      BY <2>3, <3>1, <3>2 DEF TakeTiming
    <3>5. QED
      BY <3>1, <3>3, <3>4
  <2>4. QED
    BY <2>1, <2>2, <2>3
<1>5. OnlyOwn(r) /\ threads'[r] = t
  <2>1. t.at # "idle"
    BY <1>4
  <2>2. QED
    BY <1>1, <1>2, <1>4, <2>1, ThreadMoves
<1>6. (threads[r].at \in Holding => threads[r].task = r)'
  BY <1>3, <1>4, <1>5 DEF Own, Holding
<1>7. StatusFits(threads[r].at, infos[r].status)'
  BY <1>1, <1>3, <1>4, <1>5 DEF Own, StatusFits, FromPost
<1>8. TimesFit(threads[r].at, infos[r].time, clock)'
  BY <1>1, <1>3, <1>4, <1>5 DEF Own, TimesFit, FromCompiled, FromRun, FromSucceed, FromPost
<1>9. (threads[r].at \in {"success", "result"} => SaneNote(threads[r].note, clock))'
  <2>1. CASE from = "timing"
    <3>1. SaneNote(note, clock)
      BY <1>2, <1>3, <1>4, <2>1, TakenTimes DEF Own
    <3>2. QED
      BY <1>1, <1>4, <1>5, <2>1, <3>1 DEF SaneNote
  <2>2. CASE from # "timing"
    BY <1>4, <1>5, <2>2
  <2>3. QED
    BY <2>1, <2>2
<1>10. (IdOf(r) \in Watched =>
          StoryFits(threads[r].at, infos[r].status, published[IdOf(r)], proc.at))'
  BY <1>1, <1>3, <1>4, <1>5
     DEF Own, StoryFits, IdOf, Begun, FromCompiled, FromRun, FromSucceed, FromPost
<1>11. QED
  BY <1>5, <1>6, <1>7, <1>8, <1>9, <1>10 DEF Own

LEMMA ExitKeepsOwn ==
    ASSUME RouterInv, NoneEvicted, NEW r \in 1 .. MaxTasks, \A i \in DOMAIN infos : Own(i),
           QueueResult(r) \/ QueueErrorResult(r)
    PROVE  OnlyOwn(r) /\ Own(r)' /\ threads'[r].at = "done"
<1>1. PICK from \in {"result", "error"} :
         /\ threads[r].at = from
         /\ threads' = [threads EXCEPT ![r] = [Idle EXCEPT !.at = "done"]]
         /\ UNCHANGED <<infos, tasks, clock, proc, published>>
  BY DEF QueueResult, QueueErrorResult, Exit, tmVars
<1>2. r \in DOMAIN infos /\ Own(r)
  BY <1>1, RunningThread
<1>3. PICK t : t = [Idle EXCEPT !.at = "done"]
  OBVIOUS
<1>4. t.at = "done"
  BY <1>3 DEF Idle
<1>5. OnlyOwn(r) /\ threads'[r] = t
  BY <1>1, <1>2, <1>3, <1>4, ThreadMoves
<1>6. StatusFits(threads[r].at, infos[r].status)'
  BY <1>1, <1>2, <1>4, <1>5 DEF Own, StatusFits, Terminal, FromPost
<1>7. (IdOf(r) \in Watched =>
          StoryFits(threads[r].at, infos[r].status, published[IdOf(r)], proc.at))'
  BY <1>1, <1>2, <1>4, <1>5 DEF Own, StatusFits, StoryFits, IdOf, Begun, FromCompiled, FromRun,
                                FromSucceed, FromPost
<1>8. /\ (threads[r].at \in Holding => threads[r].task = r)'
      /\ TimesFit(threads[r].at, infos[r].time, clock)'
      /\ (threads[r].at \in {"success", "result"} => SaneNote(threads[r].note, clock))'
  BY <1>4, <1>5 DEF Holding, TimesFit, FromCompiled, FromRun, FromSucceed, FromPost
<1>9. QED
  BY <1>4, <1>5, <1>6, <1>7, <1>8 DEF Own

LEMMA PostKeepsOwn ==
    ASSUME RouterInv, NoneEvicted, NEW r \in 1 .. MaxTasks, \A i \in DOMAIN infos : Own(i),
           PostProcess(r)
    PROVE  OnlyOwn(r) /\ Own(r)'
<1>1. /\ threads[r].at = "post" /\ threads' = [threads EXCEPT ![r].at = "lookup"]
      /\ SetProcessTimes(threads[r].task) /\ UNCHANGED <<tasks, clock, proc, published>>
  BY DEF PostProcess, Goto, SetProcessTimes
<1>2. r \in DOMAIN infos /\ threads[r] \in Thread /\ threads \in [1 .. MaxTasks -> Thread]
  BY <1>1, RunningThread DEF RouterInv, ThreadsOK
<1>3. Own(r) /\ threads[r].task = r /\ infos[r] \in TaskInfo
  BY <1>1, <1>2, OwnObject DEF Own, Holding
<1>4. PICK time : time = Stamped(infos[r].time, {"process_start", "process_end"})
  OBVIOUS
<1>5. infos' = [infos EXCEPT ![r].time = time]
  BY <1>1, <1>3, <1>4 DEF SetProcessTimes
<1>6. PICK o : o = [infos[r] EXCEPT !.time = time]
  OBVIOUS
<1>7. o.time = time /\ o.status = infos[r].status /\ o.task_id = infos[r].task_id /\ o.sn = infos[r].sn
  BY <1>3, <1>6 DEF TaskInfo
<1>8. /\ infos'[r] = o /\ DOMAIN infos' = DOMAIN infos
      /\ \A i \in DOMAIN infos : i # r => infos'[i] = infos[i]
  BY <1>2, <1>5, <1>6
<1>9. PICK t : t = [threads[r] EXCEPT !.at = "lookup"]
  OBVIOUS
<1>10. t.at = "lookup" /\ t.task = r
  BY <1>2, <1>3, <1>9 DEF Thread
<1>11. threads'[r] = t /\ \A i \in 1 .. MaxTasks : i # r => threads'[i] = threads[i]
  BY <1>1, <1>2, <1>9
<1>12. OnlyOwn(r)
  BY <1>1, <1>2, <1>7, <1>8, <1>10, <1>11 DEF OnlyOwn
<1>13. TimesFit("lookup", time, clock)
  <2>1. PICK x \in [Stamp -> Nat] : x = infos[r].time
    BY <1>2, OwnObject
  <2>2. TimesFit("post", x, clock)
    BY <1>1, <1>3, <2>1 DEF Own
  <2>3. clock \in Nat /\ Epoch \in Nat /\ Epoch <= clock
    BY TimeAssumption DEF RouterInv, TableInv, TMTypeOK
  <2>4. QED
    BY <1>4, <2>1, <2>2, <2>3, StampedTimes
<1>14. TimesFit(threads[r].at, infos[r].time, clock)'
  BY <1>1, <1>7, <1>8, <1>10, <1>11, <1>13 DEF TimesFit
<1>15. StatusFits(threads[r].at, infos[r].status)'
  BY <1>1, <1>3, <1>7, <1>8, <1>10, <1>11 DEF Own, StatusFits, FromPost
<1>16. (IdOf(r) \in Watched =>
          StoryFits(threads[r].at, infos[r].status, published[IdOf(r)], proc.at))'
  BY <1>1, <1>3, <1>7, <1>8, <1>10, <1>11
     DEF Own, StoryFits, IdOf, Begun, FromCompiled, FromRun, FromSucceed, FromPost
<1>17. QED
  BY <1>10, <1>11, <1>12, <1>14, <1>15, <1>16 DEF Own

LEMMA ThreadKeepsOwn ==
    ASSUME RouterInv, NoneEvicted, NEW r \in 1 .. MaxTasks, \A i \in DOMAIN infos : Own(i),
           ThreadStep(r)
    PROVE  OnlyOwn(r) /\ Own(r)'
<1>1. ~PublishNoTask(r)
  <2>1. SUFFICES ASSUME threads[r].at = "notask" PROVE FALSE
    BY DEF PublishNoTask, Exit
  <2>2. r \in DOMAIN infos
    BY <2>1, RunningThread
  <2>3. QED
    BY <2>1, <2>2 DEF Own, StatusFits
<1>2. QED
  BY <1>1, UpdateKeepsOwn, PublishKeepsOwn, LookUpKeepsOwn, ExitKeepsOwn, PostKeepsOwn
     DEF ThreadStep

LEMMA ThreadStepKeepsOwn ==
    ASSUME RouterInv, NoneEvicted, OwnInv, [Next]_vars, NEW r \in 1 .. MaxTasks, ThreadStep(r)
    PROVE  OwnInv'
<1>1. OnlyOwn(r) /\ Own(r)'
  BY ThreadKeepsOwn DEF OwnInv
<1>2. threads[r].at # "idle"
  BY DEF ThreadStep, PublishRunning, GetTask, PublishNoTask, SetStatus, Compiling, Compiled,
         Running, Succeeded, Fail, PostProcess, LookUpResult, TakeTiming, PublishSucceeded,
         QueueResult, QueueErrorResult, Goto, Exit
<1>3. DOMAIN infos' = DOMAIN infos /\ Len(infos') = Len(infos)
  BY ThreadKeepsLength
<1>4. /\ r \in DOMAIN infos /\ proc' = proc /\ threads'[r].at # "idle"
      /\ \A i \in DOMAIN infos : i # r => infos'[i] = infos[i]
      /\ \A i \in 1 .. MaxTasks : i # r => threads'[i] = threads[i]
      /\ infos'[r].task_id = IdOf(r)
      /\ \A id \in Watched : id # IdOf(r) => published'[id] = published[id]
  BY <1>1 DEF OnlyOwn, IdOf
<1>5. ASSUME NEW i \in DOMAIN infos PROVE Own(i)'
  <2>1. CASE i = r
    BY <1>1, <2>1
  <2>2. CASE i # r
    <3>1. Own(i) /\ i \in 1 .. MaxTasks
      BY InfosFacts DEF OwnInv
    <3>2. IdOf(i) # IdOf(r)
      BY <1>4, <2>2, OwnObject
    <3>3. QED
      BY <1>4, <2>2, <3>1, <3>2, OwnKept
  <2>3. QED
    BY <2>1, <2>2
<1>6. Starts'
  <2>1. \A i \in 1 .. MaxTasks : threads'[i].at = "idle" <=> threads[i].at = "idle"
    BY <1>2, <1>4
  <2>2. \A i \in DOMAIN infos : i \in 1 .. MaxTasks
    BY InfosFacts
  <2>3. QED
    BY <1>3, <1>4, <2>1, <2>2 DEF OwnInv, Starts
<1>7. Untold'
  <2>1. ASSUME NEW i \in DOMAIN infos PROVE infos'[i].task_id = IdOf(i)
    <3>1. CASE i = r
      BY <1>4, <3>1
    <3>2. CASE i # r
      <4>1. infos'[i] = infos[i]
        BY <1>4, <3>2
      <4>2. QED
        BY <4>1 DEF IdOf
    <3>3. QED
      BY <3>1, <3>2
  <2>2. ASSUME NEW id \in Watched, \A i \in DOMAIN infos : IdOf(i) # id
        PROVE  published'[id] = <<>>
    BY <1>4, <2>2 DEF OwnInv, Untold
  <2>3. QED
    BY <1>3, <2>1, <2>2 DEF Untold, IdOf
<1>8. QED
  BY <1>3, <1>5, <1>6, <1>7 DEF OwnInv

\* A step that touches no object, no thread and no story.
LEMMA AloneKeepsOwn ==
    ASSUME RouterInv, NoneEvicted, OwnInv, [Next]_vars, UNCHANGED <<infos, threads, published>>,
           \/ proc' = proc
           \/ {proc.at, proc'.at} \cap {"pending", "spawn"} = {}
    PROVE  OwnInv'
<1>1. ASSUME NEW i \in DOMAIN infos PROVE Own(i)'
  <2>1. Own(i) /\ (threads[i].at = "idle" => proc'.at = proc.at)
    BY DEF OwnInv, Starts
  <2>2. QED
    BY <2>1, OwnKept
<1>2. Starts' /\ Untold'
  BY DEF OwnInv, Starts, Untold, IdOf
<1>3. QED
  BY <1>1, <1>2 DEF OwnInv

\* While an object waits for its thread, it is the latest.
LEMMA Waiting ==
    ASSUME RouterInv, OwnInv, proc.at \in {"pending", "spawn"}
    PROVE  /\ Len(infos) \in DOMAIN infos /\ Len(infos) \in 1 .. MaxTasks
           /\ Own(Len(infos)) /\ threads[Len(infos)].at = "idle"
           /\ IdOf(Len(infos)) = proc.reply.task_id
           /\ \A i \in DOMAIN infos : i # Len(infos) => threads[i].at # "idle"
<1>1. infos # <<>> /\ infos[Len(infos)].task_id = proc.reply.task_id
  BY DEF RouterInv, ProcOK, StartsLatest
<1>2. Len(infos) \in DOMAIN infos /\ Len(infos) \in 1 .. MaxTasks
  BY <1>1, InfosFacts, EmptySeq
<1>3. QED
  BY <1>1, <1>2 DEF OwnInv, Starts, IdOf

LEMMA PendingKeepsOwn ==
    ASSUME RouterInv, NoneEvicted, OwnInv, [Next]_vars, PublishPending
    PROVE  OwnInv'
<1>1. PICK r : r = Len(infos)
  OBVIOUS
<1>2. /\ proc.at = "pending" /\ Publish(proc.reply.task_id, "PENDING")
      /\ proc' = [proc EXCEPT !.at = "spawn"] /\ UNCHANGED <<infos, threads, tasks, clock>>
  BY DEF PublishPending, tmVars
<1>3. proc'.at = "spawn"
  BY <1>2 DEF RouterInv, ProcOK
<1>4. /\ r \in DOMAIN infos /\ Own(r) /\ threads[r].at = "idle" /\ IdOf(r) = proc.reply.task_id
      /\ \A i \in DOMAIN infos : i # r => threads[i].at # "idle"
  BY <1>1, <1>2, Waiting
<1>5. \A id \in Watched : id # IdOf(r) => published'[id] = published[id]
  BY <1>2, <1>4 DEF Publish
<1>6. Own(r)'
  <2>1. IdOf(r) \in Watched => published'[IdOf(r)] = <<"PENDING">>
    <3>1. ASSUME IdOf(r) \in Watched PROVE published'[IdOf(r)] = <<"PENDING">>
      <4>1. published[IdOf(r)] = <<>>
        BY <1>2, <1>4, <3>1 DEF Own, StoryFits
      <4>2. published'[IdOf(r)] = Append(published[IdOf(r)], "PENDING")
        BY <1>2, <1>4, <3>1, StoryGrows
      <4>3. QED
        BY <4>1, <4>2, Stories
    <3>2. QED
      BY <3>1
  <2>2. (IdOf(r) \in Watched =>
          StoryFits(threads[r].at, infos[r].status, published[IdOf(r)], proc.at))'
    BY <1>2, <1>3, <1>4, <2>1
       DEF StoryFits, IdOf, Begun, FromCompiled, FromRun, FromSucceed, FromPost
  <2>3. StatusFits(threads[r].at, infos[r].status)'
    BY <1>2, <1>4 DEF Own, StatusFits
  <2>4. TimesFit(threads[r].at, infos[r].time, clock)'
    BY <1>2, <1>4 DEF TimesFit, FromCompiled, FromRun, FromSucceed, FromPost
  <2>5. QED
    BY <1>2, <1>4, <2>2, <2>3, <2>4 DEF Own, Holding
<1>7. ASSUME NEW i \in DOMAIN infos, i # r PROVE Own(i)'
  <2>1. Own(i) /\ IdOf(i) # IdOf(r) /\ threads[i].at # "idle"
    BY <1>4, <1>7, OwnObject DEF OwnInv
  <2>2. QED
    BY <1>2, <1>5, <2>1, OwnKept
<1>8. Starts'
  BY <1>2, <1>3 DEF OwnInv, Starts
<1>9. Untold'
  BY <1>2, <1>4, <1>5 DEF OwnInv, Untold, IdOf
<1>10. QED
  BY <1>2, <1>6, <1>7, <1>8, <1>9 DEF OwnInv

LEMMA StartKeepsOwn ==
    ASSUME RouterInv, NoneEvicted, OwnInv, [Next]_vars, StartThread
    PROVE  OwnInv'
<1>1. PICK r : r = Len(infos)
  OBVIOUS
<1>2. /\ proc.at = "spawn" /\ threads' = [threads EXCEPT ![r].at = "running"]
      /\ proc' = [proc EXCEPT !.at = "reply"] /\ UNCHANGED <<infos, tasks, clock, published>>
  BY <1>1 DEF StartThread, tmVars
<1>3. proc'.at = "reply"
  BY <1>2 DEF RouterInv, ProcOK
<1>4. /\ r \in DOMAIN infos /\ r \in 1 .. MaxTasks /\ Own(r) /\ threads[r].at = "idle"
      /\ \A i \in DOMAIN infos : i # r => threads[i].at # "idle"
  BY <1>1, <1>2, Waiting
<1>5. PICK t : t = [threads[r] EXCEPT !.at = "running"]
  OBVIOUS
<1>6. t.at = "running"
  BY <1>4, <1>5 DEF RouterInv, ThreadsOK, Thread
<1>7. threads'[r] = t /\ \A i \in 1 .. MaxTasks : i # r => threads'[i] = threads[i]
  BY <1>2, <1>4, <1>5 DEF RouterInv, ThreadsOK
<1>8. Own(r)'
  <2>1. (IdOf(r) \in Watched =>
          StoryFits(threads[r].at, infos[r].status, published[IdOf(r)], proc.at))'
    BY <1>2, <1>4, <1>6, <1>7
       DEF Own, StoryFits, IdOf, Begun, FromCompiled, FromRun, FromSucceed, FromPost
  <2>2. StatusFits(threads[r].at, infos[r].status)'
    BY <1>2, <1>4, <1>6, <1>7 DEF Own, StatusFits, FromPost
  <2>3. TimesFit(threads[r].at, infos[r].time, clock)'
    BY <1>6, <1>7 DEF TimesFit, FromCompiled, FromRun, FromSucceed, FromPost
  <2>4. QED
    BY <1>6, <1>7, <2>1, <2>2, <2>3 DEF Own, Holding
<1>9. ASSUME NEW i \in DOMAIN infos, i # r PROVE Own(i)'
  <2>1. Own(i) /\ threads[i].at # "idle" /\ threads'[i] = threads[i]
    BY <1>4, <1>7, <1>9, InfosFacts DEF OwnInv
  <2>2. QED
    BY <1>2, <2>1, OwnKept
<1>10. Starts'
  <2>1. \A i \in 1 .. MaxTasks : i \notin DOMAIN infos => threads'[i].at = "idle"
    BY <1>4, <1>7 DEF OwnInv, Starts
  <2>2. \A i \in DOMAIN infos : threads'[i].at # "idle"
    BY <1>4, <1>6, <1>7, InfosFacts
  <2>3. QED
    BY <1>2, <1>3, <2>1, <2>2 DEF Starts
<1>11. Untold'
  BY <1>2 DEF OwnInv, Untold, IdOf
<1>12. QED
  BY <1>2, <1>8, <1>9, <1>10, <1>11 DEF OwnInv

LEMMA TaskKeepsOwn ==
    ASSUME RouterInv, NoneEvicted, OwnInv, [Next]_vars, HandleTask
    PROVE  OwnInv'
<1> DEFINE sn == Head(requestQueue)
           m  == requests[sn].msg
<1>1. UNCHANGED <<threads, published>> /\ Dequeue("MsgTask")
  BY DEF HandleTask
<1>2. /\ proc.at = "idle" /\ sn \in Sn /\ requests[sn].client \in Client
      /\ m \in Offered /\ m \in Request /\ m.type = "MsgTask"
  BY <1>1, DequeueFacts
<1>3. m.id \in TaskId /\ m.configure \in Configure
  BY <1>2, OfferedAssumption DEF Request
<1>4. PICK id, client, n, configure :
         id = m.id /\ client = requests[sn].client /\ n = sn /\ configure = m.configure
  OBVIOUS
<1>5. \/ proc'.at = "reply" /\ infos' = infos
      \/ proc'.at = "pending" /\ AddTask(id, client, n, configure)
  <2>1. \/ Answer("reply", sn, "MsgTaskAck", sn, m.id, TASK_ID_DUPLICATE, NoData) /\ infos' = infos
        \/ /\ AddTask(m.id, requests[sn].client, sn, m.configure)
           /\ Answer("pending", sn, "MsgTaskAck", sn, m.id, NO_ERROR, NoData)
    BY DEF HandleTask, tmVars
  <2>2. QED
    BY <1>4, <2>1 DEF Answer
<1>6. id \in TaskId /\ client \in Client /\ n \in Sn /\ configure \in Configure
  BY <1>2, <1>3, <1>4
<1> HIDE DEF sn, m
<1>7. CASE proc'.at = "reply" /\ infos' = infos
  BY <1>1, <1>2, <1>7, AloneKeepsOwn
<1>8. CASE proc'.at = "pending" /\ AddTask(id, client, n, configure)
  <2>1. PICK r : r = Len(infos) + 1
    OBVIOUS
  <2>2. PICK new : new = NewTaskInfo(id, client, n, configure)
    OBVIOUS
  <2>3. new \in TaskInfo /\ new.task_id = id /\ new.status = "PENDING"
    BY <1>6, <2>2 DEF NewTaskInfo, TaskInfo, Status
  <2>4. infos' = Append(infos, new) /\ ~IsPresent(id) /\ Len(infos) < MaxTasks
    BY <1>8, <2>2 DEF AddTask
  <2>5. /\ infos \in Seq(TaskInfo) /\ Len(infos) \in Nat /\ DOMAIN infos = 1 .. Len(infos)
        /\ DOMAIN infos \subseteq 1 .. MaxTasks
    BY InfosFacts
  <2>6. /\ infos' \in Seq(TaskInfo) /\ Len(infos') = r /\ infos'[r] = new
        /\ \A i \in 1 .. Len(infos) : infos'[i] = infos[i]
    BY <2>1, <2>3, <2>4, <2>5, AppendProperties
  <2>7. DOMAIN infos' = DOMAIN infos \cup {r} /\ r \notin DOMAIN infos /\ r \in 1 .. MaxTasks
    BY <2>1, <2>4, <2>5, <2>6, LenProperties, RequestsAssumption
  <2>8. \A i \in DOMAIN infos : threads[i].at # "idle" /\ Own(i)
    BY <1>2 DEF OwnInv, Starts
  <2>9. threads[r].at = "idle"
    BY <2>7 DEF OwnInv, Starts
  <2>10. \A i \in DOMAIN infos : IdOf(i) # id
    BY <2>4, OwnObject
  <2>11. ASSUME NEW i \in DOMAIN infos PROVE Own(i)'
    BY <1>1, <2>5, <2>6, <2>8, <2>11, OwnKept
  <2>12. Own(r)'
    <3>1. infos'[r].status = "PENDING" /\ infos'[r].task_id = id /\ threads'[r].at = "idle"
      BY <1>1, <2>3, <2>6, <2>9
    <3>2. id \in Watched => published'[id] = <<>>
      BY <1>1, <2>10 DEF OwnInv, Untold
    <3>3. (IdOf(r) \in Watched =>
            StoryFits(threads[r].at, infos[r].status, published[IdOf(r)], proc.at))'
      BY <1>8, <3>1, <3>2
         DEF StoryFits, IdOf, Begun, FromCompiled, FromRun, FromSucceed, FromPost
    <3>4. StatusFits(threads[r].at, infos[r].status)'
      BY <3>1 DEF StatusFits, FromPost
    <3>5. TimesFit(threads[r].at, infos[r].time, clock)'
      BY <3>1 DEF TimesFit, FromCompiled, FromRun, FromSucceed, FromPost
    <3>6. QED
      BY <3>1, <3>3, <3>4, <3>5 DEF Own, Holding
  <2>13. Starts'
    <3>1. \A i \in 1 .. MaxTasks : i \notin DOMAIN infos' => threads'[i].at = "idle"
      BY <1>1, <2>7 DEF OwnInv, Starts
    <3>2. \A i \in DOMAIN infos' : threads'[i].at = "idle" <=> i = Len(infos')
      BY <1>1, <2>6, <2>7, <2>8, <2>9
    <3>3. QED
      BY <1>8, <3>1, <3>2 DEF Starts
  <2>14. Untold'
    <3>1. \A i \in DOMAIN infos : infos'[i] = infos[i]
      BY <2>5, <2>6
    <3>2. QED
      BY <1>1, <2>7, <3>1 DEF OwnInv, Untold, IdOf
  <2>15. QED
    BY <2>7, <2>11, <2>12, <2>13, <2>14 DEF OwnInv
<1>9. QED
  BY <1>5, <1>7, <1>8

LEMMA StepKeepsOwn ==
    ASSUME RouterInv, NoneEvicted, OwnInv, [Next]_vars
    PROVE  OwnInv'
<1>1. CASE ProcessStep
  <2>1. CASE HandleTaskStatus \/ HandleOther \/ HandleBroken
    <3>1. UNCHANGED <<infos, threads, published>> /\ proc.at = "idle" /\ proc'.at = "reply"
      BY <2>1 DEF HandleTaskStatus, HandleOther, HandleBroken, Dequeue, Answer, tmVars
    <3>2. QED
      BY <3>1, AloneKeepsOwn
  <2>2. CASE HandleSilent \/ QueueReply
    <3>1. /\ UNCHANGED <<infos, threads, published>>
          /\ proc' = proc \/ (proc.at = "reply" /\ proc'.at = "idle")
      BY <2>2 DEF HandleSilent, QueueReply, tmVars
    <3>2. QED
      BY <3>1, AloneKeepsOwn
  <2>3. QED
    BY <1>1, <2>1, <2>2, TaskKeepsOwn, PendingKeepsOwn, StartKeepsOwn DEF ProcessStep
<1>2. ASSUME NEW r \in 1 .. MaxTasks, ThreadStep(r) PROVE OwnInv'
  BY <1>2, ThreadStepKeepsOwn
<1>3. CASE \/ \E c \in Client, m \in Offered : Receive(c, m)
           \/ SendReply \/ (\E c \in Client : Disconnect(c))
           \/ Tick /\ UNCHANGED serverVars
           \/ UNCHANGED vars
  <2>1. UNCHANGED <<infos, threads, published, proc>>
    BY <1>3 DEF Receive, SendReply, Disconnect, Tick, serverVars, tmVars, vars
  <2>2. QED
    BY <2>1, AloneKeepsOwn
<1>4. QED
  BY <1>1, <1>2, <1>3 DEF Next

LEMMA InitOwn == Init => OwnInv
<1> SUFFICES ASSUME Init PROVE OwnInv
  OBVIOUS
<1>1. infos = <<>> /\ DOMAIN infos = {} /\ proc.at = "idle"
      /\ threads = [r \in 1 .. MaxTasks |-> Idle] /\ published = [id \in Watched |-> <<>>]
  BY DEF Init, TMInit
<1>2. Idle.at = "idle"
  BY DEF Idle
<1>3. QED
  BY <1>1, <1>2 DEF OwnInv, Starts, Untold

LEMMA OwnInductive ==
    /\ Init => (NoneEvicted => OwnInv)
    /\ RouterInv /\ (NoneEvicted => OwnInv) /\ [Next]_vars => (NoneEvicted => OwnInv)'
<1>1. ASSUME RouterInv, NoneEvicted => OwnInv, [Next]_vars, NoneEvicted' PROVE OwnInv'
  BY <1>1, StepKeepsEvicted, StepKeepsOwn
<1>2. QED
  BY <1>1, InitOwn

(***************************************************************************)
(* As long as no task was evicted, the statuses published for an id are    *)
(* PENDING, RUNNING and a final one, in this order, for any number of      *)
(* tasks, although two threads publish them.                               *)
(***************************************************************************)
THEOREM StoriesAreInOrder == Spec => [](NoneEvicted => PublishedInOrder)
<1>1. ASSUME RouterInv, NoneEvicted, OwnInv PROVE PublishedInOrder
  <2>1. ASSUME NEW id \in Watched
        PROVE  IsPrefix(published[id], <<"PENDING", "RUNNING", "SUCCESSED">>)
    <3> DEFINE full == <<"PENDING", "RUNNING", "SUCCESSED">>
    <3>1. published[id] \in {<<>>, <<"PENDING">>, <<"PENDING", "RUNNING">>, full}
      <4>1. CASE \A r \in DOMAIN infos : IdOf(r) # id
        BY <1>1, <4>1 DEF OwnInv, Untold
      <4>2. ASSUME NEW r \in DOMAIN infos, IdOf(r) = id
            PROVE  published[id] \in {<<>>, <<"PENDING">>, <<"PENDING", "RUNNING">>, full}
        <5>1. StoryFits(threads[r].at, infos[r].status, published[id], proc.at)
          BY <1>1, <4>2 DEF OwnInv, Own
        <5>2. threads[r].at \in At \ {"notask"}
          BY <1>1, InfosFacts DEF OwnInv, Own, StatusFits, RouterInv, ThreadsOK, Thread
        <5>3. QED
          BY <5>1, <5>2 DEF StoryFits, At, Begun, FromCompiled, FromRun, FromSucceed, FromPost
      <4>3. QED
        BY <4>1, <4>2
    <3>2. /\ full \in Seq(Status) /\ Len(full) = 3 /\ full[1] = "PENDING" /\ full[2] = "RUNNING"
          /\ full[3] = "SUCCESSED" /\ published[id] \in Seq(Status)
      BY <1>1 DEF RouterInv, Status
    <3>3. /\ Len(published[id]) \in {0, 1, 2, 3}
          /\ \A i \in 1 .. Len(published[id]) : published[id][i] = full[i]
      BY <3>1, <3>2
    <3>4. PICK s, t : s = published[id] /\ t = full
      OBVIOUS
    <3>5. /\ s \in Seq(Status) /\ t \in Seq(Status) /\ Len(s) <= Len(t)
          /\ \A i \in 1 .. Len(s) : s[i] = t[i]
      BY <3>2, <3>3, <3>4
    <3> HIDE DEF full
    <3>6. IsPrefix(s, t)
      BY <3>5, Begins
    <3>7. QED
      BY <3>4, <3>6 DEF full
  <2>2. QED
    BY <2>1 DEF PublishedInOrder, Terminal
<1>2. QED
  BY <1>1, OwnInductive, InitRouterInv, NextKeepsRouterInv, PTL DEF Spec

--------------------------------------------------------------------------------
(***************************************************************************)
(* The replies that were queued, and what a step adds to them.             *)
(***************************************************************************)
Sent == {replyQueue[i] : i \in DOMAIN replyQueue} \cup {undelivered[i] : i \in DOMAIN undelivered}
            \cup UNION {{inbox[c][i] : i \in DOMAIN inbox[c]} : c \in Client}

SuccessOf(r) == ResultOf(threads[r].task, threads[r].measured, IdOf(r), NO_ERROR, threads[r].note)

FailureOf(r) == ResultOf(r, NoTask, IdOf(r), UNDEFINED_ERROR, NoData)

LEMMA ReplyAdded ==
    ASSUME RouterInv, UNCHANGED <<inbox, undelivered>>, NEW x,
           replyQueue' = Append(replyQueue, x)
    PROVE  \A y \in Sent' : y \in Sent \/ y = x
<1>1. \A i \in DOMAIN replyQueue' :
         replyQueue'[i] = x \/ \E j \in DOMAIN replyQueue : replyQueue'[i] = replyQueue[j]
  BY AppendMembers DEF RouterInv, RepliesOK
<1>2. QED
  BY <1>1 DEF Sent

LEMMA SendAddsNothing ==
    ASSUME RouterInv, SendReply
    PROVE  Sent' \subseteq Sent
<1>1. PICK reply : reply = Head(replyQueue)
  OBVIOUS
<1>t. /\ replyQueue \in Seq(Replies) /\ inbox \in [Client -> Seq(Replies)]
      /\ undelivered \in Seq(Replies)
  BY DEF RouterInv, RepliesOK
<1>2. /\ replyQueue # <<>> /\ reply.client \in Client /\ replyQueue' = Tail(replyQueue)
      /\ \/ /\ inbox' = [inbox EXCEPT ![reply.client] = Append(inbox[reply.client], reply)]
            /\ undelivered' = undelivered
         \/ inbox' = inbox /\ undelivered' = Append(undelivered, reply)
  BY <1>1, SendFacts
<1>3. reply \in Sent /\ \A i \in DOMAIN replyQueue' : replyQueue'[i] \in Sent
  BY <1>t, <1>1, <1>2, TailMembers DEF Sent
<1>4. \A i \in DOMAIN undelivered' : undelivered'[i] \in Sent
  <2>1. undelivered' = undelivered \/ undelivered' = Append(undelivered, reply)
    BY <1>2
  <2>2. \A i \in DOMAIN Append(undelivered, reply) : Append(undelivered, reply)[i] \in Sent
    BY <1>t, <1>3, AppendMembers DEF Sent
  <2>3. QED
    BY <2>1, <2>2 DEF Sent
<1>5. ASSUME NEW c \in Client PROVE \A i \in DOMAIN inbox'[c] : inbox'[c][i] \in Sent
  <2>1. inbox'[c] = inbox[c] \/ inbox'[c] = Append(inbox[c], reply)
    BY <1>t, <1>2
  <2>2. \A i \in DOMAIN Append(inbox[c], reply) : Append(inbox[c], reply)[i] \in Sent
    BY <1>t, <1>3, AppendMembers DEF Sent
  <2>3. QED
    BY <2>1, <2>2 DEF Sent
<1>6. QED
  BY <1>3, <1>4, <1>5 DEF Sent

\* In a step of a thread whose task nobody evicted.
LEMMA ExitQueues ==
    ASSUME RouterInv, NoneEvicted, NEW r \in 1 .. MaxTasks, ThreadStep(r)
    PROVE  \/ replyQueue' = replyQueue
           \/ QueueResult(r) /\ replyQueue' = Append(replyQueue, SuccessOf(r))
           \/ QueueErrorResult(r) /\ replyQueue' = Append(replyQueue, FailureOf(r))
<1>1. CASE QueueResult(r)
  BY <1>1 DEF QueueResult, SuccessOf
<1>2. CASE QueueErrorResult(r)
  <2>1. tasks[IdOf(r)] = r /\ IsPresent(IdOf(r))
    BY <1>2, RunningThread, OwnObject DEF QueueErrorResult, Exit
  <2>2. QED
    BY <1>2, <2>1 DEF QueueErrorResult, FailureOf
<1>3. CASE \/ PublishRunning(r) \/ GetTask(r) \/ PublishNoTask(r)
           \/ Compiling(r) \/ Compiled(r) \/ Running(r) \/ Succeeded(r) \/ PostProcess(r)
           \/ LookUpResult(r) \/ TakeTiming(r) \/ PublishSucceeded(r) \/ Fail(r)
  BY <1>3 DEF PublishRunning, GetTask, PublishNoTask, SetStatus, Compiling, Compiled, Running,
              Succeeded, Fail, PostProcess, LookUpResult, TakeTiming, PublishSucceeded
<1>4. QED
  BY <1>1, <1>2, <1>3 DEF ThreadStep

LEMMA SentGrows ==
    ASSUME RouterInv, SubmitterInv, NoneEvicted, [Next]_vars, NEW x \in Sent'
    PROVE  \/ x \in Sent
           \/ ~IsResult(x)
           \/ \E r \in 1 .. MaxTasks : \/ QueueResult(r) /\ x = SuccessOf(r)
                                       \/ QueueErrorResult(r) /\ x = FailureOf(r)
<1>1. CASE SendReply
  BY <1>1, SendAddsNothing
<1>2. CASE ProcessStep
  <2>1. UNCHANGED <<inbox, undelivered>>
    BY <1>2, ProcessFrame
  <2>2. CASE replyQueue' = replyQueue
    BY <2>1, <2>2 DEF Sent
  <2>3. CASE proc.at = "reply" /\ replyQueue' = Append(replyQueue, proc.reply)
    <3>1. PICK y : y = proc.reply
      OBVIOUS
    <3>2. ~IsResult(y)
      BY <2>3, <3>1 DEF SubmitterInv
    <3>3. x \in Sent \/ x = y
      BY <2>1, <2>3, <3>1, ReplyAdded
    <3>4. QED
      BY <3>2, <3>3
  <2>4. QED
    BY <1>2, <2>2, <2>3, ProcessQueues
<1>3. ASSUME NEW r \in 1 .. MaxTasks, ThreadStep(r)
      PROVE  \/ x \in Sent
             \/ QueueResult(r) /\ x = SuccessOf(r)
             \/ QueueErrorResult(r) /\ x = FailureOf(r)
  <2>1. UNCHANGED <<inbox, undelivered>>
    BY <1>3, ThreadFrame
  <2>2. CASE replyQueue' = replyQueue
    BY <2>1, <2>2 DEF Sent
  <2>3. CASE QueueResult(r) /\ replyQueue' = Append(replyQueue, SuccessOf(r))
    BY <2>1, <2>3, ReplyAdded
  <2>4. CASE QueueErrorResult(r) /\ replyQueue' = Append(replyQueue, FailureOf(r))
    BY <2>1, <2>4, ReplyAdded
  <2>5. QED
    BY <1>3, <2>2, <2>3, <2>4, ExitQueues
<1>4. CASE \/ \E c \in Client, m \in Offered : Receive(c, m)
           \/ \E c \in Client : Disconnect(c)
           \/ UNCHANGED serverVars
  <2>1. UNCHANGED <<replyQueue, inbox, undelivered>>
    BY <1>4 DEF Receive, Disconnect, serverVars
  <2>2. QED
    BY <2>1 DEF Sent
<1>5. QED
  BY <1>1, <1>2, <1>3, <1>4 DEF Next, vars

(***************************************************************************)
(* A success result is queued as the last thing its thread does.           *)
(***************************************************************************)
DoneWell(r) == threads[r].at = "done" /\ infos[r].status = "SUCCESSED"

Good(reply) ==
    IsResult(reply) /\ reply.err = NO_ERROR =>
        /\ SaneNote(reply.data, clock)
        /\ \E r \in DOMAIN infos : IdOf(r) = reply.task_id /\ DoneWell(r)

GoodInv == \A x \in Sent : Good(x)

LEMMA DoneStays ==
    ASSUME RouterInv, NoneEvicted, OwnInv, [Next]_vars, NEW r \in DOMAIN infos,
           threads[r].at = "done"
    PROVE  r \in DOMAIN infos' /\ infos'[r] = infos[r] /\ threads'[r] = threads[r]
<1>1. r \in 1 .. MaxTasks
  BY InfosFacts
<1>2. ASSUME NEW i \in 1 .. MaxTasks, ThreadStep(i)
      PROVE  r \in DOMAIN infos' /\ infos'[r] = infos[r] /\ threads'[r] = threads[r]
  <2>1. threads[i].at # "done"
    BY <1>2 DEF ThreadStep, PublishRunning, GetTask, PublishNoTask, SetStatus, Compiling,
           Compiled, Running, Succeeded, Fail, PostProcess, LookUpResult, TakeTiming,
           PublishSucceeded, QueueResult, QueueErrorResult, Goto, Exit
  <2>2. OnlyOwn(i)
    BY <1>2, ThreadKeepsOwn DEF OwnInv
  <2>3. QED
    BY <1>1, <2>1, <2>2 DEF OnlyOwn
<1>3. CASE HandleTask
  <2>1. threads' = threads
    BY <1>3 DEF HandleTask
  <2>2. infos' = infos \/ \E new \in TaskInfo : infos' = Append(infos, new)
    <3>1. PICK sn, m : sn = Head(requestQueue) /\ m = requests[Head(requestQueue)].msg
      OBVIOUS
    <3>2. /\ sn \in Sn /\ requests[sn].client \in Client /\ m \in Offered
          /\ m \in Request /\ m.type = "MsgTask"
      BY <1>3, <3>1, DequeueFacts DEF HandleTask
    <3>3. m.id \in TaskId /\ m.configure \in Configure
      BY <3>2, OfferedAssumption DEF Request
    <3>4. infos' = infos \/ AddTask(m.id, requests[sn].client, sn, m.configure)
      BY <1>3, <3>1 DEF HandleTask, tmVars
    <3>5. NewTaskInfo(m.id, requests[sn].client, sn, m.configure) \in TaskInfo
      BY <3>2, <3>3 DEF NewTaskInfo, TaskInfo, Status
    <3>6. QED
      BY <3>4, <3>5 DEF AddTask
  <2>3. ASSUME NEW new \in TaskInfo, infos' = Append(infos, new)
        PROVE  r \in DOMAIN infos' /\ infos'[r] = infos[r]
    BY <2>3, InfosFacts, AppendProperties, LenProperties
  <2>4. QED
    BY <2>1, <2>2, <2>3
<1>4. CASE StartThread
  <2>1. /\ proc.at = "spawn" /\ threads' = [threads EXCEPT ![Len(infos)].at = "running"]
        /\ infos' = infos
    BY <1>4 DEF StartThread, tmVars
  <2>2. Len(infos) # r
    BY <2>1, Waiting
  <2>3. QED
    BY <1>1, <2>1, <2>2 DEF RouterInv, ThreadsOK
<1>5. CASE \/ PublishPending \/ HandleTaskStatus \/ HandleOther
           \/ HandleBroken \/ HandleSilent \/ QueueReply
           \/ \E c \in Client, m \in Offered : Receive(c, m)
           \/ SendReply \/ (\E c \in Client : Disconnect(c))
           \/ Tick /\ UNCHANGED serverVars
           \/ UNCHANGED vars
  BY <1>5 DEF PublishPending, HandleTaskStatus, HandleOther, HandleBroken, HandleSilent,
              QueueReply, Receive, SendReply, Disconnect, Tick, serverVars, tmVars, vars
<1>6. QED
  BY <1>2, <1>3, <1>4, <1>5 DEF Next, ProcessStep

LEMMA StaysGood ==
    ASSUME RouterInv, NoneEvicted, OwnInv, [Next]_vars, NEW x, Good(x)
    PROVE  Good(x)'
<1>1. SUFFICES ASSUME IsResult(x), x.err = NO_ERROR
               PROVE  /\ SaneNote(x.data, clock)'
                      /\ \E r \in DOMAIN infos' : IdOf(r)' = x.task_id /\ DoneWell(r)'
  BY DEF Good, IsResult
<1>2. SaneNote(x.data, clock) /\ \E r \in DOMAIN infos : IdOf(r) = x.task_id /\ DoneWell(r)
  BY <1>1 DEF Good
<1>3. SaneNote(x.data, clock)'
  <2>1. PICK now \in Nat, later \in Nat : now = clock /\ later = clock' /\ now <= later
    BY ClockGrows
  <2>2. PICK note : note = x.data
    OBVIOUS
  <2>3. SaneNote(note, now)
    BY <1>2, <2>1, <2>2
  <2>4. now \in Nat /\ later \in Nat /\ now <= later /\ Epoch \in Nat
    BY <2>1, TimeAssumption
  <2>5. SaneNote(note, later)
    <3>1. PICK t : t = [s \in Stamp |-> 0]
      OBVIOUS
    <3>2. t \in [Stamp -> Nat]
      BY <3>1
    <3>3. QED
      BY <2>3, <2>4, <3>2, FitsLater
  <2>6. QED
    BY <2>1, <2>2, <2>5 DEF SaneNote
<1>4. PICK r \in DOMAIN infos : IdOf(r) = x.task_id /\ DoneWell(r)
  BY <1>2
<1>5. r \in DOMAIN infos' /\ infos'[r] = infos[r] /\ threads'[r] = threads[r]
  BY <1>4, DoneStays DEF DoneWell
<1>6. QED
  BY <1>3, <1>4, <1>5 DEF IdOf, DoneWell

LEMMA SuccessIsGood ==
    ASSUME RouterInv, NoneEvicted, OwnInv, [Next]_vars, NEW r \in 1 .. MaxTasks, QueueResult(r),
           NEW x, x = SuccessOf(r)
    PROVE  Good(x)'
<1>1. threads[r].at = "result" /\ threads' = [threads EXCEPT ![r] = [Idle EXCEPT !.at = "done"]]
      /\ infos' = infos /\ clock' = clock
  BY DEF QueueResult, Exit, tmVars
<1>2. r \in DOMAIN infos /\ Own(r) /\ threads \in [1 .. MaxTasks -> Thread]
  BY <1>1, RunningThread DEF OwnInv, RouterInv, ThreadsOK
<1>3. SaneNote(threads[r].note, clock) /\ infos[r].status = "SUCCESSED"
  BY <1>1, <1>2 DEF Own, StatusFits
<1>4. x.data = threads[r].note /\ x.task_id = IdOf(r)
  BY DEF SuccessOf, ResultOf, Reply
<1>5. threads'[r].at = "done"
  BY <1>1, <1>2 DEF Idle
<1>6. SaneNote(x.data, clock)'
  BY <1>1, <1>3, <1>4 DEF SaneNote
<1>7. QED
  BY <1>1, <1>2, <1>3, <1>4, <1>5, <1>6 DEF Good, DoneWell, IdOf, IsResult

LEMMA StepKeepsGood ==
    ASSUME RouterInv, SubmitterInv, NoneEvicted, OwnInv, GoodInv, [Next]_vars
    PROVE  GoodInv'
<1>1. ASSUME NEW x \in Sent' PROVE Good(x)'
  <2>1. CASE x \in Sent
    BY <2>1, StaysGood DEF GoodInv
  <2>2. CASE ~IsResult(x)
    BY <2>2 DEF Good, IsResult
  <2>3. ASSUME NEW r \in 1 .. MaxTasks, QueueResult(r), x = SuccessOf(r) PROVE Good(x)'
    BY <2>3, SuccessIsGood
  <2>4. ASSUME NEW r \in 1 .. MaxTasks, x = FailureOf(r) PROVE Good(x)'
    <3>1. x.err = UNDEFINED_ERROR
      BY <2>4 DEF FailureOf, ResultOf, Reply
    <3>2. QED
      BY <3>1 DEF Good, IsResult, NO_ERROR, UNDEFINED_ERROR
  <2>5. QED
    BY <2>1, <2>2, <2>3, <2>4, SentGrows
<1>2. QED
  BY <1>1 DEF GoodInv

LEMMA GoodInductive ==
    /\ Init => (NoneEvicted => OwnInv /\ GoodInv)
    /\ RouterInv /\ SubmitterInv /\ (NoneEvicted => OwnInv /\ GoodInv) /\ [Next]_vars
          => (NoneEvicted => OwnInv /\ GoodInv)'
<1>1. ASSUME RouterInv, SubmitterInv, NoneEvicted => OwnInv /\ GoodInv, [Next]_vars, NoneEvicted'
      PROVE  OwnInv' /\ GoodInv'
  BY <1>1, StepKeepsEvicted, StepKeepsOwn, StepKeepsGood
<1>2. Init => GoodInv
  BY DEF Init, GoodInv, Sent
<1>3. QED
  BY <1>1, <1>2, InitOwn

LEMMA InitSubmitter == Init => SubmitterInv
BY DEF Init, SubmitterInv

(***************************************************************************)
(* As long as no task was evicted, whoever holds a success result finds    *)
(* SUCCESSED in the table and among the published statuses.                *)
(***************************************************************************)
THEOREM SuccessesAreVisible == Spec => [](NoneEvicted => SuccessIsVisible)
<1>1. ASSUME RouterInv, NoneEvicted, OwnInv, GoodInv PROVE SuccessIsVisible
  <2>1. ASSUME NEW x \in Sent PROVE IsVisible(x)
    <3>1. SUFFICES ASSUME IsResult(x), x.err = NO_ERROR
                   PROVE  /\ GetTaskStatus(x.task_id) = "SUCCESSED"
                          /\ x.task_id \in Watched => "SUCCESSED" \in ToSet(published[x.task_id])
      BY DEF IsVisible
    <3>2. PICK r \in DOMAIN infos : IdOf(r) = x.task_id /\ DoneWell(r)
      BY <1>1, <2>1, <3>1 DEF GoodInv, Good
    <3>3. GetTaskStatus(x.task_id) = "SUCCESSED"
      BY <1>1, <3>2, OwnObject DEF GetTaskStatus, DoneWell
    <3>4. ASSUME x.task_id \in Watched PROVE "SUCCESSED" \in ToSet(published[x.task_id])
      <4>1. published[x.task_id] = <<"PENDING", "RUNNING", "SUCCESSED">>
        BY <1>1, <3>2, <3>4 DEF OwnInv, Own, StoryFits, DoneWell
      <4>2. <<"PENDING", "RUNNING", "SUCCESSED">>[3] = "SUCCESSED"
            /\ 3 \in DOMAIN <<"PENDING", "RUNNING", "SUCCESSED">>
        OBVIOUS
      <4>3. QED
        BY <4>1, <4>2 DEF ToSet
    <3>5. QED
      BY <3>3, <3>4
  <2>2. QED
    BY <2>1 DEF SuccessIsVisible, EveryReply, Sent
<1>2. QED
  BY <1>1, GoodInductive, InitSubmitter, StepKeepsSubmitter, InitRouterInv, NextKeepsRouterInv,
     PTL DEF Spec

(***************************************************************************)
(* As long as no task was evicted, no duration of a success result is      *)
(* negative or longer than the server is up: each timestamp was set, and   *)
(* set before the one that is subtracted from.                             *)
(***************************************************************************)
THEOREM DurationsAreSane == Spec => [](NoneEvicted => NoteTimeSane)
<1>1. ASSUME GoodInv PROVE NoteTimeSane
  <2>1. ASSUME NEW x \in Sent PROVE HasSaneTimes(x)
    BY <1>1, <2>1 DEF GoodInv, Good, HasSaneTimes, SaneNote, Durations
  <2>2. QED
    BY <2>1 DEF NoteTimeSane, EveryReply, Sent
<1>2. QED
  BY <1>1, GoodInductive, InitSubmitter, StepKeepsSubmitter, InitRouterInv, NextKeepsRouterInv,
     PTL DEF Spec

--------------------------------------------------------------------------------
(***************************************************************************)
(* A table with room for every task evicts none.                           *)
(***************************************************************************)
RoomInv == NoneEvicted /\ Len(taskQueue) = Len(infos)

LEMMA AddKeepsRoom ==
    ASSUME MaxTasks < MaxQueueSize, TableInv, RoomInv, NEW id \in TaskId, NEW identity \in Client,
           NEW sn \in Sn, NEW configure \in Configure, AddTask(id, identity, sn, configure)
    PROVE  RoomInv'
<1>1. PICK new : new = NewTaskInfo(id, identity, sn, configure)
  OBVIOUS
<1>2. new \in TaskInfo /\ new.task_id = id
  BY <1>1 DEF NewTaskInfo, TaskInfo, Status
<1>3. /\ infos \in Seq(TaskInfo) /\ taskQueue \in Seq(TaskId) /\ tasks \in [TaskId -> Nat]
      /\ Len(infos) \in Nat /\ DOMAIN infos = 1 .. Len(infos)
  BY LenProperties DEF TableInv, TMTypeOK
<1>4. infos' = Append(infos, new) /\ ~IsPresent(id) /\ Len(infos) < MaxTasks
  BY <1>1 DEF AddTask
<1>5. /\ DOMAIN infos' = 1 .. Len(infos) + 1 /\ Len(infos') = Len(infos) + 1
      /\ \A r \in DOMAIN infos : infos'[r] = infos[r]
      /\ infos'[Len(infos) + 1] = new
  BY <1>2, <1>3, <1>4, AppendProperties, LenProperties
<1>6. PICK appended : appended = DequeAppend(taskQueue, id)
  OBVIOUS
<1>7. Len(taskQueue) = Len(infos) /\ MaxQueueSize \in Nat /\ MaxTasks \in Nat
  BY QueueSizeAssumption, RequestsAssumption DEF RoomInv
<1>8. appended = Append(taskQueue, id)
  <2>1. Len(taskQueue) < MaxQueueSize
    BY <1>3, <1>4, <1>7
  <2>2. QED
    BY <1>3, <1>6, <2>1, DequeGrows
<1>9. Len(appended) = Len(infos) + 1
  BY <1>3, <1>7, <1>8, AppendProperties
<1>10. ~(Len(appended) >= MaxQueueSize)
  BY <1>3, <1>4, <1>7, <1>9
<1>11. tasks' = [tasks EXCEPT ![id] = Len(infos) + 1] /\ taskQueue' = appended
  BY <1>6, <1>10 DEF AddTask
<1>12. ASSUME NEW r \in DOMAIN infos' PROVE tasks'[infos'[r].task_id] = r
  <2>1. CASE r = Len(infos) + 1
    BY <1>2, <1>3, <1>5, <1>11, <2>1
  <2>2. CASE r \in DOMAIN infos
    <3>1. infos'[r] = infos[r] /\ tasks[infos[r].task_id] = r /\ infos[r].task_id \in TaskId
      <4>1. infos[r] \in TaskInfo
        BY <1>3, <2>2, ElementOfSeq
      <4>2. tasks[infos[r].task_id] = r
        BY <2>2 DEF RoomInv, NoneEvicted
      <4>3. QED
        BY <1>5, <2>2, <4>1, <4>2 DEF TaskInfo
    <3>2. infos[r].task_id # id
      BY <1>3, <1>4, <2>2, <3>1 DEF IsPresent, NoTask
    <3>3. QED
      BY <1>3, <1>11, <3>1, <3>2
  <2>3. QED
    BY <1>3, <1>5, <2>1, <2>2
<1>13. QED
  BY <1>5, <1>9, <1>11, <1>12 DEF RoomInv, NoneEvicted

LEMMA StepKeepsRoom ==
    ASSUME MaxTasks < MaxQueueSize, Removable = {}, RouterInv, RoomInv, [Next]_vars
    PROVE  RoomInv'
<1>1. CASE \E id \in TaskId, identity \in Client, sn \in Sn, configure \in Configure :
              AddTask(id, identity, sn, configure)
  BY <1>1, AddKeepsRoom DEF RouterInv
<1>2. CASE UNCHANGED <<tasks, taskQueue>> /\ DOMAIN infos' = DOMAIN infos
  <2>1. ObjectsKept /\ Len(infos') = Len(infos)
    <3>1. infos \in Seq(TaskInfo) /\ infos' \in Seq(TaskInfo) /\ ObjectsKept
      BY StepKeepsTable DEF RouterInv, TableInv, TMTypeOK
    <3>2. QED
      BY <1>2, <3>1, LenProperties
  <2>2. NoneEvicted'
    BY <1>2, <2>1 DEF RoomInv, NoneEvicted, ObjectsKept
  <2>3. QED
    BY <1>2, <2>1, <2>2 DEF RoomInv
<1>3. QED
  BY <1>1, <1>2, StepsOnTable DEF TMNext, UpdateTaskStatus, SetProcessTimes, Tick, tmVars

(***************************************************************************)
(* A server that is offered fewer tasks than MAX_QUEUE_SIZE evicts none,   *)
(* and so everything shown under this condition holds of it for good.      *)
(***************************************************************************)
THEOREM RoomForAll ==
    ASSUME MaxTasks < MaxQueueSize, Removable = {}
    PROVE  Spec => [](NoneEvicted /\ PublishedInOrder /\ SuccessIsVisible /\ NoteTimeSane)
<1>1. Init => RoomInv
  BY EmptySeq DEF Init, TMInit, RoomInv, NoneEvicted
<1>2. RouterInv /\ RoomInv /\ [Next]_vars => RoomInv'
  BY StepKeepsRoom
<1>3. RoomInv => NoneEvicted
  BY DEF RoomInv
<1>4. Spec => []NoneEvicted
  BY <1>1, <1>2, <1>3, InitRouterInv, NextKeepsRouterInv, PTL DEF Spec
<1>5. QED
  BY <1>4, StoriesAreInOrder, SuccessesAreVisible, DurationsAreSane, PTL

--------------------------------------------------------------------------------
(***************************************************************************)
(* The server implements TaskService.  Every object was made for a request *)
(* of its own, which is older than every request that waits.               *)
(***************************************************************************)
SnInv ==
    /\ \A o \in DOMAIN infos :
          /\ infos[o].sn \in DOMAIN requests
          /\ requests[infos[o].sn].client = infos[o].identity
          /\ \A n \in DOMAIN requestQueue : infos[o].sn < requestQueue[n]
    /\ \A o, p \in DOMAIN infos : o < p => infos[o].sn < infos[p].sn

\* The only step that makes an object.
LEMMA NewObject ==
    ASSUME RouterInv, [Next]_vars, DOMAIN infos' # DOMAIN infos
    PROVE  /\ HandleTask /\ proc.at = "idle" /\ requestQueue # <<>>
           /\ requests' = requests /\ requestQueue' = Tail(requestQueue)
           /\ UNCHANGED <<threads, replyQueue, inbox, undelivered>>
           /\ DOMAIN infos' = DOMAIN infos \cup {Len(infos) + 1}
           /\ \A o \in DOMAIN infos : infos'[o] = infos[o]
           /\ infos'[Len(infos) + 1].sn = Head(requestQueue)
           /\ infos'[Len(infos) + 1].identity = requests[Head(requestQueue)].client
           /\ infos'[Len(infos) + 1].status = "PENDING"
           /\ Len(infos) + 1 \in 1 .. MaxTasks
<1>1. HandleTask
  <2>1. \A r \in 1 .. MaxTasks : ~ThreadStep(r)
    BY ThreadKeepsLength
  <2>2. ~(\/ PublishPending \/ StartThread \/ HandleTaskStatus \/ HandleOther
          \/ HandleBroken \/ HandleSilent \/ QueueReply \/ SendReply
          \/ (\E c \in Client, m \in Offered : Receive(c, m))
          \/ (\E c \in Client : Disconnect(c))
          \/ (Tick /\ UNCHANGED serverVars)
          \/ UNCHANGED vars)
    BY DEF PublishPending, StartThread, HandleTaskStatus, HandleOther, HandleBroken, HandleSilent,
           QueueReply, Receive, SendReply, Disconnect, Tick, tmVars, vars
  <2>3. QED
    BY <2>1, <2>2 DEF Next, ProcessStep
<1>2. PICK sn, client, m :
         sn = Head(requestQueue) /\ client = requests[sn].client /\ m = requests[sn].msg
  OBVIOUS
<1>3. /\ proc.at = "idle" /\ sn \in Sn /\ client \in Client /\ m \in Offered /\ m \in Request
      /\ m.type = "MsgTask"
  BY <1>1, <1>2, DequeueFacts DEF HandleTask
<1>4. m.id \in TaskId /\ m.configure \in Configure
  BY <1>3, OfferedAssumption DEF Request
<1>5. AddTask(m.id, client, sn, m.configure)
  BY <1>1, <1>2 DEF HandleTask, tmVars
<1>6. PICK new : new = NewTaskInfo(m.id, client, sn, m.configure)
  OBVIOUS
<1>7. new \in TaskInfo /\ new.sn = sn /\ new.identity = client /\ new.status = "PENDING"
  BY <1>3, <1>4, <1>6 DEF NewTaskInfo, TaskInfo, Status
<1>8. infos' = Append(infos, new) /\ Len(infos) < MaxTasks
  BY <1>5, <1>6 DEF AddTask
<1>9. /\ DOMAIN infos = 1 .. Len(infos) /\ DOMAIN infos' = 1 .. Len(infos) + 1
      /\ Len(infos) \in Nat /\ infos'[Len(infos) + 1] = new
      /\ \A o \in DOMAIN infos : infos'[o] = infos[o]
  <2>1. infos \in Seq(TaskInfo) /\ new \in TaskInfo
    BY <1>7, InfosFacts
  <2>2. /\ DOMAIN infos = 1 .. Len(infos) /\ DOMAIN Append(infos, new) = 1 .. Len(infos) + 1
        /\ Len(infos) \in Nat /\ Append(infos, new)[Len(infos) + 1] = new
        /\ \A o \in 1 .. Len(infos) : Append(infos, new)[o] = infos[o]
    BY <2>1, Appended
  <2>3. QED
    BY <1>8, <2>2
<1>10. DOMAIN infos' = DOMAIN infos \cup {Len(infos) + 1} /\ Len(infos) + 1 \in 1 .. MaxTasks
  <2>1. PICK n \in Nat : n = Len(infos)
    BY <1>9
  <2>2. 1 .. n + 1 = 1 .. n \cup {n + 1}
    OBVIOUS
  <2>3. DOMAIN infos' = DOMAIN infos \cup {Len(infos) + 1}
    BY <1>9, <2>1, <2>2
  <2>4. Len(infos) + 1 \in 1 .. MaxTasks
    <3>1. n < MaxTasks /\ MaxTasks \in Nat
      BY <1>8, <2>1, RequestsAssumption
    <3>2. n + 1 \in 1 .. MaxTasks
      BY <3>1
    <3>3. QED
      BY <2>1, <3>2
  <2>5. QED
    BY <2>3, <2>4
<1>11. UNCHANGED <<requests, threads, replyQueue, inbox, undelivered>>
  BY <1>1 DEF HandleTask
<1>12. requestQueue # <<>> /\ requestQueue' = Tail(requestQueue)
  <2>1. Dequeue("MsgTask")
    BY <1>1 DEF HandleTask
  <2>2. QED
    BY <2>1 DEF Dequeue
<1>13. QED
  BY <1>1, <1>2, <1>3, <1>7, <1>9, <1>10, <1>11, <1>12

\* A request older than all that wait stays one.
LEMMA BehindStays ==
    ASSUME RouterInv, RequestsRise, [Next]_vars, NEW k \in DOMAIN requests,
           \A n \in DOMAIN requestQueue : k < requestQueue[n]
    PROVE  /\ k \in DOMAIN requests' /\ requests'[k] = requests[k]
           /\ \A n \in DOMAIN requestQueue' : k < requestQueue'[n]
<1>1. CASE ProcessStep
  <2>1. /\ requests' = requests
        /\ \/ requestQueue' = requestQueue
           \/ requestQueue # <<>> /\ requestQueue' = Tail(requestQueue)
    BY <1>1, ServeFacts
  <2>2. requestQueue # <<>> =>
           \A n \in DOMAIN Tail(requestQueue) : /\ n + 1 \in DOMAIN requestQueue
                                                /\ Tail(requestQueue)[n] = requestQueue[n + 1]
    BY TakenRequests
  <2>3. QED
    BY <2>1, <2>2
<1>2. ASSUME NEW c \in Client, NEW m \in Offered, Receive(c, m)
      PROVE  /\ k \in DOMAIN requests' /\ requests'[k] = requests[k]
             /\ \A n \in DOMAIN requestQueue' : k < requestQueue'[n]
  <2>1. /\ requests \in Seq([client : Client, msg : Offered])
        /\ requestQueue \in Seq(DOMAIN requests)
        /\ [client |-> c, msg |-> m] \in [client : Client, msg : Offered]
    BY DEF RouterInv, RequestsOK
  <2>2. PICK new : new = Len(requests) + 1
    OBVIOUS
  <2>3. /\ requests' = Append(requests, [client |-> c, msg |-> m])
        /\ requestQueue' = requestQueue \/ requestQueue' = Append(requestQueue, new)
    BY <1>2, <2>2 DEF Receive
  <2>4. /\ Len(requests) \in Nat /\ DOMAIN requests = 1 .. Len(requests)
        /\ DOMAIN requests' = 1 .. new
        /\ \A i \in 1 .. Len(requests) : requests'[i] = requests[i]
    BY <2>1, <2>2, <2>3, Appended
  <2>5. k \in DOMAIN requests' /\ requests'[k] = requests[k] /\ k < new
    BY <2>2, <2>4
  <2>6. PICK q \in Seq(1 .. new) : q = requestQueue
    BY <2>1, <2>2, <2>4
  <2>7. new \in 1 .. new
    BY <2>2, <2>4
  <2>8. \A n \in DOMAIN Append(q, new) :
           Append(q, new)[n] = new \/ (n \in DOMAIN q /\ Append(q, new)[n] = q[n])
    BY <2>7, Appended
  <2>9. QED
    BY <2>3, <2>5, <2>6, <2>8
<1>3. CASE \/ SendReply \/ (\E c \in Client : Disconnect(c)) \/ UNCHANGED serverVars
           \/ \E r \in 1 .. MaxTasks : ThreadStep(r)
  BY <1>3, ThreadFrame DEF SendReply, Disconnect, serverVars
<1>4. QED
  BY <1>1, <1>2, <1>3 DEF Next, vars

LEMMA StepKeepsSn ==
    ASSUME RouterInv, RequestsRise, SnInv, [Next]_vars
    PROVE  SnInv'
<1>1. ASSUME NEW o \in DOMAIN infos
      PROVE  /\ o \in DOMAIN infos' /\ infos'[o].sn = infos[o].sn
             /\ infos'[o].sn \in DOMAIN requests'
             /\ requests'[infos'[o].sn].client = infos'[o].identity
             /\ \A n \in DOMAIN requestQueue' : infos'[o].sn < requestQueue'[n]
  <2>1. /\ o \in DOMAIN infos' /\ infos'[o].sn = infos[o].sn
        /\ infos'[o].identity = infos[o].identity
    BY StepKeepsTable DEF ObjectsKept
  <2>2. PICK k : k = infos[o].sn
    OBVIOUS
  <2>3. /\ k \in DOMAIN requests /\ requests[k].client = infos[o].identity
        /\ \A n \in DOMAIN requestQueue : k < requestQueue[n]
    BY <2>2 DEF SnInv
  <2>4. QED
    BY <2>1, <2>2, <2>3, BehindStays
<1>2. CASE DOMAIN infos' = DOMAIN infos
  BY <1>1, <1>2 DEF SnInv
<1>3. CASE DOMAIN infos' # DOMAIN infos
  <2>1. PICK new, sn : new = Len(infos) + 1 /\ sn = Head(requestQueue)
    OBVIOUS
  <2>2. /\ requests' = requests /\ requestQueue # <<>> /\ requestQueue' = Tail(requestQueue)
        /\ DOMAIN infos' = DOMAIN infos \cup {new} /\ infos'[new].sn = sn
        /\ infos'[new].identity = requests[sn].client
    BY <1>3, <2>1, NewObject
  <2>3. /\ sn = requestQueue[1] /\ 1 \in DOMAIN requestQueue /\ sn \in DOMAIN requests
        /\ \A n \in DOMAIN requestQueue' : sn < requestQueue'[n]
    BY <2>1, <2>2, TakenRequests
  <2>4. \A o \in DOMAIN infos : infos'[o].sn < sn
    BY <1>1, <2>3 DEF SnInv
  <2>5. DOMAIN infos = 1 .. new - 1 /\ new \in Nat
    BY <2>1, InfosFacts
  <2>6. ASSUME NEW o \in DOMAIN infos', NEW p \in DOMAIN infos', o < p
        PROVE  infos'[o].sn < infos'[p].sn
    <3>1. o \in DOMAIN infos
      BY <2>2, <2>5, <2>6
    <3>2. CASE p = new
      BY <2>2, <2>4, <3>1, <3>2
    <3>3. CASE p \in DOMAIN infos
      BY <1>1, <2>6, <3>1, <3>3 DEF SnInv
    <3>4. QED
      BY <2>2, <3>2, <3>3
  <2>7. ASSUME NEW o \in DOMAIN infos'
        PROVE  /\ infos'[o].sn \in DOMAIN requests'
               /\ requests'[infos'[o].sn].client = infos'[o].identity
               /\ \A n \in DOMAIN requestQueue' : infos'[o].sn < requestQueue'[n]
    BY <1>1, <2>2, <2>3
  <2>8. QED
    BY <2>6, <2>7 DEF SnInv
<1>4. QED
  BY <1>2, <1>3

\* So an SN has one object.
LEMMA OneObject ==
    ASSUME RouterInv, SnInv, NEW o \in DOMAIN infos, NEW p \in DOMAIN infos,
           infos[o].sn = infos[p].sn
    PROVE  o = p
<1>1. o \in Nat /\ p \in Nat
  BY InfosFacts
<1>2. infos[o].sn \in Nat /\ infos[p].sn \in Nat
  <2>1. DOMAIN requests = 1 .. Len(requests)
    BY LenProperties DEF RouterInv, RequestsOK
  <2>2. QED
    BY <2>1 DEF SnInv
<1>3. ~(o < p) /\ ~(p < o)
  BY <1>2 DEF SnInv
<1>4. QED
  BY <1>1, <1>3

(***************************************************************************)
(* A submission has one result among the replies once its thread is done,  *)
(* and none before.                                                        *)
(***************************************************************************)
ResultsIn(line, sn) == {i \in DOMAIN line : IsResult(line[i]) /\ line[i].sn = sn}

None(line, sn) == ResultsIn(line, sn) = {}
One(line, sn) == \E i : ResultsIn(line, sn) = {i}

Answers(reply, sn) == IsResult(reply) /\ reply.sn = sn

Nowhere(sn, c) == None(inbox[c], sn) /\ None(undelivered, sn) /\ None(replyQueue, sn)

Once(sn, c) ==
    \/ One(inbox[c], sn) /\ None(undelivered, sn) /\ None(replyQueue, sn)
    \/ None(inbox[c], sn) /\ One(undelivered, sn) /\ None(replyQueue, sn)
    \/ None(inbox[c], sn) /\ None(undelivered, sn) /\ One(replyQueue, sn)

Counted(o) ==
    IF threads[o].at = "done" THEN Once(infos[o].sn, infos[o].identity)
                              ELSE Nowhere(infos[o].sn, infos[o].identity)

CountInv == \A o \in DOMAIN infos : Counted(o)

LEMMA ResultsAppended ==
    ASSUME NEW line \in Seq(Replies), NEW x \in Replies, NEW sn
    PROVE  /\ ~Answers(x, sn) => /\ None(line, sn) => None(Append(line, x), sn)
                                 /\ One(line, sn) => One(Append(line, x), sn)
           /\ Answers(x, sn) /\ None(line, sn) => One(Append(line, x), sn)
<1>1. /\ DOMAIN line = 1 .. Len(line) /\ Len(line) \in Nat
      /\ DOMAIN Append(line, x) = 1 .. Len(line) + 1
      /\ \A i \in 1 .. Len(line) : Append(line, x)[i] = line[i]
      /\ Append(line, x)[Len(line) + 1] = x
  BY Appended
<1>2. PICK n \in Nat : n = Len(line)
  BY <1>1
<1>3. 1 .. n + 1 = 1 .. n \cup {n + 1} /\ n + 1 \notin 1 .. n
  OBVIOUS
<1>4. ResultsIn(Append(line, x), sn) =
         ResultsIn(line, sn) \cup (IF Answers(x, sn) THEN {n + 1} ELSE {})
  BY <1>1, <1>2, <1>3 DEF ResultsIn, Answers
<1>5. QED
  BY <1>4 DEF None, One

LEMMA ResultsTaken ==
    ASSUME NEW line \in Seq(Replies), line # <<>>, NEW sn
    PROVE  /\ None(line, sn) => ~Answers(Head(line), sn) /\ None(Tail(line), sn)
           /\ One(line, sn) /\ Answers(Head(line), sn) => None(Tail(line), sn)
           /\ One(line, sn) /\ ~Answers(Head(line), sn) => One(Tail(line), sn)
<1>1. /\ Head(line) = line[1] /\ DOMAIN line = 1 .. Len(line) /\ Len(line) \in Nat \ {0}
      /\ DOMAIN Tail(line) = 1 .. Len(line) - 1
      /\ \A i \in 1 .. Len(line) - 1 : Tail(line)[i] = line[i + 1]
  BY Taken
<1>2. /\ 1 \in DOMAIN line
      /\ \A i \in DOMAIN Tail(line) : /\ i \in Nat /\ i + 1 \in DOMAIN line /\ i + 1 # 1
                                      /\ Tail(line)[i] = line[i + 1]
      /\ \A i \in DOMAIN line : i \in Nat /\ (i = 1 \/ i - 1 \in DOMAIN Tail(line))
  BY <1>1
<1>3. Answers(Head(line), sn) <=> 1 \in ResultsIn(line, sn)
  BY <1>1, <1>2 DEF ResultsIn, Answers
<1>4. \A i : i \in ResultsIn(Tail(line), sn) <=> i \in DOMAIN Tail(line) /\ i + 1 \in ResultsIn(line, sn)
  BY <1>2 DEF ResultsIn
<1>5. ASSUME None(line, sn) PROVE ~Answers(Head(line), sn) /\ None(Tail(line), sn)
  BY <1>3, <1>4, <1>5 DEF None
<1>6. ASSUME NEW i, ResultsIn(line, sn) = {i}, Answers(Head(line), sn)
      PROVE  ResultsIn(Tail(line), sn) = {}
  <2>1. i = 1
    BY <1>3, <1>6
  <2>2. \A j \in DOMAIN Tail(line) : j + 1 \notin ResultsIn(line, sn)
    BY <1>2, <1>6, <2>1
  <2>3. QED
    BY <1>4, <2>2
<1>7. ASSUME NEW i, ResultsIn(line, sn) = {i}, ~Answers(Head(line), sn)
      PROVE  ResultsIn(Tail(line), sn) = {i - 1}
  <2>1. i \in DOMAIN line /\ i # 1
    BY <1>3, <1>7 DEF ResultsIn
  <2>2. i \in Nat /\ i - 1 \in DOMAIN Tail(line) /\ (i - 1) + 1 = i
    BY <1>2, <2>1
  <2>3. i - 1 \in ResultsIn(Tail(line), sn)
    BY <1>4, <1>7, <2>2
  <2>4. ASSUME NEW j \in ResultsIn(Tail(line), sn) PROVE j = i - 1
    <3>1. j \in DOMAIN Tail(line) /\ j + 1 = i
      BY <1>4, <1>7
    <3>2. QED
      BY <1>2, <3>1
  <2>5. QED
    BY <2>3, <2>4
<1>8. QED
  BY <1>5, <1>6, <1>7 DEF None, One

\* The send thread moves a result and neither drops nor doubles it.
LEMMA SendKeepsCount ==
    ASSUME RouterInv, SendReply, NEW sn, NEW c \in Client,
           Answers(Head(replyQueue), sn) => Head(replyQueue).client = c
    PROVE  (Nowhere(sn, c) => Nowhere(sn, c)') /\ (Once(sn, c) => Once(sn, c)')
<1>1. PICK x : x = Head(replyQueue)
  OBVIOUS
<1>2. /\ replyQueue # <<>> /\ x \in Replies /\ replyQueue' = Tail(replyQueue)
      /\ \/ /\ inbox' = [inbox EXCEPT ![x.client] = Append(inbox[x.client], x)]
            /\ undelivered' = undelivered
         \/ inbox' = inbox /\ undelivered' = Append(undelivered, x)
  BY <1>1, SendFacts
<1>3. PICK q \in Seq(Replies), u \in Seq(Replies), b \in Seq(Replies) :
         q = replyQueue /\ u = undelivered /\ b = inbox[c]
  BY LinesTyped
<1>4. PICK u1, b1 : u1 = undelivered' /\ b1 = inbox'[c]
  OBVIOUS
<1>5. Tail(q) = replyQueue' /\ x = Head(q) /\ q # <<>>
  BY <1>1, <1>2, <1>3
<1>6. \/ b1 = Append(b, x) /\ u1 = u /\ c = x.client
      \/ b1 = b /\ u1 = u /\ c # x.client
      \/ b1 = b /\ u1 = Append(u, x)
  <2>1. CASE inbox' = inbox /\ undelivered' = Append(undelivered, x)
    BY <1>3, <1>4, <2>1
  <2>2. CASE /\ inbox' = [inbox EXCEPT ![x.client] = Append(inbox[x.client], x)]
             /\ undelivered' = undelivered
    <3>1. inbox'[c] = IF c = x.client THEN Append(inbox[c], x) ELSE inbox[c]
      BY <2>2 DEF RouterInv, RepliesOK
    <3>2. QED
      BY <1>3, <1>4, <2>2, <3>1
  <2>3. QED
    BY <1>2, <2>1, <2>2
<1>7. Answers(x, sn) => x.client = c
  BY <1>1
<1>8. /\ None(q, sn) => ~Answers(x, sn) /\ None(Tail(q), sn)
      /\ One(q, sn) /\ Answers(x, sn) => None(Tail(q), sn)
      /\ One(q, sn) /\ ~Answers(x, sn) => One(Tail(q), sn)
  BY <1>5, ResultsTaken
<1>9. /\ ~Answers(x, sn) => /\ None(b, sn) => None(Append(b, x), sn)
                            /\ One(b, sn) => One(Append(b, x), sn)
      /\ Answers(x, sn) /\ None(b, sn) => One(Append(b, x), sn)
  BY <1>2, ResultsAppended
<1>10. /\ ~Answers(x, sn) => /\ None(u, sn) => None(Append(u, x), sn)
                             /\ One(u, sn) => One(Append(u, x), sn)
       /\ Answers(x, sn) /\ None(u, sn) => One(Append(u, x), sn)
  BY <1>2, ResultsAppended
<1>11. /\ Nowhere(sn, c) <=> None(b, sn) /\ None(u, sn) /\ None(q, sn)
       /\ Once(sn, c) <=> \/ One(b, sn) /\ None(u, sn) /\ None(q, sn)
                          \/ None(b, sn) /\ One(u, sn) /\ None(q, sn)
                          \/ None(b, sn) /\ None(u, sn) /\ One(q, sn)
  BY <1>3 DEF Nowhere, Once
<1>12. /\ Nowhere(sn, c)' <=> None(b1, sn) /\ None(u1, sn) /\ None(Tail(q), sn)
       /\ Once(sn, c)' <=> \/ One(b1, sn) /\ None(u1, sn) /\ None(Tail(q), sn)
                           \/ None(b1, sn) /\ One(u1, sn) /\ None(Tail(q), sn)
                           \/ None(b1, sn) /\ None(u1, sn) /\ One(Tail(q), sn)
  BY <1>4, <1>5 DEF Nowhere, Once, None, One, ResultsIn, IsResult
<1>13. QED
  BY <1>6, <1>7, <1>8, <1>9, <1>10, <1>11, <1>12

\* What queueing a reply does to the count.
LEMMA QueueCounts ==
    ASSUME RouterInv, UNCHANGED <<inbox, undelivered>>, NEW x \in Replies,
           replyQueue' = Append(replyQueue, x), NEW sn, NEW c \in Client
    PROVE  /\ Answers(x, sn) /\ Nowhere(sn, c) => Once(sn, c)'
           /\ ~Answers(x, sn) => /\ Nowhere(sn, c) => Nowhere(sn, c)'
                                 /\ Once(sn, c) => Once(sn, c)'
<1>1. PICK q \in Seq(Replies), u \in Seq(Replies), b \in Seq(Replies) :
         q = replyQueue /\ u = undelivered /\ b = inbox[c]
  BY LinesTyped
<1>2. /\ ~Answers(x, sn) => /\ None(q, sn) => None(Append(q, x), sn)
                            /\ One(q, sn) => One(Append(q, x), sn)
      /\ Answers(x, sn) /\ None(q, sn) => One(Append(q, x), sn)
  BY ResultsAppended
<1>3. /\ Nowhere(sn, c) <=> None(b, sn) /\ None(u, sn) /\ None(q, sn)
      /\ Once(sn, c) <=> \/ One(b, sn) /\ None(u, sn) /\ None(q, sn)
                         \/ None(b, sn) /\ One(u, sn) /\ None(q, sn)
                         \/ None(b, sn) /\ None(u, sn) /\ One(q, sn)
  BY <1>1 DEF Nowhere, Once
<1>4. /\ Nowhere(sn, c)' <=> None(b, sn) /\ None(u, sn) /\ None(Append(q, x), sn)
      /\ Once(sn, c)' <=> \/ One(b, sn) /\ None(u, sn) /\ None(Append(q, x), sn)
                          \/ None(b, sn) /\ One(u, sn) /\ None(Append(q, x), sn)
                          \/ None(b, sn) /\ None(u, sn) /\ One(Append(q, x), sn)
  BY <1>1 DEF Nowhere, Once, None, One, ResultsIn, IsResult
<1>5. QED
  BY <1>2, <1>3, <1>4

\* No reply stands for a submission without an object.
LEMMA NoObjectNowhere ==
    ASSUME RouterInv, SubmitterInv, NEW sn, NEW c \in Client, \A o \in DOMAIN infos : infos[o].sn # sn
    PROVE  Nowhere(sn, c)
BY DEF SubmitterInv, FromSubmission, Nowhere, None, ResultsIn

\* What a step of its thread does to a task nobody evicted: it moves the
\* status on, it queues the result and ends, or it changes neither.
LEMMA ThreadTells ==
    ASSUME RouterInv, NoneEvicted, OwnInv, NEW r \in 1 .. MaxTasks, ThreadStep(r)
    PROVE  /\ OnlyOwn(r) /\ threads[r].at # "done"
           /\ \/ /\ threads'[r].at # "done" /\ replyQueue' = replyQueue
                 /\ \/ infos'[r].status = infos[r].status
                    \/ infos[r].status \notin Terminal
              \/ /\ threads'[r].at = "done" /\ infos' = infos /\ infos[r].status \in Terminal
                 /\ \E x \in Replies : /\ Answers(x, infos[r].sn)
                                       /\ replyQueue' = Append(replyQueue, x)
<1>1. OnlyOwn(r) /\ r \in DOMAIN infos /\ Own(r)
  BY ThreadKeepsOwn DEF OwnInv, OnlyOwn
<1>2. /\ tasks[IdOf(r)] = r /\ IsPresent(IdOf(r))
      /\ threads \in [1 .. MaxTasks -> Thread] /\ threads[r] \in Thread
  BY <1>1, OwnObject DEF RouterInv, ThreadsOK
<1>3. CASE Compiling(r) \/ Compiled(r) \/ Running(r) \/ Succeeded(r) \/ Fail(r)
  <2>1. PICK from, to, status :
           /\ <<from, status, to>> \in {<<"compile", "COMPILING", "compiled">>,
                                        <<"compiled", "COMPILED", "run">>,
                                        <<"run", "RUNNING", "succeed">>,
                                        <<"run", "RUNNING", "fail">>,
                                        <<"succeed", "SUCCESSED", "post">>,
                                        <<"fail", "FAILED", "error">>}
           /\ SetStatus(r, from, status, to)
    BY <1>3 DEF Compiling, Compiled, Running, Succeeded, Fail
  <2>2. /\ threads[r].at = from /\ threads' = [threads EXCEPT ![r].at = to]
        /\ replyQueue' = replyQueue
    BY <2>1 DEF SetStatus, Goto
  <2>3. threads'[r].at = to
    BY <1>2, <2>2 DEF Thread
  <2>4. to # "done" /\ from # "done"
    BY <2>1
  <2>5. infos[r].status \notin Terminal
    BY <1>1, <2>1, <2>2 DEF Own, StatusFits, Terminal, FromPost
  <2>6. QED
    BY <1>1, <2>2, <2>3, <2>4, <2>5
<1>4. CASE \/ PublishRunning(r) \/ GetTask(r) \/ LookUpResult(r) \/ TakeTiming(r)
           \/ PublishSucceeded(r) \/ PostProcess(r)
  <2>1. threads[r].at # "done" /\ replyQueue' = replyQueue
    BY <1>4 DEF PublishRunning, GetTask, LookUpResult, TakeTiming, PublishSucceeded, PostProcess,
                Goto
  <2>2. threads'[r].at # "done"
    <3>1. PICK t : /\ t \in {[threads[r] EXCEPT !.at = to] :
                               to \in {"get", "result", "lookup"}}
                         \cup {[threads[r] EXCEPT !.at = "compile", !.task = r, !.measured = r],
                               [threads[r] EXCEPT !.at = "timing", !.task = r]}
                         \cup {[threads[r] EXCEPT !.at = "success", !.note = GetTimingInfo(IdOf(r))]}
                   /\ threads' = [threads EXCEPT ![r] = t]
      BY <1>2, <1>4 DEF PublishRunning, GetTask, LookUpResult, TakeTiming, PublishSucceeded,
                  PostProcess, Goto
    <3>2. t.at # "done"
      BY <1>2, <3>1 DEF Thread
    <3>3. QED
      BY <1>2, <3>1, <3>2
  <2>3. infos'[r].status = infos[r].status
    <3>1. CASE PostProcess(r)
      <4>1. threads[r].at = "post" /\ threads[r].task = r
        BY <1>1, <3>1 DEF PostProcess, Goto, Own, Holding
      <4>2. SetProcessTimes(r)
        BY <3>1, <4>1 DEF PostProcess
      <4>3. PICK time :
               infos' = [infos EXCEPT ![r] = [infos[r] EXCEPT !.time = time]]
        BY <4>2 DEF SetProcessTimes
      <4>4. infos[r] \in TaskInfo
        BY <1>1, OwnObject
      <4>5. QED
        BY <1>1, <4>3, <4>4 DEF TaskInfo
    <3>2. CASE ~PostProcess(r)
      BY <1>4, <3>2 DEF PublishRunning, GetTask, LookUpResult, TakeTiming, PublishSucceeded, tmVars
    <3>3. QED
      BY <3>1, <3>2
  <2>4. QED
    BY <1>1, <2>1, <2>2, <2>3
<1>5. CASE QueueResult(r)
  <2>1. /\ threads[r].at = "result" /\ infos' = infos
        /\ replyQueue' = Append(replyQueue,
              ResultOf(threads[r].task, threads[r].measured, IdOf(r), NO_ERROR, threads[r].note))
    BY <1>5 DEF QueueResult, Exit, tmVars
  <2>2. threads'[r].at = "done"
    BY <1>2, <1>5 DEF QueueResult, Exit, Idle
  <2>3. /\ threads[r].task = r /\ infos[r].status \in Terminal /\ threads[r].note \in ReplyData
        /\ threads[r].measured \in Nat
    BY <1>1, <1>2, <2>1 DEF Own, Holding, StatusFits, Terminal, Thread
  <2>4. PICK x : x = ResultOf(r, threads[r].measured, IdOf(r), NO_ERROR, threads[r].note)
    OBVIOUS
  <2>5. x \in Replies
    BY <1>1, <2>3, <2>4, ResultType DEF NO_ERROR
  <2>6. Answers(x, infos[r].sn)
    BY <2>4 DEF Answers, IsResult, ResultOf, Reply
  <2>7. QED
    BY <1>1, <2>1, <2>2, <2>3, <2>4, <2>5, <2>6
<1>6. CASE QueueErrorResult(r)
  <2>1. /\ threads[r].at = "error" /\ infos' = infos
        /\ replyQueue' = Append(replyQueue, ResultOf(r, NoTask, IdOf(r), UNDEFINED_ERROR, NoData))
    BY <1>2, <1>6 DEF QueueErrorResult, Exit, tmVars
  <2>2. threads'[r].at = "done"
    BY <1>2, <1>6 DEF QueueErrorResult, Exit, Idle
  <2>3. infos[r].status \in Terminal
    BY <1>1, <2>1 DEF Own, StatusFits, Terminal
  <2>4. PICK x : x = ResultOf(r, NoTask, IdOf(r), UNDEFINED_ERROR, NoData)
    OBVIOUS
  <2>5. x \in Replies
    BY <1>1, <2>4, ResultType, AckTypes DEF NoTask
  <2>6. Answers(x, infos[r].sn)
    BY <2>4 DEF Answers, IsResult, ResultOf, Reply
  <2>7. QED
    BY <1>1, <2>1, <2>2, <2>3, <2>4, <2>5, <2>6
<1>7. ~PublishNoTask(r)
  BY <1>1 DEF PublishNoTask, Exit, Own, StatusFits
<1>8. QED
  BY <1>3, <1>4, <1>5, <1>6, <1>7 DEF ThreadStep

LEMMA CountedKept ==
    ASSUME NEW o, UNCHANGED <<replyQueue, inbox, undelivered>>, Counted(o),
           infos'[o].sn = infos[o].sn, infos'[o].identity = infos[o].identity,
           threads'[o].at = "done" <=> threads[o].at = "done"
    PROVE  Counted(o)'
<1>1. PICK sn, c : sn = infos[o].sn /\ c = infos[o].identity
  OBVIOUS
<1>2. (Nowhere(sn, c) => Nowhere(sn, c)') /\ (Once(sn, c) => Once(sn, c)')
  BY DEF Once, Nowhere, None, One, ResultsIn, IsResult
<1>3. Counted(o) <=> IF threads[o].at = "done" THEN Once(sn, c) ELSE Nowhere(sn, c)
  BY <1>1 DEF Counted
<1>4. Counted(o)' <=> IF threads'[o].at = "done" THEN Once(sn, c)' ELSE Nowhere(sn, c)'
  BY <1>1 DEF Counted, Once, Nowhere
<1>5. QED
  BY <1>2, <1>3, <1>4

\* Starting a thread ends none.
LEMMA StartEndsNone ==
    ASSUME RouterInv, OwnInv, StartThread, NEW o \in DOMAIN infos
    PROVE  threads'[o].at = "done" <=> threads[o].at = "done"
<1>1. proc.at = "spawn" /\ threads' = [threads EXCEPT ![Len(infos)].at = "running"]
  BY DEF StartThread
<1>2. Len(infos) \in 1 .. MaxTasks /\ threads[Len(infos)].at = "idle"
  BY <1>1, Waiting
<1>3. threads \in [1 .. MaxTasks -> Thread] /\ o \in 1 .. MaxTasks
  BY InfosFacts DEF RouterInv, ThreadsOK
<1>4. threads'[Len(infos)].at = "running"
  BY <1>1, <1>2, <1>3 DEF Thread
<1>5. o # Len(infos) => threads'[o] = threads[o]
  BY <1>1, <1>3
<1>6. QED
  BY <1>2, <1>4, <1>5

LEMMA StepKeepsCount ==
    ASSUME RouterInv, SubmitterInv, RequestsRise, NoneEvicted, OwnInv, SnInv, CountInv, [Next]_vars
    PROVE  CountInv'
<1>1. ASSUME NEW o \in DOMAIN infos
      PROVE  /\ o \in DOMAIN infos' /\ o \in 1 .. MaxTasks
             /\ infos'[o].sn = infos[o].sn /\ infos'[o].identity = infos[o].identity
             /\ infos[o].identity \in Client /\ Counted(o)
  BY StepKeepsTable, InfosFacts DEF ObjectsKept, TaskInfo, CountInv
<1>2. CASE SendReply
  <2>1. threads' = threads /\ infos' = infos
    BY <1>2 DEF SendReply, tmVars
  <2>2. ASSUME NEW o \in DOMAIN infos PROVE Counted(o)'
    <3>1. PICK sn, c : sn = infos[o].sn /\ c = infos[o].identity /\ c \in Client
      BY <1>1
    <3>2. ASSUME Answers(Head(replyQueue), sn) PROVE Head(replyQueue).client = c
      <4>1. replyQueue \in Seq(Replies) /\ replyQueue # <<>>
        BY <1>2, LinesTyped, SendFacts
      <4>2. FromSubmission(Head(replyQueue)) /\ IsResult(Head(replyQueue))
        BY <3>2, <4>1, TailMembers DEF SubmitterInv, Answers
      <4>3. PICK p \in DOMAIN infos : /\ infos[p].identity = Head(replyQueue).client
                                      /\ infos[p].sn = Head(replyQueue).sn
        BY <4>2 DEF FromSubmission
      <4>4. p = o
        BY <3>1, <3>2, <4>3, OneObject DEF Answers
      <4>5. QED
        BY <3>1, <4>3, <4>4
    <3>3. (Nowhere(sn, c) => Nowhere(sn, c)') /\ (Once(sn, c) => Once(sn, c)')
      BY <1>2, <3>1, <3>2, SendKeepsCount
    <3>4. IF threads[o].at = "done" THEN Once(sn, c) ELSE Nowhere(sn, c)
      BY <1>1, <3>1 DEF Counted
    <3>5. Counted(o)' <=> IF threads[o].at = "done" THEN Once(sn, c)' ELSE Nowhere(sn, c)'
      BY <2>1, <3>1 DEF Counted, Once, Nowhere
    <3>6. QED
      BY <3>3, <3>4, <3>5
  <2>3. QED
    BY <2>1, <2>2 DEF CountInv
<1>3. ASSUME NEW r \in 1 .. MaxTasks, ThreadStep(r) PROVE CountInv'
  <2>1. /\ UNCHANGED <<inbox, undelivered>> /\ r \in DOMAIN infos /\ DOMAIN infos' = DOMAIN infos
        /\ threads[r].at # "done"
        /\ \A i \in 1 .. MaxTasks : i # r => threads'[i] = threads[i]
    BY <1>3, ThreadFrame, ThreadTells DEF OnlyOwn
  <2>2. CASE threads'[r].at # "done" /\ replyQueue' = replyQueue
    <3>1. \A o \in DOMAIN infos : Counted(o)'
      BY <1>1, <2>1, <2>2, CountedKept
    <3>2. QED
      BY <2>1, <3>1 DEF CountInv
  <2>3. CASE /\ threads'[r].at = "done"
             /\ \E x \in Replies : /\ Answers(x, infos[r].sn)
                                   /\ replyQueue' = Append(replyQueue, x)
    <3>1. PICK x \in Replies : Answers(x, infos[r].sn) /\ replyQueue' = Append(replyQueue, x)
      BY <2>3
    <3>2. ASSUME NEW o \in DOMAIN infos PROVE Counted(o)'
      <4>1. PICK sn, c : sn = infos[o].sn /\ c = infos[o].identity /\ c \in Client
        BY <1>1
      <4>2. /\ Answers(x, sn) /\ Nowhere(sn, c) => Once(sn, c)'
            /\ ~Answers(x, sn) => /\ Nowhere(sn, c) => Nowhere(sn, c)'
                                  /\ Once(sn, c) => Once(sn, c)'
        BY <2>1, <3>1, <4>1, QueueCounts
      <4>3. IF threads[o].at = "done" THEN Once(sn, c) ELSE Nowhere(sn, c)
        BY <1>1, <4>1 DEF Counted
      <4>4. Counted(o)' <=> IF threads'[o].at = "done" THEN Once(sn, c)' ELSE Nowhere(sn, c)'
        BY <1>1, <4>1 DEF Counted, Once, Nowhere
      <4>5. CASE o = r
        BY <2>1, <2>3, <3>1, <4>1, <4>2, <4>3, <4>4, <4>5
      <4>6. CASE o # r
        <5>1. ~Answers(x, sn)
          BY <2>1, <3>1, <4>1, <4>6, OneObject DEF Answers
        <5>2. threads'[o] = threads[o]
          BY <1>1, <2>1, <4>6
        <5>3. QED
          BY <4>2, <4>3, <4>4, <5>1, <5>2
      <4>7. QED
        BY <4>5, <4>6
    <3>3. QED
      BY <2>1, <3>2 DEF CountInv
  <2>4. QED
    BY <1>3, <2>2, <2>3, ThreadTells
<1>4. CASE QueueReply
  <2>1. /\ UNCHANGED <<inbox, undelivered, infos, threads>> /\ proc.at = "reply"
        /\ replyQueue' = Append(replyQueue, proc.reply)
    BY <1>4 DEF QueueReply, tmVars
  <2>2. PICK x \in Replies : x = proc.reply /\ ~IsResult(x)
    BY <2>1 DEF SubmitterInv, RouterInv, ProcOK
  <2>3. ASSUME NEW o \in DOMAIN infos PROVE Counted(o)'
    <3>1. PICK sn, c : sn = infos[o].sn /\ c = infos[o].identity /\ c \in Client
      BY <1>1
    <3>2. (Nowhere(sn, c) => Nowhere(sn, c)') /\ (Once(sn, c) => Once(sn, c)')
      BY <2>1, <2>2, <3>1, QueueCounts DEF Answers
    <3>3. IF threads[o].at = "done" THEN Once(sn, c) ELSE Nowhere(sn, c)
      BY <1>1, <3>1 DEF Counted
    <3>4. Counted(o)' <=> IF threads[o].at = "done" THEN Once(sn, c)' ELSE Nowhere(sn, c)'
      BY <2>1, <3>1 DEF Counted, Once, Nowhere
    <3>5. QED
      BY <3>2, <3>3, <3>4
  <2>4. QED
    BY <2>1, <2>3 DEF CountInv
<1>5. CASE DOMAIN infos' # DOMAIN infos
  <2>1. PICK new \in 1 .. MaxTasks : new = Len(infos) + 1 /\ DOMAIN infos' = DOMAIN infos \cup {new}
    BY <1>5, NewObject
  <2>2. PICK sn : sn = Head(requestQueue)
    OBVIOUS
  <2>3. /\ UNCHANGED <<threads, replyQueue, inbox, undelivered>> /\ requestQueue # <<>>
        /\ infos'[new].sn = sn /\ infos'[new].identity = requests[sn].client
    BY <1>5, <2>1, <2>2, NewObject
  <2>4. \A o \in DOMAIN infos : Counted(o)'
    BY <1>1, <2>3, CountedKept
  <2>5. /\ sn = requestQueue[1] /\ 1 \in DOMAIN requestQueue
        /\ sn \in DOMAIN requests
    BY <2>2, <2>3, TakenRequests
  <2>6. requests[sn].client \in Client
    <3>1. requests[sn] \in [client : Client, msg : Offered]
      <4>1. requests \in Seq([client : Client, msg : Offered])
        BY DEF RouterInv, RequestsOK
      <4>2. DOMAIN requests = 1 .. Len(requests)
        BY <4>1, LenProperties
      <4>3. QED
        BY <2>5, <4>1, <4>2, ElementOfSeq
    <3>2. QED
      BY <3>1
  <2>7. \A o \in DOMAIN infos : infos[o].sn # sn
    <3>1. DOMAIN requests = 1 .. Len(requests)
      BY LenProperties DEF RouterInv, RequestsOK
    <3>2. sn \in Nat
      BY <2>5, <3>1
    <3>3. QED
      BY <2>5, <3>2 DEF SnInv
  <2>8. Nowhere(sn, requests[sn].client)
    BY <2>6, <2>7, NoObjectNowhere
  <2>9. new \notin DOMAIN infos
    BY <2>1, InfosFacts
  <2>10. threads'[new].at # "done"
    BY <2>3, <2>9 DEF OwnInv, Starts
  <2>11. PICK c : c = requests[sn].client
    OBVIOUS
  <2>12. Nowhere(sn, c)'
    BY <2>3, <2>8, <2>11 DEF Nowhere, None, ResultsIn, IsResult
  <2>13. Counted(new)'
    BY <2>3, <2>10, <2>11, <2>12 DEF Counted, Nowhere
  <2>14. QED
    BY <2>1, <2>4, <2>13 DEF CountInv
<1>6. ASSUME DOMAIN infos' = DOMAIN infos, UNCHANGED <<replyQueue, inbox, undelivered>>,
             threads' = threads \/ StartThread
      PROVE  CountInv'
  <2>1. ASSUME NEW o \in DOMAIN infos PROVE threads'[o].at = "done" <=> threads[o].at = "done"
    BY <1>6, StartEndsNone
  <2>2. \A o \in DOMAIN infos : Counted(o)'
    BY <1>1, <1>6, <2>1, CountedKept
  <2>3. QED
    BY <1>6, <2>2 DEF CountInv
<1>7. CASE /\ DOMAIN infos' = DOMAIN infos
           /\ \/ HandleTask \/ PublishPending \/ StartThread \/ HandleTaskStatus \/ HandleOther
              \/ HandleBroken \/ HandleSilent
              \/ (\E c \in Client, m \in Offered : Receive(c, m))
              \/ (\E c \in Client : Disconnect(c))
              \/ UNCHANGED serverVars
  <2>1. UNCHANGED <<replyQueue, inbox, undelivered>> /\ (threads' = threads \/ StartThread)
    BY <1>7 DEF HandleTask, PublishPending, StartThread, HandleTaskStatus, HandleOther,
                HandleBroken, HandleSilent, Receive, Disconnect, serverVars
  <2>2. QED
    BY <1>6, <1>7, <2>1
<1>8. QED
  BY <1>2, <1>3, <1>4, <1>5, <1>7 DEF Next, ProcessStep, vars

(***************************************************************************)
(* What the server shows of a submission: nothing as long as it has no     *)
(* object, then the status of the object and whether its thread is done.   *)
(***************************************************************************)
Shows(o) ==
    /\ ShownOutcome[infos[o].sn] = IF infos[o].status \in Terminal THEN infos[o].status
                                                                  ELSE "running"
    /\ ShownResults[infos[o].sn] = IF threads[o].at = "done" THEN 1 ELSE 0

ShownInv ==
    /\ \A o \in DOMAIN infos : infos[o].sn \in 1 .. MaxRequests /\ Shows(o)
    /\ \A sn \in 1 .. MaxRequests :
          (\A o \in DOMAIN infos : infos[o].sn # sn) =>
              ShownOutcome[sn] = "none" /\ ShownResults[sn] = 0

LEMMA PlacesCounted ==
    ASSUME RouterInv, NEW sn, NEW c \in Client, c = requests[sn].client
    PROVE  /\ Nowhere(sn, c) => Cardinality(ResultPlaces(sn)) = 0
           /\ Once(sn, c) => Cardinality(ResultPlaces(sn)) = 1
<1>1. PICK q, w, line, all :
         q = replyQueue /\ w = undelivered /\ line = inbox[c] /\ all = Queued(c)
  OBVIOUS
<1>2. PICK b, u : b = Len(inbox[c]) /\ u = Len(inbox[c]) + Len(undelivered)
  OBVIOUS
<1>3. PICK d \in Nat, k \in Nat :
         /\ b \in Nat /\ u \in Nat /\ u = b + d
         /\ DOMAIN line = 1 .. b /\ DOMAIN w = 1 .. d /\ DOMAIN q = 1 .. k
         /\ DOMAIN all = 1 .. u + k
  BY <1>1, <1>2, QueuedPlaces
<1>4. \A n \in DOMAIN all :
         \/ n \in DOMAIN line /\ all[n] = line[n]
         \/ n - b \in DOMAIN w /\ all[n] = w[n - b]
         \/ n - u \in DOMAIN q /\ all[n] = q[n - u]
  BY <1>1, <1>2, QueuedPlaces
<1>5. PICK P, L, W, Q : /\ P = ResultPlaces(sn) /\ L = ResultsIn(line, sn)
                        /\ W = ResultsIn(w, sn) /\ Q = ResultsIn(q, sn)
  OBVIOUS
<1>6. \A n : n \in P <=> n \in DOMAIN all /\ Answers(all[n], sn)
  BY <1>1, <1>5 DEF ResultPlaces, Answers
<1>7. /\ \A n : n \in L <=> n \in DOMAIN line /\ Answers(line[n], sn)
      /\ \A n : n \in W <=> n \in DOMAIN w /\ Answers(w[n], sn)
      /\ \A n : n \in Q <=> n \in DOMAIN q /\ Answers(q[n], sn)
  BY <1>5 DEF ResultsIn, Answers
<1>8. \A n \in P : n \in Nat /\ (n \in L \/ n - b \in W \/ n - u \in Q)
  BY <1>3, <1>4, <1>6, <1>7
<1>9. \A n \in L : n \in P
  <2>1. ASSUME NEW n \in DOMAIN line PROVE n \in DOMAIN all /\ all[n] = line[n]
    <3>1. n \in DOMAIN all /\ n - b \notin DOMAIN w /\ n - u \notin DOMAIN q
      BY <1>3
    <3>2. QED
      BY <1>4, <3>1
  <2>2. QED
    BY <1>6, <1>7, <2>1
<1>10. \A n \in W : n + b \in P
  <2>1. ASSUME NEW n \in DOMAIN w PROVE n + b \in DOMAIN all /\ all[n + b] = w[n]
    <3>1. PICK m : m = n + b
      OBVIOUS
    <3>2. m \in DOMAIN all /\ m \notin DOMAIN line /\ m - u \notin DOMAIN q /\ m - b = n
      BY <1>3, <3>1
    <3>3. QED
      BY <1>4, <3>1, <3>2
  <2>2. QED
    BY <1>6, <1>7, <2>1
<1>11. \A n \in Q : n + u \in P
  <2>1. ASSUME NEW n \in DOMAIN q PROVE n + u \in DOMAIN all /\ all[n + u] = q[n]
    <3>1. PICK m : m = n + u
      OBVIOUS
    <3>2. n \in 1 .. k
      BY <1>3
    <3>3. m \in DOMAIN all /\ m - u = n
      BY <1>3, <3>1, <3>2
    <3>4. m \notin DOMAIN line /\ m - b \notin DOMAIN w
      BY <1>3, <3>1, <3>2
    <3>5. QED
      BY <1>4, <3>1, <3>3, <3>4
  <2>2. QED
    BY <1>6, <1>7, <2>1
<1>12. ASSUME Nowhere(sn, c) PROVE Cardinality(P) = 0
  <2>1. L = {} /\ W = {} /\ Q = {}
    BY <1>1, <1>5, <1>12 DEF Nowhere, None
  <2>2. P = {}
    BY <1>8, <2>1
  <2>3. QED
    BY <2>2, FS_EmptySet
<1>13. ASSUME Once(sn, c) PROVE Cardinality(P) = 1
  <2>1. PICK i : \/ L = {i} /\ W = {} /\ Q = {}
                 \/ L = {} /\ W = {i} /\ Q = {}
                 \/ L = {} /\ W = {} /\ Q = {i}
    BY <1>1, <1>5, <1>13 DEF Once, One, None
  <2>2. \E j : P = {j}
    <3>1. CASE L = {i} /\ W = {} /\ Q = {}
      <4>1. P = {i}
        BY <1>8, <1>9, <3>1
      <4>2. QED
        BY <4>1
    <3>2. CASE L = {} /\ W = {i} /\ Q = {}
      <4>1. \A n \in P : n = i + b
        BY <1>3, <1>8, <3>2
      <4>2. i + b \in P
        BY <1>10, <3>2
      <4>3. P = {i + b}
        BY <4>1, <4>2
      <4>4. QED
        BY <4>3
    <3>3. CASE L = {} /\ W = {} /\ Q = {i}
      <4>1. \A n \in P : n = i + u
        BY <1>3, <1>8, <3>3
      <4>2. i + u \in P
        BY <1>11, <3>3
      <4>3. P = {i + u}
        BY <4>1, <4>2
      <4>4. QED
        BY <4>3
    <3>4. QED
      BY <2>1, <3>1, <3>2, <3>3
  <2>3. QED
    BY <2>2, FS_Singleton
<1>14. QED
  BY <1>5, <1>12, <1>13

LEMMA WhatIsShown ==
    ASSUME RouterInv, SubmitterInv, SnInv, CountInv
    PROVE  ShownInv
<1>1. DOMAIN requests \subseteq 1 .. MaxRequests
  <2>1. DOMAIN requests = 1 .. Len(requests) /\ Len(requests) \in Nat
    BY LenProperties DEF RouterInv, RequestsOK
  <2>2. PICK n \in Nat : n = Len(requests)
    BY <2>1
  <2>3. n <= MaxRequests /\ MaxRequests \in Nat
    BY <2>2, RequestsAssumption DEF RouterInv, RequestsOK
  <2>4. QED
    BY <2>1, <2>2, <2>3
<1>2. ASSUME NEW o \in DOMAIN infos
      PROVE  infos[o].sn \in 1 .. MaxRequests /\ Shows(o)
  <2>1. PICK sn, c : sn = infos[o].sn /\ c = infos[o].identity
    OBVIOUS
  <2>2. /\ sn \in DOMAIN requests /\ sn \in 1 .. MaxRequests /\ c \in Client
        /\ c = requests[sn].client
    BY <1>1, <2>1, InfosFacts DEF SnInv, TaskInfo
  <2>3. ObjectOf(sn) = {o}
    BY <2>1, OneObject DEF ObjectOf
  <2>4. ShownOutcome[sn] = IF infos[o].status \in Terminal THEN infos[o].status ELSE "running"
    <3>1. (CHOOSE p \in ObjectOf(sn) : TRUE) = o
      BY <2>3
    <3>2. QED
      BY <2>2, <2>3, <3>1 DEF ShownOutcome
  <2>5. ShownResults[sn] = Cardinality(ResultPlaces(sn))
    BY <2>2 DEF ShownResults
  <2>6. ShownResults[sn] = IF threads[o].at = "done" THEN 1 ELSE 0
    BY <2>1, <2>2, <2>5, PlacesCounted DEF CountInv, Counted
  <2>7. QED
    BY <2>1, <2>2, <2>4, <2>6 DEF Shows
<1>3. ASSUME NEW sn \in 1 .. MaxRequests, \A o \in DOMAIN infos : infos[o].sn # sn
      PROVE  ShownOutcome[sn] = "none" /\ ShownResults[sn] = 0
  <2>1. ObjectOf(sn) = {}
    BY <1>3 DEF ObjectOf
  <2>2. ShownOutcome[sn] = "none"
    BY <2>1 DEF ShownOutcome
  <2>3. CASE sn \in DOMAIN requests
    <3>1. requests \in Seq([client : Client, msg : Offered]) /\ DOMAIN requests = 1 .. Len(requests)
      BY LenProperties DEF RouterInv, RequestsOK
    <3>2. requests[sn].client \in Client
      <4>1. requests[sn] \in [client : Client, msg : Offered]
        BY <2>3, <3>1, ElementOfSeq
      <4>2. QED
        BY <4>1
    <3>3. Nowhere(sn, requests[sn].client)
      BY <1>3, <3>2, NoObjectNowhere
    <3>4. QED
      BY <2>2, <2>3, <3>2, <3>3, PlacesCounted DEF ShownResults
  <2>4. QED
    BY <2>2, <2>3 DEF ShownResults
<1>4. QED
  BY <1>2, <1>3 DEF ShownInv

\* A submission whose object does not change shows the same.
LEMMA ShowsTheSame ==
    ASSUME ShownInv, ShownInv', ObjectsKept, NEW sn \in 1 .. MaxRequests,
           \A o \in DOMAIN infos : infos[o].sn = sn =>
              /\ infos'[o].status = infos[o].status
              /\ threads'[o].at = "done" <=> threads[o].at = "done",
           \A o \in DOMAIN infos' \ DOMAIN infos : infos'[o].sn # sn
    PROVE  ShownOutcome'[sn] = ShownOutcome[sn] /\ ShownResults'[sn] = ShownResults[sn]
<1>1. CASE \A o \in DOMAIN infos : infos[o].sn # sn
  <2>1. \A o \in DOMAIN infos' : infos'[o].sn # sn
    BY <1>1 DEF ObjectsKept
  <2>2. QED
    BY <1>1, <2>1 DEF ShownInv
<1>2. ASSUME NEW o \in DOMAIN infos, infos[o].sn = sn
      PROVE  ShownOutcome'[sn] = ShownOutcome[sn] /\ ShownResults'[sn] = ShownResults[sn]
  <2>1. o \in DOMAIN infos' /\ infos'[o].sn = sn
    BY <1>2 DEF ObjectsKept
  <2>2. Shows(o) /\ Shows(o)'
    BY <2>1 DEF ShownInv
  <2>3. QED
    BY <1>2, <2>1, <2>2 DEF Shows, Terminal
<1>3. QED
  BY <1>1, <1>2

LEMMA ShownDomain ==
    /\ ShownOutcome = [sn \in 1 .. MaxRequests |-> ShownOutcome[sn]]
    /\ ShownResults = [sn \in 1 .. MaxRequests |-> ShownResults[sn]]
    /\ ShownOutcome' = [sn \in 1 .. MaxRequests |-> ShownOutcome'[sn]]
    /\ ShownResults' = [sn \in 1 .. MaxRequests |-> ShownResults'[sn]]
BY DEF ShownOutcome, ShownResults

LEMMA StepStutters ==
    ASSUME ShownInv, ShownInv', ObjectsKept, DOMAIN infos' = DOMAIN infos,
           \A o \in DOMAIN infos : /\ infos'[o].status = infos[o].status
                                   /\ threads'[o].at = "done" <=> threads[o].at = "done"
    PROVE  UNCHANGED <<ShownOutcome, ShownResults>>
<1>1. \A sn \in 1 .. MaxRequests :
         ShownOutcome'[sn] = ShownOutcome[sn] /\ ShownResults'[sn] = ShownResults[sn]
  BY ShowsTheSame
<1>2. QED
  BY <1>1, ShownDomain

LEMMA ThreadStepServes ==
    ASSUME RouterInv, NoneEvicted, OwnInv, SnInv, ShownInv, ShownInv', [Next]_vars,
           NEW r \in 1 .. MaxTasks, ThreadStep(r)
    PROVE  [Service!Next]_(Service!vars)
<1>1. /\ r \in DOMAIN infos /\ DOMAIN infos' = DOMAIN infos /\ ObjectsKept
      /\ threads[r].at # "done"
      /\ \A o \in DOMAIN infos : o # r => infos'[o] = infos[o] /\ threads'[o] = threads[o]
      /\ infos'[r].sn = infos[r].sn
  BY ThreadTells, StepKeepsTable, InfosFacts DEF OnlyOwn
<1>2. PICK sn \in 1 .. MaxRequests : sn = infos[r].sn
  BY <1>1 DEF ShownInv
<1>3. \A s \in 1 .. MaxRequests : s # sn =>
         ShownOutcome'[s] = ShownOutcome[s] /\ ShownResults'[s] = ShownResults[s]
  <2>1. SUFFICES ASSUME NEW s \in 1 .. MaxRequests, s # sn
                 PROVE  ShownOutcome'[s] = ShownOutcome[s] /\ ShownResults'[s] = ShownResults[s]
    OBVIOUS
  <2>2. \A o \in DOMAIN infos : infos[o].sn = s => o # r
    BY <1>2, <2>1
  <2>3. QED
    BY <1>1, <2>2, ShowsTheSame
<1>4. /\ ShownOutcome[sn] = IF infos[r].status \in Terminal THEN infos[r].status ELSE "running"
      /\ ShownResults[sn] = 0
      /\ ShownOutcome'[sn] = IF infos'[r].status \in Terminal THEN infos'[r].status ELSE "running"
      /\ ShownResults'[sn] = IF threads'[r].at = "done" THEN 1 ELSE 0
  <2>1. Shows(r) /\ Shows(r)'
    BY <1>1 DEF ShownInv
  <2>2. QED
    BY <1>1, <1>2, <2>1 DEF Shows, Terminal
<1>5. CASE threads'[r].at # "done" /\ infos'[r].status = infos[r].status
  <2>1. \A o \in DOMAIN infos : /\ infos'[o].status = infos[o].status
                                /\ threads'[o].at = "done" <=> threads[o].at = "done"
    BY <1>1, <1>5
  <2>2. UNCHANGED <<ShownOutcome, ShownResults>>
    BY <1>1, <2>1, StepStutters
  <2>3. QED
    BY <2>2 DEF Service!vars
<1>6. CASE threads'[r].at # "done" /\ infos[r].status \notin Terminal
  <2>1. ShownOutcome[sn] = "running" /\ ShownResults'[sn] = ShownResults[sn]
    BY <1>4, <1>6
  <2>2. ShownResults' = ShownResults
    BY <1>3, <2>1, ShownDomain
  <2>3. CASE infos'[r].status \in Terminal
    <3>1. PICK final \in Terminal : final = infos'[r].status
      BY <2>3
    <3>2. ShownOutcome'[sn] = final
      BY <1>4, <2>3, <3>1
    <3>3. ShownOutcome' = [ShownOutcome EXCEPT ![sn] = final]
      BY <1>3, <3>2, ShownDomain
    <3>4. Service!Finish(sn)
      BY <2>1, <2>2, <3>1, <3>3 DEF Service!Finish, Service!Final, Terminal
    <3>5. QED
      BY <3>4 DEF Service!Next
  <2>4. CASE infos'[r].status \notin Terminal
    <3>1. ShownOutcome'[sn] = ShownOutcome[sn]
      BY <1>4, <1>6, <2>4
    <3>2. ShownOutcome' = ShownOutcome
      BY <1>3, <3>1, ShownDomain
    <3>3. QED
      BY <2>2, <3>2 DEF Service!vars
  <2>5. QED
    BY <2>3, <2>4
<1>7. CASE threads'[r].at = "done" /\ infos' = infos /\ infos[r].status \in Terminal
  <2>1. /\ ShownOutcome[sn] \in Terminal /\ ShownOutcome'[sn] = ShownOutcome[sn]
        /\ ShownResults'[sn] = 1
    BY <1>4, <1>7
  <2>2. ShownOutcome' = ShownOutcome
    BY <1>3, <2>1, ShownDomain
  <2>3. ShownResults' = [ShownResults EXCEPT ![sn] = 1]
    BY <1>3, <2>1, ShownDomain
  <2>4. Service!Answer(sn)
    BY <1>4, <2>1, <2>2, <2>3 DEF Service!Answer, Service!Final, Terminal
  <2>5. QED
    BY <2>4 DEF Service!Next
<1>8. QED
  BY <1>5, <1>6, <1>7, ThreadTells

LEMMA NewObjectServes ==
    ASSUME RouterInv, NoneEvicted, OwnInv, RequestsRise, SnInv, ShownInv, ShownInv', [Next]_vars,
           DOMAIN infos' # DOMAIN infos
    PROVE  Service!Next
<1>1. PICK new, sn : new = Len(infos) + 1 /\ sn = Head(requestQueue)
  OBVIOUS
<1>2. /\ threads' = threads /\ requestQueue # <<>>
      /\ DOMAIN infos' = DOMAIN infos \cup {new}
      /\ \A o \in DOMAIN infos : infos'[o] = infos[o]
      /\ infos'[new].sn = sn /\ infos'[new].status = "PENDING" /\ new \in 1 .. MaxTasks
  BY <1>1, NewObject
<1>3. sn \in 1 .. MaxRequests
  BY <1>2 DEF ShownInv
<1>4. \A o \in DOMAIN infos : infos[o].sn # sn
  <2>1. sn = requestQueue[1] /\ 1 \in DOMAIN requestQueue
    BY <1>1, <1>2, TakenRequests
  <2>2. sn \in Nat
    BY <1>3
  <2>3. QED
    BY <2>1, <2>2 DEF SnInv
<1>5. ObjectsKept
  BY StepKeepsTable
<1>6. \A s \in 1 .. MaxRequests : s # sn =>
         ShownOutcome'[s] = ShownOutcome[s] /\ ShownResults'[s] = ShownResults[s]
  <2>1. SUFFICES ASSUME NEW s \in 1 .. MaxRequests, s # sn
                 PROVE  ShownOutcome'[s] = ShownOutcome[s] /\ ShownResults'[s] = ShownResults[s]
    OBVIOUS
  <2>2. \A o \in DOMAIN infos' \ DOMAIN infos : infos'[o].sn # s
    BY <1>2, <2>1
  <2>3. QED
    BY <1>2, <1>5, <2>2, ShowsTheSame
<1>7. ShownOutcome[sn] = "none" /\ ShownResults[sn] = 0
  BY <1>3, <1>4 DEF ShownInv
<1>8. ShownOutcome'[sn] = "running" /\ ShownResults'[sn] = 0
  <2>1. new \notin DOMAIN infos
    BY <1>1, InfosFacts
  <2>2. threads'[new].at # "done"
    BY <1>2, <2>1 DEF OwnInv, Starts
  <2>3. Shows(new)'
    BY <1>2 DEF ShownInv
  <2>4. QED
    BY <1>2, <2>2, <2>3 DEF Shows, Terminal
<1>9. ShownOutcome' = [ShownOutcome EXCEPT ![sn] = "running"]
  BY <1>6, <1>8, ShownDomain
<1>10. ShownResults' = ShownResults
  BY <1>6, <1>7, <1>8, ShownDomain
<1>11. Service!Accept(sn)
  BY <1>7, <1>9, <1>10 DEF Service!Accept
<1>12. QED
  BY <1>3, <1>11 DEF Service!Next

LEMMA StepServes ==
    ASSUME RouterInv, NoneEvicted, OwnInv, RequestsRise, SnInv, ShownInv, ShownInv', [Next]_vars
    PROVE  [Service!Next]_(Service!vars)
<1>1. ObjectsKept
  BY StepKeepsTable
<1>2. CASE DOMAIN infos' # DOMAIN infos
  BY <1>2, NewObjectServes
<1>3. ASSUME NEW r \in 1 .. MaxTasks, ThreadStep(r)
      PROVE  [Service!Next]_(Service!vars)
  BY <1>3, ThreadStepServes
<1>4. ASSUME DOMAIN infos' = DOMAIN infos,
             \A o \in DOMAIN infos : infos'[o].status = infos[o].status,
             threads' = threads \/ StartThread
      PROVE  [Service!Next]_(Service!vars)
  <2>1. ASSUME NEW o \in DOMAIN infos PROVE threads'[o].at = "done" <=> threads[o].at = "done"
    BY <1>4, StartEndsNone
  <2>2. UNCHANGED <<ShownOutcome, ShownResults>>
    BY <1>1, <1>4, <2>1, StepStutters
  <2>3. QED
    BY <2>2 DEF Service!vars
<1>5. CASE HandleTask /\ DOMAIN infos' = DOMAIN infos
  <2>1. PICK sn, client, m :
           sn = Head(requestQueue) /\ client = requests[sn].client /\ m = requests[sn].msg
    OBVIOUS
  <2>2. threads' = threads /\ (infos' = infos \/ AddTask(m.id, client, sn, m.configure))
    BY <1>5, <2>1 DEF HandleTask, tmVars
  <2>3. PICK new : new = NewTaskInfo(m.id, client, sn, m.configure)
    OBVIOUS
  <2>4. infos' = infos \/ infos' = Append(infos, new)
    BY <2>2, <2>3 DEF AddTask
  <2>5. \A o \in DOMAIN infos : infos'[o] = infos[o]
    BY <2>4, InfosFacts, AppendProperties
  <2>6. QED
    BY <1>4, <1>5, <2>2, <2>5
<1>6. CASE \/ PublishPending \/ StartThread \/ HandleTaskStatus \/ HandleOther
           \/ HandleBroken \/ HandleSilent \/ QueueReply \/ SendReply
           \/ (\E c \in Client, m \in Offered : Receive(c, m))
           \/ (\E c \in Client : Disconnect(c))
           \/ (Tick /\ UNCHANGED serverVars)
           \/ UNCHANGED vars
  <2>1. infos' = infos /\ (threads' = threads \/ StartThread)
    BY <1>6 DEF PublishPending, StartThread, HandleTaskStatus, HandleOther, HandleBroken,
                HandleSilent, QueueReply, SendReply, Receive, Disconnect, Tick, serverVars, tmVars,
                vars
  <2>2. QED
    BY <1>4, <2>1
<1>7. QED
  BY <1>2, <1>3, <1>5, <1>6 DEF Next, ProcessStep

(***************************************************************************)
(* The server implements the safety of TaskService in every behaviour in   *)
(* which no task is evicted: a submission is accepted once, its final      *)
(* status stays, and exactly one result follows it, counted over the reply *)
(* queue, the replies that could not be sent and the replies that arrived. *)
(***************************************************************************)
THEOREM ServiceImplemented == Spec /\ []NoneEvicted => Service!Spec
<1> DEFINE Inv == RouterInv /\ SubmitterInv /\ OwnInv /\ AckInv /\ SnInv /\ CountInv
<1>1. Init => Inv
  BY InitRouterInv, InitSubmitter, InitOwn
     DEF Init, TMInit, AckInv, RequestsRise, LinesServed, LinesRise, AllServed, Rising, Ahead,
         SnInv, CountInv
<1>2. NoneEvicted /\ Inv /\ [Next]_vars => Inv'
  BY NextKeepsRouterInv, StepKeepsSubmitter, StepKeepsOwn, StepKeepsOrder, OtherStepKeepsLines,
     SendKeepsLines, StepKeepsSn, StepKeepsCount DEF AckInv
<1>3. Inv => ShownInv
  BY WhatIsShown
<1>4. Init => Service!Init
  <2>1. ASSUME Init PROVE Service!Init
    <3>1. infos = <<>> /\ requests = <<>>
      BY <2>1 DEF Init, TMInit
    <3>2. ShownOutcome = [s \in 1 .. MaxRequests |-> "none"]
      BY <3>1 DEF ShownOutcome, ObjectOf
    <3>3. ShownResults = [s \in 1 .. MaxRequests |-> 0]
      BY <3>1 DEF ShownResults
    <3>4. QED
      BY <3>2, <3>3 DEF Service!Init
  <2>2. QED
    BY <2>1
<1>5. NoneEvicted /\ Inv /\ ShownInv /\ ShownInv' /\ [Next]_vars => [Service!Next]_(Service!vars)
  BY StepServes DEF AckInv
<1> HIDE DEF Inv
<1>6. QED
  BY <1>1, <1>2, <1>3, <1>4, <1>5, PTL DEF Spec, Service!Spec

(***************************************************************************)
(* A server that is offered fewer tasks than MAX_QUEUE_SIZE implements it  *)
(* in every behaviour.                                                     *)
(***************************************************************************)
THEOREM ServiceForAll ==
    ASSUME MaxTasks < MaxQueueSize, Removable = {}
    PROVE  Spec => Service!Spec
<1>1. Spec => []NoneEvicted
  BY RoomForAll, PTL
<1>2. QED
  BY <1>1, ServiceImplemented, PTL
================================================================================
