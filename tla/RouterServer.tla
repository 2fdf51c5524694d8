------------------------------ MODULE RouterServer ------------------------------
(***************************************************************************)
(* One simulated quantum system: class ZmqRouterServer of                  *)
(* python_simulator/zmq_router_server.py over the task table of module     *)
(* TaskManager.  Three threads serve the ROUTER socket (receive, process,  *)
(* send), joined by two FIFO queues, and every accepted task runs in a     *)
(* thread of its own.  Each thread is cut into steps at its accesses to    *)
(* shared state: the queues, the task table, the PUB socket and the ROUTER *)
(* socket.  The thread of the r-th TaskInfo object is threads[r].          *)
(*                                                                         *)
(* The network below the ROUTER socket is external: Receive takes any of   *)
(* the offered requests from any client at any time.  A published status   *)
(* is one step here.                                                       *)
(***************************************************************************)
EXTENDS TaskManager

CONSTANTS
    NoId,         \* None: the task_id of a message that carries none
    Offered,      \* the requests clients may send
    MaxRequests,  \* bound: requests that arrive in a behaviour
    Undecodable,  \* the clients whose identity is not UTF-8
    Flaky,        \* the clients that may disconnect
    Slow,         \* the clients that may leave so many replies unread that a send times out
    Watched       \* the task ids whose published statuses are recorded

\* The request types with a handler of their own, and the type of its reply.
AckType == [MsgHeartbeat   |-> "MsgHeartbeatAck",   GetChipConfig |-> "GetChipConfigAck",
            MsgGetToken    |-> "MsgGetTokenAck",    GetUpdateTime |-> "GetUpdateTimeAck",
            MsgUpdateToken |-> "MsgUpdateTokenAck", GetRBData     |-> "GetRBDataAck",
            SetVip         |-> "SetVipAck",         ReleaseVip    |-> "ReleaseVipAck"]

\* ErrorCode
NO_ERROR == 0
UNDEFINED_ERROR == 1
TASK_PARAM_ERROR == 2
JSON_ERROR == 3
QUEUE_FULL == 4
AUTH_ERROR == 5
TASK_ID_DUPLICATE == 10

\* The error codes the handlers above put into their replies.
AckErrors(type) ==
    {NO_ERROR} \cup (IF type = "GetChipConfig" THEN {TASK_PARAM_ERROR} ELSE {})
               \cup (IF type \in {"MsgGetToken", "MsgUpdateToken"} THEN {AUTH_ERROR} ELSE {})

\* Replies and unknown types: handled without a reply.
SilentType == {"MsgTaskAck", "MsgTaskResultAck", "MsgTaskResult", "Unknown"}

\* Messages that make handle_message raise, with the code of the reply: text
\* that is not JSON, and JSON the handlers cannot use (not an object, a TaskId
\* that cannot be a key).
BrokenType == [NotJson |-> JSON_ERROR, Unusable |-> UNDEFINED_ERROR]

RequestType == {"MsgTask", "TaskStatus", "Empty"} \cup SilentType
                  \cup DOMAIN AckType \cup DOMAIN BrokenType

Request == [type : RequestType, id : TaskId \cup {NoId}, configure : Configure]

ASSUME OfferedAssumption ==
    /\ Offered \subseteq Request
    /\ \A m \in Offered : m.type = "MsgTask" => m.id \in TaskId
ASSUME RequestsAssumption == /\ MaxRequests \in Nat
                             /\ MaxTasks \in Nat
                             /\ MaxRequests <= MaxTasks
                             /\ 1 .. MaxRequests \subseteq Sn

ASSUME ServerStatusesAssumption ==
    {"COMPILING", "COMPILED", "RUNNING", "SUCCESSED", "FAILED"} \subseteq Statuses
ASSUME WatchedAssumption == Watched \subseteq TaskId

VARIABLES
    requests,      \* the requests that arrived; the SN of a request is its index
    requestQueue,  \* self.request_queue, of indices of requests
    replyQueue,    \* self.reply_queue
    proc,          \* the process thread: where it is, and the reply it built
    threads,       \* the task threads: [at, task, measured, note]
    published,     \* the statuses published on the PUB socket, per watched id
    inbox,         \* the replies each client was sent
    undelivered,   \* the replies the ROUTER socket refused to send
    connected      \* the clients the ROUTER socket has a route to

serverVars == <<requests, requestQueue, replyQueue, proc, threads, published,
                inbox, undelivered, connected>>
vars == <<tmVars, serverVars>>

NoSn == 0
NoData == <<>>

\* A reply and the identity it is queued with.  The counts in a result stand
\* for the object whose configuration was measured; no other reply has any.
Reply(client, type, sn, id, err, data) ==
    [client |-> client, type |-> type, sn |-> sn, task_id |-> id,
     err |-> err, data |-> data, measured |-> NoTask]

NoReply == [type |-> "None"]

\* The object a thread holds, the one process_task measures, and the times.
Idle == [at |-> "idle", task |-> NoTask, measured |-> NoTask, note |-> NoData]

Init ==
    /\ TMInit
    /\ requests = <<>>
    /\ requestQueue = <<>>
    /\ replyQueue = <<>>
    /\ proc = [at |-> "idle", reply |-> NoReply]
    /\ threads = [r \in 1 .. MaxTasks |-> Idle]
    /\ published = [id \in Watched |-> <<>>]
    /\ inbox = [c \in Client |-> <<>>]
    /\ undelivered = <<>>
    /\ connected = Client

Publish(id, status) ==
    published' = [i \in Watched |-> IF i = id THEN Append(published[i], status)
                                            ELSE published[i]]

--------------------------------------------------------------------------------
(***************************************************************************)
(* The receive thread.  An empty request is skipped; an identity that is   *)
(* not UTF-8 makes decode raise, and the request is logged and lost.       *)
(***************************************************************************)
Receive(c, m) ==
    /\ Len(requests) < MaxRequests
    /\ c \in connected
    /\ requests' = Append(requests, [client |-> c, msg |-> m])
    /\ requestQueue' = IF m.type = "Empty" \/ c \in Undecodable
                         THEN requestQueue
                         ELSE Append(requestQueue, Len(requests) + 1)
    /\ UNCHANGED <<tmVars, replyQueue, proc, threads, published,
                   inbox, undelivered, connected>>

--------------------------------------------------------------------------------
(***************************************************************************)
(* The process thread: takes a request, handles it to the end and queues   *)
(* the reply its handler returned, if any.                                 *)
(***************************************************************************)
Dequeue(type) ==
    /\ proc.at = "idle"
    /\ requestQueue # <<>>
    /\ requests[Head(requestQueue)].msg.type = type
    /\ requestQueue' = Tail(requestQueue)

\* The handler of request sn goes on at `at`, with its reply built.
Answer(at, sn, type, replySn, id, err, data) ==
    proc' = [at |-> at,
             reply |-> Reply(requests[sn].client, type, replySn, id, err, data)]

\* Mutant: the branch for a duplicate id lacks its return.
HandleTaskWithoutReturn ==
    /\ Dequeue("MsgTask")
    /\ LET sn == Head(requestQueue)
           m  == requests[sn].msg
       IN \/ /\ IsPresent(m.id)
             /\ Answer("pending", sn, "MsgTaskAck", sn, m.id, TASK_ID_DUPLICATE, NoData)
             /\ UNCHANGED tmVars
          \/ /\ AddTask(m.id, requests[sn].client, sn, m.configure)
             /\ Answer("pending", sn, "MsgTaskAck", sn, m.id, NO_ERROR, NoData)
    /\ UNCHANGED <<requests, replyQueue, threads, published, inbox, undelivered, connected>>

\* _handle_task, up to the return of add_task.
HandleTask ==
    /\ Dequeue("MsgTask")
    /\ LET sn == Head(requestQueue)
           m  == requests[sn].msg
       IN \/ /\ IsPresent(m.id)
             /\ Answer("reply", sn, "MsgTaskAck", sn, m.id, TASK_ID_DUPLICATE, NoData)
             /\ UNCHANGED tmVars
          \/ /\ AddTask(m.id, requests[sn].client, sn, m.configure)
             /\ Answer("pending", sn, "MsgTaskAck", sn, m.id, NO_ERROR, NoData)
    /\ UNCHANGED <<requests, replyQueue, threads, published, inbox, undelivered, connected>>

\* _handle_task: publish PENDING.
PublishPending ==
    /\ proc.at = "pending"
    /\ Publish(proc.reply.task_id, "PENDING")
    /\ proc' = [proc EXCEPT !.at = "spawn"]
    /\ UNCHANGED <<tmVars, requests, requestQueue, replyQueue, threads,
                   inbox, undelivered, connected>>

\* Mutant: the thread of the next object is started.
StartNextThread ==
    /\ proc.at = "spawn"
    /\ threads' = [r \in 1 .. MaxTasks |-> IF r = Len(infos) + 1
                                            THEN [Idle EXCEPT !.at = "running"]
                                            ELSE threads[r]]
    /\ proc' = [proc EXCEPT !.at = "reply"]
    /\ UNCHANGED <<tmVars, requests, requestQueue, replyQueue, published,
                   inbox, undelivered, connected>>

\* _handle_task: start the thread of the task.  The acknowledgement is still
\* in the hands of the process thread.
StartThread ==
    /\ proc.at = "spawn"
    /\ threads' = [threads EXCEPT ![Len(infos)].at = "running"]
    /\ proc' = [proc EXCEPT !.at = "reply"]
    /\ UNCHANGED <<tmVars, requests, requestQueue, replyQueue, published,
                   inbox, undelivered, connected>>

\* _handle_task_status asks for msg_data['task_id'], which
\* parse_general_message sets for no message: the id it looks up is None.
HandleTaskStatus ==
    /\ Dequeue("TaskStatus")
    /\ LET status == IF NoId \in TaskId THEN GetTaskStatus(NoId) ELSE "NOTASK"
           sn == Head(requestQueue)
       IN Answer("reply", sn, "TaskStatusAck", sn, NoId, NO_ERROR, [TaskStatus |-> status])
    /\ UNCHANGED <<tmVars, requests, replyQueue, threads, published,
                   inbox, undelivered, connected>>

\* The handlers that leave the task table alone.  The token replies carry no
\* SN.  The tokens themselves are left out.
HandleOther ==
    /\ \E type \in DOMAIN AckType :
          /\ Dequeue(type)
          /\ \E err \in AckErrors(type) :
                LET sn == Head(requestQueue)
                    replySn == IF type \in {"MsgGetToken", "MsgUpdateToken"}
                                 THEN NoSn ELSE sn
                IN Answer("reply", sn, AckType[type], replySn, NoId, err, NoData)
    /\ UNCHANGED <<tmVars, requests, replyQueue, threads, published,
                   inbox, undelivered, connected>>

\* Mutant: the exception ends the process thread.
HandleBrokenFatally ==
    /\ \E type \in DOMAIN BrokenType : Dequeue(type)
    /\ proc' = [at |-> "dead", reply |-> NoReply]
    /\ UNCHANGED <<tmVars, requests, replyQueue, threads, published,
                   inbox, undelivered, connected>>

\* handle_message raised: UndefinedMsg with SN 0.
HandleBroken ==
    /\ \E type \in DOMAIN BrokenType :
          /\ Dequeue(type)
          /\ Answer("reply", Head(requestQueue), "UndefinedMsg", NoSn, NoId,
                    BrokenType[type], NoData)
    /\ UNCHANGED <<tmVars, requests, replyQueue, threads, published,
                   inbox, undelivered, connected>>

\* handle_message returned None.
HandleSilent ==
    /\ \E type \in SilentType : Dequeue(type)
    /\ UNCHANGED <<tmVars, requests, replyQueue, proc, threads, published,
                   inbox, undelivered, connected>>

\* Mutant: the reply queue is a LifoQueue.
PushReply ==
    /\ proc.at = "reply"
    /\ replyQueue' = <<proc.reply>> \o replyQueue
    /\ proc' = [at |-> "idle", reply |-> NoReply]
    /\ UNCHANGED <<tmVars, requests, requestQueue, threads, published,
                   inbox, undelivered, connected>>

\* _process_requests: queue the reply of the handler.
QueueReply ==
    /\ proc.at = "reply"
    /\ replyQueue' = Append(replyQueue, proc.reply)
    /\ proc' = [at |-> "idle", reply |-> NoReply]
    /\ UNCHANGED <<tmVars, requests, requestQueue, threads, published,
                   inbox, undelivered, connected>>

ProcessStep ==
    \/ HandleTask \/ PublishPending \/ StartThread
    \/ HandleTaskStatus \/ HandleOther \/ HandleBroken \/ HandleSilent
    \/ QueueReply

--------------------------------------------------------------------------------
(***************************************************************************)
(* The send thread.  ROUTER_MANDATORY makes send raise for an identity     *)
(* without a route, and after SNDTIMEO for one whose queue is full; the    *)
(* reply is logged and lost.                                               *)
(***************************************************************************)
SendReply ==
    /\ replyQueue # <<>>
    /\ replyQueue' = Tail(replyQueue)
    /\ LET reply == Head(replyQueue)
       IN \/ /\ reply.client \in connected
             /\ inbox' = [inbox EXCEPT ![reply.client] = Append(@, reply)]
             /\ UNCHANGED undelivered
          \/ /\ reply.client \in Slow \/ reply.client \notin connected
             /\ undelivered' = Append(undelivered, reply)
             /\ UNCHANGED inbox
    /\ UNCHANGED <<tmVars, requests, requestQueue, proc, threads, published, connected>>

Disconnect(c) ==
    /\ c \in Flaky \cap connected
    /\ connected' = connected \ {c}
    /\ UNCHANGED <<tmVars, requests, requestQueue, replyQueue, proc, threads,
                   published, inbox, undelivered>>

--------------------------------------------------------------------------------
(***************************************************************************)
(* The thread of the r-th object: _process_task_async, which runs          *)
(* process_task of the task manager.  The thread knows the id of its task  *)
(* and looks the object up by id at every access to the table; after an    *)
(* eviction and a new submission of the id that is another object.         *)
(***************************************************************************)
IdOf(r) == infos[r].task_id

Goto(r, from, to) ==
    /\ threads[r].at = from
    /\ threads' = [threads EXCEPT ![r].at = to]

Exit(r, from) ==
    /\ threads[r].at = from
    /\ threads' = [threads EXCEPT ![r] = [Idle EXCEPT !.at = "done"]]

\* publish_task_status by the task thread.
PublishRunning(r) ==
    /\ Goto(r, "running", "get")
    /\ Publish(IdOf(r), "RUNNING")
    /\ UNCHANGED <<tmVars, requests, requestQueue, replyQueue, proc,
                   inbox, undelivered, connected>>

\* process_task: get_task.
GetTask(r) ==
    /\ threads[r].at = "get"
    /\ threads' = [threads EXCEPT ![r] =
          [@ EXCEPT !.at = IF IsPresent(IdOf(r)) THEN "compile" ELSE "notask",
                    !.task = tasks[IdOf(r)], !.measured = tasks[IdOf(r)]]]
    /\ UNCHANGED <<tmVars, requests, requestQueue, replyQueue, proc, published,
                   inbox, undelivered, connected>>

\* process_task returned None: publish FAILED and return without a result.
PublishNoTask(r) ==
    /\ Exit(r, "notask")
    /\ Publish(IdOf(r), "FAILED")
    /\ UNCHANGED <<tmVars, requests, requestQueue, replyQueue, proc,
                   inbox, undelivered, connected>>

\* The status updates of process_task, each under the lock on its own.
SetStatus(r, from, status, to) ==
    /\ Goto(r, from, to)
    /\ UpdateTaskStatus(IdOf(r), status)
    /\ UNCHANGED <<requests, requestQueue, replyQueue, proc, published,
                   inbox, undelivered, connected>>

Compiling(r) == SetStatus(r, "compile", "COMPILING", "compiled")
Compiled(r)  == SetStatus(r, "compiled", "COMPILED", "run")

\* RUNNING, then the results are drawn from the configuration the thread holds:
\* drawing them raises when the configuration is malformed.
Running(r) ==
    SetStatus(r, "run", "RUNNING",
              IF infos[threads[r].task].configure = "valid" THEN "succeed" ELSE "fail")

\* Mutant: the final status is left to the caller of process_task.
SucceededSilently(r) ==
    /\ Goto(r, "succeed", "post")
    /\ UNCHANGED <<tmVars, requests, requestQueue, replyQueue, proc, published,
                   inbox, undelivered, connected>>

Succeeded(r) == SetStatus(r, "succeed", "SUCCESSED", "post")

\* The post-processing times, written into the object process_task holds.
PostProcess(r) ==
    /\ Goto(r, "post", "lookup")
    /\ SetProcessTimes(threads[r].task)
    /\ UNCHANGED <<requests, requestQueue, replyQueue, proc, published,
                   inbox, undelivered, connected>>

\* _process_task_async: get_task once more; the thread returns silently when
\* the task is gone.  It keeps the counts process_task returned.
LookUpResult(r) ==
    /\ threads[r].at = "lookup"
    /\ threads' = [threads EXCEPT ![r] =
          IF IsPresent(IdOf(r)) THEN [@ EXCEPT !.at = "timing", !.task = tasks[IdOf(r)]]
          ELSE [Idle EXCEPT !.at = "done"]]
    /\ UNCHANGED <<tmVars, requests, requestQueue, replyQueue, proc, published,
                   inbox, undelivered, connected>>

\* Mutant: SUCCESSED is not published.
TakeTimingOnly(r) ==
    /\ threads[r].at = "timing"
    /\ threads' = [threads EXCEPT ![r] =
          [@ EXCEPT !.at = "result", !.note = GetTimingInfo(IdOf(r))]]
    /\ UNCHANGED <<tmVars, requests, requestQueue, replyQueue, proc, published,
                   inbox, undelivered, connected>>

\* get_timing_info, by id, for the result message.
TakeTiming(r) ==
    /\ threads[r].at = "timing"
    /\ threads' = [threads EXCEPT ![r] =
          [@ EXCEPT !.at = "success", !.note = GetTimingInfo(IdOf(r))]]
    /\ UNCHANGED <<tmVars, requests, requestQueue, replyQueue, proc, published,
                   inbox, undelivered, connected>>

PublishSucceeded(r) ==
    /\ Goto(r, "success", "result")
    /\ Publish(IdOf(r), "SUCCESSED")
    /\ UNCHANGED <<tmVars, requests, requestQueue, replyQueue, proc,
                   inbox, undelivered, connected>>

\* MsgTaskResult of object o, queued for the client of o, with the counts
\* measured for object d.
ResultOf(o, d, id, err, note) ==
    [Reply(infos[o].identity, "MsgTaskResult", infos[o].sn, id, err, note) EXCEPT !.measured = d]

\* Mutant: the thread answers the submission that started it with whatever
\* process_task found under the id.
QueueFirstResult(r) ==
    /\ Exit(r, "result")
    /\ replyQueue' = Append(replyQueue,
          ResultOf(r, threads[r].measured, IdOf(r), NO_ERROR, threads[r].note))
    /\ UNCHANGED <<tmVars, requests, requestQueue, proc, published,
                   inbox, undelivered, connected>>

\* Mutant: the thread tries again after it has queued its result.
QueueResultAgain(r) ==
    /\ Goto(r, "result", "lookup")
    /\ replyQueue' = Append(replyQueue,
          ResultOf(threads[r].task, threads[r].measured, IdOf(r), NO_ERROR, threads[r].note))
    /\ UNCHANGED <<tmVars, requests, requestQueue, proc, published,
                   inbox, undelivered, connected>>

QueueResult(r) ==
    /\ Exit(r, "result")
    /\ replyQueue' = Append(replyQueue,
          ResultOf(threads[r].task, threads[r].measured, IdOf(r), NO_ERROR, threads[r].note))
    /\ UNCHANGED <<tmVars, requests, requestQueue, proc, published,
                   inbox, undelivered, connected>>

\* Mutant: a failed task is removed from the table.
FailAndRemove(r) ==
    /\ Goto(r, "fail", "error")
    /\ RemoveTask(IdOf(r))
    /\ UNCHANGED <<requests, requestQueue, replyQueue, proc, published,
                   inbox, undelivered, connected>>

\* The exception handler of process_task: FAILED, and the exception goes on.
Fail(r) == SetStatus(r, "fail", "FAILED", "error")

\* Mutant: the exception is only logged.
LogError(r) ==
    /\ Exit(r, "error")
    /\ UNCHANGED <<tmVars, requests, requestQueue, replyQueue, proc, published,
                   inbox, undelivered, connected>>

\* The exception handler of _process_task_async: an error result if the task
\* is still in the table.  No status is published.
QueueErrorResult(r) ==
    /\ Exit(r, "error")
    /\ replyQueue' = IF IsPresent(IdOf(r))
                       THEN Append(replyQueue, ResultOf(tasks[IdOf(r)], NoTask, IdOf(r),
                                                        UNDEFINED_ERROR, NoData))
                       ELSE replyQueue
    /\ UNCHANGED <<tmVars, requests, requestQueue, proc, published,
                   inbox, undelivered, connected>>

ThreadStep(r) ==
    \/ PublishRunning(r) \/ GetTask(r) \/ PublishNoTask(r)
    \/ Compiling(r) \/ Compiled(r) \/ Running(r) \/ Succeeded(r) \/ PostProcess(r)
    \/ LookUpResult(r) \/ TakeTiming(r) \/ PublishSucceeded(r) \/ QueueResult(r)
    \/ Fail(r) \/ QueueErrorResult(r)

--------------------------------------------------------------------------------
Next ==
    \/ \E c \in Client, m \in Offered : Receive(c, m)
    \/ ProcessStep
    \/ SendReply
    \/ \E c \in Client : Disconnect(c)
    \/ \E r \in 1 .. MaxTasks : ThreadStep(r)
    \/ Tick /\ UNCHANGED serverVars

Spec == Init /\ [][Next]_vars

\* Every thread of the server is scheduled again and again, and none of their
\* waits depends on a client: the process thread, the send thread and each
\* task thread are fair.  Clients and the clock owe nothing.
Fairness ==
    /\ WF_vars(ProcessStep)
    /\ WF_vars(SendReply)
    /\ \A r \in 1 .. MaxTasks : WF_vars(ThreadStep(r))

FairSpec == Spec /\ Fairness

--------------------------------------------------------------------------------
\* What a reply carries beside its code: a status, the durations of a task,
\* or nothing.
ReplyData ==
    [TaskStatus : Status \cup {"NOTASK"}]
        \cup [CompileTime : Int, MeasureTime : Int, PostProcessTime : Int, PendingTime : Int]
        \cup {NoData}

ReplyType == {"MsgTaskAck", "MsgTaskResult", "TaskStatusAck", "UndefinedMsg"}
                 \cup {AckType[type] : type \in DOMAIN AckType}

Replies == [client : Client, type : ReplyType, sn : Sn \cup {NoSn},
            task_id : TaskId \cup {NoId}, err : Nat, data : ReplyData, measured : Nat]

At == {"idle", "running", "get", "notask", "compile", "compiled", "run", "succeed", "fail",
       "post", "lookup", "timing", "success", "result", "error", "done"}

(***************************************************************************)
(* Type invariant of the server.  A thread that runs has an object, and    *)
(* the object it holds exists.                                             *)
(***************************************************************************)
RouterTypeOK ==
    /\ TMTypeOK
    /\ requests \in Seq([client : Client, msg : Offered])
    /\ requestQueue \in Seq(DOMAIN requests)
    /\ replyQueue \in Seq(Replies)
    /\ proc \in [at : {"idle", "pending", "spawn", "reply"}, reply : Replies \cup {NoReply}]
    /\ proc.at # "idle" => proc.reply \in Replies
    /\ threads \in [1 .. MaxTasks -> [at : At, task : Nat, measured : Nat, note : ReplyData]]
    /\ \A r \in 1 .. MaxTasks :
          /\ threads[r].at \notin {"idle", "done"} => r \in DOMAIN infos
          /\ threads[r].task \in {NoTask} \cup DOMAIN infos
    /\ published \in [Watched -> Seq(Status)]
    /\ inbox \in [Client -> Seq(Replies)]
    /\ undelivered \in Seq(Replies)
    /\ connected \subseteq Client

--------------------------------------------------------------------------------
\* The replies a client got, followed by all that are still on their way.
Queued(c) == inbox[c] \o undelivered \o replyQueue

IsResult(reply) == reply.type = "MsgTaskResult"

\* P holds of every reply that was queued, in the queue or beyond.
EveryReply(P(_)) ==
    /\ \A i \in DOMAIN replyQueue : P(replyQueue[i])
    /\ \A i \in DOMAIN undelivered : P(undelivered[i])
    /\ \A c \in Client : \A i \in DOMAIN inbox[c] : P(inbox[c][i])

\* Where the results of submission sn are among the replies.
ResultPlaces(sn) ==
    LET replies == Queued(requests[sn].client)
    IN {i \in DOMAIN replies : IsResult(replies[i]) /\ replies[i].sn = sn}

Terminal == {"SUCCESSED", "FAILED"}

\* Counts measured for object d may be sent as the result of object o.
CountsFit(d, o) ==
    d \in DOMAIN infos /\ infos[d].task_id = infos[o].task_id /\ d <= o

FromSubmission(reply) ==
    IsResult(reply) =>
        \E o \in DOMAIN infos : /\ infos[o].identity = reply.client
                                /\ infos[o].sn = reply.sn
                                /\ infos[o].task_id = reply.task_id
                                /\ reply.err = NO_ERROR => CountsFit(reply.measured, o)

(***************************************************************************)
(* Every task result goes to a client that submitted its task id, under    *)
(* the SN of one of that client's submissions of the id.  Its counts are   *)
(* those of this submission or of an earlier one of the same id, by        *)
(* whatever client: after an eviction and a new submission of the id a     *)
(* thread that has measured the evicted task finds the new one and sends   *)
(* it the counts it has.  They are never those of another id or of a later *)
(* submission.                                                             *)
(***************************************************************************)
ResultToSubmitter ==
    /\ EveryReply(FromSubmission)
    /\ \A c \in Client : \A i \in DOMAIN inbox[c] : inbox[c][i].client = c

(***************************************************************************)
(* No task is stuck: a task of the table whose status is not final has a   *)
(* thread that is running, or is about to be started by the process        *)
(* thread, even after threads of earlier submissions of the id moved its   *)
(* status.                                                                 *)
(***************************************************************************)
UnfinishedHasThread ==
    \A id \in Present : GetTaskStatus(id) \notin Terminal =>
        \/ \E r \in DOMAIN infos : /\ IdOf(r) = id
                                   /\ threads[r].at \notin {"idle", "done"}
        \/ /\ proc.at \in {"pending", "spawn"}
           /\ proc.reply.task_id = id

IsAckTo(c, reply) == reply.client = c /\ ~IsResult(reply) /\ reply.sn # NoSn

(***************************************************************************)
(* Acknowledgements reach a client in the order of its requests, each at   *)
(* most once: the two queues and the send thread keep the order in which   *)
(* the process thread served them, whatever is lost on the way.            *)
(***************************************************************************)
AnswersInOrder ==
    \A c \in Client :
        LET replies == inbox[c] \o replyQueue
        IN \A i, j \in DOMAIN replies :
              i < j /\ IsAckTo(c, replies[i]) /\ IsAckTo(c, replies[j]) =>
                  replies[i].sn < replies[j].sn

(***************************************************************************)
(* While no task is evicted, the statuses published for an id tell one     *)
(* run of one task: PENDING, then RUNNING, then at most one final status,  *)
(* although PENDING is published by the process thread and the others by   *)
(* the task's thread, and ids are submitted again and again.               *)
(***************************************************************************)
PublishedInOrder ==
    \A id \in Watched :
        \E story \in {<<"PENDING", "RUNNING", final>> : final \in Terminal} :
            IsPrefix(published[id], story)

IsVisible(reply) ==
    IsResult(reply) /\ reply.err = NO_ERROR =>
        /\ GetTaskStatus(reply.task_id) = "SUCCESSED"
        /\ reply.task_id \in Watched => "SUCCESSED" \in ToSet(published[reply.task_id])

(***************************************************************************)
(* While no task is evicted, a client that holds a success result finds    *)
(* the matching status everywhere: SUCCESSED has been published and is the *)
(* status the table keeps.                                                 *)
(***************************************************************************)
SuccessIsVisible == EveryReply(IsVisible)

HasSaneTimes(reply) ==
    IsResult(reply) /\ reply.err = NO_ERROR =>
        /\ DOMAIN reply.data = {"CompileTime", "MeasureTime", "PostProcessTime", "PendingTime"}
        /\ \A f \in DOMAIN reply.data : reply.data[f] \in 0 .. (clock - Epoch)

(***************************************************************************)
(* While no task is evicted, every duration in a success result lies       *)
(* between 0 and the time the server has been up: no timestamp of the      *)
(* subtraction is still unset (0) and none was set out of order.           *)
(***************************************************************************)
NoteTimeSane == EveryReply(HasSaneTimes)

--------------------------------------------------------------------------------
\* What the server shows of a submission to module TaskService: accepted when
\* its object exists, finished when the table says so, answered when its
\* result is queued.
ObjectOf(sn) == {o \in DOMAIN infos : infos[o].sn = sn}

ShownOutcome ==
    [sn \in 1 .. MaxRequests |->
        IF ObjectOf(sn) = {} THEN "none"
        ELSE LET status == infos[CHOOSE o \in ObjectOf(sn) : TRUE].status
             IN IF status \in Terminal THEN status ELSE "running"]

ShownResults ==
    [sn \in 1 .. MaxRequests |->
        IF sn \in DOMAIN requests THEN Cardinality(ResultPlaces(sn)) ELSE 0]

Service == INSTANCE TaskService WITH
    Submission <- 1 .. MaxRequests, outcome <- ShownOutcome, results <- ShownResults

(***************************************************************************)
(* While no task is evicted, every step of the server is a step of the     *)
(* service or invisible to it: a submission is accepted once, its status   *)
(* never leaves a final one, and exactly one result follows that status.   *)
(* With fair threads every accepted submission comes to its final status   *)
(* and to its result.                                                      *)
(***************************************************************************)
ServiceLive == Service!FairSpec

Answerable(sn) ==
    /\ sn \in DOMAIN requests
    /\ requests[sn].client \notin Undecodable
    /\ \/ requests[sn].msg.type \in {"MsgTask", "TaskStatus"}
       \/ requests[sn].msg.type \in DOMAIN AckType \ {"MsgGetToken", "MsgUpdateToken"}

\* What client c was sent, and what it would have been sent in time.
SentTo(c) == ToSet(inbox[c]) \cup (IF c \in Slow THEN ToSet(undelivered) ELSE {})

AnsweredOrGone(sn) ==
    /\ sn \in DOMAIN requests
    /\ LET c == requests[sn].client
       IN \/ c \notin connected
          \/ \E reply \in SentTo(c) : reply.sn = sn /\ ~IsResult(reply)

ResultOrEvicted(o) ==
    /\ o \in DOMAIN infos
    /\ LET c == infos[o].identity
       IN \/ tasks[infos[o].task_id] # o
          \/ c \notin connected
          \/ \E reply \in SentTo(c) : reply.sn = infos[o].sn /\ IsResult(reply)

(***************************************************************************)
(* Every request with a handler of its own is answered under its SN unless *)
(* the client has gone or does not read, whatever else is queued, whatever *)
(* the task threads do, and whatever requests before it made the handlers  *)
(* raise.                                                                  *)
(***************************************************************************)
EveryRequestAnswered ==
    \A sn \in 1 .. MaxRequests : Answerable(sn) ~> AnsweredOrGone(sn)

(***************************************************************************)
(* Every accepted submission gets its result, or is evicted from the       *)
(* table, or its client has gone or does not read.                         *)
(***************************************************************************)
EveryTaskAnsweredOrEvicted ==
    \A o \in 1 .. MaxTasks : o \in DOMAIN infos ~> ResultOrEvicted(o)
================================================================================
