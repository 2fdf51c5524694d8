------------------------------ MODULE PubMonitor ------------------------------
(***************************************************************************)
(* The statuses of tasks on their way from the simulator to a browser: the *)
(* process thread and the task threads of ZmqRouterServer publish them     *)
(* (module PubServer), class PubProxy of pilotprobe/proxy/pub_proxy.py     *)
(* captures and republishes them, the validator checks them (module        *)
(* ProtocolValidator) and the dashboard broadcasts them (module            *)
(* WebSocketManager).                                                      *)
(*                                                                         *)
(* Task ids are distinct: an id that is evicted and submitted again may    *)
(* have the statuses of both its tasks interleaved.                        *)
(***************************************************************************)
EXTENDS ProtocolValidator, PubServer, WebSocketManager, SequencesExt

CONSTANTS
    Process, Chip,      \* the process thread; whoever would announce the chip's state
    Workload            \* bound: the choices of what happens in a behaviour

ASSUME MonitorAssumption ==
    /\ Publisher = Task \cup {Process, Chip} /\ Process \notin Task /\ Chip \notin Task
    /\ Workload \subseteq [tasks : SUBSET Task, browsers : SUBSET Connection, chip : SUBSET ChipOperations,
                             announcements : Nat, steady : BOOLEAN]
    /\ Null \notin {"PENDING", "COMPILING", "COMPILED", "RUNNING", "RETRY", "SUCCESSED", "FAILED"}

VARIABLES
    workload,       \* the choice made; in a steady one the subscriber is there
                    \* from the beginning and the publisher is not stopped
    phase,          \* how far each task is
    announced,      \* announcements of the chip's state
    captured        \* the messages captured, with the issues found in them

monitorVars == <<workload, phase, announced, captured>>
vars == <<validatorVars, pubVars, wsVars, monitorVars>>

Init ==
    /\ workload \in Workload
    /\ PVInit /\ PubInit(workload.steady) /\ WSInit
    /\ phase = [id \in Task |-> "queued"]
    /\ announced = 0
    /\ captured = <<>>

--------------------------------------------------------------------------------
(* Publishers                                                              *)

\* _handle_task on the process thread, which serves one request at a time.
PublishPending(id) ==
    /\ id \in workload.tasks /\ phase[id] = "queued"
    /\ \A other \in Task : phase[other] # "pending"
    /\ PublishTaskStatus(Process, id, "PENDING")
    /\ phase' = [phase EXCEPT ![id] = "pending"]
    /\ UNCHANGED <<validatorVars, wsVars, workload, announced, captured>>

\* It has returned from the publication: the task's thread starts with the
\* next one.
PublishRunning(id) ==
    /\ phase[id] = "pending" /\ Idle(Process)
    /\ PublishTaskStatus(id, id, "RUNNING")
    /\ phase' = [phase EXCEPT ![id] = "running"]
    /\ UNCHANGED <<validatorVars, wsVars, workload, announced, captured>>

\* process_task returned a result, or None.
PublishFinal(id, status) ==
    /\ phase[id] = "running"
    /\ PublishTaskStatus(id, id, status)
    /\ phase' = [phase EXCEPT ![id] = "done"]
    /\ UNCHANGED <<validatorVars, wsVars, workload, announced, captured>>

\* The task was evicted meanwhile, or processing it raised: no publication.
PublishNothing(id) ==
    /\ phase[id] = "running" /\ Idle(id)
    /\ phase' = [phase EXCEPT ![id] = "done"]
    /\ UNCHANGED <<validatorVars, pubVars, wsVars, workload, announced, captured>>

\* The operations nobody in the repository calls.
Announce(operation) ==
    /\ operation \in workload.chip /\ announced < workload.announcements
    /\ PublishChip(Chip, operation)
    /\ announced' = announced + 1
    /\ UNCHANGED <<validatorVars, wsVars, workload, phase, captured>>

SocketStep ==
    /\ \/ \E p \in Publisher : SendFrame(p) \/ SendRaises(p)
       \/ ~workload.steady /\ StopPublishing
       \/ CloseSocket \/ Subscribe
    /\ UNCHANGED <<validatorVars, wsVars, monitorVars>>

--------------------------------------------------------------------------------
(* PubProxy                                                                *)

\* What _capture_pub makes of the operation and the data of a publication, or
\* of no data.
Captured(operation, data) ==
    LET get(key, default) == IF key \in DOMAIN data THEN data[key] ELSE default
    IN [channel |-> "pub", direction |-> "PUB",
        msg_type |-> get("msg_type", IF DOMAIN data = {} THEN Null ELSE operation),
        task_id |-> get("task_id", Null), status |-> get("status", Null)]

Text(frame) == IF frame.kind = "topic" THEN "simulator_topic" ELSE publications[frame.n].operation

\* Mutant: the frames are counted without the topic.
FromFramesAfterTopic(frames) ==
    IF Len(frames) >= 4 /\ frames[4].kind = "data"
      THEN Captured(Text(frames[3]), publications[frames[4].n])
      ELSE Captured("", <<>>)

\* CapturedMessage.from_pub_frames: the second frame is the operation, the
\* third is parsed.  A data frame ends a message, so the third is one, if any,
\* only when it is the last; a topic or an operation is no JSON.
FromPubFrames(frames) ==
    IF Len(frames) >= 3 /\ frames[3].kind = "data"
      THEN Captured(Text(frames[2]), publications[frames[3].n])
      ELSE Captured("", <<>>)

\* The loop: receive, _capture_pub (validate, broadcast), republish.  Nothing
\* makes it go on, so that it may have been stopped at any time.
CapturePub ==
    /\ wire # <<>>
    /\ wire' = Tail(wire)
    /\ LET msg == FromPubFrames(Head(wire))
       IN /\ Validate(msg)
          /\ captured' = Append(captured, [frames |-> Head(wire), msg |-> msg,
                                           issues |-> Issues(msg)])
    /\ Schedule(Len(captured) + 1)
    /\ UNCHANGED <<running, open, publications, sending, partial, subscribed, heard, overlapped>>
    /\ UNCHANGED <<workload, phase, announced>>

DashboardStep ==
    /\ BroadcastStep \/ \E b \in workload.browsers : BrowserStep(b)
    /\ UNCHANGED <<validatorVars, pubVars, monitorVars>>

Next ==
    \/ \E id \in Task :
          \/ PublishPending(id) \/ PublishRunning(id) \/ PublishNothing(id)
          \/ \E status \in {"SUCCESSED", "FAILED"} : PublishFinal(id, status)
    \/ \E operation \in ChipOperations : Announce(operation)
    \/ SocketStep
    \/ CapturePub
    \/ DashboardStep

Spec == Init /\ [][Next]_vars

--------------------------------------------------------------------------------
MonitorTypeOK ==
    /\ running \in BOOLEAN /\ open \in BOOLEAN
    /\ \A p \in Publisher : ~Idle(p) => sending[p].n \in DOMAIN publications
    /\ \A i \in DOMAIN wire : Len(wire[i]) <= 3 * Cardinality(Publisher)
    /\ taskStatus \in [Task -> {Null, "PENDING", "RUNNING", "SUCCESSED", "FAILED"}]
    /\ connections \subseteq {b \in Connection : handler[b] = "open"}
    /\ \A x \in broadcasts : x.visited \subseteq Connection /\ x.n \in DOMAIN captured

Frames(n) == [i \in 1 .. 3 |-> [n |-> n, kind |-> <<"topic", "operation", "data">>[i]]]

(***************************************************************************)
(* A publication in which no other one began, and which began in none, is  *)
(* one message, and is captured with its task and its status.              *)
(***************************************************************************)
WholeUnlessOverlap ==
    \A i \in DOMAIN captured :
        \A frame \in Range(captured[i].frames) :
            frame.n \notin overlapped =>
                /\ captured[i].frames = Frames(frame.n)
                /\ captured[i].msg = Captured(publications[frame.n].operation,
                                                publications[frame.n])

(***************************************************************************)
(* An invalid transition is reported only when an earlier status of the    *)
(* task overlapped another publication and was lost: the warning is about  *)
(* the socket, never about the task.                                       *)
(***************************************************************************)
WarningNeedsTear ==
    \A i \in DOMAIN captured : "transition" \in captured[i].issues =>
        \E n \in overlapped :
            /\ publications[n].operation = "task_status"
            /\ publications[n].task_id = captured[i].msg.task_id
            /\ publications[n].status \in {"PENDING", "RUNNING"}
            /\ n < captured[i].frames[3].n
================================================================================
