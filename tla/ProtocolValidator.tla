-------------------------- MODULE ProtocolValidator --------------------------
(***************************************************************************)
(* class ProtocolValidator of pilotprobe/validator/validator.py, for the   *)
(* messages of one quantum system.  The proxy threads call validate with   *)
(* each message they capture; it holds its lock throughout, so a call is   *)
(* one step.  The schemas are left out: they are looked up and keep no     *)
(* state.                                                                  *)
(*                                                                         *)
(* A captured message is a record of the fields of CapturedMessage the     *)
(* checks read: channel, direction, msg_type, task_id, sn, err_code,       *)
(* status, timestamp.                                                      *)
(***************************************************************************)
EXTENDS Naturals, FiniteSets

CONSTANTS
    Task,           \* task ids, of any JSON type
    StringIds,      \* those that are non-empty strings
    SnRange,        \* sequence numbers
    RequiresAuth,   \* requires_auth of the system's schema
    SlowThreshold,  \* SLOW_RESPONSE_THRESHOLD
    Null            \* None: no SN, no task id, no time, no status

ASSUME ValidatorAssumption ==
    /\ RequiresAuth \in BOOLEAN /\ SlowThreshold \in Nat
    /\ StringIds \subseteq Task
    /\ Null \notin Task \cup SnRange

VARIABLES
    pendingRequests,    \* when a request of each SN was heard last, or Null
    taskIdsSeen,        \* string ids of the MsgTask requests so far
    authState,          \* a token was granted
    taskStatus          \* the last published status of each task, or Null

semanticVars == <<pendingRequests, taskIdsSeen, authState>>
validatorVars == <<semanticVars, taskStatus>>

PVInit ==
    /\ pendingRequests = [sn \in SnRange |-> Null]
    /\ taskIdsSeen = {}
    /\ authState = FALSE
    /\ taskStatus = [id \in Task |-> Null]

IsRequest(msg) == msg.direction = "REQUEST"

--------------------------------------------------------------------------------
(* _validate_semantics                                                     *)

\* Mutant: a request that waits for its response keeps its time.
PairRequestsOnce(msg) ==
    pendingRequests' =
        IF msg.sn = Null THEN pendingRequests
        ELSE [pendingRequests EXCEPT ![msg.sn] =
                IF ~IsRequest(msg) THEN Null ELSE IF @ = Null THEN msg.timestamp ELSE @]

\* The next request of the same SN, whoever sent it, overwrites the time, and
\* the first response of the SN, whatever it answers, removes it.
PairRequests(msg) ==
    pendingRequests' =
        IF msg.sn = Null THEN pendingRequests
        ELSE [pendingRequests EXCEPT ![msg.sn] =
                IF IsRequest(msg) THEN msg.timestamp ELSE Null]

SlowResponse(msg) ==
    /\ ~IsRequest(msg) /\ msg.sn # Null
    /\ pendingRequests[msg.sn] # Null
    /\ msg.timestamp - pendingRequests[msg.sn] > SlowThreshold

IsTokenAck(msg) == msg.msg_type = "MsgGetTokenAck" /\ ~IsRequest(msg)

\* One granted token counts for every client.
Authenticate(msg) == authState' = (authState \/ (IsTokenAck(msg) /\ msg.err_code = 0))

IsTask(msg) == msg.msg_type = "MsgTask" /\ IsRequest(msg)

NoToken(msg) == IsTask(msg) /\ RequiresAuth /\ ~authState

\* Only ids that are non-empty strings are looked up and remembered.
DuplicateTask(msg) == IsTask(msg) /\ msg.task_id \in StringIds \cap taskIdsSeen

\* Mutant: ids are remembered once their task is through.
RememberResults(msg) ==
    taskIdsSeen' = taskIdsSeen \cup
        (IF msg.msg_type = "MsgTaskResult" THEN {msg.task_id} ELSE {})

RememberTask(msg) ==
    taskIdsSeen' = taskIdsSeen \cup
        (IF IsTask(msg) /\ msg.task_id \in StringIds THEN {msg.task_id} ELSE {})

Semantics(msg) == PairRequests(msg) /\ Authenticate(msg) /\ RememberTask(msg)

--------------------------------------------------------------------------------
(* _validate_lifecycle                                                     *)

\* Mutant: every task is compiled before it runs.
CompiledTransitions == [
    PENDING   |-> {"COMPILING", "FAILED"},
    COMPILING |-> {"COMPILED", "FAILED"},
    COMPILED  |-> {"RUNNING", "FAILED"},
    RUNNING   |-> {"SUCCESSED", "FAILED", "RETRY"},
    RETRY     |-> {"PENDING", "RUNNING", "FAILED"}]

\* The statuses that may follow a status; the final ones are not in the table.
ValidTransitions == [
    PENDING   |-> {"RUNNING", "COMPILING", "FAILED"},
    COMPILING |-> {"COMPILED", "FAILED"},
    COMPILED  |-> {"RUNNING", "FAILED"},
    RUNNING   |-> {"SUCCESSED", "FAILED", "RETRY"},
    RETRY     |-> {"PENDING", "RUNNING", "FAILED"}]

InvalidTransition(msg) ==
    /\ msg.task_id # Null /\ msg.status # Null
    /\ taskStatus[msg.task_id] \in DOMAIN ValidTransitions
    /\ msg.status \notin ValidTransitions[taskStatus[msg.task_id]]

Lifecycle(msg) ==
    taskStatus' = IF msg.task_id = Null \/ msg.status = Null THEN taskStatus
                  ELSE [taskStatus EXCEPT ![msg.task_id] = msg.status]

--------------------------------------------------------------------------------
\* What validate writes into the message.
Issues(msg) ==
    {issue \in {"slow", "no_token", "duplicate", "transition"} :
        IF msg.channel = "router"
          THEN \/ issue = "slow" /\ SlowResponse(msg)
               \/ issue = "no_token" /\ NoToken(msg)
               \/ issue = "duplicate" /\ DuplicateTask(msg)
          ELSE issue = "transition" /\ InvalidTransition(msg)}

\* validate
Validate(msg) ==
    IF msg.channel = "router" THEN Semantics(msg) /\ UNCHANGED taskStatus
                              ELSE Lifecycle(msg) /\ UNCHANGED semanticVars
================================================================================
