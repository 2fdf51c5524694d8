---------------------------- MODULE MC_RouterProxy ----------------------------
(* Small instances of the router proxy.                                    *)
EXTENDS RouterProxy

CONSTANTS p, q, a, b, i

RequestsOf(clients, msg_type, sns, ids) ==
    [client : clients, msg_type : {msg_type}, sn : sns, task_id : ids, captured : {Null}]

\* Tasks under two SNs, of new ids, one that is held and one that is no
\* string; tokens; requests that get no answer or an UndefinedMsg.
MixedRequests ==
    RequestsOf({p}, "MsgTask", {0, 1}, {a}) \cup RequestsOf({q}, "MsgTask", {1}, {b, i})
    \cup RequestsOf({p, q}, "silent", {0}, {Null}) \cup RequestsOf({q}, "broken", {1, Null}, {Null})
    \cup RequestsOf({p}, "MsgGetToken", {1}, {Null})

\* The result of a task an earlier PilotProbe forwarded.
ResultOfEarlier ==
    {[n |-> 0, msg_type |-> "MsgTaskResult", err_code |-> 0, sn |-> 1, task_id |-> b]}
================================================================================
