---------------------------- MODULE MC_ReplayEngine ----------------------------
(* Small instances of the replay engine.                                   *)
EXTENDS ReplayEngine

CONSTANTS a, b

\* Tasks under two SNs, a token, and requests without a reply or with one
\* under SN 0.
MixedRequests ==
    [msg_type : {"MsgTask"}, sn : {0, 1}, task_id : {a, b}]
    \cup [msg_type : {"MsgGetToken", "silent"}, sn : {1}, task_id : {Null}]
    \cup [msg_type : {"broken"}, sn : {0}, task_id : {Null}]

\* The acknowledgement of a request that was lost.
LostRequest ==
    [direction : {"RESPONSE"}, msg_type : {"MsgTaskAck"}, err_code : {0}, sn : {1},
     task_id : {Null}, of : {0}]
================================================================================
