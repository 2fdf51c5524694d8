----------------------------- MODULE DocumentedFlow -----------------------------
(***************************************************************************)
(* What python_simulator/README.md tells a client of the router server to  *)
(* expect and does not get, as a property of module RouterServer, which a  *)
(* run of its own refutes.                                                 *)
(***************************************************************************)
EXTENDS RouterServer

(***************************************************************************)
(* README.md 153: "TaskStatus: Query task status".  The reply to a query   *)
(* for a task of the table does not say that there is no such task.  The   *)
(* handler looks the id up under a key that is never set.                  *)
(***************************************************************************)
QueryFindsTask ==
    /\ proc.at = "reply"
    /\ proc.reply.type = "TaskStatusAck"
    /\ IsPresent(requests[proc.reply.sn].msg.id)
    => proc.reply.data.TaskStatus # "NOTASK"
================================================================================
