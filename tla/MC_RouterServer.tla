---------------------------- MODULE MC_RouterServer ----------------------------
(* Small instances of the simulator's router server: the requests its      *)
(* clients may send.                                                       *)
EXTENDS DocumentedFlow, TLC

CONSTANTS a, b  \* two task ids

Task(id, configure) == [type |-> "MsgTask", id |-> id, configure |-> configure]
Query(id) == [type |-> "TaskStatus", id |-> id, configure |-> "valid"]
Plain(type) == [type |-> type, id |-> NoId, configure |-> "valid"]

ValidTasks == {Task(id, "valid") : id \in {a, b}}
AnyTasks == {Task(a, "valid"), Task(a, "malformed"), Task(b, "valid")}
TaskAndQuery == {Task(a, "valid"), Query(a)}
EveryType == AnyTasks \cup {Query(a)}
                 \cup {Plain(type) : type \in RequestType \ {"MsgTask", "TaskStatus"}}

Permute == Permutations(Client)
PermuteAll == Permutations(Client) \cup Permutations(TaskId)
================================================================================
