------------------------------ MODULE TaskService ------------------------------
(***************************************************************************)
(* What a quantum system promises of task submissions, whatever threads    *)
(* and queues serve them: an accepted submission runs, finishes once, as   *)
(* SUCCESSED or FAILED, and is then answered by exactly one result.        *)
(***************************************************************************)
EXTENDS Naturals

CONSTANT Submission

VARIABLES
    outcome,  \* what the task table says of each submission
    results   \* how many results each submission was answered with

vars == <<outcome, results>>

Final == {"SUCCESSED", "FAILED"}

Init ==
    /\ outcome = [s \in Submission |-> "none"]
    /\ results = [s \in Submission |-> 0]

Accept(s) ==
    /\ outcome[s] = "none"
    /\ outcome' = [outcome EXCEPT ![s] = "running"]
    /\ UNCHANGED results

Finish(s) ==
    /\ outcome[s] = "running"
    /\ \E final \in Final : outcome' = [outcome EXCEPT ![s] = final]
    /\ UNCHANGED results

Answer(s) ==
    /\ outcome[s] \in Final
    /\ results[s] = 0
    /\ results' = [results EXCEPT ![s] = 1]
    /\ UNCHANGED outcome

Next == \E s \in Submission : Accept(s) \/ Finish(s) \/ Answer(s)

Spec == Init /\ [][Next]_vars

\* A submission that was accepted does not wait for ever.
FairSpec == Spec /\ \A s \in Submission : WF_vars(Finish(s)) /\ WF_vars(Answer(s))
================================================================================
