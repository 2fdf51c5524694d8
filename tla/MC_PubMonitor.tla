---------------------------- MODULE MC_PubMonitor ----------------------------
(* Small instances of the way of a status to a browser.                    *)
EXTENDS PubMonitor, TLC

CONSTANTS a, b, u, v, w

\* Two tasks, a task beside an announcement, announcements to browsers.
Workloads == {
    [tasks |-> {a, b}, browsers |-> {}, chip |-> {}, announcements |-> 0, steady |-> TRUE],
    [tasks |-> {a}, browsers |-> {}, chip |-> ChipOperations, announcements |-> 1, steady |-> FALSE],
    [tasks |-> {b}, browsers |-> {}, chip |-> ChipOperations, announcements |-> 1, steady |-> FALSE],
    [tasks |-> {}, browsers |-> {u, v, w}, chip |-> {"probe"}, announcements |-> 2, steady |-> TRUE]}

Permute == Permutations(Connection) \cup Permutations(Task)
================================================================================
