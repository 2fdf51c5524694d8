---------------------------- MODULE MC_TaskManager ----------------------------
(* Small instances of the task table on its own.                           *)
EXTENDS TaskManager, TLC

Permute == Permutations(TaskId \ Removable)
===============================================================================
