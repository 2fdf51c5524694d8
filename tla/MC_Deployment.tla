---------------------------- MODULE MC_Deployment ----------------------------
(* Small instances of a host.                                              *)
EXTENDS Deployment, TLC

\* A package as it should be, one whose image is another, and one with a
\* name that is not understood.
SomePackages == {[named |-> 2, image |-> 2], [named |-> 3, image |-> 2],
                 [named |-> 0, image |-> 2]}

Permute == Permutations(Process) \cup Permutations(Upgrade)
================================================================================
