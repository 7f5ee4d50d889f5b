----------------------------- MODULE MCThreadPool ------------------------------
(* Small instances of ThreadPool: tasks of one loop, or of two. *)
EXTENDS ThreadPool, TLC

CONSTANTS l1, l2, t1, t2, t3, t4

OneLoop == [t \in Task |-> l1]
TwoLoops == [t \in Task |-> IF t = t1 THEN l1 ELSE l2]
Symmetry == Permutations(Worker)
================================================================================
