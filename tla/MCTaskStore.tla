---------------------------- MODULE MCTaskStore ----------------------------
(* Instances of TaskStore for TLC.  Task ids, locks, results and run ids   *)
(* are interchangeable values.                                             *)
EXTENDS TaskStore, TLC

Symmetry == Permutations(Task) \cup Permutations(Lock)
                \cup Permutations(Result) \cup Permutations(RunId)
=============================================================================
