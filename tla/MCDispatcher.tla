---------------------------- MODULE MCDispatcher ----------------------------
(* Instances of Dispatcher for TLC. *)
EXTENDS Dispatcher

CONSTANTS a1, a2, t1, t2, t3

(* Every task is assigned to the first agent. *)
OneAgent == [t \in Task |-> a1]

(* The first task goes to the first agent, the others to the second. *)
TwoAgents == [t \in Task |-> IF t = t1 THEN a1 ELSE a2]

(* The third task comes before the first, the first before the second. *)
ByPriority == [t \in Task |-> CASE t = t1 -> 1 [] t = t2 -> 2 [] OTHER -> 0]
=============================================================================
