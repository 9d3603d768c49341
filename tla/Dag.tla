-------------------------------- MODULE Dag --------------------------------
(* Reference definitions for the task graph: a graph is a set L of edges   *)
(* <<parent, child>> over a set N of nodes.                                *)

ClosedUnderChildren(S, L) == \A e \in L : e[1] \in S => e[2] \in S

(* b is a, or a descendant of a: b is in every set that contains a and is  *)
(* closed under taking children.                                           *)
Reaches(N, L, a, b) ==
    \A S \in SUBSET N : a \in S /\ ClosedUnderChildren(S, L) => b \in S

(* Every non-empty set of nodes has a member with no parent in the set. *)
AcyclicLinks(N, L) ==
    \A S \in SUBSET N : S # {} => \E t \in S : \A p \in S : <<p, t>> \notin L
=============================================================================
