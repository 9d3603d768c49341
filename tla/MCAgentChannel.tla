--------------------------- MODULE MCAgentChannel ---------------------------
(* Instances of AgentChannel for TLC: one agent has all connections and     *)
(* tasks.                                                                   *)
EXTENDS AgentChannel

CONSTANT a1

OneOwner == [c \in Conn |-> a1]
OneAgent == [t \in Task |-> a1]

(* One of the two tasks, the V1 task or the kanban task, is ever sent; the  *)
(* proofs are for any number.                                               *)
OneTask ==
    \A t, u \in Task : request[t] = "none" \/ request[u] = "none" \/ t = u
=============================================================================
