---------------------------- MODULE CycleSearch ----------------------------
(* The depth-first search that answers "would the edge parent -> child     *)
(* close a cycle?".  There are two of them: TaskStore._detect_cycle walks  *)
(* from the child along children, dependency.detect_cycle walks from the   *)
(* parent along parents.  Both are this loop; walk selects which.          *)
(*                                                                         *)
(* The Python stack is kept as the set of its members and any member may   *)
(* be popped: that covers every row order the database may return.         *)
EXTENDS Dag, Integers, FiniteSets

CONSTANT Node

VARIABLES
    links,      \* task_links, read only during the search
    child,
    parent,     \* the proposed parent
    walk,       \* which of the two searches this is
    stack,
    visited,
    answer      \* "searching", then "cycle" or "free"

vars == <<links, child, parent, walk, stack, visited, answer>>

(* Where the search starts and which node it looks for. *)
Origin == IF walk = "children" THEN child ELSE parent
Goal == IF walk = "children" THEN parent ELSE child

(* Mutant: walks the wrong way. *)
NeighboursBackwards(n) ==
    IF walk = "children" THEN {p \in Node : <<p, n>> \in links}
                         ELSE {c \in Node : <<n, c>> \in links}

(* The rows one SELECT returns. *)
Neighbours(n) ==
    IF walk = "children" THEN {c \in Node : <<n, c>> \in links}
                         ELSE {p \in Node : <<p, n>> \in links}

Init ==
    /\ links \in SUBSET (Node \X Node)
    /\ child \in Node
    /\ parent \in Node
    /\ walk \in {"children", "parents"}
    /\ stack = {Origin}
    /\ visited = {}
    /\ answer = IF child = parent THEN "cycle" ELSE "searching"

(* Mutant: the visited set is never consulted. *)
PopUnvisited(n) ==
    /\ answer = "searching"
    /\ n \in stack
    /\ answer' = IF n = Goal THEN "cycle" ELSE answer
    /\ visited' = visited \cup {n}
    /\ stack' = IF n = Goal THEN stack \ {n} ELSE (stack \ {n}) \cup Neighbours(n)
    /\ UNCHANGED <<links, child, parent, walk>>

(* One iteration of the loop. *)
Pop(n) ==
    /\ answer = "searching"
    /\ n \in stack
    /\ answer' = IF n = Goal THEN "cycle" ELSE answer
    /\ IF n = Goal \/ n \in visited
       THEN stack' = stack \ {n} /\ UNCHANGED visited
       ELSE /\ visited' = visited \cup {n}
            /\ stack' = (stack \ {n}) \cup Neighbours(n)
    /\ UNCHANGED <<links, child, parent, walk>>

(* The stack is empty. *)
Return ==
    /\ answer = "searching"
    /\ stack = {}
    /\ answer' = "free"
    /\ UNCHANGED <<links, child, parent, walk, stack, visited>>

Next == (\E n \in Node : Pop(n)) \/ Return

Spec == Init /\ [][Next]_vars

(* The loop is a plain synchronous loop: it keeps running. *)
FairSpec == Spec /\ WF_vars(Next)

-----------------------------------------------------------------------------
(* Type correctness of the loop's variables. *)
TypeOK ==
    /\ links \subseteq Node \X Node
    /\ child \in Node
    /\ parent \in Node
    /\ walk \in {"children", "parents"}
    /\ stack \subseteq Node
    /\ visited \subseteq Node
    /\ answer \in {"searching", "cycle", "free"}

(* Both searches decide reachability, on cyclic input as well: they report *)
(* a cycle exactly when the child already reaches the proposed parent.     *)
AnswerCorrect ==
    /\ answer = "cycle" => Reaches(Node, links, child, parent)
    /\ answer = "free" => ~Reaches(Node, links, child, parent)

(* The visited set makes the loop end, even on a graph with a cycle. *)
Terminates == <>(answer # "searching")

(* What the loop still has to do: a node that is not visited yet may put   *)
(* every node on the stack, one that is comes off it for good.  The factor *)
(* allows for |Node| entries per visit, as many as the code's list gets,   *)
(* where the stack here holds a node once.                                 *)
Remaining == (Cardinality(Node) + 1) * Cardinality(Node \ visited) + Cardinality(stack)

(* Each iteration leaves less to do, so the loop cannot run in circles.    *)
SearchShrinks == [][answer' = "searching" => Remaining' < Remaining]_vars

(* The loop ends, and the bound says after how many iterations at most.    *)
SearchEnds == Terminates /\ SearchShrinks
=============================================================================
