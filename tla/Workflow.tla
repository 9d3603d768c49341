------------------------------ MODULE Workflow ------------------------------
(* workflow.validate_workflow, _detect_workflow_cycles, _topological_sort    *)
(* and apply_workflow, behind the route that creates a workflow: a submitted *)
(* graph is searched for cycles, sorted and put on the task board node by    *)
(* node.  Creating one of the tasks may raise.  What the board makes of the  *)
(* links and their conditions afterwards is TaskStore's.                     *)
EXTENDS Naturals, Sequences, SequencesExt, Dag

CONSTANTS
    NumNodes,       \* tasks of the definition, in the order it lists them
    Conditional     \* edges <<parent, child>> the definition gives a condition

ASSUME WorkflowAssumption == NumNodes \in Nat \ {0}

Node == 1..NumNodes
Elsewhere == 0          \* a name that is not the id of a task

VARIABLES
    deps,           \* depends_on: [Node -> SUBSET (Node \cup {Elsewhere})]
    phase,          \* what handle_create_workflow is doing
    colour,         \* colours of the depth-first search
    path,           \* the calls of dfs that are open, the latest first
    cycleFound,     \* cycle_found is not empty
    inDegree,       \* in_degree of the sort
    queue,          \* queue of the sort
    sorted,         \* sorted_ids, then the nodes still to be created
    linked,         \* created: the links each created task was given
    complained,     \* nodes that errors[] names
    refused         \* nodes whose create_task raised

searchVars == <<colour, path, cycleFound>>
sortVars == <<inDegree, queue, sorted>>
applyVars == <<linked, complained, refused>>
workflowVars == <<deps, phase, searchVars, sortVars, applyVars>>

(* The members of S in the order of the definition. *)
InOrder(S) ==
    CHOOSE s \in [1..Cardinality(S) -> S] : \A i, j \in DOMAIN s : i < j => s[i] < s[j]

WorkflowInit ==
    /\ deps = [n \in Node |-> {}]
    /\ phase = "idle"
    /\ colour = [n \in Node |-> "white"] /\ path = <<>> /\ cycleFound = FALSE
    /\ inDegree = [n \in Node |-> 0] /\ queue = <<>> /\ sorted = <<>>
    /\ linked = <<>> /\ complained = {} /\ refused = {}

(* The request is parsed and its references looked up: an unknown name is an *)
(* error, and then no cycle is searched for.                                 *)
Submit(d) ==
    /\ phase = "idle"
    /\ deps' = d
    /\ phase' = IF \E n \in Node : Elsewhere \in d[n] THEN "rejected" ELSE "search"
    /\ UNCHANGED <<searchVars, sortVars, applyVars>>

-----------------------------------------------------------------------------
(* for t in tasks: if color[t.id] == WHITE: dfs(t.id)                        *)
Start ==
    /\ phase = "search" /\ path = <<>>
    /\ \E n \in Node : colour[n] = "white"
    /\ LET n == CHOOSE n \in Node : colour[n] = "white"
                                    /\ \A x \in 1..(n - 1) : colour[x] # "white" IN
       /\ colour' = [colour EXCEPT ![n] = "grey"]
       /\ path' = <<n>>
    /\ UNCHANGED <<deps, phase, cycleFound, sortVars, applyVars>>

(* The first dependency that is still white is searched next.                *)
Descend ==
    /\ phase = "search" /\ path # <<>>
    /\ LET white == {m \in deps[Head(path)] : colour[m] = "white"} IN
       /\ white # {}
       /\ path' = <<InOrder(white)[1]>> \o path
       /\ colour' = [colour EXCEPT ![InOrder(white)[1]] = "grey"]
    /\ UNCHANGED <<deps, phase, cycleFound, sortVars, applyVars>>

(* All dependencies were seen; a grey one closes a cycle.                    *)
Ascend ==
    /\ phase = "search" /\ path # <<>>
    /\ LET n == Head(path) IN
       /\ \A m \in deps[n] : colour[m] # "white"
       /\ cycleFound' = (cycleFound \/ \E m \in deps[n] : colour[m] = "grey")
       /\ colour' = [colour EXCEPT ![n] = "black"]
       /\ path' = Tail(path)
    /\ UNCHANGED <<deps, phase, sortVars, applyVars>>

(* The errors of the search refuse the workflow; without any, the in-degrees *)
(* and the first queue are computed.                                         *)
Validated ==
    /\ phase = "search" /\ path = <<>>
    /\ \A n \in Node : colour[n] # "white"
    /\ IF cycleFound
       THEN phase' = "rejected" /\ UNCHANGED sortVars
       ELSE /\ phase' = "sort"
            /\ inDegree' = [n \in Node |-> Cardinality(deps[n])]
            /\ queue' = InOrder({n \in Node : deps[n] = {}})
            /\ UNCHANGED sorted
    /\ UNCHANGED <<deps, searchVars, applyVars>>

-----------------------------------------------------------------------------
(* Mutant: a node is queued as soon as one of its dependencies is out. *)
SortNodeEager ==
    /\ phase = "sort" /\ queue # <<>>
    /\ LET n == Head(queue)
           below == {m \in Node : n \in deps[m] /\ inDegree[m] > 0}
       IN  /\ sorted' = Append(sorted, n)
           /\ inDegree' = [m \in Node |-> IF m \in below THEN 0 ELSE inDegree[m]]
           /\ queue' = Tail(queue) \o InOrder(below)
    /\ UNCHANGED <<deps, phase, searchVars, applyVars>>

(* queue.pop(0): the nodes below lose a degree and are queued at zero.       *)
SortNode ==
    /\ phase = "sort" /\ queue # <<>>
    /\ LET n == Head(queue)
           below == {m \in Node : n \in deps[m]}
       IN  /\ sorted' = Append(sorted, n)
           /\ inDegree' = [m \in Node |-> IF m \in below THEN inDegree[m] - 1
                                          ELSE inDegree[m]]
           /\ queue' = Tail(queue) \o InOrder({m \in below : inDegree[m] = 1})
    /\ UNCHANGED <<deps, phase, searchVars, applyVars>>

(* What the queue never reached is appended in the order of the definition.  *)
Sorted ==
    /\ phase = "sort" /\ queue = <<>>
    /\ phase' = "apply"
    /\ sorted' = sorted \o InOrder(Node \ ToSet(sorted))
    /\ UNCHANGED <<deps, searchVars, inDegree, queue, applyVars>>

(* The parents[] of create_task for a node whose created parents are P: one  *)
(* link each, with the condition of the edge where it has one.               *)
Links(n, P) ==
    {[parent |-> p, condition |-> <<p, n>> \in Conditional] : p \in P}

(* One round of apply_workflow's loop.  A parent that was not created is     *)
(* noted as an error and left out; the task is created all the same.         *)
CreateNode(fails) ==
    /\ phase = "apply" /\ sorted # <<>>
    /\ LET n == Head(sorted)
           parents == deps[n] \cap DOMAIN linked
       IN  /\ complained' = IF fails \/ parents # deps[n] THEN complained \cup {n}
                            ELSE complained
           /\ IF fails
              THEN refused' = refused \cup {n} /\ UNCHANGED linked
              ELSE /\ linked' = [m \in DOMAIN linked \cup {n} |->
                                    IF m = n THEN Links(n, parents) ELSE linked[m]]
                   /\ UNCHANGED refused
    /\ sorted' = Tail(sorted)
    /\ UNCHANGED <<deps, phase, searchVars, inDegree, queue>>

(* The response: the ids that were created, and the errors.                  *)
Respond ==
    /\ phase = "apply" /\ sorted = <<>>
    /\ phase' = "answered"
    /\ UNCHANGED <<deps, searchVars, sortVars, applyVars>>

WorkflowNext ==
    \/ \E d \in [Node -> SUBSET (Node \cup {Elsewhere})] : Submit(d)
    \/ Start \/ Descend \/ Ascend \/ Validated
    \/ SortNode \/ Sorted
    \/ \E f \in BOOLEAN : CreateNode(f)
    \/ Respond

-----------------------------------------------------------------------------
(* The depth-first search of _detect_workflow_cycles is right: a definition  *)
(* is refused for a cycle exactly when its graph has one.                    *)
CyclesRefused ==
    phase \in {"sort", "apply", "answered"} \/ (phase = "rejected" /\ cycleFound) =>
        (cycleFound <=> ~AcyclicLinks(Node, {e \in Node \X Node : e[1] \in deps[e[2]]}))

(* The parents a task was linked to. *)
ParentsOf(n) == {l.parent : l \in linked[n]}

(* "topological ordering issue": a parent is missing when its child is       *)
(* created only if the parent's own creation failed.                         *)
ParentsFirst ==
    \A n \in DOMAIN linked : deps[n] \subseteq ParentsOf(n) \cup refused

(* A task the errors do not name is on the board with every link of its      *)
(* definition and the condition of each: what was refused or left out        *)
(* anywhere above it never thins it out silently.                            *)
SilenceMeansWhole ==
    phase = "answered" =>
        \A n \in Node \ complained :
            n \in DOMAIN linked /\ linked[n] = Links(n, deps[n])

(* The nodes the apply loop has been through. *)
Dealt == DOMAIN linked \cup refused

(* The response answers for every task of the definition, once: its id is    *)
(* among the created ones or its creation raised, never neither or both.     *)
EveryNodeOnce ==
    phase = "answered" => Dealt = Node /\ DOMAIN linked \cap refused = {}

(* A definition that is accepted is put on the board completely and in its   *)
(* own order.                                                                *)
WorkflowSound == CyclesRefused /\ ParentsFirst /\ SilenceMeansWhole /\ EveryNodeOnce

(* What a request has still to do: every node is called and left once by the *)
(* search, is sorted once and created once.                                  *)
Coloured(c) == {n \in Node : colour[n] = c}
WorkLeft ==
    CASE phase = "idle" -> 4 * NumNodes + 4
      [] phase = "search" -> 2 * NumNodes + 3 + 2 * Cardinality(Coloured("white"))
                                              + Cardinality(Coloured("grey"))
      [] phase = "sort" -> NumNodes + 2 + Cardinality(Node \ ToSet(sorted))
      [] phase = "apply" -> 1 + Cardinality(Node \ Dealt)
      [] phase \in {"answered", "rejected"} -> 0

(* No graph, cyclic or not, keeps the recursive search, the queue of the     *)
(* sort or the apply loop going: every step leaves less to do.               *)
WorkflowShrinks == [][WorkLeft' < WorkLeft]_workflowVars
=============================================================================
