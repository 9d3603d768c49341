------------------------- MODULE CycleSearchProofs -------------------------
(* The two cycle searches are correct on every graph. *)
EXTENDS CycleSearch, FiniteSetTheorems, TLAPS

(* A node on the stack or visited lies on the walk from the origin. *)
OnWalk(n) == IF walk = "children" THEN Reaches(Node, links, child, n)
                                  ELSE Reaches(Node, links, n, parent)

(* While searching: everything seen lies on the walk, visited nodes have   *)
(* been expanded, the goal was not among them.                             *)
SearchInv ==
    /\ TypeOK
    /\ \A n \in stack \cup visited : OnWalk(n)
    /\ answer \in {"searching", "free"} =>
        /\ Origin \in stack \cup visited
        /\ Goal \notin visited
        /\ \A n \in visited : Neighbours(n) \subseteq stack \cup visited
    /\ answer = "free" => stack = {}
    /\ answer = "cycle" => Reaches(Node, links, child, parent)

(* Every node reaches itself. *)
LEMMA ReachesRefl ==
    ASSUME NEW N, NEW L, NEW a \in N
    PROVE  Reaches(N, L, a, a)
BY DEF Reaches

(* Reachability extends along an edge at its far end. *)
LEMMA ReachesStep ==
    ASSUME NEW N, NEW L, NEW a \in N, NEW b \in N, NEW c \in N,
           Reaches(N, L, a, b), <<b, c>> \in L
    PROVE  Reaches(N, L, a, c)
<1> SUFFICES ASSUME NEW S \in SUBSET N, a \in S, ClosedUnderChildren(S, L)
             PROVE  c \in S
    BY DEF Reaches
<1>1. b \in S
    BY DEF Reaches
<1>2. <<b, c>>[1] = b /\ <<b, c>>[2] = c
    OBVIOUS
<1> QED
    BY <1>1, <1>2 DEF ClosedUnderChildren

(* Reachability extends along an edge at its near end. *)
LEMMA ReachesFront ==
    ASSUME NEW N, NEW L, NEW a \in N, NEW b \in N, NEW c \in N,
           Reaches(N, L, b, c), <<a, b>> \in L
    PROVE  Reaches(N, L, a, c)
<1> SUFFICES ASSUME NEW S \in SUBSET N, a \in S, ClosedUnderChildren(S, L)
             PROVE  c \in S
    BY DEF Reaches
<1>1. <<a, b>>[1] = a /\ <<a, b>>[2] = b
    OBVIOUS
<1>2. b \in S
    BY <1>1 DEF ClosedUnderChildren
<1> QED
    BY <1>2 DEF Reaches

(* The neighbours of a node on the walk are on the walk. *)
LEMMA WalkStep ==
    ASSUME TypeOK, NEW n \in Node, OnWalk(n), NEW m \in Neighbours(n)
    PROVE  OnWalk(m)
<1>1. m \in Node
    BY DEF Neighbours
<1>2. CASE walk = "children"
    <2>1. <<n, m>> \in links /\ Reaches(Node, links, child, n)
        BY <1>2 DEF Neighbours, OnWalk
    <2> QED
        BY <1>1, <1>2, <2>1, ReachesStep DEF OnWalk, TypeOK
<1>3. CASE walk = "parents"
    <2>1. <<m, n>> \in links /\ Reaches(Node, links, n, parent)
        BY <1>3 DEF Neighbours, OnWalk
    <2> QED
        BY <1>1, <1>3, <2>1, ReachesFront DEF OnWalk, TypeOK
<1> QED
    BY <1>2, <1>3 DEF TypeOK

(* A search that found nothing has built the separating set. *)
LEMMA FreeIsFree ==
    ASSUME SearchInv, answer = "free"
    PROVE  ~Reaches(Node, links, child, parent)
<1> USE DEF SearchInv, TypeOK
<1>1. /\ Origin \in visited
      /\ Goal \notin visited
      /\ \A n \in visited : Neighbours(n) \subseteq visited
    OBVIOUS
<1>2. CASE walk = "children"
    <2>1. child \in visited /\ parent \notin visited
        BY <1>1, <1>2 DEF Origin, Goal
    <2>2. ClosedUnderChildren(visited, links)
        <3> SUFFICES ASSUME NEW e \in links, e[1] \in visited PROVE e[2] \in visited
            BY DEF ClosedUnderChildren
        <3>1. e[2] \in Node /\ <<e[1], e[2]>> \in links
            OBVIOUS
        <3>2. e[2] \in Neighbours(e[1])
            BY <1>2, <3>1 DEF Neighbours
        <3> QED
            BY <1>1, <3>2
    <2> QED
        BY <2>1, <2>2 DEF Reaches
<1>3. CASE walk = "parents"
    <2> DEFINE S == Node \ visited
    <2>1. child \in S /\ parent \notin S
        BY <1>1, <1>3 DEF Origin, Goal
    <2>2. ClosedUnderChildren(S, links)
        <3> SUFFICES ASSUME NEW e \in links, e[1] \in S, e[2] \notin S PROVE FALSE
            BY DEF ClosedUnderChildren
        <3>1. e[1] \in Node /\ e[2] \in visited /\ <<e[1], e[2]>> \in links
            OBVIOUS
        <3>2. e[1] \in Neighbours(e[2])
            BY <1>3, <3>1 DEF Neighbours
        <3> QED
            BY <1>1, <3>1, <3>2
    <2> QED
        BY <2>1, <2>2 DEF Reaches
<1> QED
    BY <1>2, <1>3

LEMMA SearchInit == Init => SearchInv
<1> SUFFICES ASSUME Init PROVE SearchInv
    OBVIOUS
<1>1. TypeOK
    BY DEF Init, TypeOK, Origin
<1>2. OnWalk(Origin)
    BY <1>1, ReachesRefl DEF OnWalk, Origin, TypeOK
<1>3. answer = "cycle" => Reaches(Node, links, child, parent)
    BY <1>1, ReachesRefl DEF Init, TypeOK
<1> QED
    BY <1>1, <1>2, <1>3 DEF SearchInv, Init

LEMMA SearchStep == SearchInv /\ [Next]_vars => SearchInv'
<1> SUFFICES ASSUME SearchInv, [Next]_vars PROVE SearchInv'
    OBVIOUS
<1>1. ASSUME NEW n \in Node, Pop(n) PROVE SearchInv'
    <2>1. TypeOK'
        BY <1>1 DEF Pop, SearchInv, TypeOK, Neighbours
    <2>2. Origin' = Origin /\ Goal' = Goal
        BY <1>1 DEF Pop, Origin, Goal
    <2>3. \A m : Neighbours(m)' = Neighbours(m) /\ (OnWalk(m)' <=> OnWalk(m))
        BY <1>1 DEF Pop, Neighbours, OnWalk
    <2>4. \A m \in (stack \cup visited)' : OnWalk(m)
        <3>1. \A m \in Neighbours(n) : OnWalk(m)
            BY <1>1, WalkStep DEF SearchInv, Pop
        <3> QED
            BY <1>1, <3>1 DEF SearchInv, Pop
    <2>5. CASE n = Goal
        <3>1. OnWalk(Goal)
            BY <1>1, <2>5 DEF SearchInv, Pop
        <3>2. Reaches(Node, links, child, parent)
            BY <3>1 DEF OnWalk, Goal, SearchInv, TypeOK
        <3>3. answer' = "cycle" /\ links' = links /\ child' = child /\ parent' = parent
            BY <1>1, <2>5 DEF Pop
        <3> QED
            BY <2>1, <2>3, <2>4, <3>2, <3>3 DEF SearchInv
    <2>6. CASE n # Goal
        <3>1. answer' = "searching" /\ answer = "searching"
            BY <1>1, <2>6 DEF Pop
        <3>2. (stack \cup visited) \subseteq (stack \cup visited)'
            BY <1>1, <2>6 DEF Pop
        <3>3. Goal \notin visited'
            BY <1>1, <2>6, <3>1 DEF Pop, SearchInv
        <3>4. \A m \in visited' : Neighbours(m) \subseteq (stack \cup visited)'
            BY <1>1, <2>6, <3>1, <3>2 DEF Pop, SearchInv
        <3> QED
            BY <2>1, <2>2, <2>3, <2>4, <3>1, <3>2, <3>3, <3>4 DEF SearchInv
    <2> QED
        BY <2>5, <2>6
<1>2. CASE Return
    BY <1>2 DEF Return, SearchInv, TypeOK, OnWalk, Origin, Goal, Neighbours
<1>3. CASE UNCHANGED vars
    BY <1>3 DEF vars, SearchInv, TypeOK, OnWalk, Origin, Goal, Neighbours
<1> QED
    BY <1>1, <1>2, <1>3 DEF Next

(* store._detect_cycle and dependency.detect_cycle answer "cycle" exactly  *)
(* when the child already reaches the proposed parent, for every graph,    *)
(* cyclic or not, finite or not, and every row order.                      *)
THEOREM SearchCorrect == Spec => []AnswerCorrect
<1>1. SearchInv => AnswerCorrect
    BY FreeIsFree DEF SearchInv, AnswerCorrect
<1> QED
    BY <1>1, SearchInit, SearchStep, PTL DEF Spec

(* One row of the product grows by N + 1, and the stack by N at most.      *)
LEMMA LessRemains ==
    ASSUME NEW N \in Nat, NEW u \in Nat, NEW k \in Nat, NEW m \in Nat, m <= N
    PROVE  (N + 1) * u + m < (N + 1) * (u + 1) + k
<1>1. (N + 1) * (u + 1) = (N + 1) * u + (N + 1)
    OBVIOUS
<1>2. (N + 1) * u \in Nat
    OBVIOUS
<1> QED
    BY <1>1, <1>2

(* What remains is a number, and every iteration that goes on searching    *)
(* makes it smaller: on a finite graph, cyclic or not, a cycle search ends *)
(* after |Node| * (|Node| + 1) + 2 iterations at most                      *)
(* (store._detect_cycle, dependency.detect_cycle).                         *)
THEOREM SearchIsBounded ==
    ASSUME IsFiniteSet(Node)
    PROVE  Spec => [](Remaining \in Nat) /\ SearchShrinks
<1> DEFINE N == Cardinality(Node)
           U(V) == Cardinality(Node \ V)
<1>0. \A S \in SUBSET Node : IsFiniteSet(S) /\ Cardinality(S) \in Nat /\ Cardinality(S) <= N
    BY FS_Subset, FS_CardinalityType
<1>n. N \in Nat
    BY <1>0
<1>1. TypeOK => Remaining \in Nat
    <2> SUFFICES ASSUME TypeOK PROVE Remaining \in Nat
        OBVIOUS
    <2>1. U(visited) \in Nat /\ Cardinality(stack) \in Nat
        BY <1>0 DEF TypeOK
    <2> HIDE DEF N, U
    <2>2. (N + 1) * U(visited) \in Nat
        BY <1>n, <2>1
    <2> QED
        BY <2>1, <2>2 DEF Remaining, N, U
<1>2. ASSUME TypeOK, TypeOK', NEW n \in Node, Pop(n), answer' = "searching"
      PROVE  Remaining' < Remaining
    <2>1. n \in stack /\ n # Goal
        BY <1>2 DEF Pop
    <2>2. CASE n \in visited
        <3>1. stack' = stack \ {n} /\ visited' = visited
            BY <1>2, <2>1, <2>2 DEF Pop
        <3>2. Cardinality(stack') = Cardinality(stack) - 1
            BY <1>0, <1>2, <2>1, <3>1, FS_RemoveElement DEF TypeOK
        <3>3. Cardinality(stack) \in Nat /\ Remaining \in Nat
            BY <1>0, <1>1, <1>2 DEF TypeOK
        <3>4. U(visited) \in Nat
            BY <1>0
        <3>5. Remaining = (N + 1) * U(visited) + Cardinality(stack)
              /\ Remaining' = (N + 1) * U(visited) + Cardinality(stack')
            BY <3>1 DEF Remaining
        <3> HIDE DEF N, U
        <3>6. (N + 1) * U(visited) \in Nat
            BY <1>n, <3>4
        <3> QED
            BY <3>2, <3>3, <3>5, <3>6
    <2>3. CASE n \notin visited
        <3>1. visited' = visited \cup {n}
            BY <1>2, <2>1, <2>3 DEF Pop
        <3>2. Node \ visited' = (Node \ visited) \ {n} /\ n \in Node \ visited
            BY <2>3, <3>1
        <3>3. U(visited') = U(visited) - 1 /\ U(visited') \in Nat /\ U(visited) \in Nat
            BY <1>0, <3>2, FS_RemoveElement
        <3>4. Cardinality(stack) \in Nat /\ Cardinality(stack') \in Nat
              /\ Cardinality(stack') <= N
            BY <1>0, <1>2 DEF TypeOK
        <3>5. Remaining = (N + 1) * U(visited) + Cardinality(stack)
              /\ Remaining' = (N + 1) * U(visited') + Cardinality(stack')
            BY DEF Remaining
        <3> HIDE DEF N, U
        <3>6. U(visited) = U(visited') + 1
            BY <3>3
        <3> QED
            BY <1>n, <3>3, <3>4, <3>5, <3>6, LessRemains
    <2> QED
        BY <2>2, <2>3
<1>3. TypeOK /\ TypeOK' /\ [Next]_vars
        => [answer' = "searching" => Remaining' < Remaining]_vars
    BY <1>2 DEF Next, Return
<1>4. SearchInv => TypeOK
    BY DEF SearchInv
<1> QED
    BY <1>1, <1>3, <1>4, SearchInit, SearchStep, PTL DEF Spec, SearchShrinks
=============================================================================
