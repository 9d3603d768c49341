--------------------------- MODULE TaskLifecycle ---------------------------
(* What the orchestration engine promises about a kanban task, whatever    *)
(* the database, the claims and the dependency graph look like: which      *)
(* status changes exist, and which of them happen together in one          *)
(* transaction.  TaskStore implements this specification.                  *)
EXTENDS Naturals

CONSTANT Task           \* the task ids that may ever be created

VARIABLE status         \* [Task -> TaskStatus \cup {"absent"}]

(* The statuses of orchestration/models.py; DANGLING is declared there but  *)
(* no edge of the transition table leads to it.                            *)
TaskStatus == {"todo", "ready", "running", "dangling", "blocked",
               "completed", "failed", "cancelled", "archived"}

(* The edges of the state machine, as <<from, to>>. *)
VALID_TRANSITIONS ==
    {<<"todo", "ready">>,      <<"todo", "cancelled">>,
     <<"ready", "running">>,   <<"ready", "todo">>,
     <<"ready", "blocked">>,   <<"ready", "cancelled">>,
     <<"running", "completed">>, <<"running", "failed">>,
     <<"running", "blocked">>, <<"running", "cancelled">>,
     <<"blocked", "running">>, <<"blocked", "ready">>,
     <<"blocked", "failed">>,  <<"blocked", "cancelled">>,
     <<"completed", "archived">>,
     <<"failed", "ready">>,    <<"failed", "archived">>,
     <<"failed", "cancelled">>,
     <<"cancelled", "archived">>}

(* The two statuses a row may be inserted with. *)
InitialStatus == {"todo", "ready"}

(* Dependency resolution switches a task between waiting and ready. *)
Flip(s) == IF s = "todo" THEN "ready" ELSE IF s = "ready" THEN "todo" ELSE s

-----------------------------------------------------------------------------
Init == status = [t \in Task |-> "absent"]

Create(t) ==
    /\ status[t] = "absent"
    /\ \E s \in InitialStatus : status' = [status EXCEPT ![t] = s]

(* One task moves along an edge; when it completes, the same transaction   *)
(* re-resolves some other tasks, its children.                             *)
Move(t) ==
    \E new \in TaskStatus :
        /\ <<status[t], new>> \in VALID_TRANSITIONS
        /\ \E D \in SUBSET (Task \ {t}) :
            /\ new # "completed" => D = {}
            /\ status' = [x \in Task |->
                            IF x = t THEN new
                            ELSE IF x \in D THEN Flip(status[x]) ELSE status[x]]

(* A dependency edge was added or removed. *)
Resolve(t) == status' = [status EXCEPT ![t] = Flip(@)]

(* The TTL release fails every expired running or blocked task at once. *)
Expire(S) ==
    /\ \A t \in S : status[t] \in {"running", "blocked"}
    /\ status' = [t \in Task |-> IF t \in S THEN "failed" ELSE status[t]]

(* Retry promotion makes every retryable failed task ready at once. *)
Retry(S) ==
    /\ \A t \in S : status[t] = "failed"
    /\ status' = [t \in Task |-> IF t \in S THEN "ready" ELSE status[t]]

Next ==
    \/ \E S \in SUBSET Task : Expire(S) \/ Retry(S)
    \/ \E t \in Task : Create(t) \/ Resolve(t) \/ Move(t)

Spec == Init /\ [][Next]_status
=============================================================================
