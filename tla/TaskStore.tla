----------------------------- MODULE TaskStore -----------------------------
(* The kanban task store of the orchestration engine (orchestration/       *)
(* store.py): tasks, dependency links, claims with a TTL, run records and  *)
(* retries.  Every store method is one IMMEDIATE transaction under one     *)
(* lock, so every method is one action.  Next lets any caller (HTTP route, *)
(* dispatcher, WebSocket handler, scanner) call any method with any        *)
(* arguments at any time: what holds here holds for all of them.           *)
(*                                                                         *)
(* Time is relative.  ttl[t] stands for claim_expires - now and backoff[t] *)
(* for next_retry_at > now, so the clock needs no bound.                   *)
EXTENDS Integers, Dag

CONSTANTS
    Task,               \* ids a created task may get
    Lock,               \* claim lock strings "worker_id:pid"
    Result,             \* non-empty result strings, also used as conditions
    RunId,              \* ids of run records; bounds how many are inserted
    NULL,               \* SQL NULL / Python None
    DefaultClaimTTL,    \* DEFAULT_CLAIM_TTL, in clock ticks
    ClaimTTLs,          \* the ttl arguments callers pass to claim_task
    HeartbeatLocks,     \* the claim_lock arguments callers pass to heartbeat
    RetryLimits,        \* the max_retries arguments of create_task
    DefaultMaxRetries,  \* DEFAULT_MAX_RETRIES
    Managed             \* tasks the dispatcher's tenant filter selects

ASSUME NullAssumption ==
    NULL \notin Lock \cup Result \cup RunId \cup Task \cup Int

ASSUME NumberAssumption ==
    /\ DefaultClaimTTL \in Nat \ {0}
    /\ ClaimTTLs \subseteq Int
    /\ RetryLimits \subseteq Int
    /\ DefaultMaxRetries \in Nat
    /\ HeartbeatLocks \subseteq Lock \cup {NULL}
    /\ Managed \subseteq Task

VARIABLES
    status,     \* [Task -> TaskStatus \cup {"absent"}]
    lock,       \* claim_lock
    ttl,        \* claim_expires relative to now; -1 is "in the past"
    run,        \* current_run_id
    fails,      \* consecutive_failures
    maxRetries, \* max_retries
    result,     \* result of the completed task
    backoff,    \* next_retry_at is set and still ahead
    links,      \* task_links as a set of <<parent, child>>
    cond,       \* condition of a link
    runs,       \* task_runs
    bypass      \* history: tasks made ready without dependency resolution

taskVars == <<lock, ttl, run, fails, maxRetries, result, backoff>>
vars == <<status, taskVars, links, cond, runs, bypass>>

Lifecycle == INSTANCE TaskLifecycle WITH Task <- Task, status <- status

TaskStatus == Lifecycle!TaskStatus
VALID_TRANSITIONS == Lifecycle!VALID_TRANSITIONS

(* TaskRunStatus values the store writes; "free" is an id not yet used. *)
EndedRun == {"done", "failed", "timed_out"}
RunStatus == {"running"} \cup EndedRun

RunRecord == [task : Task \cup {NULL}, status : RunStatus \cup {"free"},
              lock : Lock \cup {NULL}]

Exists(t) == status[t] # "absent"
FreeRuns == {r \in RunId : runs[r].status = "free"}

-----------------------------------------------------------------------------
(* Dependency graph *)

Parents(t) == {p \in Task : <<p, t>> \in links}
Children(t) == {c \in Task : <<t, c>> \in links}

(* Mutant: only a direct back edge counts as a cycle. *)
DetectDirectCycle(child, parent) == child = parent \/ <<child, parent>> \in links

(* Would the edge parent -> child close a cycle?  The depth-first search   *)
(* itself is the module CycleSearch, which is shown to compute this.       *)
DetectCycle(child, parent) == Reaches(Task, links, child, parent)

(* Mutant: an archived parent no longer counts as done. *)
SatisfiedByCompletedOnly(t, st, rs, L, cd) ==
    \A p \in Task : <<p, t>> \in L =>
        /\ st[p] = "completed"
        /\ cd[<<p, t>>] # NULL => rs[p] = cd[<<p, t>>]

(* The test of _resolve_dependencies, over given tables. *)
Satisfied(t, st, rs, L, cd) ==
    \A p \in Task : <<p, t>> \in L =>
        /\ st[p] \in {"completed", "archived"}
        /\ cd[<<p, t>>] # NULL => rs[p] = cd[<<p, t>>]

(* Mutant: promotes without looking at the child's own status. *)
ResolvedWhateverStatus(t, st, rs, L, cd) ==
    IF Satisfied(t, st, rs, L, cd) THEN "ready"
    ELSE IF st[t] = "ready" THEN "todo" ELSE st[t]

(* The status _resolve_dependencies leaves t with. *)
ResolvedStatus(t, st, rs, L, cd) ==
    IF Satisfied(t, st, rs, L, cd)
    THEN IF st[t] = "todo" THEN "ready" ELSE st[t]
    ELSE IF st[t] = "ready" THEN "todo" ELSE st[t]

(* bypass after tasks F were made ready by something other than dependency *)
(* resolution; a task that went back to todo is gated again.               *)
Gate(F) == bypass' = {t \in bypass \cup F : status'[t] # "todo"}

-----------------------------------------------------------------------------
Init ==
    /\ status = [t \in Task |-> "absent"]
    /\ lock = [t \in Task |-> NULL]
    /\ ttl = [t \in Task |-> NULL]
    /\ run = [t \in Task |-> NULL]
    /\ fails = [t \in Task |-> 0]
    /\ maxRetries = [t \in Task |-> NULL]
    /\ result = [t \in Task |-> NULL]
    /\ backoff = [t \in Task |-> FALSE]
    /\ links = {}
    /\ cond = [e \in Task \X Task |-> NULL]
    /\ runs = [r \in RunId |-> [task |-> NULL, status |-> "free", lock |-> NULL]]
    /\ bypass = {}

(* Mutant: the parents are not looked up. *)
CreateTaskUnchecked(t, P, c, m) ==
    /\ ~Exists(t)
    /\ \A p \in P : ~DetectCycle(t, p)
    /\ status' = [status EXCEPT ![t] = IF P = {} THEN "ready" ELSE "todo"]
    /\ links' = links \cup {<<p, t>> : p \in P}
    /\ cond' = [e \in Task \X Task |->
                  IF e[2] = t /\ e[1] \in P THEN c[e[1]] ELSE cond[e]]
    /\ maxRetries' = [maxRetries EXCEPT ![t] = m]
    /\ UNCHANGED <<lock, ttl, run, fails, result, backoff, runs, bypass>>

(* create_task with parents P, conditions c and max_retries m.  The new    *)
(* task waits in todo when it has parents, even if they are all done: no   *)
(* resolution follows the insert.                                          *)
CreateTask(t, P, c, m) ==
    /\ ~Exists(t)
    /\ \A p \in P : Exists(p) /\ ~DetectCycle(t, p)
    /\ status' = [status EXCEPT ![t] = IF P = {} THEN "ready" ELSE "todo"]
    /\ links' = links \cup {<<p, t>> : p \in P}
    /\ cond' = [e \in Task \X Task |->
                  IF e[2] = t /\ e[1] \in P THEN c[e[1]] ELSE cond[e]]
    /\ maxRetries' = [maxRetries EXCEPT ![t] = m]
    /\ UNCHANGED <<lock, ttl, run, fails, result, backoff, runs, bypass>>

(* A failed -> ready request dies on the missing TaskEventKind.RETRIED and *)
(* is rolled back.                                                         *)
RaisesAttributeError(old, new) == old = "failed" /\ new = "ready"

MaxRetriesOf(t) == IF maxRetries[t] = NULL THEN DefaultMaxRetries ELSE maxRetries[t]

(* Mutants: the run gets the task's status word; the run is not ended. *)
EndRunWithTaskStatus(r, s) ==
    IF r = NULL THEN runs
    ELSE [runs EXCEPT ![r].status = IF s = "done" THEN "completed" ELSE s]
EndRunForgotten(r, s) == runs

EndRun(r, s) ==
    IF r = NULL THEN runs ELSE [runs EXCEPT ![r].status = s]

(* update_task_status(t, new, claim_lock = cl, result = res). *)
UpdateTaskStatus(t, new, cl, res) ==
    LET old == status[t]
        st == [status EXCEPT ![t] = new]
        n == fails[t] + 1
        rs == IF new = "completed" /\ res # NULL
              THEN [result EXCEPT ![t] = res] ELSE result
    IN  /\ <<old, new>> \in VALID_TRANSITIONS
        /\ old = "running" /\ cl # NULL => lock[t] = cl
        /\ ~RaisesAttributeError(old, new)
        /\ status' = [x \in Task |->
                        IF new = "completed" /\ x \in Children(t)
                        THEN ResolvedStatus(x, st, rs, links, cond) ELSE st[x]]
        /\ result' = rs
        /\ runs' = CASE new = "completed" -> EndRun(run[t], "done")
                     [] new = "failed"    -> EndRun(run[t], "failed")
                     [] OTHER             -> runs
        /\ fails' = CASE new = "completed" -> [fails EXCEPT ![t] = 0]
                      [] new = "failed"    -> [fails EXCEPT ![t] = n]
                      [] OTHER             -> fails
        /\ backoff' = IF new = "failed" /\ maxRetries[t] # NULL /\ n <= maxRetries[t]
                      THEN [backoff EXCEPT ![t] = TRUE] ELSE backoff
        /\ Gate(IF new = "ready" THEN {t} ELSE {})
        /\ UNCHANGED <<lock, ttl, run, maxRetries, links, cond>>

(* Mutant: current_run_id is not stored. *)
ClaimTaskWithoutRun(t, l, k) ==
    /\ status[t] = "ready"
    /\ lock[t] = NULL \/ (ttl[t] # NULL /\ ttl[t] < 0)
    /\ \E r \in FreeRuns :
        runs' = [runs EXCEPT ![r] = [task |-> t, status |-> "running", lock |-> l]]
    /\ status' = [status EXCEPT ![t] = "running"]
    /\ lock' = [lock EXCEPT ![t] = l]
    /\ ttl' = [ttl EXCEPT ![t] = k]
    /\ UNCHANGED <<run, fails, maxRetries, result, backoff, links, cond, bypass>>

(* claim_task: compare-and-set on a ready task, then a new run record. *)
ClaimTask(t, l, k) ==
    /\ status[t] = "ready"
    /\ lock[t] = NULL \/ (ttl[t] # NULL /\ ttl[t] < 0)
    /\ \E r \in FreeRuns :
        /\ runs' = [runs EXCEPT ![r] = [task |-> t, status |-> "running", lock |-> l]]
        /\ run' = [run EXCEPT ![t] = r]
    /\ status' = [status EXCEPT ![t] = "running"]
    /\ lock' = [lock EXCEPT ![t] = l]
    /\ ttl' = [ttl EXCEPT ![t] = k]
    /\ UNCHANGED <<fails, maxRetries, result, backoff, links, cond, bypass>>

(* heartbeat: only the lock is compared, and None matches an absent lock. *)
Heartbeat(t, l) ==
    /\ Exists(t)
    /\ lock[t] = l
    /\ ttl' = [ttl EXCEPT ![t] = DefaultClaimTTL]
    /\ UNCHANGED <<status, lock, run, fails, maxRetries, result, backoff,
                   links, cond, runs, bypass>>

(* Mutants: the status is not looked at; blocked tasks are left alone. *)
ExpiredAnyStatus == {t \in Managed : ttl[t] # NULL /\ ttl[t] <= 0}
ExpiredRunningOnly == {t \in Managed : /\ status[t] = "running"
                                       /\ ttl[t] # NULL
                                       /\ ttl[t] <= 0}

Expired == {t \in Managed : /\ status[t] \in {"running", "blocked"}
                            /\ ttl[t] # NULL
                            /\ ttl[t] <= 0}

(* release_expired_claims: first step of a dispatcher cycle. *)
ReleaseExpiredClaims ==
    /\ Expired # {}
    /\ status' = [t \in Task |-> IF t \in Expired THEN "failed" ELSE status[t]]
    /\ fails' = [t \in Task |-> IF t \in Expired THEN fails[t] + 1 ELSE fails[t]]
    /\ lock' = [t \in Task |-> IF t \in Expired THEN NULL ELSE lock[t]]
    /\ ttl' = [t \in Task |-> IF t \in Expired THEN NULL ELSE ttl[t]]
    /\ run' = [t \in Task |-> IF t \in Expired THEN NULL ELSE run[t]]
    /\ runs' = [r \in RunId |-> IF \E t \in Expired : run[t] = r
                                THEN [runs[r] EXCEPT !.status = "timed_out"]
                                ELSE runs[r]]
    /\ UNCHANGED <<maxRetries, result, backoff, links, cond, bypass>>

(* Mutant: one retry too many. *)
RetryableOnceMore == {t \in Managed : /\ status[t] = "failed"
                                      /\ fails[t] > 0
                                      /\ fails[t] <= MaxRetriesOf(t) + 1}

Retryable == {t \in Managed : /\ status[t] = "failed"
                              /\ fails[t] > 0
                              /\ fails[t] <= MaxRetriesOf(t)}

(* promote_retryable_tasks: second step of a dispatcher cycle.  It looks   *)
(* neither at next_retry_at nor at the parents, and inserts a run that the *)
(* next claim will not use.                                                *)
PromoteRetryableTasks ==
    /\ Retryable # {}
    /\ \E f \in [Retryable -> FreeRuns] :
        /\ \A a, b \in Retryable : f[a] = f[b] => a = b
        /\ run' = [t \in Task |-> IF t \in Retryable THEN f[t] ELSE run[t]]
        /\ runs' = [r \in RunId |->
                      IF \E t \in Retryable : f[t] = r
                      THEN [task |-> CHOOSE t \in Retryable : f[t] = r,
                            status |-> "running", lock |-> NULL]
                      ELSE runs[r]]
    /\ status' = [t \in Task |-> IF t \in Retryable THEN "ready" ELSE status[t]]
    /\ lock' = [t \in Task |-> IF t \in Retryable THEN NULL ELSE lock[t]]
    /\ ttl' = [t \in Task |-> IF t \in Retryable THEN NULL ELSE ttl[t]]
    /\ Gate(Retryable)
    /\ UNCHANGED <<fails, maxRetries, result, backoff, links, cond>>

(* Mutant: the child is not resolved again. *)
AddDependencyUnresolved(t, p, c) ==
    /\ Exists(t) /\ Exists(p)
    /\ t # p
    /\ ~DetectCycle(t, p)
    /\ links' = links \cup {<<p, t>>}
    /\ cond' = [cond EXCEPT ![<<p, t>>] = c]
    /\ UNCHANGED <<status, taskVars, runs, bypass>>

(* add_dependency: insert the edge, or change the condition of an existing *)
(* one; either way the child is resolved again.                            *)
AddDependency(t, p, c) ==
    /\ Exists(t) /\ Exists(p)
    /\ t # p
    /\ ~DetectCycle(t, p)
    /\ links' = links \cup {<<p, t>>}
    /\ cond' = [cond EXCEPT ![<<p, t>>] = c]
    /\ status' = [status EXCEPT ![t] = ResolvedStatus(t, status, result, links', cond')]
    /\ Gate({})
    /\ UNCHANGED <<taskVars, runs>>

RemoveDependency(t, p) ==
    /\ <<p, t>> \in links
    /\ links' = links \ {<<p, t>>}
    /\ cond' = [cond EXCEPT ![<<p, t>>] = NULL]
    /\ status' = [status EXCEPT ![t] = ResolvedStatus(t, status, result, links', cond')]
    /\ Gate({})
    /\ UNCHANGED <<taskVars, runs>>

(* One second, or one tick, passes. *)
Tick ==
    /\ \E t \in Task : ttl[t] # NULL /\ ttl[t] >= 0
    /\ ttl' = [t \in Task |-> IF ttl[t] # NULL /\ ttl[t] >= 0 THEN ttl[t] - 1 ELSE ttl[t]]
    /\ UNCHANGED <<status, lock, run, fails, maxRetries, result, backoff,
                   links, cond, runs, bypass>>

(* next_retry_at of t is reached. *)
BackoffElapses(t) ==
    /\ backoff[t]
    /\ backoff' = [backoff EXCEPT ![t] = FALSE]
    /\ UNCHANGED <<status, lock, ttl, run, fails, maxRetries, result,
                   links, cond, runs, bypass>>

-----------------------------------------------------------------------------
Create == \E t \in Task, P \in SUBSET Task, m \in RetryLimits \cup {NULL} :
              \E c \in [P -> Result \cup {NULL}] : CreateTask(t, P, c, m)

Update == \E t \in Task, new \in TaskStatus,
             cl \in Lock \cup {NULL}, res \in Result \cup {NULL} :
              UpdateTaskStatus(t, new, cl, res)

Claim == \E t \in Task, l \in Lock, k \in ClaimTTLs : ClaimTask(t, l, k)

Beat == \E t \in Task, l \in HeartbeatLocks : Heartbeat(t, l)

Link == \E t, p \in Task, c \in Result \cup {NULL} : AddDependency(t, p, c)

Unlink == \E t, p \in Task : RemoveDependency(t, p)

Elapse == \E t \in Task : BackoffElapses(t)

Next ==
    \/ Create
    \/ Update
    \/ Claim
    \/ Beat
    \/ ReleaseExpiredClaims
    \/ PromoteRetryableTasks
    \/ Link
    \/ Unlink
    \/ Tick
    \/ Elapse

Spec == Init /\ [][Next]_vars

(* The dispatcher's first two steps run every poll interval and time       *)
(* passes; nobody else is obliged to do anything.                          *)
Fairness ==
    /\ WF_vars(ReleaseExpiredClaims)
    /\ WF_vars(PromoteRetryableTasks)
    /\ WF_vars(Tick)

FairSpec == Spec /\ Fairness

-----------------------------------------------------------------------------
(* Type correctness: every column of the tables holds a value the schema   *)
(* and the callers can produce.                                            *)
TypeOK ==
    /\ status \in [Task -> TaskStatus \cup {"absent"}]
    /\ lock \in [Task -> Lock \cup {NULL}]
    /\ ttl \in [Task -> Int \cup {NULL}]
    /\ run \in [Task -> RunId \cup {NULL}]
    /\ fails \in [Task -> Nat]
    /\ maxRetries \in [Task -> RetryLimits \cup {NULL}]
    /\ result \in [Task -> Result \cup {NULL}]
    /\ backoff \in [Task -> BOOLEAN]
    /\ links \subseteq Task \X Task
    /\ cond \in [Task \X Task -> Result \cup {NULL}]
    /\ runs \in [RunId -> RunRecord]
    /\ bypass \subseteq Task

(* Every claim has its record: a task that carries a claim lock has a      *)
(* current run of its own, opened under that same lock, and an expiry that *)
(* the TTL release can act on.  claim_task, heartbeat, release_expired_    *)
(* claims and promote_retryable_tasks all write a part of this.            *)
LockMatchesRun ==
    \A t \in Task : lock[t] # NULL =>
        /\ ttl[t] # NULL
        /\ run[t] # NULL
        /\ runs[run[t]].task = t
        /\ runs[run[t]].lock = lock[t]

Unfinished == {"todo", "ready", "running", "blocked"}

(* The current run tells the truth about its task: it is open while the    *)
(* task is unfinished and closed once update_task_status has completed or  *)
(* failed it.                                                              *)
RunFollowsTask ==
    \A t \in Task : run[t] # NULL =>
        /\ status[t] \in Unfinished => runs[run[t]].status = "running"
        /\ status[t] \in {"completed", "failed"} => runs[run[t]].status \in EndedRun

(* The retries a task may use: max_retries is not validated, and a         *)
(* negative one allows none.                                               *)
Allowance(t) == IF MaxRetriesOf(t) < 0 THEN 0 ELSE MaxRetriesOf(t)

(* Retries are bounded: whoever fails the task (worker, TTL release,       *)
(* scanner, operator), it fails at most max_retries + 1 times in a row,    *)
(* and a task that may still run has failures left in its budget.          *)
RetryBudget ==
    \A t \in Task :
        /\ fails[t] <= Allowance(t) + 1
        /\ status[t] \in Unfinished => fails[t] <= Allowance(t)

(* The dependency graph stays a DAG under create_task, add_dependency and  *)
(* remove_dependency, so a chain of todo tasks always has a first one.     *)
Acyclic == AcyclicLinks(Task, links)

(* No dangling rows: links, claims and runs only refer to created tasks. *)
NoOrphanRows ==
    /\ \A e \in links : Exists(e[1]) /\ Exists(e[2])
    /\ \A r \in RunId : runs[r].status # "free" => Exists(runs[r].task)

(* The dependency gate: a task that dependency resolution made ready still *)
(* has all its parents satisfied, whatever edges were added, removed or    *)
(* re-conditioned and whatever happened to the parents since.              *)
ReadyIsSatisfied ==
    \A t \in Task : status[t] = "ready" /\ t \notin bypass =>
        Satisfied(t, status, result, links, cond)

(* The store implements the abstract lifecycle: every transaction, the     *)
(* ones that write status with plain SQL too, is one of its steps.         *)
ImplementsLifecycle == Lifecycle!Spec

(* A run's outcome is final: no late completion, retry or TTL release      *)
(* rewrites or reopens a run that has ended.                               *)
RunOutcomeFinal ==
    [][\A r \in RunId : runs[r].status \in EndedRun => runs'[r] = runs[r]]_vars

(* Who works on t: the lock of a task that is running or blocked.  A lock  *)
(* that is left on a ready or finished task claims nothing.                *)
Claimant == [t \in Task |-> IF status[t] \in {"running", "blocked"}
                            THEN lock[t] ELSE NULL]

Claims == INSTANCE Lease WITH Resource <- Task, Owner <- Lock, Nobody <- NULL,
                              owner <- Claimant

(* The claims are exclusive leases: whatever status requests, releases,    *)
(* retries and re-claims come between, a task never passes from one claim  *)
(* lock to another without having been given up, and the claim of one task *)
(* never touches the claim of a second.                                    *)
ImplementsLease == Claims!Spec

(* What claim_task promises about claims and their records. *)
ClaimsKept == RunOutcomeFinal /\ ImplementsLease

(* A finished dependency never un-finishes: once a link is satisfied it    *)
(* stays so until somebody edits that link.                                *)
SatisfactionStable ==
    [][\A t \in Task :
        /\ links' = links /\ cond' = cond
        /\ Satisfied(t, status, result, links, cond)
        => Satisfied(t, status', result', links', cond')]_vars

(* Archiving counts a failed or cancelled parent as done, but update_task_ *)
(* status re-resolves the children on completion only.                     *)
ParentArchivedUnfinished(t) ==
    \E p \in Parents(t) : status[p] \in {"failed", "cancelled"} /\ status'[p] = "archived"

(* Resolution misses nobody: the transaction that satisfies the last       *)
(* dependency of a waiting task, by a completion or by an edit of the      *)
(* graph, makes the task ready itself; nobody else would.                  *)
NobodyStranded ==
    [][\A t \in Task :
        /\ status[t] = "todo"
        /\ ~Satisfied(t, status, result, links, cond)
        /\ Satisfied(t, status', result', links', cond')
        => status'[t] = "ready" \/ ParentArchivedUnfinished(t)]_vars

(* What dependency resolution keeps and what it must not forget. *)
ResolutionKept == SatisfactionStable /\ NobodyStranded

(* A silent worker cannot hold a task: a claimed running or blocked task   *)
(* is failed by the TTL release unless heartbeats keep renewing the claim. *)
SilentWorkerReleased ==
    \A t \in Managed :
        []<>(\/ status[t] \notin {"running", "blocked"}
             \/ ttl[t] = NULL
             \/ ttl[t] = DefaultClaimTTL)
=============================================================================
