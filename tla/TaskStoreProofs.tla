-------------------------- MODULE TaskStoreProofs --------------------------
(* Proofs about the task store for every set of tasks, locks, results and  *)
(* runs, every TTL and every retry limit: its tables, its dependency graph *)
(* and gate, and that it implements the abstract lifecycle.                *)
EXTENDS TaskStore, TLAPS

USE NullAssumption, NumberAssumption

(* The statuses UpdateTaskStatus can leave a child of a completed task in. *)
LEMMA ResolvedType ==
    ASSUME NEW st \in [Task -> TaskStatus \cup {"absent"}], NEW t \in Task,
           NEW rs, NEW L, NEW cd
    PROVE  ResolvedStatus(t, st, rs, L, cd) \in TaskStatus \cup {"absent"}
BY DEF ResolvedStatus, TaskStatus, Lifecycle!TaskStatus

(* Ending a run keeps the run table well typed. *)
LEMMA EndRunType ==
    ASSUME runs \in [RunId -> RunRecord], NEW r \in RunId \cup {NULL},
           NEW s \in EndedRun
    PROVE  EndRun(r, s) \in [RunId -> RunRecord]
<1>1. CASE r = NULL
    BY <1>1 DEF EndRun
<1>2. CASE r # NULL
    <2>1. r \in RunId /\ runs[r] \in RunRecord
        BY <1>2
    <2>2. [runs[r] EXCEPT !.status = s] \in RunRecord
        BY <2>1 DEF RunRecord, RunStatus
    <2> QED
        BY <1>2, <2>1, <2>2 DEF EndRun
<1> QED
    BY <1>1, <1>2

(* The initial tables are well typed. *)
LEMMA TypeInit == Init => TypeOK
BY DEF Init, TypeOK, RunRecord

(* Every store method preserves the types. *)
LEMMA TypeStep == TypeOK /\ [Next]_vars => TypeOK'
<1> SUFFICES ASSUME TypeOK, [Next]_vars PROVE TypeOK'
    OBVIOUS
<1>1. ASSUME NEW t \in Task, NEW P \in SUBSET Task,
             NEW m \in RetryLimits \cup {NULL},
             NEW c \in [P -> Result \cup {NULL}], CreateTask(t, P, c, m)
      PROVE  TypeOK'
    BY <1>1 DEF CreateTask, TypeOK, TaskStatus, Lifecycle!TaskStatus
<1>2. ASSUME NEW t \in Task, NEW new \in TaskStatus,
             NEW cl \in Lock \cup {NULL}, NEW res \in Result \cup {NULL},
             UpdateTaskStatus(t, new, cl, res)
      PROVE  TypeOK'
    <2> DEFINE st == [status EXCEPT ![t] = new]
               rs == IF new = "completed" /\ res # NULL
                     THEN [result EXCEPT ![t] = res] ELSE result
    <2>1. st \in [Task -> TaskStatus \cup {"absent"}]
        BY DEF TypeOK
    <2>2. status' \in [Task -> TaskStatus \cup {"absent"}]
        <3>1. \A x \in Task : ResolvedStatus(x, st, rs, links, cond)
                                \in TaskStatus \cup {"absent"}
            BY <2>1, ResolvedType
        <3>2. status' = [x \in Task |->
                        IF new = "completed" /\ x \in Children(t)
                        THEN ResolvedStatus(x, st, rs, links, cond) ELSE st[x]]
            BY <1>2 DEF UpdateTaskStatus
        <3> QED
            BY <2>1, <3>1, <3>2
    <2>3. runs' \in [RunId -> RunRecord]
        <3>1. \A s \in EndedRun : EndRun(run[t], s) \in [RunId -> RunRecord]
            BY EndRunType DEF TypeOK
        <3> QED
            BY <1>2, <3>1 DEF UpdateTaskStatus, TypeOK, EndedRun
    <2>4. fails' \in [Task -> Nat]
        BY <1>2 DEF UpdateTaskStatus, TypeOK
    <2>5. bypass' \subseteq Task
        BY <1>2 DEF UpdateTaskStatus, TypeOK, Gate
    <2>6. result' \in [Task -> Result \cup {NULL}] /\ backoff' \in [Task -> BOOLEAN]
        BY <1>2 DEF UpdateTaskStatus, TypeOK
    <2> QED
        BY <1>2, <2>2, <2>3, <2>4, <2>5, <2>6 DEF UpdateTaskStatus, TypeOK
<1>3. ASSUME NEW t \in Task, NEW l \in Lock, NEW k \in ClaimTTLs, ClaimTask(t, l, k)
      PROVE  TypeOK'
    <2>1. PICK r \in FreeRuns :
            /\ runs' = [runs EXCEPT ![r] = [task |-> t, status |-> "running", lock |-> l]]
            /\ run' = [run EXCEPT ![t] = r]
        BY <1>3 DEF ClaimTask
    <2>2. r \in RunId
        BY DEF FreeRuns
    <2>3. [task |-> t, status |-> "running", lock |-> l] \in RunRecord
        BY DEF RunRecord, RunStatus
    <2>4. runs' \in [RunId -> RunRecord] /\ run' \in [Task -> RunId \cup {NULL}]
        BY <2>1, <2>2, <2>3 DEF TypeOK
    <2> QED
        BY <1>3, <2>4 DEF ClaimTask, TypeOK, TaskStatus, Lifecycle!TaskStatus
<1>4. ASSUME NEW t \in Task, NEW l \in HeartbeatLocks, Heartbeat(t, l)
      PROVE  TypeOK'
    BY <1>4 DEF Heartbeat, TypeOK
<1>5. CASE ReleaseExpiredClaims
    BY <1>5 DEF ReleaseExpiredClaims, TypeOK, RunRecord, RunStatus, EndedRun,
                TaskStatus, Lifecycle!TaskStatus
<1>6. CASE PromoteRetryableTasks
    <2>1. PICK f \in [Retryable -> FreeRuns] :
            /\ run' = [t \in Task |-> IF t \in Retryable THEN f[t] ELSE run[t]]
            /\ runs' = [r \in RunId |->
                          IF \E t \in Retryable : f[t] = r
                          THEN [task |-> CHOOSE t \in Retryable : f[t] = r,
                                status |-> "running", lock |-> NULL]
                          ELSE runs[r]]
        BY <1>6 DEF PromoteRetryableTasks
    <2>2. \A r \in RunId : (\E t \in Retryable : f[t] = r) =>
                (CHOOSE t \in Retryable : f[t] = r) \in Task
        BY DEF Retryable
    <2>3. runs' \in [RunId -> RunRecord]
        BY <2>1, <2>2 DEF TypeOK, RunRecord, RunStatus
    <2>4. run' \in [Task -> RunId \cup {NULL}]
        BY <2>1 DEF TypeOK, FreeRuns
    <2>5. bypass' \subseteq Task
        BY <1>6 DEF PromoteRetryableTasks, Gate, TypeOK, Retryable
    <2> QED
        BY <1>6, <2>3, <2>4, <2>5
        DEF PromoteRetryableTasks, TypeOK, TaskStatus, Lifecycle!TaskStatus
<1>7. ASSUME NEW t \in Task, NEW p \in Task, NEW c \in Result \cup {NULL},
             AddDependency(t, p, c)
      PROVE  TypeOK'
    <2>1. ResolvedStatus(t, status, result, links', cond') \in TaskStatus \cup {"absent"}
        BY ResolvedType DEF TypeOK
    <2> QED
        BY <1>7, <2>1 DEF AddDependency, TypeOK, Gate, taskVars
<1>8. ASSUME NEW t \in Task, NEW p \in Task, RemoveDependency(t, p)
      PROVE  TypeOK'
    <2>1. ResolvedStatus(t, status, result, links', cond') \in TaskStatus \cup {"absent"}
        BY ResolvedType DEF TypeOK
    <2> QED
        BY <1>8, <2>1 DEF RemoveDependency, TypeOK, Gate, taskVars
<1>9. CASE Tick
    BY <1>9 DEF Tick, TypeOK
<1>10. ASSUME NEW t \in Task, BackoffElapses(t) PROVE TypeOK'
    BY <1>10 DEF BackoffElapses, TypeOK
<1>11. CASE UNCHANGED vars
    BY <1>11 DEF vars, taskVars, TypeOK
<1> QED
    BY <1>1, <1>2, <1>3, <1>4, <1>5, <1>6, <1>7, <1>8, <1>9, <1>10, <1>11
    DEF Next, Create, Update, Claim, Beat, Link, Unlink, Elapse

(* Every column keeps its type under every store method. *)
THEOREM TypeCorrect == Spec => []TypeOK
BY TypeInit, TypeStep, PTL DEF Spec

-----------------------------------------------------------------------------
(* Claims, runs and retries.  The three invariants hold together, with two *)
(* facts they rest on: a row that was never inserted is blank, and a       *)
(* current run belongs to its task (so no two tasks share one).            *)

AbsentIsBlank ==
    \A t \in Task : status[t] = "absent" =>
        lock[t] = NULL /\ run[t] = NULL /\ fails[t] = 0

RunOwned ==
    \A t \in Task : run[t] # NULL =>
        runs[run[t]].task = t /\ runs[run[t]].status # "free"

StoreInv ==
    /\ TypeOK
    /\ AbsentIsBlank
    /\ RunOwned
    /\ LockMatchesRun
    /\ RunFollowsTask
    /\ RetryBudget

(* What update_task_status does to the statuses: the task gets the new     *)
(* one, every other task keeps its own or is flipped between todo and      *)
(* ready by dependency resolution.                                         *)
LEMMA UpdateStatuses ==
    ASSUME TypeOK, NEW t \in Task, NEW new \in TaskStatus,
           NEW cl, NEW res, UpdateTaskStatus(t, new, cl, res)
    PROVE  /\ <<status[t], new>> \in VALID_TRANSITIONS
           /\ ~RaisesAttributeError(status[t], new)
           /\ status'[t] = new
           /\ \A x \in Task \ {t} :
                \/ status'[x] = status[x]
                \/ /\ new = "completed"
                   /\ <<status[x], status'[x]>> \in {<<"todo", "ready">>, <<"ready", "todo">>}
<1> DEFINE st == [status EXCEPT ![t] = new]
           rs == IF new = "completed" /\ res # NULL
                 THEN [result EXCEPT ![t] = res] ELSE result
<1>1. /\ <<status[t], new>> \in VALID_TRANSITIONS
      /\ ~RaisesAttributeError(status[t], new)
      /\ status' = [x \in Task |->
                        IF new = "completed" /\ x \in Children(t)
                        THEN ResolvedStatus(x, st, rs, links, cond) ELSE st[x]]
    BY DEF UpdateTaskStatus
<1>2. st[t] = new /\ \A x \in Task \ {t} : st[x] = status[x]
    BY DEF TypeOK
<1>3. \A x \in Task : \/ ResolvedStatus(x, st, rs, links, cond) = st[x]
                      \/ <<st[x], ResolvedStatus(x, st, rs, links, cond)>>
                            \in {<<"todo", "ready">>, <<"ready", "todo">>}
    BY DEF ResolvedStatus
<1> HIDE DEF st, rs
<1>4. new = "completed" => ResolvedStatus(t, st, rs, links, cond) = new
    BY <1>2 DEF ResolvedStatus
<1> QED
    BY <1>1, <1>2, <1>3, <1>4

(* The retry budget is a natural number whatever max_retries was given. *)
LEMMA AllowanceType ==
    ASSUME TypeOK, NEW x \in Task
    PROVE  Allowance(x) \in Nat
<1>1. maxRetries[x] = NULL \/ maxRetries[x] \in Int
    BY DEF TypeOK
<1>2. MaxRetriesOf(x) \in Int
    BY <1>1 DEF MaxRetriesOf
<1> QED
    BY <1>2 DEF Allowance

(* The empty store satisfies the invariant. *)
LEMMA StoreInit == Init => StoreInv
BY TypeInit DEF Init, StoreInv, AbsentIsBlank, RunOwned, LockMatchesRun, RunFollowsTask,
       RetryBudget, Allowance, MaxRetriesOf

(* create_task fills a blank row. *)
LEMMA CreateKeeps ==
    ASSUME StoreInv, NEW t \in Task, NEW P \in SUBSET Task,
           NEW m \in RetryLimits \cup {NULL}, NEW c, CreateTask(t, P, c, m)
    PROVE  /\ AbsentIsBlank' /\ RunOwned' /\ LockMatchesRun'
           /\ RunFollowsTask' /\ RetryBudget'
<1>1. status[t] = "absent" /\ status'[t] \in {"todo", "ready"}
      /\ \A x \in Task \ {t} : status'[x] = status[x] /\ maxRetries'[x] = maxRetries[x]
    BY DEF StoreInv, TypeOK, CreateTask, Exists
<1>2. UNCHANGED <<lock, ttl, run, fails, runs>> /\ maxRetries'[t] = m
    BY DEF CreateTask, StoreInv, TypeOK
<1>3. lock[t] = NULL /\ run[t] = NULL /\ fails[t] = 0
    BY <1>1 DEF StoreInv, AbsentIsBlank
<1>4. RetryBudget'
    <2> SUFFICES ASSUME NEW x \in Task
                 PROVE  /\ fails'[x] <= Allowance(x)' + 1
                        /\ status'[x] \in Unfinished => fails'[x] <= Allowance(x)'
        BY DEF RetryBudget
    <2>1. CASE x = t
        <3>1. maxRetries'[t] = NULL \/ maxRetries'[t] \in Int
            BY <1>2
        <3>2. Allowance(t)' \in Nat
            BY <3>1 DEF Allowance, MaxRetriesOf
        <3> QED
            BY <2>1, <3>2, <1>2, <1>3
    <2>2. CASE x # t
        <3>1. Allowance(x)' = Allowance(x)
            BY <1>1, <2>2 DEF Allowance, MaxRetriesOf
        <3> QED
            BY <1>1, <1>2, <2>2, <3>1 DEF StoreInv, RetryBudget
    <2> QED
        BY <2>1, <2>2
<1>5. RunFollowsTask'
    BY <1>1, <1>2, <1>3 DEF StoreInv, RunFollowsTask
<1> QED
    BY <1>1, <1>2, <1>4, <1>5 DEF StoreInv, AbsentIsBlank, RunOwned, LockMatchesRun

(* A transition that does not complete or fail the task leaves its run     *)
(* open, and one that does closes it.                                      *)
LEMMA UpdateKeeps ==
    ASSUME StoreInv, NEW t \in Task, NEW new \in TaskStatus,
           NEW cl, NEW res, UpdateTaskStatus(t, new, cl, res)
    PROVE  /\ AbsentIsBlank' /\ RunOwned' /\ LockMatchesRun'
           /\ RunFollowsTask' /\ RetryBudget'
<1>1. /\ <<status[t], new>> \in VALID_TRANSITIONS
      /\ ~RaisesAttributeError(status[t], new)
      /\ status'[t] = new
      /\ \A x \in Task \ {t} :
           \/ status'[x] = status[x]
           \/ status[x] \in {"todo", "ready"} /\ status'[x] \in {"todo", "ready"}
    BY UpdateStatuses DEF StoreInv
<1>2. UNCHANGED <<lock, ttl, run, maxRetries>>
    BY DEF UpdateTaskStatus
<1>3. /\ status[t] # "absent" /\ new # "absent"
      /\ new \in Unfinished => status[t] \in Unfinished
      /\ new \in {"completed", "failed"} => status[t] \in Unfinished
    BY <1>1 DEF VALID_TRANSITIONS, Lifecycle!VALID_TRANSITIONS, RaisesAttributeError,
               Unfinished
<1>4. runs' = IF new \in {"completed", "failed"}
              THEN EndRun(run[t], IF new = "completed" THEN "done" ELSE "failed")
              ELSE runs
    BY DEF UpdateTaskStatus
<1>5. \A r \in RunId : /\ runs'[r].task = runs[r].task
                       /\ runs'[r].lock = runs[r].lock
                       /\ r # run[t] => runs'[r] = runs[r]
                       /\ runs[r].status # "free" => runs'[r].status # "free"
    BY <1>4 DEF EndRun, StoreInv, TypeOK, RunRecord
<1>6. \A x \in Task \ {t} : run[x] # NULL => run[x] # run[t]
    BY DEF StoreInv, RunOwned
<1>7. AbsentIsBlank'
    <2>1. \A x \in Task \ {t} : fails'[x] = fails[x]
        BY DEF UpdateTaskStatus, StoreInv, TypeOK
    <2> QED
        BY <1>1, <1>2, <1>3, <2>1 DEF AbsentIsBlank, StoreInv
<1>8. RunOwned' /\ LockMatchesRun'
    BY <1>2, <1>5 DEF RunOwned, LockMatchesRun, StoreInv, TypeOK
<1>9. RunFollowsTask'
    <2> SUFFICES ASSUME NEW x \in Task, run[x] # NULL
                 PROVE  /\ status'[x] \in Unfinished => runs'[run[x]].status = "running"
                        /\ status'[x] \in {"completed", "failed"}
                             => runs'[run[x]].status \in EndedRun
        BY <1>2 DEF RunFollowsTask
    <2>0. run[x] \in RunId /\ runs[run[x]] \in RunRecord
        BY DEF StoreInv, TypeOK
    <2>1. CASE x # t
        BY <1>1, <1>5, <1>6, <2>0, <2>1 DEF StoreInv, RunFollowsTask, Unfinished
    <2>2. CASE x = t /\ new \in {"completed", "failed"}
        BY <1>1, <1>4, <2>0, <2>2 DEF EndRun, EndedRun, Unfinished, StoreInv, TypeOK, RunRecord
    <2>3. CASE x = t /\ new \notin {"completed", "failed"}
        BY <1>1, <1>3, <1>4, <2>0, <2>3 DEF StoreInv, RunFollowsTask
    <2> QED
        BY <2>1, <2>2, <2>3
<1>10. RetryBudget'
    <2>1. \A x \in Task \ {t} : fails'[x] = fails[x]
        BY DEF UpdateTaskStatus, StoreInv, TypeOK
    <2>2. fails'[t] = IF new = "completed" THEN 0
                      ELSE IF new = "failed" THEN fails[t] + 1 ELSE fails[t]
        BY DEF UpdateTaskStatus, StoreInv, TypeOK
    <2>3. \A x \in Task : Allowance(x) \in Nat /\ Allowance(x)' = Allowance(x)
                          /\ fails[x] \in Nat
        <3>1. \A x \in Task : Allowance(x) \in Nat
            BY AllowanceType DEF StoreInv
        <3>2. \A x \in Task : Allowance(x)' = Allowance(x)
            BY <1>2 DEF Allowance, MaxRetriesOf
        <3> QED
            BY <3>1, <3>2 DEF StoreInv, TypeOK
    <2>4. \A x \in Task \ {t} : status'[x] \in Unfinished => status[x] \in Unfinished
        BY <1>1 DEF Unfinished
    <2>5. \A x \in Task : /\ fails[x] <= Allowance(x) + 1
                          /\ status[x] \in Unfinished => fails[x] <= Allowance(x)
        BY DEF StoreInv, RetryBudget
    <2>6. \A x \in Task : /\ fails'[x] <= Allowance(x) + 1
                          /\ status'[x] \in Unfinished => fails'[x] <= Allowance(x)
        <3> SUFFICES ASSUME NEW x \in Task
                     PROVE  /\ fails'[x] <= Allowance(x) + 1
                            /\ status'[x] \in Unfinished => fails'[x] <= Allowance(x)
            OBVIOUS
        <3>1. CASE x # t
            BY <3>1, <2>1, <2>4, <2>5
        <3>2. CASE x = t
            BY <3>2, <1>1, <1>3, <2>2, <2>3, <2>5 DEF Unfinished
        <3> QED
            BY <3>1, <3>2
    <2> QED
        BY <2>3, <2>6 DEF RetryBudget
<1> QED
    BY <1>7, <1>8, <1>9, <1>10

(* A step that moves no run, lock, expiry or counter, and moves statuses   *)
(* only between todo and ready: add_dependency and remove_dependency.      *)
LEMMA FlipKeeps ==
    ASSUME StoreInv, UNCHANGED <<taskVars, runs>>,
           \A x \in Task : \/ status'[x] = status[x]
                           \/ /\ status[x] \in {"todo", "ready"}
                              /\ status'[x] \in {"todo", "ready"}
    PROVE  /\ AbsentIsBlank' /\ RunOwned' /\ LockMatchesRun'
           /\ RunFollowsTask' /\ RetryBudget'
<1>1. \A x \in Task : Allowance(x)' = Allowance(x)
    BY DEF Allowance, MaxRetriesOf, taskVars
<1>2. UNCHANGED <<lock, ttl, run, fails, runs>>
    BY DEF taskVars
<1>3. \A x \in Task : /\ status'[x] = "absent" => status[x] = "absent"
                      /\ status'[x] \in Unfinished => status[x] \in Unfinished
                      /\ status'[x] \in {"completed", "failed"} => status'[x] = status[x]
    BY DEF Unfinished
<1>4. RetryBudget'
    BY <1>1, <1>2, <1>3 DEF StoreInv, RetryBudget
<1>5. RunFollowsTask'
    BY <1>2, <1>3 DEF StoreInv, RunFollowsTask
<1> QED
    BY <1>2, <1>3, <1>4, <1>5 DEF StoreInv, AbsentIsBlank, RunOwned, LockMatchesRun

(* claim_task gives the task a fresh run under its own lock. *)
LEMMA ClaimKeeps ==
    ASSUME StoreInv, NEW t \in Task, NEW l \in Lock, NEW k \in ClaimTTLs,
           ClaimTask(t, l, k)
    PROVE  /\ AbsentIsBlank' /\ RunOwned' /\ LockMatchesRun'
           /\ RunFollowsTask' /\ RetryBudget'
<1>1. PICK r \in FreeRuns :
        /\ runs' = [runs EXCEPT ![r] = [task |-> t, status |-> "running", lock |-> l]]
        /\ run' = [run EXCEPT ![t] = r]
    BY DEF ClaimTask
<1>2. r \in RunId /\ runs[r].status = "free" /\ r # NULL
    BY DEF FreeRuns
<1>3. /\ status[t] = "ready" /\ status'[t] = "running"
      /\ lock'[t] = l /\ ttl'[t] = k /\ l # NULL /\ k # NULL
      /\ \A x \in Task \ {t} : /\ status'[x] = status[x]
                               /\ lock'[x] = lock[x]
                               /\ ttl'[x] = ttl[x]
    BY DEF ClaimTask, StoreInv, TypeOK
<1>4. run'[t] = r /\ \A x \in Task \ {t} : run'[x] = run[x]
    BY <1>1 DEF StoreInv, TypeOK
<1>5. /\ runs'[r] = [task |-> t, status |-> "running", lock |-> l]
      /\ \A q \in RunId \ {r} : runs'[q] = runs[q]
    BY <1>1, <1>2 DEF StoreInv, TypeOK
<1>6. \A x \in Task \ {t} : run[x] # NULL => run[x] \in RunId \ {r}
    BY <1>2 DEF StoreInv, RunOwned, TypeOK
<1>7. UNCHANGED <<fails, maxRetries>> /\ \A x \in Task : Allowance(x)' = Allowance(x)
    BY DEF ClaimTask, Allowance, MaxRetriesOf
<1>8. AbsentIsBlank'
    BY <1>3, <1>4, <1>7 DEF StoreInv, AbsentIsBlank
<1>9. RunOwned' /\ LockMatchesRun'
    BY <1>2, <1>3, <1>4, <1>5, <1>6 DEF StoreInv, RunOwned, LockMatchesRun
<1>10. RunFollowsTask'
    BY <1>2, <1>3, <1>4, <1>5, <1>6 DEF StoreInv, RunFollowsTask, Unfinished
<1>11. RetryBudget'
    BY <1>3, <1>7 DEF StoreInv, RetryBudget, Unfinished
<1> QED
    BY <1>8, <1>9, <1>10, <1>11

(* The TTL release closes the runs of exactly the expired tasks. *)
LEMMA ReleaseKeeps ==
    ASSUME StoreInv, ReleaseExpiredClaims
    PROVE  /\ AbsentIsBlank' /\ RunOwned' /\ LockMatchesRun'
           /\ RunFollowsTask' /\ RetryBudget'
<1>1. \A t \in Expired : t \in Task /\ status[t] \in Unfinished
    BY DEF Expired, Unfinished
<1>2. \A t \in Expired : /\ status'[t] = "failed" /\ lock'[t] = NULL
                         /\ run'[t] = NULL /\ fails'[t] = fails[t] + 1
    BY <1>1 DEF ReleaseExpiredClaims
<1>3. \A t \in Task \ Expired :
        /\ status'[t] = status[t] /\ lock'[t] = lock[t] /\ ttl'[t] = ttl[t]
        /\ run'[t] = run[t] /\ fails'[t] = fails[t]
    BY DEF ReleaseExpiredClaims
<1>4. \A x \in Task \ Expired : run[x] # NULL => runs'[run[x]] = runs[run[x]]
    <2> SUFFICES ASSUME NEW x \in Task \ Expired, run[x] # NULL
                 PROVE  runs'[run[x]] = runs[run[x]]
        OBVIOUS
    <2>1. run[x] \in RunId
        BY DEF StoreInv, TypeOK
    <2>2. ~ \E t \in Expired : run[t] = run[x]
        BY <1>1 DEF StoreInv, RunOwned
    <2> QED
        BY <2>1, <2>2 DEF ReleaseExpiredClaims
<1>5. \A x \in Task : Allowance(x)' = Allowance(x)
    BY DEF ReleaseExpiredClaims, Allowance, MaxRetriesOf
<1>6. \A x \in Task : Allowance(x) \in Nat /\ fails[x] \in Nat
    BY AllowanceType DEF StoreInv, TypeOK
<1>7. RetryBudget'
    <2> SUFFICES ASSUME NEW x \in Task
                 PROVE  /\ fails'[x] <= Allowance(x) + 1
                        /\ status'[x] \in Unfinished => fails'[x] <= Allowance(x)
        BY <1>5 DEF RetryBudget
    <2>1. CASE x \in Expired
        <3>1. fails[x] <= Allowance(x)
            BY <1>1, <2>1 DEF StoreInv, RetryBudget
        <3> QED
            BY <1>2, <1>6, <2>1, <3>1 DEF Unfinished
    <2>2. CASE x \notin Expired
        BY <1>3, <2>2 DEF StoreInv, RetryBudget
    <2> QED
        BY <2>1, <2>2
<1>8. AbsentIsBlank' /\ RunOwned' /\ LockMatchesRun'
    BY <1>2, <1>3, <1>4 DEF StoreInv, AbsentIsBlank, RunOwned, LockMatchesRun
<1>9. RunFollowsTask'
    BY <1>2, <1>3, <1>4 DEF StoreInv, RunFollowsTask
<1> QED
    BY <1>7, <1>8, <1>9

(* A promoted task gets a fresh run and no lock. *)
LEMMA PromoteKeeps ==
    ASSUME StoreInv, PromoteRetryableTasks
    PROVE  /\ AbsentIsBlank' /\ RunOwned' /\ LockMatchesRun'
           /\ RunFollowsTask' /\ RetryBudget'
<1>1. PICK f \in [Retryable -> FreeRuns] :
        /\ \A a, b \in Retryable : f[a] = f[b] => a = b
        /\ run' = [t \in Task |-> IF t \in Retryable THEN f[t] ELSE run[t]]
        /\ runs' = [r \in RunId |->
                      IF \E t \in Retryable : f[t] = r
                      THEN [task |-> CHOOSE t \in Retryable : f[t] = r,
                            status |-> "running", lock |-> NULL]
                      ELSE runs[r]]
    BY DEF PromoteRetryableTasks
<1>2. \A t \in Retryable : /\ t \in Task /\ status[t] = "failed"
                           /\ fails[t] <= MaxRetriesOf(t) /\ fails[t] > 0
    BY DEF Retryable
<1>3. \A t \in Retryable : /\ status'[t] = "ready" /\ lock'[t] = NULL
                           /\ run'[t] = f[t]
                           /\ f[t] \in RunId /\ runs[f[t]].status = "free"
    BY <1>1, <1>2 DEF PromoteRetryableTasks, FreeRuns
<1>4. \A t \in Task \ Retryable :
        /\ status'[t] = status[t] /\ lock'[t] = lock[t] /\ ttl'[t] = ttl[t]
        /\ run'[t] = run[t]
    BY <1>1 DEF PromoteRetryableTasks
<1>5. \A t \in Retryable : runs'[f[t]] = [task |-> t, status |-> "running", lock |-> NULL]
    BY <1>1, <1>3
<1>6. \A x \in Task \ Retryable : run[x] # NULL => runs'[run[x]] = runs[run[x]]
    <2> SUFFICES ASSUME NEW x \in Task \ Retryable, run[x] # NULL
                 PROVE  runs'[run[x]] = runs[run[x]]
        OBVIOUS
    <2>1. run[x] \in RunId /\ runs[run[x]].status # "free"
        BY DEF StoreInv, TypeOK, RunOwned
    <2>2. ~ \E t \in Retryable : f[t] = run[x]
        BY <1>3, <2>1
    <2> QED
        BY <1>1, <2>1, <2>2
<1>7. UNCHANGED fails /\ \A x \in Task : Allowance(x)' = Allowance(x)
    BY DEF PromoteRetryableTasks, Allowance, MaxRetriesOf
<1>8. \A x \in Retryable : fails[x] <= Allowance(x)
    <2> SUFFICES ASSUME NEW x \in Retryable PROVE fails[x] <= Allowance(x)
        OBVIOUS
    <2>1. maxRetries[x] = NULL \/ maxRetries[x] \in Int
        BY <1>2 DEF StoreInv, TypeOK
    <2>2. MaxRetriesOf(x) \in Int /\ fails[x] \in Nat
        BY <1>2, <2>1 DEF MaxRetriesOf, StoreInv, TypeOK
    <2> QED
        BY <1>2, <2>2 DEF Allowance
<1>9. RetryBudget'
    <2>1. \A x \in Retryable : fails[x] <= Allowance(x) + 1
        BY <1>2 DEF StoreInv, RetryBudget
    <2> QED
        BY <1>4, <1>7, <1>8, <2>1 DEF StoreInv, RetryBudget
<1>10. AbsentIsBlank'
    BY <1>3, <1>4, <1>7 DEF StoreInv, AbsentIsBlank
<1>11. \A x \in Retryable : /\ runs'[run'[x]].task = x
                            /\ runs'[run'[x]].status = "running"
    <2> SUFFICES ASSUME NEW x \in Retryable
                 PROVE  /\ runs'[run'[x]].task = x
                        /\ runs'[run'[x]].status = "running"
        OBVIOUS
    <2>1. run'[x] = f[x]
        BY <1>3
    <2>2. runs'[run'[x]] = [task |-> x, status |-> "running", lock |-> NULL]
        BY <1>5, <2>1
    <2> QED
        BY <2>2
<1>12. \A x \in Task \ Retryable :
         run'[x] # NULL => runs'[run'[x]] = runs[run[x]] /\ run[x] # NULL
    BY <1>4, <1>6
<1>13. RunOwned' /\ LockMatchesRun'
    <2> SUFFICES ASSUME NEW x \in Task
                 PROVE  /\ run'[x] # NULL => /\ runs'[run'[x]].task = x
                                             /\ runs'[run'[x]].status # "free"
                        /\ lock'[x] # NULL => /\ ttl'[x] # NULL
                                              /\ run'[x] # NULL
                                              /\ runs'[run'[x]].task = x
                                              /\ runs'[run'[x]].lock = lock'[x]
        BY DEF RunOwned, LockMatchesRun
    <2>1. CASE x \in Retryable
        BY <1>3, <1>11, <2>1
    <2>2. CASE x \notin Retryable
        BY <1>4, <1>12, <2>2 DEF StoreInv, RunOwned, LockMatchesRun
    <2> QED
        BY <2>1, <2>2
<1>14. RunFollowsTask'
    <2> SUFFICES ASSUME NEW x \in Task, run'[x] # NULL
                 PROVE  /\ status'[x] \in Unfinished => runs'[run'[x]].status = "running"
                        /\ status'[x] \in {"completed", "failed"}
                             => runs'[run'[x]].status \in EndedRun
        BY DEF RunFollowsTask
    <2>1. CASE x \in Retryable
        BY <1>3, <1>11, <2>1
    <2>2. CASE x \notin Retryable
        BY <1>4, <1>12, <2>2 DEF StoreInv, RunFollowsTask
    <2> QED
        BY <2>1, <2>2
<1> QED
    BY <1>9, <1>10, <1>13, <1>14

(* A heartbeat or the clock changes only the expiry of claims. *)
LEMMA ExpiryKeeps ==
    ASSUME StoreInv, UNCHANGED <<status, lock, run, fails, maxRetries, runs>>,
           \A x \in Task : ttl[x] # NULL => ttl'[x] # NULL
    PROVE  /\ AbsentIsBlank' /\ RunOwned' /\ LockMatchesRun'
           /\ RunFollowsTask' /\ RetryBudget'
<1>1. \A x \in Task : Allowance(x)' = Allowance(x)
    BY DEF Allowance, MaxRetriesOf
<1> QED
    BY <1>1 DEF StoreInv, AbsentIsBlank, RunOwned, LockMatchesRun, RunFollowsTask, RetryBudget

(* Every store method preserves the joint invariant. *)
LEMMA StoreStep == StoreInv /\ [Next]_vars => StoreInv'
<1> SUFFICES ASSUME StoreInv, [Next]_vars PROVE StoreInv'
    OBVIOUS
<1> SUFFICES /\ AbsentIsBlank' /\ RunOwned' /\ LockMatchesRun'
             /\ RunFollowsTask' /\ RetryBudget'
    BY TypeStep DEF StoreInv
<1>1. CASE Create
    BY <1>1, CreateKeeps DEF Create
<1>2. CASE Update
    BY <1>2, UpdateKeeps DEF Update
<1>3. CASE Claim
    BY <1>3, ClaimKeeps DEF Claim
<1>4. CASE Beat
    <2>1. PICK t \in Task, l \in HeartbeatLocks : Heartbeat(t, l)
        BY <1>4 DEF Beat
    <2>2. \A x \in Task : ttl[x] # NULL => ttl'[x] # NULL
        BY <2>1 DEF Heartbeat, StoreInv, TypeOK
    <2> QED
        BY <2>1, <2>2, ExpiryKeeps DEF Heartbeat
<1>5. CASE ReleaseExpiredClaims
    BY <1>5, ReleaseKeeps
<1>6. CASE PromoteRetryableTasks
    BY <1>6, PromoteKeeps
<1>7. CASE Link
    <2>1. PICK t \in Task, p \in Task, c \in Result \cup {NULL} : AddDependency(t, p, c)
        BY <1>7 DEF Link
    <2>2. \A x \in Task : \/ status'[x] = status[x]
                          \/ status[x] \in {"todo", "ready"} /\ status'[x] \in {"todo", "ready"}
        BY <2>1 DEF AddDependency, ResolvedStatus, StoreInv, TypeOK
    <2> QED
        BY <2>1, <2>2, FlipKeeps DEF AddDependency
<1>8. CASE Unlink
    <2>1. PICK t \in Task, p \in Task : RemoveDependency(t, p)
        BY <1>8 DEF Unlink
    <2>2. \A x \in Task : \/ status'[x] = status[x]
                          \/ status[x] \in {"todo", "ready"} /\ status'[x] \in {"todo", "ready"}
        BY <2>1 DEF RemoveDependency, ResolvedStatus, StoreInv, TypeOK
    <2> QED
        BY <2>1, <2>2, FlipKeeps DEF RemoveDependency
<1>9. CASE Tick
    <2>1. \A x \in Task : ttl[x] # NULL => ttl'[x] # NULL
        <3> SUFFICES ASSUME NEW x \in Task, ttl[x] # NULL PROVE ttl'[x] # NULL
            OBVIOUS
        <3>1. ttl[x] \in Int /\ ttl[x] - 1 \in Int /\ NULL \notin Int
            BY DEF StoreInv, TypeOK
        <3>2. ttl'[x] = ttl[x] - 1 \/ ttl'[x] = ttl[x]
            BY <1>9 DEF Tick
        <3> QED
            BY <3>1, <3>2
    <2> QED
        BY <1>9, <2>1, ExpiryKeeps DEF Tick
<1>10. CASE Elapse
    <2>1. UNCHANGED <<status, lock, ttl, run, fails, maxRetries, runs>>
        BY <1>10 DEF Elapse, BackoffElapses
    <2> QED
        BY <2>1, ExpiryKeeps
<1>11. CASE UNCHANGED vars
    <2>1. UNCHANGED <<status, lock, ttl, run, fails, maxRetries, runs>>
        BY <1>11 DEF vars, taskVars
    <2> QED
        BY <2>1, ExpiryKeeps
<1> QED
    BY <1>1, <1>2, <1>3, <1>4, <1>5, <1>6, <1>7, <1>8, <1>9, <1>10, <1>11 DEF Next

(* The joint invariant holds in every reachable state of the store. *)
THEOREM StoreInvariant == Spec => []StoreInv
BY StoreInit, StoreStep, PTL DEF Spec

(* A task that carries a claim lock always has a current run of its own    *)
(* under that lock and an expiry: no interleaving of claims, heartbeats,   *)
(* TTL releases and retries leaves a lock that nothing can release.        *)
THEOREM ClaimsAreRecorded == Spec => []LockMatchesRun
<1>1. StoreInv => LockMatchesRun
    BY DEF StoreInv
<1> QED
    BY <1>1, StoreInvariant, PTL

(* The current run is open exactly as long as its task is unfinished. *)
THEOREM RunsFollowTasks == Spec => []RunFollowsTask
<1>1. StoreInv => RunFollowsTask
    BY DEF StoreInv
<1> QED
    BY <1>1, StoreInvariant, PTL

(* No task fails more than max_retries + 1 times in a row, whoever fails   *)
(* and retries it.                                                         *)
THEOREM RetriesAreBounded == Spec => []RetryBudget
<1>1. StoreInv => RetryBudget
    BY DEF StoreInv
<1> QED
    BY <1>1, StoreInvariant, PTL

(* A step only touches runs that are open or not yet used. *)
LEMMA EndedRunsStay ==
    ASSUME StoreInv, [Next]_vars, NEW q \in RunId, runs[q].status \in EndedRun
    PROVE  runs'[q] = runs[q]
<1>0. runs[q].status # "running" /\ runs[q].status # "free"
    BY DEF EndedRun
<1>1. ASSUME NEW t \in Task, NEW new \in TaskStatus, NEW cl, NEW res,
             UpdateTaskStatus(t, new, cl, res)
      PROVE  runs'[q] = runs[q]
    <2>1. CASE new \in {"completed", "failed"} /\ run[t] # NULL
        <3>1. status[t] \in Unfinished
            BY <1>1, <2>1 DEF UpdateTaskStatus, VALID_TRANSITIONS,
                              Lifecycle!VALID_TRANSITIONS, Unfinished
        <3>2. run[t] # q
            BY <1>0, <2>1, <3>1 DEF StoreInv, RunFollowsTask
        <3>3. runs' = EndRun(run[t], "done") \/ runs' = EndRun(run[t], "failed")
            BY <1>1, <2>1 DEF UpdateTaskStatus
        <3> QED
            BY <2>1, <3>2, <3>3 DEF EndRun, StoreInv, TypeOK
    <2>2. CASE new \notin {"completed", "failed"} \/ run[t] = NULL
        BY <1>1, <2>2 DEF UpdateTaskStatus, EndRun
    <2> QED
        BY <2>1, <2>2
<1>2. ASSUME NEW t \in Task, NEW l \in Lock, NEW k \in ClaimTTLs, ClaimTask(t, l, k)
      PROVE  runs'[q] = runs[q]
    BY <1>0, <1>2 DEF ClaimTask, FreeRuns, StoreInv, TypeOK
<1>3. CASE ReleaseExpiredClaims
    <2>1. ~ \E t \in Expired : run[t] = q
        BY <1>0 DEF Expired, StoreInv, RunFollowsTask, Unfinished
    <2> QED
        BY <1>3, <2>1 DEF ReleaseExpiredClaims
<1>4. CASE PromoteRetryableTasks
    <2>1. PICK f \in [Retryable -> FreeRuns] :
            runs' = [r \in RunId |->
                      IF \E t \in Retryable : f[t] = r
                      THEN [task |-> CHOOSE t \in Retryable : f[t] = r,
                            status |-> "running", lock |-> NULL]
                      ELSE runs[r]]
        BY <1>4 DEF PromoteRetryableTasks
    <2>2. ~ \E t \in Retryable : f[t] = q
        BY <1>0 DEF FreeRuns
    <2> QED
        BY <2>1, <2>2
<1>5. CASE Create \/ Beat \/ Link \/ Unlink \/ Tick \/ Elapse \/ UNCHANGED vars
    BY <1>5 DEF Create, CreateTask, Beat, Heartbeat, Link, AddDependency, Unlink,
                RemoveDependency, Tick, Elapse, BackoffElapses, vars
<1> QED
    BY <1>1, <1>2, <1>3, <1>4, <1>5 DEF Next, Update, Claim

(* The outcome of an ended run is never rewritten: a late completion, a    *)
(* second TTL release or a retry finds another run, or none.               *)
THEOREM OutcomesAreFinal == Spec => RunOutcomeFinal
<1>1. StoreInv /\ [Next]_vars =>
        [\A r \in RunId : runs[r].status \in EndedRun => runs'[r] = runs[r]]_vars
    BY EndedRunsStay
<1> QED
    BY <1>1, StoreInvariant, PTL DEF Spec, RunOutcomeFinal

-----------------------------------------------------------------------------
(* Claims as leases *)

(* A step that at most moves one task between having a claimant and having  *)
(* none is a step of the lease specification.                               *)
LEMMA OneClaimMoves ==
    ASSUME NEW t \in Task, Claimant'[t] \in Lock \cup {NULL},
           Claimant[t] = NULL \/ Claimant'[t] \in {NULL, Claimant[t]},
           \A x \in Task \ {t} : Claimant'[x] = Claimant[x]
    PROVE  [Claims!Next]_Claimant
<1>0. /\ DOMAIN Claimant = Task /\ Claimant = [x \in Task |-> Claimant[x]]
      /\ Claimant' = [x \in Task |-> Claimant'[x]]
    BY DEF Claimant
<1> HIDE DEF Claimant
<1>1. CASE Claimant'[t] = Claimant[t]
    <2>1. \A x \in Task : Claimant'[x] = Claimant[x]
        BY <1>1
    <2> QED
        BY <1>0, <2>1
<1>2. CASE Claimant'[t] = NULL
    <2>1. Claimant' = [x \in Task |-> IF x \in {t} THEN NULL ELSE Claimant[x]]
        BY <1>0, <1>2
    <2>2. {t} \in SUBSET Task /\ Claims!Release({t})
        BY <2>1 DEF Claims!Release
    <2> QED
        BY <2>2 DEF Claims!Next
<1>3. CASE Claimant[t] = NULL /\ Claimant'[t] \in Lock
    <2>1. Claimant' = [Claimant EXCEPT ![t] = Claimant'[t]]
        BY <1>0
    <2>2. Claims!Acquire(t, Claimant'[t])
        BY <1>3, <2>1 DEF Claims!Acquire
    <2> QED
        BY <1>3, <2>2 DEF Claims!Next
<1> QED
    BY <1>1, <1>2, <1>3

(* A step that frees a set of tasks is a step of the lease specification.   *)
LEMMA ClaimsEnd ==
    ASSUME NEW S \in SUBSET Task,
           \A x \in Task : Claimant'[x] = IF x \in S THEN NULL ELSE Claimant[x]
    PROVE  [Claims!Next]_Claimant
<1>1. Claims!Release(S)
    BY DEF Claims!Release, Claimant
<1> QED
    BY <1>1 DEF Claims!Next

LEMMA LeaseStep == TypeOK /\ [Next]_vars => [Claims!Next]_Claimant
<1> SUFFICES ASSUME TypeOK, [Next]_vars PROVE [Claims!Next]_Claimant
    OBVIOUS
<1>0. \A x \in Task : lock[x] \in Lock \cup {NULL}
    BY DEF TypeOK
<1>1. CASE Update
    <2>1. PICK t \in Task, new \in TaskStatus, cl \in Lock \cup {NULL},
               res \in Result \cup {NULL} : UpdateTaskStatus(t, new, cl, res)
        BY <1>1 DEF Update
    <2>2. /\ <<status[t], new>> \in VALID_TRANSITIONS /\ status'[t] = new
          /\ \A x \in Task \ {t} :
                \/ status'[x] = status[x]
                \/ <<status[x], status'[x]>> \in {<<"todo", "ready">>, <<"ready", "todo">>}
        BY <2>1, UpdateStatuses
    <2>3. lock' = lock
        BY <2>1 DEF UpdateTaskStatus
    <2>4. \A x \in Task \ {t} : Claimant'[x] = Claimant[x]
        BY <2>2, <2>3 DEF Claimant
    <2>5. Claimant[t] \in {NULL, lock[t]} /\ Claimant'[t] \in {NULL, lock[t]}
        BY <2>3 DEF Claimant
    <2> QED
        BY <1>0, <2>4, <2>5, OneClaimMoves
<1>2. CASE Create
    <2>1. PICK t \in Task : ~Exists(t) /\ lock' = lock
            /\ \E s \in {"ready", "todo"} : status' = [status EXCEPT ![t] = s]
        BY <1>2 DEF Create, CreateTask
    <2> QED
        BY <2>1 DEF Claimant, Exists, TypeOK
<1>3. CASE Claim
    <2>1. PICK t \in Task, l \in Lock, k \in ClaimTTLs : ClaimTask(t, l, k)
        BY <1>3 DEF Claim
    <2>2. /\ status[t] = "ready"
          /\ status' = [status EXCEPT ![t] = "running"]
          /\ lock' = [lock EXCEPT ![t] = l]
        BY <2>1 DEF ClaimTask
    <2>3. Claimant[t] = NULL /\ Claimant'[t] = l
        BY <2>2 DEF Claimant, TypeOK
    <2>4. \A x \in Task \ {t} : Claimant'[x] = Claimant[x]
        BY <2>2 DEF Claimant, TypeOK
    <2> QED
        BY <2>3, <2>4, OneClaimMoves
<1>4. CASE ReleaseExpiredClaims
    <2>1. \A x \in Task : Claimant'[x] = IF x \in Expired THEN NULL ELSE Claimant[x]
        BY <1>4 DEF ReleaseExpiredClaims, Claimant
    <2>2. Expired \in SUBSET Task
        BY DEF Expired
    <2> QED
        BY <2>1, <2>2, ClaimsEnd
<1>5. CASE PromoteRetryableTasks
    <2>1. /\ status' = [t \in Task |-> IF t \in Retryable THEN "ready" ELSE status[t]]
          /\ lock' = [t \in Task |-> IF t \in Retryable THEN NULL ELSE lock[t]]
          /\ \A t \in Retryable : status[t] = "failed"
        BY <1>5 DEF PromoteRetryableTasks, Retryable
    <2> QED
        BY <2>1 DEF Claimant
<1>6. CASE Link \/ Unlink
    <2>1. lock' = lock /\ \E t \in Task :
            status' = [status EXCEPT ![t] = ResolvedStatus(t, status, result, links', cond')]
        BY <1>6 DEF Link, AddDependency, Unlink, RemoveDependency, taskVars
    <2>2. \A x \in Task : \/ status'[x] = status[x]
                          \/ {status[x], status'[x]} = {"todo", "ready"}
        BY <2>1 DEF ResolvedStatus, TypeOK
    <2> QED
        BY <2>1, <2>2 DEF Claimant
<1>7. CASE Beat \/ Tick \/ Elapse \/ UNCHANGED vars
    BY <1>7 DEF Beat, Heartbeat, Tick, Elapse, BackoffElapses, vars, taskVars, Claimant
<1> QED
    BY <1>1, <1>2, <1>3, <1>4, <1>5, <1>6, <1>7 DEF Next

(* Claims are exclusive: whatever calls the store gets, a running or blocked *)
(* task never passes from one claim lock to another without having been     *)
(* given up in between (claim_task, release_expired_claims,                 *)
(* promote_retryable_tasks).                                                *)
THEOREM StoreImplementsLease == Spec => ImplementsLease
<1>1. Init => Claims!Init
    BY DEF Init, Claims!Init, Claimant
<1> QED
    BY <1>1, LeaseStep, TypeCorrect, PTL DEF Spec, ImplementsLease, Claims!Spec

(* Both halves of what claim_task promises: exclusive claims, and records   *)
(* whose outcome is final.                                                  *)
THEOREM StoreClaimsAreKept == Spec => ClaimsKept
BY OutcomesAreFinal, StoreImplementsLease DEF ClaimsKept

-----------------------------------------------------------------------------
(* The dependency graph, the gate, and the lifecycle that the store keeps to. *)

(* Adding edges from P to t keeps a graph acyclic when t reaches no member *)
(* of P.  The descendants of t form a closed set C without P: a set of     *)
(* nodes has its parentless member outside C if it sticks out of C, and    *)
(* is not affected by the new edges if it does not.                        *)
LEMMA NewEdgesAcyclic ==
    ASSUME NEW N, NEW L \in SUBSET (N \X N), NEW t \in N, NEW P \in SUBSET N,
           AcyclicLinks(N, L), \A p \in P : ~Reaches(N, L, t, p),
           NEW M, \A e \in M : e \in L \/ \E p \in P : e = <<p, t>>
    PROVE  AcyclicLinks(N, M)
<1> DEFINE C == {x \in N : Reaches(N, L, t, x)}
<1>1. t \in C
    BY DEF Reaches
<1>2. \A x, y \in N : x \in C /\ <<x, y>> \in L => y \in C
    <2> SUFFICES ASSUME NEW x \in N, NEW y \in N, Reaches(N, L, t, x), <<x, y>> \in L,
                        NEW S \in SUBSET N, t \in S, ClosedUnderChildren(S, L)
                 PROVE  y \in S
        BY DEF Reaches
    <2>1. x \in S
        BY DEF Reaches
    <2>2. <<x, y>>[1] \in S => <<x, y>>[2] \in S
        BY DEF ClosedUnderChildren
    <2> QED
        BY <2>1, <2>2
<1>3. \A p \in P : p \notin C
    OBVIOUS
<1> HIDE DEF C
<1> SUFFICES ASSUME NEW S \in SUBSET N, S # {}
             PROVE  \E m \in S : \A p \in S : <<p, m>> \notin M
    BY DEF AcyclicLinks
<1>4. CASE S \subseteq C
    <2>1. PICK m \in S : \A p \in S : <<p, m>> \notin L
        BY DEF AcyclicLinks
    <2> QED
        BY <1>3, <1>4, <2>1
<1>5. CASE ~(S \subseteq C)
    <2>1. S \ C \in SUBSET N /\ S \ C # {}
        BY <1>5
    <2>2. PICK m \in S \ C : \A p \in S \ C : <<p, m>> \notin L
        BY <2>1 DEF AcyclicLinks
    <2>3. \A p \in S : <<p, m>> \notin L
        BY <1>2, <2>2
    <2>4. m # t
        BY <1>1, <2>2
    <2> QED
        BY <2>2, <2>3, <2>4
<1> QED
    BY <1>4, <1>5

(* Removing edges keeps a graph acyclic. *)
LEMMA FewerEdgesAcyclic ==
    ASSUME NEW N, NEW L, NEW M, M \subseteq L, AcyclicLinks(N, L)
    PROVE  AcyclicLinks(N, M)
BY DEF AcyclicLinks

(* Steps that are not about links leave them alone. *)
LEMMA LinksChange ==
    ASSUME [Next]_vars, ~Create, ~Link, ~Unlink
    PROVE  UNCHANGED <<links, cond>>
<1>1. CASE Update
    BY <1>1 DEF Update, UpdateTaskStatus
<1>2. CASE Claim
    BY <1>2 DEF Claim, ClaimTask
<1>3. CASE Beat \/ Tick \/ Elapse
    BY <1>3 DEF Beat, Heartbeat, Tick, Elapse, BackoffElapses
<1>4. CASE ReleaseExpiredClaims
    BY <1>4 DEF ReleaseExpiredClaims
<1>5. CASE PromoteRetryableTasks
    BY <1>5 DEF PromoteRetryableTasks
<1>6. CASE UNCHANGED vars
    BY <1>6 DEF vars
<1> QED
    BY <1>1, <1>2, <1>3, <1>4, <1>5, <1>6 DEF Next

(* Every store method keeps the dependency graph acyclic. *)
LEMMA AcyclicStep == TypeOK /\ Acyclic /\ [Next]_vars => Acyclic'
<1> SUFFICES ASSUME TypeOK, Acyclic, [Next]_vars PROVE Acyclic'
    OBVIOUS
<1>0. links \in SUBSET (Task \X Task)
    BY DEF TypeOK
<1>1. CASE Create
    <2>1. PICK t \in Task, P \in SUBSET Task :
            /\ \A p \in P : ~Reaches(Task, links, t, p)
            /\ links' = links \cup {<<p, t>> : p \in P}
        BY <1>1 DEF Create, CreateTask, DetectCycle
    <2>2. \A e \in links' : e \in links \/ \E p \in P : e = <<p, t>>
        BY <2>1
    <2>3. AcyclicLinks(Task, links)
        BY DEF Acyclic
    <2>4. AcyclicLinks(Task, links')
        BY <1>0, <2>1, <2>2, <2>3, NewEdgesAcyclic
    <2> QED
        BY <2>4 DEF Acyclic
<1>2. CASE Link
    <2>1. PICK t \in Task, p \in Task :
            ~Reaches(Task, links, t, p) /\ links' = links \cup {<<p, t>>}
        BY <1>2 DEF Link, AddDependency, DetectCycle
    <2>2. /\ {p} \in SUBSET Task
          /\ \A q \in {p} : ~Reaches(Task, links, t, q)
          /\ \A e \in links' : e \in links \/ \E q \in {p} : e = <<q, t>>
        BY <2>1
    <2>3. AcyclicLinks(Task, links)
        BY DEF Acyclic
    <2>4. AcyclicLinks(Task, links')
        BY <1>0, <2>2, <2>3, NewEdgesAcyclic
    <2> QED
        BY <2>4 DEF Acyclic
<1>3. CASE Unlink
    <2>1. links' \subseteq links
        BY <1>3 DEF Unlink, RemoveDependency
    <2> QED
        BY <2>1, FewerEdgesAcyclic DEF Acyclic
<1>4. CASE ~Create /\ ~Link /\ ~Unlink
    BY <1>4, LinksChange DEF Acyclic
<1> QED
    BY <1>1, <1>2, <1>3, <1>4

(* The cycle test of create_task and add_dependency keeps the task graph a *)
(* DAG, for every number of tasks and every sequence of edits.             *)
THEOREM GraphStaysAcyclic == Spec => []Acyclic
<1>1. Init => Acyclic
    BY DEF Init, Acyclic, AcyclicLinks
<1> QED
    BY <1>1, AcyclicStep, TypeCorrect, PTL DEF Spec

-----------------------------------------------------------------------------
(* Refinement *)

(* A step of the store is a step of the abstract lifecycle or a stutter. *)
LEMMA LifecycleStep == TypeOK /\ [Next]_vars => [Lifecycle!Next]_status
<1> SUFFICES ASSUME TypeOK, [Next]_vars PROVE [Lifecycle!Next]_status
    OBVIOUS
<1>1. CASE Create
    <2>1. PICK t \in Task, P \in SUBSET Task :
            /\ status[t] = "absent"
            /\ status' = [status EXCEPT ![t] = IF P = {} THEN "ready" ELSE "todo"]
        BY <1>1 DEF Create, CreateTask, Exists
    <2>2. Lifecycle!Create(t)
        BY <2>1 DEF Lifecycle!Create, Lifecycle!InitialStatus
    <2> QED
        BY <2>2 DEF Lifecycle!Next
<1>2. CASE Update
    <2>1. PICK t \in Task, new \in TaskStatus, cl \in Lock \cup {NULL},
               res \in Result \cup {NULL} : UpdateTaskStatus(t, new, cl, res)
        BY <1>2 DEF Update
    <2> DEFINE D == {x \in Task \ {t} : status'[x] # status[x]}
    <2>2. /\ <<status[t], new>> \in Lifecycle!VALID_TRANSITIONS
          /\ status'[t] = new
          /\ new # "completed" => D = {}
          /\ \A x \in D : status'[x] = Lifecycle!Flip(status[x])
        BY <2>1, UpdateStatuses DEF VALID_TRANSITIONS, Lifecycle!Flip
    <2>3. status' = [x \in Task |-> status'[x]]
        BY <2>1, TypeStep DEF TypeOK
    <2>4. status' = [x \in Task |->
                        IF x = t THEN new
                        ELSE IF x \in D THEN Lifecycle!Flip(status[x]) ELSE status[x]]
        BY <2>2, <2>3
    <2>5. D \in SUBSET (Task \ {t}) /\ new \in Lifecycle!TaskStatus
        BY DEF TaskStatus
    <2> HIDE DEF D
    <2>6. Lifecycle!Move(t)
        BY <2>2, <2>4, <2>5 DEF Lifecycle!Move
    <2> QED
        BY <2>6 DEF Lifecycle!Next
<1>3. CASE Claim
    <2>1. PICK t \in Task : status[t] = "ready" /\ status' = [status EXCEPT ![t] = "running"]
        BY <1>3 DEF Claim, ClaimTask
    <2>2. status' = [x \in Task |->
                        IF x = t THEN "running"
                        ELSE IF x \in {} THEN Lifecycle!Flip(status[x]) ELSE status[x]]
        BY <2>1 DEF TypeOK
    <2>3. <<status[t], "running">> \in Lifecycle!VALID_TRANSITIONS
        BY <2>1 DEF Lifecycle!VALID_TRANSITIONS
    <2>4. {} \in SUBSET (Task \ {t}) /\ "running" \in Lifecycle!TaskStatus
        BY DEF Lifecycle!TaskStatus
    <2>5. Lifecycle!Move(t)
        BY <2>2, <2>3, <2>4 DEF Lifecycle!Move
    <2> QED
        BY <2>5 DEF Lifecycle!Next
<1>4. CASE ReleaseExpiredClaims
    <2>1. Expired \in SUBSET Task /\ Lifecycle!Expire(Expired)
        BY <1>4 DEF ReleaseExpiredClaims, Expired, Lifecycle!Expire
    <2> QED
        BY <2>1 DEF Lifecycle!Next
<1>5. CASE PromoteRetryableTasks
    <2>1. Retryable \in SUBSET Task /\ Lifecycle!Retry(Retryable)
        BY <1>5 DEF PromoteRetryableTasks, Retryable, Lifecycle!Retry
    <2> QED
        BY <2>1 DEF Lifecycle!Next
<1>6. CASE Link \/ Unlink
    <2>1. PICK t \in Task :
            status' = [status EXCEPT ![t] = ResolvedStatus(t, status, result, links', cond')]
        BY <1>6 DEF Link, AddDependency, Unlink, RemoveDependency
    <2>2. \/ ResolvedStatus(t, status, result, links', cond') = status[t]
          \/ ResolvedStatus(t, status, result, links', cond') = Lifecycle!Flip(status[t])
        BY DEF ResolvedStatus, Lifecycle!Flip
    <2>3. status' = status \/ Lifecycle!Resolve(t)
        BY <2>1, <2>2 DEF Lifecycle!Resolve, TypeOK
    <2> QED
        BY <2>3 DEF Lifecycle!Next
<1>7. CASE Beat \/ Tick \/ Elapse \/ UNCHANGED vars
    BY <1>7 DEF Beat, Heartbeat, Tick, Elapse, BackoffElapses, vars
<1> QED
    BY <1>1, <1>2, <1>3, <1>4, <1>5, <1>6, <1>7 DEF Next

(* The store, with its claims, runs, retries and dependency edits,         *)
(* implements the abstract task lifecycle.                                 *)
THEOREM StoreImplementsLifecycle == Spec => ImplementsLifecycle
<1>1. Init => Lifecycle!Init
    BY DEF Init, Lifecycle!Init
<1> QED
    BY <1>1, LifecycleStep, TypeCorrect, PTL DEF Spec, ImplementsLifecycle, Lifecycle!Spec

-----------------------------------------------------------------------------
(* Dependency satisfaction *)

(* A finished parent stays finished, with the result it finished with. *)
LEMMA FinishedStays ==
    ASSUME TypeOK, [Next]_vars, NEW p \in Task, status[p] \in {"completed", "archived"}
    PROVE  status'[p] \in {"completed", "archived"} /\ result'[p] = result[p]
<1>1. CASE Update
    <2>1. PICK t \in Task, new \in TaskStatus, cl \in Lock \cup {NULL},
               res \in Result \cup {NULL} : UpdateTaskStatus(t, new, cl, res)
        BY <1>1 DEF Update
    <2>2. /\ <<status[t], new>> \in VALID_TRANSITIONS
          /\ status'[t] = new
          /\ p # t => status'[p] = status[p]
        BY <2>1, UpdateStatuses
    <2>3. result' = IF new = "completed" /\ res # NULL
                    THEN [result EXCEPT ![t] = res] ELSE result
        BY <2>1 DEF UpdateTaskStatus
    <2>4. CASE p # t
        BY <2>2, <2>3, <2>4 DEF TypeOK
    <2>5. CASE p = t
        <3>1. new = "archived"
            BY <2>2, <2>5 DEF VALID_TRANSITIONS, Lifecycle!VALID_TRANSITIONS
        <3> QED
            BY <2>2, <2>3, <2>5, <3>1
    <2> QED
        BY <2>4, <2>5
<1>2. CASE Create
    BY <1>2 DEF Create, CreateTask, Exists, TypeOK
<1>3. CASE Claim
    BY <1>3 DEF Claim, ClaimTask, TypeOK
<1>4. CASE ReleaseExpiredClaims
    BY <1>4 DEF ReleaseExpiredClaims, Expired
<1>5. CASE PromoteRetryableTasks
    BY <1>5 DEF PromoteRetryableTasks, Retryable
<1>6. CASE Link \/ Unlink
    <2>1. result' = result /\ \E t \in Task :
            status' = [status EXCEPT ![t] = ResolvedStatus(t, status, result, links', cond')]
        BY <1>6 DEF Link, AddDependency, Unlink, RemoveDependency, taskVars
    <2>2. ResolvedStatus(p, status, result, links', cond') = status[p]
        BY DEF ResolvedStatus
    <2> QED
        BY <2>1, <2>2 DEF TypeOK
<1>7. CASE Beat \/ Tick \/ Elapse \/ UNCHANGED vars
    BY <1>7 DEF Beat, Heartbeat, Tick, Elapse, BackoffElapses, vars, taskVars
<1> QED
    BY <1>1, <1>2, <1>3, <1>4, <1>5, <1>6, <1>7 DEF Next

(* A satisfied link stays satisfied until that link is edited. *)
THEOREM SatisfactionIsStable == Spec => SatisfactionStable
<1>1. TypeOK /\ [Next]_vars =>
        [\A t \in Task :
            /\ links' = links /\ cond' = cond
            /\ Satisfied(t, status, result, links, cond)
            => Satisfied(t, status', result', links', cond')]_vars
    BY FinishedStays DEF Satisfied
<1> QED
    BY <1>1, TypeCorrect, PTL DEF Spec, SatisfactionStable

(* A parent that is finished after a step was so before it, with the same   *)
(* result, unless this very step completed it or archived it unfinished.    *)
LEMMA FinishedBefore ==
    ASSUME TypeOK, [Next]_vars, NEW p \in Task, status'[p] \in {"completed", "archived"}
    PROVE  \/ status[p] \in {"completed", "archived"} /\ result'[p] = result[p]
           \/ status[p] \in {"failed", "cancelled"} /\ status'[p] = "archived"
           \/ \E cl \in Lock \cup {NULL}, res \in Result \cup {NULL} :
                UpdateTaskStatus(p, "completed", cl, res)
<1>1. CASE Update
    <2>1. PICK t \in Task, new \in TaskStatus, cl \in Lock \cup {NULL},
               res \in Result \cup {NULL} : UpdateTaskStatus(t, new, cl, res)
        BY <1>1 DEF Update
    <2>2. /\ <<status[t], new>> \in VALID_TRANSITIONS
          /\ status'[t] = new
          /\ p # t => \/ status'[p] = status[p]
                      \/ <<status[p], status'[p]>> \in {<<"todo", "ready">>, <<"ready", "todo">>}
        BY <2>1, UpdateStatuses
    <2>3. result' = IF new = "completed" /\ res # NULL
                    THEN [result EXCEPT ![t] = res] ELSE result
        BY <2>1 DEF UpdateTaskStatus
    <2>4. CASE p # t
        BY <2>2, <2>3, <2>4 DEF TypeOK
    <2>5. CASE p = t /\ new = "completed"
        BY <2>1, <2>5
    <2>6. CASE p = t /\ new = "archived"
        BY <2>2, <2>3, <2>6 DEF VALID_TRANSITIONS, Lifecycle!VALID_TRANSITIONS
    <2> QED
        BY <2>2, <2>4, <2>5, <2>6
<1>2. CASE Create
    BY <1>2 DEF Create, CreateTask, Exists, TypeOK
<1>3. CASE Claim
    BY <1>3 DEF Claim, ClaimTask, TypeOK
<1>4. CASE ReleaseExpiredClaims
    BY <1>4 DEF ReleaseExpiredClaims, Expired
<1>5. CASE PromoteRetryableTasks
    BY <1>5 DEF PromoteRetryableTasks, Retryable
<1>6. CASE Link \/ Unlink
    <2>1. result' = result /\ \E t \in Task :
            status' = [status EXCEPT ![t] = ResolvedStatus(t, status, result, links', cond')]
        BY <1>6 DEF Link, AddDependency, Unlink, RemoveDependency, taskVars
    <2> QED
        BY <2>1 DEF ResolvedStatus, TypeOK
<1>7. CASE Beat \/ Tick \/ Elapse \/ UNCHANGED vars
    BY <1>7 DEF Beat, Heartbeat, Tick, Elapse, BackoffElapses, vars, taskVars
<1> QED
    BY <1>1, <1>2, <1>3, <1>4, <1>5, <1>6, <1>7 DEF Next

(* The links into t, or the one graph edit that touched them.               *)
LEMMA LinksInto ==
    ASSUME TypeOK, [Next]_vars, NEW t \in Task, Exists(t)
    PROVE  \/ \A p \in Task : /\ <<p, t>> \in links' <=> <<p, t>> \in links
                             /\ cond'[<<p, t>>] = cond[<<p, t>>]
           \/ /\ status' = [status EXCEPT ![t] = ResolvedStatus(t, status, result, links', cond')]
              /\ result' = result
<1>1. CASE Create
    <2>1. PICK x \in Task, P \in SUBSET Task, m \in RetryLimits \cup {NULL} :
            \E c \in [P -> Result \cup {NULL}] : CreateTask(x, P, c, m)
        BY <1>1 DEF Create
    <2>2. PICK c \in [P -> Result \cup {NULL}] : CreateTask(x, P, c, m)
        BY <2>1
    <2>3. t # x
        BY <2>2 DEF CreateTask
    <2> QED
        BY <2>2, <2>3 DEF CreateTask, TypeOK
<1>2. CASE Link \/ Unlink
    <2>1. PICK x \in Task, p \in Task :
            /\ links' = links \cup {<<p, x>>} \/ links' = links \ {<<p, x>>}
            /\ \E c : cond' = [cond EXCEPT ![<<p, x>>] = c]
            /\ status' = [status EXCEPT ![x] = ResolvedStatus(x, status, result, links', cond')]
            /\ result' = result
        BY <1>2 DEF Link, AddDependency, Unlink, RemoveDependency, taskVars
    <2>2. CASE x = t
        BY <2>1, <2>2
    <2>3. CASE x # t
        <3>1. \A q \in Task : <<q, t>> # <<p, x>>
            BY <2>3
        <3> QED
            BY <2>1, <3>1 DEF TypeOK
    <2> QED
        BY <2>2, <2>3
<1>3. CASE ~Create /\ ~Link /\ ~Unlink
    <2>1. links' = links /\ cond' = cond
        BY <1>3, LinksChange
    <2> QED
        BY <2>1
<1> QED
    BY <1>1, <1>2, <1>3

(* The step that satisfies the last dependency of a waiting task.           *)
LEMMA SatisfyingStep ==
    ASSUME TypeOK, [Next]_vars, NEW t \in Task, status[t] = "todo",
           ~Satisfied(t, status, result, links, cond),
           Satisfied(t, status', result', links', cond')
    PROVE  status'[t] = "ready" \/ ParentArchivedUnfinished(t)
<1>0. Exists(t)
    BY DEF Exists
<1>1. CASE /\ status' = [status EXCEPT ![t] = ResolvedStatus(t, status, result, links', cond')]
           /\ result' = result
    <2>1. \A p \in Task : status'[p] \in {"completed", "archived"} => status'[p] = status[p]
        BY <1>1 DEF ResolvedStatus, TypeOK
    <2>2. Satisfied(t, status, result, links', cond')
        BY <1>1, <2>1 DEF Satisfied
    <2> QED
        BY <1>1, <2>2 DEF ResolvedStatus, TypeOK
<1>2. CASE \A p \in Task : /\ <<p, t>> \in links' <=> <<p, t>> \in links
                           /\ cond'[<<p, t>>] = cond[<<p, t>>]
    <2>1. PICK p \in Task : /\ <<p, t>> \in links
                            /\ status'[p] \in {"completed", "archived"}
                            /\ ~(/\ status[p] \in {"completed", "archived"}
                                 /\ result'[p] = result[p])
        BY <1>2 DEF Satisfied
    <2>2. CASE status[p] \in {"failed", "cancelled"} /\ status'[p] = "archived"
        BY <2>1, <2>2 DEF ParentArchivedUnfinished, Parents
    <2>3. CASE \E cl \in Lock \cup {NULL}, res \in Result \cup {NULL} :
                UpdateTaskStatus(p, "completed", cl, res)
        <3>1. PICK cl \in Lock \cup {NULL}, res \in Result \cup {NULL} :
                UpdateTaskStatus(p, "completed", cl, res)
            BY <2>3
        <3> DEFINE st == [status EXCEPT ![p] = "completed"]
        <3>2. /\ status' = [x \in Task |->
                    IF x \in Children(p) THEN ResolvedStatus(x, st, result', links, cond)
                    ELSE st[x]]
              /\ <<status[p], "completed">> \in VALID_TRANSITIONS
            BY <3>1 DEF UpdateTaskStatus
        <3>3. t \in Children(p) /\ t # p
            BY <2>1, <3>2 DEF Children, VALID_TRANSITIONS, Lifecycle!VALID_TRANSITIONS
        <3>4. st[t] = "todo"
            BY <3>3
        <3>5. \A x \in Task : status'[x] \in {"completed", "archived"} => st[x] = status'[x]
            BY <3>2 DEF ResolvedStatus
        <3> HIDE DEF st
        <3>6. Satisfied(t, st, result', links, cond)
            BY <1>2, <3>5 DEF Satisfied
        <3> QED
            BY <3>2, <3>3, <3>4, <3>6 DEF ResolvedStatus
    <2> QED
        BY <2>1, <2>2, <2>3, FinishedBefore
<1> QED
    BY <1>0, <1>1, <1>2, LinksInto

(* Dependency resolution strands nobody: whenever the last dependency of a  *)
(* waiting task becomes satisfied, the same transaction makes it ready,     *)
(* unless what satisfied it was the archiving of a failed or cancelled      *)
(* parent (update_task_status, add_dependency, remove_dependency).          *)
THEOREM NobodyIsStranded == Spec => NobodyStranded
<1>1. TypeOK /\ [Next]_vars =>
        [\A t \in Task :
            /\ status[t] = "todo"
            /\ ~Satisfied(t, status, result, links, cond)
            /\ Satisfied(t, status', result', links', cond')
            => status'[t] = "ready" \/ ParentArchivedUnfinished(t)]_vars
    BY SatisfyingStep
<1> QED
    BY <1>1, TypeCorrect, PTL DEF Spec, NobodyStranded

(* Dependency resolution neither forgets a task nor takes back what an      *)
(* unedited link gave (_resolve_dependencies).                              *)
THEOREM ResolutionIsKept == Spec => ResolutionKept
BY SatisfactionIsStable, NobodyIsStranded DEF ResolutionKept

-----------------------------------------------------------------------------
(* No orphan rows *)

(* A created task stays in the table. *)
LEMMA ExistenceStays ==
    ASSUME TypeOK, [Next]_vars, NEW t \in Task, Exists(t)
    PROVE  Exists(t)'
<1>1. CASE Update
    <2>1. PICK x \in Task, new \in TaskStatus, cl \in Lock \cup {NULL},
               res \in Result \cup {NULL} : UpdateTaskStatus(x, new, cl, res)
        BY <1>1 DEF Update
    <2>2. new # "absent"
        BY DEF TaskStatus, Lifecycle!TaskStatus
    <2> QED
        BY <2>1, <2>2, UpdateStatuses DEF Exists
<1>2. CASE Create
    BY <1>2 DEF Create, CreateTask, Exists, TypeOK
<1>3. CASE Claim
    BY <1>3 DEF Claim, ClaimTask, TypeOK, Exists
<1>4. CASE ReleaseExpiredClaims
    BY <1>4 DEF ReleaseExpiredClaims, Exists
<1>5. CASE PromoteRetryableTasks
    BY <1>5 DEF PromoteRetryableTasks, Exists
<1>6. CASE Link \/ Unlink
    <2>1. PICK x \in Task :
            status' = [status EXCEPT ![x] = ResolvedStatus(x, status, result, links', cond')]
        BY <1>6 DEF Link, AddDependency, Unlink, RemoveDependency
    <2>2. status[t] # "absent" => ResolvedStatus(t, status, result, links', cond') # "absent"
        BY DEF ResolvedStatus
    <2> QED
        BY <2>1, <2>2 DEF TypeOK, Exists
<1>7. CASE Beat \/ Tick \/ Elapse \/ UNCHANGED vars
    BY <1>7 DEF Beat, Heartbeat, Tick, Elapse, BackoffElapses, vars, Exists
<1> QED
    BY <1>1, <1>2, <1>3, <1>4, <1>5, <1>6, <1>7 DEF Next

(* The task of a used run: unchanged, or the claimed or promoted task of   *)
(* this very step.                                                         *)
LEMMA RunTasks ==
    ASSUME StoreInv, [Next]_vars, NEW r \in RunId, runs'[r].status # "free"
    PROVE  \/ runs[r].status # "free" /\ runs'[r].task = runs[r].task
           \/ runs'[r].task \in Task /\ Exists(runs'[r].task)
<1>0. \A t \in Task : run[t] # NULL => run[t] \in RunId /\ runs[run[t]].status # "free"
    BY DEF StoreInv, TypeOK, RunOwned
<1>1. CASE Update
    <2>1. PICK t \in Task, new \in TaskStatus, cl \in Lock \cup {NULL},
               res \in Result \cup {NULL} : UpdateTaskStatus(t, new, cl, res)
        BY <1>1 DEF Update
    <2>2. runs' = runs \/ \E s \in EndedRun : runs' = EndRun(run[t], s)
        BY <2>1 DEF UpdateTaskStatus, EndedRun
    <2>3. runs'[r] = runs[r] \/ (r = run[t] /\ runs'[r].task = runs[r].task)
        BY <2>2 DEF EndRun, StoreInv, TypeOK, RunRecord
    <2> QED
        BY <1>0, <2>3
<1>2. CASE Claim
    <2>1. PICK t \in Task, l \in Lock, k \in ClaimTTLs : ClaimTask(t, l, k)
        BY <1>2 DEF Claim
    <2>2. PICK q \in RunId :
            runs' = [runs EXCEPT ![q] = [task |-> t, status |-> "running", lock |-> l]]
        BY <2>1 DEF ClaimTask, FreeRuns
    <2>3. CASE r = q
        BY <2>1, <2>2, <2>3 DEF ClaimTask, Exists, StoreInv, TypeOK
    <2>4. CASE r # q
        BY <2>2, <2>4 DEF StoreInv, TypeOK
    <2> QED
        BY <2>3, <2>4
<1>3. CASE ReleaseExpiredClaims
    <2>1. \A t \in Expired : t \in Task
        BY DEF Expired
    <2>2. runs'[r] = IF \E t \in Expired : run[t] = r
                     THEN [runs[r] EXCEPT !.status = "timed_out"] ELSE runs[r]
        BY <1>3 DEF ReleaseExpiredClaims
    <2>3. runs[r] \in RunRecord /\ r # NULL
        BY DEF StoreInv, TypeOK
    <2>4. runs'[r].task = runs[r].task
        BY <2>2, <2>3 DEF RunRecord
    <2> QED
        BY <1>0, <2>1, <2>2, <2>3, <2>4
<1>4. CASE PromoteRetryableTasks
    <2>1. PICK f \in [Retryable -> FreeRuns] :
            runs' = [q \in RunId |->
                      IF \E t \in Retryable : f[t] = q
                      THEN [task |-> CHOOSE t \in Retryable : f[t] = q,
                            status |-> "running", lock |-> NULL]
                      ELSE runs[q]]
        BY <1>4 DEF PromoteRetryableTasks
    <2>2. CASE \E t \in Retryable : f[t] = r
        <3>1. runs'[r].task = CHOOSE t \in Retryable : f[t] = r
            BY <2>1, <2>2
        <3>2. runs'[r].task \in Retryable
            BY <2>2, <3>1
        <3> QED
            BY <3>2 DEF Retryable, Exists
    <2>3. CASE ~ \E t \in Retryable : f[t] = r
        BY <2>1, <2>3
    <2> QED
        BY <2>2, <2>3
<1>5. CASE Create \/ Beat \/ Link \/ Unlink \/ Tick \/ Elapse \/ UNCHANGED vars
    BY <1>5 DEF Create, CreateTask, Beat, Heartbeat, Link, AddDependency, Unlink,
                RemoveDependency, Tick, Elapse, BackoffElapses, vars
<1> QED
    BY <1>1, <1>2, <1>3, <1>4, <1>5 DEF Next

(* Used runs have a task, not NULL. *)
RunsHaveTasks == \A r \in RunId : runs[r].status # "free" => runs[r].task \in Task

(* Every store method keeps the tables free of orphans. *)
LEMMA NoOrphanStep ==
    StoreInv /\ NoOrphanRows /\ RunsHaveTasks /\ [Next]_vars
        => NoOrphanRows' /\ RunsHaveTasks'
<1> SUFFICES ASSUME StoreInv, NoOrphanRows, RunsHaveTasks, [Next]_vars
             PROVE  NoOrphanRows' /\ RunsHaveTasks'
    OBVIOUS
<1>1. TypeOK
    BY DEF StoreInv
<1>2. \A r \in RunId : runs'[r].status # "free" =>
        runs'[r].task \in Task /\ Exists(runs'[r].task)
    BY RunTasks DEF NoOrphanRows, RunsHaveTasks
<1>3. \A t \in Task : Exists(t) => Exists(t)'
    BY <1>1, ExistenceStays
<1>4. \A e \in links' : e[1] \in Task /\ e[2] \in Task
    BY TypeStep DEF StoreInv, TypeOK
<1>5. \A e \in links' : e \in links \/ (status'[e[1]] # "absent" /\ status'[e[2]] # "absent")
    <2>1. CASE Create
        <3>1. PICK t \in Task, P \in SUBSET Task :
                /\ \A p \in P : Exists(p)
                /\ status' = [status EXCEPT ![t] = IF P = {} THEN "ready" ELSE "todo"]
                /\ links' = links \cup {<<p, t>> : p \in P}
            BY <2>1 DEF Create, CreateTask
        <3> QED
            BY <1>1, <3>1 DEF Exists, TypeOK
    <2>2. CASE Link
        <3>1. PICK t \in Task, p \in Task :
                Exists(t) /\ Exists(p) /\ links' = links \cup {<<p, t>>}
            BY <2>2 DEF Link, AddDependency
        <3> QED
            BY <1>3, <3>1 DEF Exists
    <2>3. CASE Unlink
        BY <2>3 DEF Unlink, RemoveDependency
    <2>4. CASE ~Create /\ ~Link /\ ~Unlink
        BY <2>4, LinksChange
    <2> QED
        BY <2>1, <2>2, <2>3, <2>4
<1>6. \A e \in links' : Exists(e[1])' /\ Exists(e[2])'
    BY <1>3, <1>4, <1>5 DEF NoOrphanRows, Exists
<1> QED
    BY <1>2, <1>3, <1>6 DEF NoOrphanRows, RunsHaveTasks, Exists

(* Links, claims and runs never refer to a task that was not created. *)
THEOREM NoOrphans == Spec => []NoOrphanRows
<1>1. Init => NoOrphanRows /\ RunsHaveTasks
    BY DEF Init, NoOrphanRows, RunsHaveTasks
<1> QED
    BY <1>1, NoOrphanStep, StoreInvariant, PTL DEF Spec

-----------------------------------------------------------------------------
(* The dependency gate *)

(* Satisfaction of t carries over a step that edits no link into t. *)
LEMMA SatisfiedStays ==
    ASSUME TypeOK, [Next]_vars, NEW t \in Task,
           Satisfied(t, status, result, links, cond),
           \A p \in Task : /\ <<p, t>> \in links' => <<p, t>> \in links
                           /\ <<p, t>> \in links => cond'[<<p, t>>] = cond[<<p, t>>]
    PROVE  Satisfied(t, status', result', links', cond')
BY FinishedStays DEF Satisfied

(* A task becomes ready, or stays so, behind the gate: a ready task        *)
(* outside bypass was either ready and outside bypass before, or was made  *)
(* ready by a resolution that found its parents satisfied.                 *)
LEMMA GateStep ==
    ASSUME StoreInv, NoOrphanRows, ReadyIsSatisfied, [Next]_vars,
           NEW t \in Task, status'[t] = "ready", t \notin bypass'
    PROVE  Satisfied(t, status', result', links', cond')
<1>0. TypeOK
    BY DEF StoreInv
<1>1. CASE Create
    <2>0. PICK x \in Task, P \in SUBSET Task, m \in RetryLimits \cup {NULL} :
            \E c \in [P -> Result \cup {NULL}] : CreateTask(x, P, c, m)
        BY <1>1 DEF Create
    <2>1. PICK c \in [P -> Result \cup {NULL}] : CreateTask(x, P, c, m)
        BY <2>0
    <2>2. CASE t = x
        <3>1. P = {} /\ ~Exists(t)
            BY <1>0, <2>1, <2>2 DEF CreateTask, TypeOK
        <3>2. \A p \in Task : <<p, t>> \notin links
            BY <3>1 DEF NoOrphanRows
        <3>3. links' = links
            BY <2>1, <3>1 DEF CreateTask
        <3> QED
            BY <3>2, <3>3 DEF Satisfied
    <2>3. CASE t # x
        <3>1. status[t] = "ready" /\ t \notin bypass
            BY <1>0, <2>1, <2>3 DEF CreateTask, TypeOK
        <3>2. \A p \in Task : /\ <<p, t>> \in links' => <<p, t>> \in links
                              /\ cond'[<<p, t>>] = cond[<<p, t>>]
            BY <2>1, <2>3 DEF CreateTask
        <3> QED
            BY <1>0, <3>1, <3>2, SatisfiedStays DEF ReadyIsSatisfied
    <2> QED
        BY <2>2, <2>3
<1>2. CASE Update
    <2>1. PICK x \in Task, new \in TaskStatus, cl \in Lock \cup {NULL},
               res \in Result \cup {NULL} : UpdateTaskStatus(x, new, cl, res)
        BY <1>2 DEF Update
    <2>2. UNCHANGED <<links, cond>> /\ Gate(IF new = "ready" THEN {x} ELSE {})
        BY <2>1 DEF UpdateTaskStatus
    <2>3. t # x /\ t \notin bypass
        BY <1>0, <2>1, <2>2, UpdateStatuses DEF Gate
    <2> DEFINE st == [status EXCEPT ![x] = new]
               rs == IF new = "completed" /\ res # NULL
                     THEN [result EXCEPT ![x] = res] ELSE result
    <2>4. /\ result' = rs
          /\ status' = [y \in Task |->
                        IF new = "completed" /\ y \in Children(x)
                        THEN ResolvedStatus(y, st, rs, links, cond) ELSE st[y]]
        BY <2>1 DEF UpdateTaskStatus
    <2>5. CASE status[t] = "ready"
        BY <1>0, <2>2, <2>3, <2>5, SatisfiedStays DEF ReadyIsSatisfied
    <2>6. CASE status[t] # "ready"
        <3>1. st[t] = status[t]
            BY <1>0, <2>3 DEF TypeOK
        <3>2. \A p \in Task : st[p] \in {"completed", "archived"} => status'[p] = st[p]
            BY <2>4 DEF ResolvedStatus
        <3> HIDE DEF st, rs
        <3>3. ResolvedStatus(t, st, rs, links, cond) = "ready"
            BY <2>4, <2>6, <3>1
        <3>4. Satisfied(t, st, rs, links, cond)
            BY <2>6, <3>1, <3>3 DEF ResolvedStatus
        <3> QED
            BY <2>2, <2>4, <3>2, <3>4 DEF Satisfied
    <2> QED
        BY <2>5, <2>6
<1>3. CASE Link \/ Unlink
    <2>1. PICK x \in Task :
            /\ status' = [status EXCEPT ![x] = ResolvedStatus(x, status, result, links', cond')]
            /\ \A q, y \in Task : y # x =>
                 /\ <<q, y>> \in links' => <<q, y>> \in links
                 /\ cond'[<<q, y>>] = cond[<<q, y>>]
            /\ Gate({}) /\ result' = result
        <3>1. PICK x \in Task, p \in Task :
                /\ links' = links \cup {<<p, x>>} \/ links' = links \ {<<p, x>>}
                /\ \E c : cond' = [cond EXCEPT ![<<p, x>>] = c]
                /\ status' = [status EXCEPT ![x] = ResolvedStatus(x, status, result, links', cond')]
                /\ Gate({}) /\ result' = result
            BY <1>3 DEF Link, AddDependency, Unlink, RemoveDependency, taskVars
        <3>2. \A q, y \in Task : y # x => <<q, y>> # <<p, x>>
            OBVIOUS
        <3>3. \A q, y \in Task : y # x =>
                 /\ <<q, y>> \in links' => <<q, y>> \in links
                 /\ cond'[<<q, y>>] = cond[<<q, y>>]
            BY <1>0, <3>1, <3>2 DEF TypeOK
        <3> QED
            BY <3>1, <3>3
    <2>2. t \notin bypass
        BY <2>1 DEF Gate
    <2>3. CASE t = x
        <3>1. ResolvedStatus(t, status, result, links', cond') = "ready"
            BY <1>0, <2>1, <2>3 DEF TypeOK
        <3>2. Satisfied(t, status, result, links', cond')
            BY <3>1 DEF ResolvedStatus
        <3> QED
            BY <1>0, <3>2, FinishedStays DEF Satisfied
    <2>4. CASE t # x
        <3>1. status[t] = "ready"
            BY <1>0, <2>1, <2>4 DEF TypeOK
        <3> QED
            BY <1>0, <2>1, <2>2, <2>4, <3>1, SatisfiedStays DEF ReadyIsSatisfied
    <2> QED
        BY <2>3, <2>4
<1>4. CASE PromoteRetryableTasks
    <2>1. t \notin Retryable /\ t \notin bypass
        BY <1>4 DEF PromoteRetryableTasks, Gate
    <2>2. status[t] = "ready" /\ UNCHANGED <<links, cond>>
        BY <1>4, <2>1 DEF PromoteRetryableTasks
    <2> QED
        BY <1>0, <2>1, <2>2, SatisfiedStays DEF ReadyIsSatisfied
<1>5. CASE Claim \/ Beat \/ ReleaseExpiredClaims \/ Tick \/ Elapse \/ UNCHANGED vars
    <2>1. status[t] = "ready" /\ UNCHANGED <<links, cond, bypass>>
        <3>1. CASE Claim
            BY <1>0, <3>1 DEF Claim, ClaimTask, TypeOK
        <3>2. CASE ReleaseExpiredClaims
            BY <3>2 DEF ReleaseExpiredClaims
        <3>3. CASE Beat \/ Tick \/ Elapse \/ UNCHANGED vars
            BY <3>3 DEF Beat, Heartbeat, Tick, Elapse, BackoffElapses, vars
        <3> QED
            BY <1>5, <3>1, <3>2, <3>3
    <2> QED
        BY <1>0, <2>1, SatisfiedStays DEF ReadyIsSatisfied
<1> QED
    BY <1>1, <1>2, <1>3, <1>4, <1>5 DEF Next

(* A task that dependency resolution made ready has its parents satisfied  *)
(* for as long as it is ready, for every graph and every history of edits, *)
(* completions, retries and TTL releases.                                  *)
THEOREM GateHolds == Spec => []ReadyIsSatisfied
<1>1. Init => ReadyIsSatisfied
    BY DEF Init, ReadyIsSatisfied
<1>2. StoreInv /\ NoOrphanRows /\ ReadyIsSatisfied /\ [Next]_vars => ReadyIsSatisfied'
    BY GateStep DEF ReadyIsSatisfied
<1> QED
    BY <1>1, <1>2, StoreInvariant, NoOrphans, PTL DEF Spec
=============================================================================
