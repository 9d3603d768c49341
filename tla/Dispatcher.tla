----------------------------- MODULE Dispatcher -----------------------------
(* The dispatcher's poll loop (orchestration/dispatcher.py) among the      *)
(* others that touch the task table meanwhile: agents reporting over their *)
(* WebSocket, the reconnect handler, polling HTTP workers and operators.   *)
(*                                                                         *)
(* Everything runs on one event loop, so the code between two awaits is    *)
(* one step.  The loop suspends while a message is being sent; it works on *)
(* a list of ready tasks read before the first send.                       *)
(*                                                                         *)
(* The task table is reduced to what the dispatcher reads and writes;      *)
(* TaskStore models it in full.  Both implement TaskLifecycle.             *)
EXTENDS FlowControl, FiniteSets

CONSTANTS
    Task,
    Agent,
    Assignee,       \* [Task -> Agent]
    Callback,       \* agents reached by HTTP callback when not connected
    Edited,         \* tasks whose status operators change by hand
    Polled,         \* tasks polling HTTP workers claim
    Unassigned,     \* tasks without an assignee (Assignee is then of no use)
    Rank,           \* [Task -> Nat]: place in a list sorted by priority, then id
    ReadyLimit,     \* how many ready tasks a poll cycle looks at
    ResendLimit,    \* how many blocked ones a reconnect handler looks at
    MaxRetries,     \* retry limit of every task
    Http,           \* the claim lock of a polling HTTP worker
    NULL

ASSUME DispatcherAssumption ==
    /\ Assignee \in [Task -> Agent]
    /\ Callback \subseteq Agent
    /\ Edited \cup Polled \cup Unassigned \subseteq Task
    /\ Rank \in [Task -> Nat]
    /\ \A t, u \in Task : Rank[t] = Rank[u] => t = u
    /\ ReadyLimit \in Nat \ {0} /\ ResendLimit \in Nat \ {0}
    /\ MaxRetries \in Nat
    /\ Http \notin Agent /\ NULL \notin Agent \cup Task \cup {Http}

VARIABLES
    status,     \* tasks.status
    holder,     \* claim_lock: agent a for "ws-a:pid" or "callback-a:pid",
                \* Http, or NULL
    lapsed,     \* claim_expires has passed
    fails,      \* consecutive_failures
    connected,  \* agents with an open WebSocket
    pending,    \* [Agent -> SUBSET Task]: what the reconnect handler resends
    pc,         \* where the poll loop is
    queue,      \* ready tasks of this cycle still to be looked at
    cur,        \* the task whose message is being sent
    arrived,    \* that message has already reached the agent
    fc,         \* [Agent -> AgentFlowState]
    tracked,    \* keys of _dispatched_ws_tasks
    held        \* tasks agents have received and not yet reported

store == <<status, holder, lapsed, fails>>
loop == <<pc, queue, cur, arrived>>
vars == <<store, connected, pending, loop, fc, tracked, held>>

Lifecycle == INSTANCE TaskLifecycle WITH Task <- Task, status <- status

AgentOf(t) == Assignee[t]
Reachable(a) == a \in connected \cup Callback

Init ==
    /\ status = [t \in Task |-> "absent"]
    /\ holder = [t \in Task |-> NULL]
    /\ lapsed = [t \in Task |-> FALSE]
    /\ fails = [t \in Task |-> 0]
    /\ connected = {}
    /\ pending = [a \in Agent |-> {}]
    /\ pc = "idle"
    /\ queue = {}
    /\ cur = NULL
    /\ arrived = FALSE
    /\ fc = [a \in Agent |-> Fresh]
    /\ tracked = {}
    /\ held = {}

-----------------------------------------------------------------------------
(* Store calls *)

(* list_tasks(sort="-priority", limit=n) of the tasks in S. *)
First(S, n) == {t \in S : Cardinality({u \in S : Rank[u] < Rank[t]}) < n}

Allowed(t, new) == <<status[t], new>> \in Lifecycle!VALID_TRANSITIONS

(* update_task_status(t, new) without a claim lock, when it is allowed;    *)
(* failed -> ready raises and is rolled back.                              *)
SetStatus(t, new) ==
    /\ Allowed(t, new)
    /\ <<status[t], new>> # <<"failed", "ready">>
    /\ status' = [status EXCEPT ![t] = new]
    /\ fails' = CASE new = "completed" -> [fails EXCEPT ![t] = 0]
                  [] new = "failed"    -> [fails EXCEPT ![t] = @ + 1]
                  [] OTHER             -> fails
    /\ UNCHANGED <<holder, lapsed>>

(* Mutant: SQL precedence, "ready AND unlocked OR expired". *)
ClaimableOrExpired(t) == (status[t] = "ready" /\ holder[t] = NULL) \/ lapsed[t]

Claimable(t) == status[t] = "ready" /\ (holder[t] = NULL \/ lapsed[t])

ClaimTask(t, l) ==
    /\ Claimable(t)
    /\ status' = [status EXCEPT ![t] = "running"]
    /\ holder' = [holder EXCEPT ![t] = l]
    /\ lapsed' = [lapsed EXCEPT ![t] = FALSE]
    /\ UNCHANGED fails

-----------------------------------------------------------------------------
(* The poll loop *)

Expired == {t \in Task : status[t] \in {"running", "blocked"} /\ lapsed[t]}

(* Step 1: release_expired_claims. *)
ReleaseExpired ==
    /\ pc = "idle"
    /\ pc' = "promote"
    /\ status' = [t \in Task |-> IF t \in Expired THEN "failed" ELSE status[t]]
    /\ fails' = [t \in Task |-> IF t \in Expired THEN fails[t] + 1 ELSE fails[t]]
    /\ holder' = [t \in Task |-> IF t \in Expired THEN NULL ELSE holder[t]]
    /\ lapsed' = [t \in Task |-> t \notin Expired /\ lapsed[t]]
    /\ UNCHANGED <<connected, pending, queue, cur, arrived, fc, tracked, held>>

Retryable == {t \in Task : status[t] = "failed" /\ fails[t] \in 1..MaxRetries}

(* Step 2: promote_retryable_tasks. *)
PromoteRetryable ==
    /\ pc = "promote"
    /\ pc' = "list"
    /\ status' = [t \in Task |-> IF t \in Retryable THEN "ready" ELSE status[t]]
    /\ holder' = [t \in Task |-> IF t \in Retryable THEN NULL ELSE holder[t]]
    /\ lapsed' = [t \in Task |-> t \notin Retryable /\ lapsed[t]]
    /\ UNCHANGED <<fails, connected, pending, queue, cur, arrived, fc, tracked, held>>

(* Step 3 begins with a snapshot of the ready tasks, cut off at the limit; *)
(* tasks the loop passes over stay ready and keep their place.  They are   *)
(* taken from it in any order, which covers the sort by failures and       *)
(* parallel groups.                                                        *)
ListReady ==
    /\ pc = "list"
    /\ queue' = First({t \in Task : status[t] = "ready"}, ReadyLimit)
    /\ pc' = IF queue' = {} THEN "idle" ELSE "loop"
    /\ UNCHANGED <<store, connected, pending, cur, arrived, fc, tracked, held>>

(* The loop is done with t. *)
Advance(t) ==
    /\ queue' = queue \ {t}
    /\ pc' = IF queue' = {} THEN "idle" ELSE "loop"

SetFlow(a, s) == fc' = [fc EXCEPT ![a] = s]

(* The loop comes to task t; one without an assignee is passed over. *)
Look(t) == pc = "loop" /\ t \in queue

NoAssignee(t) ==
    /\ Look(t) /\ t \in Unassigned
    /\ Advance(t)
    /\ UNCHANGED <<store, connected, pending, cur, arrived, fc, tracked, held>>

(* can_dispatch says no. *)
FlowBlocked(t) ==
    /\ Look(t) /\ t \notin Unassigned
    /\ ~CanDispatch(fc[AgentOf(t)])
    /\ SetFlow(AgentOf(t), Refreshed(fc[AgentOf(t)]))
    /\ Advance(t)
    /\ UNCHANGED <<store, connected, pending, cur, arrived, tracked, held>>

(* The assignee is neither connected nor a callback agent.  The task is    *)
(* blocked if any other agent is connected; an illegal transition is       *)
(* swallowed, and with no agent at all the task is left for polling        *)
(* workers.                                                                *)
Unreachable(t) ==
    /\ Look(t) /\ t \notin Unassigned
    /\ CanDispatch(fc[AgentOf(t)])
    /\ ~Reachable(AgentOf(t))
    /\ IF connected # {} /\ Allowed(t, "blocked")
       THEN SetStatus(t, "blocked")
       ELSE UNCHANGED store
    /\ SetFlow(AgentOf(t), Refreshed(fc[AgentOf(t)]))
    /\ Advance(t)
    /\ UNCHANGED <<connected, pending, cur, arrived, tracked, held>>

(* The claim fails: the row changed since the snapshot.  Flow control      *)
(* counts that as a failure of the agent.                                  *)
ClaimLost(t) ==
    /\ Look(t) /\ t \notin Unassigned
    /\ CanDispatch(fc[AgentOf(t)])
    /\ Reachable(AgentOf(t))
    /\ ~Claimable(t)
    /\ SetFlow(AgentOf(t), Failed(Refreshed(fc[AgentOf(t)])))
    /\ Advance(t)
    /\ UNCHANGED <<store, connected, pending, cur, arrived, tracked, held>>

(* The claim succeeds; the loop suspends in send_json or in the POST. *)
ClaimAndSend(t) ==
    /\ Look(t) /\ t \notin Unassigned
    /\ CanDispatch(fc[AgentOf(t)])
    /\ Reachable(AgentOf(t))
    /\ ClaimTask(t, AgentOf(t))
    /\ SetFlow(AgentOf(t), Refreshed(fc[AgentOf(t)]))
    /\ pc' = "sending"
    /\ cur' = t
    /\ arrived' = FALSE
    /\ UNCHANGED <<connected, pending, queue, tracked, held>>

(* The agent gets the message before the dispatcher gets control back. *)
Arrive ==
    /\ pc = "sending" /\ ~arrived
    /\ arrived' = TRUE
    /\ held' = held \cup {cur}
    /\ UNCHANGED <<store, connected, pending, pc, queue, cur, fc, tracked>>

SendReturns ==
    /\ pc = "sending"
    /\ tracked' = tracked \cup {cur}
    /\ held' = IF arrived THEN held ELSE held \cup {cur}
    /\ SetFlow(AgentOf(cur), Succeeded(fc[AgentOf(cur)]))
    /\ Advance(cur)
    /\ cur' = NULL /\ arrived' = FALSE
    /\ UNCHANGED <<store, connected, pending>>

(* Mutant: the failure is written whatever the task's status. *)
SendFailsBlindly ==
    /\ pc = "sending"
    /\ status' = [status EXCEPT ![cur] = "failed"]
    /\ fails' = [fails EXCEPT ![cur] = @ + 1]
    /\ SetFlow(AgentOf(cur), Failed(fc[AgentOf(cur)]))
    /\ Advance(cur)
    /\ cur' = NULL /\ arrived' = FALSE
    /\ UNCHANGED <<holder, lapsed, connected, pending, tracked, held>>

(* No workspace, a rejected envelope, a broken connection, an HTTP error   *)
(* or a timeout: the task is failed.                                       *)
SendFails ==
    /\ pc = "sending"
    /\ SetStatus(cur, "failed")
    /\ SetFlow(AgentOf(cur), Failed(fc[AgentOf(cur)]))
    /\ Advance(cur)
    /\ cur' = NULL /\ arrived' = FALSE
    /\ UNCHANGED <<connected, pending, tracked, held>>

(* As above, but somebody moved the task meanwhile and failing it is no    *)
(* longer allowed: the exception ends the cycle.                           *)
SendFailsLate ==
    /\ pc = "sending"
    /\ ~Allowed(cur, "failed")
    /\ pc' = "idle"
    /\ queue' = {}
    /\ cur' = NULL /\ arrived' = FALSE
    /\ UNCHANGED <<store, connected, pending, fc, tracked, held>>

-----------------------------------------------------------------------------
(* Agents *)

(* The agent's task_ack, perhaps late: a task that was blocked or made     *)
(* ready again meanwhile is running once more, without a new claim.  An    *)
(* ack that finds its task running is refused and changes nothing.         *)
Ack(t) ==
    LET a == AgentOf(t)
    IN  /\ t \in held \cap tracked
        /\ a \in connected /\ pending[a] = {}
        /\ SetStatus(t, "running")
        /\ UNCHANGED <<connected, pending, loop, fc, tracked, held>>

(* The agent's task_complete or task_fail, which carries no claim lock.    *)
(* Over the WebSocket it is written back only for tracked tasks, and not   *)
(* before the reconnect handler has gone through its list; a callback      *)
(* agent uses the complete route.                                          *)
Report(t, new) ==
    LET a == AgentOf(t)
    IN  /\ t \in held
        /\ Reachable(a)
        /\ a \in connected => pending[a] = {}
        /\ held' = held \ {t}
        /\ IF (t \in tracked \/ a \notin connected) /\ Allowed(t, new)
           THEN SetStatus(t, new) ELSE UNCHANGED store
        /\ UNCHANGED <<connected, pending, loop, fc, tracked>>

(* handle_ws: the connection is registered and the first blocked tasks of  *)
(* the agent are listed.                                                   *)
Connect(a) ==
    /\ a \notin connected
    /\ connected' = connected \cup {a}
    /\ pending' = [pending EXCEPT ![a] =
                     @ \cup First({t \in Task \ Unassigned :
                                     status[t] = "blocked" /\ AgentOf(t) = a},
                                  ResendLimit)]
    /\ UNCHANGED <<store, loop, fc, tracked, held>>

(* _maybe_dispatch_pending, one task: running first, then the message.  If *)
(* that fails the task stays running.  Nothing the agent says is read      *)
(* before the handler is through its list, so nobody looks between the     *)
(* send and the tracking that follows it.                                  *)
Redispatch(t, ok) ==
    LET a == AgentOf(t)
    IN  /\ t \in pending[a]
        /\ pending' = [pending EXCEPT ![a] = @ \ {t}]
        /\ ok => a \in connected /\ Allowed(t, "running")
        /\ IF Allowed(t, "running") THEN SetStatus(t, "running") ELSE UNCHANGED store
        /\ tracked' = IF ok THEN tracked \cup {t} ELSE tracked
        /\ held' = IF ok THEN held \cup {t} ELSE held
        /\ UNCHANGED <<connected, loop, fc>>

Disconnect(a) ==
    /\ a \in connected
    /\ connected' = connected \ {a}
    /\ UNCHANGED <<store, pending, loop, fc, tracked, held>>

-----------------------------------------------------------------------------
(* HTTP workers, operators and time *)

CreateTask(t) ==
    /\ status[t] = "absent"
    /\ status' = [status EXCEPT ![t] = "ready"]
    /\ UNCHANGED <<holder, lapsed, fails, connected, pending, loop, fc, tracked, held>>

HttpClaim(t) ==
    /\ t \in Polled
    /\ ClaimTask(t, Http)
    /\ UNCHANGED <<connected, pending, loop, fc, tracked, held>>

HttpFinish(t, new) ==
    /\ status[t] = "running" /\ holder[t] = Http
    /\ SetStatus(t, new)
    /\ UNCHANGED <<connected, pending, loop, fc, tracked, held>>

(* PATCH, block, unblock, delete, batch, anomaly scanner, dangling timer. *)
Patch(t, new) ==
    /\ t \in Edited
    /\ SetStatus(t, new)
    /\ UNCHANGED <<connected, pending, loop, fc, tracked, held>>

Lapse(t) ==
    /\ holder[t] # NULL /\ ~lapsed[t]
    /\ lapsed' = [lapsed EXCEPT ![t] = TRUE]
    /\ UNCHANGED <<status, holder, fails, connected, pending, loop, fc, tracked, held>>

CoolDown(a) ==
    /\ fc[a].circuit = "open"
    /\ SetFlow(a, [fc[a] EXCEPT !.circuit = "elapsed"])
    /\ UNCHANGED <<store, connected, pending, loop, tracked, held>>

-----------------------------------------------------------------------------
LookAt(t) ==
    NoAssignee(t) \/ FlowBlocked(t) \/ Unreachable(t) \/ ClaimLost(t) \/ ClaimAndSend(t)

Poll ==
    \/ ReleaseExpired
    \/ PromoteRetryable
    \/ ListReady
    \/ \E t \in Task : LookAt(t)
    \/ SendReturns
    \/ SendFails
    \/ SendFailsLate

Reports == \E t \in Task, new \in {"completed", "failed"} : Report(t, new)

Resend == \E t \in Task, ok \in BOOLEAN : Redispatch(t, ok)

Finish == \E t \in Task, new \in {"completed", "failed"} : HttpFinish(t, new)

ByHand == \E t \in Task, new \in Lifecycle!TaskStatus : Patch(t, new)

Next ==
    \/ Poll
    \/ Arrive
    \/ \E t \in Task : Ack(t)
    \/ Reports
    \/ Resend
    \/ Finish
    \/ ByHand
    \/ \E a \in Agent : Connect(a) \/ Disconnect(a) \/ CoolDown(a)
    \/ \E t \in Task : CreateTask(t) \/ HttpClaim(t) \/ Lapse(t)

Spec == Init /\ [][Next]_vars

(* The loop runs for ever (a send returns or raises), cooldowns pass, and  *)
(* an agent reports what it was given while it is connected.               *)
Fairness ==
    /\ WF_vars(Poll)
    /\ \A a \in Agent : WF_vars(CoolDown(a))
    /\ \A t \in Task : WF_vars(\E new \in {"completed", "failed"} : Report(t, new))
    /\ \A t \in Task : WF_vars(\E ok \in BOOLEAN : Redispatch(t, ok))

FairSpec == Spec /\ Fairness

-----------------------------------------------------------------------------
(* Type correctness of the loop's and the flow controller's state. *)
TypeOK ==
    /\ status \in [Task -> Lifecycle!TaskStatus \cup {"absent"}]
    /\ holder \in [Task -> Agent \cup {Http, NULL}]
    /\ lapsed \in [Task -> BOOLEAN]
    /\ fails \in [Task -> Nat]
    /\ connected \subseteq Agent
    /\ pending \in [Agent -> SUBSET Task]
    /\ pc \in {"idle", "promote", "list", "loop", "sending"}
    /\ queue \subseteq Task
    /\ cur \in Task \cup {NULL}
    /\ arrived \in BOOLEAN
    /\ fc \in [Agent -> AgentFlowState]
    /\ tracked \subseteq Task
    /\ held \subseteq Task

(* The breaker is closed exactly while the failures since the last success *)
(* or reset stay below the threshold: no path through a poll cycle trips   *)
(* it early, lets failures pile up behind it or leaves it tripped after    *)
(* the reset.                                                              *)
BreakerConsistent ==
    \A a \in Agent : fc[a].circuit = "closed" <=> fc[a].failures < Threshold

(* The controller never counts below zero, nor hands out more slots than    *)
(* the limit, although a slot is taken only after the awaited send and a    *)
(* failed dispatch gives back one it never took.                            *)
SlotsAccounted ==
    /\ TypeOK
    /\ MaxConcurrent > 0 => \A a \in Agent : fc[a].slots <= MaxConcurrent

(* A running claim changes hands only through the TTL release: a stale     *)
(* snapshot never makes the dispatcher take over a task that somebody      *)
(* claimed since.                                                          *)
RunningClaimKept ==
    [][\A t \in Task : status[t] = "running" /\ holder[t] # NULL =>
        holder'[t] = holder[t] \/ status'[t] = "failed"]_vars

(* Who works on t, as in TaskStore. *)
Claimant == [t \in Task |-> IF status[t] \in {"running", "blocked"}
                            THEN holder[t] ELSE NULL]

Claims == INSTANCE Lease WITH Resource <- Task, Owner <- Agent \cup {Http},
                              Nobody <- NULL, owner <- Claimant

(* A task is never taken from one worker and given to another in one step: *)
(* not by the re-dispatch on reconnect, nor by a late acknowledgement, nor *)
(* by the loop with its stale list.                                        *)
ImplementsLease == Claims!Spec

(* What the dispatcher owes a worker that has claimed a task. *)
ClaimsKept == RunningClaimKept /\ ImplementsLease

(* The dispatcher and everybody around it only take lifecycle steps. *)
ImplementsLifecycle == Lifecycle!Spec

(* The loop passes a ready task over and leaves it as it is. *)
PassedOver(t) ==
    \/ t \in Unassigned
    \/ ~CanDispatch(fc[AgentOf(t)])
    \/ ~Reachable(AgentOf(t)) /\ connected = {}

(* The tasks before t that are passed over fill the list: t is never seen. *)
CrowdedOut(t) ==
    Cardinality({u \in Task : /\ status[u] = "ready" /\ Rank[u] < Rank[t]
                              /\ PassedOver(u)}) >= ReadyLimit

(* A ready task whose agent can be reached does not stay ready for ever,   *)
(* except behind a breaker that keeps tripping, or behind as many tasks    *)
(* the loop passes over as its list holds: every poll cycle that lists the *)
(* task gets to it, whatever becomes of the tasks before it, and tasks the *)
(* loop can serve only hold their successors up for a time.                *)
ReadyIsServed ==
    \A t \in Task \ Unassigned :
        []<>(\/ status[t] # "ready"
             \/ ~Reachable(AgentOf(t))
             \/ fc[AgentOf(t)].circuit = "open"
             \/ CrowdedOut(t))
=============================================================================
