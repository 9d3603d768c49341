---------------------------- MODULE AgentChannel ----------------------------
(* The server's side of the agents' WebSocket connections, and the tasks it *)
(* keeps in memory for them: server.RegistryHandler and the message         *)
(* handlers of registry_handler.py.  A handler runs to its next await in    *)
(* one step; the awaits are the sends, the closes and the request bodies.   *)
EXTENDS Naturals

CONSTANTS
    Agent, Task,
    Conn,           \* the WebSocket connections that may ever be opened
    OwnerOf,        \* [Conn -> Agent]
    AgentOf,        \* [Task -> Agent]
    Board,          \* tasks of the kanban board; the others come over POST /dispatch
    Syncing,        \* agents that send state_sync
    Said,           \* the statuses that agents write into their messages
    MaxMessages,    \* bound on the messages and callback results handled
    NULL

Final == {"completed", "failed", "cancelled"}
TaskState == Final \cup {"absent", "dispatched", "forwarded", "accepted",
                         "working", "running", "blocked", "dangling"}

ASSUME ChannelAssumption ==
    /\ OwnerOf \in [Conn -> Agent]
    /\ AgentOf \in [Task -> Agent]
    /\ Board \subseteq Task
    /\ Syncing \subseteq Agent
    /\ Said \subseteq TaskState \ {"absent", "dispatched", "forwarded", "dangling"}
    /\ MaxMessages \in Nat
    /\ NULL \notin Conn

VARIABLES
    conn,           \* _ws_connections: [Agent -> Conn \cup {NULL}]
    handler,        \* where handle_ws stands, per connection
    replaced,       \* the older connection that handle_ws is closing
    closed,         \* connections with ws.closed
    preferred,      \* preferred_channel of the agent's card, "ws" or "callback"
    registered,     \* row in the registry store: "yes", "removing" (DELETE in progress), "no"
    state,          \* _tasks: state of a task, "absent" if there is no entry
    live,           \* the timeout workers that exist, [Task -> [Worker -> ...]]
    timer,          \* _task_timers: [Task -> Worker \cup {0}]
    grace,          \* _dangling_timers: agents with a pending grace timer
    request,        \* where POST /dispatch, or the dispatcher's send, stands
    via,            \* the connection it picked, NULL for a callback
    result,         \* where POST /callback-result stands, per task
    board,          \* status on the kanban board, of the tasks in Board
    tracked,        \* _dispatched_ws_tasks
    received,       \* tasks that reached their agent
    synced,         \* agents within the state_sync cooldown
    messages,       \* how many were handled
    restarted       \* the server was restarted

connVars == <<conn, handler, replaced, closed, registered, preferred>>
taskVars == <<state, live, timer, grace>>
requestVars == <<request, via, result>>
boardVars == <<board, tracked>>
otherVars == <<received, synced, messages, restarted>>
vars == <<connVars, taskVars, requestVars, boardVars, otherVars>>

(* Two workers per task are one more than the code should ever have. *)
Worker == 1..2

Lifecycle == INSTANCE TaskLifecycle WITH status <- board

TasksOf(a) == {t \in Task : AgentOf[t] = a}
ByCallback(a) == preferred[a] = "callback"
IsOpen(c) == c # NULL /\ c \notin closed

-----------------------------------------------------------------------------
(* Timers. *)

(* _cancel_task_timeout: the registered worker, if any, is cancelled.      *)
Without(workers, w) == [v \in Worker |-> IF v = w THEN "none" ELSE workers[v]]

CancelTimeouts(S) ==
    /\ live' = [t \in Task |-> IF t \in S THEN Without(live[t], timer[t]) ELSE live[t]]
    /\ timer' = [t \in Task |-> IF t \in S THEN 0 ELSE timer[t]]

(* Mutant: the worker that is already there is not cancelled. *)
ScheduleTimeoutAlso(t) ==
    \E w \in {v \in Worker : live[t][v] = "none"} :
        /\ live' = [live EXCEPT ![t][w] = "sleeping"]
        /\ timer' = [timer EXCEPT ![t] = w]

(* _schedule_task_timeout: cancel, then start and register a new worker.   *)
ScheduleTimeout(t) ==
    LET rest == Without(live[t], timer[t]) IN
    \E w \in {v \in Worker : rest[v] = "none"} :
        /\ live' = [live EXCEPT ![t] = [rest EXCEPT ![w] = "sleeping"]]
        /\ timer' = [timer EXCEPT ![t] = w]

(* update_task_status on the board, for the tasks the dispatcher tracks;   *)
(* an edge that does not exist raises and is swallowed.                    *)
Reconcile(S, new) ==
    board' = [t \in Board |->
                IF t \in S \cap tracked /\ <<board[t], new>> \in Lifecycle!VALID_TRANSITIONS
                THEN new ELSE board[t]]

(* The dispatcher's own update of a task it claimed. *)
UpdateBoard(t, new) ==
    board' = [board EXCEPT ![t] =
                IF <<@, new>> \in Lifecycle!VALID_TRANSITIONS THEN new ELSE @]

-----------------------------------------------------------------------------
Init ==
    /\ conn = [a \in Agent |-> NULL]
    /\ handler = [c \in Conn |-> "unused"]
    /\ replaced = [c \in Conn |-> NULL]
    /\ closed = {}
    /\ preferred \in [Agent -> {"ws", "callback"}]
    /\ registered = [a \in Agent |-> "yes"]
    /\ state = [t \in Task |-> "absent"]
    /\ live = [t \in Task |-> [w \in Worker |-> "none"]]
    /\ timer = [t \in Task |-> 0]
    /\ grace = {}
    /\ request = [t \in Task |-> "none"]
    /\ via = [t \in Task |-> NULL]
    /\ result = [t \in Task |-> "none"]
    /\ board = [t \in Board |-> "ready"]
    /\ tracked = {}
    /\ received = {}
    /\ synced = {}
    /\ messages = 0
    /\ restarted = FALSE

(* handle_ws, up to the first await: an older connection leaves the map    *)
(* and is closed before the new one enters it.                             *)
Accept(c) ==
    LET a == OwnerOf[c] IN
    /\ handler[c] = "unused" /\ registered[a] # "no"
    /\ IF IsOpen(conn[a])
         THEN /\ conn' = [conn EXCEPT ![a] = NULL]
              /\ replaced' = [replaced EXCEPT ![c] = conn[a]]
              /\ handler' = [handler EXCEPT ![c] = "replacing"]
         ELSE /\ conn' = [conn EXCEPT ![a] = c]
              /\ handler' = [handler EXCEPT ![c] = "listening"]
              /\ UNCHANGED replaced
    /\ UNCHANGED <<closed, registered, preferred, taskVars, requestVars, boardVars, otherVars>>

CloseOld(c) ==
    /\ handler[c] = "replacing" /\ replaced[c] \notin closed
    /\ closed' = closed \cup {replaced[c]}
    /\ UNCHANGED <<conn, handler, replaced, registered, preferred, taskVars, requestVars, boardVars, otherVars>>

Register(c) ==
    /\ handler[c] = "replacing" /\ replaced[c] \in closed
    /\ conn' = [conn EXCEPT ![OwnerOf[c]] = c]
    /\ handler' = [handler EXCEPT ![c] = "listening"]
    /\ replaced' = [replaced EXCEPT ![c] = NULL]
    /\ UNCHANGED <<closed, registered, preferred, taskVars, requestVars, boardVars, otherVars>>

(* The peer or the network ends the connection. *)
Drop(c) ==
    /\ handler[c] \in {"replacing", "listening"} /\ c \notin closed
    /\ closed' = closed \cup {c}
    /\ UNCHANGED <<conn, handler, replaced, registered, preferred, taskVars, requestVars, boardVars, otherVars>>

(* Mutant: the entry goes whoever it belongs to.                            *)
ForgetAgent(c) == conn' = [conn EXCEPT ![OwnerOf[c]] = NULL]

(* A handler takes only its own connection out of the map. *)
Forget(c) ==
    conn' = [a \in Agent |-> IF conn[a] = c THEN NULL ELSE conn[a]]

(* Mutants: no grace timer if the agent is back already; finished tasks     *)
(* dangle too.                                                              *)
DangleUnlessBack(a) ==
    LET D == {t \in TasksOf(a) : state[t] \notin Final \cup {"absent", "dangling"}} IN
    /\ state' = [t \in Task |-> IF t \in D THEN "dangling" ELSE state[t]]
    /\ CancelTimeouts(D)
    /\ grace' = IF D = {} \/ IsOpen(conn[a]) THEN grace ELSE grace \cup {a}

DangleFinished(a) ==
    LET D == {t \in TasksOf(a) : state[t] \notin {"absent", "dangling"}} IN
    /\ state' = [t \in Task |-> IF t \in D THEN "dangling" ELSE state[t]]
    /\ CancelTimeouts(D)
    /\ grace' = IF D = {} THEN grace ELSE grace \cup {a}

(* _dangle_agent_tasks.  The board has no edge to dangling, so its update   *)
(* always raises.                                                          *)
Dangle(a) ==
    LET D == {t \in TasksOf(a) : state[t] \notin Final \cup {"absent", "dangling"}} IN
    /\ state' = [t \in Task |-> IF t \in D THEN "dangling" ELSE state[t]]
    /\ CancelTimeouts(D)
    /\ grace' = IF D = {} THEN grace ELSE grace \cup {a}

(* The finally block, after the peer closed ... *)
Finish(c) ==
    /\ handler[c] = "listening" /\ c \in closed
    /\ handler' = [handler EXCEPT ![c] = "done"]
    /\ Forget(c)
    /\ Dangle(OwnerOf[c])
    /\ UNCHANGED <<replaced, closed, registered, preferred, requestVars, boardVars, otherVars>>

(* ... or after a "close" message, when ws.close() is awaited first. *)
Leave(c) ==
    /\ handler[c] = "listening" /\ c \notin closed
    /\ handler' = [handler EXCEPT ![c] = "leaving"]
    /\ Forget(c)
    /\ UNCHANGED <<replaced, closed, registered, preferred, taskVars, requestVars, boardVars, otherVars>>

Left(c) ==
    /\ handler[c] = "leaving"
    /\ handler' = [handler EXCEPT ![c] = "done"]
    /\ closed' = closed \cup {c}
    /\ Dangle(OwnerOf[c])
    /\ UNCHANGED <<conn, replaced, registered, preferred, requestVars, boardVars, otherVars>>

(* DELETE /v1/agents: the connection first, the row after the await. *)
Unregister(a) ==
    /\ registered[a] = "yes"
    /\ registered' = [registered EXCEPT ![a] = "removing"]
    /\ conn' = [conn EXCEPT ![a] = NULL]
    /\ closed' = closed \cup ({conn[a]} \ {NULL})
    /\ UNCHANGED <<handler, replaced, preferred, taskVars, requestVars, boardVars, otherVars>>

Unregistered(a) ==
    /\ registered[a] = "removing"
    /\ registered' = [registered EXCEPT ![a] = "no"]
    /\ UNCHANGED <<conn, handler, replaced, closed, preferred, taskVars, requestVars, boardVars, otherVars>>

(* _cleanup_task removes closed connections from the map. *)
CleanUp(a) ==
    /\ conn[a] # NULL /\ conn[a] \in closed
    /\ conn' = [conn EXCEPT ![a] = NULL]
    /\ UNCHANGED <<handler, replaced, closed, registered, preferred, taskVars, requestVars, boardVars, otherVars>>

-----------------------------------------------------------------------------
(* _timeout_worker wakes up.  It sends task_cancel if it can, and only then *)
(* reconciles the board and takes itself out of _task_timers.              *)
TimerFires(t, w) ==
    /\ live[t][w] = "sleeping"
    /\ IF state[t] \in Final
         THEN /\ live' = [live EXCEPT ![t][w] = "none"]
              /\ timer' = [timer EXCEPT ![t] = 0]
              /\ UNCHANGED <<state, board>>
         ELSE /\ state' = [state EXCEPT ![t] = "failed"]
              /\ IF IsOpen(conn[AgentOf[t]])
                   THEN /\ live' = [live EXCEPT ![t][w] = "cancelling"]
                        /\ UNCHANGED <<timer, board>>
                   ELSE /\ live' = [live EXCEPT ![t][w] = "none"]
                        /\ timer' = [timer EXCEPT ![t] = 0]
                        /\ Reconcile({t}, "failed")
    /\ UNCHANGED <<connVars, grace, requestVars, tracked, otherVars>>

CancelSent(t, w) ==
    /\ live[t][w] = "cancelling"
    /\ live' = [live EXCEPT ![t][w] = "none"]
    /\ timer' = [timer EXCEPT ![t] = 0]
    /\ Reconcile({t}, "failed")
    /\ UNCHANGED <<connVars, state, grace, requestVars, tracked, otherVars>>

(* Mutant: nothing is failed if the agent is connected again. *)
GraceExpiresOffline(a) ==
    LET F == {t \in TasksOf(a) : state[t] = "dangling" /\ ~IsOpen(conn[a])} IN
    /\ a \in grace
    /\ grace' = grace \ {a}
    /\ state' = [t \in Task |-> IF t \in F THEN "failed" ELSE state[t]]
    /\ Reconcile(F, "failed")
    /\ UNCHANGED <<connVars, live, timer, requestVars, tracked, otherVars>>

(* _dangle_timeout *)
GraceExpires(a) ==
    LET F == {t \in TasksOf(a) : state[t] = "dangling"} IN
    /\ a \in grace
    /\ grace' = grace \ {a}
    /\ state' = [t \in Task |-> IF t \in F THEN "failed" ELSE state[t]]
    /\ Reconcile(F, "failed")
    /\ UNCHANGED <<connVars, live, timer, requestVars, tracked, otherVars>>

-----------------------------------------------------------------------------
(* handle_dispatch picks the channel before it reads the body ... *)
Dispatch(t) ==
    LET a == AgentOf[t] IN
    /\ t \notin Board /\ request[t] = "none"
    /\ registered[a] # "no"
    /\ ByCallback(a) \/ IsOpen(conn[a])
    /\ request' = [request EXCEPT ![t] = "reading"]
    /\ via' = [via EXCEPT ![t] = IF ByCallback(a) THEN NULL ELSE conn[a]]
    /\ UNCHANGED <<connVars, taskVars, result, boardVars, otherVars>>

(* ... creates the task and sends it; a connection closed since makes the  *)
(* send raise.                                                             *)
Send(t) ==
    /\ t \notin Board /\ request[t] = "reading"
    /\ state' = [state EXCEPT ![t] = "dispatched"]
    /\ request' = [request EXCEPT ![t] = "sending"]
    /\ UNCHANGED <<connVars, live, timer, grace, via, result, boardVars, otherVars>>

(* The dispatcher claims a kanban task for the connection of its agent, or  *)
(* else for its callback, and starts to send it.                            *)
Claim(t) ==
    LET a == AgentOf[t] IN
    /\ t \in Board /\ board[t] = "ready" /\ request[t] = "none"
    /\ IsOpen(conn[a]) \/ (ByCallback(a) /\ registered[a] # "no")
    /\ board' = [board EXCEPT ![t] = "running"]
    /\ request' = [request EXCEPT ![t] = "sending"]
    /\ via' = [via EXCEPT ![t] = IF IsOpen(conn[a]) THEN conn[a] ELSE NULL]
    /\ UNCHANGED <<connVars, taskVars, result, tracked, otherVars>>

(* The agent has the message; the awaited send may still be going on. *)
Arrive(t) ==
    /\ request[t] = "sending" /\ via[t] \notin closed
    /\ request' = [request EXCEPT ![t] = "arrived"]
    /\ received' = received \cup {t}
    /\ UNCHANGED <<connVars, taskVars, via, result, boardVars, synced, messages, restarted>>

(* The send is over, and with it what the request did about the task. *)
EndRequest(t, how) ==
    /\ request' = [request EXCEPT ![t] = how]
    /\ via' = [via EXCEPT ![t] = NULL]

SendReturns(t) ==
    /\ t \notin Board /\ request[t] = "arrived"
    /\ state' = [state EXCEPT ![t] = "forwarded"]
    /\ EndRequest(t, "done")
    /\ ScheduleTimeout(t)
    /\ UNCHANGED <<connVars, grace, result, boardVars, otherVars>>

(* The task is tracked only now; what the agent said so far went unnoticed *)
(* by the board.                                                           *)
Track(t) ==
    /\ t \in Board /\ request[t] = "arrived"
    /\ tracked' = tracked \cup {t}
    /\ EndRequest(t, "done")
    /\ UNCHANGED <<connVars, taskVars, result, board, otherVars>>

(* An error status, a timeout of the POST or an exception of the send; the *)
(* agent may have the task all the same.                                   *)
SendFails(t) ==
    /\ t \notin Board /\ request[t] \in {"sending", "arrived"}
    /\ state' = [state EXCEPT ![t] = "failed"]
    /\ EndRequest(t, "done")
    /\ UNCHANGED <<connVars, live, timer, grace, result, boardVars, otherVars>>

Release(t) ==
    /\ t \in Board /\ request[t] \in {"sending", "arrived"}
    /\ UpdateBoard(t, "failed")
    /\ EndRequest(t, "done")
    /\ UNCHANGED <<connVars, taskVars, result, tracked, otherVars>>

(* timeout_middleware cancels the request at its await: CancelledError is  *)
(* caught nowhere, so the task stays as it is, without a timer.            *)
Abandon(t) ==
    /\ t \notin Board /\ request[t] \in {"reading", "sending", "arrived"}
    /\ EndRequest(t, "abandoned")
    /\ UNCHANGED <<connVars, taskVars, result, boardVars, otherVars>>

-----------------------------------------------------------------------------
(* A message, read by handler c, about a task that its agent received at    *)
(* any time; nothing is asked about the state of the task.                  *)
Message(c, t) ==
    /\ handler[c] = "listening" /\ c \notin closed
    /\ t \in received /\ AgentOf[t] = OwnerOf[c]
    /\ messages < MaxMessages
    /\ messages' = messages + 1
    /\ UNCHANGED <<connVars, grace, requestVars, tracked, received, synced, restarted>>

(* The status of a message is stored as it is, whatever the state was. *)
Ack(c, t, said) ==
    /\ Message(c, t)
    /\ state' = [state EXCEPT ![t] = said]
    /\ Reconcile({t}, "running")
    /\ ScheduleTimeout(t)

Progress(c, t, said) ==
    /\ Message(c, t)
    /\ state' = [state EXCEPT ![t] = said]
    /\ ScheduleTimeout(t)
    /\ UNCHANGED board

(* task_complete and task_fail *)
Report(c, t, new) ==
    /\ Message(c, t)
    /\ state' = [state EXCEPT ![t] = new]
    /\ Reconcile({t}, new)
    /\ CancelTimeouts({t})

(* The older task_result is taken for final whatever its status; only three *)
(* statuses are passed on to the board.                                     *)
TaskResult(c, t, said) ==
    /\ Message(c, t)
    /\ state' = [state EXCEPT ![t] = said]
    /\ IF said \in {"running", "completed", "failed"}
         THEN Reconcile({t}, said) ELSE UNCHANGED board
    /\ CancelTimeouts({t})

(* state_sync is accepted from a registered agent once per cooldown. *)
MaySync(a) == a \in Syncing \ synced /\ registered[a] # "no"

(* The unfinished tasks that the board knows and memory does not. *)
Restored(a) ==
    {t \in tracked \cap TasksOf(a) :
        state[t] = "absent" /\ board[t] \notin {"completed", "failed"}}

(* Those are restored; then each task of the agent's own list takes the     *)
(* status given there, a final one only if the server knows the task.  No   *)
(* timer and no board status changes, and since the board is never          *)
(* dangling, no grace timer is cancelled either.                            *)
StateSync(c, list) ==
    LET a == OwnerOf[c] IN
    /\ handler[c] = "listening" /\ c \notin closed
    /\ MaySync(a)
    /\ synced' = synced \cup {a}
    /\ state' = [t \in Task |->
                    IF t \in DOMAIN list /\ (state[t] # "absent" \/ t \in Restored(a)
                                             \/ list[t] \notin {"completed", "failed"})
                    THEN list[t]
                    ELSE IF t \in Restored(a) THEN board[t] ELSE state[t]]
    /\ UNCHANGED <<connVars, live, timer, grace, requestVars, boardVars, received, messages, restarted>>

(* The lists an agent may send: some of the tasks it received. *)
ListOf(a) == UNION {[R -> Said] : R \in SUBSET (received \cap TasksOf(a))}

(* 30 seconds later the next state_sync is let through. *)
CoolDown(a) ==
    /\ a \in synced
    /\ synced' = synced \ {a}
    /\ UNCHANGED <<connVars, taskVars, requestVars, boardVars, received, messages, restarted>>

(* handle_callback_result checks the state, awaits the body, then writes. *)
CallbackResult(t) ==
    /\ registered[AgentOf[t]] # "no"
    /\ t \in received /\ state[t] \notin Final \cup {"absent"}
    /\ result[t] = "none"
    /\ messages < MaxMessages
    /\ messages' = messages + 1
    /\ result' = [result EXCEPT ![t] = "reading"]
    /\ UNCHANGED <<connVars, taskVars, request, via, boardVars, received, synced, restarted>>

CallbackWrite(t, new) ==
    /\ result[t] = "reading"
    /\ result' = [result EXCEPT ![t] = "none"]
    /\ state' = [state EXCEPT ![t] = new]
    /\ CancelTimeouts({t})
    /\ Reconcile({t}, new)
    /\ UNCHANGED <<connVars, grace, request, via, tracked, received, synced, messages, restarted>>

(* The body is not JSON, or never comes. *)
CallbackDropped(t) ==
    /\ result[t] = "reading"
    /\ result' = [result EXCEPT ![t] = "none"]
    /\ UNCHANGED <<connVars, taskVars, request, via, boardVars, otherVars>>

(* A restart of the server loses everything in memory; the board, the      *)
(* registry and what the agents hold stay.                                 *)
Restart ==
    /\ ~restarted
    /\ restarted' = TRUE
    /\ conn' = [a \in Agent |-> NULL]
    /\ handler' = [c \in Conn |-> IF handler[c] = "unused" THEN "unused" ELSE "done"]
    /\ closed' = {c \in Conn : handler[c] # "unused"}
    /\ registered' = [a \in Agent |-> IF registered[a] = "removing" THEN "yes" ELSE registered[a]]
    /\ replaced' = [c \in Conn |-> NULL]
    /\ state' = [t \in Task |-> "absent"]
    /\ live' = [t \in Task |-> [w \in Worker |-> "none"]]
    /\ timer' = [t \in Task |-> 0]
    /\ grace' = {}
    /\ request' = [t \in Task |-> IF request[t] = "none" THEN "none" ELSE "done"]
    /\ via' = [t \in Task |-> NULL]
    /\ result' = [t \in Task |-> "none"]
    /\ tracked' = {}
    /\ synced' = {}
    /\ UNCHANGED <<preferred, board, received, messages>>

-----------------------------------------------------------------------------
Connection(c) ==
    \/ Accept(c) \/ CloseOld(c) \/ Register(c) \/ Drop(c)
    \/ Finish(c) \/ Leave(c) \/ Left(c)

AgentSays(c) ==
    \/ \E t \in Task, said \in Said :
        Ack(c, t, said) \/ Progress(c, t, said) \/ TaskResult(c, t, said)
    \/ \E t \in Task, new \in {"completed", "failed"} : Report(c, t, new)
    \/ \E list \in ListOf(OwnerOf[c]) : StateSync(c, list)

Timers ==
    \/ \E t \in Task, w \in Worker : TimerFires(t, w) \/ CancelSent(t, w)
    \/ \E a \in Agent : GraceExpires(a) \/ CoolDown(a) \/ CleanUp(a)

Requests(t) ==
    \/ Dispatch(t) \/ Send(t) \/ SendReturns(t) \/ SendFails(t) \/ Abandon(t)
    \/ Claim(t) \/ Track(t) \/ Release(t)
    \/ Arrive(t)
    \/ CallbackResult(t) \/ CallbackDropped(t)
    \/ \E new \in {"completed", "failed"} : CallbackWrite(t, new)

Next ==
    \/ \E c \in Conn : Connection(c) \/ AgentSays(c)
    \/ \E t \in Task : Requests(t)
    \/ \E a \in Agent : Unregister(a) \/ Unregistered(a)
    \/ Timers
    \/ Restart

Spec == Init /\ [][Next]_vars

(* Timers fire, awaited sends and closes end, a closed connection's loop   *)
(* ends, a request body arrives or the request is dropped.  Agents owe     *)
(* nothing: they may fall silent at any time.                              *)
Fairness ==
    /\ \A t \in Task, w \in Worker :
        WF_vars(TimerFires(t, w)) /\ WF_vars(CancelSent(t, w))
    /\ \A a \in Agent : WF_vars(GraceExpires(a))
    /\ \A t \in Task :
        /\ WF_vars(Send(t))
        /\ WF_vars(SendReturns(t) \/ SendFails(t) \/ Abandon(t))
    /\ \A c \in Conn : WF_vars(Finish(c) \/ Left(c))

FairSpec == Spec /\ Fairness

-----------------------------------------------------------------------------
TypeOK ==
    /\ conn \in [Agent -> Conn \cup {NULL}]
    /\ handler \in [Conn -> {"unused", "replacing", "listening", "leaving", "done"}]
    /\ replaced \in [Conn -> Conn \cup {NULL}]
    /\ closed \subseteq Conn
    /\ preferred \in [Agent -> {"ws", "callback"}]
    /\ registered \in [Agent -> {"yes", "removing", "no"}]
    /\ state \in [Task -> TaskState]
    /\ live \in [Task -> [Worker -> {"none", "sleeping", "cancelling"}]]
    /\ timer \in [Task -> {0} \cup Worker]
    /\ grace \subseteq Agent
    /\ request \in [Task -> {"none", "reading", "sending", "arrived",
                            "done", "abandoned"}]
    /\ via \in [Task -> Conn \cup {NULL}]
    /\ result \in [Task -> {"none", "reading"}]
    /\ board \in [Board -> Lifecycle!TaskStatus]
    /\ tracked \subseteq Board
    /\ received \subseteq Task
    /\ synced \subseteq Agent
    /\ messages \in 0..MaxMessages
    /\ restarted \in BOOLEAN

(* A task never has two timeout workers, and the one it has can be          *)
(* cancelled: nobody replaces the entry of a worker that is still waiting   *)
(* for its task_cancel to be sent.                                          *)
SingleTimer ==
    \A t \in Task : {w \in Worker : live[t][w] # "none"} = {timer[t]} \ {0}

(* Whatever reconnects, reports or times out meanwhile, a dangling task has *)
(* a grace timer, whichever handler dangled it; a forwarded task has a      *)
(* timeout, which no disconnect, report or timer of another task takes      *)
(* away; and the connection map, which both consult, only refers to         *)
(* handlers that are still reading.                                         *)
TasksWatched ==
    /\ TypeOK
    /\ \A t \in Task :
        /\ state[t] = "dangling" => AgentOf[t] \in grace
        /\ state[t] = "forwarded" => timer[t] # 0
    /\ \A a \in Agent :
        conn[a] # NULL => OwnerOf[conn[a]] = a /\ handler[conn[a]] = "listening"

(* Both: what the server has to supervise a task with is there, and there   *)
(* once, after any crossing of reconnects, reports, timers and restarts.    *)
Supervised == SingleTimer /\ TasksWatched

(* An unfinished task about which nobody will decide: no request is at work *)
(* on it, no timeout sleeps and no grace period runs.                       *)
LeftAlone(t) ==
    /\ state[t] \notin Final \cup {"absent"}
    /\ ~(t \notin Board /\ request[t] \in {"sending", "arrived"})
    /\ \A w \in Worker : live[t][w] # "sleeping"
    /\ ~(state[t] = "dangling" /\ AgentOf[t] \in grace)

(* A tracked task that memory has decided and that still runs on the board, *)
(* without a timeout worker that is about to tell the board.                *)
BoardBehind(t) ==
    /\ t \in tracked /\ state[t] \in Final /\ board[t] = "running"
    /\ \A w \in Worker : live[t][w] # "cancelling"

(* A step that accepts a state_sync. *)
Syncs == \E a \in Agent : a \in synced' \ synced

(* Whoever decides about a task does so in memory and on the board, and     *)
(* nobody stops watching a task that is undecided, with these exceptions.   *)
(* A task is left alone when its POST /dispatch is cancelled at its await,  *)
(* by a task_result with a status that is not final, and by a state_sync.   *)
(* The board stays behind when an agent writes a final status into an       *)
(* acknowledgement, a progress message or a state_sync (or "cancelled" into *)
(* a task_result), and when it has reported before the dispatcher, whose    *)
(* send it answers, tracks the task.                                        *)
TasksDecided ==
    [][\A t \in Task :
        /\ ~LeftAlone(t) /\ LeftAlone(t)'
            => \/ request[t] # "abandoned" /\ request'[t] = "abandoned"
               \/ \E c \in Conn, said \in Said \ Final : TaskResult(c, t, said)
               \/ Syncs
        /\ ~BoardBehind(t) /\ BoardBehind(t)'
            => \/ \E c \in Conn, said \in Said \cap Final :
                    Ack(c, t, said) \/ Progress(c, t, said)
               \/ \E c \in Conn : TaskResult(c, t, "cancelled")
               \/ t \notin tracked
               \/ Syncs]_vars

(* A handler that ends, however late, does not unregister its successor;    *)
(* what it does to the tasks is in TasksDecided.                            *)
SuccessorKept ==
    [][\A c \in Conn :
        handler[c] = "listening" /\ handler'[c] # "listening" /\ restarted' = restarted
        => \A a \in Agent : conn'[a] # conn[a] => conn[a] = c]_vars

(* The server never takes a completed task back by itself: no timer,        *)
(* disconnect or grace period that was under way does.  In memory a late    *)
(* message, a state_sync, a callback result that was let in before or a     *)
(* send that is not over does so; on the board nothing does.                *)
CompletedKept ==
    [][/\ \A t \in Task :
            /\ state[t] = "completed" /\ state'[t] \notin {"completed", "absent"}
            => \/ \E c \in Conn : Message(c, t)
               \/ Syncs
               \/ result[t] = "reading"
               \/ t \notin Board /\ request[t] \in {"sending", "arrived"}
       /\ \A t \in Board : board[t] = "completed" => board'[t] = "completed"]_vars

(* Every task comes to an end, however silent its agent, except those that  *)
(* TasksDecided lists as left alone; dangling and forwarded ones always do. *)
EveryTaskEnds ==
    \A t \in Task : []<>(\/ state[t] \in Final \cup {"absent"}
                         \/ LeftAlone(t) /\ state[t] \notin {"dangling", "forwarded"})
=============================================================================
