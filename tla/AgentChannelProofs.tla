------------------------- MODULE AgentChannelProofs -------------------------
(* What is proved of the agents' channel, for any agents, connections and    *)
(* tasks and any number of messages.                                         *)
EXTENDS AgentChannel, TLAPS

ConnTypeOK ==
    /\ conn \in [Agent -> Conn \cup {NULL}]
    /\ handler \in [Conn -> {"unused", "replacing", "listening", "leaving", "done"}]
    /\ replaced \in [Conn -> Conn \cup {NULL}]
    /\ closed \subseteq Conn
    /\ preferred \in [Agent -> {"ws", "callback"}]
    /\ registered \in [Agent -> {"yes", "removing", "no"}]

(* The connection map only refers to handlers that are still reading. *)
MapOK ==
    \A a \in Agent :
        conn[a] # NULL => OwnerOf[conn[a]] = a /\ handler[conn[a]] = "listening"

(* A handler that waits for an older connection to close knows which. *)
ReplacedOK == \A c \in Conn : handler[c] = "replacing" => replaced[c] \in Conn

ConnInv == ConnTypeOK /\ MapOK /\ ReplacedOK

TimerTypeOK ==
    /\ state \in [Task -> TaskState]
    /\ live \in [Task -> [Worker -> {"none", "sleeping", "cancelling"}]]
    /\ timer \in [Task -> {0} \cup Worker]
    /\ grace \subseteq Agent

(* A forwarded task has a timeout that no message has replaced since. *)
Watched(t) ==
    /\ state[t] = "dangling" => AgentOf[t] \in grace
    /\ state[t] = "forwarded" =>
        timer[t] # 0 /\ \A w \in Worker : live[t][w] # "cancelling"

WatchOK == \A t \in Task : Watched(t)

TimerInv == TimerTypeOK /\ SingleTimer /\ WatchOK

RequestTypeOK ==
    /\ request \in [Task -> {"none", "reading", "sending", "arrived",
                            "done", "abandoned"}]
    /\ via \in [Task -> Conn \cup {NULL}]
    /\ result \in [Task -> {"none", "reading"}]
    /\ board \in [Board -> {"ready", "running", "completed", "failed"}]
    /\ tracked \subseteq Board
    /\ received \subseteq Task
    /\ synced \subseteq Agent
    /\ messages \in 0..MaxMessages
    /\ restarted \in BOOLEAN

(* Nothing was sent to an agent yet, by the dispatcher or by a request, so    *)
(* neither the server nor the agent knows of the task.                       *)
Untouched(t) == request[t] \in {"none", "reading"}

(* The dispatcher claims a ready task once, and tracks it when it was sent.  *)
Sent(t) ==
    /\ t \in Board /\ board[t] = "ready" => request[t] = "none"
    /\ t \in tracked => request[t] = "done"
    /\ Untouched(t) =>
        /\ state[t] = "absent" /\ t \notin received /\ result[t] = "none"
        /\ \A w \in Worker : live[t][w] = "none"

SentOK == \A t \in Task : Sent(t)

ChannelInv == ConnInv /\ TimerInv /\ RequestTypeOK /\ SentOK

LEMMA ChannelInvImplies == ChannelInv => SingleTimer /\ TasksWatched
BY DEF ChannelInv, ConnInv, ConnTypeOK, MapOK, TimerInv, TimerTypeOK, WatchOK, Watched,
       RequestTypeOK, TasksWatched, TypeOK, Lifecycle!TaskStatus

LEMMA ChannelInit_Inv == Init => ChannelInv
<1> SUFFICES ASSUME Init PROVE ChannelInv
    OBVIOUS
<1> USE ChannelAssumption
<1>1. ConnInv
    BY DEF Init, ConnInv, ConnTypeOK, MapOK, ReplacedOK
<1>2. TimerInv
    BY DEF Init, TimerInv, TimerTypeOK, SingleTimer, WatchOK, Watched, Worker,
           TaskState, Final
<1>3. RequestTypeOK
    <2>1. 0 \in 0..MaxMessages
        OBVIOUS
    <2> QED
        BY <2>1 DEF Init, RequestTypeOK
<1>4. SentOK
    BY DEF Init, SentOK, Sent, Worker
<1> QED
    BY <1>1, <1>2, <1>3, <1>4 DEF ChannelInv

-----------------------------------------------------------------------------
(* The connection map. *)

(* What an agent says about one task: whichever message it is, the state     *)
(* becomes what it says, and the timer is restarted or cancelled.            *)
AgentWord(c, u) ==
    \/ \E said \in Said : Ack(c, u, said) \/ Progress(c, u, said) \/ TaskResult(c, u, said)
    \/ \E new \in {"completed", "failed"} : Report(c, u, new)

Spoken == {"accepted", "working", "running", "blocked"} \cup Final

LEMMA AgentWordEffect ==
    ASSUME NEW c \in Conn, NEW u \in Task, AgentWord(c, u)
    PROVE  /\ Message(c, u)
           /\ \E s \in Spoken : state' = [state EXCEPT ![u] = s]
           /\ ScheduleTimeout(u) \/ CancelTimeouts({u})
           /\ \/ UNCHANGED board
              \/ \E new \in {"running", "completed", "failed"} : Reconcile({u}, new)
<1>0. Said \subseteq Spoken /\ Final \subseteq Spoken
    BY ChannelAssumption DEF Spoken, TaskState
<1>1. CASE \E said \in Said : Ack(c, u, said)
    BY <1>0, <1>1 DEF Ack
<1>2. CASE \E said \in Said : Progress(c, u, said)
    BY <1>0, <1>2 DEF Progress
<1>3. CASE \E said \in Said : TaskResult(c, u, said)
    BY <1>0, <1>3 DEF TaskResult
<1>4. CASE \E new \in {"completed", "failed"} : Report(c, u, new)
    BY <1>0, <1>4 DEF Report, Final
<1> QED
    BY <1>1, <1>2, <1>3, <1>4 DEF AgentWord

(* Steps about tasks leave the connections alone. *)
LEMMA TaskStepsKeepConns ==
    ASSUME \/ \E c \in Conn : AgentSays(c)
           \/ \E t \in Task : Requests(t)
           \/ \E t \in Task, w \in Worker : TimerFires(t, w) \/ CancelSent(t, w)
           \/ \E a \in Agent : GraceExpires(a) \/ CoolDown(a)
    PROVE  UNCHANGED connVars
<1>1. ASSUME NEW c \in Conn, AgentSays(c) PROVE UNCHANGED connVars
    BY <1>1 DEF AgentSays, Message, Ack, Progress, Report, TaskResult, StateSync, connVars
<1>2. ASSUME NEW t \in Task, Requests(t) PROVE UNCHANGED connVars
    BY <1>2 DEF Requests, Dispatch, Send, Arrive, SendReturns, SendFails, Abandon,
                Claim, Track, Release, CallbackResult, CallbackWrite, CallbackDropped,
                connVars
<1>3. ASSUME NEW t \in Task, NEW w \in Worker, TimerFires(t, w) \/ CancelSent(t, w)
      PROVE  UNCHANGED connVars
    BY <1>3 DEF TimerFires, CancelSent, connVars
<1>4. ASSUME NEW a \in Agent, GraceExpires(a) \/ CoolDown(a)
      PROVE  UNCHANGED connVars
    BY <1>4 DEF GraceExpires, CoolDown, connVars
<1> QED
    BY <1>1, <1>2, <1>3, <1>4

LEMMA ConnStep == ConnInv /\ [Next]_vars => ConnInv'
<1> SUFFICES ASSUME ConnInv, [Next]_vars PROVE ConnInv'
    OBVIOUS
<1> USE ChannelAssumption
<1>0. ConnTypeOK /\ MapOK /\ ReplacedOK
    BY DEF ConnInv
<1>1. CASE UNCHANGED connVars
    BY <1>1 DEF connVars, ConnInv, ConnTypeOK, MapOK, ReplacedOK
<1>2. ASSUME NEW c \in Conn, Accept(c) PROVE ConnInv'
    <2>1. OwnerOf[c] \in Agent
        OBVIOUS
    <2>2. CASE IsOpen(conn[OwnerOf[c]])
        BY <1>0, <1>2, <2>1, <2>2 DEF Accept, IsOpen, ConnInv, ConnTypeOK, MapOK, ReplacedOK
    <2>3. CASE ~IsOpen(conn[OwnerOf[c]])
        BY <1>0, <1>2, <2>1, <2>3 DEF Accept, ConnInv, ConnTypeOK, MapOK, ReplacedOK
    <2> QED
        BY <2>2, <2>3
<1>3. ASSUME NEW c \in Conn, CloseOld(c) PROVE ConnInv'
    BY <1>0, <1>3 DEF CloseOld, ConnInv, ConnTypeOK, MapOK, ReplacedOK, IsOpen
<1>4. ASSUME NEW c \in Conn, Register(c) PROVE ConnInv'
    BY <1>0, <1>4 DEF Register, ConnInv, ConnTypeOK, MapOK, ReplacedOK
<1>5. ASSUME NEW c \in Conn, Drop(c) PROVE ConnInv'
    BY <1>0, <1>5 DEF Drop, ConnInv, ConnTypeOK, MapOK, ReplacedOK
<1>6. ASSUME NEW c \in Conn, Finish(c) PROVE ConnInv'
    BY <1>0, <1>6 DEF Finish, Forget, ConnInv, ConnTypeOK, MapOK, ReplacedOK
<1>7. ASSUME NEW c \in Conn, Leave(c) PROVE ConnInv'
    BY <1>0, <1>7 DEF Leave, Forget, ConnInv, ConnTypeOK, MapOK, ReplacedOK
<1>8. ASSUME NEW c \in Conn, Left(c) PROVE ConnInv'
    BY <1>0, <1>8 DEF Left, ConnInv, ConnTypeOK, MapOK, ReplacedOK
<1>9. ASSUME NEW a \in Agent, Unregister(a) PROVE ConnInv'
    BY <1>0, <1>9 DEF Unregister, ConnInv, ConnTypeOK, MapOK, ReplacedOK
<1>10. ASSUME NEW a \in Agent, Unregistered(a) PROVE ConnInv'
    BY <1>0, <1>10 DEF Unregistered, ConnInv, ConnTypeOK, MapOK, ReplacedOK
<1>11. ASSUME NEW a \in Agent, CleanUp(a) PROVE ConnInv'
    BY <1>0, <1>11 DEF CleanUp, ConnInv, ConnTypeOK, MapOK, ReplacedOK
<1>12. CASE Restart
    BY <1>0, <1>12 DEF Restart, ConnInv, ConnTypeOK, MapOK, ReplacedOK
<1>13. CASE UNCHANGED vars
    BY <1>1, <1>13 DEF vars
<1> QED
    BY <1>1, <1>2, <1>3, <1>4, <1>5, <1>6, <1>7, <1>8, <1>9, <1>10, <1>11,
       <1>12, <1>13, TaskStepsKeepConns DEF Next, Connection, Timers

-----------------------------------------------------------------------------
(* Timers. *)

(* SingleTimer, worker by worker: l are the workers of a task, m its entry.  *)
LEMMA OneByOne ==
    ASSUME NEW l, NEW m \in {0} \cup Worker
    PROVE  {w \in Worker : l[w] # "none"} = {m} \ {0}
           <=> \A w \in Worker : l[w] # "none" <=> m = w
BY DEF Worker

Registered(t) == \A w \in Worker : live[t][w] # "none" <=> timer[t] = w

LEMMA SingleIsRegistered ==
    TimerTypeOK => (SingleTimer <=> \A t \in Task : Registered(t))
<1> SUFFICES ASSUME TimerTypeOK
             PROVE  SingleTimer <=> \A t \in Task : Registered(t)
    OBVIOUS
<1>1. \A t \in Task : timer[t] \in {0} \cup Worker
    BY DEF TimerTypeOK
<1> QED
    BY <1>1, OneByOne DEF SingleTimer, Registered

WorkersOK ==
    /\ live \in [Task -> [Worker -> {"none", "sleeping", "cancelling"}]]
    /\ timer \in [Task -> {0} \cup Worker]
    /\ \A t \in Task : Registered(t)

Same(t) == live'[t] = live[t] /\ timer'[t] = timer[t]

LEMMA WorkersOfInv == TimerInv => WorkersOK
BY SingleIsRegistered DEF TimerInv, WorkersOK, TimerTypeOK

(* The parts of the invariant from which the whole follows after a step. *)
LEMMA TimerInvAfter ==
    ASSUME WorkersOK', state' \in [Task -> TaskState], grace' \subseteq Agent,
           WatchOK'
    PROVE  TimerInv'
<1>1. TimerTypeOK'
    BY DEF WorkersOK, TimerTypeOK
<1>2. SingleTimer'
    <2>1. \A t \in Task : timer'[t] \in {0} \cup Worker
        BY DEF WorkersOK
    <2> QED
        BY <2>1, OneByOne DEF SingleTimer, WorkersOK, Registered
<1> QED
    BY <1>1, <1>2 DEF TimerInv

(* _cancel_task_timeout leaves a task without a worker. *)
LEMMA CancelKeeps ==
    ASSUME WorkersOK, NEW S \in SUBSET Task, CancelTimeouts(S)
    PROVE  /\ WorkersOK'
           /\ \A t \in Task \ S : Same(t)
           /\ \A t \in S : timer'[t] = 0 /\ \A w \in Worker : live'[t][w] = "none"
<1> USE DEF WorkersOK, CancelTimeouts
<1>1. \A t \in Task \ S : Same(t)
    BY DEF Same
<1>2. \A t \in S : timer'[t] = 0 /\ \A w \in Worker : live'[t][w] = "none"
    BY DEF Without, Registered
<1>3. /\ live' \in [Task -> [Worker -> {"none", "sleeping", "cancelling"}]]
      /\ timer' \in [Task -> {0} \cup Worker]
    BY DEF Without
<1>4. \A t \in Task : Registered(t)'
    <2> TAKE t \in Task
    <2> HIDE DEF CancelTimeouts
    <2>0. 0 \notin Worker
        BY DEF Worker
    <2>1. CASE t \in S
        <3>1. timer'[t] = 0 /\ \A w \in Worker : live'[t][w] = "none"
            BY <1>2, <2>1
        <3> QED
            BY <2>0, <3>1 DEF Registered
    <2>2. CASE t \notin S
        BY <1>1, <2>2 DEF Registered, Same
    <2> QED
        BY <2>1, <2>2
<1> QED
    BY <1>1, <1>2, <1>3, <1>4

(* _schedule_task_timeout leaves it with one that sleeps. *)
LEMMA ScheduleKeeps ==
    ASSUME WorkersOK, NEW t \in Task, ScheduleTimeout(t)
    PROVE  /\ WorkersOK'
           /\ \A u \in Task \ {t} : Same(u)
           /\ timer'[t] # 0
           /\ \A w \in Worker : live'[t][w] # "cancelling"
           /\ \E w \in Worker : live'[t][w] = "sleeping"
<1> DEFINE rest == Without(live[t], timer[t])
<1>1. rest \in [Worker -> {"none", "sleeping", "cancelling"}]
      /\ \A v \in Worker : rest[v] = "none"
    BY DEF Without, WorkersOK, Registered
<1>2. PICK w \in Worker :
        /\ live' = [live EXCEPT ![t] = [rest EXCEPT ![w] = "sleeping"]]
        /\ timer' = [timer EXCEPT ![t] = w]
    BY DEF ScheduleTimeout
<1> HIDE DEF rest
<1>3. \A u \in Task \ {t} : Same(u)
    BY <1>2 DEF Same, WorkersOK
<1>4. live'[t] = [rest EXCEPT ![w] = "sleeping"] /\ timer'[t] = w
    BY <1>2 DEF WorkersOK
<1>5. \A v \in Worker : live'[t][v] = IF v = w THEN "sleeping" ELSE "none"
    BY <1>1, <1>4
<1>6. live' \in [Task -> [Worker -> {"none", "sleeping", "cancelling"}]]
      /\ timer' \in [Task -> {0} \cup Worker]
    BY <1>1, <1>2 DEF WorkersOK
<1>7. \A u \in Task : Registered(u)'
    <2> TAKE u \in Task
    <2>1. CASE u = t
        BY <1>4, <1>5, <2>1 DEF Registered
    <2>2. CASE u # t
        BY <1>3, <2>2 DEF WorkersOK, Registered, Same
    <2> QED
        BY <2>1, <2>2
<1>8. timer'[t] # 0
    BY <1>4 DEF Worker
<1> QED
    BY <1>3, <1>5, <1>6, <1>7, <1>8 DEF WorkersOK

(* What an agent says about one task is nothing to the others. *)
LEMMA AgentWordElsewhere ==
    ASSUME TimerTypeOK, WorkersOK, NEW c \in Conn, NEW u \in Task, AgentWord(c, u),
           NEW v \in Task, v # u
    PROVE  /\ Same(v) /\ state'[v] = state[v]
           /\ v \in Board => board'[v] = board[v]
<1>1. PICK s \in Spoken : state' = [state EXCEPT ![u] = s]
    BY AgentWordEffect
<1>2. state'[v] = state[v]
    BY <1>1 DEF TimerTypeOK
<1>3. ASSUME ScheduleTimeout(u) PROVE Same(v)
    BY <1>3, ScheduleKeeps
<1>4. ASSUME CancelTimeouts({u}) PROVE Same(v)
    BY <1>4, CancelKeeps
<1>5. Same(v)
    BY <1>3, <1>4, AgentWordEffect
<1>6. CASE \E new \in {"running", "completed", "failed"} : Reconcile({u}, new)
    BY <1>2, <1>5, <1>6 DEF Reconcile
<1> QED
    BY <1>2, <1>5, <1>6, AgentWordEffect

LEMMA Dangle_Inv == ASSUME TimerInv, NEW a \in Agent, Dangle(a) PROVE TimerInv'
<1> DEFINE D == {t \in TasksOf(a) : state[t] \notin Final \cup {"absent", "dangling"}}
<1>0. TimerTypeOK /\ WatchOK /\ WorkersOK
    BY WorkersOfInv DEF TimerInv
<1>1. /\ D \in SUBSET Task
      /\ state' = [t \in Task |-> IF t \in D THEN "dangling" ELSE state[t]]
      /\ CancelTimeouts(D)
      /\ grace' = IF D = {} THEN grace ELSE grace \cup {a}
      /\ \A t \in D : AgentOf[t] = a
    BY DEF Dangle, TasksOf
<1> HIDE DEF D
<1>2. /\ WorkersOK' /\ \A t \in Task \ D : Same(t)
    BY <1>0, <1>1, CancelKeeps
<1>3. state' \in [Task -> TaskState] /\ grace' \subseteq Agent
    BY <1>0, <1>1 DEF TimerTypeOK, TaskState
<1>4. WatchOK'
    <2> SUFFICES ASSUME NEW t \in Task PROVE Watched(t)'
        BY DEF WatchOK
    <2>1. CASE t \in D
        BY <1>1, <2>1 DEF Watched
    <2>2. CASE t \notin D
        BY <1>0, <1>1, <1>2, <2>2 DEF WatchOK, Watched, Same
    <2> QED
        BY <2>1, <2>2
<1> QED
    BY <1>2, <1>3, <1>4, TimerInvAfter

(* A new state for one task, whose timer is started ... *)
LEMMA Restarted_Inv ==
    ASSUME TimerInv, NEW t \in Task, NEW s \in TaskState, s # "dangling",
           state' = [state EXCEPT ![t] = s], ScheduleTimeout(t), grace' = grace
    PROVE  TimerInv'
<1>0. TimerTypeOK /\ WatchOK /\ WorkersOK
    BY WorkersOfInv DEF TimerInv
<1>1. /\ WorkersOK' /\ timer'[t] # 0
      /\ \A u \in Task \ {t} : Same(u)
      /\ \A w \in Worker : live'[t][w] # "cancelling"
    BY <1>0, ScheduleKeeps
<1>2. WatchOK'
    <2> SUFFICES ASSUME NEW u \in Task PROVE Watched(u)'
        BY DEF WatchOK
    <2>1. CASE u = t
        BY <1>0, <1>1, <2>1 DEF Watched, TimerTypeOK
    <2>2. CASE u # t
        BY <1>0, <1>1, <2>2 DEF WatchOK, Watched, Same, TimerTypeOK
    <2> QED
        BY <2>1, <2>2
<1>3. state' \in [Task -> TaskState] /\ grace' \subseteq Agent
    BY <1>0 DEF TimerTypeOK
<1> QED
    BY <1>1, <1>2, <1>3, TimerInvAfter

(* ... or cancelled. *)
LEMMA Cancelled_Inv ==
    ASSUME TimerInv, NEW t \in Task, NEW s \in TaskState \ {"dangling", "forwarded"},
           state' = [state EXCEPT ![t] = s], CancelTimeouts({t}), grace' = grace
    PROVE  TimerInv'
<1>0. TimerTypeOK /\ WatchOK /\ WorkersOK
    BY WorkersOfInv DEF TimerInv
<1>1. WorkersOK' /\ \A u \in Task \ {t} : Same(u)
    BY <1>0, CancelKeeps
<1>2. WatchOK'
    <2> SUFFICES ASSUME NEW u \in Task PROVE Watched(u)'
        BY DEF WatchOK
    <2>1. CASE u = t
        BY <1>0, <2>1 DEF Watched, TimerTypeOK
    <2>2. CASE u # t
        BY <1>0, <1>1, <2>2 DEF WatchOK, Watched, Same, TimerTypeOK
    <2> QED
        BY <2>1, <2>2
<1>3. state' \in [Task -> TaskState] /\ grace' \subseteq Agent
    BY <1>0 DEF TimerTypeOK, TaskState, Final
<1> QED
    BY <1>1, <1>2, <1>3, TimerInvAfter

(* New states without a change of timers or grace periods. *)
LEMMA Restated_Inv ==
    ASSUME TimerInv, UNCHANGED <<live, timer, grace>>,
           state' \in [Task -> TaskState],
           \A t \in Task : state'[t] \in {"dangling", "forwarded"}
               => state'[t] = state[t]
    PROVE  TimerInv'
<1>0. TimerTypeOK /\ WatchOK /\ WorkersOK
    BY WorkersOfInv DEF TimerInv
<1>1. WorkersOK'
    BY <1>0 DEF WorkersOK, Registered
<1>2. WatchOK'
    BY <1>0 DEF WatchOK, Watched
<1> QED
    BY <1>0, <1>1, <1>2, TimerInvAfter DEF TimerTypeOK

(* A worker ends: its task has no other, and is not waiting for an agent.    *)
LEMMA Ended_Inv ==
    ASSUME TimerInv, NEW t \in Task, NEW w \in Worker, live[t][w] # "none",
           live' = [live EXCEPT ![t][w] = "none"], timer' = [timer EXCEPT ![t] = 0],
           state' \in [Task -> TaskState], grace' = grace,
           state'[t] # "forwarded",
           state'[t] = "dangling" => AgentOf[t] \in grace,
           \A u \in Task \ {t} : state'[u] = state[u]
    PROVE  TimerInv'
<1>0. TimerTypeOK /\ WatchOK /\ WorkersOK
    BY WorkersOfInv DEF TimerInv
<1>1. \A u \in Task \ {t} : Same(u)
    BY <1>0 DEF Same, WorkersOK
<1>2. timer'[t] = 0 /\ \A v \in Worker : live'[t][v] = "none"
    <2>1. timer[t] = w /\ \A v \in Worker \ {w} : live[t][v] = "none"
        BY <1>0 DEF WorkersOK, Registered
    <2>2. timer'[t] = 0 /\ live'[t] = [live[t] EXCEPT ![w] = "none"]
        BY <1>0 DEF WorkersOK
    <2> QED
        BY <1>0, <2>1, <2>2 DEF WorkersOK
<1>3. WorkersOK'
    <2>1. \A u \in Task : Registered(u)'
        <3> TAKE u \in Task
        <3>0. 0 \notin Worker
            BY DEF Worker
        <3>1. CASE u = t
            BY <1>2, <3>0, <3>1 DEF Registered
        <3>2. CASE u # t
            BY <1>0, <1>1, <3>2 DEF Registered, Same, WorkersOK
        <3> QED
            BY <3>1, <3>2
    <2> QED
        BY <1>0, <2>1 DEF WorkersOK
<1>4. WatchOK'
    <2> SUFFICES ASSUME NEW u \in Task PROVE Watched(u)'
        BY DEF WatchOK
    <2>1. CASE u = t
        BY <2>1 DEF Watched
    <2>2. CASE u # t
        BY <1>0, <1>1, <2>2 DEF WatchOK, Watched, Same
    <2> QED
        BY <2>1, <2>2
<1> QED
    BY <1>0, <1>3, <1>4, TimerInvAfter DEF TimerTypeOK

LEMMA SameTasks == TimerInv /\ UNCHANGED taskVars => TimerInv'
<1> SUFFICES ASSUME TimerInv, UNCHANGED taskVars PROVE TimerInv'
    OBVIOUS
<1> QED
    BY Restated_Inv DEF taskVars, TimerInv, TimerTypeOK

LEMMA TimerFires_Inv ==
    ASSUME TimerInv, NEW t \in Task, NEW w \in Worker, TimerFires(t, w)
    PROVE  TimerInv'
<1>0. /\ TimerTypeOK /\ WatchOK /\ WorkersOK
      /\ live[t][w] = "sleeping" /\ grace' = grace
    BY WorkersOfInv DEF TimerInv, TimerFires
<1>1. CASE state[t] \in Final
    <2>1. /\ live' = [live EXCEPT ![t][w] = "none"]
          /\ timer' = [timer EXCEPT ![t] = 0] /\ state' = state
        BY <1>1 DEF TimerFires
    <2>2. state[t] \notin {"dangling", "forwarded"}
        BY <1>1 DEF Final
    <2> QED
        BY <1>0, <2>1, <2>2, Ended_Inv DEF TimerTypeOK
<1>2. CASE state[t] \notin Final /\ ~IsOpen(conn[AgentOf[t]])
    <2>1. /\ live' = [live EXCEPT ![t][w] = "none"]
          /\ timer' = [timer EXCEPT ![t] = 0]
          /\ state' = [state EXCEPT ![t] = "failed"]
        BY <1>2 DEF TimerFires
    <2>2. /\ state' \in [Task -> TaskState] /\ state'[t] = "failed"
          /\ \A u \in Task \ {t} : state'[u] = state[u]
        BY <1>0, <2>1 DEF TimerTypeOK, TaskState, Final
    <2> QED
        BY <1>0, <2>1, <2>2, Ended_Inv
<1>3. CASE state[t] \notin Final /\ IsOpen(conn[AgentOf[t]])
    <2>1. /\ live' = [live EXCEPT ![t][w] = "cancelling"]
          /\ timer' = timer
          /\ state' = [state EXCEPT ![t] = "failed"]
        BY <1>3 DEF TimerFires
    <2>2. /\ state' \in [Task -> TaskState] /\ state'[t] = "failed"
          /\ \A u \in Task \ {t} : state'[u] = state[u] /\ Same(u)
        BY <1>0, <2>1 DEF TimerTypeOK, TaskState, Final, Same
    <2>3. WorkersOK'
        BY <1>0, <2>1 DEF WorkersOK, Registered
    <2>4. WatchOK'
        BY <1>0, <2>2 DEF WatchOK, Watched, Same
    <2> QED
        BY <1>0, <2>2, <2>3, <2>4, TimerInvAfter DEF TimerTypeOK
<1> QED
    BY <1>1, <1>2, <1>3

(* The worker that sent its task_cancel: its task failed before.            *)
LEMMA CancelSent_Inv ==
    ASSUME TimerInv, NEW t \in Task, NEW w \in Worker, CancelSent(t, w)
    PROVE  TimerInv'
<1>0. TimerTypeOK /\ WatchOK
    BY DEF TimerInv
<1>1. /\ live[t][w] = "cancelling" /\ live' = [live EXCEPT ![t][w] = "none"]
      /\ timer' = [timer EXCEPT ![t] = 0] /\ state' = state /\ grace' = grace
    BY DEF CancelSent
<1>2. /\ state[t] # "forwarded"
      /\ state[t] = "dangling" => AgentOf[t] \in grace
    BY <1>0, <1>1 DEF WatchOK, Watched
<1> QED
    BY <1>0, <1>1, <1>2, Ended_Inv DEF TimerTypeOK

(* The grace period ends: no dangling task of the agent is left.            *)
LEMMA GraceExpires_Inv ==
    ASSUME TimerInv, NEW a \in Agent, GraceExpires(a)
    PROVE  TimerInv'
<1> DEFINE F == {t \in TasksOf(a) : state[t] = "dangling"}
<1>0. TimerTypeOK /\ WatchOK /\ WorkersOK
    BY WorkersOfInv DEF TimerInv
<1>1. /\ grace' = grace \ {a} /\ UNCHANGED <<live, timer>>
      /\ state' = [t \in Task |-> IF t \in F THEN "failed" ELSE state[t]]
      /\ \A t \in Task \ F : state[t] = "dangling" => AgentOf[t] # a
    BY DEF GraceExpires, TasksOf
<1> HIDE DEF F
<1>2. WorkersOK'
    BY <1>0, <1>1 DEF WorkersOK, Registered
<1>3. state' \in [Task -> TaskState] /\ grace' \subseteq Agent
    BY <1>0, <1>1 DEF TimerTypeOK, TaskState, Final
<1>4. WatchOK'
    BY <1>0, <1>1 DEF WatchOK, Watched
<1> QED
    BY <1>2, <1>3, <1>4, TimerInvAfter

(* What state_sync writes: a status the agent gave, the board's "running", or  *)
(* what was there.                                                           *)
LEMMA SyncEffect ==
    ASSUME RequestTypeOK, SentOK, NEW c \in Conn, NEW list \in ListOf(OwnerOf[c]),
           StateSync(c, list), NEW t \in Task
    PROVE  \/ state'[t] \in Spoken /\ t \in received
           \/ t \in tracked /\ board[t] = "running" /\ state'[t] = "running"
           \/ state'[t] = state[t]
<1>1. list \in [DOMAIN list -> Said] /\ DOMAIN list \subseteq received
    BY DEF ListOf
<1>2. Said \subseteq Spoken
    BY ChannelAssumption DEF Spoken, TaskState
<1>3. ASSUME t \in Restored(OwnerOf[c]) PROVE t \in tracked /\ board[t] = "running"
    <2>1. t \in tracked /\ t \in Board /\ board[t] \notin {"completed", "failed"}
        BY <1>3 DEF Restored, RequestTypeOK
    <2>2. board[t] # "ready"
        BY <2>1 DEF SentOK, Sent
    <2> QED
        BY <2>1, <2>2 DEF RequestTypeOK
<1>4. \/ t \in DOMAIN list /\ state'[t] = list[t]
      \/ t \in Restored(OwnerOf[c]) /\ state'[t] = board[t]
      \/ state'[t] = state[t]
    BY DEF StateSync
<1> QED
    BY <1>1, <1>2, <1>3, <1>4

LEMMA StateSync_Inv ==
    ASSUME ChannelInv, NEW c \in Conn, NEW list \in ListOf(OwnerOf[c]), StateSync(c, list)
    PROVE  TimerInv'
<1>0. TimerInv /\ TimerTypeOK /\ RequestTypeOK /\ SentOK
    BY DEF ChannelInv, TimerInv
<1>1. UNCHANGED <<live, timer, grace>> /\ state' = [t \in Task |-> state'[t]]
    BY DEF StateSync
<1>2. \A t \in Task : state'[t] \in Spoken \/ state'[t] = state[t]
    BY <1>0, SyncEffect DEF Spoken
<1>3. state' \in [Task -> TaskState]
    BY <1>0, <1>1, <1>2 DEF TimerTypeOK, TaskState, Spoken
<1>4. \A t \in Task : state'[t] \in {"dangling", "forwarded"} => state'[t] = state[t]
    BY <1>2 DEF Spoken, Final
<1> QED
    BY <1>0, <1>1, <1>3, <1>4, Restated_Inv

LEMMA TimerStep == ChannelInv /\ [Next]_vars => TimerInv'
<1> SUFFICES ASSUME ChannelInv, [Next]_vars PROVE TimerInv'
    OBVIOUS
<1>0. TimerInv /\ TimerTypeOK /\ OwnerOf \in [Conn -> Agent]
    BY ChannelAssumption DEF ChannelInv, TimerInv
<1>1. CASE UNCHANGED taskVars
    BY <1>0, <1>1, SameTasks
<1>2. ASSUME NEW c \in Conn, Connection(c) PROVE TimerInv'
    <2>1. CASE Finish(c) \/ Left(c)
        BY <1>0, <2>1, Dangle_Inv DEF Finish, Left
    <2>2. CASE Accept(c) \/ CloseOld(c) \/ Register(c) \/ Drop(c) \/ Leave(c)
        BY <1>1, <2>2 DEF Accept, CloseOld, Register, Drop, Leave
    <2> QED
        BY <1>2, <2>1, <2>2 DEF Connection
<1>3. ASSUME NEW c \in Conn, NEW t \in Task, AgentWord(c, t) PROVE TimerInv'
    <2>1. PICK s \in Spoken : state' = [state EXCEPT ![t] = s]
        BY <1>3, AgentWordEffect
    <2>2. s \in TaskState \ {"dangling", "forwarded"} /\ grace' = grace
        BY <1>3, AgentWordEffect DEF Message, Spoken, TaskState, Final
    <2>3. CASE ScheduleTimeout(t)
        BY <1>0, <2>1, <2>2, <2>3, Restarted_Inv
    <2>4. CASE CancelTimeouts({t})
        BY <1>0, <2>1, <2>2, <2>4, Cancelled_Inv
    <2> QED
        BY <1>3, <2>3, <2>4, AgentWordEffect
<1>6. ASSUME NEW c \in Conn, NEW list \in ListOf(OwnerOf[c]), StateSync(c, list) PROVE TimerInv'
    BY <1>6, StateSync_Inv
<1>7. ASSUME NEW t \in Task,
             Dispatch(t) \/ Arrive(t) \/ Abandon(t) \/ Claim(t) \/ Track(t) \/ Release(t)
                 \/ CallbackResult(t) \/ CallbackDropped(t)
      PROVE  TimerInv'
    BY <1>1, <1>7 DEF Dispatch, Arrive, Abandon, Claim, Track, Release, CallbackResult,
                      CallbackDropped, taskVars
<1>8. ASSUME NEW t \in Task, Send(t) \/ SendFails(t) PROVE TimerInv'
    <2>1. /\ UNCHANGED <<live, timer, grace>>
          /\ state' = [state EXCEPT ![t] = "dispatched"]
             \/ state' = [state EXCEPT ![t] = "failed"]
        BY <1>8 DEF Send, SendFails
    <2>2. /\ state' \in [Task -> TaskState]
          /\ \A u \in Task : state'[u] \in {"dangling", "forwarded"}
                => state'[u] = state[u]
        BY <1>0, <2>1 DEF TimerTypeOK, TaskState, Final
    <2> QED
        BY <1>0, <2>1, <2>2, Restated_Inv
<1>9. ASSUME NEW t \in Task, SendReturns(t) PROVE TimerInv'
    <2>1. /\ state' = [state EXCEPT ![t] = "forwarded"] /\ ScheduleTimeout(t)
          /\ grace' = grace /\ "forwarded" \in TaskState
        BY <1>9 DEF SendReturns, TaskState
    <2> QED
        BY <1>0, <2>1, Restarted_Inv
<1>10. ASSUME NEW t \in Task, NEW new \in {"completed", "failed"}, CallbackWrite(t, new)
       PROVE  TimerInv'
    <2>1. /\ state' = [state EXCEPT ![t] = new] /\ CancelTimeouts({t})
          /\ grace' = grace /\ new \in TaskState \ {"dangling", "forwarded"}
        BY <1>10 DEF CallbackWrite, TaskState, Final
    <2> QED
        BY <1>0, <2>1, Cancelled_Inv
<1>11. ASSUME NEW a \in Agent, Unregister(a) \/ Unregistered(a) \/ CoolDown(a) \/ CleanUp(a)
       PROVE  TimerInv'
    BY <1>1, <1>11 DEF Unregister, Unregistered, CoolDown, CleanUp
<1>12. ASSUME NEW t \in Task, NEW w \in Worker, TimerFires(t, w) \/ CancelSent(t, w)
       PROVE  TimerInv'
    BY <1>0, <1>12, TimerFires_Inv, CancelSent_Inv
<1>13. ASSUME NEW a \in Agent, GraceExpires(a) PROVE TimerInv'
    BY <1>0, <1>13, GraceExpires_Inv
<1>14. CASE Restart
    BY <1>14 DEF Restart, TimerInv, TimerTypeOK, SingleTimer, WatchOK, Watched,
                 Worker, TaskState, Final
<1>15. CASE UNCHANGED vars
    BY <1>1, <1>15 DEF vars
<1> QED
    BY <1>2, <1>3, <1>6, <1>7, <1>8, <1>9, <1>10, <1>11, <1>12,
       <1>13, <1>14, <1>15 DEF Next, AgentSays, AgentWord, Requests, Timers

-----------------------------------------------------------------------------
(* What was sent. *)

(* The board only leaves "ready" when the dispatcher sends the task.        *)
LEMMA ReconcileKeeps ==
    ASSUME RequestTypeOK, NEW S, NEW new \in {"running", "completed", "failed"},
           Reconcile(S, new)
    PROVE  /\ board' \in [Board -> {"ready", "running", "completed", "failed"}]
           /\ \A t \in Board : board'[t] = "ready" => board[t] = "ready"
BY DEF RequestTypeOK, Reconcile

LEMMA RequestStep == ConnInv /\ RequestTypeOK /\ [Next]_vars => RequestTypeOK'
<1> SUFFICES ASSUME ConnInv, RequestTypeOK, [Next]_vars PROVE RequestTypeOK'
    OBVIOUS
<1>0. ConnTypeOK
    BY DEF ConnInv
<1> USE ChannelAssumption
<1>1. CASE UNCHANGED <<requestVars, boardVars, otherVars>>
    BY <1>1 DEF requestVars, boardVars, otherVars, RequestTypeOK
<1>2. ASSUME NEW c \in Conn, Connection(c) PROVE RequestTypeOK'
    BY <1>1, <1>2 DEF Connection, Accept, CloseOld, Register, Drop, Finish, Leave, Left
<1>3. ASSUME NEW c \in Conn, NEW t \in Task, AgentWord(c, t) PROVE RequestTypeOK'
    <2>0. Message(c, t)
        BY <1>3, AgentWordEffect
    <2>1. messages' \in 0..MaxMessages
        BY <2>0 DEF Message, RequestTypeOK
    <2>2. board' \in [Board -> {"ready", "running", "completed", "failed"}]
        BY <1>3, AgentWordEffect, ReconcileKeeps DEF RequestTypeOK
    <2>4. UNCHANGED <<requestVars, tracked, received, synced, restarted>>
        BY <2>0 DEF Message
    <2> QED
        BY <2>1, <2>2, <2>4 DEF RequestTypeOK, requestVars
<1>4. ASSUME NEW c \in Conn, NEW list \in ListOf(OwnerOf[c]), StateSync(c, list)
      PROVE  RequestTypeOK'
    BY <1>4 DEF StateSync, MaySync, requestVars, boardVars, RequestTypeOK
<1>5. ASSUME NEW t \in Task, Dispatch(t) PROVE RequestTypeOK'
    <2>1. via' \in [Task -> Conn \cup {NULL}]
        BY <1>0, <1>5 DEF Dispatch, RequestTypeOK, ConnTypeOK
    <2> QED
        BY <1>5, <2>1 DEF Dispatch, boardVars, otherVars, RequestTypeOK
<1>6. ASSUME NEW t \in Task,
             Send(t) \/ Arrive(t) \/ SendReturns(t) \/ SendFails(t) \/ Abandon(t) \/ Track(t)
      PROVE  RequestTypeOK'
    BY <1>6 DEF Send, Arrive, SendReturns, SendFails, Abandon, Track, EndRequest,
                boardVars, otherVars, RequestTypeOK
<1>7. ASSUME NEW t \in Task, Claim(t) \/ Release(t) PROVE RequestTypeOK'
    <2>1. /\ via' \in [Task -> Conn \cup {NULL}]
          /\ request' \in [Task -> {"none", "reading", "sending", "arrived",
                                    "done", "abandoned"}]
        BY <1>0, <1>7 DEF Claim, Release, EndRequest, RequestTypeOK, ConnTypeOK
    <2>2. board' \in [Board -> {"ready", "running", "completed", "failed"}]
        BY <1>7 DEF Claim, Release, UpdateBoard, RequestTypeOK
    <2> QED
        BY <1>7, <2>1, <2>2 DEF Claim, Release, otherVars, RequestTypeOK
<1>8. ASSUME NEW t \in Task, CallbackResult(t) \/ CallbackDropped(t) PROVE RequestTypeOK'
    <2>1. messages' \in 0..MaxMessages
        BY <1>8 DEF CallbackResult, CallbackDropped, otherVars, RequestTypeOK
    <2> QED
        BY <1>8, <2>1 DEF CallbackResult, CallbackDropped, boardVars, otherVars, RequestTypeOK
<1>9. ASSUME NEW t \in Task, NEW new \in {"completed", "failed"}, CallbackWrite(t, new)
      PROVE  RequestTypeOK'
    <2>1. board' \in [Board -> {"ready", "running", "completed", "failed"}]
        BY <1>9, ReconcileKeeps DEF CallbackWrite
    <2> QED
        BY <1>9, <2>1 DEF CallbackWrite, RequestTypeOK
<1>10. ASSUME NEW a \in Agent, Unregister(a) \/ Unregistered(a) \/ CleanUp(a)
       PROVE  RequestTypeOK'
    BY <1>1, <1>10 DEF Unregister, Unregistered, CleanUp
<1>11. ASSUME NEW a \in Agent, CoolDown(a) PROVE RequestTypeOK'
    BY <1>11 DEF CoolDown, requestVars, boardVars, RequestTypeOK
<1>12. ASSUME NEW t \in Task, NEW w \in Worker, TimerFires(t, w) \/ CancelSent(t, w)
       PROVE  RequestTypeOK'
    <2>1. board' \in [Board -> {"ready", "running", "completed", "failed"}]
        BY <1>12, ReconcileKeeps DEF TimerFires, CancelSent, RequestTypeOK
    <2> QED
        BY <1>12, <2>1 DEF TimerFires, CancelSent, requestVars, otherVars, RequestTypeOK
<1>13. ASSUME NEW a \in Agent, GraceExpires(a) PROVE RequestTypeOK'
    <2>1. board' \in [Board -> {"ready", "running", "completed", "failed"}]
        BY <1>13, ReconcileKeeps DEF GraceExpires
    <2> QED
        BY <1>13, <2>1 DEF GraceExpires, requestVars, otherVars, RequestTypeOK
<1>14. CASE Restart
    BY <1>14 DEF Restart, RequestTypeOK
<1>15. CASE UNCHANGED vars
    BY <1>1, <1>15 DEF vars
<1> QED
    BY <1>2, <1>3, <1>4, <1>5, <1>6, <1>7, <1>8, <1>9, <1>10, <1>11, <1>12,
       <1>13, <1>14, <1>15
       DEF Next, AgentSays, AgentWord, Requests, Timers

(* What concerns one task. *)
Frame(t) ==
    /\ Same(t) /\ state'[t] = state[t] /\ request'[t] = request[t]
    /\ result'[t] = result[t]
    /\ t \in received' => t \in received
    /\ t \in tracked' => t \in tracked
    /\ t \in Board /\ board'[t] = "ready" => board[t] = "ready"

LEMMA FrameKeeps == ASSUME NEW t \in Task, Sent(t), Frame(t) PROVE Sent(t)'
BY DEF Frame, Same, Sent, Untouched

(* A task that was sent may change in every other respect. *)
LEMMA RestateKeeps ==
    ASSUME NEW t \in Task, Sent(t), ~Untouched(t), request'[t] = request[t],
           t \in tracked' => t \in tracked,
           t \in Board /\ board'[t] = "ready" => board[t] = "ready"
    PROVE  Sent(t)'
BY DEF Sent, Untouched

LEMMA SentStep == ChannelInv /\ [Next]_vars => SentOK'
<1> SUFFICES ASSUME ChannelInv, [Next]_vars, NEW t \in Task PROVE Sent(t)'
    BY DEF SentOK
<1>0. /\ Sent(t) /\ RequestTypeOK /\ TimerTypeOK /\ WorkersOK
      /\ Board \subseteq Task
    BY ChannelAssumption, WorkersOfInv DEF ChannelInv, TimerInv, SentOK
<1>1. CASE UNCHANGED <<taskVars, requestVars, boardVars, received>>
    BY <1>0, <1>1, FrameKeeps DEF taskVars, requestVars, boardVars, Frame, Same
<1>2. ASSUME NEW a \in Agent, Dangle(a), UNCHANGED <<requestVars, boardVars, received>>
      PROVE  Sent(t)'
    <2> DEFINE D == {u \in TasksOf(a) : state[u] \notin Final \cup {"absent", "dangling"}}
    <2>1. D \in SUBSET Task /\ CancelTimeouts(D)
          /\ state' = [u \in Task |-> IF u \in D THEN "dangling" ELSE state[u]]
        BY <1>2 DEF Dangle, TasksOf
    <2>2. \A u \in Task \ D : Same(u)
        BY <1>0, <2>1, CancelKeeps
    <2>3. CASE t \in D
        <3>1. ~Untouched(t) /\ state'[t] = "dangling"
            BY <1>0, <2>1, <2>3 DEF Sent
        <3> QED
            BY <1>0, <1>2, <3>1, RestateKeeps DEF requestVars, boardVars
    <2>4. CASE t \notin D
        BY <1>0, <1>2, <2>1, <2>2, <2>4, FrameKeeps
           DEF requestVars, boardVars, Frame
    <2> QED
        BY <2>3, <2>4
<1>3. ASSUME NEW c \in Conn, Connection(c) PROVE Sent(t)'
    <2>1. CASE Finish(c) \/ Left(c)
        BY <1>2, <2>1, ChannelAssumption DEF Finish, Left, otherVars
    <2>2. CASE Accept(c) \/ CloseOld(c) \/ Register(c) \/ Drop(c) \/ Leave(c)
        BY <1>1, <2>2 DEF Accept, CloseOld, Register, Drop, Leave, otherVars
    <2> QED
        BY <1>3, <2>1, <2>2 DEF Connection
<1>4. ASSUME NEW c \in Conn, NEW u \in Task, AgentWord(c, u) PROVE Sent(t)'
    <2>1. /\ u \in received /\ ~Untouched(u)
          /\ UNCHANGED <<requestVars, tracked, received>>
        BY <1>0, <1>4, AgentWordEffect DEF Message, ChannelInv, SentOK, Sent
    <2>2. \A v \in Board : board'[v] = "ready" => board[v] = "ready"
        BY <1>0, <1>4, AgentWordEffect, ReconcileKeeps
    <2>3. \A v \in Task \ {u} : Same(v) /\ state'[v] = state[v]
        BY <1>0, <1>4, AgentWordElsewhere
    <2>5. CASE t = u
        BY <1>0, <2>1, <2>2, <2>5, RestateKeeps DEF requestVars
    <2>6. CASE t # u
        BY <1>0, <2>1, <2>2, <2>3, <2>6, FrameKeeps DEF requestVars, Frame
    <2> QED
        BY <2>5, <2>6
<1>5. ASSUME NEW c \in Conn, NEW list \in ListOf(OwnerOf[c]), StateSync(c, list)
      PROVE  Sent(t)'
    <2>1. UNCHANGED <<live, timer, requestVars, boardVars, received>>
        BY <1>5 DEF StateSync
    <2>2. CASE t \in received \/ t \in tracked
        <3>1. ~Untouched(t)
            BY <1>0, <2>2 DEF Sent, Untouched
        <3> QED
            BY <1>0, <2>1, <3>1, RestateKeeps DEF requestVars, boardVars
    <2>3. CASE t \notin received /\ t \notin tracked
        <3>1. state'[t] = state[t]
            BY <1>0, <1>5, <2>3, SyncEffect DEF ChannelInv
        <3> QED
            BY <1>0, <2>1, <3>1, FrameKeeps DEF requestVars, boardVars, Frame, Same
    <2> QED
        BY <2>2, <2>3
<1>6. ASSUME NEW u \in Task,
             Dispatch(u) \/ Send(u) \/ Arrive(u) \/ SendFails(u) \/ Abandon(u) \/ Track(u)
      PROVE  Sent(t)'
    <2>1. CASE t = u
        BY <1>0, <1>6, <2>1
           DEF Dispatch, Send, Arrive, SendFails, Abandon, Track, EndRequest, Sent,
               Untouched, taskVars, boardVars, otherVars, RequestTypeOK, TimerTypeOK
    <2>2. CASE t # u
        BY <1>0, <1>6, <2>2, FrameKeeps
           DEF Dispatch, Send, Arrive, SendFails, Abandon, Track, EndRequest, Frame,
               Same, taskVars, boardVars, otherVars, RequestTypeOK, TimerTypeOK
    <2> QED
        BY <2>1, <2>2
<1>7. ASSUME NEW u \in Task, SendReturns(u) PROVE Sent(t)'
    <2>1. /\ request[u] = "arrived" /\ request' = [request EXCEPT ![u] = "done"]
          /\ state' = [state EXCEPT ![u] = "forwarded"]
          /\ UNCHANGED <<result, boardVars, received>>
        BY <1>7 DEF SendReturns, EndRequest, otherVars
    <2>2. CASE t = u
        BY <1>0, <2>1, <2>2 DEF Sent, Untouched, RequestTypeOK, boardVars
    <2>3. CASE t # u
        <3>1. Same(t)
            BY <1>0, <1>7, <2>3, ScheduleKeeps DEF SendReturns
        <3> QED
            BY <1>0, <2>1, <2>3, <3>1, FrameKeeps
               DEF Frame, RequestTypeOK, TimerTypeOK, boardVars
    <2> QED
        BY <2>2, <2>3
<1>8. ASSUME NEW u \in Task, Claim(u) \/ Release(u) PROVE Sent(t)'
    <2>1. /\ UNCHANGED <<taskVars, result, tracked, received>>
          /\ \/ request' = [request EXCEPT ![u] = "sending"]
             \/ request' = [request EXCEPT ![u] = "done"]
          /\ \A v \in Board : board'[v] = "ready" => board[v] = "ready" /\ v # u
        BY <1>0, <1>8 DEF Claim, Release, EndRequest, UpdateBoard, otherVars, RequestTypeOK,
                          ChannelInv, SentOK, Sent
    <2>2. CASE t = u
        <3>1. t \notin tracked
            BY <1>0, <1>8, <2>2 DEF Claim, Release, Sent
        <3> QED
            BY <1>0, <2>1, <2>2, <3>1 DEF Sent, Untouched, RequestTypeOK
    <2>3. CASE t # u
        BY <1>0, <2>1, <2>3, FrameKeeps DEF Frame, Same, RequestTypeOK, taskVars
    <2> QED
        BY <2>2, <2>3
<1>9. ASSUME NEW u \in Task, CallbackResult(u) \/ CallbackDropped(u) PROVE Sent(t)'
    <2>1. /\ ~Untouched(u) /\ UNCHANGED <<taskVars, request, boardVars, received>>
        BY <1>0, <1>9 DEF CallbackResult, CallbackDropped, otherVars, ChannelInv, SentOK, Sent
    <2>2. CASE t = u
        BY <1>0, <2>1, <2>2, RestateKeeps DEF boardVars
    <2>3. CASE t # u
        <3>1. result'[t] = result[t]
            BY <1>0, <1>9, <2>3 DEF CallbackResult, CallbackDropped, RequestTypeOK
        <3> QED
            BY <1>0, <2>1, <3>1, FrameKeeps DEF Frame, Same, taskVars, boardVars
    <2> QED
        BY <2>2, <2>3
<1>10. ASSUME NEW u \in Task, NEW new \in {"completed", "failed"}, CallbackWrite(u, new)
       PROVE  Sent(t)'
    <2>1. /\ ~Untouched(u) /\ CancelTimeouts({u})
          /\ UNCHANGED <<request, tracked, received>>
        BY <1>0, <1>10 DEF CallbackWrite, ChannelInv, SentOK, Sent
    <2>2. \A v \in Board : board'[v] = "ready" => board[v] = "ready"
        BY <1>0, <1>10, ReconcileKeeps DEF CallbackWrite
    <2>3. CASE t = u
        BY <1>0, <2>1, <2>2, <2>3, RestateKeeps
    <2>4. CASE t # u
        <3>1. Same(t) /\ state'[t] = state[t] /\ result'[t] = result[t]
            BY <1>0, <1>10, <2>1, <2>4, CancelKeeps DEF CallbackWrite, TimerTypeOK, RequestTypeOK
        <3> QED
            BY <1>0, <2>1, <2>2, <3>1, FrameKeeps DEF Frame
    <2> QED
        BY <2>3, <2>4
<1>11. ASSUME NEW a \in Agent, Unregister(a) \/ Unregistered(a) \/ CoolDown(a) \/ CleanUp(a)
       PROVE  Sent(t)'
    BY <1>1, <1>11 DEF Unregister, Unregistered, CoolDown, CleanUp, otherVars
<1>12. ASSUME NEW u \in Task, NEW w \in Worker, TimerFires(u, w) \/ CancelSent(u, w)
       PROVE  Sent(t)'
    <2>1. /\ live[u][w] # "none" /\ UNCHANGED <<requestVars, tracked, received>>
          /\ ~Untouched(u)
        BY <1>0, <1>12 DEF TimerFires, CancelSent, otherVars, ChannelInv, SentOK, Sent
    <2>2. \A v \in Board : board'[v] = "ready" => board[v] = "ready"
        BY <1>0, <1>12, ReconcileKeeps DEF TimerFires, CancelSent
    <2>3. CASE t = u
        BY <1>0, <2>1, <2>2, <2>3, RestateKeeps DEF requestVars
    <2>4. CASE t # u
        <3>1. Same(t) /\ state'[t] = state[t]
            BY <1>0, <1>12, <2>4 DEF TimerFires, CancelSent, TimerTypeOK, WorkersOK, Same
        <3> QED
            BY <1>0, <2>1, <2>2, <2>4, <3>1, FrameKeeps DEF Frame, requestVars
    <2> QED
        BY <2>3, <2>4
<1>13. ASSUME NEW a \in Agent, GraceExpires(a) PROVE Sent(t)'
    <2>1. /\ UNCHANGED <<live, timer, requestVars, tracked, received>>
          /\ state'[t] = IF t \in {u \in TasksOf(a) : state[u] = "dangling"}
                         THEN "failed" ELSE state[t]
        BY <1>13 DEF GraceExpires, otherVars
    <2>2. \A v \in Board : board'[v] = "ready" => board[v] = "ready"
        BY <1>0, <1>13, ReconcileKeeps DEF GraceExpires
    <2>3. CASE state[t] = "dangling"
        <3>1. ~Untouched(t)
            BY <1>0, <2>3 DEF Sent
        <3> QED
            BY <1>0, <2>1, <2>2, <3>1, RestateKeeps DEF requestVars
    <2>4. CASE state[t] # "dangling"
        BY <1>0, <2>1, <2>2, <2>4, FrameKeeps DEF Frame, Same, requestVars
    <2> QED
        BY <2>3, <2>4
<1>14. CASE Restart
    BY <1>0, <1>14 DEF Restart, Sent, Untouched, RequestTypeOK
<1>15. CASE UNCHANGED vars
    BY <1>1, <1>15 DEF vars, otherVars
<1> QED
    BY <1>3, <1>4, <1>5, <1>6, <1>7, <1>8, <1>9, <1>10, <1>11, <1>12, <1>13,
       <1>14, <1>15
       DEF Next, AgentSays, AgentWord, Requests, Timers

LEMMA ChannelStep == ChannelInv /\ [Next]_vars => ChannelInv'
BY ConnStep, TimerStep, RequestStep, SentStep DEF ChannelInv

-----------------------------------------------------------------------------
(* However many connections and messages cross, a task has at most one        *)
(* timeout worker and _task_timers holds it, so that a report or a new        *)
(* message can cancel it (server.py, _schedule_task_timeout and               *)
(* _timeout_worker).                                                          *)
THEOREM TimersAreSingle == Spec => []SingleTimer
<1> QED
    BY ChannelInit_Inv, ChannelStep, ChannelInvImplies, PTL DEF Spec

(* Whatever reconnects, reports or times out meanwhile, a dangling task has a *)
(* grace timer, a forwarded one a timeout, and the connection map refers to   *)
(* handlers that still read (server.py, _dangle_agent_tasks, handle_dispatch, *)
(* handle_ws).                                                                *)
THEOREM TasksAreWatched == Spec => []TasksWatched
<1> QED
    BY ChannelInit_Inv, ChannelStep, ChannelInvImplies, PTL DEF Spec

(* Both: the timers and connections that the server supervises a task with    *)
(* are there, and there once, for any agents, connections, tasks and messages *)
(* (server.py, _schedule_task_timeout, _dangle_agent_tasks, handle_ws).       *)
THEOREM TasksAreSupervised == Spec => []Supervised
<1>1. Supervised <=> SingleTimer /\ TasksWatched
    BY DEF Supervised
<1> QED
    BY <1>1, TimersAreSingle, TasksAreWatched, PTL

(* The steps by which a handler stops listening while the server runs.        *)
LEMMA StopsListening ==
    ASSUME ChannelInv, [Next]_vars, NEW c \in Conn, restarted' = restarted,
           handler[c] = "listening", handler'[c] # "listening"
    PROVE  Finish(c) \/ Leave(c)
<1> USE ChannelAssumption
<1>0. ConnTypeOK
    BY DEF ChannelInv, ConnInv
<1>1. CASE UNCHANGED handler
    BY <1>1
<1>2. ASSUME NEW d \in Conn, Connection(d) PROVE Finish(c) \/ Leave(c)
    <2>1. CASE Accept(d) \/ Register(d) \/ Left(d)
        BY <1>0, <2>1 DEF Accept, Register, Left, ConnTypeOK
    <2>2. CASE CloseOld(d) \/ Drop(d)
        BY <1>1, <2>2 DEF CloseOld, Drop
    <2>3. CASE Finish(d) \/ Leave(d)
        BY <1>0, <2>3 DEF Finish, Leave, ConnTypeOK
    <2> QED
        BY <1>2, <2>1, <2>2, <2>3 DEF Connection
<1>3. ASSUME NEW a \in Agent, Unregister(a) \/ Unregistered(a) \/ CleanUp(a)
      PROVE  UNCHANGED handler
    BY <1>3 DEF Unregister, Unregistered, CleanUp
<1>4. CASE Restart
    BY <1>4 DEF Restart
<1>5. CASE UNCHANGED vars
    BY <1>1, <1>5 DEF vars, connVars
<1> QED
    BY <1>1, <1>2, <1>3, <1>4, <1>5, TaskStepsKeepConns DEF Next, Timers, connVars

(* The end of a handler, however late, changes the map at its own entry only: *)
(* the connection that replaced it stays (server.py, handle_ws, finally).     *)
THEOREM SuccessorIsKept == Spec => SuccessorKept
<1>1. ASSUME ChannelInv, [Next]_vars, NEW c \in Conn, restarted' = restarted,
             handler[c] = "listening", handler'[c] # "listening"
      PROVE  \A a \in Agent : conn'[a] # conn[a] => conn[a] = c
    BY <1>1, StopsListening DEF Finish, Leave, Forget
<1>2. ChannelInv /\ [Next]_vars =>
        [\A c \in Conn :
            handler[c] = "listening" /\ handler'[c] # "listening" /\ restarted' = restarted
            => \A a \in Agent : conn'[a] # conn[a] => conn[a] = c]_vars
    BY <1>1
<1> QED
    BY <1>2, ChannelInit_Inv, ChannelStep, PTL DEF Spec, SuccessorKept

(* A state_sync is one. *)
LEMMA StateSyncSyncs ==
    ASSUME NEW c \in Conn, NEW list, StateSync(c, list) PROVE Syncs
BY ChannelAssumption DEF StateSync, MaySync, Syncs

(* Only a message, a state_sync, a callback result that was let in before and *)
(* a send that is not over take a task out of "completed".                    *)
LEMMA StaysCompleted ==
    ASSUME ChannelInv, [Next]_vars, NEW t \in Task, state[t] = "completed",
           state'[t] \notin {"completed", "absent"}
    PROVE  \/ \E c \in Conn : Message(c, t)
           \/ Syncs
           \/ result[t] = "reading"
           \/ t \notin Board /\ request[t] \in {"sending", "arrived"}
<1>0. TimerTypeOK /\ request[t] # "reading" /\ state[t] \in Final
    BY ChannelAssumption DEF ChannelInv, TimerInv, SentOK, Sent, Untouched, Final
<1>1. CASE UNCHANGED state
    BY <1>1
<1>2. ASSUME NEW c \in Conn, Connection(c) PROVE UNCHANGED state[t]
    BY <1>0, <1>2
       DEF Connection, Accept, CloseOld, Register, Drop, Finish, Leave, Left,
           Dangle, taskVars
<1>3. ASSUME NEW c \in Conn, NEW u \in Task, AgentWord(c, u)
      PROVE  UNCHANGED state[t] \/ \E d \in Conn : Message(d, t)
    BY <1>0, <1>3, AgentWordEffect DEF TimerTypeOK
<1>4. ASSUME NEW u \in Task, Requests(u)
      PROVE  \/ state'[t] = state[t]
             \/ t \notin Board /\ request[t] \in {"sending", "arrived"}
             \/ result[t] = "reading"
    BY <1>0, <1>4
       DEF Requests, Dispatch, Send, Arrive, SendReturns, SendFails, Abandon, Claim,
           Track, Release, CallbackResult, CallbackWrite, CallbackDropped,
           TimerTypeOK, taskVars
<1>5. CASE Timers
    BY <1>0, <1>5
       DEF Timers, TimerFires, CancelSent, GraceExpires, CoolDown, CleanUp,
           TimerTypeOK, taskVars
<1>6. ASSUME NEW a \in Agent, Unregister(a) \/ Unregistered(a) PROVE UNCHANGED state
    BY <1>6 DEF Unregister, Unregistered, taskVars
<1>7. CASE Restart
    BY <1>7 DEF Restart
<1>8. CASE UNCHANGED vars
    BY <1>8 DEF vars, taskVars
<1>9. ASSUME NEW c \in Conn, NEW list \in ListOf(OwnerOf[c]), StateSync(c, list)
      PROVE  Syncs
    BY <1>9, StateSyncSyncs
<1> QED
    BY <1>1, <1>2, <1>3, <1>4, <1>5, <1>6, <1>7, <1>8, <1>9
       DEF Next, AgentSays, AgentWord

(* The board has no edge from completed that this component takes.            *)
LEMMA BoardStaysCompleted ==
    ASSUME RequestTypeOK, [Next]_vars, NEW t \in Board, board[t] = "completed"
    PROVE  board'[t] = "completed"
<1>1. ASSUME NEW S, NEW new \in {"running", "completed", "failed"}, Reconcile(S, new)
      PROVE  board'[t] = "completed"
    BY <1>1 DEF Reconcile, Lifecycle!VALID_TRANSITIONS
<1>2. CASE UNCHANGED board
    BY <1>2
<1>3. ASSUME NEW c \in Conn, Connection(c) PROVE UNCHANGED board
    BY <1>3 DEF Connection, Accept, CloseOld, Register, Drop, Finish, Leave, Left, boardVars
<1>4. ASSUME NEW c \in Conn, NEW u \in Task, AgentWord(c, u)
      PROVE  board'[t] = "completed"
    BY <1>1, <1>2, <1>4, AgentWordEffect
<1>5. ASSUME NEW c \in Conn, NEW list \in ListOf(OwnerOf[c]), StateSync(c, list)
      PROVE  UNCHANGED board
    BY <1>5 DEF StateSync, boardVars
<1>6. ASSUME NEW u \in Task, Requests(u) PROVE board'[t] = "completed"
    <2>1. CASE \/ Dispatch(u) \/ Send(u) \/ SendReturns(u) \/ SendFails(u) \/ Abandon(u)
               \/ Track(u) \/ Arrive(u) \/ CallbackResult(u) \/ CallbackDropped(u)
        BY <1>2, <2>1 DEF Dispatch, Send, SendReturns, SendFails, Abandon, Track, Arrive,
                          CallbackResult, CallbackDropped, boardVars
    <2>2. CASE Claim(u)
        BY <2>2 DEF Claim, RequestTypeOK
    <2>3. CASE Release(u)
        BY <2>3 DEF Release, UpdateBoard, RequestTypeOK, Lifecycle!VALID_TRANSITIONS
    <2>4. ASSUME NEW new \in {"completed", "failed"}, CallbackWrite(u, new)
          PROVE  board'[t] = "completed"
        BY <1>1, <2>4 DEF CallbackWrite
    <2> QED
        BY <1>6, <2>1, <2>2, <2>3, <2>4 DEF Requests
<1>7. CASE Timers
    <2>1. ASSUME NEW u \in Task, NEW w \in Worker, TimerFires(u, w) \/ CancelSent(u, w)
          PROVE  board'[t] = "completed"
        BY <1>1, <1>2, <2>1 DEF TimerFires, CancelSent
    <2>2. ASSUME NEW a \in Agent, GraceExpires(a) \/ CoolDown(a) \/ CleanUp(a)
          PROVE  board'[t] = "completed"
        <3>1. CASE GraceExpires(a)
            BY <1>1, <3>1 DEF GraceExpires
        <3>2. CASE CoolDown(a) \/ CleanUp(a)
            BY <1>2, <3>2 DEF CoolDown, CleanUp, boardVars
        <3> QED
            BY <2>2, <3>1, <3>2
    <2> QED
        BY <1>7, <2>1, <2>2 DEF Timers
<1>8. ASSUME NEW a \in Agent, Unregister(a) \/ Unregistered(a) PROVE UNCHANGED board
    BY <1>8 DEF Unregister, Unregistered, boardVars
<1>9. CASE Restart
    BY <1>9 DEF Restart
<1>10. CASE UNCHANGED vars
    BY <1>10 DEF vars, boardVars
<1> QED
    BY <1>2, <1>3, <1>4, <1>5, <1>6, <1>7, <1>8, <1>9, <1>10 DEF Next, AgentSays, AgentWord

(* No timer, disconnect or grace period takes a completed task back, on the   *)
(* board not even a late word of the agent (registry_handler.py, the message  *)
(* handlers; server.py, _timeout_worker, _dangle_agent_tasks, _dangle_timeout, *)
(* handle_callback_result).                                                   *)
THEOREM CompletedIsKept == Spec => CompletedKept
<1>1. ChannelInv /\ [Next]_vars =>
        [/\ \A t \in Task :
            /\ state[t] = "completed" /\ state'[t] \notin {"completed", "absent"}
            => \/ \E c \in Conn : Message(c, t)
               \/ Syncs
               \/ result[t] = "reading"
               \/ t \notin Board /\ request[t] \in {"sending", "arrived"}
         /\ \A t \in Board : board[t] = "completed" => board'[t] = "completed"]_vars
    BY StaysCompleted, BoardStaysCompleted DEF ChannelInv
<1> QED
    BY <1>1, ChannelInit_Inv, ChannelStep, PTL DEF Spec, CompletedKept

-----------------------------------------------------------------------------
(* Who decides. *)

(* A step that leaves a task and the V1 request and grace period that watch   *)
(* it as they were.                                                           *)
LEMMA AloneFrame ==
    ASSUME NEW t \in Task, Same(t), state'[t] = state[t],
           t \in Board \/ request'[t] = request[t] \/ request[t] \notin {"sending", "arrived"},
           AgentOf[t] \in grace => AgentOf[t] \in grace',
           LeftAlone(t)'
    PROVE  LeftAlone(t)
BY DEF Same, LeftAlone

LEMMA AloneStep ==
    ASSUME ChannelInv, [Next]_vars, NEW t \in Task, ~LeftAlone(t), LeftAlone(t)'
    PROVE  \/ request[t] # "abandoned" /\ request'[t] = "abandoned"
           \/ \E c \in Conn, said \in Said \ Final : TaskResult(c, t, said)
           \/ Syncs
<1> DEFINE Goal == \/ request[t] # "abandoned" /\ request'[t] = "abandoned"
                   \/ \E c \in Conn, said \in Said \ Final : TaskResult(c, t, said)
                   \/ Syncs
<1>0. /\ Sent(t) /\ RequestTypeOK /\ TimerTypeOK /\ WorkersOK /\ TimerInv
      /\ Board \subseteq Task /\ state'[t] \notin Final \cup {"absent"}
    BY ChannelAssumption, WorkersOfInv DEF ChannelInv, TimerInv, SentOK, LeftAlone
<1>1. ASSUME UNCHANGED <<taskVars, request>> PROVE FALSE
    BY <1>1, AloneFrame DEF taskVars, Same
<1>2. ASSUME NEW a \in Agent, Dangle(a), UNCHANGED request PROVE FALSE
    <2> DEFINE D == {u \in TasksOf(a) : state[u] \notin Final \cup {"absent", "dangling"}}
    <2>1. /\ D \in SUBSET Task /\ CancelTimeouts(D)
          /\ state' = [u \in Task |-> IF u \in D THEN "dangling" ELSE state[u]]
          /\ grace' = IF D = {} THEN grace ELSE grace \cup {a}
          /\ \A u \in D : AgentOf[u] = a
        BY <1>2 DEF Dangle, TasksOf
    <2> HIDE DEF D
    <2>2. CASE t \in D
        BY <2>1, <2>2 DEF LeftAlone
    <2>3. CASE t \notin D
        <3>1. Same(t)
            BY <1>0, <2>1, <2>3, CancelKeeps
        <3> QED
            BY <1>2, <2>1, <2>3, <3>1, AloneFrame
    <2> QED
        BY <2>2, <2>3
<1>3. ASSUME NEW c \in Conn, Connection(c) PROVE FALSE
    <2>1. CASE Finish(c) \/ Left(c)
        BY <1>2, <2>1, ChannelAssumption DEF Finish, Left, requestVars
    <2>2. CASE Accept(c) \/ CloseOld(c) \/ Register(c) \/ Drop(c) \/ Leave(c)
        BY <1>1, <2>2 DEF Accept, CloseOld, Register, Drop, Leave, requestVars
    <2> QED
        BY <1>3, <2>1, <2>2 DEF Connection
<1>4. ASSUME NEW c \in Conn, NEW u \in Task, AgentWord(c, u), t # u PROVE FALSE
    <2>1. Same(t) /\ state'[t] = state[t]
        BY <1>0, <1>4, AgentWordElsewhere
    <2>2. UNCHANGED <<grace, request>>
        BY <1>4, AgentWordEffect DEF Message, requestVars
    <2> QED
        BY <2>1, <2>2, AloneFrame
<1>5. ASSUME NEW c \in Conn, NEW said \in Said, Ack(c, t, said) \/ Progress(c, t, said)
      PROVE  FALSE
    BY <1>0, <1>5, ScheduleKeeps DEF Ack, Progress, LeftAlone
<1>6. ASSUME NEW c \in Conn, NEW said \in Said, TaskResult(c, t, said) PROVE Goal
    <2>1. state'[t] = said
        BY <1>0, <1>6 DEF TaskResult, TimerTypeOK
    <2> QED
        BY <1>0, <1>6, <2>1
<1>7. ASSUME NEW c \in Conn, NEW new \in {"completed", "failed"}, Report(c, t, new)
      PROVE  FALSE
    BY <1>0, <1>7 DEF Report, TimerTypeOK, Final
<1>8. ASSUME NEW c \in Conn, NEW list \in ListOf(OwnerOf[c]), StateSync(c, list)
      PROVE  Goal
    BY <1>8, StateSyncSyncs
<1>9. ASSUME NEW u \in Task, Requests(u) PROVE Goal
    <2>1. CASE CallbackResult(u) \/ CallbackDropped(u)
        BY <1>1, <2>1 DEF CallbackResult, CallbackDropped
    <2>2. CASE Dispatch(u) \/ Arrive(u) \/ Claim(u) \/ Track(u) \/ Release(u)
        <3>1. UNCHANGED taskVars
            BY <2>2 DEF Dispatch, Arrive, Claim, Track, Release
        <3>2. CASE t # u \/ t \in Board
            <4>1. t \in Board \/ request'[t] = request[t]
                BY <1>0, <2>2, <3>2
                   DEF Dispatch, Arrive, Claim, Track, Release, EndRequest, RequestTypeOK
            <4> QED
                BY <3>1, <4>1, AloneFrame DEF taskVars, Same
        <3>3. CASE t = u /\ t \notin Board /\ Arrive(u)
            BY <1>0, <3>3 DEF Arrive, LeftAlone, RequestTypeOK
        <3>4. CASE t = u /\ t \notin Board /\ Dispatch(u)
            BY <3>1, <3>4, AloneFrame DEF Dispatch, taskVars, Same
        <3>5. CASE t = u /\ t \notin Board /\ (Claim(u) \/ Track(u) \/ Release(u))
            BY <3>5 DEF Claim, Track, Release
        <3> QED
            BY <2>2, <3>2, <3>3, <3>4, <3>5
    <2>3. CASE Send(u) \/ SendFails(u)
        <3>1. CASE t = u
            BY <1>0, <2>3, <3>1
               DEF Send, SendFails, EndRequest, LeftAlone, RequestTypeOK, TimerTypeOK, Final
        <3>2. CASE t # u
            BY <1>0, <2>3, <3>2, AloneFrame
               DEF Send, SendFails, EndRequest, Same, RequestTypeOK, TimerTypeOK
        <3> QED
            BY <3>1, <3>2
    <2>4. CASE SendReturns(u)
        <3>1. CASE t = u
            BY <1>0, <2>4, <3>1, ScheduleKeeps DEF SendReturns, LeftAlone
        <3>2. CASE t # u
            <4>1. Same(t) /\ state'[t] = state[t] /\ request'[t] = request[t] /\ grace' = grace
                BY <1>0, <2>4, <3>2, ScheduleKeeps
                   DEF SendReturns, EndRequest, RequestTypeOK, TimerTypeOK
            <4> QED
                BY <4>1, AloneFrame
        <3> QED
            BY <3>1, <3>2
    <2>5. CASE Abandon(u)
        <3>1. CASE t = u
            BY <1>0, <2>5, <3>1 DEF Abandon, EndRequest, RequestTypeOK
        <3>2. CASE t # u
            BY <1>0, <2>5, <3>2, AloneFrame
               DEF Abandon, EndRequest, Same, RequestTypeOK, taskVars
        <3> QED
            BY <3>1, <3>2
    <2>6. ASSUME NEW new \in {"completed", "failed"}, CallbackWrite(u, new) PROVE FALSE
        <3>1. CASE t = u
            BY <1>0, <2>6, <3>1 DEF CallbackWrite, TimerTypeOK, Final
        <3>2. CASE t # u
            <4>1. Same(t) /\ state'[t] = state[t] /\ request'[t] = request[t] /\ grace' = grace
                BY <1>0, <2>6, <3>2, CancelKeeps DEF CallbackWrite, TimerTypeOK
            <4> QED
                BY <4>1, AloneFrame
        <3> QED
            BY <3>1, <3>2
    <2> QED
        BY <1>9, <2>1, <2>2, <2>3, <2>4, <2>5, <2>6 DEF Requests
<1>10. ASSUME NEW u \in Task, NEW w \in Worker, TimerFires(u, w) \/ CancelSent(u, w)
       PROVE  FALSE
    <2>0. UNCHANGED <<grace, request>>
        BY <1>10 DEF TimerFires, CancelSent, requestVars
    <2>1. CASE t # u
        BY <1>0, <1>10, <2>0, <2>1, AloneFrame
           DEF TimerFires, CancelSent, Same, WorkersOK, TimerTypeOK
    <2>2. CASE t = u /\ TimerFires(u, w)
        BY <1>0, <2>2 DEF TimerFires, TimerTypeOK, Final
    <2>3. CASE t = u /\ CancelSent(u, w)
        <3>1. state' = state /\ \A v \in Worker : live[t][v] # "sleeping"
            BY <1>0, <2>3 DEF CancelSent, WorkersOK, Registered
        <3> QED
            BY <2>0, <3>1 DEF LeftAlone
    <2> QED
        BY <1>10, <2>1, <2>2, <2>3
<1>11. ASSUME NEW a \in Agent, GraceExpires(a) PROVE FALSE
    <2>1. CASE AgentOf[t] = a /\ state[t] = "dangling"
        <3>1. state'[t] = "failed"
            BY <1>11, <2>1 DEF GraceExpires, TasksOf
        <3> QED
            BY <1>0, <3>1 DEF Final
    <2>2. CASE AgentOf[t] # a \/ state[t] # "dangling"
        <3>1. /\ state'[t] = state[t] /\ Same(t) /\ UNCHANGED request
              /\ state[t] = "dangling" /\ AgentOf[t] \in grace => AgentOf[t] \in grace'
            BY <1>11, <2>2 DEF GraceExpires, TasksOf, Same, requestVars
        <3> QED
            BY <3>1 DEF LeftAlone, Same
    <2> QED
        BY <2>1, <2>2
<1>12. ASSUME NEW a \in Agent,
              Unregister(a) \/ Unregistered(a) \/ CoolDown(a) \/ CleanUp(a)
       PROVE  FALSE
    BY <1>1, <1>12 DEF Unregister, Unregistered, CoolDown, CleanUp, requestVars
<1>13. CASE Restart
    BY <1>0, <1>13 DEF Restart
<1>14. CASE UNCHANGED vars
    BY <1>1, <1>14 DEF vars, requestVars
<1> QED
    BY <1>3, <1>4, <1>5, <1>6, <1>7, <1>8, <1>9, <1>10, <1>11, <1>12, <1>13, <1>14
       DEF Next, AgentSays, AgentWord, Timers

-----------------------------------------------------------------------------
(* Memory and board. *)

(* _maybe_update_kanban takes a tracked task off "running" when it ends,      *)
(* and touches no task it was not called for.                                 *)
LEMMA ReconcileEnds ==
    ASSUME RequestTypeOK, NEW S, NEW new \in {"completed", "failed"}, Reconcile(S, new)
    PROVE  \A t \in Board :
             /\ board'[t] = "running" => board[t] = "running"
             /\ t \in S \cap tracked => board'[t] # "running"
BY DEF RequestTypeOK, Reconcile, Lifecycle!VALID_TRANSITIONS

(* A step that leaves the state and the workers of a task alone. *)
LEMMA BehindFrame ==
    ASSUME NEW t \in Task, Same(t), state'[t] = state[t], t \in tracked,
           t \in tracked /\ board'[t] = "running" => board[t] = "running",
           BoardBehind(t)'
    PROVE  BoardBehind(t)
BY DEF BoardBehind, Same

LEMMA BehindStep ==
    ASSUME ChannelInv, [Next]_vars, NEW t \in Task, ~BoardBehind(t), BoardBehind(t)'
    PROVE  \/ \E c \in Conn, said \in Said \cap Final :
                Ack(c, t, said) \/ Progress(c, t, said)
           \/ \E c \in Conn : TaskResult(c, t, "cancelled")
           \/ t \notin tracked
           \/ Syncs
<1> SUFFICES ASSUME t \in tracked
             PROVE  \/ \E c \in Conn, said \in Said \cap Final :
                         Ack(c, t, said) \/ Progress(c, t, said)
                    \/ \E c \in Conn : TaskResult(c, t, "cancelled")
                    \/ Syncs
    OBVIOUS
<1> DEFINE Goal == \/ \E c \in Conn, said \in Said \cap Final :
                        Ack(c, t, said) \/ Progress(c, t, said)
                   \/ \E c \in Conn : TaskResult(c, t, "cancelled")
                   \/ Syncs
<1>0. /\ Sent(t) /\ RequestTypeOK /\ TimerTypeOK /\ WorkersOK
      /\ Board \subseteq Task /\ t \in Board /\ request[t] = "done"
      /\ t \in tracked' /\ state'[t] \in Final /\ board'[t] = "running"
      /\ \A w \in Worker : live'[t][w] # "cancelling"
    BY ChannelAssumption, WorkersOfInv
       DEF ChannelInv, TimerInv, SentOK, Sent, RequestTypeOK, BoardBehind
<1>1. ASSUME UNCHANGED <<state, live, timer, board>> PROVE FALSE
    BY <1>1, BehindFrame DEF Same
<1>2. ASSUME NEW a \in Agent, Dangle(a), UNCHANGED board PROVE FALSE
    <2> DEFINE D == {u \in TasksOf(a) : state[u] \notin Final \cup {"absent", "dangling"}}
    <2>1. D \in SUBSET Task /\ CancelTimeouts(D)
          /\ state' = [u \in Task |-> IF u \in D THEN "dangling" ELSE state[u]]
        BY <1>2 DEF Dangle, TasksOf
    <2> HIDE DEF D
    <2>2. CASE t \in D
        BY <1>0, <2>1, <2>2 DEF Final
    <2>3. CASE t \notin D
        <3>1. Same(t)
            BY <1>0, <2>1, <2>3, CancelKeeps
        <3> QED
            BY <1>2, <2>1, <2>3, <3>1, BehindFrame
    <2> QED
        BY <2>2, <2>3
<1>3. ASSUME NEW c \in Conn, Connection(c) PROVE FALSE
    <2>1. CASE Finish(c) \/ Left(c)
        BY <1>2, <2>1, ChannelAssumption DEF Finish, Left, boardVars
    <2>2. CASE Accept(c) \/ CloseOld(c) \/ Register(c) \/ Drop(c) \/ Leave(c)
        BY <1>1, <2>2 DEF Accept, CloseOld, Register, Drop, Leave, taskVars, boardVars
    <2> QED
        BY <1>3, <2>1, <2>2 DEF Connection
<1>4. ASSUME NEW c \in Conn, NEW u \in Task, AgentWord(c, u), t # u PROVE FALSE
    <2>1. Same(t) /\ state'[t] = state[t]
        BY <1>0, <1>4, AgentWordElsewhere
    <2>2. board'[t] = board[t]
        BY <1>0, <1>4, AgentWordElsewhere
    <2> QED
        BY <2>1, <2>2, BehindFrame
<1>5. ASSUME NEW c \in Conn, NEW said \in Said, Ack(c, t, said) \/ Progress(c, t, said)
      PROVE  Goal
    <2>1. state'[t] = said
        BY <1>0, <1>5 DEF Ack, Progress, TimerTypeOK
    <2> QED
        BY <1>0, <1>5, <2>1
<1>6. ASSUME NEW c \in Conn, NEW said \in Said, TaskResult(c, t, said) PROVE Goal
    <2>1. said \in Final
        BY <1>0, <1>6 DEF TaskResult, TimerTypeOK
    <2>2. CASE said = "cancelled"
        BY <1>6, <2>2
    <2>3. CASE said \in {"completed", "failed"}
        <3>1. Reconcile({t}, said)
            BY <1>6, <2>3 DEF TaskResult
        <3> QED
            BY <1>0, <2>3, <3>1, ReconcileEnds
    <2> QED
        BY <2>1, <2>2, <2>3 DEF Final
<1>7. ASSUME NEW c \in Conn, NEW new \in {"completed", "failed"}, Report(c, t, new)
      PROVE  FALSE
    <2>1. Reconcile({t}, new)
        BY <1>7 DEF Report
    <2> QED
        BY <1>0, <2>1, ReconcileEnds
<1>8. ASSUME NEW c \in Conn, NEW list \in ListOf(OwnerOf[c]), StateSync(c, list)
      PROVE  Goal
    BY <1>8, StateSyncSyncs
<1>9. ASSUME NEW u \in Task, Requests(u) PROVE FALSE
    <2>1. CASE Dispatch(u) \/ Arrive(u) \/ Abandon(u) \/ Track(u) \/ CallbackResult(u)
                   \/ CallbackDropped(u)
        BY <1>1, <2>1 DEF Dispatch, Arrive, Abandon, Track, CallbackResult, CallbackDropped,
                          taskVars, boardVars
    <2>2. CASE Send(u) \/ SendFails(u)
        BY <1>0, <2>2, BehindFrame
           DEF Send, SendFails, boardVars, Same, TimerTypeOK
    <2>3. CASE SendReturns(u)
        <3>1. u # t
            BY <1>0, <2>3 DEF SendReturns
        <3>2. Same(t) /\ state'[t] = state[t]
            BY <1>0, <2>3, <3>1, ScheduleKeeps DEF SendReturns, TimerTypeOK
        <3> QED
            BY <2>3, <3>2, BehindFrame DEF SendReturns, boardVars
    <2>4. CASE Claim(u) \/ Release(u)
        <3>1. u # t
            BY <1>0, <2>4 DEF Claim, Release
        <3>2. board'[t] = board[t] /\ UNCHANGED taskVars
            BY <1>0, <2>4, <3>1 DEF Claim, Release, UpdateBoard, RequestTypeOK
        <3> QED
            BY <3>2, BehindFrame DEF taskVars, Same
    <2>5. ASSUME NEW new \in {"completed", "failed"}, CallbackWrite(u, new)
          PROVE  FALSE
        <3>1. Reconcile({u}, new)
            BY <2>5 DEF CallbackWrite
        <3>2. CASE t = u
            BY <1>0, <3>1, <3>2, ReconcileEnds
        <3>3. CASE t # u
            <4>1. Same(t) /\ state'[t] = state[t]
                BY <1>0, <2>5, <3>3, CancelKeeps DEF CallbackWrite, TimerTypeOK
            <4> QED
                BY <1>0, <3>1, <4>1, ReconcileEnds, BehindFrame
        <3> QED
            BY <3>2, <3>3
    <2> QED
        BY <1>9, <2>1, <2>2, <2>3, <2>4, <2>5 DEF Requests
<1>10. ASSUME NEW u \in Task, NEW w \in Worker, TimerFires(u, w) PROVE FALSE
    <2>1. CASE t # u
        <3>1. Same(t) /\ state'[t] = state[t]
            BY <1>0, <1>10, <2>1 DEF TimerFires, TimerTypeOK, WorkersOK, Same
        <3>2. board'[t] = "running" => board[t] = "running"
            BY <1>0, <1>10, ReconcileEnds DEF TimerFires
        <3> QED
            BY <3>1, <3>2, BehindFrame
    <2>2. CASE t = u /\ state[t] \in Final
        <3>1. \A v \in Worker : live[t][v] # "cancelling"
            BY <1>0, <1>10, <2>2 DEF TimerFires, WorkersOK, Registered
        <3>2. UNCHANGED <<state, board>>
            BY <1>10, <2>2 DEF TimerFires
        <3> QED
            BY <1>0, <2>2, <3>1, <3>2 DEF BoardBehind
    <2>3. CASE t = u /\ state[t] \notin Final /\ IsOpen(conn[AgentOf[t]])
        <3>1. live'[t][w] = "cancelling"
            BY <1>0, <1>10, <2>3 DEF TimerFires, WorkersOK
        <3> QED
            BY <1>0, <3>1
    <2>4. CASE t = u /\ state[t] \notin Final /\ ~IsOpen(conn[AgentOf[t]])
        <3>1. Reconcile({t}, "failed")
            BY <1>10, <2>4 DEF TimerFires
        <3> QED
            BY <1>0, <3>1, ReconcileEnds
    <2> QED
        BY <2>1, <2>2, <2>3, <2>4
<1>11. ASSUME NEW u \in Task, NEW w \in Worker, CancelSent(u, w) PROVE FALSE
    <2>1. Reconcile({u}, "failed") /\ state' = state
        BY <1>11 DEF CancelSent
    <2>2. CASE t = u
        BY <1>0, <2>1, <2>2, ReconcileEnds
    <2>3. CASE t # u
        <3>1. Same(t)
            BY <1>0, <1>11, <2>3 DEF CancelSent, WorkersOK, Same
        <3> QED
            BY <1>0, <2>1, <3>1, ReconcileEnds, BehindFrame
    <2> QED
        BY <2>2, <2>3
<1>12. ASSUME NEW a \in Agent, GraceExpires(a) PROVE FALSE
    <2> DEFINE F == {u \in TasksOf(a) : state[u] = "dangling"}
    <2>1. /\ state' = [u \in Task |-> IF u \in F THEN "failed" ELSE state[u]]
          /\ Reconcile(F, "failed") /\ UNCHANGED <<live, timer>>
        BY <1>12 DEF GraceExpires
    <2> HIDE DEF F
    <2>2. CASE t \in F
        BY <1>0, <2>1, <2>2, ReconcileEnds
    <2>3. CASE t \notin F
        BY <1>0, <2>1, <2>3, ReconcileEnds, BehindFrame DEF Same
    <2> QED
        BY <2>2, <2>3
<1>13. ASSUME NEW a \in Agent,
              Unregister(a) \/ Unregistered(a) \/ CoolDown(a) \/ CleanUp(a)
       PROVE  FALSE
    BY <1>1, <1>13 DEF Unregister, Unregistered, CoolDown, CleanUp, taskVars, boardVars
<1>14. CASE Restart
    BY <1>0, <1>14 DEF Restart
<1>15. CASE UNCHANGED vars
    BY <1>1, <1>15 DEF vars, taskVars, boardVars
<1> QED
    BY <1>3, <1>4, <1>5, <1>6, <1>7, <1>8, <1>9, <1>10, <1>11, <1>12, <1>13, <1>14, <1>15
       DEF Next, AgentSays, AgentWord, Timers

(* The only ways in which a task loses everybody who would decide about it,   *)
(* and in which the board stays behind a decision, for any agents, tasks and  *)
(* messages (errors.py, timeout_middleware; registry_handler.py,              *)
(* handle_task_result, handle_state_sync, handle_task_ack,                    *)
(* handle_task_progress; dispatcher.py, _dispatch_via_ws).                    *)
THEOREM TasksAreDecided == Spec => TasksDecided
<1>1. ChannelInv /\ [Next]_vars =>
        [\A t \in Task :
            /\ ~LeftAlone(t) /\ LeftAlone(t)'
                => \/ request[t] # "abandoned" /\ request'[t] = "abandoned"
                   \/ \E c \in Conn, said \in Said \ Final : TaskResult(c, t, said)
                   \/ Syncs
            /\ ~BoardBehind(t) /\ BoardBehind(t)'
                => \/ \E c \in Conn, said \in Said \cap Final :
                        Ack(c, t, said) \/ Progress(c, t, said)
                   \/ \E c \in Conn : TaskResult(c, t, "cancelled")
                   \/ t \notin tracked
                   \/ Syncs]_vars
    BY AloneStep, BehindStep
<1> QED
    BY <1>1, ChannelInit_Inv, ChannelStep, PTL DEF Spec, TasksDecided
=============================================================================
