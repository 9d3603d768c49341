-------------------------- MODULE DispatcherProofs --------------------------
(* What is proved of the dispatcher among agents, workers and operators, for *)
(* any tasks, agents and limits.                                             *)
EXTENDS Dispatcher, TLAPS

Status == Lifecycle!TaskStatus \cup {"absent"}

StoreTypeOK ==
    /\ status \in [Task -> Status]
    /\ holder \in [Task -> Agent \cup {Http, NULL}]
    /\ lapsed \in [Task -> BOOLEAN]
    /\ fails \in [Task -> Nat]

LoopTypeOK ==
    /\ pc \in {"idle", "promote", "list", "loop", "sending"}
    /\ queue \subseteq Task
    /\ cur \in Task \cup {NULL}
    /\ arrived \in BOOLEAN

AgentsTypeOK ==
    /\ connected \subseteq Agent
    /\ pending \in [Agent -> SUBSET Task]
    /\ tracked \subseteq Task
    /\ held \subseteq Task

(* The flow state of one agent: the breaker follows the failure count and    *)
(* the slots stay within the limit.                                          *)
Sound(s) ==
    /\ s \in AgentFlowState
    /\ s.circuit = "closed" <=> s.failures < Threshold
    /\ MaxConcurrent > 0 => s.slots <= MaxConcurrent

(* It has a slot left for the message that is under way. *)
Room(s) == s.circuit = "closed" /\ (MaxConcurrent > 0 => s.slots < MaxConcurrent)

FlowOK ==
    /\ fc \in [Agent -> AgentFlowState]
    /\ \A a \in Agent : Sound(fc[a])
    /\ pc = "sending" => cur \in Task /\ Room(fc[AgentOf(cur)])

DispatchInv == StoreTypeOK /\ LoopTypeOK /\ AgentsTypeOK /\ FlowOK

LEMMA TypeParts == DispatchInv => TypeOK
BY DEF DispatchInv, StoreTypeOK, LoopTypeOK, AgentsTypeOK, FlowOK, TypeOK, Status

-----------------------------------------------------------------------------
(* Flow control *)

LEMMA FreshIsSound == Sound(Fresh)
BY LimitAssumption DEF Sound, Fresh, AgentFlowState, Circuit

(* Looking at a breaker resets it when its cooldown is over. *)
LEMMA RefreshedIsSound ==
    ASSUME NEW s, Sound(s)
    PROVE  Sound(Refreshed(s)) /\ (CanDispatch(s) => Room(Refreshed(s)))
<1>1. CASE s.circuit = "elapsed"
    <2>1. Refreshed(s) = [s EXCEPT !.circuit = "closed", !.failures = 0]
        BY <1>1 DEF Refreshed
    <2>2. Refreshed(s) = [slots |-> s.slots, failures |-> 0, circuit |-> "closed"]
        BY <2>1 DEF Sound, AgentFlowState
    <2> QED
        BY <2>2, LimitAssumption DEF Sound, Room, CanDispatch, AgentFlowState, Circuit
<1>2. CASE s.circuit # "elapsed"
    BY <1>2 DEF Refreshed, Sound, Room, CanDispatch
<1> QED
    BY <1>1, <1>2

(* A failure gives back a slot, if there is one, and may trip the breaker. *)
LEMMA FailedIsSound == ASSUME NEW s, Sound(s) PROVE Sound(Failed(s))
<1> DEFINE f == Failed(s)
           n == s.failures + 1
<1>1. /\ s.slots \in Nat /\ s.failures \in Nat /\ s.circuit \in Circuit
      /\ s.circuit = "closed" <=> s.failures < Threshold
      /\ MaxConcurrent > 0 => s.slots <= MaxConcurrent
    BY DEF Sound, AgentFlowState
<1>2. /\ f = [slots |-> IF s.slots = 0 THEN 0 ELSE s.slots - 1,
              failures |-> n,
              circuit |-> IF n >= Threshold THEN "open" ELSE s.circuit]
    BY DEF Failed
<1>3. f \in AgentFlowState
    BY <1>1, <1>2 DEF AgentFlowState, Circuit
<1>4. f.circuit = "closed" <=> f.failures < Threshold
    BY <1>1, <1>2, LimitAssumption
<1>5. MaxConcurrent > 0 => f.slots <= MaxConcurrent
    BY <1>1, <1>2, LimitAssumption
<1> QED
    BY <1>3, <1>4, <1>5 DEF Sound

LEMMA SucceededIsSound == ASSUME NEW s, Sound(s), Room(s) PROVE Sound(Succeeded(s))
<1>1. /\ s \in [slots : Nat, failures : Nat, circuit : Circuit]
      /\ s.slots \in Nat /\ s.circuit = "closed" /\ s.circuit \in Circuit
      /\ MaxConcurrent > 0 => s.slots < MaxConcurrent
    BY DEF Sound, Room, AgentFlowState
<1>2. Succeeded(s) = [s EXCEPT !.slots = s.slots + 1, !.failures = 0]
    BY DEF Succeeded
<1> DEFINE m == s.slots + 1
<1>3. m \in Nat
    BY <1>1
<1> HIDE DEF m
<1>4. Succeeded(s) = [slots |-> m, failures |-> 0, circuit |-> s.circuit]
    BY <1>1, <1>2 DEF m
<1> QED
    BY <1>1, <1>3, <1>4, LimitAssumption DEF Sound, AgentFlowState, m

LEMMA ElapsedIsSound ==
    ASSUME NEW s, Sound(s), s.circuit = "open"
    PROVE  Sound([s EXCEPT !.circuit = "elapsed"])
BY LimitAssumption DEF Sound, AgentFlowState, Circuit

-----------------------------------------------------------------------------
(* What the parts of a step keep *)

LEMMA AgentIsAgent == ASSUME NEW t \in Task PROVE AgentOf(t) \in Agent
BY DispatcherAssumption DEF AgentOf

LEMMA NotATask == NULL \notin Task
BY DispatcherAssumption

LEMMA SetStatusType ==
    ASSUME StoreTypeOK, NEW t \in Task, NEW new \in Lifecycle!TaskStatus,
           SetStatus(t, new)
    PROVE  StoreTypeOK'
<1>1. fails' \in [Task -> Nat]
    <2>1. \/ fails' = fails \/ fails' = [fails EXCEPT ![t] = 0]
          \/ fails' = [fails EXCEPT ![t] = @ + 1]
        BY DEF SetStatus
    <2> QED
        BY <2>1 DEF StoreTypeOK
<1>2. status' \in [Task -> Status]
    BY DEF SetStatus, StoreTypeOK, Status
<1> QED
    BY <1>1, <1>2 DEF SetStatus, StoreTypeOK

LEMMA ClaimType ==
    ASSUME StoreTypeOK, NEW t \in Task, NEW l \in Agent \cup {Http}, ClaimTask(t, l)
    PROVE  StoreTypeOK'
<1>1. status' \in [Task -> Status]
    BY DEF ClaimTask, StoreTypeOK, Status, Lifecycle!TaskStatus
<1>2. lapsed' \in [Task -> BOOLEAN]
    BY DEF ClaimTask, StoreTypeOK
<1> QED
    BY <1>1, <1>2 DEF ClaimTask, StoreTypeOK

LEMMA SetFlowSound ==
    ASSUME FlowOK, NEW a \in Agent, NEW s, Sound(s), SetFlow(a, s)
    PROVE  /\ fc' \in [Agent -> AgentFlowState]
           /\ \A b \in Agent : Sound(fc'[b])
           /\ fc'[a] = s
           /\ \A b \in Agent : b # a => fc'[b] = fc[b]
<1>1. s \in AgentFlowState
    BY DEF Sound
<1>2. fc' = [fc EXCEPT ![a] = s] /\ fc \in [Agent -> AgentFlowState]
    BY DEF SetFlow, FlowOK
<1> QED
    BY <1>1, <1>2 DEF FlowOK

(* Out of a send, or before one, only the flow states matter. *)
LEMMA FlowNotSending ==
    ASSUME fc' \in [Agent -> AgentFlowState], \A b \in Agent : Sound(fc'[b]),
           pc' # "sending"
    PROVE  FlowOK'
BY DEF FlowOK, Sound

LEMMA AdvanceType ==
    ASSUME LoopTypeOK, NEW t, Advance(t)
    PROVE  queue' \subseteq Task /\ pc' \in {"idle", "loop"}
BY DEF LoopTypeOK, Advance

LEMMA ReleaseType ==
    ASSUME StoreTypeOK, ReleaseExpired
    PROVE  StoreTypeOK'
<1>1. status' \in [Task -> Status]
    BY DEF ReleaseExpired, StoreTypeOK, Status, Lifecycle!TaskStatus
<1>2. lapsed' \in [Task -> BOOLEAN]
    BY DEF ReleaseExpired, StoreTypeOK
<1>3. fails' \in [Task -> Nat]
    BY DEF ReleaseExpired, StoreTypeOK
<1>4. holder' \in [Task -> Agent \cup {Http, NULL}]
    BY DEF ReleaseExpired, StoreTypeOK
<1> QED
    BY <1>1, <1>2, <1>3, <1>4 DEF StoreTypeOK

LEMMA PromoteType ==
    ASSUME StoreTypeOK, PromoteRetryable
    PROVE  StoreTypeOK'
<1>1. status' \in [Task -> Status]
    BY DEF PromoteRetryable, StoreTypeOK, Status, Lifecycle!TaskStatus
<1>2. lapsed' \in [Task -> BOOLEAN]
    BY DEF PromoteRetryable, StoreTypeOK
<1>3. holder' \in [Task -> Agent \cup {Http, NULL}]
    BY DEF PromoteRetryable, StoreTypeOK
<1> QED
    BY <1>1, <1>2, <1>3 DEF PromoteRetryable, StoreTypeOK

-----------------------------------------------------------------------------
(* The steps *)

(* Looking at one task of the snapshot. *)
LEMMA LookStep ==
    ASSUME DispatchInv, NEW t \in Task, LookAt(t)
    PROVE  DispatchInv'
<1> DEFINE a == AgentOf(t)
<1>0. StoreTypeOK /\ LoopTypeOK /\ AgentsTypeOK /\ FlowOK /\ a \in Agent /\ Sound(fc[a])
    BY AgentIsAgent DEF DispatchInv, FlowOK
<1>1. /\ Sound(Refreshed(fc[a])) /\ Sound(Failed(Refreshed(fc[a])))
      /\ CanDispatch(fc[a]) => Room(Refreshed(fc[a]))
    BY <1>0, RefreshedIsSound, FailedIsSound
<1>2. AgentsTypeOK'
    BY <1>0 DEF LookAt, NoAssignee, FlowBlocked, Unreachable, ClaimLost, ClaimAndSend, AgentsTypeOK
<1>3. CASE FlowBlocked(t) \/ ClaimLost(t)
    <2>1. LoopTypeOK' /\ pc' # "sending"
        BY <1>0, <1>3, AdvanceType DEF FlowBlocked, ClaimLost, LoopTypeOK
    <2>2. FlowOK'
        BY <1>0, <1>1, <1>3, <2>1, SetFlowSound, FlowNotSending DEF FlowBlocked, ClaimLost
    <2>3. StoreTypeOK'
        BY <1>0, <1>3 DEF FlowBlocked, ClaimLost, store, StoreTypeOK
    <2> QED
        BY <1>2, <2>1, <2>2, <2>3 DEF DispatchInv
<1>6. CASE NoAssignee(t)
    <2>1. LoopTypeOK' /\ pc' # "sending"
        BY <1>0, <1>6, AdvanceType DEF NoAssignee, LoopTypeOK
    <2>2. FlowOK'
        BY <1>0, <1>6, <2>1, FlowNotSending DEF NoAssignee, FlowOK
    <2>3. StoreTypeOK'
        BY <1>0, <1>6 DEF NoAssignee, store, StoreTypeOK
    <2> QED
        BY <1>2, <2>1, <2>2, <2>3 DEF DispatchInv
<1>4. CASE Unreachable(t)
    <2>1. LoopTypeOK' /\ pc' # "sending"
        BY <1>0, <1>4, AdvanceType DEF Unreachable, LoopTypeOK
    <2>2. FlowOK'
        BY <1>0, <1>1, <1>4, <2>1, SetFlowSound, FlowNotSending DEF Unreachable
    <2>3. SetStatus(t, "blocked") \/ UNCHANGED store
        BY <1>4 DEF Unreachable
    <2>4. "blocked" \in Lifecycle!TaskStatus
        BY DEF Lifecycle!TaskStatus
    <2>5. StoreTypeOK'
        BY <1>0, <2>3, <2>4, SetStatusType DEF store, StoreTypeOK
    <2> QED
        BY <1>2, <2>1, <2>2, <2>5 DEF DispatchInv
<1>5. CASE ClaimAndSend(t)
    <2>1. LoopTypeOK' /\ cur' = t /\ pc' = "sending"
        BY <1>0, <1>5 DEF ClaimAndSend, LoopTypeOK
    <2>2. StoreTypeOK'
        BY <1>0, <1>5, ClaimType DEF ClaimAndSend
    <2>3. /\ fc' \in [Agent -> AgentFlowState]
          /\ \A b \in Agent : Sound(fc'[b])
          /\ fc'[a] = Refreshed(fc[a])
        BY <1>0, <1>1, <1>5, SetFlowSound DEF ClaimAndSend
    <2>4. Room(fc'[a])
        BY <1>1, <1>5, <2>3 DEF ClaimAndSend
    <2>5. AgentOf(cur') = a
        BY <2>1 DEF AgentOf
    <2>6. FlowOK'
        BY <2>1, <2>3, <2>4, <2>5 DEF FlowOK, Sound, Room, AgentOf
    <2> QED
        BY <1>2, <2>1, <2>2, <2>6 DEF DispatchInv
<1> QED
    BY <1>3, <1>4, <1>5, <1>6 DEF LookAt

(* The end of a send. *)
LEMMA SendStep ==
    ASSUME DispatchInv, SendReturns \/ SendFails \/ SendFailsLate
    PROVE  DispatchInv'
<1> DEFINE a == AgentOf(cur)
<1>0. /\ StoreTypeOK /\ LoopTypeOK /\ AgentsTypeOK /\ FlowOK
      /\ cur \in Task /\ a \in Agent /\ Sound(fc[a]) /\ Room(fc[a])
    BY AgentIsAgent DEF DispatchInv, FlowOK, SendReturns, SendFails, SendFailsLate
<1>1. Sound(Succeeded(fc[a])) /\ Sound(Failed(fc[a]))
    BY <1>0, SucceededIsSound, FailedIsSound
<1>2. AgentsTypeOK'
    BY <1>0 DEF SendReturns, SendFails, SendFailsLate, AgentsTypeOK
<1>3. LoopTypeOK' /\ pc' # "sending"
    <2>1. queue' \subseteq Task /\ pc' \in {"idle", "loop"}
        BY <1>0, AdvanceType DEF SendReturns, SendFails, SendFailsLate
    <2> QED
        BY <2>1 DEF SendReturns, SendFails, SendFailsLate, LoopTypeOK
<1>4. FlowOK'
    <2>1. CASE SendReturns \/ SendFails
        BY <1>0, <1>1, <1>3, <2>1, SetFlowSound, FlowNotSending DEF SendReturns, SendFails
    <2>2. CASE SendFailsLate
        BY <1>0, <1>3, <2>2 DEF SendFailsLate, FlowOK, Sound
    <2> QED
        BY <2>1, <2>2
<1>5. StoreTypeOK'
    <2>1. SetStatus(cur, "failed") \/ UNCHANGED store
        BY DEF SendReturns, SendFails, SendFailsLate
    <2>2. "failed" \in Lifecycle!TaskStatus
        BY DEF Lifecycle!TaskStatus
    <2> QED
        BY <1>0, <2>1, <2>2, SetStatusType DEF store, StoreTypeOK
<1> QED
    BY <1>2, <1>3, <1>4, <1>5 DEF DispatchInv

(* The other steps of the loop. *)
LEMMA PollStep == DispatchInv /\ Poll => DispatchInv'
<1> SUFFICES ASSUME DispatchInv, Poll PROVE DispatchInv'
    OBVIOUS
<1>0. StoreTypeOK /\ LoopTypeOK /\ AgentsTypeOK /\ FlowOK
    BY DEF DispatchInv
<1>1. CASE ReleaseExpired \/ PromoteRetryable \/ ListReady
    <2>1. StoreTypeOK'
        BY <1>0, <1>1, ReleaseType, PromoteType DEF ListReady, store, StoreTypeOK
    <2>2. LoopTypeOK' /\ pc' # "sending"
        BY <1>0, <1>1 DEF ReleaseExpired, PromoteRetryable, ListReady, First, LoopTypeOK
    <2>3. AgentsTypeOK' /\ fc' = fc
        BY <1>0, <1>1 DEF ReleaseExpired, PromoteRetryable, ListReady, AgentsTypeOK
    <2>4. FlowOK'
        BY <1>0, <2>2, <2>3, FlowNotSending DEF FlowOK
    <2> QED
        BY <2>1, <2>2, <2>3, <2>4 DEF DispatchInv
<1> QED
    BY <1>1, LookStep, SendStep DEF Poll

(* A step that leaves the loop and the flow states alone. *)
LEMMA FlowUntouched == ASSUME FlowOK, UNCHANGED <<pc, cur, fc>> PROVE FlowOK'
BY DEF FlowOK, Sound, Room, AgentOf

(* Agents, workers, operators and the clock leave the loop alone. *)
LEMMA OtherStep ==
    ASSUME DispatchInv,
           \/ Arrive \/ Reports \/ Resend \/ Finish \/ ByHand
           \/ \E t \in Task : Ack(t) \/ CreateTask(t) \/ HttpClaim(t) \/ Lapse(t)
           \/ \E a \in Agent : Connect(a) \/ Disconnect(a)
    PROVE  DispatchInv'
<1>0. StoreTypeOK /\ LoopTypeOK /\ AgentsTypeOK /\ FlowOK
    BY DEF DispatchInv
<1>s. {"running", "completed", "failed"} \subseteq Lifecycle!TaskStatus
    BY DEF Lifecycle!TaskStatus
<1>1. CASE Arrive
    <2>1. LoopTypeOK' /\ UNCHANGED <<store, pc, cur, fc>>
        BY <1>0, <1>1 DEF Arrive, LoopTypeOK
    <2>2. AgentsTypeOK'
        BY <1>0, <1>1 DEF Arrive, AgentsTypeOK, FlowOK
    <2> QED
        BY <1>0, <2>1, <2>2, FlowUntouched DEF DispatchInv, StoreTypeOK, store
<1>2. ASSUME NEW t \in Task, NEW new \in {"completed", "failed"}, Report(t, new)
      PROVE  DispatchInv'
    <2>1. SetStatus(t, new) \/ UNCHANGED store
        BY <1>2 DEF Report
    <2>2. StoreTypeOK'
        BY <1>0, <1>s, <2>1, SetStatusType DEF store, StoreTypeOK
    <2>3. AgentsTypeOK' /\ UNCHANGED loop /\ UNCHANGED fc
        BY <1>0, <1>2 DEF Report, AgentsTypeOK
    <2> QED
        BY <1>0, <2>2, <2>3, FlowUntouched DEF DispatchInv, LoopTypeOK, loop
<1>3. ASSUME NEW t \in Task, NEW ok \in BOOLEAN, Redispatch(t, ok)
      PROVE  DispatchInv'
    <2>1. SetStatus(t, "running") \/ UNCHANGED store
        BY <1>3 DEF Redispatch
    <2>2. StoreTypeOK'
        BY <1>0, <1>s, <2>1, SetStatusType DEF store, StoreTypeOK
    <2>3. AgentsTypeOK' /\ UNCHANGED loop /\ UNCHANGED fc
        BY <1>0, <1>3, AgentIsAgent DEF Redispatch, AgentsTypeOK
    <2> QED
        BY <1>0, <2>2, <2>3, FlowUntouched DEF DispatchInv, LoopTypeOK, loop
<1>4. ASSUME NEW t \in Task, NEW new \in Lifecycle!TaskStatus,
             HttpFinish(t, new) \/ Patch(t, new)
      PROVE  DispatchInv'
    <2>1. SetStatus(t, new) /\ UNCHANGED <<connected, pending, loop, fc, tracked, held>>
        BY <1>4 DEF HttpFinish, Patch
    <2>2. StoreTypeOK'
        BY <1>0, <2>1, SetStatusType
    <2>3. AgentsTypeOK' /\ UNCHANGED loop /\ UNCHANGED fc
        BY <1>0, <2>1 DEF AgentsTypeOK
    <2> QED
        BY <1>0, <2>2, <2>3, FlowUntouched DEF DispatchInv, LoopTypeOK, loop
<1>5. ASSUME NEW t \in Task, Ack(t) PROVE DispatchInv'
    <2>1. SetStatus(t, "running") /\ UNCHANGED <<connected, pending, loop, fc, tracked, held>>
        BY <1>5 DEF Ack
    <2>2. StoreTypeOK'
        BY <1>0, <1>s, <2>1, SetStatusType
    <2>3. AgentsTypeOK' /\ UNCHANGED loop /\ UNCHANGED fc
        BY <1>0, <2>1 DEF AgentsTypeOK
    <2> QED
        BY <1>0, <2>2, <2>3, FlowUntouched DEF DispatchInv, LoopTypeOK, loop
<1>6. ASSUME NEW t \in Task, CreateTask(t) \/ HttpClaim(t) \/ Lapse(t)
      PROVE  DispatchInv'
    <2>1. StoreTypeOK'
        <3>1. CASE CreateTask(t)
            BY <1>0, <3>1 DEF CreateTask, StoreTypeOK, Status, Lifecycle!TaskStatus
        <3>2. CASE HttpClaim(t)
            BY <1>0, <3>2, ClaimType DEF HttpClaim
        <3>3. CASE Lapse(t)
            <4>1. lapsed' \in [Task -> BOOLEAN]
                BY <1>0, <3>3 DEF Lapse, StoreTypeOK
            <4> QED
                BY <1>0, <3>3, <4>1 DEF Lapse, StoreTypeOK
        <3> QED
            BY <1>6, <3>1, <3>2, <3>3
    <2>2. AgentsTypeOK' /\ UNCHANGED loop /\ UNCHANGED fc
        BY <1>0, <1>6 DEF CreateTask, HttpClaim, Lapse, AgentsTypeOK
    <2> QED
        BY <1>0, <2>1, <2>2, FlowUntouched DEF DispatchInv, LoopTypeOK, loop
<1>7. ASSUME NEW a \in Agent, Connect(a) \/ Disconnect(a) PROVE DispatchInv'
    <2>1. UNCHANGED store /\ UNCHANGED loop /\ UNCHANGED fc
        BY <1>7 DEF Connect, Disconnect
    <2>2. AgentsTypeOK'
        BY <1>0, <1>7 DEF Connect, Disconnect, First, AgentsTypeOK
    <2> QED
        BY <1>0, <2>1, <2>2, FlowUntouched
           DEF DispatchInv, LoopTypeOK, StoreTypeOK, loop, store
<1> QED
    BY <1>1, <1>2, <1>3, <1>4, <1>5, <1>6, <1>7, <1>s
       DEF Reports, Resend, Finish, ByHand

LEMMA CoolDownStep ==
    ASSUME DispatchInv, NEW a \in Agent, CoolDown(a)
    PROVE  DispatchInv'
<1>0. StoreTypeOK /\ LoopTypeOK /\ AgentsTypeOK /\ FlowOK
      /\ Sound(fc[a]) /\ fc[a].circuit = "open"
    BY DEF DispatchInv, FlowOK, CoolDown
<1>1. UNCHANGED <<store, connected, pending, loop, tracked, held>>
      /\ SetFlow(a, [fc[a] EXCEPT !.circuit = "elapsed"])
    BY DEF CoolDown
<1>2. /\ fc' \in [Agent -> AgentFlowState]
      /\ \A b \in Agent : Sound(fc'[b])
      /\ \A b \in Agent : b # a => fc'[b] = fc[b]
    BY <1>0, <1>1, ElapsedIsSound, SetFlowSound
<1>3. pc = "sending" => AgentOf(cur) # a /\ AgentOf(cur) \in Agent
    BY <1>0, AgentIsAgent DEF FlowOK, Room
<1>4. FlowOK'
    BY <1>0, <1>1, <1>2, <1>3 DEF FlowOK, Sound, Room, AgentOf, loop
<1> QED
    BY <1>0, <1>1, <1>4
       DEF DispatchInv, StoreTypeOK, LoopTypeOK, AgentsTypeOK, store, loop

LEMMA DispatchInit == Init => DispatchInv
<1> SUFFICES ASSUME Init PROVE DispatchInv
    OBVIOUS
<1>1. StoreTypeOK
    BY DEF Init, StoreTypeOK, Status
<1>2. LoopTypeOK
    BY DEF Init, LoopTypeOK
<1>3. AgentsTypeOK
    BY DEF Init, AgentsTypeOK
<1>4. FlowOK
    BY FreshIsSound DEF Init, FlowOK, Sound
<1> QED
    BY <1>1, <1>2, <1>3, <1>4 DEF DispatchInv

LEMMA DispatchStep == DispatchInv /\ [Next]_vars => DispatchInv'
<1> SUFFICES ASSUME DispatchInv, [Next]_vars PROVE DispatchInv'
    OBVIOUS
<1>1. CASE UNCHANGED vars
    BY <1>1, FlowUntouched
       DEF DispatchInv, StoreTypeOK, LoopTypeOK, AgentsTypeOK, vars, store, loop
<1> QED
    BY <1>1, PollStep, OtherStep, CoolDownStep DEF Next

-----------------------------------------------------------------------------
(* The theorems *)

(* No interleaving of the loop with agents, workers and operators counts a   *)
(* slot below zero or hands out more than max_concurrent_tasks, and the      *)
(* breaker of every agent is closed exactly while its failures stay below    *)
(* the threshold (orchestration/flow_control.py, can_dispatch and            *)
(* on_task_failed), for any limit, threshold, tasks and agents.              *)
THEOREM FlowIsSound == Spec => [](SlotsAccounted /\ BreakerConsistent)
<1>1. DispatchInv => SlotsAccounted /\ BreakerConsistent
    BY TypeParts DEF DispatchInv, FlowOK, Sound, SlotsAccounted, BreakerConsistent
<1> QED
    BY <1>1, DispatchInit, DispatchStep, PTL DEF Spec

(* An agent's breaker is open exactly when its failures reached the           *)
(* threshold, whatever tasks the failures came from and however late the      *)
(* answers are (orchestration/flow_control.py, FlowController).               *)
THEOREM BreakersAreConsistent == Spec => []BreakerConsistent
BY FlowIsSound, PTL

(* A claim of a running task stays or the task fails.                        *)
LEMMA ClaimStep ==
    ASSUME DispatchInv, [Next]_vars, NEW t \in Task,
           status[t] = "running", holder[t] # NULL
    PROVE  holder'[t] = holder[t] \/ status'[t] = "failed"
<1>0. StoreTypeOK
    BY DEF DispatchInv
<1>1. CASE holder' = holder
    BY <1>1
<1>2. ASSUME NEW x \in Task, NEW l, ClaimTask(x, l) PROVE holder'[t] = holder[t]
    <2>1. x # t
        BY <1>2 DEF ClaimTask, Claimable
    <2> QED
        BY <1>0, <1>2, <2>1 DEF ClaimTask, StoreTypeOK
<1>3. CASE ReleaseExpired
    BY <1>3 DEF ReleaseExpired
<1>4. CASE PromoteRetryable
    BY <1>4 DEF PromoteRetryable, Retryable
<1> QED
    BY <1>1, <1>2, <1>3, <1>4
       DEF Next, vars, store, Poll, LookAt, ListReady, NoAssignee, FlowBlocked, Unreachable,
           ClaimLost, ClaimAndSend, SendReturns, SendFails, SendFailsLate, Arrive,
           Ack, Reports, Report, Resend, Redispatch, Finish, HttpFinish, ByHand,
           Patch, Connect, Disconnect, CoolDown, CreateTask, HttpClaim, Lapse,
           SetStatus

(* A stale snapshot, a late report or an operator never makes one worker     *)
(* take over the claim of another while the task runs                        *)
(* (orchestration/dispatcher.py, _dispatch_single_task).                     *)
THEOREM ClaimsAreKept == Spec => RunningClaimKept
<1>1. DispatchInv /\ [Next]_vars =>
        [\A t \in Task : status[t] = "running" /\ holder[t] # NULL =>
            holder'[t] = holder[t] \/ status'[t] = "failed"]_vars
    BY ClaimStep
<1> QED
    BY <1>1, DispatchInit, DispatchStep, PTL DEF Spec, RunningClaimKept

-----------------------------------------------------------------------------
(* Claims as leases *)

(* A step that at most gives one task a claimant, or takes it away.          *)
LEMMA OneClaimMoves ==
    ASSUME NEW t \in Task, Claimant'[t] \in Agent \cup {Http, NULL},
           Claimant[t] = NULL \/ Claimant'[t] \in {NULL, Claimant[t]},
           \A x \in Task \ {t} : Claimant'[x] = Claimant[x]
    PROVE  [Claims!Next]_Claimant
<1>0. /\ DOMAIN Claimant = Task /\ Claimant = [x \in Task |-> Claimant[x]]
      /\ Claimant' = [x \in Task |-> Claimant'[x]]
    BY DEF Claimant
<1> HIDE DEF Claimant
<1>1. CASE Claimant'[t] = Claimant[t]
    <2>1. \A x \in Task : Claimant'[x] = Claimant[x]
        BY <1>1
    <2> QED
        BY <1>0, <2>1
<1>2. CASE Claimant'[t] = NULL
    <2>1. Claimant' = [x \in Task |-> IF x \in {t} THEN NULL ELSE Claimant[x]]
        BY <1>0, <1>2
    <2>2. {t} \in SUBSET Task /\ Claims!Release({t})
        BY <2>1 DEF Claims!Release
    <2> QED
        BY <2>2 DEF Claims!Next
<1>3. CASE Claimant[t] = NULL /\ Claimant'[t] \in Agent \cup {Http}
    <2>1. Claimant' = [Claimant EXCEPT ![t] = Claimant'[t]]
        BY <1>0
    <2>2. Claims!Acquire(t, Claimant'[t])
        BY <1>3, <2>1 DEF Claims!Acquire
    <2> QED
        BY <1>3, <2>2 DEF Claims!Next
<1> QED
    BY <1>1, <1>2, <1>3

(* A status change by anybody but the loop's first two steps.                *)
LEMMA SetStatusLease ==
    ASSUME StoreTypeOK, NEW t \in Task, NEW new, SetStatus(t, new)
    PROVE  [Claims!Next]_Claimant
<1>1. holder' = holder /\ \A x \in Task \ {t} : status'[x] = status[x]
    BY DEF SetStatus, StoreTypeOK
<1>2. \A x \in Task \ {t} : Claimant'[x] = Claimant[x]
    BY <1>1 DEF Claimant
<1>3. Claimant[t] \in {NULL, holder[t]} /\ Claimant'[t] \in {NULL, holder[t]}
    BY <1>1 DEF Claimant
<1>4. holder[t] \in Agent \cup {Http, NULL}
    BY DEF StoreTypeOK
<1> QED
    BY <1>2, <1>3, <1>4, OneClaimMoves

LEMMA ClaimLease ==
    ASSUME StoreTypeOK, NEW t \in Task, NEW l \in Agent \cup {Http}, ClaimTask(t, l)
    PROVE  [Claims!Next]_Claimant
<1>1. status[t] = "ready" /\ status' = [status EXCEPT ![t] = "running"]
      /\ holder' = [holder EXCEPT ![t] = l]
    BY DEF ClaimTask, Claimable
<1>2. Claimant[t] = NULL /\ Claimant'[t] = l
    BY <1>1 DEF Claimant, StoreTypeOK
<1>3. \A x \in Task \ {t} : Claimant'[x] = Claimant[x]
    BY <1>1 DEF Claimant, StoreTypeOK
<1> QED
    BY <1>2, <1>3, OneClaimMoves

LEMMA LeaseStep ==
    ASSUME DispatchInv, [Next]_vars
    PROVE  [Claims!Next]_Claimant
<1>0. StoreTypeOK
    BY DEF DispatchInv
<1>1. CASE status' = status /\ holder' = holder
    BY <1>1 DEF Claimant
<1>2. ASSUME NEW t \in Task, CreateTask(t) PROVE [Claims!Next]_Claimant
    <2>1. \A x \in Task : Claimant'[x] = Claimant[x]
        BY <1>0, <1>2 DEF CreateTask, Claimant, StoreTypeOK
    <2> QED
        BY <2>1 DEF Claimant
<1>3. CASE ReleaseExpired
    <2>1. Claims!Release(Expired)
        BY <1>3 DEF ReleaseExpired, Claims!Release, Claimant
    <2>2. Expired \in SUBSET Task
        BY DEF Expired
    <2> QED
        BY <2>1, <2>2 DEF Claims!Next
<1>4. CASE PromoteRetryable
    <2>1. \A t \in Retryable : status[t] = "failed"
        BY DEF Retryable
    <2> QED
        BY <1>4, <2>1 DEF PromoteRetryable, Claimant
<1>5. CASE Poll
    <2>1. CASE SendReturns \/ SendFails \/ SendFailsLate
        <3>1. cur \in Task
            BY <2>1 DEF DispatchInv, FlowOK, SendReturns, SendFails, SendFailsLate
        <3> QED
            BY <1>0, <1>1, <2>1, <3>1, SetStatusLease
               DEF SendReturns, SendFails, SendFailsLate, store
    <2>2. ASSUME NEW t \in Task, LookAt(t) PROVE [Claims!Next]_Claimant
        <3>1. AgentOf(t) \in Agent \cup {Http}
            BY AgentIsAgent
        <3> QED
            BY <1>0, <1>1, <2>2, <3>1, SetStatusLease, ClaimLease
               DEF LookAt, NoAssignee, FlowBlocked, Unreachable, ClaimLost, ClaimAndSend, store
    <2> QED
        BY <1>1, <1>3, <1>4, <1>5, <2>1, <2>2 DEF Poll, ListReady, store
<1>6. CASE Reports \/ Resend \/ Finish \/ ByHand \/ \E t \in Task : Ack(t)
    BY <1>0, <1>1, <1>6, SetStatusLease
       DEF Reports, Report, Resend, Redispatch, Finish, HttpFinish, ByHand,
           Patch, Ack, store
<1>7. ASSUME NEW t \in Task, HttpClaim(t) PROVE [Claims!Next]_Claimant
    BY <1>0, <1>7, ClaimLease DEF HttpClaim
<1> QED
    BY <1>1, <1>2, <1>5, <1>6, <1>7
       DEF Next, vars, store, Arrive, Connect, Disconnect, CoolDown, Lapse

(* Among the poll loop, reconnecting agents, late acknowledgements, polling  *)
(* workers and operators, a task never passes from one worker to another     *)
(* without having been given up (orchestration/dispatcher.py,                *)
(* server.py _maybe_dispatch_pending).                                       *)
THEOREM DispatcherImplementsLease == Spec => ImplementsLease
<1>1. Init => Claims!Init
    BY DEF Init, Claims!Init, Claimant
<1>2. DispatchInv /\ [Next]_vars => [Claims!Next]_Claimant
    BY LeaseStep
<1> QED
    BY <1>1, <1>2, DispatchInit, DispatchStep, PTL DEF Spec, ImplementsLease, Claims!Spec

(* A worker that has claimed a task keeps it until it is given up, and loses *)
(* a running one only to the TTL release.                                    *)
THEOREM DispatcherClaimsAreKept == Spec => ClaimsKept
BY ClaimsAreKept, DispatcherImplementsLease DEF ClaimsKept

-----------------------------------------------------------------------------
(* The lifecycle *)

(* A task that moves alone along an edge takes a step of the lifecycle.      *)
LEMMA MoveAlone ==
    ASSUME status \in [Task -> Status], NEW t \in Task,
           NEW new \in Lifecycle!TaskStatus,
           <<status[t], new>> \in Lifecycle!VALID_TRANSITIONS,
           status' = [status EXCEPT ![t] = new]
    PROVE  Lifecycle!Next
<1>1. status' = [x \in Task |->
                    IF x = t THEN new
                    ELSE IF x \in {} THEN Lifecycle!Flip(status[x]) ELSE status[x]]
    OBVIOUS
<1>2. {} \in SUBSET (Task \ {t})
    OBVIOUS
<1>3. Lifecycle!Move(t)
    BY <1>1, <1>2 DEF Lifecycle!Move
<1> QED
    BY <1>3 DEF Lifecycle!Next

LEMMA DispatchLifecycle ==
    ASSUME DispatchInv, [Next]_vars
    PROVE  [Lifecycle!Next]_status
<1>0. StoreTypeOK
    BY DEF DispatchInv
<1>1. CASE UNCHANGED status
    BY <1>1
<1>2. ASSUME NEW t \in Task, NEW new \in Lifecycle!TaskStatus, SetStatus(t, new)
      PROVE  Lifecycle!Next
    BY <1>0, <1>2, MoveAlone DEF SetStatus, Allowed, StoreTypeOK
<1>3. ASSUME NEW t \in Task, NEW l, ClaimTask(t, l) PROVE Lifecycle!Next
    <2>1. "running" \in Lifecycle!TaskStatus
          /\ <<status[t], "running">> \in Lifecycle!VALID_TRANSITIONS
        BY <1>3 DEF ClaimTask, Claimable, Lifecycle!TaskStatus,
                    Lifecycle!VALID_TRANSITIONS
    <2> QED
        BY <1>0, <1>3, <2>1, MoveAlone DEF ClaimTask, StoreTypeOK
<1>4. ASSUME NEW t \in Task, CreateTask(t) PROVE Lifecycle!Next
    <2>1. Lifecycle!Create(t)
        BY <1>4 DEF CreateTask, Lifecycle!Create, Lifecycle!InitialStatus
    <2> QED
        BY <2>1 DEF Lifecycle!Next
<1>5. CASE ReleaseExpired
    <2>1. Expired \in SUBSET Task /\ Lifecycle!Expire(Expired)
        BY <1>5 DEF ReleaseExpired, Expired, Lifecycle!Expire
    <2> QED
        BY <2>1 DEF Lifecycle!Next
<1>6. CASE PromoteRetryable
    <2>1. Retryable \in SUBSET Task /\ Lifecycle!Retry(Retryable)
        BY <1>6 DEF PromoteRetryable, Retryable, Lifecycle!Retry
    <2> QED
        BY <2>1 DEF Lifecycle!Next
<1>s. {"running", "blocked", "completed", "failed"} \subseteq Lifecycle!TaskStatus
    BY DEF Lifecycle!TaskStatus
<1>7. CASE Poll
    <2>1. CASE SendReturns \/ SendFails \/ SendFailsLate
        <3>1. cur \in Task
            BY <2>1 DEF DispatchInv, FlowOK, SendReturns, SendFails, SendFailsLate
        <3> QED
            BY <1>1, <1>2, <1>s, <2>1, <3>1
               DEF SendReturns, SendFails, SendFailsLate, store
    <2>2. ASSUME NEW t \in Task, LookAt(t) PROVE [Lifecycle!Next]_status
        BY <1>1, <1>2, <1>3, <1>s, <2>2
           DEF LookAt, NoAssignee, FlowBlocked, Unreachable, ClaimLost, ClaimAndSend, store
    <2> QED
        BY <1>1, <1>5, <1>6, <1>7, <2>1, <2>2 DEF Poll, ListReady, store
<1>8. CASE Reports \/ Resend \/ Finish \/ ByHand \/ \E t \in Task : Ack(t)
    BY <1>1, <1>2, <1>s, <1>8
       DEF Reports, Report, Resend, Redispatch, Finish, HttpFinish, ByHand,
           Patch, Ack, store
<1> QED
    BY <1>1, <1>3, <1>4, <1>7, <1>8
       DEF Next, vars, store, Arrive, Connect, Disconnect, CoolDown, HttpClaim, Lapse

(* The dispatcher and all who touch the task table meanwhile implement the   *)
(* abstract task lifecycle (orchestration/state_machine.py).                 *)
THEOREM DispatcherImplementsLifecycle == Spec => ImplementsLifecycle
<1>1. Init => Lifecycle!Init
    BY DEF Init, Lifecycle!Init
<1>2. DispatchInv /\ [Next]_vars => [Lifecycle!Next]_status
    BY DispatchLifecycle
<1> QED
    BY <1>1, <1>2, DispatchInit, DispatchStep, PTL
       DEF Spec, ImplementsLifecycle, Lifecycle!Spec
=============================================================================
