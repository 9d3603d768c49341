---------------------------- MODULE EdgeProofs ----------------------------
(* What is proved of the parts at the edge of the registry: synchronous      *)
(* calls, the table of agents, the agent's client and the admin hub.         *)
EXTENDS MCEdge, TLAPS

-----------------------------------------------------------------------------
(* SyncCall: answers reach their callers, for any number of requests. *)

(* A request that timed out or was cut off is over, the future of the former *)
(* cancelled.                                                                *)
SettledOnce ==
    \A i \in Call :
        /\ response[i] = "timeout" => future[i] = "cancelled"
        /\ response[i] \in {"timeout", "cut_off"} => step[i] = "done"

CallInv == AnswersReachCallers /\ SettledOnce

LEMMA CallInit_Inv == CallInit => CallInv
BY DEF CallInit, CallInv, SettledOnce, AnswersReachCallers, CallTypeOK,
       NoPendingLeak, AnswerNotLost, Verdict

(* What one step of the handler, of the agent or of the link keeps. *)
LEMMA CallStep_Inv == CallInv /\ [CallNext]_callVars => CallInv'
<1> SUFFICES ASSUME CallInv, [CallNext]_callVars PROVE CallInv'
    OBVIOUS
<1> USE DEF CallInv, SettledOnce, AnswersReachCallers, CallTypeOK,
            NoPendingLeak, AnswerNotLost, Verdict
<1>1. CASE UNCHANGED callVars
    BY <1>1 DEF callVars
<1>2. CASE LoseLink
    BY <1>2 DEF LoseLink
<1>3. ASSUME NEW i \in Call, Refuse(i) PROVE CallInv'
    BY <1>3 DEF Refuse, Respond
<1>4. ASSUME NEW i \in Call, Submit(i) PROVE CallInv'
    BY <1>4 DEF Submit
<1>5. ASSUME NEW i \in Call, Reaches(i) PROVE CallInv'
    BY <1>5 DEF Reaches
<1>6. ASSUME NEW i \in Call, Answer(i) PROVE CallInv'
    BY <1>6 DEF Answer
<1>7. ASSUME NEW i \in Call, Sent(i) PROVE CallInv'
    BY <1>7 DEF Sent
<1>8. ASSUME NEW i \in Call, SendRaises(i) PROVE CallInv'
    BY <1>8 DEF SendRaises, Respond
<1>9. ASSUME NEW i \in Call, Elapse(i) PROVE CallInv'
    BY <1>9 DEF Elapse
<1>10. ASSUME NEW i \in Call, TimedOut(i) PROVE CallInv'
    BY <1>10 DEF TimedOut, Respond
<1>11. ASSUME NEW i \in Call, Answered(i) PROVE CallInv'
    BY <1>11 DEF Answered, Respond
<1>12. ASSUME NEW i \in Call, CutOff(i) PROVE CallInv'
    BY <1>12 DEF CutOff, Respond
<1> QED
    BY <1>1, <1>2, <1>3, <1>4, <1>5, <1>6, <1>7, <1>8, <1>9, <1>10, <1>11, <1>12
       DEF CallNext, CallStep

(* However requests, answers, timeouts, disconnects and cancelled handlers   *)
(* interleave, only a handler that was cut off leaves its entry behind, and  *)
(* only until its agent answers; an accepted answer is never called a        *)
(* timeout (orchestration/sync_routes.py, handle_sync_call).              *)
THEOREM AnswersReach == CallSpec => []AnswersReachCallers
<1>1. CallInv => AnswersReachCallers
    BY DEF CallInv
<1> QED
    BY <1>1, CallInit_Inv, CallStep_Inv, PTL DEF CallSpec

-----------------------------------------------------------------------------
(* AgentRegistry: names and removals, for any agents, tenants and ages. *)

(* An id that was not handed out has no row; ages are numbers. *)
RegistryInv ==
    /\ row \in [AgentId -> Row \cup {NoRow}]
    /\ age \in [AgentId -> Nat]
    /\ spare \subseteq AgentId
    /\ \A i \in spare : row[i] = NoRow

LEMMA NoRowIsNoRow == NoRow \notin Row /\ NoTenant \notin Tenant
BY RegistryAssumption DEF NoRow, Row, NoTenant

LEMMA RegistryInit_Inv == RegistryInit => RegistryInv /\ NamesUnambiguous
BY DEF RegistryInit, RegistryInv, NamesUnambiguous, Visible, Agents

(* What a registration puts into the table. *)
LEMMA NewRow ==
    ASSUME NEW n \in Name, NEW u \in Scope
    PROVE  [name |-> n, tenant |-> u, disabled |-> FALSE] \in Row
BY DEF Row

LEMMA RegistryStep_Inv == RegistryInv /\ [RegistryNext]_registryVars => RegistryInv'
<1> SUFFICES ASSUME RegistryInv, [RegistryNext]_registryVars PROVE RegistryInv'
    OBVIOUS
<1> USE DEF RegistryInv
<1>1. CASE UNCHANGED registryVars
    BY <1>1 DEF registryVars
<1>2. ASSUME NEW i \in AgentId, NEW u \in Scope, NEW n \in Name,
             RegisterAgent(i, n, u)
      PROVE  RegistryInv'
    BY <1>2, NewRow DEF RegisterAgent
<1>3. ASSUME NEW i \in AgentId, NEW u \in Scope, HeartbeatAgent(i, u)
      PROVE  RegistryInv'
    BY <1>3 DEF HeartbeatAgent
<1>4. ASSUME NEW i \in AgentId, NEW u \in Scope, ToggleAgent(i, u)
      PROVE  RegistryInv'
    <2>1. row[i] \in Row /\ i \notin spare
        BY <1>4 DEF ToggleAgent, Owned, Agents
    <2>2. [row[i] EXCEPT !.disabled = ~@] \in Row
        BY <2>1 DEF Row
    <2>3. row' = [row EXCEPT ![i] = [row[i] EXCEPT !.disabled = ~@]]
        BY <1>4 DEF ToggleAgent
    <2> QED
        BY <1>4, <2>1, <2>2, <2>3 DEF ToggleAgent
<1>5. ASSUME NEW i \in AgentId, NEW u \in Scope, UnregisterAgent(i, u)
      PROVE  RegistryInv'
    BY <1>5 DEF UnregisterAgent
<1>6. ASSUME NEW i \in AgentId, ConnectAgent(i) \/ DisconnectAgent(i)
      PROVE  RegistryInv'
    BY <1>6 DEF ConnectAgent, DisconnectAgent
<1>7. CASE PurgeStale
    <2>1. row' \in [AgentId -> Row \cup {NoRow}]
        BY <1>7 DEF PurgeStale
    <2> QED
        BY <1>7, <2>1 DEF PurgeStale
<1>8. CASE RegistryTick
    BY <1>8 DEF RegistryTick
<1> QED
    BY <1>1, <1>2, <1>3, <1>4, <1>5, <1>6, <1>7, <1>8 DEF RegistryNext

(* A name that a registration brings in is new to all who can see it. *)
LEMMA NamesStep ==
    ASSUME RegistryInv, NamesUnambiguous, [RegistryNext]_registryVars
    PROVE  NamesUnambiguous'
<1> SUFFICES ASSUME NEW u \in Tenant, NEW i \in Visible(u)', NEW j \in Visible(u)',
                    row'[i].name = row'[j].name
             PROVE  i = j
    BY DEF NamesUnambiguous
<1> USE NoRowIsNoRow DEF RegistryInv
<1>0. u # NoTenant /\ i \in AgentId /\ j \in AgentId
    BY DEF Visible, Agents
<1>1. ASSUME \A a \in AgentId : row'[a] # NoRow =>
                row[a] # NoRow /\ row'[a].name = row[a].name
                               /\ row'[a].tenant = row[a].tenant
      PROVE  i = j
    <2>1. i \in Visible(u) /\ j \in Visible(u) /\ row[i].name = row[j].name
        BY <1>0, <1>1 DEF Visible, Agents
    <2> QED
        BY <2>1 DEF NamesUnambiguous
<1>2. ASSUME NEW k \in AgentId, NEW v \in Scope, NEW n \in Name,
             RegisterAgent(k, n, v)
      PROVE  i = j
    <2> DEFINE new == [name |-> n, tenant |-> v, disabled |-> FALSE]
    <2>1. new.name = n /\ new.tenant = v
        OBVIOUS
    <2> HIDE DEF new
    <2>2. row' = [row EXCEPT ![k] = new] /\ \A a \in Visible(v) : row[a].name # n
        BY <1>2 DEF RegisterAgent, new
    <2>3. \A a \in AgentId : a # k /\ a \in Visible(u)' => a \in Visible(u) /\ row'[a] = row[a]
        BY <1>0, <2>2 DEF Visible, Agents
    <2>4. CASE k \in Visible(u)'
        <3>1. row'[k] = new /\ v \in {u, NoTenant}
            BY <1>0, <2>1, <2>2, <2>4 DEF Visible, Agents
        <3>2. Visible(u) \subseteq Visible(v)
            BY <1>0, <3>1 DEF Visible
        <3>3. \A a \in AgentId : a # k /\ a \in Visible(u)' => row'[a].name # n
            BY <2>2, <2>3, <3>2
        <3> QED
            BY <1>0, <2>1, <2>3, <3>1, <3>3 DEF NamesUnambiguous
    <2>5. CASE k \notin Visible(u)'
        BY <1>0, <2>3, <2>5 DEF NamesUnambiguous
    <2> QED
        BY <2>4, <2>5
<1>3. ASSUME NEW k \in AgentId, NEW v \in Scope, ToggleAgent(k, v)
      PROVE  i = j
    <2>1. row[k] \in Row /\ row[k] # NoRow
        BY <1>3 DEF ToggleAgent, Owned, Agents
    <2>2. \A a \in AgentId : a # k => row'[a] = row[a]
        BY <1>3 DEF ToggleAgent
    <2>3. row'[k].name = row[k].name /\ row'[k].tenant = row[k].tenant
        BY <1>3, <2>1 DEF ToggleAgent, Row
    <2> QED
        BY <1>1, <2>1, <2>2, <2>3
<1>4. ASSUME NEW k \in AgentId, NEW v \in Scope, UnregisterAgent(k, v)
      PROVE  i = j
    BY <1>1, <1>4 DEF UnregisterAgent
<1>5. CASE PurgeStale
    BY <1>1, <1>5 DEF PurgeStale
<1>6. CASE row' = row
    BY <1>1, <1>6
<1> QED
    BY <1>2, <1>3, <1>4, <1>5, <1>6 DEF RegistryNext, registryVars,
       HeartbeatAgent, ConnectAgent, DisconnectAgent, RegistryTick

(* A row that disappears was deleted, or its agent was silent for PurgeAge. *)
LEMMA RemovalStep ==
    ASSUME RegistryInv, [RegistryNext]_registryVars, NEW i \in AgentId,
           i \in Agents, row'[i] = NoRow
    PROVE  i \in gone' \/ age[i] > PurgeAge
<1> USE NoRowIsNoRow DEF RegistryInv, Agents
<1>1. ASSUME NEW k \in AgentId, NEW v \in Scope, NEW n \in Name,
             RegisterAgent(k, n, v)
      PROVE  FALSE
    <2>1. [name |-> n, tenant |-> v, disabled |-> FALSE] # NoRow
        BY NewRow
    <2> QED
        BY <1>1, <2>1 DEF RegisterAgent
<1>2. ASSUME NEW k \in AgentId, NEW v \in Scope, ToggleAgent(k, v)
      PROVE  FALSE
    <2>1. row[k] \in Row
        BY <1>2 DEF ToggleAgent, Owned
    <2>2. [row[k] EXCEPT !.disabled = ~@] \in Row
        BY <2>1 DEF Row
    <2>3. row' = [row EXCEPT ![k] = [row[k] EXCEPT !.disabled = ~@]]
        BY <1>2 DEF ToggleAgent
    <2> QED
        BY <2>2, <2>3
<1>3. ASSUME NEW k \in AgentId, NEW v \in Scope, UnregisterAgent(k, v)
      PROVE  i \in gone'
    BY <1>3 DEF UnregisterAgent
<1>4. CASE PurgeStale
    BY <1>4 DEF PurgeStale, Purgeable
<1> QED
    BY <1>1, <1>2, <1>3, <1>4 DEF RegistryNext, registryVars,
       HeartbeatAgent, ConnectAgent, DisconnectAgent, RegistryTick

(* A stale agent's age falls back to zero only with a connection. *)
LEMMA StaleStep ==
    ASSUME RegistryInv, [RegistryNext]_registryVars, NEW i \in AgentId,
           i \in Agents, age[i] > StaleAge, ~row[i].disabled, age'[i] = 0
    PROVE  i \in onWs'
<1> USE DEF RegistryInv, Agents
<1>0. age[i] \in Nat /\ age[i] # 0
    BY RegistryAssumption
<1>1. ASSUME NEW k \in AgentId, NEW v \in Scope, NEW n \in Name,
             RegisterAgent(k, n, v)
      PROVE  FALSE
    BY <1>0, <1>1 DEF RegisterAgent
<1>2. ASSUME NEW k \in AgentId, NEW v \in Scope, HeartbeatAgent(k, v)
      PROVE  FALSE
    <2>1. k = i
        BY <1>0, <1>2 DEF HeartbeatAgent
    <2>2. ~(age[i] <= StaleAge)
        BY <1>0, RegistryAssumption
    <2> QED
        BY <1>2, <2>1, <2>2 DEF HeartbeatAgent, Status
<1>3. ASSUME NEW k \in AgentId, ConnectAgent(k) PROVE i \in onWs'
    BY <1>0, <1>3 DEF ConnectAgent
<1>4. CASE RegistryTick
    BY <1>0, <1>4 DEF RegistryTick
<1>5. CASE age' = age
    BY <1>0, <1>5
<1> QED
    BY <1>1, <1>2, <1>3, <1>4, <1>5 DEF RegistryNext, registryVars,
       DisconnectAgent, ToggleAgent, UnregisterAgent, PurgeStale

(* Find-by-name is unambiguous for every tenant, in whatever order tenants    *)
(* and administrators register (store.py, Store.list_agents; server.py,       *)
(* handle_register).                                                          *)
THEOREM NamesStayUnambiguous == RegistrySpec => []NamesUnambiguous
BY RegistryInit_Inv, RegistryStep_Inv, NamesStep, PTL DEF RegistrySpec

(* No agent is removed without a request or a silence of PurgeAge, and over   *)
(* HTTP no stale agent becomes alive again (store.py, Store.purge_stale and   *)
(* Store.heartbeat), for any ages and any number of agents.                   *)
THEOREM RemovalsHaveCause == RegistrySpec => RegistryRemovals
<1>1. RegistryInit => RegistryInv
    BY RegistryInit_Inv
<1>2. RegistryInv /\ [RegistryNext]_registryVars => RegistryInv'
    BY RegistryStep_Inv
<1>3. RegistryInv /\ [RegistryNext]_registryVars =>
        [\A i \in AgentId : i \in Agents /\ row'[i] = NoRow
            => i \in gone' \/ age[i] > PurgeAge]_registryVars
    BY RemovalStep
<1>4. RegistryInv /\ [RegistryNext]_registryVars =>
        [\A i \in AgentId :
            i \in Agents /\ age[i] > StaleAge /\ ~row[i].disabled /\ age'[i] = 0
            => i \in onWs']_registryVars
    BY StaleStep
<1> QED
    BY <1>1, <1>2, <1>3, <1>4, PTL
       DEF RegistrySpec, RegistryRemovals, RemovedWithCause, StaleNeedsReconnect

-----------------------------------------------------------------------------
(* The peers of the registry: its clients and the admin hub. *)

LEMMA RegistryTypes ==
    ASSUME RegistryTypeOK, [RegistryNext]_registryVars, RegistryInv'
    PROVE  RegistryTypeOK'
<1> USE RegistryAssumption DEF RegistryTypeOK, RegistryInv
<1>1. ASSUME NEW i \in AgentId, NEW u \in Scope,
             \/ \E n \in Name : RegisterAgent(i, n, u)
             \/ HeartbeatAgent(i, u)
             \/ ToggleAgent(i, u)
             \/ UnregisterAgent(i, u)
      PROVE  RegistryTypeOK'
    BY <1>1 DEF RegisterAgent, HeartbeatAgent, ToggleAgent, UnregisterAgent
<1>2. ASSUME NEW i \in AgentId, ConnectAgent(i) \/ DisconnectAgent(i)
      PROVE  RegistryTypeOK'
    BY <1>2 DEF ConnectAgent, DisconnectAgent, Agents
<1>3. CASE PurgeStale
    BY <1>3 DEF PurgeStale
<1>4. CASE RegistryTick
    BY <1>4 DEF RegistryTick
<1>5. CASE UNCHANGED registryVars
    BY <1>5 DEF registryVars
<1> QED
    BY <1>1, <1>2, <1>3, <1>4, <1>5 DEF RegistryNext

(* AttachedWhileConnected, with the attribute compared to a truth value.      *)
ClientInv == ClientTypeOK /\ (attached = TRUE <=> phase \in Connected)

LEMMA ClientInvSound == ClientInv => ClientTypeOK /\ AttachedWhileConnected
<1> SUFFICES ASSUME ClientInv PROVE ClientTypeOK /\ AttachedWhileConnected
    OBVIOUS
<1>1. attached \in BOOLEAN
    BY DEF ClientInv, ClientTypeOK
<1>2. attached <=> (attached = TRUE)
    BY <1>1, Zenon
<1> QED
    BY <1>2, Zenon DEF ClientInv, AttachedWhileConnected

LEMMA ClientInit_Inv == ClientInit => ClientInv
<1>1. 1 \in 1..ReconnectMax /\ 0 \in 0..MaxFaults
    BY ClientAssumption
<1>2. ClientInit => ClientTypeOK
    BY <1>1 DEF ClientInit, ClientTypeOK
<1>3. ClientInit => attached # TRUE /\ phase \notin Connected
    BY DEF ClientInit, Connected
<1> QED
    BY <1>2, <1>3 DEF ClientInv

(* Every step of the loop but Leave keeps the socket attribute in step with  *)
(* the phase by what it assigns; close() detaches what it cancels.           *)
LEMMA ClientStep == ClientInv /\ [ClientNext]_clientVars => ClientInv'
<1> SUFFICES ASSUME ClientInv, [ClientNext]_clientVars PROVE ClientInv'
    OBVIOUS
<1> USE ClientAssumption DEF ClientInv, ClientTypeOK, Connected
<1>0. CASE Wake
    <2>1. delay' \in 1..ReconnectMax
        BY <1>0 DEF Wake
    <2> QED
        BY <1>0, <2>1 DEF Wake
<1>1. CASE Start \/ TokenGranted \/ TokenRefused
    BY <1>1 DEF Start, TokenGranted, TokenRefused, BackOff
<1>2. CASE Opened \/ NotFound \/ Unauthorized \/ Unreachable
    BY <1>2 DEF Opened, NotFound, Unauthorized, Unreachable, BackOff
<1>3. CASE Registered \/ RegistrationFails \/ Greeted
    <2>1. delay' \in 1..ReconnectMax
        BY <1>3 DEF Registered, RegistrationFails, Greeted, BackOff
    <2> QED
        BY <1>3, <2>1 DEF Registered, RegistrationFails, Greeted, BackOff
<1>4. CASE Receive \/ ReportResult \/ Handled \/ Leave \/ Left
    BY <1>4 DEF Receive, ReportResult, Handled, Leave, Left, BackOff
<1>5. CASE Close
    <2>1. CASE attached /\ ws = "open" /\ phase = "listening"
        <3>1. attached' = FALSE
            BY <1>5, <2>1, Zenon DEF Close
        <3> QED
            BY <1>5, <2>1, <3>1 DEF Close
    <2>2. CASE attached /\ ws = "open" /\ phase # "listening"
        <3>1. attached' = TRUE
            BY <1>5, <2>2, Zenon DEF Close
        <3>2. attached = TRUE
            BY <2>2, Zenon
        <3> QED
            BY <1>5, <2>2, <3>1, <3>2 DEF Close
    <2>3. CASE ~(attached /\ ws = "open")
        <3>1. CancelLoop /\ UNCHANGED <<token, known, faults>>
            BY <1>5, <2>3, Zenon DEF Close
        <3> QED
            BY <3>1 DEF CancelLoop, BackOff
    <2> QED
        BY <2>1, <2>2, <2>3, Zenon
<1>6. CASE SocketClosed \/ CloseReturns
    BY <1>6 DEF SocketClosed, CloseReturns, CancelLoop, BackOff
<1>7. CASE Break \/ TokenAges \/ Rotate \/ Forgotten
    <2>1. faults' \in 0..MaxFaults
        BY <1>7 DEF Break, TokenAges, Rotate, Forgotten
    <2>2. UNCHANGED <<phase, attached, delay, closing, result>>
        BY <1>7 DEF Break, TokenAges, Rotate, Forgotten
    <2>3. /\ ws' \in {"none", "open", "closed"}
          /\ token' \in {"none", "good", "bad", "expiring"}
          /\ known' \in BOOLEAN
        BY <1>7 DEF Break, TokenAges, Rotate, Forgotten
    <2> QED
        BY <2>1, <2>2, <2>3
<1>8. CASE UNCHANGED clientVars
    BY <1>8 DEF clientVars
<1> QED
    BY <1>0, <1>1, <1>2, <1>3, <1>4, <1>5, <1>6, <1>7, <1>8 DEF ClientNext, LoopStep

(* A session points at a connection that carries its id, whose handler has   *)
(* not reached the end of its finally block.                                 *)
HubInv ==
    /\ conns \in [Session -> Sock \cup {NoSock}]
    /\ hsubs \in [Session -> BOOLEAN]
    /\ sid \in [Sock -> Session \cup {NoSock}]
    /\ loop \in [Sock -> {"none", "receiving", "handling", "ending", "ended"}]
    /\ \A i \in Session : conns[i] # NoSock =>
            /\ sid[conns[i]] = i
            /\ loop[conns[i]] \in {"receiving", "handling", "ending"}
            /\ hsubs[i]

LEMMA HubInit_Inv == HubInit => HubInv
BY DEF HubInit, HubInv

LEMMA HubInvSound == HubInv => NoGhostSession
BY DEF HubInv, NoGhostSession, Mapped

(* disconnect() takes sessions out and leaves the others alone. *)
LEMMA DisconnectKeeps ==
    ASSUME HubInv, NEW I, Disconnect(I), UNCHANGED sid,
           loop' \in [Sock -> {"none", "receiving", "handling", "ending", "ended"}],
           \A i \in Session \ I : conns[i] # NoSock => loop'[conns[i]] = loop[conns[i]]
    PROVE  HubInv'
<1>1. \A i \in Session : conns'[i] = IF i \in I THEN NoSock ELSE conns[i]
    BY DEF Disconnect
<1>2. \A i \in Session : conns'[i] # NoSock => hsubs'[i] = hsubs[i]
    BY <1>1 DEF Disconnect
<1>3. conns' \in [Session -> Sock \cup {NoSock}] /\ hsubs' \in [Session -> BOOLEAN]
    BY DEF Disconnect, HubInv
<1> QED
    BY <1>1, <1>2, <1>3 DEF HubInv

LEMMA HubStep_Inv == HubInv /\ [HubNext]_hubVars => HubInv'
<1> SUFFICES ASSUME HubInv, [HubNext]_hubVars PROVE HubInv'
    OBVIOUS
<1>1. CASE UNCHANGED hubVars
    BY <1>1 DEF hubVars, HubInv
<1>2. ASSUME NEW s \in Sock, NEW i \in Session, Join(s, i) PROVE HubInv'
    <2>1. \A k \in Session : k # i => conns'[k] = conns[k] /\ hsubs'[k] = hsubs[k]
        BY <1>2 DEF Join, HubInv
    <2>2. \A k \in Session : conns[k] # NoSock => conns[k] # s
        BY <1>2 DEF Join, HubInv
    <2>3. \A x \in Sock : x # s => sid'[x] = sid[x] /\ loop'[x] = loop[x]
        BY <1>2 DEF Join, HubInv
    <2>4. /\ conns'[i] = s /\ sid'[s] = i
          /\ loop'[s] = "receiving" /\ hsubs'[i] = TRUE
        BY <1>2 DEF Join, HubInv
    <2>5. /\ conns' \in [Session -> Sock \cup {NoSock}]
          /\ hsubs' \in [Session -> BOOLEAN]
          /\ sid' \in [Sock -> Session \cup {NoSock}]
          /\ loop' \in [Sock -> {"none", "receiving", "handling", "ending", "ended"}]
        BY <1>2 DEF Join, HubInv
    <2> QED
        BY <2>1, <2>2, <2>3, <2>4, <2>5 DEF HubInv
<1>3. ASSUME NEW s \in Sock, PeerLeaves(s) \/ Beat(s) \/ Pong(s) PROVE HubInv'
    BY <1>3 DEF PeerLeaves, Beat, Pong, HubInv
<1>4. ASSUME NEW s \in Sock, ReceiveMessage(s) \/ LoopEnds(s) PROVE HubInv'
    BY <1>4 DEF ReceiveMessage, LoopEnds, HubInv
<1>5. ASSUME NEW s \in Sock, HandleMessage(s) PROVE HubInv'
    <2>1. /\ hsubs' \in [Session -> BOOLEAN]
          /\ \A i \in Session : hsubs[i] => hsubs'[i]
        BY <1>5 DEF HandleMessage, HubInv
    <2>2. /\ loop' \in [Sock -> {"none", "receiving", "handling", "ending", "ended"}]
          /\ loop'[s] \in {"receiving", "handling", "ending"}
          /\ \A x \in Sock : x # s => loop'[x] = loop[x]
        BY <1>5 DEF HandleMessage, HubInv
    <2>3. UNCHANGED <<conns, sid>>
        BY <1>5 DEF HandleMessage
    <2> QED
        BY <2>1, <2>2, <2>3 DEF HubInv
<1>6. ASSUME NEW s \in Sock, HandlerDone(s) PROVE HubInv'
    <2>1. loop' = [loop EXCEPT ![s] = "ended"] /\ Disconnect({sid[s]})
          /\ UNCHANGED sid
        BY <1>6 DEF HandlerDone
    <2>2. \A i \in Session \ {sid[s]} : conns[i] # NoSock => conns[i] # s
        BY DEF HubInv
    <2>3. loop' \in [Sock -> {"none", "receiving", "handling", "ending", "ended"}]
        BY <2>1 DEF HubInv
    <2>4. \A i \in Session \ {sid[s]} :
                conns[i] # NoSock => loop'[conns[i]] = loop[conns[i]]
        BY <2>1, <2>2 DEF HubInv
    <2> QED
        BY <2>1, <2>3, <2>4, DisconnectKeeps
<1>7. ASSUME NEW s \in Sock, PongTimeout(s) PROVE HubInv'
    BY <1>7, DisconnectKeeps DEF PongTimeout, HubInv
<1>8. ASSUME NEW s \in Sock, BeatEnds(s) PROVE HubInv'
    <2>1. CASE Disconnect({sid[s]})
        BY <1>8, <2>1, DisconnectKeeps DEF BeatEnds, HubInv
    <2>2. CASE UNCHANGED <<conns, hsubs, peer>>
        BY <1>8, <2>2 DEF BeatEnds, HubInv
    <2> QED
        BY <1>8, <2>1, <2>2 DEF BeatEnds
<1>9. CASE CastStart
    BY <1>9 DEF CastStart, HubInv
<1>10. ASSUME NEW x, CastSend(x) PROVE HubInv'
    BY <1>10 DEF CastSend, HubInv
<1>11. CASE CastEnd
    BY <1>11, DisconnectKeeps DEF CastEnd, HubInv
<1> QED
    BY <1>1, <1>2, <1>3, <1>4, <1>5, <1>6, <1>7, <1>8, <1>9, <1>10, <1>11
       DEF HubNext, HubStep

-----------------------------------------------------------------------------
(* Subscribers: webhooks. *)

HookRow == [live : BOOLEAN, enabled : BOOLEAN, fails : 0..FailLimit]
RunRow == [phase : {"idle", "posting", "pausing", "done", "aborted"},
           left : SUBSET Sub, attempt : Nat]

(* A run that has not started has reached nobody; counts stop at the limit. *)
HooksInv ==
    /\ hook \in [Sub -> HookRow]
    /\ run \in [Run -> RunRow]
    /\ made \in 0..NumSubs
    /\ \A r \in Run, x \in Sub : <<r, x>> \in reached => run[r].phase # "idle"
    /\ LimitDisables /\ AnsweredOnce

LEMMA HooksInit_Inv == HooksInit => HooksInv
BY WebhooksAssumption
   DEF HooksInit, HooksInv, HookRow, RunRow, LimitDisables, AnsweredOnce, Idle

(* Both columns of a row are written, in either order.                       *)
LEMMA RowUpdate ==
    ASSUME HooksInv, NEW x, NEW e, NEW f,
           x \in Sub => e \in BOOLEAN /\ f \in 0..FailLimit /\ (e = TRUE => f < FailLimit),
           \/ hook' = [hook EXCEPT ![x].enabled = e, ![x].fails = f]
           \/ hook' = [hook EXCEPT ![x].fails = f, ![x].enabled = e]
    PROVE  hook' \in [Sub -> HookRow] /\ LimitDisables'
<1>1. CASE x \notin Sub
    BY <1>1 DEF HooksInv, LimitDisables
<1>2. CASE x \in Sub
    <2> DEFINE v == [live |-> hook[x].live, enabled |-> e, fails |-> f]
    <2>1. hook[x] \in HookRow
        BY <1>2 DEF HooksInv
    <2>2. v \in HookRow /\ v.enabled = e /\ v.fails = f
        BY <1>2, <2>1 DEF HookRow
    <2>3. hook' = [hook EXCEPT ![x] = v]
        BY <1>2, <2>1 DEF HookRow, HooksInv
    <2> HIDE DEF v
    <2> QED
        BY <1>2, <2>2, <2>3 DEF HooksInv, LimitDisables
<1> QED
    BY <1>1, <1>2

(* The routes write one row and no run. *)
LEMMA HooksRoutes ==
    ASSUME HooksInv, CreateSub \/ \E x \in Sub : DeleteSub(x) \/ EnableSub(x) \/ DisableSub(x)
    PROVE  HooksInv'
<1> USE WebhooksAssumption DEF HooksInv, LimitDisables, AnsweredOnce
<1>1. CASE CreateSub
    <2>1. made' \in Sub /\ made' \in 0..NumSubs
        BY <1>1 DEF CreateSub, Sub
    <2> QED
        BY <1>1, <2>1 DEF CreateSub, HookRow
<1>2. ASSUME NEW x \in Sub, DeleteSub(x) PROVE HooksInv'
    BY <1>2 DEF DeleteSub, HookRow
<1>3. ASSUME NEW x \in Sub, EnableSub(x) PROVE HooksInv'
    <2>1. hook' = [hook EXCEPT ![x].enabled = TRUE, ![x].fails = 0]
        BY <1>3 DEF EnableSub
    <2>2. hook' \in [Sub -> HookRow] /\ LimitDisables'
        <3>1. 0 \in 0..FailLimit /\ 0 < FailLimit
            BY WebhooksAssumption
        <3> QED
            BY <2>1, <3>1, RowUpdate
    <2> QED
        BY <1>3, <2>2 DEF EnableSub
<1>4. ASSUME NEW x \in Sub, DisableSub(x) PROVE HooksInv'
    BY <1>4 DEF DisableSub, HookRow
<1> QED
    BY <1>1, <1>2, <1>3, <1>4

(* A run writes its own position; an answer leaves left with its subscriber. *)
LEMMA HooksRuns ==
    ASSUME HooksInv, NEW r \in Run, Deliver(r) \/ HookStep(r)
    PROVE  HooksInv'
<1> DEFINE s == Least(run[r].left)
           on == [run[r] EXCEPT !.left = run[r].left \ {s}, !.attempt = 1,
                                !.phase = IF run[r].left \ {s} = {} THEN "done" ELSE "posting"]
<1> USE WebhooksAssumption DEF HooksInv, LimitDisables, AnsweredOnce
<1>1. CASE Deliver(r)
    BY <1>1 DEF Deliver, RunRow
<1>2. CASE Abort(r)
    <2>1. reached' \subseteq reached \cup {<<r, s>>}
        BY <1>2 DEF Abort
    <2>2. run' = [run EXCEPT ![r] = [run[r] EXCEPT !.phase = "aborted"]]
        BY <1>2 DEF Abort, RunRow
    <2> QED
        BY <1>2, <2>1, <2>2 DEF Abort, RunRow
<1>3. on.left = run[r].left \ {s} /\ on.phase \in {"posting", "done"}
      /\ on \in RunRow
    BY DEF RunRow
<1>4. Onward(r) = [run EXCEPT ![r] = on]
    BY DEF Onward
<1> HIDE DEF on, s
<1>a. ASSUME run' = [run EXCEPT ![r] = on], made' = made,
             reached' \subseteq reached \cup {<<r, s>>},
             hook' \in [Sub -> HookRow], LimitDisables', run[r].phase = "posting"
      PROVE  HooksInv'
    <2>1. run'[r] = on /\ run' \in [Run -> RunRow]
          /\ \A q \in Run : q # r => run'[q] = run[q]
        BY <1>3, <1>a
    <2>2. \A q \in Run, x \in Sub : <<q, x>> \in reached' => <<q, x>> \in reached \/ (q = r /\ x = s)
        BY <1>a
    <2>3. \A q \in Run, x \in Sub : <<q, x>> \in reached' => run'[q].phase # "idle"
        BY <1>3, <2>1, <2>2
    <2>4. AnsweredOnce'
        BY <1>3, <1>a, <2>1, <2>2
    <2> QED
        BY <1>a, <2>1, <2>3, <2>4
<1>5. CASE Succeed(r)
    <2>1. /\ run' = [run EXCEPT ![r] = on] /\ reached' = reached \cup {<<r, s>>}
          /\ run[r].phase = "posting"
          /\ hook' = [hook EXCEPT ![s].fails = 0] /\ made' = made
        BY <1>4, <1>5 DEF Succeed, s
    <2>2. hook' \in [Sub -> HookRow] /\ LimitDisables'
        <3>1. CASE s \notin Sub
            BY <2>1, <3>1
        <3>2. CASE s \in Sub
            <4>1. /\ hook[s] \in HookRow /\ hook'[s] = [hook[s] EXCEPT !.fails = 0]
                  /\ \A y \in Sub : y # s => hook'[y] = hook[y]
                BY <2>1, <3>2
            <4>2. hook'[s] \in HookRow /\ hook'[s].fails = 0
                BY <4>1 DEF HookRow
            <4> QED
                BY <2>1, <3>2, <4>1, <4>2
        <3> QED
            BY <3>1, <3>2
    <2> QED
        BY <2>1, <2>2, <1>a
<1>6. CASE FailAttempt(r)
    BY <1>6 DEF FailAttempt, RunRow
<1>7. CASE GiveUp(r)
    <2> DEFINE e == IF hook[s].fails + 1 >= FailLimit THEN FALSE ELSE hook[s].enabled
               f == IF hook[s].fails < FailLimit THEN hook[s].fails + 1 ELSE hook[s].fails
    <2>1. /\ run' = [run EXCEPT ![r] = on] /\ reached' = reached /\ made' = made
          /\ run[r].phase = "posting"
        BY <1>4, <1>7 DEF GiveUp
    <2>2. hook' = [hook EXCEPT ![s].fails = f, ![s].enabled = e]
        BY <1>7 DEF GiveUp, s
    <2>3. s \in Sub => e \in BOOLEAN /\ f \in 0..FailLimit /\ (e = TRUE => f < FailLimit)
        <3>1. s \in Sub => hook[s].enabled \in BOOLEAN /\ hook[s].fails \in 0..FailLimit
            BY DEF HookRow
        <3>2. s \in Sub => e \in BOOLEAN
            BY <3>1
        <3>3. s \in Sub => f \in 0..FailLimit
            BY <3>1
        <3>4. s \in Sub /\ e = TRUE => f < FailLimit
            BY <3>1
        <3> QED
            BY <3>2, <3>3, <3>4
    <2>4. hook' \in [Sub -> HookRow] /\ LimitDisables'
        BY <2>2, <2>3, RowUpdate
    <2> QED
        BY <2>1, <2>4, <1>a
<1>8. CASE Resume(r)
    BY <1>8 DEF Resume, RunRow
<1> QED
    BY <1>1, <1>2, <1>5, <1>6, <1>7, <1>8 DEF HookStep

LEMMA HooksStep == HooksInv /\ [HooksNext]_hookVars => HooksInv'
<1>1. HooksInv /\ UNCHANGED hookVars => HooksInv'
    BY DEF HooksInv, hookVars, LimitDisables, AnsweredOnce
<1> QED
    BY <1>1, HooksRoutes, HooksRuns DEF HooksNext

-----------------------------------------------------------------------------
(* Subscribers: event streams. *)

(* A queue holds the last events published, all of them newer than what the  *)
(* stream wrote and than its subscription; before the stream is read, only a *)
(* full queue has lost any.                                                  *)
Tracks(q, last, done, from, where) ==
    /\ Len(q) <= QueueSize
    /\ \A i \in 1..Len(q) : q[i] = last - Len(q) + i
    /\ done + Len(q) <= last /\ from + Len(q) <= last
    /\ where = "preparing" => Len(q) = last - from \/ Len(q) = QueueSize

StreamInv ==
    /\ published \in Nat
    /\ queues \in [Stream -> Seq(Nat)]
    /\ reader \in [Stream -> {"none", "preparing", "reading", "ending", "over", "cancelled"}]
    /\ since \in [Stream -> Nat] /\ seen \in [Stream -> Nat]
    /\ \A s \in Stream : since[s] <= published /\ seen[s] <= published
    /\ \A s \in Stream : reader[s] \in {"none", "over"} => ~Live(s)
    /\ \A s \in Stream : Live(s) => Tracks(queues[s], published, seen[s], since[s], reader[s])

LEMMA StreamInit_Inv == StreamsInit => StreamInv
BY DEF StreamsInit, StreamInv, Live, NoQueue

(* A queue that takes one more event holds the latest again. *)
LEMMA EnqueueTracks ==
    ASSUME NEW q \in Seq(Nat), NEW last \in Nat, NEW done \in Nat,
           NEW from \in Nat, NEW where, Tracks(q, last, done, from, where)
    PROVE  /\ Enqueue(q, last + 1) \in Seq(Nat)
           /\ Tracks(Enqueue(q, last + 1), last + 1, done, from, where)
<1>0. Len(q) \in Nat /\ QueueSize \in Nat \ {0} /\ Len(q) <= QueueSize
    BY EventStreamAssumption DEF Tracks
<1>1. CASE Len(q) < QueueSize
    <2> DEFINE p == Append(q, last + 1)
    <2>1. p \in Seq(Nat) /\ Len(p) = Len(q) + 1
        OBVIOUS
    <2>2. ASSUME NEW i \in 1..Len(p) PROVE p[i] = last + 1 - Len(p) + i
        <3>1. CASE i \in 1..Len(q)
            BY <1>0, <2>1, <3>1 DEF Tracks
        <3>2. CASE i = Len(q) + 1
            BY <1>0, <2>1, <3>2
        <3> QED
            BY <1>0, <2>1, <3>1, <3>2
    <2>3. Enqueue(q, last + 1) = p
        BY <1>1 DEF Enqueue
    <2> HIDE DEF p
    <2>4. Tracks(p, last + 1, done, from, where)
        BY <1>0, <1>1, <2>1, <2>2 DEF Tracks
    <2> QED
        BY <2>1, <2>3, <2>4
<1>2. CASE ~(Len(q) < QueueSize)
    <2> DEFINE r == Tail(q)
               p == Append(r, last + 1)
    <2>1. Len(q) = QueueSize /\ q # <<>>
        BY <1>0, <1>2
    <2>2. r \in Seq(Nat) /\ Len(r) = Len(q) - 1 /\ \A i \in 1..Len(r) : r[i] = q[i + 1]
        BY <2>1
    <2>3. \A i \in 1..Len(r) : r[i] = last + 1 - Len(q) + i
        BY <1>0, <2>1, <2>2 DEF Tracks
    <2>4. Enqueue(q, last + 1) = p
        BY <1>2 DEF Enqueue
    <2> HIDE DEF r
    <2>5. p \in Seq(Nat) /\ Len(p) = Len(q)
        BY <1>0, <2>1, <2>2
    <2>6. ASSUME NEW i \in 1..Len(p) PROVE p[i] = last + 1 - Len(p) + i
        <3>1. CASE i \in 1..Len(r)
            <4>1. p[i] = r[i]
                BY <2>2, <3>1
            <4> QED
                BY <2>3, <2>5, <3>1, <4>1
        <3>2. CASE i = Len(r) + 1
            <4>1. p[i] = last + 1
                BY <2>2, <3>2
            <4>2. i = Len(p)
                BY <1>0, <2>2, <2>5, <3>2
            <4> QED
                BY <1>0, <2>5, <4>1, <4>2
        <3> QED
            BY <1>0, <2>1, <2>2, <2>5, <3>1, <3>2
    <2> HIDE DEF p
    <2>7. Tracks(p, last + 1, done, from, where)
        BY <1>0, <2>1, <2>5, <2>6 DEF Tracks
    <2> QED
        BY <2>4, <2>5, <2>7
<1> QED
    BY <1>1, <1>2

(* The event that leaves a queue is newer than those written before and      *)
(* older than those that stay.                                               *)
LEMMA TailTracks ==
    ASSUME NEW q \in Seq(Nat), q # <<>>, NEW last \in Nat, NEW done \in Nat,
           NEW from \in Nat, Tracks(q, last, done, from, "reading")
    PROVE  /\ Tail(q) \in Seq(Nat) /\ Head(q) \in Nat /\ Head(q) <= last
           /\ Tracks(Tail(q), last, done, from, "reading")
           /\ Tracks(Tail(q), last, Head(q), from, "reading")
<1> DEFINE r == Tail(q)
<1>1. Len(q) \in Nat \ {0} /\ Head(q) = q[1] /\ Head(q) \in Nat
    OBVIOUS
<1>2. r \in Seq(Nat) /\ Len(r) = Len(q) - 1 /\ \A i \in 1..Len(r) : r[i] = q[i + 1]
    OBVIOUS
<1>3. Head(q) = last - Len(q) + 1
    BY <1>1 DEF Tracks
<1>4. \A i \in 1..Len(r) : r[i] = last - Len(r) + i
    BY <1>1, <1>2 DEF Tracks
<1> HIDE DEF r
<1>5. Tracks(r, last, done, from, "reading") /\ Tracks(r, last, Head(q), from, "reading")
    BY <1>1, <1>2, <1>3, <1>4, EventStreamAssumption DEF Tracks
<1> QED
    BY <1>1, <1>2, <1>3, <1>5 DEF r, Tracks

LEMMA StreamStep_Inv == StreamInv /\ [StreamsNext]_streamVars => StreamInv'
<1> SUFFICES ASSUME StreamInv, [StreamsNext]_streamVars PROVE StreamInv'
    OBVIOUS
<1> USE DEF StreamInv, Live
<1>1. CASE UNCHANGED streamVars
    BY <1>1 DEF streamVars
<1>2. CASE Publish
    <2>1. /\ published' = published + 1 /\ UNCHANGED <<reader, since, seen>>
          /\ queues' = [s \in Stream |-> IF Live(s) THEN Enqueue(queues[s], published + 1) ELSE NoQueue]
        BY <1>2 DEF Publish
    <2>2. \A s \in Stream : queues'[s] = IF Live(s) THEN Enqueue(queues[s], published + 1) ELSE NoQueue
        BY <2>1
    <2>3. \A s \in Stream : Live(s) =>
            /\ Enqueue(queues[s], published + 1) \in Seq(Nat)
            /\ Tracks(Enqueue(queues[s], published + 1), published + 1, seen[s], since[s], reader[s])
        BY EnqueueTracks
    <2>4. NoQueue \in Seq(Nat)
        BY DEF NoQueue
    <2>5. queues' \in [Stream -> Seq(Nat)]
        BY <2>1, <2>3, <2>4
    <2> QED
        BY <2>1, <2>2, <2>3, <2>5
<1>3. CASE CloseBus
    <2>1. queues' \in [Stream -> Seq(Nat)] /\ \A s \in Stream : queues'[s] = NoQueue
        BY <1>3 DEF CloseBus, NoQueue
    <2> QED
        BY <1>3, <2>1 DEF CloseBus
<1>4. ASSUME NEW s \in Stream, OpenStream(s) PROVE StreamInv'
    <2>1. Tracks(<<>>, published, seen[s], published, "preparing")
        BY EventStreamAssumption DEF Tracks
    <2> QED
        BY <1>4, <2>1 DEF OpenStream
<1>5. ASSUME NEW s \in Stream, WriteEvent(s) PROVE StreamInv'
    <2>1. Live(s) /\ reader[s] = "reading" /\ queues[s] # <<>>
        BY <1>5 DEF WriteEvent
    <2>2. Tracks(queues[s], published, seen[s], since[s], "reading")
        BY <2>1
    <2>3. /\ Tail(queues[s]) \in Seq(Nat)
          /\ Head(queues[s]) \in Nat /\ Head(queues[s]) <= published
          /\ Tracks(Tail(queues[s]), published, seen[s], since[s], "reading")
          /\ Tracks(Tail(queues[s]), published, Head(queues[s]), since[s], "reading")
        BY <2>1, <2>2, TailTracks
    <2>4. /\ queues' = [queues EXCEPT ![s] = Tail(queues[s])]
          /\ seen' \in {seen, [seen EXCEPT ![s] = Head(queues[s])]}
          /\ UNCHANGED <<published, reader, since>>
        BY <1>5 DEF WriteEvent
    <2> QED
        BY <2>1, <2>3, <2>4
<1>6. ASSUME NEW s \in Stream, Prepared(s) PROVE StreamInv'
    BY <1>6 DEF Prepared, Tracks
<1>7. ASSUME NEW s \in Stream, PrepareReset(s) \/ EndStream(s) PROVE StreamInv'
    <2>1. NoQueue \in Seq(Nat)
        BY DEF NoQueue
    <2> QED
        BY <1>7, <2>1 DEF PrepareReset, EndStream
<1>8. ASSUME NEW s \in Stream, ClientGone(s) \/ NoticeClosed(s) PROVE StreamInv'
    BY <1>8 DEF ClientGone, NoticeClosed, Tracks
<1>9. ASSUME NEW s \in Stream, PrepareCancelled(s) PROVE StreamInv'
    BY <1>9 DEF PrepareCancelled, Tracks
<1> QED
    BY <1>1, <1>2, <1>3, <1>4, <1>5, <1>6, <1>7, <1>8, <1>9 DEF StreamsNext, StreamStep

LEMMA StreamInvSound == StreamInv => LatestKept /\ WrittenInOrder /\ NoQueueLeft
<1> SUFFICES ASSUME StreamInv PROVE LatestKept /\ WrittenInOrder /\ NoQueueLeft
    OBVIOUS
<1>1. NoQueueLeft
    BY DEF StreamInv, NoQueueLeft
<1>2. ASSUME NEW s \in Stream, Live(s)
      PROVE  /\ Len(queues[s]) <= QueueSize
             /\ \A i \in DOMAIN queues[s] :
                    /\ queues[s][i] = published - Len(queues[s]) + i
                    /\ seen[s] < queues[s][i] /\ since[s] < queues[s][i]
             /\ published - since[s] <= QueueSize /\ reader[s] = "preparing"
                    => Len(queues[s]) = published - since[s]
    <2>1. Tracks(queues[s], published, seen[s], since[s], reader[s])
        BY <1>2 DEF StreamInv
    <2>2. /\ queues[s] \in Seq(Nat) /\ Len(queues[s]) \in Nat
          /\ DOMAIN queues[s] = 1..Len(queues[s])
          /\ published \in Nat /\ seen[s] \in Nat /\ since[s] \in Nat
        BY DEF StreamInv
    <2>3. ASSUME NEW i \in DOMAIN queues[s]
          PROVE  /\ queues[s][i] = published - Len(queues[s]) + i
                 /\ seen[s] < queues[s][i] /\ since[s] < queues[s][i]
        <3>1. queues[s][i] = published - Len(queues[s]) + i /\ i \in Nat \ {0}
            <4>1. \A j \in 1..Len(queues[s]) : queues[s][j] = published - Len(queues[s]) + j
                BY <2>1 DEF Tracks
            <4>2. i \in 1..Len(queues[s])
                BY <2>2
            <4>3. i \in Nat \ {0}
                BY <2>2, <4>2
            <4> QED
                BY <4>1, <4>2, <4>3
        <3> DEFINE n == Len(queues[s])
                   e == queues[s][i]
        <3>2. seen[s] + n <= published /\ since[s] + n <= published
            BY <2>1 DEF Tracks
        <3>3. n \in Nat /\ e = published - n + i
            BY <2>2, <3>1
        <3>a. i \in Nat /\ i >= 1
            BY <3>1
        <3> HIDE DEF n, e
        <3>4. seen[s] < e /\ since[s] < e
            BY <2>2, <3>a, <3>2, <3>3
        <3> QED
            BY <3>1, <3>4 DEF e
    <2>4. /\ Len(queues[s]) <= QueueSize
          /\ published - since[s] <= QueueSize /\ reader[s] = "preparing"
                => Len(queues[s]) = published - since[s]
        BY <2>1, <2>2, EventStreamAssumption DEF Tracks
    <2> QED
        BY <2>3, <2>4
<1> QED
    BY <1>1, <1>2 DEF LatestKept, WrittenInOrder

(* A step of the composition is a step of every part, or none.               *)
LEMMA EdgeStep ==
    [Next]_vars =>
        /\ [ClientNext]_clientVars /\ [RegistryNext]_registryVars
        /\ [HubNext]_hubVars
        /\ [HooksNext]_hookVars /\ [StreamsNext]_streamVars
BY DEF Next, vars, OnClient, OnCall, OnRegistry, OnHooks, OnStreams, OnHub

(* The registry and its peers agree on who is there, for any agents, tenants, *)
(* connections and sessions: an agent has one name per tenant (store.py), a   *)
(* client sends on its own connection only (client.py, _ws_connect_single)    *)
(* and an admin session has a live handler (ws_admin.py, AdminWSHub).         *)
THEOREM PeersAreKnown == Spec => []PeersKnown
<1> DEFINE Inv == RegistryInv /\ RegistryTypeOK /\ NamesUnambiguous /\ ClientInv /\ HubInv
<1>1. Init => Inv
    <2>1. RegistryInit => RegistryTypeOK
        BY RegistryAssumption DEF RegistryInit, RegistryTypeOK
    <2> QED
        BY <2>1, RegistryInit_Inv, ClientInit_Inv, HubInit_Inv DEF Init
<1>2. Inv /\ [Next]_vars => Inv'
    BY EdgeStep, RegistryStep_Inv, NamesStep, RegistryTypes, ClientStep, HubStep_Inv
<1>3. Inv => PeersKnown
    BY HubInvSound, ClientInvSound DEF PeersKnown
<1> QED
    BY <1>1, <1>2, <1>3, PTL DEF Spec

(* However slow the readers, however the endpoints answer and whoever edits   *)
(* the subscriptions meanwhile, for any queue size, number of attempts and    *)
(* failure limit, streams lose only their oldest events and webhooks are      *)
(* served once and disabled at the limit (events/event_bus.py, EventBus;      *)
(* webhook_plugin.py, WebhookDeliveryEngine).                                 *)
THEOREM SubscribersAreServed == Spec => []SubscribersServed
<1>1. Init => HooksInv /\ StreamInv
    BY HooksInit_Inv, StreamInit_Inv DEF Init
<1>2. HooksInv /\ StreamInv /\ [Next]_vars => (HooksInv /\ StreamInv)'
    BY EdgeStep, HooksStep, StreamStep_Inv
<1>3. HooksInv /\ StreamInv => SubscribersServed
    BY StreamInvSound DEF HooksInv, SubscribersServed
<1> QED
    BY <1>1, <1>2, <1>3, PTL DEF Spec
=============================================================================
