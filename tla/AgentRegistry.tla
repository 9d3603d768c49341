--------------------------- MODULE AgentRegistry ---------------------------
(* The agents table of store.Store and the /v1/agents handlers of           *)
(* server.RegistryHandler: names and tenants, heartbeats, staleness and the *)
(* purge.  A handler has no await between its query and its update.         *)
EXTENDS Naturals

CONSTANTS
    AgentId,        \* uuids; each is handed out once
    Name,
    Tenant,         \* tenants other than ""
    StaleAge,       \* HEARTBEAT_TIMEOUT, in ticks
    PurgeAge        \* HEARTBEAT_PURGE, in ticks

ASSUME RegistryAssumption ==
    /\ StaleAge \in Nat /\ PurgeAge \in Nat /\ StaleAge < PurgeAge
    /\ "none" \notin Tenant \cup Name

VARIABLES
    row,            \* [AgentId -> a record, or NoRow]
    spare,          \* uuids not handed out yet
    age,            \* ticks since the last heartbeat
    onWs,           \* ids in _ws_connections
    gone            \* ids that DELETE removed

registryVars == <<row, spare, age, onWs, gone>>

NoTenant == "none"      \* the tenant "", of administrators and of old rows
Scope == Tenant \cup {NoTenant}
NoRow == [name |-> "none", tenant |-> NoTenant, disabled |-> FALSE]
Row == [name : Name, tenant : Scope, disabled : BOOLEAN]
Agents == {i \in AgentId : row[i] # NoRow}

(* The status that list_agents and get_agent compute. *)
Status(i) ==
    IF row[i].disabled THEN "disabled" ELSE IF age[i] <= StaleAge THEN "alive" ELSE "stale"

(* Rows that a query for tenant u returns: an administrator sees all, the    *)
(* others also see the rows without a tenant.                                *)
Visible(u) == {i \in Agents : u = NoTenant \/ row[i].tenant \in {u, NoTenant}}

(* Rows that an update for tenant u may touch. *)
Owned(u) == {i \in Agents : u = NoTenant \/ row[i].tenant = u}

-----------------------------------------------------------------------------
RegistryInit ==
    /\ row = [i \in AgentId |-> NoRow]
    /\ spare = AgentId
    /\ age = [i \in AgentId |-> 0]
    /\ onWs = {} /\ gone = {}

(* Mutant: the name is only looked for among the tenant's own rows. *)
RegisterAgentOwned(i, n, u) ==
    /\ i \in spare
    /\ \A j \in Owned(u) : row[j].name # n
    /\ row' = [row EXCEPT ![i] = [name |-> n, tenant |-> u, disabled |-> FALSE]]
    /\ age' = [age EXCEPT ![i] = 0]
    /\ spare' = spare \ {i}
    /\ UNCHANGED <<onWs, gone>>

(* POST /v1/agents: 409 if the name is taken among the visible rows.         *)
RegisterAgent(i, n, u) ==
    /\ i \in spare
    /\ \A j \in Visible(u) : row[j].name # n
    /\ row' = [row EXCEPT ![i] = [name |-> n, tenant |-> u, disabled |-> FALSE]]
    /\ age' = [age EXCEPT ![i] = 0]
    /\ spare' = spare \ {i}
    /\ UNCHANGED <<onWs, gone>>

(* POST heartbeat: 410 for a stale agent; the update needs the very tenant,  *)
(* so a row without tenant that the caller sees is not found.                *)
HeartbeatAgent(i, u) ==
    /\ i \in Visible(u) \cap Owned(u)
    /\ Status(i) # "stale"
    /\ age' = [age EXCEPT ![i] = 0]
    /\ UNCHANGED <<row, spare, onWs, gone>>

(* The WebSocket handshake counts as a heartbeat; later pings do not.        *)
ConnectAgent(i) ==
    /\ i \in Agents
    /\ onWs' = onWs \cup {i}
    /\ age' = [age EXCEPT ![i] = 0]
    /\ UNCHANGED <<row, spare, gone>>

DisconnectAgent(i) ==
    /\ i \in onWs
    /\ onWs' = onWs \ {i}
    /\ UNCHANGED <<row, spare, age, gone>>

ToggleAgent(i, u) ==
    /\ i \in Owned(u)
    /\ row' = [row EXCEPT ![i].disabled = ~@]
    /\ UNCHANGED <<spare, age, onWs, gone>>

(* DELETE closes the connection of any id before it looks for the row.       *)
UnregisterAgent(i, u) ==
    /\ onWs' = onWs \ {i}
    /\ row' = IF i \in Owned(u) THEN [row EXCEPT ![i] = NoRow] ELSE row
    /\ gone' = IF i \in Owned(u) THEN gone \cup {i} ELSE gone
    /\ UNCHANGED <<spare, age>>

Purgeable == {i \in Agents : age[i] > PurgeAge}

(* Mutant: stale agents are purged at once. *)
PurgeStaleAges ==
    /\ \E i \in Agents : age[i] > StaleAge
    /\ row' = [i \in AgentId |-> IF age[i] > StaleAge THEN NoRow ELSE row[i]]
    /\ UNCHANGED <<spare, age, onWs, gone>>

(* purge_stale, of the cleanup task. *)
PurgeStale ==
    /\ Purgeable # {}
    /\ row' = [i \in AgentId |-> IF i \in Purgeable THEN NoRow ELSE row[i]]
    /\ UNCHANGED <<spare, age, onWs, gone>>

(* Time passes; ages past the purge age are all alike.                       *)
RegistryTick ==
    /\ Agents # {}
    /\ age' = [i \in AgentId |->
                IF i \in Agents /\ age[i] <= PurgeAge THEN age[i] + 1 ELSE age[i]]
    /\ UNCHANGED <<row, spare, onWs, gone>>

RegistryNext ==
    \/ \E i \in AgentId, u \in Scope :
        \/ \E n \in Name : RegisterAgent(i, n, u)
        \/ HeartbeatAgent(i, u) \/ ToggleAgent(i, u) \/ UnregisterAgent(i, u)
    \/ \E i \in AgentId : ConnectAgent(i) \/ DisconnectAgent(i)
    \/ PurgeStale \/ RegistryTick

RegistrySpec == RegistryInit /\ [][RegistryNext]_registryVars

-----------------------------------------------------------------------------
RegistryTypeOK ==
    /\ row \in [AgentId -> Row \cup {NoRow}]
    /\ spare \subseteq AgentId
    /\ age \in [AgentId -> 0..(PurgeAge + 1)]
    /\ onWs \subseteq AgentId
    /\ gone \subseteq AgentId

(* No tenant ever sees two agents of one name, in whatever order tenants     *)
(* and administrators register: find-by-name is unambiguous.                 *)
NamesUnambiguous ==
    \A u \in Tenant : \A i, j \in Visible(u) : row[i].name = row[j].name => i = j

(* An agent is removed by a request or after a silence of PurgeAge; what is  *)
(* merely stale can come back, by a reconnect.                               *)
RemovedWithCause ==
    [][\A i \in AgentId :
        i \in Agents /\ row'[i] = NoRow => i \in gone' \/ age[i] > PurgeAge]_registryVars

(* Over HTTP a stale agent stays stale: only a new connection or an          *)
(* administrator's toggle changes what its status says.                      *)
StaleNeedsReconnect ==
    [][\A i \in AgentId :
        i \in Agents /\ age[i] > StaleAge /\ ~row[i].disabled /\ age'[i] = 0
        => i \in onWs']_registryVars

(* The row of an agent changes hands only as its owner was told it would.    *)
RegistryRemovals == RemovedWithCause /\ StaleNeedsReconnect

(* An agent that falls silent leaves the registry, connected or not.         *)
SilentLeaves ==
    \A i \in AgentId : age[i] > StaleAge ~> (i \notin Agents \/ age[i] = 0)
=============================================================================
