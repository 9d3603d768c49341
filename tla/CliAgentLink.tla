---------------------------- MODULE CliAgentLink ----------------------------
(* examples/a2a_opencode_agent.py: how the agent stays known to the          *)
(* registry.  The heartbeat loop and the WebSocket loop each keep an agent   *)
(* id of their own, and each registers again, request by request, when it is *)
(* told that its id is unknown.  The search by name finds substrings, and so *)
(* perhaps another agent.                                                    *)
EXTENDS Naturals

CONSTANTS
    MaxIds,         \* bounds the ids the registry gives to this agent
    MaxDelay,       \* the longest delay between two connections, in doublings
    MaxRefusals     \* bounds the requests that fail

ASSUME LinkAssumption == {MaxIds, MaxDelay, MaxRefusals} \subseteq Nat

VARIABLES
    registered,     \* the id the registry has under the agent's name, or NoId
    other,          \* an agent is registered whose card contains the name
    nextId,         \* the last id it gave
    asking,         \* where each loop is in _register_with_registry
    known,          \* agent_id of each loop
    loop,           \* _ws_reconnect_loop: connect, register, open, sleep, stopped
    delay,          \* its delay, as a number of doublings
    refusals,       \* requests that failed
    stopping        \* amain cancelled the WebSocket loop

linkVars == <<registered, other, nextId, asking, known, loop, delay, refusals, stopping>>

Loops == {"heartbeat", "socket"}
NoId == 0
OtherId == MaxIds + 1       \* the id of that agent

(* The ids that the registry answers for.                                    *)
Present == ({registered} \ {NoId}) \cup (IF other THEN {OtherId} ELSE {})

(* amain registered the agent before it started the two loops.               *)
LinkInit ==
    /\ registered = 1 /\ nextId = 1 /\ other \in BOOLEAN
    /\ asking = [a \in Loops |-> "idle"] /\ known = [a \in Loops |-> 1]
    /\ loop = "connect" /\ delay = 0 /\ refusals = 0 /\ stopping = FALSE

(* The registry removes the agent: it was stale, or its tables were lost.    *)
RemoveAgent ==
    /\ registered # NoId /\ nextId < MaxIds
    /\ registered' = NoId
    /\ UNCHANGED <<other, nextId, asking, known, loop, delay, refusals, stopping>>

(* It removes the other agent.                                               *)
RemoveOther ==
    /\ other
    /\ other' = FALSE
    /\ UNCHANGED <<registered, nextId, asking, known, loop, delay, refusals, stopping>>

-----------------------------------------------------------------------------
(* _register_with_registry returns id to the loop that called it; without an *)
(* id, the loop keeps the one it has.                                        *)
Returned(a, id) ==
    /\ asking' = [asking EXCEPT ![a] = "idle"]
    /\ known' = [known EXCEPT ![a] = IF id = NoId THEN @ ELSE id]
    /\ loop' = IF a = "socket" THEN "connect" ELSE loop
    /\ delay' = IF a = "socket" /\ id # NoId THEN 0 ELSE delay

(* GET the agent that was known; the socket loop passes no id.               *)
AskAgent(a) ==
    /\ asking[a] = "get"
    /\ IF known[a] \in Present
       THEN Returned(a, known[a])
       ELSE asking' = [asking EXCEPT ![a] = "post"] /\ UNCHANGED <<known, loop, delay>>
    /\ UNCHANGED <<registered, other, nextId, refusals, stopping>>

(* POST the card: a new id, or a conflict with the name that is taken.       *)
PostCard(a) ==
    /\ asking[a] = "post"
    /\ IF registered = NoId
       THEN registered' = nextId + 1 /\ nextId' = nextId + 1 /\ Returned(a, nextId + 1)
       ELSE /\ asking' = [asking EXCEPT ![a] = "search"]
            /\ UNCHANGED <<registered, other, nextId, known, loop, delay>>
    /\ UNCHANGED <<other, refusals, stopping>>

(* After the conflict, the agent is searched by its name: agents[0], of all  *)
(* whose card contains it.                                                   *)
SearchName(a) ==
    /\ asking[a] = "search"
    /\ IF Present = {} THEN Returned(a, NoId)
       ELSE \E id \in Present : Returned(a, id)
    /\ UNCHANGED <<registered, other, nextId, refusals, stopping>>

(* A request fails: no id.                                                   *)
AskingFails(a) ==
    /\ asking[a] # "idle" /\ refusals < MaxRefusals
    /\ refusals' = refusals + 1
    /\ IF asking[a] = "get"
       THEN asking' = [asking EXCEPT ![a] = "post"] /\ UNCHANGED <<known, loop, delay>>
       ELSE Returned(a, NoId)
    /\ UNCHANGED <<registered, other, nextId, stopping>>

(* _heartbeat_loop: 404 makes it register again; any other answer, or none,  *)
(* lets it sleep until the next heartbeat.                                   *)
HeartbeatLoop ==
    /\ asking["heartbeat"] = "idle" /\ known["heartbeat"] \notin Present
    /\ asking' = [asking EXCEPT !["heartbeat"] = "get"]
    /\ UNCHANGED <<registered, other, nextId, known, loop, delay, refusals, stopping>>

-----------------------------------------------------------------------------
(* _ws_connect_single: the connection opens ...                              *)
ConnectOpens ==
    /\ loop = "connect" /\ known["socket"] \in Present
    /\ loop' = "open"
    /\ UNCHANGED <<registered, other, nextId, asking, known, delay, refusals, stopping>>

(* ... or the registry does not know the agent: WSNotFoundError.             *)
ConnectUnknown ==
    /\ loop = "connect" /\ known["socket"] \notin Present
    /\ loop' = "register"
    /\ asking' = [asking EXCEPT !["socket"] = "post"]
    /\ UNCHANGED <<registered, other, nextId, known, delay, refusals, stopping>>

(* The connection cannot be made.                                            *)
ConnectFails ==
    /\ loop = "connect" /\ refusals < MaxRefusals
    /\ loop' = "sleep" /\ refusals' = refusals + 1
    /\ UNCHANGED <<registered, other, nextId, asking, known, delay, stopping>>

(* The connection ends.  Its finally clause raises ConnectionError, however  *)
(* it ended, so the line after the call that resets the delay is not run.    *)
ConnectionEnds ==
    /\ loop = "open"
    /\ loop' = "sleep"
    /\ UNCHANGED <<registered, other, nextId, asking, known, delay, refusals, stopping>>

(* The sleep is over; the delay doubles.                                     *)
SleepEnds ==
    /\ loop = "sleep"
    /\ loop' = "connect" /\ delay' = IF delay < MaxDelay THEN delay + 1 ELSE delay
    /\ UNCHANGED <<registered, other, nextId, asking, known, refusals, stopping>>

(* amain's finally: ws_task.cancel().  The loop ends where it connects,      *)
(* registers or sleeps; out of an open connection, the cancellation comes as *)
(* the ConnectionError of the finally clause, and the loop goes on.          *)
StopAgent ==
    /\ ~stopping /\ loop # "stopped"
    /\ stopping' = TRUE
    /\ loop' = IF loop = "open" THEN "sleep" ELSE "stopped"
    /\ asking' = [asking EXCEPT !["socket"] = "idle"]
    /\ UNCHANGED <<registered, other, nextId, known, delay, refusals>>

SocketLoop == ConnectOpens \/ ConnectUnknown \/ SleepEnds
Asks(a) == AskAgent(a) \/ PostCard(a) \/ SearchName(a)

LinkNext ==
    \/ RemoveAgent \/ RemoveOther \/ HeartbeatLoop \/ SocketLoop
    \/ ConnectFails \/ ConnectionEnds \/ StopAgent
    \/ \E a \in Loops : Asks(a) \/ AskingFails(a)

-----------------------------------------------------------------------------
(* Loop a settles on the agent's own registration, or, when the search took  *)
(* another agent for it, on that one for as long as it is there.             *)
Settles(a) ==
    \/ <>[](registered # NoId /\ known[a] = registered)
    \/ <>[](other /\ known[a] = OtherId)

(* Whoever removed the agent and however often, its heartbeats go to an id   *)
(* that the registry has.                                                    *)
ComesBack == Settles("heartbeat")

(* So does the WebSocket loop, unless it stays connected under an id that    *)
(* was removed, or ends.                                                     *)
SocketFollows ==
    Settles("socket") \/ <>[](loop = "open") \/ <>(loop = "stopped")
=============================================================================
