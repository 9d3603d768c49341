---------------------------- MODULE AgentClient ----------------------------
(* The agent's side of the WebSocket: A2AClient of client.py with its        *)
(* background reconnect loop, its cached OAuth token and close().  The loop  *)
(* runs to its next await in one step; close() runs in another task of the   *)
(* same event loop.                                                          *)
EXTENDS Naturals

CONSTANTS
    ReconnectMax,   \* WS_RECONNECT_MAX, in units of WS_RECONNECT_BASE
    MaxFaults       \* bound on key rotations and lost registrations

ASSUME ClientAssumption == ReconnectMax \in Nat \ {0} /\ MaxFaults \in Nat

VARIABLES
    phase,      \* the await at which the reconnect loop stands
    ws,         \* the socket of the current connection
    attached,   \* self._ws_connection refers to it
    delay,      \* the next backoff
    token,      \* self._token: "expiring" is inside the refresh margin, "bad" is
                \* one that the server no longer accepts
    known,      \* the registry has the agent's row
    closing,    \* where close() stands
    result,     \* the result of the task being handled
    faults

clientVars == <<phase, ws, attached, delay, token, known, closing, result, faults>>

Connected == {"greeting", "listening", "handling"}

-----------------------------------------------------------------------------
ClientInit ==
    /\ phase = "starting" /\ ws = "none" /\ attached = FALSE
    /\ delay = 1 /\ token = "none" /\ known = TRUE
    /\ closing = "no" /\ result = "none" /\ faults = 0

(* The except clauses of the loop sleep and double the delay.  The reset     *)
(* after _ws_connect_single is never reached: its finally block always       *)
(* raises.                                                                   *)
BackOff ==
    /\ phase' = "sleeping"
    /\ UNCHANGED delay

Wake ==
    /\ phase = "sleeping"
    /\ phase' = "starting"
    /\ delay' = IF 2 * delay <= ReconnectMax THEN 2 * delay ELSE ReconnectMax
    /\ UNCHANGED <<ws, attached, token, known, closing, result, faults>>

(* _async_ensure_token: a cached token is used until shortly before it ends. *)
Start ==
    /\ phase = "starting"
    /\ phase' = IF token \in {"good", "bad"} THEN "connecting" ELSE "token"
    /\ UNCHANGED <<ws, attached, delay, token, known, closing, result, faults>>

TokenGranted ==
    /\ phase = "token"
    /\ token' = "good"
    /\ phase' = "connecting"
    /\ UNCHANGED <<ws, attached, delay, known, closing, result, faults>>

TokenRefused ==
    /\ phase = "token"
    /\ BackOff
    /\ UNCHANGED <<ws, attached, token, known, closing, result, faults>>

(* ws_connect.  The server looks for the agent before it looks at the token. *)
Opened ==
    /\ phase = "connecting" /\ known /\ token # "bad"
    /\ phase' = "greeting"
    /\ ws' = "open" /\ attached' = TRUE
    /\ UNCHANGED <<delay, token, known, closing, result, faults>>

(* Mutant: a 404 is taken for an ordinary failure. *)
NotFoundIgnored ==
    /\ phase = "connecting" /\ ~known
    /\ BackOff
    /\ UNCHANGED <<ws, attached, token, known, closing, result, faults>>

NotFound ==
    /\ phase = "connecting" /\ ~known
    /\ phase' = "registering"
    /\ UNCHANGED <<ws, attached, delay, token, known, closing, result, faults>>

Unauthorized ==
    /\ phase = "connecting" /\ known /\ token = "bad"
    /\ token' = "none"
    /\ BackOff
    /\ UNCHANGED <<ws, attached, known, closing, result, faults>>

Unreachable ==
    /\ phase = "connecting"
    /\ BackOff
    /\ UNCHANGED <<ws, attached, token, known, closing, result, faults>>

(* async_register_agent, under the old id as a name; 409 finds the existing  *)
(* row.  The bearer token is fetched first if there is none.                 *)
Registered ==
    /\ phase = "registering" /\ token # "bad"
    /\ known' = TRUE
    /\ token' = "good"
    /\ delay' = 1
    /\ phase' = "starting"
    /\ UNCHANGED <<ws, attached, closing, result, faults>>

(* A 401 does not clear the token here, and nothing else does before it      *)
(* ages.                                                                     *)
RegistrationFails ==
    /\ phase = "registering"
    /\ BackOff
    /\ UNCHANGED <<ws, attached, token, known, closing, result, faults>>

(* async_heartbeat; a 401 drops the token, and the retry fetches a new one   *)
(* or fails.  Whatever happens is ignored.                                   *)
Greeted ==
    /\ phase = "greeting"
    /\ phase' = "listening"
    /\ \/ token' = token
       \/ token = "bad" /\ token' \in {"none", "good"}
       \/ token = "expiring" /\ token' = "good"
    /\ UNCHANGED <<ws, attached, delay, known, closing, result, faults>>

Receive ==
    /\ phase = "listening" /\ ws = "open"
    /\ phase' = "handling"
    /\ result' = "owed"
    /\ UNCHANGED <<ws, attached, delay, token, known, closing, faults>>

(* _send_ws_json drops the message if there is no connection. *)
ReportResult ==
    /\ phase = "handling" /\ result = "owed"
    /\ result' = IF attached /\ ws = "open" THEN "sent" ELSE "dropped"
    /\ UNCHANGED <<phase, ws, attached, delay, token, known, closing, faults>>

Handled ==
    /\ phase = "handling"
    /\ phase' = "listening"
    /\ result' = "none"
    /\ UNCHANGED <<ws, attached, delay, token, known, closing, faults>>

(* The listening loop ends, by a close message or a closed socket, and the   *)
(* finally block awaits ws.close() ...                                       *)
Leave ==
    /\ phase = "listening"
    /\ phase' = "leaving"
    /\ attached' = FALSE
    /\ UNCHANGED <<ws, delay, token, known, closing, result, faults>>

(* ... and raises ConnectionError. *)
Left ==
    /\ phase = "leaving"
    /\ ws' = "none"
    /\ BackOff
    /\ UNCHANGED <<attached, token, known, closing, result, faults>>

-----------------------------------------------------------------------------
(* Task.cancel() on the loop.  The finally block of _ws_connect_single       *)
(* turns a CancelledError of the listening loop or of the dispatch handler   *)
(* into a ConnectionError, which the reconnect loop takes for a lost         *)
(* connection; everywhere else the loop ends.                                *)
CancelLoop ==
    /\ attached' = FALSE
    /\ closing' = "waiting"
    /\ IF phase \in {"listening", "handling"}
         THEN BackOff
         ELSE phase' = "stopped" /\ UNCHANGED delay
    /\ ws' = "none"
    /\ result' = "none"

(* close() first closes the socket it finds, which ends a listening loop.    *)
Close ==
    /\ closing = "no"
    /\ IF attached /\ ws = "open"
         THEN /\ closing' = "socket"
              /\ phase' = IF phase = "listening" THEN "leaving" ELSE phase
              /\ attached' = (phase # "listening")
              /\ ws' = "closed"
              /\ UNCHANGED <<delay, result>>
         ELSE CancelLoop
    /\ UNCHANGED <<token, known, faults>>

SocketClosed ==
    /\ closing = "socket" /\ phase # "listening"
    /\ CancelLoop
    /\ UNCHANGED <<token, known, faults>>

CloseReturns ==
    /\ closing = "waiting" /\ phase = "stopped"
    /\ closing' = "returned"
    /\ UNCHANGED <<phase, ws, attached, delay, token, known, result, faults>>

-----------------------------------------------------------------------------
(* The world around: the socket breaks, the token ages, the server rotates   *)
(* its key or loses the agent's row.                                         *)
Break ==
    /\ ws = "open"
    /\ ws' = "closed"
    /\ UNCHANGED <<phase, attached, delay, token, known, closing, result, faults>>

TokenAges ==
    /\ token \in {"good", "bad"}
    /\ token' = "expiring"
    /\ UNCHANGED <<phase, ws, attached, delay, known, closing, result, faults>>

Rotate ==
    /\ token = "good" /\ faults < MaxFaults
    /\ token' = "bad"
    /\ faults' = faults + 1
    /\ UNCHANGED <<phase, ws, attached, delay, known, closing, result>>

Forgotten ==
    /\ known /\ faults < MaxFaults
    /\ known' = FALSE
    /\ faults' = faults + 1
    /\ UNCHANGED <<phase, ws, attached, delay, token, closing, result>>

LoopStep ==
    \/ Wake \/ Start \/ TokenGranted \/ TokenRefused
    \/ Opened \/ NotFound \/ Unauthorized \/ Unreachable
    \/ Registered \/ RegistrationFails
    \/ Greeted \/ Receive \/ ReportResult \/ Handled \/ Leave \/ Left

ClientNext ==
    \/ LoopStep
    \/ Close \/ SocketClosed \/ CloseReturns
    \/ Break \/ TokenAges \/ Rotate \/ Forgotten

-----------------------------------------------------------------------------
ClientTypeOK ==
    /\ phase \in Connected \cup {"starting", "token", "connecting", "registering",
                                 "leaving", "sleeping", "stopped"}
    /\ ws \in {"none", "open", "closed"}
    /\ attached \in BOOLEAN
    /\ delay \in 1..ReconnectMax
    /\ token \in {"none", "good", "bad", "expiring"}
    /\ known \in BOOLEAN
    /\ closing \in {"no", "socket", "waiting", "returned"}
    /\ result \in {"none", "owed", "sent", "dropped"}
    /\ faults \in 0..MaxFaults

(* self._ws_connection is set exactly while the loop uses that socket: no    *)
(* report goes to the socket of an earlier connection, and none is dropped   *)
(* while the loop is connected, whatever close() does meanwhile.             *)
AttachedWhileConnected == attached <=> phase \in Connected

(* A client that lost its connection, its token or its registration gets     *)
(* back, unless close() was called.                                          *)
Reconnects ==
    phase = "sleeping" ~> (phase \in {"listening", "handling"} \/ closing # "no")
=============================================================================
