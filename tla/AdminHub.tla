------------------------------ MODULE AdminHub ------------------------------
(* ws_admin.AdminWSHub: the sessions of the admin frontend, their heartbeat  *)
(* and the broadcast of task updates.  Several coroutines share the maps: a  *)
(* handler per connection, its heartbeat loop and the broadcasts.            *)
EXTENDS Naturals

CONSTANTS
    Sock,           \* connections
    Session         \* session ids: two connections may get the same one

VARIABLES
    conns,          \* _connections: [Session -> Sock, or NoSock]
    hsubs,          \* whether _subscriptions has the session
    sid,            \* [Sock -> its session id, or NoSock]
    peer,           \* [Sock -> "none", "present", "silent" or "closed"]
    loop,           \* [Sock -> where register is]
    beat,           \* [Sock -> where the heartbeat loop is]
    cast            \* a broadcast: sessions still to serve, and the stale ones

hubVars == <<conns, hsubs, sid, peer, loop, beat, cast>>

NoSock == "none"
NoCast == [on |-> FALSE, rest |-> {}, stale |-> {}]
Mapped == {i \in Session : conns[i] # NoSock}

HubInit ==
    /\ conns = [i \in Session |-> NoSock]
    /\ hsubs = [i \in Session |-> FALSE]
    /\ sid = [s \in Sock |-> NoSock]
    /\ peer = [s \in Sock |-> "none"]
    /\ loop = [s \in Sock |-> "none"]
    /\ beat = [s \in Sock |-> "none"]
    /\ cast = NoCast

(* register, after the upgrade: a session id in use is taken over.           *)
Join(s, i) ==
    /\ loop[s] = "none"
    /\ sid' = [sid EXCEPT ![s] = i]
    /\ conns' = [conns EXCEPT ![i] = s]
    /\ hsubs' = [hsubs EXCEPT ![i] = TRUE]
    /\ peer' = [peer EXCEPT ![s] = "present"]
    /\ loop' = [loop EXCEPT ![s] = "receiving"]
    /\ beat' = [beat EXCEPT ![s] = "sleeping"]
    /\ UNCHANGED cast

(* disconnect(session_id): whichever connection the session has now is       *)
(* forgotten and closed, and its heartbeat cancelled.                        *)
Disconnect(I) ==
    LET out == {conns[i] : i \in I \cap Mapped} IN
    /\ conns' = [i \in Session |-> IF i \in I THEN NoSock ELSE conns[i]]
    /\ hsubs' = [i \in Session |-> IF i \in I \cap Mapped THEN FALSE ELSE hsubs[i]]
    /\ peer' = [s \in Sock |-> IF s \in out THEN "closed" ELSE peer[s]]
    /\ beat' = [s \in Sock |-> IF s \in out THEN "none" ELSE beat[s]]

(* The client leaves, or its machine vanishes without a close. *)
PeerLeaves(s) ==
    /\ peer[s] \in {"present", "silent"}
    /\ \E p \in {"closed", "silent"} : peer' = [peer EXCEPT ![s] = p]
    /\ UNCHANGED <<conns, hsubs, sid, loop, beat, cast>>

(* A message arrives; the handler may await a send while it handles it.      *)
ReceiveMessage(s) ==
    /\ loop[s] = "receiving" /\ peer[s] = "present" /\ beat[s] # "waiting"
    /\ loop' = [loop EXCEPT ![s] = "handling"]
    /\ UNCHANGED <<conns, hsubs, sid, peer, beat, cast>>

(* subscribe looks for the session first; subscribe_all and                  *)
(* subscribe_progress write the entry of a session that may be gone.         *)
HandleMessage(s) ==
    /\ loop[s] = "handling"
    /\ loop' = [loop EXCEPT ![s] = IF beat[s] = "waiting" THEN "ending" ELSE "receiving"]
    /\ \E blind \in BOOLEAN : hsubs' = IF blind THEN [hsubs EXCEPT ![sid[s]] = TRUE] ELSE hsubs
    /\ UNCHANGED <<conns, sid, peer, beat, cast>>

(* The receive loop ends when the connection does. *)
LoopEnds(s) ==
    /\ loop[s] = "receiving" /\ peer[s] = "closed"
    /\ loop' = [loop EXCEPT ![s] = "ending"]
    /\ UNCHANGED <<conns, hsubs, sid, peer, beat, cast>>

(* The finally block of register. *)
HandlerDone(s) ==
    /\ loop[s] = "ending"
    /\ loop' = [loop EXCEPT ![s] = "ended"]
    /\ Disconnect({sid[s]})
    /\ UNCHANGED <<sid, cast>>

-----------------------------------------------------------------------------
(* The heartbeat loop sends a ping and starts _wait_for_pong, which receives  *)
(* from the same connection.  While register is receiving, that is refused   *)
(* (RuntimeError), the waiter is done at once and the ping counts as         *)
(* answered; otherwise the waiter holds the receive.                         *)
Beat(s) ==
    /\ beat[s] = "sleeping" /\ peer[s] # "closed"
    /\ beat' = [beat EXCEPT ![s] = IF loop[s] = "receiving" THEN "sleeping" ELSE "waiting"]
    /\ UNCHANGED <<conns, hsubs, sid, peer, loop, cast>>

Pong(s) ==
    /\ beat[s] = "waiting" /\ peer[s] = "present"
    /\ beat' = [beat EXCEPT ![s] = "sleeping"]
    /\ UNCHANGED <<conns, hsubs, sid, peer, loop, cast>>

(* No pong within PONG_TIMEOUT. *)
PongTimeout(s) ==
    /\ beat[s] = "waiting"
    /\ Disconnect({sid[s]})
    /\ UNCHANGED <<sid, loop, cast>>

(* The loop sees that the connection is closed, or sending fails. *)
BeatEnds(s) ==
    /\ beat[s] = "sleeping" /\ peer[s] = "closed"
    /\ \/ beat' = [beat EXCEPT ![s] = "none"] /\ UNCHANGED <<conns, hsubs, peer>>
       \/ Disconnect({sid[s]})
    /\ UNCHANGED <<sid, loop, cast>>

(* _broadcast: the sessions are read once; every send is an await.           *)
CastStart ==
    /\ ~cast.on /\ Mapped # {}
    /\ cast' = [on |-> TRUE, rest |-> {<<i, conns[i]>> : i \in Mapped}, stale |-> {}]
    /\ UNCHANGED <<conns, hsubs, sid, peer, loop, beat>>

CastSend(x) ==
    /\ cast.on /\ x \in cast.rest
    /\ cast' = [cast EXCEPT !.rest = @ \ {x},
                            !.stale = IF peer[x[2]] = "closed" THEN @ \cup {x[1]} ELSE @]
    /\ UNCHANGED <<conns, hsubs, sid, peer, loop, beat>>

(* Stale sessions are disconnected by id once all were served.               *)
CastEnd ==
    /\ cast.on /\ cast.rest = {}
    /\ cast' = NoCast
    /\ Disconnect(cast.stale)
    /\ UNCHANGED <<sid, loop>>

HubStep(s) ==
    \/ HandleMessage(s) \/ LoopEnds(s) \/ HandlerDone(s) \/ Beat(s) \/ BeatEnds(s)

HubNext ==
    \/ \E s \in Sock : \/ (\E i \in Session : Join(s, i)) \/ PeerLeaves(s) \/ ReceiveMessage(s) \/ HubStep(s)
                       \/ Pong(s) \/ PongTimeout(s)
    \/ CastStart \/ CastEnd
    \/ \E x \in cast.rest : CastSend(x)

-----------------------------------------------------------------------------
(* A session never points at a connection whose handler has returned, with   *)
(* ids taken over and broadcasts disconnecting by id.                        *)
NoGhostSession ==
    \A i \in Mapped : loop[conns[i]] \in {"receiving", "handling", "ending"} /\ hsubs[i]

(* A connection that was closed leaves the map.                              *)
ClosedLeaves ==
    \A s \in Sock : loop[s] = "receiving" /\ peer[s] = "closed" ~> s \notin {conns[i] : i \in Session}
=============================================================================
