------------------------------ MODULE SyncCall ------------------------------
(* POST /v2/sync-call: an HTTP request that waits for an agent's answer over *)
(* the WebSocket, orchestration/sync_routes.py.  The handler and the         *)
(* agent's message loop share _pending_requests and the futures in it.       *)
EXTENDS Naturals

CONSTANT Call       \* request ids

VARIABLES
    step,       \* where handle_sync_call stands, per request
    pending,    \* keys of _pending_requests
    future,     \* the future of a request
    asked,      \* requests the agent knows of
    response,   \* what the HTTP caller got
    link        \* the agent's connection: "open" or "closed"

callVars == <<step, pending, future, asked, response, link>>

CallInit ==
    /\ step = [i \in Call |-> "none"]
    /\ pending = {}
    /\ future = [i \in Call |-> "none"]
    /\ asked = {}
    /\ response = [i \in Call |-> "none"]
    /\ link = "open"

Respond(i, r) ==
    /\ step' = [step EXCEPT ![i] = "done"]
    /\ response' = [response EXCEPT ![i] = r]

(* The body is parsed and the entry barrier passed, or the request ends.     *)
Refuse(i) ==
    /\ step[i] = "none"
    /\ Respond(i, "refused")
    /\ UNCHANGED <<pending, future, asked, link>>

(* Mutant: the future is registered once the message is out. *)
SubmitUnregistered(i) ==
    /\ step[i] = "none" /\ link = "open"
    /\ step' = [step EXCEPT ![i] = "sending"]
    /\ future' = [future EXCEPT ![i] = "pending"]
    /\ UNCHANGED <<pending, asked, response, link>>

(* The future is registered before the message is sent.                      *)
Submit(i) ==
    /\ step[i] = "none" /\ link = "open"
    /\ step' = [step EXCEPT ![i] = "sending"]
    /\ pending' = pending \cup {i}
    /\ future' = [future EXCEPT ![i] = "pending"]
    /\ UNCHANGED <<asked, response, link>>

(* The message arrives, even one whose sender was cut off meanwhile. *)
Reaches(i) ==
    /\ step[i] = "sending" \/ response[i] = "cut_off"
    /\ i \notin asked /\ link = "open"
    /\ asked' = asked \cup {i}
    /\ UNCHANGED <<step, pending, future, response, link>>

Sent(i) ==
    /\ step[i] = "sending" /\ i \in asked
    /\ step' = [step EXCEPT ![i] = "waiting"]
    /\ UNCHANGED <<pending, future, asked, response, link>>

SendRaises(i) ==
    /\ step[i] = "sending" /\ link # "open"
    /\ pending' = pending \ {i}
    /\ Respond(i, "dispatch_failed")
    /\ UNCHANGED <<future, asked, link>>

(* handle_ws_sync_response; an agent may answer late or twice.               *)
Answer(i) ==
    /\ i \in asked /\ link = "open"
    /\ pending' = pending \ {i}
    /\ future' = [future EXCEPT ![i] =
                    IF i \in pending /\ @ = "pending" THEN "answered" ELSE @]
    /\ UNCHANGED <<step, asked, response, link>>

(* The timer of asyncio.wait_for cancels the future; the handler runs later. *)
Elapse(i) ==
    /\ step[i] = "waiting" /\ future[i] = "pending"
    /\ future' = [future EXCEPT ![i] = "cancelled"]
    /\ UNCHANGED <<step, pending, asked, response, link>>

TimedOut(i) ==
    /\ step[i] = "waiting" /\ future[i] = "cancelled"
    /\ pending' = pending \ {i}
    /\ Respond(i, "timeout")
    /\ UNCHANGED <<future, asked, link>>

(* The contract check and the exit barriers may replace the answer.          *)
Verdict == {"answer", "invalid_output", "barred"}

Answered(i) ==
    /\ step[i] = "waiting" /\ future[i] = "answered"
    /\ \E r \in Verdict : Respond(i, r)
    /\ UNCHANGED <<pending, future, asked, link>>

(* timeout_middleware cancels the handler at one of its awaits.  The future  *)
(* is cancelled with it if the handler was waiting for it; nobody takes the  *)
(* entry out.                                                                *)
CutOff(i) ==
    /\ step[i] \in {"sending", "waiting"}
    /\ Respond(i, "cut_off")
    /\ future' = [future EXCEPT ![i] =
                    IF step[i] = "waiting" /\ @ = "pending" THEN "cancelled" ELSE @]
    /\ UNCHANGED <<pending, asked, link>>

LoseLink ==
    /\ link = "open"
    /\ link' = "closed"
    /\ UNCHANGED <<step, pending, future, asked, response>>

CallStep(i) ==
    \/ Sent(i) \/ SendRaises(i) \/ Elapse(i) \/ TimedOut(i) \/ Answered(i)
    \/ CutOff(i)

CallNext ==
    \/ \E i \in Call :
        CallStep(i) \/ Refuse(i) \/ Submit(i) \/ Reaches(i) \/ Answer(i)
    \/ LoseLink

CallSpec == CallInit /\ [][CallNext]_callVars

-----------------------------------------------------------------------------
CallTypeOK ==
    /\ step \in [Call -> {"none", "sending", "waiting", "done"}]
    /\ pending \subseteq Call
    /\ future \in [Call -> {"none", "pending", "answered", "cancelled"}]
    /\ asked \subseteq Call
    /\ response \in [Call -> Verdict \cup
                    {"none", "refused", "dispatch_failed", "timeout", "cut_off"}]
    /\ link \in {"open", "closed"}

(* An entry of _pending_requests outlives its request in one case: the       *)
(* request was cut off by the middleware and the agent has not answered.     *)
NoPendingLeak ==
    \A i \in pending :
        /\ step[i] \in {"sending", "waiting"} \/ response[i] = "cut_off"
        /\ future[i] # "answered"

(* An answer that was accepted is never reported to the caller as a timeout, *)
(* and an answer only goes unheard once its request is over or timed out:    *)
(* it finds its future, however early it comes.                              *)
AnswerNotLost ==
    \A i \in Call :
        /\ future[i] = "answered" => response[i] # "timeout"
        /\ step[i] \in {"sending", "waiting"} /\ future[i] = "pending" => i \in pending

(* What a caller of POST /v2/sync-call relies on, and what stays behind it.  *)
AnswersReachCallers == CallTypeOK /\ NoPendingLeak /\ AnswerNotLost
=============================================================================
