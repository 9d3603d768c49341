----------------------------- MODULE CoderAgent -----------------------------
(* examples/a2a_coder_agent.py: the agent that runs the hermes command line  *)
(* tool for tasks that come over HTTP, where they can be asked for and       *)
(* cancelled, or over the WebSocket, where they are reported.  A task id may *)
(* come over the WebSocket more than once.                                   *)
EXTENDS Naturals, FiniteSets

CONSTANTS
    HttpTask,       \* tasks sent to /tasks/send
    WsTask,         \* task ids that come in task messages
    MaxMessages     \* bounds the messages that name one id

ASSUME CoderAssumption ==
    /\ MaxMessages \in Nat
    /\ HttpTask \cap (WsTask \X (1..MaxMessages)) = {}

(* A message that names t is <<t, i>>: process_ws_task runs for each.        *)
Message == WsTask \X (1..MaxMessages)
JTask == HttpTask \cup Message

VARIABLES
    state,          \* A2ATask.state of the HTTP tasks
    at,             \* where the coroutine of each task or message is
    child,          \* its process: none, alive, dead
    active,         \* _active_procs
    reports         \* async_report_result calls for each task id

coderVars == <<state, at, child, active, reports>>

CoderInit ==
    /\ state = [t \in HttpTask |-> "unknown"]
    /\ at = [t \in JTask |-> "idle"]
    /\ child = [t \in JTask |-> "none"] /\ active = {}
    /\ reports = [t \in WsTask |-> 0]

Ended == {"completed", "failed", "canceled"}

-----------------------------------------------------------------------------
(* POST /tasks/send *)
SendTask(t) ==
    /\ state[t] = "unknown"
    /\ state' = [state EXCEPT ![t] = "submitted"]
    /\ at' = [at EXCEPT ![t] = "start"]
    /\ UNCHANGED <<child, active, reports>>

(* process_http_task sets working, whatever the state is by now.             *)
StartHttp(t) ==
    /\ at[t] = "start"
    /\ state' = [state EXCEPT ![t] = "working"]
    /\ at' = [at EXCEPT ![t] = "spawn"]
    /\ UNCHANGED <<child, active, reports>>

(* create_subprocess_exec returned.                                          *)
SpawnHttp(t) ==
    /\ at[t] = "spawn"
    /\ at' = [at EXCEPT ![t] = "wait"]
    /\ child' = [child EXCEPT ![t] = "alive"] /\ active' = active \cup {t}
    /\ UNCHANGED <<state, reports>>

(* The process ended, or was killed after HERMES_TIMEOUT: the state is       *)
(* written, whatever it is by now.                                           *)
EndHttp(t, new) ==
    /\ at[t] = "wait"
    /\ new \in {"completed", "failed"} /\ (child[t] = "dead" => new = "failed")
    /\ child' = [child EXCEPT ![t] = "dead"] /\ active' = active \ {t}
    /\ state' = [state EXCEPT ![t] = new]
    /\ at' = [at EXCEPT ![t] = "idle"]
    /\ UNCHANGED reports

(* create_subprocess_exec raised *)
SpawnHttpFails(t) ==
    /\ at[t] = "spawn"
    /\ state' = [state EXCEPT ![t] = "failed"]
    /\ at' = [at EXCEPT ![t] = "idle"]
    /\ UNCHANGED <<child, active, reports>>

(* Mutant: a task that ended can be cancelled. *)
CancelHttpEnded(t) ==
    /\ state[t] # "unknown"
    /\ active' = active \ {t}
    /\ child' = IF t \in active THEN [child EXCEPT ![t] = "dead"] ELSE child
    /\ state' = [state EXCEPT ![t] = "canceled"]
    /\ UNCHANGED <<at, reports>>

(* handle_cancel_task: the process, if there is one yet, is killed.  The     *)
(* coroutine is not told.                                                    *)
CancelHttp(t) ==
    /\ state[t] \notin Ended \cup {"unknown"}
    /\ active' = active \ {t}
    /\ child' = IF t \in active THEN [child EXCEPT ![t] = "dead"] ELSE child
    /\ state' = [state EXCEPT ![t] = "canceled"]
    /\ UNCHANGED <<at, reports>>

-----------------------------------------------------------------------------
(* The next task message for an id, while earlier ones may still run: a job  *)
(* is only acknowledged, the other modes run the tool.                       *)
TaskMessage(m, k) ==
    /\ at[m] = "idle"
    /\ m[2] > 1 => at[<<m[1], m[2] - 1>>] # "idle"
    /\ k \in {"sync_call", "job", "task"}
    /\ at' = [at EXCEPT ![m] = IF k = "job" THEN "report" ELSE "spawn"]
    /\ UNCHANGED <<state, child, active, reports>>

(* _execute_hermes_cli starts a process, or returns that it could not.       *)
SpawnWs(m) ==
    /\ at[m] = "spawn"
    /\ \/ at' = [at EXCEPT ![m] = "wait"] /\ child' = [child EXCEPT ![m] = "alive"]
       \/ at' = [at EXCEPT ![m] = "report"] /\ UNCHANGED child
    /\ UNCHANGED <<state, active, reports>>

(* _execute_hermes_cli returns after the process ended or was killed.        *)
EndWs(m) ==
    /\ at[m] = "wait"
    /\ child' = [child EXCEPT ![m] = "dead"]
    /\ at' = [at EXCEPT ![m] = "report"]
    /\ UNCHANGED <<state, active, reports>>

(* async_report_result *)
ReportWs(m) ==
    /\ at[m] = "report"
    /\ reports' = [reports EXCEPT ![m[1]] = @ + 1]
    /\ at' = [at EXCEPT ![m] = "over"]
    /\ UNCHANGED <<state, child, active>>

HttpStep(t) ==
    \/ StartHttp(t) \/ SpawnHttp(t) \/ SpawnHttpFails(t)
    \/ \E new \in Ended : EndHttp(t, new)

WsStep(m) == SpawnWs(m) \/ EndWs(m) \/ ReportWs(m)

CoderNext ==
    \/ \E t \in HttpTask : SendTask(t) \/ HttpStep(t) \/ CancelHttp(t)
    \/ \E m \in Message : WsStep(m) \/ \E k \in {"sync_call", "job", "task"} : TaskMessage(m, k)

-----------------------------------------------------------------------------
(* A process does not outlive its task: none is left when the coroutine is   *)
(* over, and a living one of an HTTP task can be killed by a cancel.         *)
NoProcessLeft ==
    /\ \A t \in JTask : at[t] \in {"idle", "over"} => child[t] # "alive"
    /\ \A t \in HttpTask : child[t] = "alive" => t \in active

(* An outcome is final: completed and failed at once, canceled as soon as    *)
(* the coroutine is over that may still overwrite it.                        *)
Final(t) ==
    \/ state[t] \in {"completed", "failed"}
    \/ state[t] = "canceled" /\ at[t] = "idle"
OutcomeStays == [][\A t \in HttpTask : Final(t) => state'[t] = state[t]]_state

(* The messages for t that have been dealt with.                             *)
OverFor(t) == {m \in {t} \X (1..MaxMessages) : at[m] = "over"}

(* However the runs of a redelivered id overlap and end, no message is left  *)
(* without its report and none has two: an id that came n times is run and   *)
(* reported n times, not once.                                               *)
EachMessageReported == \A t \in WsTask : reports[t] = Cardinality(OverFor(t))

(* A task sent over HTTP does not stay submitted or working.                 *)
HttpTaskEnds == \A t \in HttpTask : state[t] = "submitted" ~> state[t] \in Ended
=============================================================================
