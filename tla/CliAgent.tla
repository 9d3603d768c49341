------------------------------ MODULE CliAgent ------------------------------
(* examples/a2a_opencode_agent.py: the agent that runs a command line tool   *)
(* for each task it is sent.  A run is one call of process_ws_task, or of    *)
(* _process_http_task, a coroutine among others on one event loop; the maps  *)
(* of the module are keyed by the task id, and the server may send an id     *)
(* again.  Every await is a place where other coroutines go on.              *)
EXTENDS Naturals, FiniteSets

CONSTANTS
    CRun,           \* calls of process_ws_task and _process_http_task
    CTask           \* task ids

NoRun == "none"
NoTask == "no id"

ASSUME CliAssumption == NoRun \notin CRun /\ NoTask \notin CTask

VARIABLES
    link,           \* _ws_connection is open
    pc,             \* where each run is: [CRun -> step]
    id,             \* its task id
    http,           \* the runs that came over HTTP
    process,        \* its process: none, alive, dead
    set,            \* the runs whose cancel_event is set
    reporter,       \* its progress_task: none, asleep, ended
    cancelled,      \* the runs with a CancelledError on its way
    result,         \* what run_cli_task returned: none, ok, error
    told,           \* the last message that ends the task, as it was sent
    cancelEvents,   \* _cancel_events: [CTask -> CRun or NoRun]
    running,        \* _running_ws_tasks: [CTask -> CRun or NoRun]
    procs           \* _active_procs: [CTask -> CRun or NoRun]

cliVars == <<link, pc, id, http, process, set, reporter, cancelled, result, told,
             cancelEvents, running, procs>>
cliMaps == <<cancelEvents, running, procs>>

CliInit ==
    /\ link = FALSE
    /\ pc = [r \in CRun |-> "free"] /\ id = [r \in CRun |-> NoTask] /\ http = {}
    /\ process = [r \in CRun |-> "none"]
    /\ set = {} /\ reporter = [r \in CRun |-> "none"] /\ cancelled = {}
    /\ result = [r \in CRun |-> "none"] /\ told = [r \in CRun |-> "none"]
    /\ cancelEvents = [t \in CTask |-> NoRun]
    /\ running = [t \in CTask |-> NoRun]
    /\ procs = [t \in CTask |-> NoRun]

(* dict.pop(task_id, None) *)
Pop(map, t) == [map EXCEPT ![t] = NoRun]

(* The connection opens or breaks; see CliAgentLink.                         *)
LinkTurns ==
    /\ link' = ~link
    /\ UNCHANGED <<pc, id, http, process, set, reporter, cancelled, result, told, cliMaps>>

-----------------------------------------------------------------------------
(* A task message: create_task(process_ws_task(...)).                        *)
ReceiveTask(r, t) ==
    /\ link /\ pc[r] = "free"
    /\ pc' = [pc EXCEPT ![r] = "ack"] /\ id' = [id EXCEPT ![r] = t]
    /\ running' = [running EXCEPT ![t] = r]
    /\ UNCHANGED <<link, http, process, set, reporter, cancelled, result, told, cancelEvents, procs>>

(* POST /tasks/send: a task of its own id, run without reporter or report.   *)
HandleSendTask(r, t) ==
    /\ pc[r] = "free" /\ \A q \in CRun : id[q] # t
    /\ pc' = [pc EXCEPT ![r] = "spawn"] /\ id' = [id EXCEPT ![r] = t]
    /\ http' = http \cup {r}
    /\ UNCHANGED <<link, process, set, reporter, cancelled, result, told, cliMaps>>

Live(r, step) == pc[r] = step /\ r \notin cancelled

(* The task_ack was sent, or could not be: the run gets its event.           *)
Acked(r) ==
    /\ Live(r, "ack")
    /\ pc' = [pc EXCEPT ![r] = "begin"]
    /\ cancelEvents' = [cancelEvents EXCEPT ![id[r]] = r]
    /\ UNCHANGED <<link, id, http, process, set, reporter, cancelled, result, told, running, procs>>

(* The first task_progress was sent: the reporter starts.                    *)
ProgressSent(r) ==
    /\ Live(r, "begin")
    /\ pc' = [pc EXCEPT ![r] = "spawn"]
    /\ reporter' = [reporter EXCEPT ![r] = "asleep"]
    /\ UNCHANGED <<link, id, http, process, set, cancelled, result, told, cliMaps>>

(* create_subprocess_exec returned *)
Spawned(r) ==
    /\ Live(r, "spawn")
    /\ pc' = [pc EXCEPT ![r] = "cli"]
    /\ process' = [process EXCEPT ![r] = "alive"]
    /\ procs' = [procs EXCEPT ![id[r]] = r]
    /\ UNCHANGED <<link, id, http, set, reporter, cancelled, result, told, cancelEvents, running>>

(* create_subprocess_exec raised: the except clause of process_ws_task sets  *)
(* the event; _process_http_task has no such clause and just ends.           *)
SpawnFails(r) ==
    /\ Live(r, "spawn")
    /\ IF r \in http
       THEN pc' = [pc EXCEPT ![r] = "over"] /\ UNCHANGED <<set, result>>
       ELSE /\ pc' = [pc EXCEPT ![r] = "except"] /\ set' = set \cup {r}
            /\ result' = [result EXCEPT ![r] = "error"]
    /\ UNCHANGED <<link, id, http, process, reporter, cancelled, told, cliMaps>>

(* run_cli_task returns: the process ended, or was killed at the timeout.    *)
(* process_ws_task then sets the event and awaits the reporter.              *)
CliReturns(r, res) ==
    /\ Live(r, "cli")
    /\ process[r] = "dead" => res = "error"        \* it was killed by a cancel
    /\ process' = [process EXCEPT ![r] = "dead"]
    /\ procs' = Pop(procs, id[r])
    /\ result' = [result EXCEPT ![r] = res]
    /\ pc' = [pc EXCEPT ![r] = IF r \in http THEN "over" ELSE "settle"]
    /\ set' = IF r \in http THEN set ELSE set \cup {r}
    /\ UNCHANGED <<link, id, http, reporter, cancelled, told, cancelEvents, running>>

(* wait_for(progress_task, 5): the reporter ended in time ...                *)
Settled(r) ==
    /\ Live(r, "settle") /\ reporter[r] = "ended"
    /\ cancelEvents' = Pop(cancelEvents, id[r]) /\ running' = Pop(running, id[r])
    /\ pc' = [pc EXCEPT ![r] = "report"]
    /\ UNCHANGED <<link, id, http, process, set, reporter, cancelled, result, told, procs>>

(* ... or was still asleep after five of its fifteen seconds: wait_for       *)
(* cancels it and raises.                                                    *)
SettleTimesOut(r) ==
    /\ Live(r, "settle") /\ reporter[r] = "asleep"
    /\ reporter' = [reporter EXCEPT ![r] = "ended"]
    /\ pc' = [pc EXCEPT ![r] = "except"]
    /\ UNCHANGED <<link, id, http, process, set, cancelled, result, told, cliMaps>>

(* The except clause: it awaits the reporter, too, and if that raises, the   *)
(* rest of the clause is not run.                                            *)
Excepted(r) ==
    /\ Live(r, "except")
    /\ IF reporter[r] = "asleep"
       THEN /\ reporter' = [reporter EXCEPT ![r] = "ended"]
            /\ pc' = [pc EXCEPT ![r] = "over"]
            /\ UNCHANGED <<cancelEvents, running>>
       ELSE /\ cancelEvents' = Pop(cancelEvents, id[r]) /\ running' = Pop(running, id[r])
            /\ pc' = [pc EXCEPT ![r] = "raised"]
            /\ UNCHANGED reporter
    /\ UNCHANGED <<link, id, http, process, set, cancelled, result, told, procs>>

(* What the last message says: cancel_event.is_set() is looked at first.     *)
Verdict(r) == IF pc[r] = "raised" THEN "failed"
              ELSE IF r \in set THEN "canceled"
              ELSE IF result[r] = "ok" THEN "completed" ELSE "failed"

(* The message is sent, if there is a connection.                            *)
ReportTask(r) ==
    /\ Live(r, "report") \/ Live(r, "raised")
    /\ told' = IF link THEN [told EXCEPT ![r] = Verdict(r)] ELSE told
    /\ pc' = [pc EXCEPT ![r] = "over"]
    /\ UNCHANGED <<link, id, http, process, set, reporter, cancelled, result, cliMaps>>

(* _periodic_progress after its sleep: it ends when the event is set, or     *)
(* when its message could not be sent.                                       *)
ReporterWakes(r) ==
    /\ reporter[r] = "asleep" /\ (r \in set \/ ~link)
    /\ reporter' = [reporter EXCEPT ![r] = "ended"]
    /\ UNCHANGED <<link, pc, id, http, process, set, cancelled, result, told, cliMaps>>

-----------------------------------------------------------------------------
(* Mutant: the coroutine is cancelled, the process left to end by itself. *)
TaskCancelSpares(t) ==
    /\ link
    /\ set' = IF cancelEvents[t] = NoRun THEN set ELSE set \cup {cancelEvents[t]}
    /\ cancelled' = IF running[t] # NoRun /\ pc[running[t]] # "over"
                    THEN cancelled \cup {running[t]} ELSE cancelled
    /\ running' = Pop(running, t) /\ procs' = Pop(procs, t)
    /\ UNCHANGED <<link, pc, id, http, process, reporter, result, told, cancelEvents>>

(* A task_cancel message: event, coroutine and process, each if it is known. *)
TaskCancel(t) ==
    /\ link
    /\ set' = IF cancelEvents[t] = NoRun THEN set ELSE set \cup {cancelEvents[t]}
    /\ cancelled' = IF running[t] # NoRun /\ pc[running[t]] # "over"
                    THEN cancelled \cup {running[t]} ELSE cancelled
    /\ running' = Pop(running, t)
    /\ process' = IF procs[t] = NoRun THEN process ELSE [process EXCEPT ![procs[t]] = "dead"]
    /\ procs' = Pop(procs, t)
    /\ UNCHANGED <<link, pc, id, http, reporter, result, told, cancelEvents>>

(* The CancelledError arrives at the await the run is in.  run_cli_task      *)
(* kills its process; no clause of process_ws_task catches it, so nothing is *)
(* reported and the event stays in its map; in settle, it also cancels the   *)
(* reporter.                                                                 *)
CancelArrives(r) ==
    /\ r \in cancelled
    /\ cancelled' = cancelled \ {r}
    /\ process' = IF pc[r] = "cli" THEN [process EXCEPT ![r] = "dead"] ELSE process
    /\ procs' = IF pc[r] = "cli" THEN Pop(procs, id[r]) ELSE procs
    /\ reporter' = IF pc[r] \in {"settle", "except"} THEN [reporter EXCEPT ![r] = "ended"]
                   ELSE reporter
    /\ pc' = [pc EXCEPT ![r] = "over"]
    /\ UNCHANGED <<link, id, http, set, result, told, cancelEvents, running>>

CliStep(r) ==
    \/ Acked(r) \/ ProgressSent(r) \/ Spawned(r) \/ SpawnFails(r)
    \/ \E res \in {"ok", "error"} : CliReturns(r, res)
    \/ Settled(r) \/ SettleTimesOut(r) \/ Excepted(r) \/ ReportTask(r)
    \/ CancelArrives(r)

CliNext ==
    \/ LinkTurns
    \/ \E t \in CTask : TaskCancel(t)
    \/ \E r \in CRun : \/ CliStep(r) \/ ReporterWakes(r)
                       \/ \E t \in CTask : ReceiveTask(r, t) \/ HandleSendTask(r, t)

-----------------------------------------------------------------------------
Alone(r) == \A q \in CRun \ {r} : id[q] # id[r]

(* No process is out of reach: as long as a task id was not sent twice, a    *)
(* living process is in _active_procs, so that a task_cancel kills it.       *)
ProcessInReach == \A r \in CRun : process[r] = "alive" /\ Alone(r) => procs[id[r]] = r

(* A run that is over, reported or not, left no process behind.              *)
OverHasNoProcess == \A r \in CRun : pc[r] = "over" => process[r] # "alive"

(* The progress reports of a run that is over stop: its reporter ended, or   *)
(* will find the event set when it wakes.  (If an id was sent twice, a       *)
(* cancel may end one run and set the event of the other.)                   *)
ReporterTold ==
    \A r \in CRun : pc[r] = "over" /\ Alone(r) => reporter[r] # "asleep" \/ r \in set

(* Whatever becomes of a run, its process and its reporter are accounted for. *)
CliRunsAccounted == ProcessInReach /\ OverHasNoProcess /\ ReporterTold
=============================================================================
