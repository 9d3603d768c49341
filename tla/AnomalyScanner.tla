--------------------------- MODULE AnomalyScanner ---------------------------
(* orchestration.anomaly_scanner: the background loop that fails running     *)
(* tasks whose agent is gone, or that exceed their max_runtime.  Each task   *)
(* has an agent of its own; the other actors of the board are reduced to     *)
(* what they do to the columns the scanner reads.  Times are ages.           *)
EXTENDS Naturals, FiniteSets

CONSTANTS
    NumTasks,       \* tasks; the higher the number, the newer
    ScanLimit,      \* limit=500 of list_tasks, newest tasks first
    OrphanAge,      \* the 120 seconds of _detect_orphans
    MaxRuntime      \* max_runtime_seconds of task 1; the others have none

ASSUME ScanAssumption == {NumTasks, ScanLimit, OrphanAge, MaxRuntime} \subseteq Nat \ {0}

STask == 1..NumTasks
MaxAge == IF OrphanAge > MaxRuntime THEN OrphanAge ELSE MaxRuntime

VARIABLES
    tstatus,        \* status: [STask -> ready, running, blocked, failed, completed]
    beat,           \* age of last_heartbeat_at, capped; Never before a claim
    age,            \* age of created_at, capped
    ran,            \* age of the last claim, capped
    claimed,        \* the tasks whose present run began with a claim
    online,         \* the tasks whose agent has an open WebSocket
    blamed          \* tasks the scanner failed in the last cycle, and why

scanVars == <<tstatus, beat, age, ran, claimed, online, blamed>>

Never == MaxAge + 1

ScanInit ==
    /\ tstatus = [t \in STask |-> "ready"]
    /\ beat = [t \in STask |-> Never] /\ ran = [t \in STask |-> 0]
    /\ age = 0 /\ claimed = {} /\ online = {} /\ blamed = {}

(* list_tasks(status=running, limit=500): ORDER BY created_at DESC           *)
Listed(st) ==
    {t \in STask : st[t] = "running"
                   /\ Cardinality({u \in STask : u > t /\ st[u] = "running"}) < ScanLimit}

(* _detect_orphans *)
Orphans(st) == {t \in Listed(st) : t \notin online /\ beat[t] >= OrphanAge}

(* _detect_timeouts: the reference is the last heartbeat, and created_at     *)
(* when there was none.                                                      *)
Timeouts(st) ==
    {t \in Listed(st) :
        t = 1 /\ (IF beat[t] = Never THEN age ELSE beat[t]) >= MaxRuntime}

(* _scan_cycle: no await between the first read and the last write.  The     *)
(* timeouts are looked for after the orphans were failed.                    *)
ScanCycle ==
    LET orphans == Orphans(tstatus)
        failed(S, st) == [t \in STask |-> IF t \in S THEN "failed" ELSE st[t]]
        after == failed(orphans, tstatus)
        late == Timeouts(after)
    IN  /\ orphans \cup late # {}
        /\ tstatus' = failed(late, after)
        /\ blamed' = {<<t, "orphan">> : t \in orphans} \cup {<<t, "timeout">> : t \in late}
        /\ UNCHANGED <<beat, age, ran, claimed, online>>

-----------------------------------------------------------------------------
(* claim_task *)
ClaimForScan(t) ==
    /\ tstatus[t] = "ready"
    /\ tstatus' = [tstatus EXCEPT ![t] = "running"]
    /\ beat' = [beat EXCEPT ![t] = 0] /\ ran' = [ran EXCEPT ![t] = 0]
    /\ claimed' = claimed \cup {t} /\ blamed' = {}
    /\ UNCHANGED <<age, online>>

(* update_task_status(running), on a request or when the agent reconnects:   *)
(* no claim, and the heartbeat in the row stays.  A blocked run is resumed,  *)
(* a ready task starts a run that nobody claimed.                            *)
RunUnclaimed(t) ==
    /\ tstatus[t] \in {"ready", "blocked"}
    /\ tstatus' = [tstatus EXCEPT ![t] = "running"]
    /\ claimed' = IF tstatus[t] = "ready" THEN claimed \ {t} ELSE claimed
    /\ blamed' = {}
    /\ UNCHANGED <<beat, age, ran, online>>

(* The agent ends the task, blocks it, or gives it back; a failed one is     *)
(* retried.                                                                  *)
Shift(t, old, new) ==
    /\ <<old, new>> \in {<<"running", "blocked">>, <<"running", "completed">>,
                         <<"running", "failed">>, <<"ready", "blocked">>,
                         <<"blocked", "ready">>, <<"blocked", "failed">>,
                         <<"failed", "ready">>}
    /\ tstatus[t] = old
    /\ tstatus' = [tstatus EXCEPT ![t] = new]
    /\ blamed' = {}
    /\ UNCHANGED <<beat, age, ran, claimed, online>>

(* heartbeat, with the claim lock that the last claim left in the row.       *)
BeatTask(t) ==
    /\ tstatus[t] = "running" /\ beat[t] # Never
    /\ beat' = [beat EXCEPT ![t] = 0] /\ blamed' = {}
    /\ UNCHANGED <<tstatus, age, ran, claimed, online>>

(* The agent's socket opens or closes.                                       *)
Toggle(t) ==
    /\ online' = IF t \in online THEN online \ {t} ELSE online \cup {t}
    /\ blamed' = {}
    /\ UNCHANGED <<tstatus, beat, age, ran, claimed>>

(* A unit of time passes.                                                    *)
MinutePasses ==
    LET older(a) == IF a < MaxAge THEN a + 1 ELSE a IN
    /\ beat' = [t \in STask |-> older(beat[t])]
    /\ ran' = [t \in STask |-> older(ran[t])] /\ age' = older(age)
    /\ blamed' = {}
    /\ UNCHANGED <<tstatus, claimed, online>>

ScanNext ==
    \/ ScanCycle \/ MinutePasses
    \/ \E t \in STask :
        \/ ClaimForScan(t) \/ RunUnclaimed(t) \/ BeatTask(t) \/ Toggle(t)
        \/ \E old, new \in {"ready", "running", "blocked", "failed", "completed"} :
               Shift(t, old, new)

-----------------------------------------------------------------------------
(* The scanner fails a claimed run, resumed after a block or not, only when  *)
(* its claim is as old as the time it has: OrphanAge for an orphan,          *)
(* MaxRuntime for a late task.  (The time a run was blocked counts too, and  *)
(* a run that nobody claimed is measured from what an earlier one left.)     *)
ClaimedHasItsTime ==
    \A t \in claimed :
        /\ <<t, "orphan">> \in blamed => ran[t] >= OrphanAge
        /\ <<t, "timeout">> \in blamed => ran[t] >= MaxRuntime

(* A running task of an absent agent does not stay running in silence, as    *)
(* long as it is among the newest ScanLimit running tasks.                   *)
OrphansEnd ==
    \A t \in STask :
        ~<>[](tstatus[t] = "running" /\ t \notin online /\ t \in Listed(tstatus)
              /\ beat[t] # 0)
=============================================================================
