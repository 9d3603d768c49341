--------------------------- MODULE CronScheduler ---------------------------
(* Scheduled jobs: cron.CronTaskStore, cron.CronScheduler and the routes of  *)
(* cron_routes.  A tick has no await in it, so nothing comes between the     *)
(* steps of one firing but an exception or the end of the process.           *)
EXTENDS Naturals, FiniteSets

CONSTANTS
    Job,
    Slots,          \* the seconds an expression matches
    Fallback,       \* delay given to an expression that has no next match
    Horizon,        \* bounds the clock
    MaxCuts         \* bounds the firings that are cut short

ASSUME CronAssumption == /\ Slots \subseteq Nat /\ IsFiniteSet(Slots)
                         /\ Fallback \in Nat /\ Horizon \in Nat /\ MaxCuts \in Nat

VARIABLES
    job,            \* cron_tasks: [Job -> [kind, enabled, next, born]]
    cronClock,      \* time.time()
    lastTick,       \* the scheduler sleeps between two ticks
    made,           \* the tasks created: of which job and slot, when, and
                    \* whether the firing went through to its end
    cuts            \* firings cut short so far

cronVars == <<job, cronClock, lastTick, made, cuts>>

NoJob == [kind |-> "none", enabled |-> FALSE, next |-> 0, born |-> 0]
Jobs == {j \in Job : job[j].kind = "row"}

(* compute_next_run(expression, after): the first match past that second.    *)
HasNext(after) == \E s \in Slots : s > after
ComputeNextRun(after) ==
    CHOOSE s \in Slots : s > after /\ \A r \in Slots : r > after => s <= r

CronInit ==
    /\ job = [j \in Job |-> NoJob]
    /\ cronClock = 1 /\ lastTick = 0
    /\ made = {} /\ cuts = 0

(* create_cron_task: the current second counts as a match.  The fallback is  *)
(* for an expression whose matches are all in the past; one that never       *)
(* matched is refused by the route.                                          *)
FirstRun == IF HasNext(cronClock - 1) THEN ComputeNextRun(cronClock - 1)
            ELSE cronClock + Fallback

(* POST /v2/cron *)
CreateCronTask(j) ==
    /\ job[j].kind = "none"
    /\ job' = [job EXCEPT ![j] = [kind |-> "row", enabled |-> TRUE,
                                  next |-> FirstRun, born |-> cronClock]]
    /\ UNCHANGED <<cronClock, lastTick, made, cuts>>

(* DELETE /v2/cron/{id}: the executions go with the job; ids are not reused. *)
DeleteCronTask(j) ==
    /\ j \in Jobs
    /\ job' = [job EXCEPT ![j] = [NoJob EXCEPT !.kind = "deleted"]]
    /\ UNCHANGED <<cronClock, lastTick, made, cuts>>

(* PATCH /v2/cron/{id}: next_run is kept while a job is off.                 *)
SetEnabled(j, on) ==
    /\ j \in Jobs
    /\ job' = [job EXCEPT ![j].enabled = on]
    /\ UNCHANGED <<cronClock, lastTick, made, cuts>>

-----------------------------------------------------------------------------
(* _load_due_cron_tasks *)
Due == {j \in Jobs : job[j].enabled /\ job[j].next <= cronClock}

(* Mutant: the next run is looked up from the end of the scheduler's sleep. *)
AdvancedPastSleep(r) ==
    IF HasNext(cronClock + 1) THEN [r EXCEPT !.next = ComputeNextRun(cronClock + 1)]
    ELSE [r EXCEPT !.enabled = FALSE]

(* The end of _fire_cron_task: next_run, or the job is switched off.         *)
Advanced(r) ==
    IF HasNext(cronClock - 1) THEN [r EXCEPT !.next = ComputeNextRun(cronClock - 1)]
    ELSE [r EXCEPT !.enabled = FALSE]

(* _fire_cron_task: create_task, create_execution, update_execution_status   *)
(* and update_next_run commit one by one.                                    *)
FireCronTask(done, cut) ==
    /\ made' = made \cup {[job |-> j, slot |-> job[j].next, at |-> cronClock,
                           done |-> j \in done] : j \in done \cup cut}
    /\ job' = [j \in Job |-> IF j \in done THEN Advanced(job[j]) ELSE job[j]]

(* _tick: the due jobs are fired, each on its own; a firing may raise before *)
(* its task is created or after, and a crash ends the rest of the tick.      *)
Tick ==
    /\ lastTick < cronClock
    /\ lastTick' = cronClock
    /\ \E done \in SUBSET Due : \E cut \in SUBSET (Due \ done) :
          /\ cuts + Cardinality(Due \ done) <= MaxCuts
          /\ cuts' = cuts + Cardinality(Due \ done)
          /\ FireCronTask(done, cut)
    /\ UNCHANGED cronClock

SecondPasses ==
    /\ cronClock < Horizon
    /\ cronClock' = cronClock + 1
    /\ UNCHANGED <<job, lastTick, made, cuts>>

CronNext ==
    \/ \E j \in Job : \/ CreateCronTask(j) \/ DeleteCronTask(j)
                      \/ \E on \in BOOLEAN : SetEnabled(j, on)
    \/ Tick \/ SecondPasses

-----------------------------------------------------------------------------
(* After these firings next_run stays what it was: the firing was cut short, *)
(* or it fell on the very second of the slot, or the expression had run out  *)
(* of matches, so that the job was switched off and may be switched on.      *)
SlotStays(m) == ~m.done \/ m.at = m.slot \/ ~HasNext(m.at - 1)

(* Two tasks of one job for one slot come from such a firing.                *)
SlotFiredAgain ==
    \A m, n \in made : m # n /\ m.job = n.job /\ m.slot = n.slot =>
        SlotStays(m) \/ SlotStays(n)

(* No slot is passed over: when next_run has moved beyond a slot, a task was *)
(* created at that slot or after it.                                         *)
SlotsCovered ==
    \A j \in Jobs : \A s \in Slots : job[j].born <= s /\ s < job[j].next =>
        \E m \in made : m.job = j /\ m.at >= s

(* Every slot gets its task, and gets a second one only where the code says. *)
SlotsFire == SlotFiredAgain /\ SlotsCovered
=============================================================================
