----------------------------- MODULE WorkerPool -----------------------------
(* pool.SubprocessPoolManager for one assignee (assignees share nothing but  *)
(* the shutdown flag).  A start awaits the new process: start, dispatch and  *)
(* the watcher of a crashed worker may all be starting one.                  *)
EXTENDS Naturals, FiniteSets

CONSTANTS
    NumProcs,       \* bounds the worker processes started
    Send            \* calls of dispatch

ASSUME PoolAssumption == NumProcs \in Nat

VARIABLES
    proc,           \* [Proc -> "unborn", "alive", "exited" (0) or "crashed"]
    current,        \* _workers[assignee], or NoProc
    watched,        \* the process whose watcher _watch_tasks[assignee] is
    watcher,        \* [Proc -> where the coroutine _watch_worker is]
    sendPc,         \* [Send -> where the coroutine dispatch is]
    boot,           \* where start() is
    shut,           \* where shutdown() is
    reaped,         \* the worker shutdown() found in the map to wait for
    crossed,        \* shutdown() began while start() or a dispatch was starting
    overlap         \* a worker was mapped while another start was under way

stopVars == <<shut, reaped, crossed>>
poolVars == <<proc, current, watched, watcher, sendPc, boot, stopVars, overlap>>

Proc == 1..NumProcs
NoProc == 0
AliveProcs == {p \in Proc : proc[p] = "alive"}
Lives(p) == p # NoProc /\ proc[p] = "alive"

(* The coroutines that hold a start of their own, or are about to. *)
Starters == {<<"watcher", p>> : p \in {q \in Proc : watcher[q] \in {"backoff", "starting"}}}
            \cup {<<"dispatch", d>> : d \in {s \in Send : sendPc[s] = "starting"}}
            \cup (IF boot = "starting" THEN {<<"start", NoProc>>} ELSE {})

PoolInit ==
    /\ proc = [p \in Proc |-> "unborn"]
    /\ current = NoProc /\ watched = NoProc
    /\ watcher = [p \in Proc |-> "none"]
    /\ sendPc = [d \in Send |-> "idle"]
    /\ boot = "idle" /\ overlap = FALSE
    /\ shut = "no" /\ reaped = NoProc /\ crossed = FALSE

(* The end of _start_worker: the process is mapped and gets its watcher,     *)
(* whatever the map holds by now.                                            *)
Map(p) ==
    /\ proc[p] = "unborn" /\ \A q \in Proc : proc[q] = "unborn" => p <= q
    /\ proc' = [proc EXCEPT ![p] = "alive"]
    /\ current' = p /\ watched' = p
    /\ overlap' = (overlap \/ \E s, r \in Starters : s # r)

-----------------------------------------------------------------------------
(* start(), which the owner of the pool calls before it dispatches *)
Boot ==
    /\ boot = "idle" /\ shut = "no" /\ \A d \in Send : sendPc[d] = "idle"
    /\ boot' = "starting"
    /\ UNCHANGED <<proc, current, watched, watcher, sendPc, stopVars, overlap>>

Booted ==
    /\ boot = "starting"
    /\ boot' = "done"
    /\ \/ /\ \E p \in Proc : Map(p) /\ watcher' = [watcher EXCEPT ![p] = "watching"]
          /\ UNCHANGED <<sendPc, stopVars>>
       \/ UNCHANGED <<proc, current, watched, watcher, sendPc, stopVars, overlap>>

(* dispatch: refused while shutting down; a worker that is gone is started   *)
(* anew, one that lives is written to.                                       *)
Dispatch(d) ==
    /\ sendPc[d] = "idle"
    /\ sendPc' = [sendPc EXCEPT ![d] = IF shut # "no" THEN "over"
                                       ELSE IF Lives(current) THEN "written"
                                       ELSE "starting"]
    /\ UNCHANGED <<proc, current, watched, watcher, boot, stopVars, overlap>>

(* The start of a dispatch: the task is written to the worker it made.       *)
DispatchStarted(d) ==
    /\ sendPc[d] = "starting"
    /\ \/ /\ \E p \in Proc : Map(p) /\ watcher' = [watcher EXCEPT ![p] = "watching"]
          /\ sendPc' = [sendPc EXCEPT ![d] = "written"]
       \/ /\ sendPc' = [sendPc EXCEPT ![d] = "over"]
          /\ UNCHANGED <<proc, current, watched, watcher, overlap>>
    /\ UNCHANGED <<boot, stopVars>>

(* The drain ends, or the pipe is broken and dispatch raises.                *)
Drained(d) ==
    /\ sendPc[d] = "written"
    /\ sendPc' = [sendPc EXCEPT ![d] = "over"]
    /\ UNCHANGED <<proc, current, watched, watcher, boot, stopVars, overlap>>

-----------------------------------------------------------------------------
(* A worker ends by itself, or is killed by its watcher after a day.         *)
WorkerEnds(p) ==
    /\ proc[p] = "alive"
    /\ \E r \in {"exited", "crashed"} : proc' = [proc EXCEPT ![p] = r]
    /\ UNCHANGED <<current, watched, watcher, sendPc, boot, stopVars, overlap>>

(* Mutant: the watcher does not ask whether its process is still the one     *)
(* in the map.                                                               *)
NoticeEndUnasked(p) ==
    /\ watcher[p] = "watching" /\ proc[p] \in {"exited", "crashed"}
    /\ watcher' = [watcher EXCEPT ![p] =
          IF shut = "no" /\ proc[p] = "crashed" THEN "backoff" ELSE "done"]
    /\ current' = IF shut = "no" /\ proc[p] = "exited" /\ current = p
                  THEN NoProc ELSE current
    /\ UNCHANGED <<proc, watched, sendPc, boot, stopVars, overlap>>

(* _watch_worker after communicate(): a clean exit leaves the map, a crash   *)
(* of the current worker is followed by a pause and a restart.               *)
NoticeEnd(p) ==
    /\ watcher[p] = "watching" /\ proc[p] \in {"exited", "crashed"}
    /\ watcher' = [watcher EXCEPT ![p] =
          IF shut = "no" /\ proc[p] = "crashed" /\ current = p THEN "backoff" ELSE "done"]
    /\ current' = IF shut = "no" /\ proc[p] = "exited" /\ current = p
                  THEN NoProc ELSE current
    /\ UNCHANGED <<proc, watched, sendPc, boot, stopVars, overlap>>

(* The pause is over: neither the map nor the flag is looked at again.       *)
PauseEnds(p) ==
    /\ watcher[p] = "backoff"
    /\ watcher' = [watcher EXCEPT ![p] = "starting"]
    /\ UNCHANGED <<proc, current, watched, sendPc, boot, stopVars, overlap>>

Restarted(p) ==
    /\ watcher[p] = "starting"
    /\ \/ \E q \in Proc : Map(q) /\ watcher' = [watcher EXCEPT ![p] = "done", ![q] = "watching"]
       \/ /\ watcher' = [watcher EXCEPT ![p] = "failed"]
          /\ UNCHANGED <<proc, current, watched, overlap>>
    /\ UNCHANGED <<sendPc, boot, stopVars>>

-----------------------------------------------------------------------------
(* shutdown(): the flag, and a message to the worker that lives.             *)
ShutDown ==
    /\ shut = "no"
    /\ shut' = IF current = NoProc THEN "done" ELSE "asked"
    /\ crossed' = (boot = "starting" \/ \E d \in Send : sendPc[d] = "starting")
    /\ UNCHANGED <<proc, current, watched, watcher, sendPc, boot, reaped, overlap>>

(* The watcher that _watch_tasks knows is cancelled, wherever it is.         *)
CancelWatcher ==
    /\ shut = "asked"
    /\ shut' = "cancelled"
    /\ watcher' = IF watched = NoProc THEN watcher ELSE [watcher EXCEPT ![watched] = "done"]
    /\ UNCHANGED <<proc, current, watched, sendPc, boot, reaped, crossed, overlap>>

(* _watch_tasks is emptied and the map is copied, to be waited for.          *)
CopyMap ==
    /\ shut = "cancelled"
    /\ shut' = "reaping"
    /\ watched' = NoProc /\ reaped' = current
    /\ UNCHANGED <<proc, current, watcher, sendPc, boot, crossed, overlap>>

(* The worker of the copy is awaited, and killed if it does not leave; what  *)
(* the map holds by then is forgotten.                                       *)
Reap ==
    /\ shut = "reaping"
    /\ shut' = "done"
    /\ \E r \in {"exited", "crashed"} :
          proc' = IF Lives(reaped) THEN [proc EXCEPT ![reaped] = r] ELSE proc
    /\ current' = NoProc
    /\ UNCHANGED <<watched, watcher, sendPc, boot, reaped, crossed, overlap>>

PoolStep ==
    \/ Booted \/ CancelWatcher \/ CopyMap \/ Reap
    \/ \E p \in Proc : NoticeEnd(p) \/ PauseEnds(p) \/ Restarted(p)

PoolNext ==
    \/ Boot \/ ShutDown \/ PoolStep
    \/ \E d \in Send : Dispatch(d) \/ DispatchStarted(d) \/ Drained(d)
    \/ \E p \in Proc : WorkerEnds(p)

-----------------------------------------------------------------------------
(* "Each configured pool assignee gets one long-lived subprocess", as far as *)
(* it holds: a second one lives beside it only when starts have overlapped.  *)
OneUnlessOverlap == ~overlap => Cardinality(AliveProcs) <= 1

(* Without such an overlap no watcher starts a worker again once shutdown()  *)
(* has returned.  No worker lives then either, and none is on its way, if no *)
(* start was awaited when shutdown() was called: such a start does not look  *)
(* at the flag and its worker outlives the pool.                             *)
ShutdownStops ==
    shut = "done" /\ ~overlap =>
        /\ \A p \in Proc : watcher[p] \notin {"backoff", "starting"}
        /\ ~crossed => AliveProcs = {} /\ Starters = {}

(* "Workers are automatically restarted on crash": the worker is replaced,   *)
(* unless the start fails or the pool is shut down first.                    *)
CrashedIsReplaced ==
    \A p \in Proc : current = p /\ proc[p] = "crashed" ~>
        current # p \/ shut # "no" \/ watcher[p] = "failed"
=============================================================================
