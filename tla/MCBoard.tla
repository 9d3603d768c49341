------------------------------- MODULE MCBoard ------------------------------
(* What works beside the task board, side by side: in each behaviour one of *)
(* the parts runs, the one that subject names.                               *)
EXTENDS WorkerPool, Swarm, AnomalyScanner, CliAgentLink, CoderAgent

VARIABLE subject

vars == <<poolVars, swarmVars, scanVars, linkVars, coderVars, subject>>

Init ==
    /\ subject \in {"pool", "swarm", "scan", "link", "coder"}
    /\ PoolInit
    /\ SwarmInit
    /\ ScanInit
    /\ LinkInit
    /\ CoderInit
    /\ subject # "link" => ~other

OnPool(A) ==
    /\ subject = "pool" /\ A
    /\ UNCHANGED <<swarmVars, scanVars, linkVars, coderVars, subject>>
OnSwarm(A) ==
    /\ subject = "swarm" /\ A
    /\ UNCHANGED <<poolVars, scanVars, linkVars, coderVars, subject>>
OnScan(A) ==
    /\ subject = "scan" /\ A
    /\ UNCHANGED <<poolVars, swarmVars, linkVars, coderVars, subject>>
OnLink(A) ==
    /\ subject = "link" /\ A
    /\ UNCHANGED <<poolVars, swarmVars, scanVars, coderVars, subject>>
OnCoder(A) ==
    /\ subject = "coder" /\ A
    /\ UNCHANGED <<poolVars, swarmVars, scanVars, linkVars, subject>>

Next ==
    \/ OnPool(PoolNext)
    \/ OnSwarm(SwarmNext)
    \/ OnScan(ScanNext)
    \/ OnLink(LinkNext)
    \/ OnCoder(CoderNext)

(* The parts run as coroutines of one event loop, and their awaits end.      *)
Fairness ==
    /\ WF_vars(OnPool(Booted)) /\ \A p \in Proc : WF_vars(OnPool(NoticeEnd(p) \/ PauseEnds(p) \/ Restarted(p)))
    /\ \A t \in SwarmTask : WF_vars(OnSwarm(Progress(t)))
    /\ WF_vars(OnScan(ScanCycle)) /\ WF_vars(OnScan(MinutePasses))
    /\ WF_vars(OnLink(HeartbeatLoop)) /\ WF_vars(OnLink(SocketLoop))
    /\ \A a \in Loops : WF_vars(OnLink(Asks(a)))
    /\ \A t \in HttpTask : WF_vars(OnCoder(HttpStep(t)))

Spec == Init /\ [][Next]_vars /\ Fairness
-----------------------------------------------------------------------------
(* Work that was started is accounted for: one worker process unless two     *)
(* starts overlapped, none after a shutdown that no start crossed; no gate   *)
(* of a swarm opens early; a claimed run is given its time; an agent reports *)
(* every task message once and leaves no process behind.                     *)
BoardSound ==
    /\ OneUnlessOverlap /\ ShutdownStops
    /\ GatesHold /\ ClaimedHasItsTime
    /\ NoProcessLeft /\ EachMessageReported

(* What a step may never do: the tasks of a swarm move as TaskLifecycle      *)
(* says, and an outcome stays once nothing is under way that overwrites it.  *)
StepsKept == BoardKept /\ OutcomeStays

(* Whatever crashes, is refused or falls silent on the way, each part        *)
(* finishes: a crashed worker is replaced, a swarm is completed, an orphan   *)
(* run is ended, an agent gets back and its tasks end.                       *)
BoardProgress ==
    /\ CrashedIsReplaced /\ SwarmFinishes /\ OrphansEnd
    /\ ComesBack /\ SocketFollows /\ HttpTaskEnds
=============================================================================
