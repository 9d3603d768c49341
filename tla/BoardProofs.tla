---------------------------- MODULE BoardProofs ----------------------------
(* What is proved of the parts of MCBoard, for any tasks, worker processes,  *)
(* calls, sizes of a swarm and limits of the scanner.                        *)
EXTENDS MCBoard, FiniteSetTheorems, TLAPS

(* A step of the composition is a step of every part, or none.               *)
LEMMA PartStep ==
    [Next]_vars =>
        /\ [PoolNext]_poolVars /\ [SwarmNext]_swarmVars
        /\ [ScanNext]_scanVars /\ [CoderNext]_coderVars
BY DEF Next, vars, OnPool, OnSwarm, OnScan, OnLink, OnCoder

-----------------------------------------------------------------------------
(* The coder agent. *)

(* A process lives while its coroutine waits for it.  A task that was        *)
(* answered has no coroutine left to overwrite the answer.                   *)
CoderTypeOK ==
    /\ state \in [HttpTask -> {"unknown", "submitted", "working"} \cup Ended]
    /\ at \in [JTask -> {"idle", "start", "spawn", "wait", "report", "over"}]
    /\ child \in [JTask -> {"none", "alive", "dead"}]
    /\ reports \in [WsTask -> Nat]

HttpOK(t) ==
    /\ child[t] = "alive" => at[t] = "wait" /\ t \in active
    /\ state[t] \in {"unknown", "completed", "failed"} => at[t] = "idle"

MessageOK(m) == child[m] = "alive" => at[m] = "wait"

CoderInv ==
    /\ CoderTypeOK
    /\ \A t \in HttpTask : HttpOK(t)
    /\ \A m \in Message : MessageOK(m)
    /\ EachMessageReported

LEMMA CoderSets ==
    /\ HttpTask \cap Message = {} /\ JTask = HttpTask \cup Message
    /\ Message = WsTask \X (1..MaxMessages)
BY CoderAssumption DEF Message, JTask

(* A message that is over is counted once more for its id, and for no other. *)
LEMMA OverCounts ==
    ASSUME NEW t \in WsTask
    PROVE  /\ IsFiniteSet(OverFor(t)) /\ Cardinality(OverFor(t)) \in Nat
           /\ \A m \in Message : m \notin OverFor(t) =>
                 Cardinality(OverFor(t) \cup {m}) = Cardinality(OverFor(t)) + 1
<1>1. IsFiniteSet({t}) /\ IsFiniteSet(1..MaxMessages)
    <2>1. IsFiniteSet({t})
        BY FS_Singleton
    <2>2. MaxMessages \in Int /\ 1 \in Int
        BY CoderAssumption
    <2>3. IsFiniteSet(1..MaxMessages)
        BY <2>2, FS_Interval
    <2> QED
        BY <2>1, <2>3
<1>2. IsFiniteSet({t} \X (1..MaxMessages))
    BY <1>1, FS_Product
<1>3. IsFiniteSet(OverFor(t))
    BY <1>2, FS_Subset DEF OverFor
<1>4. \A m \in Message : m \notin OverFor(t) =>
            Cardinality(OverFor(t) \cup {m}) = Cardinality(OverFor(t)) + 1
    BY <1>3, FS_AddElement
<1> QED
    BY <1>3, <1>4, FS_CardinalityType

LEMMA CoderInit_Inv == CoderInit => CoderInv
<1> SUFFICES ASSUME CoderInit PROVE CoderInv
    OBVIOUS
<1>1. CoderTypeOK /\ \A t \in HttpTask : HttpOK(t)
    BY CoderSets DEF CoderInit, CoderTypeOK, HttpOK
<1>2. \A m \in Message : MessageOK(m) /\ at[m] # "over"
    BY CoderSets DEF CoderInit, MessageOK
<1>3. ASSUME NEW t \in WsTask PROVE reports[t] = Cardinality(OverFor(t))
    <2>1. OverFor(t) = {}
        BY <1>2 DEF OverFor, Message
    <2> QED
        BY <2>1, FS_EmptySet DEF CoderInit
<1> QED
    BY <1>1, <1>2, <1>3 DEF CoderInv, EachMessageReported

LEMMA CoderInvSound == CoderInv => NoProcessLeft /\ EachMessageReported
BY CoderSets DEF CoderInv, HttpOK, MessageOK, NoProcessLeft

LEMMA HttpStep_Inv ==
    ASSUME CoderInv, NEW t \in HttpTask, SendTask(t) \/ HttpStep(t) \/ CancelHttp(t)
    PROVE  CoderInv' /\ (Final(t) => state'[t] = state[t])
<1> USE CoderSets
<1>0. /\ CoderTypeOK /\ HttpOK(t) /\ t \in JTask
      /\ \A u \in HttpTask : HttpOK(u)
      /\ \A m \in Message : MessageOK(m) /\ m # t /\ m \in JTask
    BY DEF CoderInv
<1>1. /\ reports' = reports
      /\ \A u \in JTask : u # t => at'[u] = at[u] /\ child'[u] = child[u]
      /\ \A u \in HttpTask : u # t => state'[u] = state[u] /\ (u \in active <=> u \in active')
    BY <1>0 DEF SendTask, HttpStep, StartHttp, SpawnHttp, SpawnHttpFails, EndHttp, CancelHttp,
                CoderTypeOK
<1>2. CoderTypeOK'
    <2>1. CASE SendTask(t) \/ StartHttp(t) \/ SpawnHttp(t) \/ SpawnHttpFails(t)
        BY <1>0, <2>1 DEF SendTask, StartHttp, SpawnHttp, SpawnHttpFails, CoderTypeOK, Ended
    <2>2. CASE (\E new \in Ended : EndHttp(t, new)) \/ CancelHttp(t)
        BY <1>0, <2>2 DEF EndHttp, CancelHttp, CoderTypeOK, Ended
    <2> QED
        BY <2>1, <2>2 DEF HttpStep
<1>3. HttpOK(t)' /\ (Final(t) => state'[t] = state[t])
    <2>1. CASE SendTask(t) \/ StartHttp(t) \/ SpawnHttp(t) \/ SpawnHttpFails(t)
        BY <1>0, <2>1 DEF SendTask, StartHttp, SpawnHttp, SpawnHttpFails, CoderTypeOK, HttpOK, Final
    <2>2. CASE (\E new \in Ended : EndHttp(t, new)) \/ CancelHttp(t)
        BY <1>0, <2>2 DEF EndHttp, CancelHttp, CoderTypeOK, HttpOK, Ended, Final
    <2> QED
        BY <2>1, <2>2 DEF HttpStep
<1>4. \A u \in HttpTask : HttpOK(u)'
    BY <1>0, <1>1, <1>3 DEF HttpOK
<1>5. \A m \in Message : MessageOK(m)' /\ at'[m] = at[m]
    BY <1>0, <1>1 DEF MessageOK
<1>6. EachMessageReported'
    <2>1. \A u \in WsTask : OverFor(u)' = OverFor(u)
        BY <1>5 DEF OverFor
    <2> QED
        BY <1>1, <2>1 DEF CoderInv, EachMessageReported
<1> QED
    BY <1>2, <1>3, <1>4, <1>5, <1>6 DEF CoderInv

LEMMA MessageStep_Inv ==
    ASSUME CoderInv, NEW m \in Message,
           WsStep(m) \/ \E k \in {"sync_call", "job", "task"} : TaskMessage(m, k)
    PROVE  CoderInv' /\ state' = state
<1> USE CoderSets
<1>0. /\ CoderTypeOK /\ MessageOK(m) /\ m \in JTask
      /\ \A u \in Message : MessageOK(u) /\ u \in JTask
      /\ \A t \in HttpTask : HttpOK(t) /\ t # m /\ t \in JTask
    BY DEF CoderInv
<1>1. /\ state' = state /\ active' = active
      /\ \A u \in JTask : u # m => at'[u] = at[u] /\ child'[u] = child[u]
    BY <1>0 DEF WsStep, SpawnWs, EndWs, ReportWs, TaskMessage, CoderTypeOK
<1>2. CASE ReportWs(m)
    <2> DEFINE t == m[1]
    <2>1. /\ t \in WsTask /\ m \in {t} \X (1..MaxMessages) /\ \A u \in WsTask : m[1] = u => u = t
          /\ \A u \in WsTask : m \in {u} \X (1..MaxMessages) => u = t
        BY DEF Message
    <2>2. /\ at[m] = "report" /\ at' = [at EXCEPT ![m] = "over"]
          /\ reports' = [reports EXCEPT ![t] = reports[t] + 1] /\ child' = child
        BY <1>2, <2>1 DEF ReportWs, CoderTypeOK
    <2>3. CoderTypeOK' /\ MessageOK(m)' /\ child[m] # "alive"
        BY <1>0, <1>1, <2>1, <2>2 DEF CoderTypeOK, MessageOK
    <2>4. m \notin OverFor(t)
        BY <2>2 DEF OverFor
    <2> HIDE DEF t
    <2>5. ASSUME NEW u \in WsTask PROVE reports'[u] = Cardinality(OverFor(u)')
        <3>1. \A x \in {u} \X (1..MaxMessages) : x \in JTask /\ (x # m => at'[x] = at[x])
            BY <1>1 DEF Message
        <3>2. CASE u = t
            <4>1. OverFor(u)' = OverFor(u) \cup {m}
                BY <1>0, <2>1, <2>2, <3>1, <3>2 DEF OverFor, CoderTypeOK
            <4>2. reports[u] = Cardinality(OverFor(u)) /\ reports'[u] = reports[u] + 1
                BY <1>0, <2>2, <3>2 DEF CoderInv, EachMessageReported, CoderTypeOK
            <4> QED
                BY <2>4, <3>2, <4>1, <4>2, OverCounts
        <3>3. CASE u # t
            <4>1. OverFor(u)' = OverFor(u)
                BY <2>1, <3>1, <3>3 DEF OverFor
            <4>2. reports[u] = Cardinality(OverFor(u)) /\ reports'[u] = reports[u]
                BY <1>0, <2>2, <3>3 DEF CoderInv, EachMessageReported, CoderTypeOK
            <4> QED
                BY <4>1, <4>2
        <3> QED
            BY <3>2, <3>3
    <2>6. (\A u \in Message : MessageOK(u))' /\ (\A u \in HttpTask : HttpOK(u))'
        BY <1>0, <1>1, <2>3 DEF MessageOK, HttpOK
    <2> QED
        BY <1>1, <2>3, <2>5, <2>6 DEF CoderInv, EachMessageReported
<1>3. ASSUME SpawnWs(m) \/ EndWs(m) \/ \E k \in {"sync_call", "job", "task"} : TaskMessage(m, k)
      PROVE  CoderInv'
    <2>1. /\ CoderTypeOK' /\ MessageOK(m)' /\ reports' = reports
          /\ at[m] # "over" /\ at'[m] # "over"
        BY <1>0, <1>3 DEF SpawnWs, EndWs, TaskMessage, CoderTypeOK, MessageOK
    <2>2. ASSUME NEW u \in WsTask PROVE OverFor(u)' = OverFor(u)
        <3>1. \A x \in {u} \X (1..MaxMessages) : x \in JTask /\ (x # m => at'[x] = at[x])
            BY <1>1 DEF Message
        <3> QED
            BY <2>1, <3>1 DEF OverFor
    <2>3. EachMessageReported'
        BY <2>1, <2>2 DEF CoderInv, EachMessageReported
    <2>4. (\A u \in Message : MessageOK(u))' /\ (\A u \in HttpTask : HttpOK(u))'
        BY <1>0, <1>1, <2>1 DEF MessageOK, HttpOK
    <2> QED
        BY <2>1, <2>3, <2>4 DEF CoderInv
<1> QED
    BY <1>1, <1>2, <1>3 DEF WsStep

LEMMA CoderStep ==
    CoderInv /\ [CoderNext]_coderVars =>
        /\ CoderInv'
        /\ \A t \in HttpTask : Final(t) => state'[t] = state[t]
<1> SUFFICES ASSUME CoderInv, [CoderNext]_coderVars
             PROVE  /\ CoderInv'
                    /\ \A t \in HttpTask : Final(t) => state'[t] = state[t]
    OBVIOUS
<1>1. ASSUME NEW t \in HttpTask, SendTask(t) \/ HttpStep(t) \/ CancelHttp(t)
      PROVE  CoderInv' /\ \A u \in HttpTask : Final(u) => state'[u] = state[u]
    <2>1. \A u \in HttpTask : u # t => state'[u] = state[u]
        BY <1>1 DEF SendTask, HttpStep, StartHttp, SpawnHttp, SpawnHttpFails, EndHttp,
                    CancelHttp, CoderInv, CoderTypeOK
    <2> QED
        BY <1>1, <2>1, HttpStep_Inv
<1>2. ASSUME NEW m \in Message,
             WsStep(m) \/ \E k \in {"sync_call", "job", "task"} : TaskMessage(m, k)
      PROVE  CoderInv' /\ state' = state
    BY <1>2, MessageStep_Inv
<1>3. CASE UNCHANGED coderVars
    <2>1. UNCHANGED <<state, at, child, active, reports>>
        BY <1>3 DEF coderVars
    <2>2. \A u \in WsTask : OverFor(u)' = OverFor(u)
        BY <2>1 DEF OverFor
    <2> QED
        BY <2>1, <2>2 DEF CoderInv, CoderTypeOK, HttpOK, MessageOK, EachMessageReported
<1> QED
    BY <1>1, <1>2, <1>3 DEF CoderNext

-----------------------------------------------------------------------------
(* The anomaly scanner. *)

(* The heartbeat of a claimed run is not older than the claim.               *)
ScanInv ==
    /\ beat \in [STask -> 0..Never] /\ ran \in [STask -> 0..MaxAge]
    /\ claimed \subseteq STask
    /\ \A t \in claimed : beat[t] <= ran[t]
    /\ ClaimedHasItsTime

LEMMA MaxAgeType == MaxAge \in Nat /\ Never = MaxAge + 1
BY ScanAssumption DEF MaxAge, Never

LEMMA ScanInit_Inv == ScanInit => ScanInv
BY MaxAgeType DEF ScanInit, ScanInv, ClaimedHasItsTime

LEMMA ScanStep == ScanInv /\ [ScanNext]_scanVars => ScanInv'
<1> SUFFICES ASSUME ScanInv, [ScanNext]_scanVars PROVE ScanInv'
    OBVIOUS
<1> USE MaxAgeType
<1>1. CASE ScanCycle
    <2>1. UNCHANGED <<beat, ran, claimed>>
        BY <1>1 DEF ScanCycle
    <2>2. PICK st : blamed' = {<<t, "orphan">> : t \in Orphans(tstatus)}
                              \cup {<<t, "timeout">> : t \in Timeouts(st)}
        BY <1>1 DEF ScanCycle
    <2>3. \A t \in STask :
              /\ <<t, "orphan">> \in blamed' => t \in Orphans(tstatus)
              /\ <<t, "timeout">> \in blamed' => t \in Timeouts(st)
        BY <2>2
    <2>4. \A t \in claimed : t \in STask /\ beat[t] # Never /\ beat[t] <= ran[t]
                             /\ beat[t] \in Nat /\ ran[t] \in Nat
        BY DEF ScanInv
    <2>5. OrphanAge \in Nat /\ MaxRuntime \in Nat
        BY ScanAssumption
    <2>6. ASSUME NEW t \in claimed
          PROVE  /\ <<t, "orphan">> \in blamed' => ran[t] >= OrphanAge
                 /\ <<t, "timeout">> \in blamed' => ran[t] >= MaxRuntime
        <3>1. t \in Orphans(tstatus) => beat[t] >= OrphanAge
            BY DEF Orphans
        <3>2. t \in Timeouts(st) /\ beat[t] # Never => beat[t] >= MaxRuntime
            BY DEF Timeouts
        <3>3. /\ <<t, "orphan">> \in blamed' => t \in Orphans(tstatus)
              /\ <<t, "timeout">> \in blamed' => t \in Timeouts(st)
            BY <2>3, <2>4
        <3> QED
            BY <2>4, <2>5, <3>1, <3>2, <3>3
    <2>7. ClaimedHasItsTime'
        BY <2>1, <2>6 DEF ClaimedHasItsTime
    <2> QED
        BY <2>1, <2>7 DEF ScanInv
<1>2. CASE MinutePasses
    <2> DEFINE older(a) == IF a < MaxAge THEN a + 1 ELSE a
    <2>1. /\ beat' = [t \in STask |-> older(beat[t])] /\ ran' = [t \in STask |-> older(ran[t])]
          /\ blamed' = {} /\ claimed' = claimed
        BY <1>2 DEF MinutePasses
    <2>2. \A a \in 0..Never : older(a) \in 0..Never
        OBVIOUS
    <2>3. \A a \in 0..MaxAge : older(a) \in 0..MaxAge
        OBVIOUS
    <2>4. \A a \in 0..Never, b \in 0..MaxAge : a <= b => older(a) <= older(b)
        OBVIOUS
    <2> HIDE DEF older
    <2> QED
        BY <2>1, <2>2, <2>3, <2>4 DEF ScanInv, ClaimedHasItsTime
<1>3. ASSUME NEW t \in STask, ClaimForScan(t) \/ RunUnclaimed(t) \/ BeatTask(t) \/ Toggle(t)
      PROVE  ScanInv'
    BY <1>3 DEF ClaimForScan, RunUnclaimed, BeatTask, Toggle, ScanInv, ClaimedHasItsTime
<1>4. ASSUME NEW t \in STask, NEW old, NEW new, Shift(t, old, new)
      PROVE  ScanInv'
    BY <1>4 DEF Shift, ScanInv, ClaimedHasItsTime
<1>5. CASE UNCHANGED scanVars
    BY <1>5 DEF scanVars, ScanInv, ClaimedHasItsTime
<1> QED
    BY <1>1, <1>2, <1>3, <1>4, <1>5 DEF ScanNext

-----------------------------------------------------------------------------
(* The worker pool. *)

(* As long as no two starts overlapped: while one is under way no worker     *)
(* lives, and the watcher that pauses or starts is the one that shutdown     *)
(* will cancel.  If no start crossed the shutdown either, the worker that    *)
(* lives is the one that the shutdown copied from the map.                   *)
PoolTypeOK ==
    /\ proc \in [Proc -> {"unborn", "alive", "exited", "crashed"}]
    /\ current \in Proc \cup {NoProc} /\ watched \in Proc \cup {NoProc}
    /\ watcher \in [Proc -> {"none", "watching", "backoff", "starting", "done", "failed"}]
    /\ sendPc \in [Send -> {"idle", "starting", "written", "over"}]
    /\ boot \in {"idle", "starting", "done"}
    /\ shut \in {"no", "asked", "cancelled", "reaping", "done"}
    /\ reaped \in Proc \cup {NoProc}
    /\ crossed \in BOOLEAN /\ overlap \in BOOLEAN

Fresh == boot = "idle" /\ \A d \in Send : sendPc[d] = "idle"

Paused(p) == watcher[p] \in {"backoff", "starting"}

(* A shutdown that no start crossed meets none later.                        *)
Calm ==
    crossed = FALSE /\ shut # "no" =>
        boot # "starting" /\ \A d \in Send : sendPc[d] # "starting"

SingleWorker ==
    /\ \A p, q \in Proc : proc[p] = "alive" /\ proc[q] = "alive" => p = q
    /\ shut # "done" => \A p \in Proc : proc[p] = "alive" => p = current
    /\ Starters # {} => \A p \in Proc : proc[p] # "alive"
    /\ \A p \in Proc : Paused(p) =>
          current = p /\ watched = p /\ shut \in {"no", "asked"}
    /\ crossed = FALSE /\ shut = "reaping" => \A p \in Proc : proc[p] = "alive" => p = reaped
    /\ crossed = FALSE /\ shut = "done" => \A p \in Proc : proc[p] # "alive"

PoolInv ==
    /\ PoolTypeOK /\ Calm
    /\ \A p \in Proc : watcher[p] # "none" => proc[p] # "unborn"
    /\ Fresh => \A p \in Proc : proc[p] = "unborn"
    /\ watched # NoProc => proc[watched] # "unborn"
    /\ current # NoProc /\ shut \in {"no", "asked"} => watched = current
    /\ overlap = FALSE => SingleWorker

LEMMA ProcType == NoProc \notin Proc
BY PoolAssumption DEF NoProc, Proc

(* Who is a starter, position by position.                                   *)
LEMMA StarterIs ==
    /\ \A p \in Proc : <<"watcher", p>> \in Starters <=> Paused(p)
    /\ \A d \in Send : <<"dispatch", d>> \in Starters <=> sendPc[d] = "starting"
    /\ <<"start", NoProc>> \in Starters <=> boot = "starting"
    /\ \A s \in Starters :
          \/ \E p \in Proc : s = <<"watcher", p>>
          \/ \E d \in Send : s = <<"dispatch", d>>
          \/ s = <<"start", NoProc>>
BY DEF Starters, Paused

LEMMA PoolInit_Inv == PoolInit => PoolInv
<1> SUFFICES ASSUME PoolInit PROVE PoolInv
    OBVIOUS
<1>1. PoolTypeOK
    BY DEF PoolInit, PoolTypeOK
<1>2. \A p \in Proc : proc[p] = "unborn" /\ ~Paused(p)
    BY DEF PoolInit, Paused
<1>3. SingleWorker /\ Calm
    BY <1>2 DEF SingleWorker, Calm, PoolInit
<1> QED
    <2>1. \A p \in Proc : watcher[p] = "none"
        BY DEF PoolInit
    <2>2. current = NoProc /\ watched = NoProc
        BY DEF PoolInit
    <2> QED
        BY <1>1, <1>2, <1>3, <2>1, <2>2 DEF PoolInv

LEMMA PoolInvSound == PoolInv => OneUnlessOverlap /\ ShutdownStops
<1> SUFFICES ASSUME PoolInv PROVE OneUnlessOverlap /\ ShutdownStops
    OBVIOUS
<1>0. overlap \in BOOLEAN
    BY DEF PoolInv, PoolTypeOK
<1>1. ~overlap => overlap = FALSE
    BY <1>0, Zenon
<1>2. ASSUME SingleWorker PROVE Cardinality(AliveProcs) <= 1
    <2>1. CASE AliveProcs = {}
        BY <2>1, FS_EmptySet
    <2>2. ASSUME NEW p \in AliveProcs PROVE Cardinality(AliveProcs) <= 1
        <3>1. AliveProcs = {p}
            BY <1>2, <2>2 DEF SingleWorker, AliveProcs
        <3>2. Cardinality({p}) = 1
            BY FS_Singleton
        <3> QED
            BY <3>1, <3>2
    <2> QED
        BY <2>1, <2>2
<1>3. SingleWorker /\ shut = "done" => \A p \in Proc : watcher[p] \notin {"backoff", "starting"}
    BY DEF SingleWorker, Paused
<1>4. ASSUME SingleWorker, shut = "done", crossed = FALSE PROVE AliveProcs = {} /\ Starters = {}
    <2>1. AliveProcs = {}
        BY <1>4 DEF SingleWorker, AliveProcs
    <2>2. boot # "starting" /\ \A d \in Send : sendPc[d] # "starting"
        BY <1>4 DEF PoolInv, Calm
    <2>3. \A p \in Proc : ~Paused(p)
        BY <1>4 DEF SingleWorker
    <2> QED
        BY <2>1, <2>2, <2>3 DEF Starters, Paused
<1>5. overlap = FALSE => SingleWorker
    BY DEF PoolInv
<1>6. crossed \in BOOLEAN
    BY DEF PoolInv, PoolTypeOK
<1>7. ~crossed => crossed = FALSE
    BY <1>6, Zenon
<1>8. OneUnlessOverlap
    BY <1>1, <1>2, <1>5, Zenon DEF OneUnlessOverlap
<1>9. ShutdownStops
    <2> SUFFICES ASSUME shut = "done", ~overlap
                 PROVE  /\ \A p \in Proc : watcher[p] \notin {"backoff", "starting"}
                        /\ ~crossed => AliveProcs = {} /\ Starters = {}
        BY Zenon DEF ShutdownStops
    <2>1. SingleWorker
        BY <1>1, <1>5, Zenon
    <2> QED
        BY <1>3, <1>4, <1>7, <2>1, Zenon
<1> QED
    BY <1>8, <1>9

(* Who starts alone: nobody else pauses, starts or lives.                    *)
LEMMA AloneStarts ==
    ASSUME PoolInv, NEW me \in Starters, NEW q \in Proc, Map(q), overlap' = FALSE
    PROVE  /\ Starters = {me}
           /\ \A p \in Proc : proc[p] # "alive"
           /\ \A p \in Proc : Paused(p) => me = <<"watcher", p>>
<1>1. overlap = FALSE /\ \A s, r \in Starters : s = r
    <2>1. overlap \in BOOLEAN
        BY DEF PoolInv, PoolTypeOK
    <2>2. ~(overlap \/ \E s, r \in Starters : s # r)
        BY Zenon DEF Map
    <2> QED
        BY <2>1, <2>2, Zenon
<1>2. Starters = {me}
    BY <1>1
<1> QED
    BY <1>1, <1>2 DEF PoolInv, SingleWorker, Starters, Paused

(* The new worker is the only one, and nobody pauses or starts any more.     *)
LEMMA Mapped_Inv ==
    ASSUME PoolInv, NEW me \in Starters, NEW q \in Proc, Map(q), PoolTypeOK',
           ~Fresh', Starters' \subseteq Starters \ {me}, Calm', UNCHANGED stopVars,
           \A p \in Proc : watcher'[p] # "none" => p = q \/ watcher[p] # "none"
    PROVE  PoolInv'
<1>1. /\ proc' = [proc EXCEPT ![q] = "alive"] /\ current' = q /\ watched' = q
      /\ proc[q] = "unborn" /\ UNCHANGED <<shut, reaped, crossed>>
    BY DEF Map, stopVars
<1>2. ASSUME overlap' = FALSE PROVE SingleWorker'
    <2>1. Starters' = {} /\ \A p \in Proc : proc[p] # "alive"
        BY <1>2, AloneStarts
    <2>2. \A p \in Proc : ~Paused(p)'
        <3> SUFFICES ASSUME NEW p \in Proc, Paused(p)' PROVE FALSE
            OBVIOUS
        <3>1. <<"watcher", p>> \in Starters'
            BY DEF Starters, Paused
        <3> QED
            BY <2>1, <3>1
    <2>3. \A p \in Proc : proc'[p] = "alive" => p = current'
        BY <1>1, <2>1
    <2>4. ASSUME crossed = FALSE PROVE shut \notin {"reaping", "done"}
        <3>1. CASE \E p \in Proc : me = <<"watcher", p>>
            <4>1. PICK p \in Proc : Paused(p)
                BY <3>1, StarterIs
            <4>2. overlap = FALSE
                <5>1. overlap \in BOOLEAN /\ overlap' = (overlap \/ \E t, u \in Starters : t # u)
                    BY DEF PoolInv, PoolTypeOK, Map
                <5> QED
                    BY <1>2, <5>1, Zenon
            <4> QED
                BY <4>1, <4>2 DEF PoolInv, SingleWorker
        <3>2. CASE ~\E p \in Proc : me = <<"watcher", p>>
            <4>1. boot = "starting" \/ \E d \in Send : sendPc[d] = "starting"
                BY <3>2, StarterIs
            <4> QED
                BY <2>4, <4>1 DEF PoolInv, Calm
        <3> QED
            BY <3>1, <3>2
    <2> QED
        BY <1>1, <2>1, <2>2, <2>3, <2>4 DEF SingleWorker
<1> QED
    BY <1>1, <1>2 DEF PoolInv, PoolTypeOK

(* start() and the start of a dispatch.                                      *)
LEMMA PoolStarts ==
    ASSUME PoolInv, \/ Boot \/ Booted
                    \/ \E d \in Send : Dispatch(d) \/ DispatchStarted(d) \/ Drained(d)
    PROVE  PoolInv'
<1>0. PoolTypeOK
    BY DEF PoolInv
<1>1. ASSUME Starters' \subseteq Starters \/ (~Lives(current) /\ shut = "no" /\ ~Fresh'),
             PoolTypeOK', Calm', ~Fresh' \/ Fresh,
             UNCHANGED <<proc, current, watched, watcher, stopVars, overlap>>
      PROVE  PoolInv'
    <2>0. UNCHANGED <<shut, reaped, crossed>>
        BY <1>1 DEF stopVars
    <2>1. ASSUME SingleWorker PROVE SingleWorker'
        <3>1. ~Lives(current) /\ shut = "no" => \A p \in Proc : proc[p] # "alive"
            BY <2>1, ProcType DEF SingleWorker, Lives
        <3> QED
            BY <1>1, <2>0, <2>1, <3>1 DEF SingleWorker, Paused
    <2> QED
        BY <1>1, <2>0, <2>1 DEF PoolInv
<1>2. CASE Boot
    <2>1. PoolTypeOK' /\ Fresh /\ ~Fresh' /\ Calm' /\ shut = "no"
        BY <1>0, <1>2 DEF Boot, PoolTypeOK, Fresh, Calm, stopVars
    <2>2. ~Lives(current)
        BY <2>1 DEF PoolInv, PoolTypeOK, Lives
    <2> QED
        BY <1>1, <1>2, <2>1, <2>2 DEF Boot
<1>3. CASE Booted
    <2>1. <<"start", NoProc>> \in Starters /\ ~Fresh' /\ boot' = "done"
          /\ UNCHANGED <<sendPc, shut, reaped, crossed>>
        BY <1>3, StarterIs DEF Booted, Fresh, stopVars
    <2>4. Calm'
        BY <2>1 DEF PoolInv, Calm
    <2>2. CASE UNCHANGED <<proc, current, watched, watcher, sendPc, overlap>>
        <3>1. Starters' \subseteq Starters
            BY <2>1, <2>2 DEF Starters
        <3>2. PoolTypeOK'
            BY <1>0, <2>1, <2>2 DEF PoolTypeOK
        <3> QED
            BY <1>1, <2>1, <2>2, <2>4, <3>1, <3>2 DEF stopVars
    <2>3. ASSUME NEW p \in Proc, Map(p), watcher' = [watcher EXCEPT ![p] = "watching"],
                 UNCHANGED sendPc
          PROVE  PoolInv'
        <3>1. PoolTypeOK'
            BY <1>0, <2>1, <2>3 DEF PoolTypeOK, Map
        <3>2. Starters' \subseteq Starters \ {<<"start", NoProc>>}
            BY <1>0, <2>1, <2>3 DEF Starters, PoolTypeOK
        <3>3. \A q \in Proc : watcher'[q] # "none" => q = p \/ watcher[q] # "none"
            BY <1>0, <2>3 DEF PoolTypeOK
        <3> QED
            BY <2>1, <2>3, <2>4, <3>1, <3>2, <3>3, Mapped_Inv DEF stopVars
    <2> QED
        BY <1>3, <2>2, <2>3 DEF Booted
<1>4. ASSUME NEW d \in Send, Dispatch(d) PROVE PoolInv'
    <2>1. PoolTypeOK' /\ ~Fresh'
        BY <1>0, <1>4 DEF Dispatch, PoolTypeOK, Fresh, stopVars
    <2>3. Calm'
        BY <1>0, <1>4 DEF Dispatch, PoolTypeOK, stopVars, PoolInv, Calm
    <2>2. Starters' \subseteq Starters \/ (~Lives(current) /\ shut = "no")
        BY <1>0, <1>4 DEF Dispatch, PoolTypeOK, Starters
    <2> QED
        BY <1>1, <1>4, <2>1, <2>2, <2>3 DEF Dispatch
<1>5. ASSUME NEW d \in Send, Drained(d) PROVE PoolInv'
    <2>1. PoolTypeOK' /\ ~Fresh' /\ Calm'
        BY <1>0, <1>5 DEF Drained, PoolTypeOK, Fresh, stopVars, PoolInv, Calm
    <2>2. Starters' \subseteq Starters
        BY <1>0, <1>5 DEF Drained, PoolTypeOK, Starters
    <2> QED
        BY <1>1, <1>5, <2>1, <2>2 DEF Drained
<1>6. ASSUME NEW d \in Send, DispatchStarted(d) PROVE PoolInv'
    <2>1. <<"dispatch", d>> \in Starters /\ sendPc'[d] \in {"written", "over"}
          /\ UNCHANGED <<boot, shut, reaped, crossed>>
          /\ \A e \in Send : e # d => sendPc'[e] = sendPc[e]
        BY <1>0, <1>6, StarterIs DEF DispatchStarted, PoolTypeOK, stopVars
    <2>2. ~Fresh' /\ Calm'
        BY <2>1 DEF Fresh, PoolInv, Calm
    <2>3. CASE UNCHANGED <<proc, current, watched, watcher, overlap>>
        <3>1. Starters' \subseteq Starters
            BY <2>1, <2>3 DEF Starters
        <3>2. PoolTypeOK'
            BY <1>0, <1>6, <2>1, <2>3 DEF PoolTypeOK, DispatchStarted
        <3> QED
            BY <1>1, <2>1, <2>2, <2>3, <3>1, <3>2 DEF stopVars
    <2>4. ASSUME NEW p \in Proc, Map(p), watcher' = [watcher EXCEPT ![p] = "watching"],
                 sendPc' = [sendPc EXCEPT ![d] = "written"]
          PROVE  PoolInv'
        <3>1. PoolTypeOK'
            BY <1>0, <2>1, <2>4 DEF PoolTypeOK, Map
        <3>2. Starters' \subseteq Starters \ {<<"dispatch", d>>}
            BY <1>0, <2>1, <2>4 DEF Starters, PoolTypeOK
        <3>3. \A q \in Proc : watcher'[q] # "none" => q = p \/ watcher[q] # "none"
            BY <1>0, <2>4 DEF PoolTypeOK
        <3> QED
            BY <2>1, <2>2, <2>4, <3>1, <3>2, <3>3, Mapped_Inv DEF stopVars
    <2> QED
        BY <1>6, <2>3, <2>4 DEF DispatchStarted
<1> QED
    BY <1>2, <1>3, <1>4, <1>5, <1>6

(* The end of a worker, and its watcher. *)
LEMMA PoolWatches ==
    ASSUME PoolInv, NEW p \in Proc,
           WorkerEnds(p) \/ NoticeEnd(p) \/ PauseEnds(p) \/ Restarted(p)
    PROVE  PoolInv'
<1>0. PoolTypeOK /\ {current, watched} \subseteq Proc \cup {NoProc}
    BY DEF PoolInv, PoolTypeOK
<1> USE DEF stopVars
<1>1. CASE WorkerEnds(p)
    <2>1. PoolTypeOK' /\ Starters' = Starters /\ (Fresh' <=> Fresh)
        BY <1>0, <1>1 DEF WorkerEnds, PoolTypeOK, Starters, Fresh
    <2>2. /\ UNCHANGED <<current, watched, watcher, sendPc, boot, shut, reaped, crossed, overlap>>
          /\ proc[p] = "alive" /\ proc'[p] \in {"exited", "crashed"}
          /\ \A q \in Proc : q # p => proc'[q] = proc[q]
        BY <1>0, <1>1 DEF WorkerEnds, PoolTypeOK
    <2>3. SingleWorker => SingleWorker'
        BY <2>1, <2>2 DEF SingleWorker, Paused
    <2> QED
        BY <1>0, <2>1, <2>2, <2>3 DEF PoolInv, Calm
<1>2. CASE NoticeEnd(p)
    <2>1. PoolTypeOK' /\ (Fresh' <=> Fresh) /\ UNCHANGED <<proc, watched, sendPc, boot, shut, reaped, crossed, overlap>>
        BY <1>0, <1>2 DEF NoticeEnd, PoolTypeOK, Fresh
    <2>2. /\ watcher[p] = "watching" /\ proc[p] \in {"exited", "crashed"}
          /\ \A q \in Proc : q # p => watcher'[q] = watcher[q]
          /\ Paused(p)' => shut = "no" /\ proc[p] = "crashed" /\ current = p
          /\ current' = current \/ (current' = NoProc /\ current = p /\ proc[p] = "exited")
        BY <1>0, <1>2 DEF NoticeEnd, PoolTypeOK, Paused
    <2>3. \A q \in Proc : Paused(q)' => q = p \/ Paused(q)
        BY <2>2 DEF Paused
    <2>4. Starters' \subseteq Starters \/ Paused(p)'
        <3> SUFFICES ASSUME NEW s \in Starters', ~Paused(p)' PROVE s \in Starters
            OBVIOUS
        <3> QED
            BY <2>1, <2>3 DEF Starters, Paused
    <2>5. ASSUME SingleWorker PROVE SingleWorker'
        <3>1. current = p /\ shut # "done" => \A q \in Proc : proc[q] # "alive"
            BY <2>2, <2>5 DEF SingleWorker
        <3>5. Paused(p)' => shut = "no"
            BY <2>2
        <3>2. Starters' # {} => \A q \in Proc : proc'[q] # "alive"
            BY <2>1, <2>2, <2>4, <2>5, <3>1, <3>5 DEF SingleWorker
        <3>3. shut' # "done" => \A q \in Proc : proc'[q] = "alive" => q = current'
            BY <2>1, <2>2, <2>5, <3>1 DEF SingleWorker
        <3>4. ASSUME NEW q \in Proc, Paused(q)'
              PROVE  current' = q /\ watched' = q /\ shut' \in {"no", "asked"}
            <4>1. CASE q = p
                BY <2>1, <2>2, <3>4, <4>1, ProcType DEF PoolInv
            <4>2. CASE q # p
                BY <2>1, <2>2, <2>3, <2>5, <3>4, <4>2 DEF SingleWorker
            <4> QED
                BY <4>1, <4>2
        <3> QED
            BY <2>1, <2>5, <3>2, <3>3, <3>4 DEF SingleWorker
    <2> QED
        BY <2>1, <2>2, <2>5 DEF PoolInv, Calm
<1>3. CASE PauseEnds(p)
    <2>1. PoolTypeOK' /\ (Fresh' <=> Fresh)
          /\ UNCHANGED <<proc, current, watched, sendPc, boot, shut, reaped, crossed, overlap>>
        BY <1>0, <1>3 DEF PauseEnds, PoolTypeOK, Fresh
    <2>2. \A q \in Proc : /\ Paused(q)' <=> Paused(q)
                          /\ watcher'[q] = "none" <=> watcher[q] = "none"
        BY <1>0, <1>3 DEF PauseEnds, PoolTypeOK, Paused
    <2>3. Starters' = Starters
        BY <2>1, <2>2 DEF Starters, Paused
    <2>4. SingleWorker => SingleWorker'
        BY <2>1, <2>2, <2>3 DEF SingleWorker
    <2> QED
        BY <2>1, <2>2, <2>4 DEF PoolInv, Calm
<1>4. CASE Restarted(p)
    <2>1. Paused(p) /\ <<"watcher", p>> \in Starters /\ proc[p] # "unborn"
          /\ (Fresh' <=> Fresh) /\ UNCHANGED <<sendPc, boot, shut, reaped, crossed>>
        BY <1>4, StarterIs DEF Restarted, Paused, Fresh, PoolInv
    <2>2. ~Fresh /\ Calm'
        BY <2>1 DEF PoolInv, Calm
    <2>3. CASE watcher' = [watcher EXCEPT ![p] = "failed"]
               /\ UNCHANGED <<proc, current, watched, overlap>>
        <3>1. PoolTypeOK'
            BY <1>0, <2>1, <2>3 DEF PoolTypeOK
        <3>2. \A q \in Proc : (Paused(q)' => Paused(q)) /\ (watcher'[q] # "none" => watcher[q] # "none")
            BY <1>0, <2>1, <2>3 DEF PoolTypeOK, Paused
        <3>3. Starters' \subseteq Starters
            BY <2>1, <3>2 DEF Starters, Paused
        <3>4. SingleWorker => SingleWorker'
            BY <2>1, <2>3, <3>2, <3>3 DEF SingleWorker
        <3> QED
            BY <2>1, <2>2, <2>3, <3>1, <3>2, <3>4 DEF PoolInv
    <2>4. ASSUME NEW q \in Proc, Map(q),
                 watcher' = [watcher EXCEPT ![p] = "done", ![q] = "watching"]
          PROVE  PoolInv'
        <3>1. PoolTypeOK'
            BY <1>0, <2>1, <2>4 DEF PoolTypeOK, Map
        <3>2. \A r \in Proc : /\ watcher'[r] # "none" => r = q \/ watcher[r] # "none"
                              /\ Paused(r)' => Paused(r) /\ r # p
            BY <1>0, <2>1, <2>4 DEF PoolTypeOK, Paused
        <3>3. Starters' \subseteq Starters \ {<<"watcher", p>>}
            BY <2>1, <3>2 DEF Starters, Paused
        <3> QED
            BY <2>1, <2>2, <2>4, <3>1, <3>2, <3>3, Mapped_Inv
    <2> QED
        BY <1>4, <2>3, <2>4 DEF Restarted
<1> QED
    BY <1>1, <1>2, <1>3, <1>4

(* shutdown(), call by call. *)
LEMMA PoolStops ==
    ASSUME PoolInv, ShutDown \/ CancelWatcher \/ CopyMap \/ Reap
    PROVE  PoolInv'
<1>0. PoolTypeOK /\ {current, watched, reaped} \subseteq Proc \cup {NoProc}
    BY DEF PoolInv, PoolTypeOK
<1>1. CASE ShutDown
    <2>1. Starters' = Starters /\ (Fresh' <=> Fresh)
          /\ UNCHANGED <<proc, current, watched, watcher, sendPc, boot, overlap>>
        BY <1>1 DEF ShutDown, Starters, Fresh
    <2>2. shut = "no" /\ (shut' = "done" => current = NoProc) /\ shut' \in {"asked", "done"}
        BY <1>1 DEF ShutDown
    <2>3. SingleWorker => SingleWorker'
        BY <2>1, <2>2, ProcType DEF SingleWorker, Paused
    <2>4. crossed' \in BOOLEAN
        BY <1>1, Zenon DEF ShutDown
    <2>5. crossed' = FALSE => ~(boot = "starting" \/ \E d \in Send : sendPc[d] = "starting")
        BY <1>1, Zenon DEF ShutDown
    <2>6. PoolTypeOK'
        BY <1>0, <1>1, <2>1, <2>2, <2>4 DEF ShutDown, PoolTypeOK
    <2>7. Calm'
        BY <2>1, <2>5 DEF Calm
    <2> QED
        BY <2>1, <2>2, <2>3, <2>6, <2>7 DEF PoolInv
<1>2. CASE CancelWatcher
    <2>1. PoolTypeOK' /\ (Fresh' <=> Fresh)
          /\ UNCHANGED <<proc, current, watched, sendPc, boot, reaped, crossed, overlap>>
          /\ shut = "asked" /\ shut' = "cancelled"
        BY <1>0, <1>2 DEF CancelWatcher, PoolTypeOK, Fresh
    <2>2. \A q \in Proc : /\ Paused(q)' => Paused(q) /\ q # watched
                          /\ watcher'[q] # "none" => watcher[q] # "none" \/ q = watched
        BY <1>0, <1>2, ProcType DEF CancelWatcher, PoolTypeOK, Paused
    <2>3. Starters' \subseteq Starters
        BY <2>1, <2>2 DEF Starters, Paused
    <2>4. SingleWorker => SingleWorker'
        BY <2>1, <2>2, <2>3 DEF SingleWorker
    <2>5. \A q \in Proc : watcher'[q] # "none" => proc'[q] # "unborn"
        BY <2>1, <2>2, ProcType DEF PoolInv
    <2> QED
        BY <2>1, <2>4, <2>5 DEF PoolInv, Calm
<1>3. CASE CopyMap
    <2>1. Starters' = Starters /\ (Fresh' <=> Fresh) /\ shut = "cancelled" /\ shut' = "reaping"
          /\ UNCHANGED <<proc, current, watcher, sendPc, boot, crossed, overlap>>
          /\ watched' = NoProc /\ reaped' = current
        BY <1>3 DEF CopyMap, Starters, Fresh
    <2>2. PoolTypeOK'
        BY <1>0, <2>1 DEF PoolTypeOK
    <2>3. SingleWorker => SingleWorker'
        BY <2>1 DEF SingleWorker, Paused
    <2>4. \A p \in Proc : watcher'[p] # "none" => proc'[p] # "unborn"
        BY <2>1 DEF PoolInv
    <2>5. /\ Calm' /\ (Fresh => \A p \in Proc : proc'[p] = "unborn")
          /\ (overlap = FALSE => SingleWorker)
        BY <2>1 DEF PoolInv, Calm
    <2> QED
        BY <2>1, <2>2, <2>3, <2>4, <2>5 DEF PoolInv
<1>4. CASE Reap
    <2>1. Starters' = Starters /\ (Fresh' <=> Fresh) /\ shut = "reaping" /\ shut' = "done"
          /\ UNCHANGED <<watched, watcher, sendPc, boot, reaped, crossed, overlap>>
          /\ current' = NoProc
        BY <1>4 DEF Reap, Starters, Fresh
    <2>2. PoolTypeOK'
        BY <1>0, <1>4 DEF Reap, PoolTypeOK, Lives
    <2>3. \A q \in Proc : /\ proc'[q] = "alive" => proc[q] = "alive" /\ q # reaped
                          /\ proc'[q] = "unborn" <=> proc[q] = "unborn"
        BY <1>0, <1>4, ProcType DEF Reap, PoolTypeOK, Lives
    <2>4. SingleWorker => SingleWorker'
        BY <2>1, <2>3 DEF SingleWorker, Paused
    <2> QED
        BY <1>0, <2>1, <2>2, <2>3, <2>4 DEF PoolInv, Calm
<1> QED
    BY <1>1, <1>2, <1>3, <1>4

LEMMA PoolStep_Inv == PoolInv /\ [PoolNext]_poolVars => PoolInv'
<1> SUFFICES ASSUME PoolInv, [PoolNext]_poolVars PROVE PoolInv'
    OBVIOUS
<1>1. CASE UNCHANGED poolVars
    BY <1>1 DEF poolVars, stopVars, PoolInv, PoolTypeOK, Calm, SingleWorker, Starters, Fresh, Paused
<1> QED
    BY <1>1, PoolStarts, PoolWatches, PoolStops DEF PoolNext, PoolStep

-----------------------------------------------------------------------------
(* Swarms. *)

(* What is not inserted yet is absent; the root is as the building left it.  *)
SwarmInv ==
    /\ sstatus \in [SwarmTask -> Board!TaskStatus \cup {"absent"}]
    /\ step \in 0..Cut
    /\ step < Built => \A t \in SwarmTask : t >= step => sstatus[t] = "absent"
    /\ step \in 1..RunRoot => sstatus[Root] = "ready"
    /\ step = CompleteRoot => sstatus[Root] = "running"
    /\ GatesHold

LEMMA SwarmNumbers ==
    /\ NumWorkers \in Nat \ {0} /\ Root = 0
    /\ Verifier = NumWorkers + 1 /\ Synthesizer = NumWorkers + 2
    /\ RunRoot = NumWorkers + 3 /\ CompleteRoot = NumWorkers + 4
    /\ PostTopology = NumWorkers + 5 /\ Built = NumWorkers + 6 /\ Cut = NumWorkers + 7
    /\ SwarmTask = 0..(NumWorkers + 2) /\ Worker = 1..NumWorkers
BY SwarmAssumption DEF Root, Verifier, Synthesizer, RunRoot, CompleteRoot, PostTopology,
                       Built, Cut, SwarmTask, Worker

LEMMA Parents ==
    /\ ParentsOf(Root) = {} /\ ParentsOf(Verifier) = Worker
    /\ ParentsOf(Synthesizer) = {Verifier}
    /\ \A w \in Worker : ParentsOf(w) = {Root}
    /\ \A t \in SwarmTask : t \notin ParentsOf(t)
<1>1. ParentsOf(Root) = {}
    BY SwarmNumbers DEF ParentsOf
<1>2. \A w \in Worker : ParentsOf(w) = {Root}
    BY SwarmNumbers DEF ParentsOf
<1>3. ParentsOf(Verifier) = Worker
    BY SwarmNumbers DEF ParentsOf
<1>4. ParentsOf(Synthesizer) = {Verifier}
    BY SwarmNumbers DEF ParentsOf
<1>5. \A t \in SwarmTask : t \in Worker \/ t \in {Root, Verifier, Synthesizer}
    BY SwarmNumbers
<1>6. Root \notin Worker /\ Verifier \notin Worker /\ Verifier # Synthesizer
    BY SwarmNumbers
<1> QED
    BY <1>1, <1>2, <1>3, <1>4, <1>5, <1>6

LEMMA SwarmInit_Inv == SwarmInit => SwarmInv /\ Board!Init
BY SwarmNumbers DEF SwarmInit, SwarmInv, Board!Init, Board!TaskStatus, GatesHold, Begun

(* A completed task opens only gates all of whose tasks are over.            *)
LEMMA CompletedKeeps ==
    ASSUME SwarmInv, NEW t \in SwarmTask, sstatus[t] = "running", sstatus' = Completed(t)
    PROVE  /\ sstatus' \in [SwarmTask -> Board!TaskStatus \cup {"absent"}]
           /\ sstatus'[t] = "completed"
           /\ \A x \in SwarmTask : x # t =>
                 \/ sstatus'[x] = sstatus[x]
                 \/ sstatus[x] = "todo" /\ sstatus'[x] = "ready"
                    /\ \A p \in ParentsOf(x) : sstatus'[p] \in {"completed", "archived"}
           /\ Board!Move(t)
<1> DEFINE st == [sstatus EXCEPT ![t] = "completed"]
           D == {x \in SwarmTask : t \in ParentsOf(x) /\ st[x] = "todo" /\ Open(st, x)}
<1>1. sstatus' = [x \in SwarmTask |-> IF x \in D THEN "ready" ELSE st[x]]
    BY DEF Completed
<1>2. /\ st \in [SwarmTask -> Board!TaskStatus \cup {"absent"}] /\ st[t] = "completed"
      /\ \A x \in SwarmTask : x # t => st[x] = sstatus[x]
    BY DEF SwarmInv, Board!TaskStatus
<1>3. \A x \in D : x \in SwarmTask \ {t} /\ st[x] = "todo"
                   /\ \A p \in ParentsOf(x) : st[p] \in {"completed", "archived"}
    BY Parents DEF Open
<1>4. \A x \in SwarmTask : ParentsOf(x) \subseteq SwarmTask
    <2>1. \A x \in SwarmTask : x \in Worker \/ x \in {Root, Verifier, Synthesizer}
        BY SwarmNumbers
    <2>2. Worker \cup {Root, Verifier} \subseteq SwarmTask
        BY SwarmNumbers
    <2> QED
        BY <2>1, <2>2, Parents
<1> HIDE DEF st, D
<1>5. \A x \in SwarmTask : st[x] # "todo" => sstatus'[x] = st[x]
    BY <1>1, <1>3
<1>6. \A x \in SwarmTask : x # t =>
          \/ sstatus'[x] = sstatus[x]
          \/ sstatus[x] = "todo" /\ sstatus'[x] = "ready"
             /\ \A p \in ParentsOf(x) : sstatus'[p] \in {"completed", "archived"}
    <2> SUFFICES ASSUME NEW x \in SwarmTask, x # t, x \in D
                 PROVE  /\ sstatus[x] = "todo" /\ sstatus'[x] = "ready"
                        /\ \A p \in ParentsOf(x) : sstatus'[p] \in {"completed", "archived"}
        BY <1>1, <1>2
    <2>1. \A p \in ParentsOf(x) : p \in SwarmTask /\ st[p] \in {"completed", "archived"}
        BY <1>3, <1>4
    <2> QED
        BY <1>1, <1>2, <1>3, <1>5, <2>1
<1>7. sstatus' \in [SwarmTask -> Board!TaskStatus \cup {"absent"}]
    BY <1>1, <1>2 DEF Board!TaskStatus
<1>8. Board!Move(t)
    <2>1. <<sstatus[t], "completed">> \in Board!VALID_TRANSITIONS /\ "completed" \in Board!TaskStatus
        BY DEF Board!VALID_TRANSITIONS, Board!TaskStatus
    <2>2. D \in SUBSET (SwarmTask \ {t})
        BY <1>3
    <2>3. sstatus' = [x \in SwarmTask |-> IF x = t THEN "completed"
                        ELSE IF x \in D THEN Board!Flip(sstatus[x]) ELSE sstatus[x]]
        BY <1>1, <1>2, <1>3 DEF Board!Flip
    <2> QED
        BY <2>1, <2>2, <2>3 DEF Board!Move
<1> QED
    BY <1>1, <1>2, <1>3, <1>6, <1>7, <1>8

(* Gates stay as they are when tasks that are over stay over, and the gated  *)
(* tasks begin only as in a resolution.                                      *)
LEMMA GatesStay ==
    ASSUME GatesHold,
           \A x \in SwarmTask : sstatus[x] \in {"completed", "archived"} =>
                                   sstatus'[x] \in {"completed", "archived"},
           \A x \in {Verifier, Synthesizer} : Begun(x)' =>
               Begun(x) \/ \A p \in ParentsOf(x) : sstatus'[p] \in {"completed", "archived"}
    PROVE  GatesHold'
<1>1. Worker \cup {Verifier} \subseteq SwarmTask
    BY SwarmNumbers
<1>2. ASSUME Begun(Verifier)' PROVE \A w \in Worker : sstatus'[w] \in {"completed", "archived"}
    BY <1>1, <1>2, Parents DEF GatesHold
<1>3. ASSUME Begun(Synthesizer)' PROVE sstatus'[Verifier] \in {"completed", "archived"}
    BY <1>1, <1>3, Parents DEF GatesHold
<1> QED
    BY <1>2, <1>3 DEF GatesHold

LEMMA CompletedGates ==
    ASSUME SwarmInv, NEW t \in SwarmTask, sstatus[t] = "running", sstatus' = Completed(t)
    PROVE  /\ GatesHold' /\ Board!Move(t)
           /\ sstatus' \in [SwarmTask -> Board!TaskStatus \cup {"absent"}]
<1>1. GatesHold
    BY DEF SwarmInv
<1>2. \A x \in SwarmTask : sstatus[x] \in {"completed", "archived"} =>
                              sstatus'[x] \in {"completed", "archived"}
    BY CompletedKeeps
<1>3. ASSUME NEW x \in {Verifier, Synthesizer}, Begun(x)'
      PROVE  Begun(x) \/ \A p \in ParentsOf(x) : sstatus'[p] \in {"completed", "archived"}
    <2>1. x \in SwarmTask
        BY SwarmNumbers
    <2>2. CASE x = t
        BY <2>2 DEF Begun
    <2>3. CASE x # t
        BY <1>3, <2>1, <2>3, CompletedKeeps DEF Begun
    <2> QED
        BY <2>2, <2>3
<1>4. GatesHold'
    BY <1>1, <1>2, <1>3, GatesStay
<1> QED
    BY <1>4, CompletedKeeps

(* A move of one task alone is a move of the lifecycle.                      *)
LEMMA OneOff == ASSUME NEW t \in SwarmTask, NEW new \in Board!TaskStatus,
                       sstatus \in [SwarmTask -> Board!TaskStatus \cup {"absent"}],
                       sstatus' = [sstatus EXCEPT ![t] = new],
                       <<sstatus[t], new>> \in Board!VALID_TRANSITIONS
                PROVE  Board!Move(t) /\ sstatus[t] \notin {"absent", "archived"}
<1>1. sstatus' = [x \in SwarmTask |-> IF x = t THEN new
                    ELSE IF x \in {} THEN Board!Flip(sstatus[x]) ELSE sstatus[x]]
    OBVIOUS
<1>2. {} \in SUBSET (SwarmTask \ {t})
    OBVIOUS
<1>3. Board!Move(t)
    BY <1>1, <1>2 DEF Board!Move
<1>4. sstatus[t] \notin {"absent", "archived"}
    BY DEF Board!VALID_TRANSITIONS
<1> QED
    BY <1>3, <1>4

(* The building of a swarm. *)
LEMMA Build_Inv ==
    ASSUME SwarmInv, InsertTask \/ StartRoot \/ FinishRoot
    PROVE  SwarmInv' /\ \E t \in SwarmTask : Board!Create(t) \/ Board!Move(t)
<1> USE SwarmNumbers
<1>0. sstatus \in [SwarmTask -> Board!TaskStatus \cup {"absent"}] /\ step \in 0..Cut
    BY DEF SwarmInv
<1>1. CASE InsertTask
    <2>1. PICK s \in {"ready", "todo"} :
              /\ sstatus' = [sstatus EXCEPT ![step] = s]
              /\ s = "ready" <=> Open(sstatus, step)
        BY <1>1 DEF InsertTask
    <2>2. step \in SwarmTask /\ step' = step + 1
        BY <1>1 DEF InsertTask
    <2>3. sstatus[step] = "absent" /\ GatesHold
        BY <2>2 DEF SwarmInv
    <2>4. Board!Create(step)
        BY <2>1, <2>3 DEF Board!Create, Board!InitialStatus
    <2>5. GatesHold'
        <3>1. \A x \in SwarmTask : x # step => sstatus'[x] = sstatus[x]
            BY <1>0, <2>1
        <3>2. sstatus'[step] = "ready" => Open(sstatus, step)
            BY <1>0, <2>1, <2>2
        <3>3. \A p \in SwarmTask : sstatus[p] \in {"completed", "archived"}
                  => sstatus'[p] \in {"completed", "archived"}
            BY <2>3, <3>1
        <3>4. sstatus'[step] \in {"ready", "todo"}
            BY <1>0, <2>1, <2>2
        <3>5. ASSUME NEW x \in {Verifier, Synthesizer}, Begun(x)'
              PROVE  Begun(x) \/ \A p \in ParentsOf(x) : sstatus'[p] \in {"completed", "archived"}
            <4>1. x \in SwarmTask /\ ParentsOf(x) \subseteq SwarmTask
                BY Parents
            <4>2. CASE x # step
                BY <3>1, <3>5, <4>1, <4>2 DEF Begun
            <4>3. CASE x = step
                BY <3>2, <3>3, <3>4, <3>5, <4>1, <4>3 DEF Begun, Open
            <4> QED
                BY <4>2, <4>3
        <3> QED
            BY <2>3, <3>3, <3>5, GatesStay
    <2>6. \A t \in SwarmTask : t >= step' => sstatus'[t] = "absent"
        BY <1>0, <2>1, <2>2 DEF SwarmInv
    <2>7. step' \in 1..RunRoot => sstatus'[Root] = "ready"
        <3>1. CASE step = 0
            <4>1. Open(sstatus, step)
                BY <3>1, Parents DEF Open
            <4> QED
                BY <1>0, <2>1, <2>2, <3>1, <4>1
        <3>2. CASE step # 0
            BY <1>0, <2>1, <2>2, <3>2 DEF SwarmInv
        <3> QED
            BY <3>1, <3>2
    <2>8. sstatus' \in [SwarmTask -> Board!TaskStatus \cup {"absent"}]
        BY <1>0, <2>1 DEF Board!TaskStatus
    <2>9. step' \in 0..Cut /\ step' # CompleteRoot
        BY <2>2
    <2> QED
        BY <2>2, <2>4, <2>5, <2>6, <2>7, <2>8, <2>9 DEF SwarmInv
<1>2. CASE StartRoot
    <2>1. /\ sstatus[Root] = "ready" /\ sstatus' = [sstatus EXCEPT ![Root] = "running"]
          /\ step = RunRoot /\ step' = CompleteRoot /\ Root \in SwarmTask /\ GatesHold
        BY <1>2 DEF StartRoot, SwarmInv
    <2>2. /\ "running" \in Board!TaskStatus
          /\ <<sstatus[Root], "running">> \in Board!VALID_TRANSITIONS
        BY <2>1 DEF Board!TaskStatus, Board!VALID_TRANSITIONS
    <2>3. Board!Move(Root)
        BY <1>0, <2>1, <2>2, OneOff
    <2>4. \A x \in SwarmTask : x # Root => sstatus'[x] = sstatus[x]
        BY <1>0, <2>1
    <2>5. GatesHold'
        BY <2>1, <2>4, GatesStay DEF Begun
    <2>6. sstatus' \in [SwarmTask -> Board!TaskStatus \cup {"absent"}] /\ sstatus'[Root] = "running"
        BY <1>0, <2>1, <2>2
    <2>7. \A t \in SwarmTask : ~(t >= step')
        BY <2>1
    <2> QED
        BY <2>1, <2>3, <2>5, <2>6, <2>7 DEF SwarmInv
<1>3. CASE FinishRoot
    <2>1. /\ sstatus[Root] = "running" /\ sstatus' = Completed(Root)
          /\ step = CompleteRoot /\ step' = PostTopology /\ Root \in SwarmTask /\ GatesHold
        BY <1>3 DEF FinishRoot, SwarmInv
    <2>2. /\ Board!Move(Root) /\ GatesHold'
          /\ sstatus' \in [SwarmTask -> Board!TaskStatus \cup {"absent"}]
        BY <2>1, CompletedGates
    <2>3. \A t \in SwarmTask : ~(t >= step')
        BY <2>1
    <2> QED
        BY <2>1, <2>2, <2>3 DEF SwarmInv
<1> QED
    BY <1>1, <1>2, <1>3

(* Work on a swarm. *)
LEMMA Work_Inv ==
    ASSUME SwarmInv, NEW t \in SwarmTask, NEW new \in Board!TaskStatus, Work(t, new)
    PROVE  SwarmInv' /\ Board!Move(t)
<1>0. /\ sstatus \in [SwarmTask -> Board!TaskStatus \cup {"absent"}] /\ GatesHold
      /\ step' = step /\ step \in {Built, Cut}
      /\ <<sstatus[t], new>> \in Board!VALID_TRANSITIONS
    BY DEF SwarmInv, Work
<1>1. /\ GatesHold' /\ Board!Move(t)
      /\ sstatus' \in [SwarmTask -> Board!TaskStatus \cup {"absent"}]
    <2>1. CASE new = "completed"
        <3>1. sstatus[t] = "running"
            BY <1>0, <2>1 DEF Board!VALID_TRANSITIONS
        <3>2. sstatus' = Completed(t)
            BY <2>1 DEF Work
        <3> QED
            BY <3>1, <3>2, CompletedGates
    <2>2. CASE new # "completed"
        <3>1. sstatus' = [sstatus EXCEPT ![t] = new]
            BY <2>2 DEF Work
        <3>2. \A x \in SwarmTask : x # t => sstatus'[x] = sstatus[x]
            BY <1>0, <3>1
        <3>3. /\ sstatus'[t] = new
              /\ sstatus[t] = "completed" => new = "archived"
              /\ sstatus[t] # "archived"
              /\ new \in {"ready", "running", "blocked", "failed"} =>
                    sstatus[t] \in {"ready", "running", "blocked", "failed"}
            <4>1. <<sstatus[t], new>> \in Board!VALID_TRANSITIONS \ {<<"todo", "ready">>, <<"ready", "todo">>}
                BY DEF Work
            <4> QED
                BY <1>0, <3>1, <4>1 DEF Board!VALID_TRANSITIONS
        <3>4. \A x \in SwarmTask : sstatus[x] \in {"completed", "archived"} =>
                                      sstatus'[x] \in {"completed", "archived"}
            BY <3>2, <3>3
        <3>5. \A x \in SwarmTask : Begun(x)' => Begun(x)
            BY <2>2, <3>2, <3>3 DEF Begun
        <3>6. {Verifier, Synthesizer} \subseteq SwarmTask
            BY SwarmNumbers
        <3>7. GatesHold'
            BY <1>0, <3>4, <3>5, <3>6, GatesStay
        <3>8. Board!Move(t)
            BY <1>0, <3>1, OneOff
        <3> QED
            BY <1>0, <3>1, <3>7, <3>8
    <2> QED
        BY <2>1, <2>2
<1> QED
    BY <1>0, <1>1, SwarmNumbers DEF SwarmInv

LEMMA SwarmStep == SwarmInv /\ [SwarmNext]_swarmVars => SwarmInv' /\ [Board!Next]_sstatus
<1> SUFFICES ASSUME SwarmInv, [SwarmNext]_swarmVars PROVE SwarmInv' /\ [Board!Next]_sstatus
    OBVIOUS
<1>1. CASE InsertTask \/ StartRoot \/ FinishRoot
    BY <1>1, Build_Inv DEF Board!Next
<1>2. CASE PublishTopology \/ CutShort
    <2>1. sstatus' = sstatus /\ step' \in {Built, Cut}
        BY <1>2 DEF PublishTopology, CutShort
    <2>2. GatesHold'
        BY <2>1 DEF SwarmInv, GatesHold, Begun
    <2> QED
        BY <2>1, <2>2, SwarmNumbers DEF SwarmInv
<1>3. ASSUME NEW t \in SwarmTask, NEW new \in Board!TaskStatus, Work(t, new)
      PROVE  SwarmInv' /\ Board!Next
    BY <1>3, Work_Inv DEF Board!Next
<1>4. CASE UNCHANGED swarmVars
    BY <1>4 DEF swarmVars, SwarmInv, GatesHold, Begun
<1> QED
    BY <1>1, <1>2, <1>3, <1>4 DEF SwarmNext, Build

-----------------------------------------------------------------------------
(* However starts, crashes, building steps, moves, scans and cancels follow  *)
(* one another, for any number of processes, calls, workers and tasks: one   *)
(* worker process unless starts overlapped, none after a shutdown that no    *)
(* start crossed (orchestration/pool.py), no gate opened early (swarm.py),   *)
(* no claimed run failed before its claim is old enough (anomaly_scanner.py),*)
(* no process left and one report for each task message, redelivered ones    *)
(* included (a2a_coder_agent.py).                                            *)
THEOREM BoardIsSound == Spec => []BoardSound
<1> DEFINE Inv == PoolInv /\ SwarmInv /\ ScanInv /\ CoderInv
<1>1. Init => Inv
    BY PoolInit_Inv, SwarmInit_Inv, ScanInit_Inv, CoderInit_Inv DEF Init
<1>2. Inv /\ [Next]_vars => Inv'
    BY PartStep, PoolStep_Inv, SwarmStep, ScanStep, CoderStep
<1>3. Inv => BoardSound
    BY PoolInvSound, CoderInvSound DEF BoardSound, SwarmInv, ScanInv
<1> QED
    BY <1>1, <1>2, <1>3, PTL DEF Spec

(* A swarm of any size is what TaskLifecycle promises, task by task and step *)
(* by step, wherever its building was cut; and an outcome of the coder agent *)
(* stays: completed and failed at once, canceled when its coroutine is over  *)
(* (swarm.py, create_swarm; a2a_coder_agent.py, process_http_task).          *)
THEOREM StepsAreKept == Spec => StepsKept
<1> DEFINE Inv == SwarmInv /\ CoderInv
<1>1. Init => Inv /\ Board!Init
    BY SwarmInit_Inv, CoderInit_Inv DEF Init
<1>2. Inv /\ [Next]_vars => Inv' /\ [Board!Next]_sstatus
          /\ [\A t \in HttpTask : Final(t) => state'[t] = state[t]]_state
    BY PartStep, SwarmStep, CoderStep
<1> QED
    BY <1>1, <1>2, PTL DEF Spec, StepsKept, BoardKept, OutcomeStays, Board!Spec
=============================================================================
