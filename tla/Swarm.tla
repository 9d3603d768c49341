------------------------------- MODULE Swarm -------------------------------
(* swarm.create_swarm and its route: a root, workers below it, a verifier    *)
(* below the workers and a synthesizer below the verifier, put on the task   *)
(* board one by one.  There is no await in between, but an exception or the  *)
(* end of the process may cut the building short.  The board's own moves are *)
(* those of agents and the dispatcher.                                       *)
EXTENDS Naturals

CONSTANT NumWorkers

ASSUME SwarmAssumption == NumWorkers \in Nat \ {0}

Root == 0
Worker == 1..NumWorkers
Verifier == NumWorkers + 1
Synthesizer == NumWorkers + 2
SwarmTask == 0..Synthesizer

VARIABLES
    sstatus,        \* the status column: [SwarmTask -> status]
    step            \* how far create_swarm is: a task, or what follows

swarmVars == <<sstatus, step>>

RunRoot == Synthesizer + 1          \* update_task_status(root, running)
CompleteRoot == Synthesizer + 2     \* update_task_status(root, completed)
PostTopology == Synthesizer + 3     \* the topology as a comment on the root
Built == Synthesizer + 4
Cut == Synthesizer + 5

(* What the board promises about a single task: the swarm keeps to it.       *)
Board == INSTANCE TaskLifecycle WITH Task <- SwarmTask, status <- sstatus

(* The parents= of the create_task calls. *)
ParentsOf(t) == CASE t = Root -> {}
                  [] t \in Worker -> {Root}
                  [] t = Verifier -> Worker
                  [] t = Synthesizer -> {Verifier}

Open(st, t) == \A p \in ParentsOf(t) : st[p] \in {"completed", "archived"}

SwarmInit ==
    /\ sstatus = [t \in SwarmTask |-> "absent"]
    /\ step = Root

-----------------------------------------------------------------------------
(* The next task of the swarm is inserted. *)
InsertTask ==
    /\ step \in SwarmTask
    /\ sstatus' = [sstatus EXCEPT ![step] = IF Open(sstatus, step) THEN "ready" ELSE "todo"]
    /\ step' = step + 1

StartRoot ==
    /\ step = RunRoot
    /\ sstatus' = [sstatus EXCEPT ![Root] = "running"]
    /\ step' = step + 1

(* Mutant: children are left for the next look at them. *)
CompletedAlone(t) == [sstatus EXCEPT ![t] = "completed"]

(* update_task_status(t, completed): the children are resolved with it.      *)
Completed(t) ==
    LET st == [sstatus EXCEPT ![t] = "completed"] IN
    [x \in SwarmTask |-> IF t \in ParentsOf(x) /\ st[x] = "todo" /\ Open(st, x)
                         THEN "ready" ELSE st[x]]

FinishRoot ==
    /\ step = CompleteRoot
    /\ sstatus' = Completed(Root)
    /\ step' = step + 1

(* post_blackboard(root, "topology") *)
PublishTopology ==
    /\ step = PostTopology
    /\ step' = Built
    /\ UNCHANGED sstatus

(* create_task or update_task_status raises, or the process ends.            *)
CutShort ==
    /\ step < Built
    /\ step' = Cut
    /\ UNCHANGED sstatus

-----------------------------------------------------------------------------
(* An agent, the dispatcher, the retry of a failed task or an archive moves  *)
(* a task; nobody makes a waiting task ready by hand.                        *)
Work(t, new) ==
    /\ step \in {Built, Cut}
    /\ <<sstatus[t], new>> \in Board!VALID_TRANSITIONS \ {<<"todo", "ready">>, <<"ready", "todo">>}
    /\ sstatus' = IF new = "completed" THEN Completed(t) ELSE [sstatus EXCEPT ![t] = new]
    /\ UNCHANGED step

Progress(t) == Work(t, "running") \/ Work(t, "completed")

Build == InsertTask \/ StartRoot \/ FinishRoot \/ PublishTopology

SwarmNext ==
    \/ Build \/ CutShort
    \/ \E t \in SwarmTask, new \in Board!TaskStatus : Work(t, new)

-----------------------------------------------------------------------------
(* The whole swarm is, task by task and step by step, what TaskLifecycle     *)
(* promises of the board.                                                    *)
BoardKept == Board!Spec

Begun(t) == sstatus[t] \in {"ready", "running", "blocked", "completed", "failed"}

(* The gates of the topology: the verifier starts after all workers, the     *)
(* synthesizer after the verifier, wherever the building was cut and however *)
(* tasks fail, are retried, cancelled or archived.                           *)
GatesHold ==
    LET over(t) == sstatus[t] \in {"completed", "archived"} IN
    /\ Begun(Verifier) => \A w \in Worker : over(w)
    /\ Begun(Synthesizer) => over(Verifier)

(* A swarm that was built is carried through to the synthesis, unless some   *)
(* task of it fails, is blocked, cancelled or archived.                      *)
SwarmFinishes ==
    step = Built ~>
        \/ sstatus[Synthesizer] = "completed"
        \/ \E t \in SwarmTask : sstatus[t] \in {"failed", "blocked", "cancelled", "archived"}
=============================================================================
