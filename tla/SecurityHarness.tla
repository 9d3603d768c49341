-------------------------- MODULE SecurityHarness --------------------------
(* The checkpoints of security.ape.AuthorizationPolicyEngine on task create, *)
(* claim and complete, the chains of ProvenanceTracker and the event log;    *)
(* and the ways past them: internal tasks, the dispatcher, PATCH.            *)
(* The server builds the engine without plugin registry, so no checkpoint    *)
(* has an await.  All agents belong to one tenant.                           *)
EXTENDS Naturals, Sequences

CONSTANTS
    HAgent, HTask,
    MaxHops         \* bounds the hops of one chain

ASSUME HarnessAssumption == "-" \notin HAgent /\ "dispatcher" \notin HAgent

VARIABLES
    mode, policy,   \* APEConfig, fixed when the server starts
    enabled,        \* agents with a card that is not disabled
    htask,          \* [HTask -> the columns the checkpoints read, and by whom, of
                    \*           which assignee and with which token the run was
                    \*           claimed]
    chain,          \* provenance_chains: [HTask -> the depth column, or NoChain]
    hops,           \* provenance_hops: [HTask -> sequence of actions]
    events          \* security_events: who was permitted to claim which task

harnessVars == <<mode, policy, enabled, htask, chain, hops, events>>
trailVars == <<chain, hops>>

(* An agent, or a caller without agent: a user, or nobody known.  "-" stands *)
(* for no agent at all.                                                      *)
Callers == HAgent \cup {"other"}
NoChain == MaxHops + 1
NoTaskRow == [phase |-> "absent", assignee |-> "-", locked |-> FALSE,
              by |-> "-", of |-> "-", token |-> FALSE]
Exists(t) == htask[t].phase # "absent"

HarnessInit ==
    /\ mode \in {"audit", "warn", "enforce"}
    /\ policy \in {"open", "restricted"}
    /\ enabled = {}
    /\ htask = [t \in HTask |-> NoTaskRow]
    /\ chain = [t \in HTask |-> NoChain]
    /\ hops = [t \in HTask |-> <<>>]
    /\ events = {}

-----------------------------------------------------------------------------
(* _deny refuses in enforce mode only. *)
Passes(failed) == failed => mode # "enforce"

(* The event that _allow or _deny records; of all events the model keeps the *)
(* permissions of claims.                                                    *)
RecordClaim(c, t, failed) ==
    events' = IF Passes(failed) THEN events \cup {[actor |-> c, task |-> t]} ELSE events

(* check_task_create.  Under the restricted policy the authorization table   *)
(* is asked through registry_store.execute, which Store does not have: the   *)
(* query fails and delegation to another agent is refused.  mayWrite: the    *)
(* caller is known and has the scope.                                        *)
CreateFails(c, a, mayWrite) ==
    \/ c \in HAgent \ enabled
    \/ a \in HAgent \ enabled
    \/ ~mayWrite
    \/ c \in HAgent /\ a \notin {"-", c} /\ policy = "restricted"

(* record_hop recomputes the depth as the number of hops; without a chain    *)
(* row the hop is written and no depth changes.                              *)
RecordHop(t, action) ==
    /\ hops' = [hops EXCEPT ![t] = Append(@, action)]
    /\ chain' = [chain EXCEPT ![t] = IF @ = NoChain THEN @ ELSE Len(hops[t]) + 1]

(* _record_provenance_create: the chain, with a hop if there is an assignee. *)
ProvenanceOfCreate(t, a) ==
    LET new == IF a = "-" THEN hops[t] ELSE Append(hops[t], "delegate")
    IN hops' = [hops EXCEPT ![t] = new] /\ chain' = [chain EXCEPT ![t] = Len(new)]

(* POST /v2/tasks. *)
CreateTask(c, a, mayWrite, t) ==
    /\ ~Exists(t) /\ Passes(CreateFails(c, a, mayWrite))
    /\ htask' = [htask EXCEPT ![t] = [@ EXCEPT !.phase = "ready", !.assignee = a]]
    /\ ProvenanceOfCreate(t, a)
    /\ UNCHANGED <<mode, policy, enabled, events>>

(* A task that cron, a workflow or a swarm creates passes no checkpoint and  *)
(* gets no chain.                                                            *)
CreateInternal(a, t) ==
    /\ ~Exists(t)
    /\ htask' = [htask EXCEPT ![t] = [@ EXCEPT !.phase = "ready", !.assignee = a]]
    /\ UNCHANGED <<mode, policy, enabled, trailVars, events>>

(* claim_task: the row is locked.  The lock bears the worker_id of the body, *)
(* any name; c is the caller, or the dispatcher.                             *)
Claimed(t, c, token) ==
    [htask EXCEPT ![t] = [@ EXCEPT !.phase = "running", !.locked = TRUE, !.by = c,
                                   !.of = htask[t].assignee, !.token = token]]

(* check_task_claim: given tells whether the body has a token, holds whether *)
(* verify_delegation_token accepts it (it is not consumed here).             *)
ClaimFails(c, t, given, holds) ==
    \/ ~Exists(t) \/ c # htask[t].assignee
    \/ given /\ ~holds
    \/ ~given /\ policy = "restricted"

(* POST /v2/tasks/{id}/claim, and the hop of _record_provenance_claim.       *)
ClaimTask(c, t, given, holds) ==
    LET failed == ClaimFails(c, t, given, holds) IN
    /\ Len(hops[t]) < MaxHops
    /\ RecordClaim(c, t, failed)
    /\ IF Passes(failed) /\ htask[t].phase = "ready"
         THEN /\ htask' = Claimed(t, c, given /\ holds)
              /\ RecordHop(t, "claim")
         ELSE UNCHANGED <<htask, trailVars>>
    /\ UNCHANGED <<mode, policy, enabled>>

(* The dispatcher claims for the assignee, past checkpoint and record. *)
DispatcherClaim(t) ==
    /\ htask[t].phase = "ready" /\ htask[t].assignee # "-"
    /\ htask' = Claimed(t, "dispatcher", FALSE)
    /\ UNCHANGED <<mode, policy, enabled, trailVars, events>>

(* POST /v2/tasks/{id}/complete.  check_task_complete compares locks only    *)
(* where the task and the body both have one, and fails only where the store *)
(* refuses in any mode: a lock that the row does not have.                   *)
CompleteTask(t, hasLock, sameLock) ==
    /\ htask[t].phase = "running"
    /\ hasLock => htask[t].locked /\ sameLock
    /\ htask' = [htask EXCEPT ![t] = [@ EXCEPT !.phase = "over", !.locked = FALSE]]
    /\ UNCHANGED <<mode, policy, enabled, trailVars, events>>

(* The claim runs out and the task can be claimed again, or has failed. *)
ReleaseClaim(t, p) ==
    /\ htask[t].phase = "running" /\ htask[t].locked
    /\ htask' = [htask EXCEPT ![t] = [@ EXCEPT !.phase = p, !.locked = FALSE]]
    /\ UNCHANGED <<mode, policy, enabled, trailVars, events>>

(* PATCH /v2/tasks/{id} passes no checkpoint.  With a status it takes the    *)
(* task along any edge of the lifecycle, to running without a lock and       *)
(* without a claim; otherwise it may name another assignee.                  *)
PatchStatus(t, p) ==
    /\ <<htask[t].phase, p>> \in {<<"ready", "running">>, <<"ready", "over">>,
            <<"running", "over">>, <<"over", "ready">>, <<"over", "running">>}
    /\ htask' = [htask EXCEPT ![t] = [@ EXCEPT !.phase = p, !.locked = FALSE, !.by = "-",
                                               !.of = "-", !.token = FALSE]]
    /\ UNCHANGED <<mode, policy, enabled, trailVars, events>>

PatchAssignee(t, a) ==
    /\ Exists(t)
    /\ htask' = [htask EXCEPT ![t] = [@ EXCEPT !.assignee = a]]
    /\ UNCHANGED <<mode, policy, enabled, trailVars, events>>

(* Registration, toggle and removal of an agent. *)
SetCard(a, on) ==
    /\ enabled' = IF on THEN enabled \cup {a} ELSE enabled \ {a}
    /\ UNCHANGED <<mode, policy, htask, trailVars, events>>

HarnessNext ==
    \/ \E c \in Callers, t \in HTask :
        \/ \E a \in HAgent \cup {"-"}, mayWrite \in BOOLEAN : CreateTask(c, a, mayWrite, t)
        \/ \E given, holds \in BOOLEAN : ClaimTask(c, t, given, holds)
    \/ \E a \in HAgent, t \in HTask : CreateInternal(a, t)
    \/ \E t \in HTask :
        \/ DispatcherClaim(t)
        \/ \E hasLock, sameLock \in BOOLEAN : CompleteTask(t, hasLock, sameLock)
        \/ \E p \in {"ready", "over"} : ReleaseClaim(t, p)
        \/ \E p \in {"ready", "running", "over"} : PatchStatus(t, p)
        \/ \E a \in HAgent \cup {"-"} : PatchAssignee(t, a)
    \/ \E a \in HAgent, on \in BOOLEAN : SetCard(a, on)

-----------------------------------------------------------------------------
(* The depth column of every chain is the number of its hops, for tasks that *)
(* get their chain from the checkpointed route and for those that have none. *)
DepthCountsHops ==
    \A t \in HTask : chain[t] # NoChain => chain[t] = Len(hops[t])

(* In enforce mode whoever claims through the route was the assignee at that *)
(* moment, under the restricted policy with a token that held.               *)
EnforceHolds ==
    mode = "enforce" =>
        \A t \in HTask : htask[t].by \in Callers =>
            /\ htask[t].by = htask[t].of
            /\ policy = "restricted" => htask[t].token

(* A locked task was claimed, by the dispatcher or through the route, and a  *)
(* claim through the route left its permission in the event log and its hop  *)
(* in the chain, in every mode and however the task came to be.              *)
ClaimsOnRecord ==
    \A t \in HTask :
        /\ htask[t].locked => htask[t].by \in Callers \cup {"dispatcher"}
        /\ htask[t].by \in Callers =>
            /\ [actor |-> htask[t].by, task |-> t] \in events
            /\ \E i \in DOMAIN hops[t] : hops[t][i] = "claim"
=============================================================================
