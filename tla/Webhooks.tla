------------------------------ MODULE Webhooks ------------------------------
(* Webhook subscriptions and their delivery: webhook_store.WebhookStore,      *)
(* WebhookDeliveryEngine, the hooks of WebhookPlugin and the admin routes.    *)
(* A delivery run awaits the HTTP post and the pause between attempts; the    *)
(* routes and other runs are interleaved there.                               *)
EXTENDS Naturals, FiniteSets

CONSTANTS
    NumSubs,        \* subscriptions are numbered in the order of created_at
    Run,            \* calls of deliver_event
    MaxAttempts,    \* len(RETRY_DELAYS) + 1
    FailLimit       \* MAX_CONSECUTIVE_FAILURES

ASSUME WebhooksAssumption == /\ NumSubs \in Nat /\ MaxAttempts \in Nat \ {0}
                             /\ FailLimit \in Nat \ {0}

VARIABLES
    hook,           \* [Sub -> the row of webhook_subscriptions]
    made,           \* how many subscriptions were ever created
    run,            \* [Run -> what is left of it]
    reached         \* pairs of a run and a subscription that answered 2xx

hookVars == <<hook, made, run, reached>>

Sub == 1..NumSubs
Idle == [phase |-> "idle", left |-> {}, attempt |-> 0]
Least(S) == CHOOSE s \in S : \A t \in S : s <= t

HooksInit ==
    /\ hook = [s \in Sub |-> [live |-> FALSE, enabled |-> FALSE, fails |-> 0]]
    /\ made = 0
    /\ run = [r \in Run |-> Idle]
    /\ reached = {}

(* POST /admin/webhooks. *)
CreateSub ==
    /\ made < NumSubs
    /\ made' = made + 1
    /\ hook' = [hook EXCEPT ![made'] = [live |-> TRUE, enabled |-> TRUE, fails |-> 0]]
    /\ UNCHANGED <<run, reached>>

(* DELETE: the deliveries and the subscription in one transaction.            *)
DeleteSub(s) ==
    /\ hook[s].live
    /\ hook' = [hook EXCEPT ![s] = [live |-> FALSE, enabled |-> FALSE, fails |-> 0]]
    /\ UNCHANGED <<made, run, reached>>

EnableSub(s) ==
    /\ hook[s].live
    /\ hook' = [hook EXCEPT ![s].enabled = TRUE, ![s].fails = 0]
    /\ UNCHANGED <<made, run, reached>>

DisableSub(s) ==
    /\ hook[s].live
    /\ hook' = [hook EXCEPT ![s].enabled = FALSE]
    /\ UNCHANGED <<made, run, reached>>

-----------------------------------------------------------------------------
(* The coroutine goes on to its next subscription, or returns. *)
Onward(r) ==
    LET left == run[r].left \ {Least(run[r].left)} IN
    [run EXCEPT ![r].left = left, ![r].attempt = 1,
                ![r].phase = IF left = {} THEN "done" ELSE "posting"]

(* deliver_event: the enabled subscriptions are read once. *)
Deliver(r) ==
    LET subs == {s \in Sub : hook[s].live /\ hook[s].enabled} IN
    /\ run[r].phase = "idle"
    /\ run' = [run EXCEPT ![r] = [phase |-> IF subs = {} THEN "done" ELSE "posting",
                                  left |-> subs, attempt |-> 1]]
    /\ UNCHANGED <<hook, made, reached>>

(* log_delivery of a deleted subscription breaks the foreign key: after a     *)
(* failed attempt the exception ends the run; after an answer it is caught,   *)
(* and the attempt to log that as a failure ends the run.                     *)
Abort(r) ==
    /\ run[r].phase = "posting"
    /\ ~hook[Least(run[r].left)].live
    /\ \E answered \in BOOLEAN :
        reached' = IF answered THEN reached \cup {<<r, Least(run[r].left)>>} ELSE reached
    /\ run' = [run EXCEPT ![r].phase = "aborted"]
    /\ UNCHANGED <<hook, made>>

(* A 2xx answer. *)
Succeed(r) ==
    LET s == Least(run[r].left) IN
    /\ run[r].phase = "posting" /\ hook[s].live
    /\ reached' = reached \cup {<<r, s>>}
    /\ hook' = [hook EXCEPT ![s].fails = 0]
    /\ run' = Onward(r)
    /\ UNCHANGED made

(* An error, another status or a timeout, with attempts left. *)
FailAttempt(r) ==
    /\ run[r].phase = "posting" /\ hook[Least(run[r].left)].live
    /\ run[r].attempt < MaxAttempts
    /\ run' = [run EXCEPT ![r].phase = "pausing"]
    /\ UNCHANGED <<hook, made, reached>>

(* The last attempt fails: _update_consecutive_failures counts and disables. *)
(* The count is not told apart above the limit.                              *)
GiveUp(r) ==
    LET s == Least(run[r].left) IN
    /\ run[r].phase = "posting" /\ hook[s].live /\ run[r].attempt = MaxAttempts
    /\ hook' = [hook EXCEPT ![s].fails = IF @ < FailLimit THEN @ + 1 ELSE @,
                            ![s].enabled = IF hook[s].fails + 1 >= FailLimit THEN FALSE ELSE @]
    /\ run' = Onward(r)
    /\ UNCHANGED <<made, reached>>

(* The pause is over. *)
Resume(r) ==
    /\ run[r].phase = "pausing"
    /\ run' = [run EXCEPT ![r].phase = "posting", ![r].attempt = @ + 1]
    /\ UNCHANGED <<hook, made, reached>>

HookStep(r) ==
    \/ Abort(r) \/ Succeed(r) \/ FailAttempt(r) \/ GiveUp(r) \/ Resume(r)

HooksNext ==
    \/ CreateSub
    \/ \E s \in Sub : DeleteSub(s) \/ EnableSub(s) \/ DisableSub(s)
    \/ \E r \in Run : Deliver(r) \/ HookStep(r)

-----------------------------------------------------------------------------
(* A subscription at the limit of consecutive failures is disabled, with      *)
(* several runs failing on it while administrators enable it again.           *)
LimitDisables ==
    \A s \in Sub : hook[s].live /\ hook[s].enabled => hook[s].fails < FailLimit

(* A subscription that answered a run is not posted to again by it, however  *)
(* often it was switched, disabled or deleted meanwhile.                      *)
AnsweredOnce ==
    \A r \in Run, s \in Sub : <<r, s>> \in reached /\ run[r].phase # "aborted" => s \notin run[r].left

(* Every delivery comes to an end, however its endpoints answer.              *)
DeliveryEnds ==
    \A r \in Run : run[r].phase = "posting" ~> run[r].phase \in {"done", "aborted"}
=============================================================================
