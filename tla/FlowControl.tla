---------------------------- MODULE FlowControl ----------------------------
(* Per-agent dispatch decisions (orchestration/flow_control.py): slots,    *)
(* consecutive dispatch failures and a circuit breaker.  An AgentFlowState *)
(* is a record; every method is an operator from the old to the new one.   *)
(* An agent without a state behaves like one with a fresh state.           *)
EXTENDS Integers

CONSTANTS
    MaxConcurrent,      \* max_concurrent_tasks; 0 is unlimited
    Threshold           \* circuit_breaker_threshold

ASSUME LimitAssumption == MaxConcurrent \in Nat /\ Threshold \in Nat \ {0}

(* circuit_tripped_until: 0, ahead of now, or reached but not yet noticed. *)
Circuit == {"closed", "open", "elapsed"}

AgentFlowState == [slots : Nat, failures : Nat, circuit : Circuit]

Fresh == [slots |-> 0, failures |-> 0, circuit |-> "closed"]

(* Mutants: the reset keeps the failure count; it never happens. *)
RefreshedHalfway(s) == IF s.circuit = "elapsed" THEN [s EXCEPT !.circuit = "closed"] ELSE s
NeverRefreshed(s) == s

(* _is_circuit_tripped resets a breaker whose cooldown is over. *)
Refreshed(s) ==
    IF s.circuit = "elapsed" THEN [s EXCEPT !.circuit = "closed", !.failures = 0] ELSE s

(* Mutant: off by one. *)
CanDispatchOneMore(s) ==
    /\ Refreshed(s).circuit = "closed"
    /\ MaxConcurrent > 0 => s.slots <= MaxConcurrent

(* can_dispatch; the caller also keeps Refreshed(s). *)
CanDispatch(s) ==
    /\ Refreshed(s).circuit = "closed"
    /\ MaxConcurrent > 0 => s.slots < MaxConcurrent

(* on_task_dispatched, then on_task_arrived. *)
Succeeded(s) == [s EXCEPT !.slots = @ + 1, !.failures = 0]

(* on_task_failed, then on_task_departed. *)
Failed(s) ==
    LET n == s.failures + 1
    IN  [slots |-> IF s.slots = 0 THEN 0 ELSE s.slots - 1,
         failures |-> n,
         circuit |-> IF n >= Threshold THEN "open" ELSE s.circuit]
=============================================================================
