------------------------------- MODULE Lease -------------------------------
(* What claims on tasks and locks on files promise, whatever tables, timers  *)
(* and retries they are made of: a resource has at most one owner, it is     *)
(* taken only while nobody has it, and never passes from one owner to        *)
(* another directly.  TaskStore, Dispatcher and SharedWorkspace implement    *)
(* this specification.                                                       *)

CONSTANTS
    Resource,       \* tasks or files
    Owner,          \* claim locks or agents
    Nobody

VARIABLE owner      \* [Resource -> Owner \cup {Nobody}]

Init == owner = [r \in Resource |-> Nobody]

Acquire(r, o) ==
    /\ owner[r] = Nobody
    /\ owner' = [owner EXCEPT ![r] = o]

(* Owners may give up, or lose, any number of resources at once: a TTL or    *)
(* an expiry ends leases together.                                           *)
Release(S) == owner' = [r \in Resource |-> IF r \in S THEN Nobody ELSE owner[r]]

Next ==
    \/ \E r \in Resource, o \in Owner : Acquire(r, o)
    \/ \E S \in SUBSET Resource : Release(S)

Spec == Init /\ [][Next]_owner
=============================================================================
