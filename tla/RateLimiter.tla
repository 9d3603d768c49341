---------------------------- MODULE RateLimiter ----------------------------
(* The request limiter: rate_limiter.MemoryTokenBucket behind the            *)
(* middleware, which runs after the authentication.  A bucket belongs to a   *)
(* key and is refilled when a request reads it.  The key is the client where *)
(* the authentication looked at the request, and its address on the public   *)
(* paths it skips; each kind of key has its rate.                            *)
EXTENDS Naturals

CONSTANTS
    Client,         \* authenticated clients
    Ip,             \* addresses
    IpOf,           \* [Client -> Ip]; clients may share one
    Whitelist,      \* clients exempt from limits
    High, Low,      \* the rates, per minute and as a burst: clients, addresses
    MaxTime         \* bounds the clock, in minutes

ASSUME RateAssumption ==
    /\ Client \cap Ip = {} /\ IpOf \in [Client -> Ip] /\ Whitelist \subseteq Client
    /\ High \in Nat /\ Low \in Nat /\ MaxTime \in Nat

VARIABLES
    bucket,         \* [RateKey -> tokens, or NoBucket]
    refilled,       \* [RateKey -> the time of the last refill]
    clock,
    admitted        \* [RateKey -> requests let through]

rateVars == <<bucket, refilled, clock, admitted>>

RateKey == Client \cup Ip
Rate(k) == IF k \in Client THEN High ELSE Low
NoBucket == High + Low + 1
AtMost(a, b) == IF a <= b THEN a ELSE b

RateInit ==
    /\ bucket = [k \in RateKey |-> NoBucket]
    /\ refilled = [k \in RateKey |-> 0]
    /\ clock = 0
    /\ admitted = [k \in RateKey |-> 0]

(* The tokens a request finds. *)
Level(k) ==
    IF bucket[k] = NoBucket THEN Rate(k)
    ELSE AtMost(bucket[k] + (clock - refilled[k]) * Rate(k), Rate(k))

(* Mutant: the time of the refill is only set with the bucket. *)
ConsumeRefilledOnce(k) ==
    LET passes == Level(k) >= 1 IN
    /\ bucket' = [bucket EXCEPT ![k] = IF passes THEN Level(k) - 1 ELSE Level(k)]
    /\ refilled' = [refilled EXCEPT ![k] = IF bucket[k] = NoBucket THEN clock ELSE @]
    /\ admitted' = [admitted EXCEPT ![k] = IF passes THEN @ + 1 ELSE @]
    /\ UNCHANGED clock

(* consume(key, 1, rate, rate), under its lock. *)
Consume(k) ==
    LET passes == Level(k) >= 1 IN
    /\ bucket' = [bucket EXCEPT ![k] = IF passes THEN Level(k) - 1 ELSE Level(k)]
    /\ refilled' = [refilled EXCEPT ![k] = clock]
    /\ admitted' = [admitted EXCEPT ![k] = IF passes THEN @ + 1 ELSE @]
    /\ UNCHANGED clock

(* _rate_limit_middleware.  On a public path nobody is known to be           *)
(* whitelisted; elsewhere a client on the list passes uncounted.             *)
Request(c, public) ==
    /\ public \/ c \notin Whitelist
    /\ Consume(IF public THEN IpOf[c] ELSE c)

MinutePasses ==
    /\ clock < MaxTime
    /\ clock' = clock + 1
    /\ UNCHANGED <<bucket, refilled, admitted>>

RateNext ==
    \/ \E c \in Client, public \in BOOLEAN : Request(c, public)
    \/ MinutePasses

RateSpec == RateInit /\ [][RateNext]_rateVars

-----------------------------------------------------------------------------
(* A key gets no more than one burst and the refill of the time that has     *)
(* passed: a client on the paths that ask who it is, an address, for all who *)
(* share it, on the public ones.                                             *)
AdmittedWithinBudget ==
    \A k \in RateKey : admitted[k] <= Rate(k) + clock * Rate(k)

(* The budget is spent where it is counted: what is left in a bucket never   *)
(* exceeds what its key has not used, refused requests included.             *)
LeftWithinBudget ==
    \A k \in RateKey : bucket[k] # NoBucket =>
        bucket[k] + admitted[k] <= Rate(k) + refilled[k] * Rate(k)

(* No order of requests, refusals and refills gives a key more than its      *)
(* budget, whichever clients and addresses the requests come from.           *)
BudgetKept == AdmittedWithinBudget /\ LeftWithinBudget
=============================================================================
