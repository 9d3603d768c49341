---------------------------- MODULE AgentMemory ----------------------------
(* memory.AgentMemoryStore and memory_routes: entries of an agent, under a   *)
(* key and a namespace, that may have a time to live.  Each method holds the *)
(* store's lock.  A slot is a key in a namespace.                            *)
EXTENDS Naturals

CONSTANTS
    Caller,         \* agents; "admin" stands for the scope registry:admin
    Slot,
    Content,
    MaxLife,        \* bounds the ttl
    MaxHour         \* bounds the clock

ASSUME MemoryAssumption == MaxLife \in Nat /\ MaxHour \in Nat

VARIABLES
    memory,         \* agent_memory: [Caller -> [Slot -> [val, expires]]]
    hour,           \* time.time()
    wrote           \* the last value set for a slot, and until when: history

memVars == <<memory, hour, wrote>>

Never == MaxHour + MaxLife + 1      \* expires_at IS NULL
NoContent == "nothing"
NoMemory == [val |-> NoContent, expires |-> Never]

(* The row a query finds: one that has expired is not returned.              *)
Get(a, s) == IF memory[a][s].expires > hour THEN memory[a][s].val ELSE NoContent

(* _resolve_agent_id *)
MayUse(c, a) == c = "admin" \/ c = a

MemInit ==
    /\ memory = [a \in Caller |-> [s \in Slot |-> NoMemory]]
    /\ hour = 0
    /\ wrote = memory

(* set: a row that is there, expired or not, is overwritten.  A negative ttl *)
(* counts as none.                                                           *)
SetMemory(c, a, s, v, ttl) ==
    LET row == [val |-> v, expires |-> IF ttl > 0 THEN hour + ttl ELSE Never] IN
    /\ MayUse(c, a)
    /\ memory' = [memory EXCEPT ![a][s] = row]
    /\ wrote' = [wrote EXCEPT ![a][s] = row]
    /\ UNCHANGED hour

DeleteMemory(c, a, s) ==
    /\ MayUse(c, a)
    /\ memory' = [memory EXCEPT ![a][s] = NoMemory]
    /\ wrote' = [wrote EXCEPT ![a][s] = NoMemory]
    /\ UNCHANGED hour

(* purge_expired *)
PurgeExpired ==
    /\ memory' = [a \in Caller |-> [s \in Slot |->
          IF memory[a][s].expires <= hour THEN NoMemory ELSE memory[a][s]]]
    /\ UNCHANGED <<hour, wrote>>

HourPasses ==
    /\ hour < MaxHour
    /\ hour' = hour + 1
    /\ UNCHANGED <<memory, wrote>>

MemNext ==
    \/ \E c \in Caller \cup {"admin"}, a \in Caller, s \in Slot :
          \/ DeleteMemory(c, a, s)
          \/ \E v \in Content, ttl \in 0..MaxLife : SetMemory(c, a, s, v, ttl)
    \/ PurgeExpired \/ HourPasses

-----------------------------------------------------------------------------
(* What a query returns is the last value set, exactly until its own time to *)
(* live is over, whenever the purge runs and whatever the entry was before.  *)
ReadsLastWrite ==
    \A a \in Caller, s \in Slot :
        Get(a, s) = IF wrote[a][s].expires > hour THEN wrote[a][s].val ELSE NoContent
=============================================================================
