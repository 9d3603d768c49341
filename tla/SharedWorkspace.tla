-------------------------- MODULE SharedWorkspace --------------------------
(* shared_workspace.SharedWorkspaceManager and its routes, for one workspace *)
(* directory: members, and locks on its files that end with time.  The       *)
(* methods are synchronous; a lock is looked up and taken in two statements, *)
(* which calls of other threads come between.                                *)
EXTENDS Naturals, FiniteSets

CONSTANTS
    Member,         \* agents
    File,
    Threads,        \* threads that call the manager: 1 under the event loop
    MaxTtl,         \* bounds the ttl a request asks for
    DefaultTtl,     \* lock_ttl, also the age at which the reaper takes a lock
    MaxNow          \* bounds the clock

ASSUME WorkspaceAssumption ==
    Threads \in Nat /\ MaxTtl \in Nat /\ DefaultTtl \in Nat /\ MaxNow \in Nat

VARIABLES
    owner,          \* created_by, NoMember when there is no such workspace
    members,        \* member_agent_ids
    flock,          \* workspace_files: [File -> [by, expires]]
    wnow,           \* time.time()
    looking         \* calls of lock between the SELECT and the UPDATE

wsVars == <<owner, members, flock, wnow, looking>>

NoMember == "nobody"
NoName == "anonymous"     \* a caller whose agent id is ""
Unlocked == [by |-> NoMember, expires |-> 0]

(* A lock counts while its time is not over. *)
Held(f) == flock[f].by # NoMember /\ flock[f].expires > wnow

WsInit ==
    /\ owner = NoMember /\ members = {}
    /\ flock = [f \in File |-> Unlocked]
    /\ wnow = 0 /\ looking = {}

(* create: the creator is a member. *)
CreateWorkspace(a, M) ==
    /\ owner = NoMember
    /\ owner' = a /\ members' = M \cup {a}
    /\ UNCHANGED <<flock, wnow, looking>>

(* delete: by the creator, or by a caller without a name; the files go first. *)
DeleteWorkspace(a) ==
    /\ owner # NoMember /\ a \in {owner, NoName}
    /\ owner' = NoMember /\ members' = {}
    /\ flock' = [f \in File |-> Unlocked]
    /\ UNCHANGED <<wnow, looking>>

JoinWorkspace(a) ==
    /\ owner # NoMember
    /\ members' = members \cup {a}
    /\ UNCHANGED <<owner, flock, wnow, looking>>

(* leave: the locks the agent still holds are released.                      *)
LeaveWorkspace(a) ==
    /\ owner # NoMember /\ a \in members
    /\ members' = members \ {a}
    /\ flock' = [f \in File |-> IF Held(f) /\ flock[f].by = a THEN Unlocked ELSE flock[f]]
    /\ UNCHANGED <<owner, wnow, looking>>

-----------------------------------------------------------------------------
(* Mutant: whoever is a member gets the lock. *)
LockLookUnchecked(a, f, ttl) ==
    /\ Cardinality(looking) < Threads
    /\ owner # NoMember /\ a \in members
    /\ looking' = looking \cup {[by |-> a, file |-> f, expires |-> wnow + ttl]}
    /\ UNCHANGED <<owner, members, flock, wnow>>

(* lock, up to its SELECT: the agent is a member, nobody else has the lock.  *)
LockLook(a, f, ttl) ==
    /\ Cardinality(looking) < Threads
    /\ owner # NoMember /\ a \in members
    /\ ~Held(f) \/ flock[f].by = a
    /\ looking' = looking \cup {[by |-> a, file |-> f, expires |-> wnow + ttl]}
    /\ UNCHANGED <<owner, members, flock, wnow>>

(* lock, from the UPDATE or INSERT on; a workspace deleted by then fails the *)
(* foreign key.                                                              *)
LockTake(c) ==
    /\ c \in looking
    /\ looking' = looking \ {c}
    /\ flock' = IF owner = NoMember THEN flock
                ELSE [flock EXCEPT ![c.file] = [by |-> c.by, expires |-> c.expires]]
    /\ UNCHANGED <<owner, members, wnow>>

(* unlock: a lock whose time is over is still refused to others.             *)
Unlock(a, f) ==
    /\ owner # NoMember
    /\ flock[f].by \in {a, NoMember}
    /\ flock' = [flock EXCEPT ![f] = Unlocked]
    /\ UNCHANGED <<owner, members, wnow, looking>>

(* reap_stale_locks *)
ReapStaleLocks ==
    /\ flock' = [f \in File |-> IF flock[f].expires + DefaultTtl < wnow
                                THEN Unlocked ELSE flock[f]]
    /\ UNCHANGED <<owner, members, wnow, looking>>

TimePasses ==
    /\ wnow < MaxNow
    /\ wnow' = wnow + 1
    /\ UNCHANGED <<owner, members, flock, looking>>

(* A thread serves one call at a time. *)
WsRequest ==
    \/ \E a \in Member :
          \/ \E M \in SUBSET Member : CreateWorkspace(a, M)
          \/ DeleteWorkspace(a) \/ JoinWorkspace(a) \/ LeaveWorkspace(a)
          \/ \E f \in File : Unlock(a, f)
          \/ \E f \in File, ttl \in 0..MaxTtl : LockLook(a, f, ttl)
    \/ DeleteWorkspace(NoName)
    \/ ReapStaleLocks

WsNext ==
    \/ Cardinality(looking) < Threads /\ WsRequest
    \/ \E c \in looking : LockTake(c)
    \/ TimePasses

WsSpec == WsInit /\ [][WsNext]_wsVars

-----------------------------------------------------------------------------
(* A lock that counts belongs to a member, through leaving, expiry, deletion *)
(* and a call of lock that is under way.                                     *)
HolderIsMember == \A f \in File : Held(f) => flock[f].by \in members

(* "Acquire an exclusive file-level lock": a lock does not pass from one     *)
(* agent to another before its time is over.                                 *)
LockKept ==
    [][\A f \in File : Held(f) /\ flock'[f].by # NoMember
            => flock'[f].by = flock[f].by]_wsVars

(* The lock that counts, as other agents see it.                             *)
LockOwner == [f \in File |-> IF Held(f) THEN flock[f].by ELSE NoMember]

FileLocks == INSTANCE Lease WITH Resource <- File, Owner <- Member,
                                 Nobody <- NoMember, owner <- LockOwner

(* File locks are exclusive leases, although each is looked up and taken in  *)
(* two statements and ends by itself when its time is over: somebody else's  *)
(* lock is never taken over, and locking one file never touches another.     *)
LocksAreLeases == FileLocks!Spec

(* What lock promises the agent that got one.                                *)
LocksKept == LockKept /\ LocksAreLeases
=============================================================================
