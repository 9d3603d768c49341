--------------------------- MODULE ServicesProofs ---------------------------
(* What is proved of three services of the server: the request limiter, the  *)
(* database connection that every store shares, and the file locks of a      *)
(* shared workspace.                                                         *)
EXTENDS RateLimiter, SharedConnection, SharedWorkspace, FiniteSetTheorems, TLAPS

-----------------------------------------------------------------------------
(* The budget of the request limiter, for any rates and any time. *)

RateTypeOK ==
    /\ bucket \in [RateKey -> 0..NoBucket]
    /\ refilled \in [RateKey -> Nat]
    /\ clock \in Nat
    /\ admitted \in [RateKey -> Nat]

(* A bucket is never refilled ahead of the clock; a key without one has not *)
(* been let through.                                                        *)
RateInv ==
    /\ RateTypeOK
    /\ \A k \in RateKey :
        /\ refilled[k] <= clock
        /\ bucket[k] = NoBucket => admitted[k] = 0
    /\ LeftWithinBudget

LEMMA RateBound == \A k \in RateKey : Rate(k) \in Nat /\ Rate(k) < NoBucket /\ NoBucket \in Nat
BY RateAssumption DEF Rate, NoBucket

(* The time that passed between two requests counts once. *)
LEMMA RefillAdds ==
    ASSUME NEW r \in Nat, NEW t \in Nat, NEW n \in Nat, r <= t
    PROVE  /\ (t - r) * n \in Nat
           /\ r * n + (t - r) * n = t * n
           /\ r * n \in Nat /\ t * n \in Nat
<1> DEFINE d == t - r
<1>1. d \in Nat /\ t = r + d
    BY SMT
<1> HIDE DEF d
<1>2. (r + d) * n = r * n + d * n /\ r * n \in Nat /\ d * n \in Nat
    BY <1>1, SMT
<1>3. t * n = r * n + d * n
    BY <1>1, <1>2
<1> QED
    BY <1>1, <1>2, <1>3, SMT DEF d

LEMMA RateInit_Inv == RateInit => RateInv
<1> SUFFICES ASSUME RateInit PROVE RateInv
    OBVIOUS
<1>1. NoBucket \in Nat
    BY RateAssumption DEF NoBucket
<1> QED
    BY <1>1 DEF RateInit, RateInv, RateTypeOK, LeftWithinBudget

(* What a request finds: no more than its rate, and no more than what was    *)
(* left and the refill of the time since.                                    *)
LEMMA LevelBounded ==
    ASSUME RateInv, NEW k \in RateKey
    PROVE  /\ Level(k) \in 0..Rate(k)
           /\ bucket[k] = NoBucket => Level(k) = Rate(k)
           /\ bucket[k] # NoBucket =>
                Level(k) <= bucket[k] + (clock - refilled[k]) * Rate(k)
<1> DEFINE n == Rate(k)
           d == clock - refilled[k]
           x == d * n
<1>1. /\ n \in Nat /\ n < NoBucket /\ NoBucket \in Nat
      /\ bucket[k] \in Nat /\ d \in Nat
    BY RateBound DEF RateInv, RateTypeOK
<1>2. x \in Nat
    BY <1>1, RateBound, RefillAdds DEF RateInv, RateTypeOK
<1>3. Level(k) = IF bucket[k] = NoBucket THEN n ELSE AtMost(bucket[k] + x, n)
    BY DEF Level
<1> HIDE DEF x, n
<1>4. /\ Level(k) \in 0..n
      /\ bucket[k] = NoBucket => Level(k) = n
      /\ bucket[k] # NoBucket => Level(k) <= bucket[k] + x
    BY <1>1, <1>2, <1>3 DEF AtMost
<1> QED
    BY <1>4 DEF x, n

LEMMA Consume_Inv == ASSUME RateInv, NEW k \in RateKey, Consume(k) PROVE RateInv'
<1> DEFINE n == Rate(k)
           level == Level(k)
           r == refilled[k] * n
           x == (clock - refilled[k]) * n
           t == clock * n
<1>1. /\ n \in Nat /\ n < NoBucket /\ NoBucket \in Nat
      /\ level \in 0..n
      /\ bucket[k] = NoBucket => level = n
      /\ bucket[k] # NoBucket => level <= bucket[k] + x
    BY RateBound, LevelBounded
<1>2. /\ bucket' = [bucket EXCEPT ![k] = IF level >= 1 THEN level - 1 ELSE level]
      /\ refilled' = [refilled EXCEPT ![k] = clock]
      /\ admitted' = [admitted EXCEPT ![k] = IF level >= 1 THEN @ + 1 ELSE @]
      /\ clock' = clock
    BY DEF Consume
<1>3. /\ bucket \in [RateKey -> 0..NoBucket] /\ refilled \in [RateKey -> Nat]
      /\ clock \in Nat /\ admitted \in [RateKey -> Nat]
      /\ \A j \in RateKey : refilled[j] <= clock
      /\ \A j \in RateKey : bucket[j] = NoBucket => admitted[j] = 0
      /\ bucket[k] # NoBucket => bucket[k] + admitted[k] <= n + r
    BY DEF RateInv, RateTypeOK, LeftWithinBudget
<1>4. x \in Nat /\ r \in Nat /\ t \in Nat /\ r + x = t
    BY <1>1, <1>3, RefillAdds
<1> HIDE DEF n, level, r, x, t
<1>5. RateTypeOK'
    BY <1>1, <1>2, <1>3 DEF RateTypeOK
<1>6. bucket'[k] # NoBucket /\ bucket'[k] + admitted'[k] = level + admitted[k]
    BY <1>1, <1>2, <1>3
<1>7. level + admitted[k] <= n + t
    <2>1. bucket[k] \in Nat /\ admitted[k] \in Nat /\ level \in Nat /\ level <= n
        BY <1>1, <1>3
    <2> QED
        BY <1>1, <1>3, <1>4, <2>1
<1>8. LeftWithinBudget'
    <2>1. bucket'[k] # NoBucket => bucket'[k] + admitted'[k] <= Rate(k) + refilled'[k] * Rate(k)
        <3>1. refilled'[k] * Rate(k) = t
            BY <1>2, <1>3 DEF t, n
        <3> QED
            BY <1>6, <1>7, <3>1 DEF n
    <2>2. \A j \in RateKey \ {k} : /\ bucket'[j] = bucket[j] /\ admitted'[j] = admitted[j]
                                   /\ refilled'[j] = refilled[j]
        BY <1>2, <1>3
    <2> QED
        BY <2>1, <2>2 DEF RateInv, LeftWithinBudget, NoBucket, Rate
<1>9. \A j \in RateKey : refilled'[j] <= clock' /\ (bucket'[j] = NoBucket => admitted'[j] = 0)
    BY <1>2, <1>3, <1>6
<1> QED
    BY <1>5, <1>8, <1>9 DEF RateInv, NoBucket

LEMMA RateStep_Inv == RateInv /\ [RateNext]_rateVars => RateInv'
<1> SUFFICES ASSUME RateInv, [RateNext]_rateVars PROVE RateInv'
    OBVIOUS
<1>1. CASE UNCHANGED rateVars
    BY <1>1 DEF rateVars, RateInv, RateTypeOK, LeftWithinBudget, RateKey, Rate, NoBucket
<1>2. CASE MinutePasses
    BY <1>2 DEF MinutePasses, RateInv, RateTypeOK, LeftWithinBudget, RateKey, Rate, NoBucket
<1>3. ASSUME NEW c \in Client, NEW public \in BOOLEAN, Request(c, public)
      PROVE  RateInv'
    <2>1. IpOf[c] \in RateKey /\ c \in RateKey
        BY RateAssumption DEF RateKey
    <2> QED
        BY <1>3, <2>1, Consume_Inv DEF Request
<1> QED
    BY <1>1, <1>2, <1>3 DEF RateNext

(* Whatever mix of public and other paths the clients of an address use, a   *)
(* key is let through at most once per token of its first burst and of the   *)
(* refill since (rate_limiter.py, MemoryTokenBucket.consume).                *)
THEOREM BudgetIsKept == RateSpec => []BudgetKept
<1>1. RateInv => BudgetKept
    <2> SUFFICES ASSUME RateInv PROVE AdmittedWithinBudget
        BY DEF RateInv, BudgetKept
    <2> SUFFICES ASSUME NEW k \in RateKey PROVE admitted[k] <= Rate(k) + clock * Rate(k)
        BY DEF AdmittedWithinBudget
    <2> DEFINE n == Rate(k)
               r == refilled[k] * n
               x == (clock - refilled[k]) * n
               t == clock * n
    <2>1. /\ n \in Nat /\ refilled[k] \in Nat /\ clock \in Nat
          /\ refilled[k] <= clock /\ admitted[k] \in Nat /\ bucket[k] \in Nat
          /\ bucket[k] = NoBucket => admitted[k] = 0
          /\ bucket[k] # NoBucket => bucket[k] + admitted[k] <= n + r
        BY RateBound DEF RateInv, RateTypeOK, LeftWithinBudget
    <2>2. x \in Nat /\ r \in Nat /\ t \in Nat /\ r + x = t
        BY <2>1, RefillAdds
    <2> HIDE DEF n, r, x, t
    <2>3. admitted[k] <= n + t
        BY <2>1, <2>2
    <2> QED
        BY <2>3 DEF n, t
<1> QED
    BY <1>1, RateInit_Inv, RateStep_Inv, PTL DEF RateSpec

-----------------------------------------------------------------------------
(* One connection under two disciplines, for any calls and any number of    *)
(* statements in them.                                                      *)

Row == DbCall \X (1..Statements)

DbTypeOK ==
    /\ onDisk \subseteq Row /\ pending \subseteq Row
    /\ calling \in DbCall \cup {NoCall}
    /\ stage \in 0..Statements
    /\ answer \in [DbCall -> {"none", "ok", "raised", "lost"}]

(* Where a row comes from: what is pending belongs to the call that runs or *)
(* to a plain call that raised; what is stored, to a call that returned or  *)
(* to a plain call that raised.                                             *)
RowsAccounted ==
    /\ \A c \in DbCall, i \in 1..Statements :
        /\ <<c, i>> \in pending =>
            c = calling \/ (c \in PlainCall /\ answer[c] = "raised")
        /\ <<c, i>> \in onDisk =>
            answer[c] = "ok" \/ (c \in PlainCall /\ answer[c] = "raised")
        /\ answer[c] = "ok" => <<c, i>> \in onDisk

(* The call that runs has not been answered, and every statement of it that *)
(* is done has its row pending.                                             *)
CallUnderWay ==
    /\ calling # NoCall =>
        /\ answer[calling] = "none"
        /\ \A i \in 1..stage : <<calling, i>> \in pending
    /\ calling = NoCall => stage = 0
    /\ calling = NoCall /\ inTx => \E c \in PlainCall : answer[c] = "raised"

DbInv == DbTypeOK /\ RowsAccounted /\ CallUnderWay

LEMMA NoCallIsNone ==
    NoCall \notin DbCall /\ TxCall \cap PlainCall = {} /\ Statements \in Nat
BY ConnectionAssumption DEF NoCall, DbCall

LEMMA DbInit_Inv == DbInit => DbInv
BY NoCallIsNone DEF DbInit, DbInv, DbTypeOK, RowsAccounted, CallUnderWay

(* BEGIN inside a transaction another call left open: refused on SQLite, a   *)
(* commit of what is pending on MySQL.                                       *)
LEMMA BeginTx_Inv == ASSUME DbInv, NEW c \in TxCall, BeginTx(c) PROVE DbInv'
<1> USE NoCallIsNone
<1>0. DbTypeOK /\ RowsAccounted /\ CallUnderWay /\ c \in DbCall /\ c \notin PlainCall
    BY DEF DbInv, DbCall
<1>1. CASE answer' = [answer EXCEPT ![c] = "raised"]
           /\ UNCHANGED <<onDisk, pending, inTx, calling, stage, tries>>
    <2>1. DbTypeOK'
        BY <1>0, <1>1 DEF DbTypeOK
    <2>2. RowsAccounted'
        BY <1>0, <1>1 DEF BeginTx, RowsAccounted, DbTypeOK
    <2>3. CallUnderWay'
        BY <1>0, <1>1 DEF BeginTx, CallUnderWay, DbTypeOK, DbCall
    <2> QED
        BY <2>1, <2>2, <2>3 DEF DbInv
<1>2. CASE Begun /\ calling' = c /\ UNCHANGED <<stage, tries, answer>>
    <2>1. DbTypeOK'
        BY <1>0, <1>2 DEF Begun, DbTypeOK
    <2>2. RowsAccounted'
        BY <1>0, <1>2 DEF Begun, BeginTx, RowsAccounted, DbTypeOK
    <2>3. CallUnderWay'
        BY <1>0, <1>2 DEF Begun, BeginTx, CallUnderWay, DbTypeOK
    <2> QED
        BY <2>1, <2>2, <2>3 DEF DbInv
<1> QED
    BY <1>1, <1>2 DEF BeginTx

LEMMA Execute_Inv == DbInv /\ Execute => DbInv'
<1> SUFFICES ASSUME DbInv, Execute PROVE DbInv'
    OBVIOUS
<1> USE NoCallIsNone
<1>0. DbTypeOK /\ RowsAccounted /\ CallUnderWay /\ calling \in DbCall
    BY DEF DbInv, DbTypeOK, Execute
<1>1. stage + 1 \in 1..Statements
    BY <1>0 DEF Execute, DbTypeOK
<1>2. DbTypeOK'
    BY <1>0, <1>1 DEF Execute, DbTypeOK, Row
<1>3. RowsAccounted'
    BY <1>0, <1>1 DEF Execute, RowsAccounted
<1>4. CallUnderWay'
    BY <1>0, <1>1 DEF Execute, CallUnderWay, DbTypeOK
<1> QED
    BY <1>2, <1>3, <1>4 DEF DbInv

(* The ways a call ends. *)
LEMMA Ends_Inv == DbInv /\ (TxRaises \/ PlainRaises \/ Commit) => DbInv'
<1> SUFFICES ASSUME DbInv, TxRaises \/ PlainRaises \/ Commit PROVE DbInv'
    OBVIOUS
<1> USE NoCallIsNone
<1>0. DbTypeOK /\ RowsAccounted /\ CallUnderWay /\ calling \in DbCall
      /\ answer[calling] = "none" /\ calling # NoCall
    BY DEF DbInv, DbTypeOK, CallUnderWay, TxRaises, PlainRaises, Commit, DbCall
<1>1. CASE TxRaises
    <2>1. DbTypeOK'
        BY <1>0, <1>1 DEF TxRaises, Returns, DbTypeOK
    <2>2. RowsAccounted'
        BY <1>0, <1>1 DEF TxRaises, Returns, RowsAccounted, DbTypeOK
    <2>3. CallUnderWay'
        BY <1>0, <1>1 DEF TxRaises, Returns, CallUnderWay
    <2> QED
        BY <2>1, <2>2, <2>3 DEF DbInv
<1>2. CASE PlainRaises
    <2>1. DbTypeOK'
        BY <1>0, <1>2 DEF PlainRaises, Returns, DbTypeOK
    <2>2. RowsAccounted'
        BY <1>0, <1>2 DEF PlainRaises, Returns, RowsAccounted, DbTypeOK
    <2>3. CallUnderWay'
        BY <1>0, <1>2 DEF PlainRaises, Returns, CallUnderWay, DbTypeOK
    <2> QED
        BY <2>1, <2>2, <2>3 DEF DbInv
<1>3. CASE Commit
    <2>1. DbTypeOK'
        BY <1>0, <1>3 DEF Commit, Returns, DbTypeOK
    <2>2. RowsAccounted'
        BY <1>0, <1>3 DEF Commit, Returns, RowsAccounted, CallUnderWay, DbTypeOK
    <2>3. CallUnderWay'
        BY <1>0, <1>3 DEF Commit, Returns, CallUnderWay
    <2> QED
        BY <2>1, <2>2, <2>3 DEF DbInv
<1> QED
    BY <1>1, <1>2, <1>3

LEMMA Crash_Inv == DbInv /\ ServerCrashes => DbInv'
<1> SUFFICES ASSUME DbInv, ServerCrashes PROVE DbInv'
    OBVIOUS
<1> USE NoCallIsNone
<1>0. DbTypeOK /\ RowsAccounted /\ CallUnderWay
    BY DEF DbInv
<1>1. DbTypeOK'
    BY <1>0 DEF ServerCrashes, DbTypeOK
<1>2. RowsAccounted'
    BY <1>0 DEF ServerCrashes, RowsAccounted, CallUnderWay, DbTypeOK
<1>3. CallUnderWay'
    BY <1>0 DEF ServerCrashes, CallUnderWay
<1> QED
    BY <1>1, <1>2, <1>3 DEF DbInv

LEMMA DbStep_Inv == DbInv /\ [DbNext]_dbVars => DbInv'
<1> SUFFICES ASSUME DbInv, [DbNext]_dbVars PROVE DbInv'
    OBVIOUS
<1>1. CASE UNCHANGED dbVars
    BY <1>1 DEF dbVars, DbInv, DbTypeOK, RowsAccounted, CallUnderWay
<1>2. CASE TryAgain
    BY <1>2 DEF TryAgain, DbInv, DbTypeOK, RowsAccounted, CallUnderWay
<1>3. ASSUME NEW c \in PlainCall, StartPlain(c) PROVE DbInv'
    BY <1>3, NoCallIsNone
       DEF StartPlain, DbInv, DbTypeOK, RowsAccounted, CallUnderWay, DbCall
<1> QED
    BY <1>1, <1>2, <1>3, BeginTx_Inv, Execute_Inv, Ends_Inv, Crash_Inv DEF DbNext

(* For any calls of any length, failing anywhere, with crashes between any    *)
(* two statements: calls of _tx are atomic, a reported success is stored, and *)
(* a transaction left open comes from a plain store's call that raised        *)
(* (store.py, Store._tx; audit.py, security/pt.py).                           *)
THEOREM ConnectionIsSound == DbSpec => []ConnectionSound
<1>1. DbInv => ConnectionSound
    <2> SUFFICES ASSUME DbInv PROVE ConnectionSound
        OBVIOUS
    <2>0. DbTypeOK /\ RowsAccounted /\ CallUnderWay
        BY DEF DbInv
    <2>1. TxAtomic
        <3> SUFFICES ASSUME NEW c \in TxCall, c # calling
                     PROVE  (onDisk \cup pending) \cap Writes(c) =
                                IF answer[c] = "ok" THEN Writes(c) ELSE {}
            BY DEF TxAtomic
        <3>1. c \in DbCall /\ c \notin PlainCall
            BY NoCallIsNone DEF DbCall
        <3>2. \A w \in Writes(c) : \E i \in 1..Statements : w = <<c, i>>
            BY DEF Writes
        <3>3. \A i \in 1..Statements :
                /\ <<c, i>> \notin pending
                /\ <<c, i>> \in onDisk <=> answer[c] = "ok"
            BY <2>0, <3>1 DEF RowsAccounted
        <3> QED
            BY <3>2, <3>3
    <2>2. OkIsStored
        BY <2>0 DEF RowsAccounted, OkIsStored, Writes
    <2>3. OpenAfterRaise
        <3> SUFFICES ASSUME calling = NoCall, inTx
                     PROVE  /\ \E c \in PlainCall : answer[c] = "raised"
                            /\ \A w \in pending :
                                w[1] \in PlainCall /\ answer[w[1]] = "raised"
            BY DEF OpenAfterRaise
        <3>1. \A w \in pending : \E c \in DbCall, i \in 1..Statements : w = <<c, i>>
            BY <2>0 DEF DbTypeOK, Row
        <3>2. \A c \in DbCall, i \in 1..Statements :
                <<c, i>> \in pending => c \in PlainCall /\ answer[c] = "raised"
            BY <2>0, NoCallIsNone DEF RowsAccounted
        <3> QED
            BY <2>0, <3>1, <3>2 DEF CallUnderWay
    <2> QED
        BY <2>1, <2>2, <2>3 DEF ConnectionSound
<1> QED
    BY <1>1, DbInit_Inv, DbStep_Inv, PTL DEF DbSpec

-----------------------------------------------------------------------------
(* The file locks of a shared workspace, when one thread calls the manager. *)

LockRecord == [by : Member \cup {NoMember}, expires : Nat]
LockCall == [by : Member, file : File, expires : Nat]

WsTypeOK ==
    /\ flock \in [File -> LockRecord]
    /\ wnow \in Nat
    /\ looking \subseteq LockCall

(* One call at a time is between its SELECT and its UPDATE, and what it read *)
(* still holds: its agent is a member, and nobody else has the file.         *)
LookIsCurrent ==
    /\ looking = {} \/ \E c \in looking : looking = {c}
    /\ \A c \in looking :
        c.by \in members /\ (Held(c.file) => flock[c.file].by = c.by)

(* A workspace that is not there has no locks. *)
DeletedIsUnlocked == owner = NoMember => \A f \in File : flock[f] = Unlocked

WsInv == WsTypeOK /\ LookIsCurrent /\ DeletedIsUnlocked /\ HolderIsMember

LEMMA UnlockedIsFree ==
    /\ Unlocked \in LockRecord /\ Unlocked.by = NoMember /\ Unlocked.expires = 0
BY DEF Unlocked, LockRecord

(* With one thread, a request finds no call of lock under way. *)
LEMMA NobodyLooks ==
    ASSUME Threads = 1, LookIsCurrent, Cardinality(looking) < Threads
    PROVE  looking = {}
<1>1. \A c : Cardinality({c}) = 1
    BY FS_Singleton
<1>2. \A c : looking # {c}
    BY <1>1
<1> QED
    BY <1>2 DEF LookIsCurrent

LEMMA WsInit_Inv == WsInit => WsInv
BY UnlockedIsFree DEF WsInit, WsInv, WsTypeOK, LookIsCurrent,
   DeletedIsUnlocked, HolderIsMember, Held

(* A whole call, made while no other one is under way. *)
LEMMA WsRequest_Inv ==
    ASSUME WsInv, looking = {}, WsRequest
    PROVE  WsInv'
<1> USE UnlockedIsFree
<1>0. WsTypeOK /\ DeletedIsUnlocked /\ HolderIsMember
    BY DEF WsInv
<1>1. ASSUME NEW a \in Member, NEW M \in SUBSET Member, CreateWorkspace(a, M)
      PROVE  WsInv'
    BY <1>0, <1>1 DEF CreateWorkspace, WsInv, WsTypeOK, LookIsCurrent,
                      DeletedIsUnlocked, HolderIsMember, Held
<1>2. ASSUME NEW a, DeleteWorkspace(a) PROVE WsInv'
    <2>1. flock' = [f \in File |-> Unlocked] /\ looking' = {} /\ wnow' = wnow
        BY <1>2 DEF DeleteWorkspace
    <2> QED
        BY <1>0, <2>1 DEF WsInv, WsTypeOK, LookIsCurrent, DeletedIsUnlocked,
                          HolderIsMember, Held
<1>3. ASSUME NEW a \in Member, JoinWorkspace(a) PROVE WsInv'
    BY <1>0, <1>3 DEF JoinWorkspace, WsInv, WsTypeOK, LookIsCurrent,
                      DeletedIsUnlocked, HolderIsMember, Held
<1>4. ASSUME NEW a \in Member, LeaveWorkspace(a) PROVE WsInv'
    <2>1. WsTypeOK'
        BY <1>0, <1>4 DEF LeaveWorkspace, WsTypeOK
    <2>2. LookIsCurrent' /\ DeletedIsUnlocked'
        BY <1>0, <1>4 DEF LeaveWorkspace, LookIsCurrent, DeletedIsUnlocked
    <2>3. HolderIsMember'
        BY <1>0, <1>4 DEF LeaveWorkspace, HolderIsMember, Held, WsTypeOK
    <2> QED
        BY <2>1, <2>2, <2>3 DEF WsInv
<1>5. ASSUME NEW a \in Member, NEW f \in File, Unlock(a, f) PROVE WsInv'
    <2>1. WsTypeOK'
        BY <1>0, <1>5 DEF Unlock, WsTypeOK
    <2>2. LookIsCurrent' /\ DeletedIsUnlocked'
        BY <1>0, <1>5 DEF Unlock, LookIsCurrent, DeletedIsUnlocked, WsTypeOK
    <2>3. HolderIsMember'
        BY <1>0, <1>5 DEF Unlock, HolderIsMember, Held, WsTypeOK
    <2> QED
        BY <2>1, <2>2, <2>3 DEF WsInv
<1>6. ASSUME NEW a \in Member, NEW f \in File, NEW ttl \in 0..MaxTtl,
             LockLook(a, f, ttl)
      PROVE  WsInv'
    <2> DEFINE c == [by |-> a, file |-> f, expires |-> wnow + ttl]
    <2>1. c \in LockCall /\ c.by = a /\ c.file = f
        BY <1>0, WorkspaceAssumption DEF LockCall, WsTypeOK
    <2> HIDE DEF c
    <2>2. /\ looking' = {c} /\ flock' = flock /\ wnow' = wnow
          /\ owner' = owner /\ members' = members
          /\ a \in members /\ (Held(f) => flock[f].by = a)
        BY <1>6 DEF LockLook, c
    <2> QED
        BY <1>0, <2>1, <2>2 DEF WsInv, WsTypeOK, LookIsCurrent,
                                DeletedIsUnlocked, HolderIsMember, Held
<1>7. CASE ReapStaleLocks
    <2>1. WsTypeOK'
        BY <1>0, <1>7 DEF ReapStaleLocks, WsTypeOK
    <2>2. LookIsCurrent' /\ DeletedIsUnlocked'
        BY <1>0, <1>7 DEF ReapStaleLocks, LookIsCurrent, DeletedIsUnlocked
    <2>3. HolderIsMember'
        BY <1>0, <1>7 DEF ReapStaleLocks, HolderIsMember, Held, WsTypeOK
    <2> QED
        BY <2>1, <2>2, <2>3 DEF WsInv
<1> QED
    BY <1>1, <1>2, <1>3, <1>4, <1>5, <1>6, <1>7 DEF WsRequest

LEMMA WsStep_Inv == Threads = 1 /\ WsInv /\ [WsNext]_wsVars => WsInv'
<1> SUFFICES ASSUME Threads = 1, WsInv, [WsNext]_wsVars PROVE WsInv'
    OBVIOUS
<1> USE UnlockedIsFree
<1>0. WsTypeOK /\ LookIsCurrent /\ DeletedIsUnlocked /\ HolderIsMember
    BY DEF WsInv
<1>1. CASE UNCHANGED wsVars
    BY <1>0, <1>1 DEF wsVars, WsInv, WsTypeOK, LookIsCurrent,
                      DeletedIsUnlocked, HolderIsMember, Held
<1>2. CASE Cardinality(looking) < Threads /\ WsRequest
    BY <1>0, <1>2, NobodyLooks, WsRequest_Inv
<1>3. ASSUME NEW c \in looking, LockTake(c) PROVE WsInv'
    <2>1. looking' = {} /\ wnow' = wnow /\ owner' = owner /\ members' = members
        BY <1>0, <1>3 DEF LockTake, LookIsCurrent
    <2>2. c \in LockCall /\ c.by \in members
        BY <1>0 DEF WsTypeOK, LookIsCurrent
    <2> DEFINE r == [by |-> c.by, expires |-> c.expires]
    <2>3. r \in LockRecord /\ r.by = c.by /\ c.file \in File
        BY <2>2 DEF LockCall, LockRecord
    <2> HIDE DEF r
    <2>4. flock' = IF owner = NoMember THEN flock ELSE [flock EXCEPT ![c.file] = r]
        BY <1>3 DEF LockTake, r
    <2>5. WsTypeOK'
        BY <1>0, <2>1, <2>3, <2>4 DEF WsTypeOK
    <2>6. LookIsCurrent' /\ DeletedIsUnlocked'
        BY <1>0, <2>1, <2>4 DEF LookIsCurrent, DeletedIsUnlocked
    <2>7. HolderIsMember'
        BY <1>0, <2>1, <2>2, <2>3, <2>4 DEF HolderIsMember, Held, WsTypeOK
    <2> QED
        BY <2>5, <2>6, <2>7 DEF WsInv
<1>4. CASE TimePasses
    <2>1. WsTypeOK' /\ DeletedIsUnlocked'
        BY <1>0, <1>4 DEF TimePasses, WsTypeOK, DeletedIsUnlocked
    <2>2. \A f \in File : Held(f)' => Held(f)
        BY <1>0, <1>4 DEF TimePasses, Held, WsTypeOK, LockRecord
    <2>3. HolderIsMember'
        BY <1>0, <1>4, <2>2 DEF TimePasses, HolderIsMember
    <2>4. LookIsCurrent'
        <3>1. \A c \in looking : c.file \in File
            BY <1>0 DEF WsTypeOK, LockCall
        <3> QED
            BY <1>0, <1>4, <2>2, <3>1 DEF TimePasses, LookIsCurrent, Held
    <2> QED
        BY <2>1, <2>3, <2>4 DEF WsInv
<1> QED
    BY <1>1, <1>2, <1>3, <1>4 DEF WsNext

(* No step hands a lock that counts from one agent to another. *)
LEMMA LockStep ==
    ASSUME Threads = 1, WsInv, [WsNext]_wsVars,
           NEW f \in File, Held(f), flock'[f].by # NoMember
    PROVE  flock'[f].by = flock[f].by
<1> USE UnlockedIsFree
<1>0. WsTypeOK /\ LookIsCurrent
    BY DEF WsInv
<1>1. CASE flock' = flock
    BY <1>1
<1>2. CASE WsRequest
    <2>1. ASSUME NEW a, DeleteWorkspace(a) PROVE FALSE
        BY <2>1 DEF DeleteWorkspace
    <2>2. ASSUME NEW a \in Member, LeaveWorkspace(a)
          PROVE  flock'[f].by = flock[f].by
        BY <2>2 DEF LeaveWorkspace
    <2>3. ASSUME NEW a \in Member, NEW g \in File, Unlock(a, g)
          PROVE  flock'[f].by = flock[f].by
        BY <1>0, <2>3 DEF Unlock, WsTypeOK
    <2>4. CASE ReapStaleLocks
        BY <2>4 DEF ReapStaleLocks
    <2> QED
        BY <1>1, <1>2, <2>1, <2>2, <2>3, <2>4
           DEF WsRequest, CreateWorkspace, JoinWorkspace, LockLook
<1>3. ASSUME NEW c \in looking, LockTake(c) PROVE flock'[f].by = flock[f].by
    <2>1. c.by = [by |-> c.by, expires |-> c.expires].by
        OBVIOUS
    <2> QED
        BY <1>0, <1>3, <2>1 DEF LockTake, LookIsCurrent, WsTypeOK
<1> QED
    BY <1>1, <1>2, <1>3 DEF WsNext, TimePasses, wsVars

(* Under the event loop, where one thread calls the manager, a lock that      *)
(* counts belongs to a member and stays with its agent until it is released   *)
(* or its time is over, for any agents, files and times                       *)
(* (orchestration/shared_workspace.py, SharedWorkspaceManager.lock).          *)
THEOREM LocksHold ==
    ASSUME Threads = 1
    PROVE  WsSpec => []HolderIsMember /\ LockKept
<1>1. WsInit => WsInv
    BY WsInit_Inv
<1>2. WsInv /\ [WsNext]_wsVars => WsInv'
    BY WsStep_Inv
<1>3. WsInv => HolderIsMember
    BY DEF WsInv
<1>4. WsInv /\ [WsNext]_wsVars =>
        [\A f \in File : Held(f) /\ flock'[f].by # NoMember
            => flock'[f].by = flock[f].by]_wsVars
    BY LockStep
<1> QED
    BY <1>1, <1>2, <1>3, <1>4, PTL DEF WsSpec, LockKept

(* A step after which every file has the owner it had, or none.              *)
LEMMA LocksEnd ==
    ASSUME \A f \in File : LockOwner'[f] \in {NoMember, LockOwner[f]}
    PROVE  [FileLocks!Next]_LockOwner
<1> DEFINE S == {f \in File : LockOwner'[f] = NoMember}
<1>1. LockOwner' = [f \in File |-> LockOwner'[f]]
    BY DEF LockOwner
<1> HIDE DEF LockOwner
<1>2. LockOwner' = [f \in File |-> IF f \in S THEN NoMember ELSE LockOwner[f]]
    BY <1>1
<1>3. S \in SUBSET File /\ FileLocks!Release(S)
    BY <1>2 DEF FileLocks!Release
<1> QED
    BY <1>3 DEF FileLocks!Next

LEMMA FileLeaseStep == Threads = 1 /\ WsInv /\ [WsNext]_wsVars => [FileLocks!Next]_LockOwner
<1> SUFFICES ASSUME Threads = 1, WsInv, [WsNext]_wsVars
             PROVE  [FileLocks!Next]_LockOwner
    OBVIOUS
<1> USE UnlockedIsFree
<1>0. WsTypeOK /\ LookIsCurrent
    BY DEF WsInv
<1>1. CASE flock' = flock /\ wnow' = wnow
    BY <1>1, LocksEnd DEF LockOwner, Held
<1>2. ASSUME wnow' = wnow, \A f \in File : flock'[f] \in {Unlocked, flock[f]}
      PROVE  [FileLocks!Next]_LockOwner
    BY <1>2, LocksEnd DEF LockOwner, Held
<1>3. CASE WsRequest
    <2>1. ASSUME NEW a, DeleteWorkspace(a) PROVE [FileLocks!Next]_LockOwner
        BY <1>2, <2>1 DEF DeleteWorkspace
    <2>2. ASSUME NEW a \in Member, LeaveWorkspace(a) PROVE [FileLocks!Next]_LockOwner
        BY <1>2, <2>2 DEF LeaveWorkspace
    <2>3. ASSUME NEW a \in Member, NEW g \in File, Unlock(a, g)
          PROVE  [FileLocks!Next]_LockOwner
        BY <1>0, <1>2, <2>3 DEF Unlock, WsTypeOK
    <2>4. CASE ReapStaleLocks
        BY <1>2, <2>4 DEF ReapStaleLocks
    <2> QED
        BY <1>1, <1>3, <2>1, <2>2, <2>3, <2>4
           DEF WsRequest, CreateWorkspace, JoinWorkspace, LockLook
<1>4. ASSUME NEW c \in looking, LockTake(c) PROVE [FileLocks!Next]_LockOwner
    <2>1. c \in LockCall /\ (Held(c.file) => flock[c.file].by = c.by)
        BY <1>0 DEF WsTypeOK, LookIsCurrent
    <2> DEFINE r == [by |-> c.by, expires |-> c.expires]
               f == c.file
    <2>2. r.by = c.by /\ c.by \in Member /\ f \in File
        BY <2>1 DEF LockCall
    <2> HIDE DEF r, f
    <2>3. /\ wnow' = wnow
          /\ flock' = flock \/ flock' = [flock EXCEPT ![f] = r]
        BY <1>4 DEF LockTake, r, f
    <2>4. CASE flock' = [flock EXCEPT ![f] = r]
        <3>1. \A g \in File \ {f} : LockOwner'[g] = LockOwner[g]
            BY <1>0, <2>3, <2>4 DEF LockOwner, Held, WsTypeOK
        <3>2. LockOwner'[f] \in {NoMember, c.by}
            BY <1>0, <2>2, <2>3, <2>4 DEF LockOwner, WsTypeOK
        <3>3. LockOwner[f] \in {NoMember, c.by}
            BY <2>1, <2>2 DEF LockOwner, f
        <3>4. CASE LockOwner'[f] = NoMember \/ LockOwner[f] = c.by
            BY <3>1, <3>2, <3>4, LocksEnd
        <3>5. CASE LockOwner'[f] = c.by /\ LockOwner[f] = NoMember
            <4>1. LockOwner' = [LockOwner EXCEPT ![f] = c.by]
                BY <2>2, <3>1, <3>5 DEF LockOwner
            <4>2. FileLocks!Acquire(f, c.by)
                BY <3>5, <4>1 DEF FileLocks!Acquire
            <4> QED
                BY <2>2, <4>2 DEF FileLocks!Next
        <3> QED
            BY <3>2, <3>3, <3>4, <3>5
    <2> QED
        BY <1>1, <2>3, <2>4
<1>5. CASE TimePasses
    <2>1. \A f \in File : Held(f)' => Held(f)
        BY <1>0, <1>5 DEF TimePasses, Held, WsTypeOK, LockRecord
    <2>2. \A f \in File : flock'[f] = flock[f]
        BY <1>5 DEF TimePasses
    <2> QED
        BY <2>1, <2>2, LocksEnd DEF LockOwner
<1> QED
    BY <1>1, <1>3, <1>4, <1>5 DEF WsNext, wsVars

(* Under the event loop the file locks of a shared workspace implement       *)
(* exclusive leases, for any agents, files and times                         *)
(* (orchestration/shared_workspace.py, lock, unlock, leave,                  *)
(* reap_stale_locks).                                                        *)
THEOREM WorkspaceImplementsLease ==
    ASSUME Threads = 1
    PROVE  WsSpec => LocksAreLeases
<1>1. WsInit => FileLocks!Init
    BY UnlockedIsFree DEF WsInit, FileLocks!Init, LockOwner, Held
<1>2. WsInit => WsInv
    BY WsInit_Inv
<1>3. WsInv /\ [WsNext]_wsVars => WsInv'
    BY WsStep_Inv
<1>4. WsInv /\ [WsNext]_wsVars => [FileLocks!Next]_LockOwner
    BY FileLeaseStep
<1> QED
    BY <1>1, <1>2, <1>3, <1>4, PTL DEF WsSpec, LocksAreLeases, FileLocks!Spec

(* A lock that counts is neither taken over nor passed on before its time.   *)
THEOREM LocksAreKept == ASSUME Threads = 1 PROVE WsSpec => LocksKept
BY LocksHold, WorkspaceImplementsLease, PTL DEF LocksKept
=============================================================================
