-------------------------- MODULE SharedConnection -------------------------
(* The one database connection of the server (create_app gives one engine to *)
(* every store).  Two disciplines share it: the registry and the board store *)
(* run their statements in _tx, which rolls back on an exception; the audit, *)
(* event, provenance and user stores execute and commit, and roll nothing    *)
(* back.  Everything runs on one thread, one call at a time.                 *)
EXTENDS Naturals

CONSTANTS
    Drivers,        \* the databases a server may be set up with
    TxCall,         \* calls of the stores that use _tx
    PlainCall,      \* calls of the stores that execute and commit
    Statements,     \* statements in a call, e.g. 2 in record_hop
    MaxTries        \* attempts of RetryEngine.execute after the first

ASSUME ConnectionAssumption ==
    /\ Drivers \subseteq {"sqlite", "mysql"} /\ TxCall \cap PlainCall = {}
    /\ "none" \notin TxCall \cup PlainCall
    /\ Statements \in Nat \ {0} /\ MaxTries \in Nat

DbCall == TxCall \cup PlainCall
NoCall == "none"
Writes(c) == {c} \X (1..Statements)

VARIABLES
    driver,         \* the engine create_engine chose
    onDisk,         \* rows written and committed
    pending,        \* rows written since the last commit
    inTx,           \* the connection has a transaction open
    calling,        \* the call that runs, NoCall between two of them
    stage,          \* statements of it that are done
    tries,          \* failed attempts of its next statement
    answer          \* [DbCall -> "none", "ok", "raised" or "lost" in a crash]

dbVars == <<driver, onDisk, pending, inTx, calling, stage, tries, answer>>

DbInit ==
    /\ driver \in Drivers
    /\ onDisk = {} /\ pending = {} /\ inTx = FALSE
    /\ calling = NoCall /\ stage = 0 /\ tries = 0
    /\ answer = [c \in DbCall |-> "none"]

Returns(how) ==
    /\ calling' = NoCall /\ stage' = 0 /\ tries' = 0
    /\ answer' = [answer EXCEPT ![calling] = how]

(* SQLite has no transaction inside another.                                 *)
BeginRefused == inTx /\ driver = "sqlite"

(* BEGIN: MySQL commits the transaction that is open.                        *)
Begun ==
    /\ ~ BeginRefused
    /\ onDisk' = onDisk \cup pending /\ pending' = {} /\ inTx' = TRUE

(* _tx: begin stands before the try, so what it raises rolls nothing back.   *)
BeginTx(c) ==
    /\ calling = NoCall /\ answer[c] = "none"
    /\ \/ /\ BeginRefused
          /\ answer' = [answer EXCEPT ![c] = "raised"]
          /\ UNCHANGED <<onDisk, pending, inTx, calling, stage, tries>>
       \/ /\ Begun /\ calling' = c
          /\ UNCHANGED <<stage, tries, answer>>

StartPlain(c) ==
    /\ calling = NoCall /\ answer[c] = "none"
    /\ calling' = c
    /\ UNCHANGED <<onDisk, pending, inTx, stage, tries, answer>>

(* execute: the driver opens a transaction before the first change.          *)
Execute ==
    /\ calling # NoCall /\ stage < Statements
    /\ pending' = pending \cup {<<calling, stage + 1>>} /\ inTx' = TRUE
    /\ stage' = stage + 1 /\ tries' = 0
    /\ UNCHANGED <<onDisk, calling, answer>>

(* RetryEngine.execute: a transient error is tried again after a pause.      *)
TryAgain ==
    /\ calling \in TxCall /\ stage < Statements /\ tries < MaxTries
    /\ tries' = tries + 1
    /\ UNCHANGED <<onDisk, pending, inTx, calling, stage, answer>>

(* Mutant: the exception passes through _tx without the rollback.            *)
TxRaisesOnly ==
    /\ calling \in TxCall /\ Returns("raised")
    /\ UNCHANGED <<onDisk, pending, inTx>>

(* A statement or the commit raises inside _tx.                              *)
TxRaises ==
    /\ calling \in TxCall /\ Returns("raised")
    /\ pending' = {} /\ inTx' = FALSE
    /\ UNCHANGED onDisk

(* A statement or the commit of the others raises: the transaction the       *)
(* driver opened for it stays open, with what the call wrote.                *)
PlainRaises ==
    /\ calling \in PlainCall /\ Returns("raised")
    /\ inTx' = TRUE
    /\ UNCHANGED <<onDisk, pending>>

Commit ==
    /\ calling # NoCall /\ stage = Statements /\ Returns("ok")
    /\ onDisk' = onDisk \cup pending /\ pending' = {} /\ inTx' = FALSE

(* The process ends and is started again: what was not committed is gone.    *)
ServerCrashes ==
    /\ calling # NoCall \/ inTx
    /\ pending' = {} /\ inTx' = FALSE
    /\ calling' = NoCall /\ stage' = 0 /\ tries' = 0
    /\ answer' = [c \in DbCall |-> IF c = calling THEN "lost" ELSE answer[c]]
    /\ UNCHANGED onDisk

DbNext ==
  /\ driver' = driver
  /\ \/ \E c \in TxCall : BeginTx(c)
     \/ \E c \in PlainCall : StartPlain(c)
     \/ Execute \/ TryAgain \/ TxRaises \/ PlainRaises \/ Commit
     \/ ServerCrashes

DbSpec == DbInit /\ [][DbNext]_dbVars

-----------------------------------------------------------------------------
(* Between two calls the connection holds nothing of a call of _tx: such a   *)
(* call is stored whole when it returned and not at all when it raised, also *)
(* with calls of the other stores failing around it on the same connection.  *)
TxAtomic ==
    \A c \in TxCall : c # calling =>
        (onDisk \cup pending) \cap Writes(c) =
            IF answer[c] = "ok" THEN Writes(c) ELSE {}

(* Whatever a store reported as done survives a crash: the commit of a later *)
(* call is never what stores it.                                             *)
OkIsStored == \A c \in DbCall : answer[c] = "ok" => Writes(c) \subseteq onDisk

(* A transaction left open between two calls comes from a call of the plain  *)
(* stores that raised; until one of them commits, every _tx call is refused  *)
(* on SQLite, and that commit stores the half done call too.                 *)
OpenAfterRaise ==
    calling = NoCall /\ inTx =>
        /\ \E c \in PlainCall : answer[c] = "raised"
        /\ \A w \in pending : w[1] \in PlainCall /\ answer[w[1]] = "raised"

ConnectionSound == TxAtomic /\ OkIsStored /\ OpenAfterRaise
=============================================================================
