----------------------------- MODULE Blackboard -----------------------------
(* blackboard_store.BlackboardStore, for one root task and one key: an entry *)
(* with a version that a writer may expect.                                  *)
EXTENDS Naturals

CONSTANTS
    Author,         \* agents that read and write
    Val,            \* values
    MaxVersion,     \* bounds the versions of an entry
    MaxLives        \* bounds the deletions

ASSUME BoardAssumption == MaxVersion \in Nat /\ MaxLives \in Nat

VARIABLES
    entry,          \* the row: [version, val], version 0 when there is none
    lives,          \* how often the row was deleted
    read            \* [Author -> what it last read, and in which life]

boardVars == <<entry, lives, read>>

NoVal == "nothing"
NoEntry == [version |-> 0, val |-> NoVal]

BoardInit ==
    /\ entry = NoEntry /\ lives = 0
    /\ read = [a \in Author |-> [version |-> 0, val |-> NoVal, life |-> 0]]

(* read, and get_version *)
ReadEntry(a) ==
    /\ read' = [read EXCEPT ![a] = [version |-> entry.version, val |-> entry.val,
                                    life |-> lives]]
    /\ UNCHANGED <<entry, lives>>

(* write: with the version last read as expected_version, or without one.    *)
(* A version that is not the current one raises OptimisticLockError.         *)
Write(a, v, expected) ==
    /\ expected \in {"any", "read"}
    /\ expected = "read" => read[a].version = entry.version
    /\ entry.version < MaxVersion
    /\ entry' = [version |-> entry.version + 1, val |-> v]
    /\ UNCHANGED <<lives, read>>

(* delete: the next write starts again with version 1.                       *)
DeleteEntry ==
    /\ entry.version > 0 /\ lives < MaxLives
    /\ entry' = NoEntry /\ lives' = lives + 1
    /\ UNCHANGED read

BoardNext ==
    \/ \E a \in Author : \/ ReadEntry(a)
                         \/ \E v \in Val, x \in {"any", "read"} : Write(a, v, x)
    \/ DeleteEntry

-----------------------------------------------------------------------------
(* A version stands for one value as long as the key is not deleted: whoever *)
(* writes with the version it read replaces the value it read.               *)
VersionNamesValue ==
    \A a \in Author :
        /\ read[a].life = lives => read[a].version <= entry.version
        /\ read[a].life = lives /\ read[a].version = entry.version => read[a].val = entry.val
=============================================================================
