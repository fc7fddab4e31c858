---------------------------- MODULE ConditionLog ----------------------------
(* What conditions and blocks promise: a write takes effect when its own    *)
(* conditions hold and all the blocks around it do; a block takes effect    *)
(* when its condition held at its start, whatever is written in it later.   *)
EXTENDS Integers, Sequences

CONSTANTS
    Keys,
    Versions

Absent == -1   \* no version is negative

VARIABLES
    db,        \* per key, the version of its entry or Absent
    blocks,    \* per open block, outermost first: did its condition hold
    results    \* per instruction that is over, whether it had effect

logVars == <<db, blocks, results>>

\* A condition is a version the entry must have, or Absent.
Conditions == Versions \cup {Absent}

Holds(key, conditions) == \A c \in conditions : db[key] = c

InEffect == \A i \in DOMAIN blocks : blocks[i]

LogInit ==
    /\ db = [k \in Keys |-> Absent]
    /\ blocks = <<>>
    /\ results = <<>>

\* A write changes the database, or nothing; its result says which.
LogWrite(effect, db1) ==
    /\ db' = IF effect THEN db1 ELSE db
    /\ results' = Append(results, effect)
    /\ UNCHANGED blocks

LogPut(key, conditions, version) ==
    LogWrite(InEffect /\ Holds(key, conditions), [db EXCEPT ![key] = version])

LogRemove(key, conditions) ==
    LogWrite(InEffect /\ Holds(key, conditions) /\ db[key] # Absent,
             [db EXCEPT ![key] = Absent])

LogDrop == LogWrite(InEffect, [k \in Keys |-> Absent])

LogCallback == LogWrite(InEffect, db)

LogStart(condition) ==
    /\ blocks' = Append(blocks, condition)
    /\ results' = Append(results, InEffect /\ condition)
    /\ UNCHANGED db

LogEnd ==
    /\ blocks # <<>>
    /\ blocks' = SubSeq(blocks, 1, Len(blocks) - 1)
    /\ UNCHANGED <<db, results>>

LogNext ==
    \/ \E key \in Keys, conditions \in SUBSET Conditions :
          \/ \E version \in Versions : LogPut(key, conditions, version)
          \/ LogRemove(key, conditions)
          \/ LogStart(Holds(key, conditions))
    \/ LogStart(TRUE) \/ LogEnd \/ LogDrop \/ LogCallback

LogSpec == LogInit /\ [][LogNext]_logVars
=============================================================================
