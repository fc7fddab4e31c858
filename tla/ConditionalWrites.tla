-------------------------- MODULE ConditionalWrites -------------------------
(* What DoWrites does to keys and versions.  It keeps two counts of open    *)
(* blocks, conditionDepth and validatedDepth, and takes the blocks around   *)
(* an instruction to have validated when the two are equal.                 *)
(*                                                                          *)
(* An action is one turn of the loop.  An entry is its version: the bytes   *)
(* stored with it are left out (a conditional put stores the wrong ones,    *)
(* since mdbx_get has replaced the value by then).                          *)
EXTENDS Integers, Sequences

CONSTANTS
    Keys,
    Versions,
    MaxInstructions   \* bound on the instructions

ASSUME ConditionalAssumption == Versions \subseteq Nat /\ MaxInstructions \in Nat

VARIABLES
    db,               \* per key, the version of its entry or NoEntry
    conditionDepth,
    validatedDepth,
    opened,           \* history: per open block, did its condition hold
    results           \* per finished instruction, not FAILED_CONDITION

condVars == <<db, conditionDepth, validatedDepth, opened, results>>

NoEntry == -1

\* CONDITIONAL_VERSION asks for a version, IF_NO_EXISTS for NoEntry; a put
\* can have both.
Tests == Versions \cup {NoEntry}

CondInit ==
    /\ db = [k \in Keys |-> NoEntry]
    /\ conditionDepth = 0
    /\ validatedDepth = 0
    /\ opened = <<>>
    /\ results = <<>>

Passes(key, tests) == \A t \in tests : db[key] = t

\* validated, for an instruction without a condition.
SomeValidated == conditionDepth = 0 \/ validatedDepth > 0                 \* mutant
Validated == conditionDepth = validatedDepth

\* The word of the instruction gets its result.
Finished(ok) ==
    /\ Len(results) < MaxInstructions
    /\ results' = Append(results, ok)

\* PUT.  In a store with versions IF_NO_EXISTS is tested here, not by mdbx_put.
WritePut(key, tests, version) ==
    LET ok == Validated /\ Passes(key, tests) IN
    /\ Finished(ok)
    /\ db' = IF ok THEN [db EXCEPT ![key] = version] ELSE db
    /\ UNCHANGED <<conditionDepth, validatedDepth, opened>>

\* DEL: mdbx_del of a missing key is MDBX_NOTFOUND.
WriteRemove(key, tests) ==
    LET ok == Validated /\ Passes(key, tests) IN
    /\ Finished(ok /\ db[key] # NoEntry)
    /\ db' = IF ok THEN [db EXCEPT ![key] = NoEntry] ELSE db
    /\ UNCHANGED <<conditionDepth, validatedDepth, opened>>

\* DROP_DB, of clearAsync and drop.
WriteDrop ==
    /\ Finished(Validated)
    /\ db' = IF Validated THEN [k \in Keys |-> NoEntry] ELSE db
    /\ UNCHANGED <<conditionDepth, validatedDepth, opened>>

\* USER_CALLBACK has the bit of CONDITIONAL.
WriteCallback ==
    /\ Finished(Validated)
    /\ UNCHANGED <<db, conditionDepth, validatedDepth, opened>>

\* START_BLOCK and START_CONDITION_BLOCK, which do not have it.
WriteStart(condition) ==
    LET validated == Validated /\ condition IN
    /\ Finished(validated)
    /\ validatedDepth' = IF validated THEN validatedDepth + 1 ELSE validatedDepth
    /\ conditionDepth' = conditionDepth + 1
    /\ opened' = Append(opened, condition)
    /\ UNCHANGED db

OneLess == IF validatedDepth > 0 THEN validatedDepth - 1 ELSE 0           \* mutant
WithoutInnermost ==
    IF validatedDepth > conditionDepth - 1 THEN validatedDepth - 1 ELSE validatedDepth

\* BLOCK_END: its word gets no result.
WriteEnd ==
    /\ conditionDepth > 0
    /\ conditionDepth' = conditionDepth - 1
    /\ validatedDepth' = WithoutInnermost
    /\ opened' = SubSeq(opened, 1, Len(opened) - 1)
    /\ UNCHANGED <<db, results>>

CondNext ==
    \/ \E key \in Keys, tests \in SUBSET Tests :
          \/ \E version \in Versions : WritePut(key, tests, version)
          \/ WriteRemove(key, tests)
          \/ WriteStart(Passes(key, tests))
    \/ WriteStart(TRUE) \/ WriteEnd \/ WriteDrop \/ WriteCallback

CondSpec == CondInit /\ [][CondNext]_condVars

-----------------------------------------------------------------------------
(* Properties.                                                              *)

CondTypeOK ==
    /\ db \in [Keys -> Tests]
    /\ conditionDepth \in Nat
    /\ validatedDepth \in Nat
    /\ opened \in Seq(BOOLEAN)
    /\ results \in Seq(BOOLEAN)

\* The two counts say all about the open blocks: how many there are, and how
\* many of the outermost ones hold before the first that does not.  A block
\* whose condition held inside one that failed is not counted.
DepthsAreExact ==
    /\ conditionDepth = Len(opened)
    /\ validatedDepth \in 0..conditionDepth
    /\ \A i \in 1..validatedDepth : opened[i]
    /\ validatedDepth < conditionDepth => ~opened[validatedDepth + 1]

CondInv == CondTypeOK /\ DepthsAreExact

\* DoWrites gives every instruction the effect and the result that conditions
\* and blocks promise, however blocks are nested.
Promised == INSTANCE ConditionLog WITH blocks <- opened

ImplementsConditionLog == Promised!LogSpec
=============================================================================
