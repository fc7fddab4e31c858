------------------------------ MODULE LogProofs -----------------------------
(***************************************************************************)
(* The two abstract logs: what CommitLog promises, for every set of        *)
(* writes, and that DoWrites implements ConditionLog, for every program.   *)
(***************************************************************************)
EXTENDS CommitLog, ConditionalWrites, TLAPS

-----------------------------------------------------------------------------
(* CommitLog.                                                              *)

(* Later writes belong to the same group or to a later one.                 *)
GroupsInOrder == \A o, p \in Submitted : o < p => group[o] <= group[p]

LogInv == TypeOK /\ GroupsInOrder /\ GroupsAreAtomic /\ DecidedInOrder
          /\ AnsweredAreDecided

LEMMA GroupsAreNumbers ==
  ASSUME Ops \subseteq Nat \ {0}, TypeOK
  PROVE  \A o \in Ops : o \in Nat /\ group[o] \in Nat
  <1>1. \A x \in {0} \cup Ops : x \in Nat
    OBVIOUS
  <1>2. \A o \in Ops : group[o] \in {0} \cup Ops
    BY DEF TypeOK
  <1> QED BY <1>1, <1>2

LEMMA InitLogInv == Init => LogInv
  BY DEF Init, LogInv, TypeOK, GroupsInOrder, GroupsAreAtomic, DecidedInOrder,
         AnsweredAreDecided, Submitted, Decided, Queued, Statuses

LEMMA SubmitLogInv ==
  ASSUME Ops \subseteq Nat \ {0}, LogInv, NEW f \in Ops, NEW o \in Ops, NEW g \in Ops,
         Submit(f, o, g)
  PROVE  LogInv'
  <1>1. /\ group \in [Ops -> {0} \cup Ops] /\ status \in [Ops -> Statuses]
        /\ g <= f /\ f <= o
        /\ group' = [group EXCEPT ![f] = g, ![o] = g]
        /\ status' = [status EXCEPT ![f] = "queued", ![o] = "queued"]
        /\ answered' = answered
    BY DEF LogInv, TypeOK, Submit
  <1>2. \A p \in Submitted : p < f /\ group[p] <= g /\ p # f /\ p # o
    BY <1>1 DEF Submit, Submitted
  <1>3. /\ Submitted' = Submitted \cup {f, o} /\ Queued' = Queued \cup {f, o}
        /\ Decided' = Decided
        /\ \A p \in Submitted : group'[p] = group[p] /\ status'[p] = status[p]
        /\ group'[f] = g /\ group'[o] = g /\ status'[f] = "queued" /\ status'[o] = "queued"
    BY <1>1, <1>2 DEF Submitted, Queued, Decided, Statuses
  <1>4. TypeOK'
    BY <1>1 DEF TypeOK, Statuses
  <1>5. GroupsInOrder'
    BY <1>1, <1>2, <1>3 DEF LogInv, GroupsInOrder, Submitted
  <1>6. GroupsAreAtomic'
    <2>1. \A p \in Submitted : group[p] = g => status[p] = "queued"
      BY <1>1 DEF Submit, Submitted, Decided, Statuses
    <2> QED BY <1>3, <2>1 DEF LogInv, GroupsAreAtomic
  <1>7. DecidedInOrder'
    <2>1. \A p \in Decided : p \in Submitted /\ p \in Ops
      BY DEF Decided, Submitted
    <2>2. ASSUME NEW p \in Decided PROVE p < f /\ p < o
      <3>1. p \in Nat /\ f \in Nat /\ o \in Nat /\ p < f /\ f <= o
        BY <1>1, <1>2, <2>1, GroupsAreNumbers DEF LogInv
      <3> QED BY <3>1
    <2> QED BY <1>3, <2>2 DEF LogInv, DecidedInOrder
  <1>8. AnsweredAreDecided'
    BY <1>1, <1>3 DEF LogInv, AnsweredAreDecided
  <1> QED BY <1>4, <1>5, <1>6, <1>7, <1>8 DEF LogInv

LEMMA DecideLogInv ==
  ASSUME Ops \subseteq Nat \ {0}, LogInv, NEW g \in Ops,
         NEW result \in {"committed", "failed"}, Decide(g, result)
  PROVE  LogInv'
  <1> DEFINE txn == {o \in Queued : group[o] <= g}
  <1>1. /\ group \in [Ops -> {0} \cup Ops] /\ status \in [Ops -> Statuses]
        /\ status' = [o \in Ops |-> IF o \in txn THEN result ELSE status[o]]
        /\ group' = group /\ answered' = answered
    BY DEF LogInv, TypeOK, Decide
  <1>2. /\ Submitted' = Submitted /\ Queued' = Queued \ txn /\ Decided' = Decided \cup txn
        /\ \A o \in Queued \ txn : group[o] > g
    <2>1. \A o \in Ops : group[o] \in Nat /\ g \in Nat
      BY GroupsAreNumbers DEF LogInv
    <2>2. ASSUME NEW o \in Queued \ txn PROVE group[o] > g
      <3>1. o \in Ops /\ ~(group[o] <= g)
        BY DEF Queued
      <3> QED BY <2>1, <3>1
    <2>3. txn \subseteq Queued
      OBVIOUS
    <2> HIDE DEF txn
    <2>4. Submitted' = Submitted
      BY <1>1, <2>3 DEF Submitted, Queued
    <2>5. Queued' = Queued \ txn
      BY <1>1, <2>3 DEF Queued
    <2>6. Decided' = Decided \cup txn
      BY <1>1, <2>3 DEF Decided, Queued
    <2> QED BY <2>2, <2>4, <2>5, <2>6
  <1>3. TypeOK'
    BY <1>1 DEF TypeOK, Statuses
  <1>4. GroupsInOrder'
    BY <1>1, <1>2 DEF LogInv, GroupsInOrder
  <1>5. GroupsAreAtomic'
    <2>1. \A o, p \in Submitted : group[o] = group[p] => (o \in txn <=> p \in txn)
      BY DEF LogInv, GroupsAreAtomic, Queued, Submitted
    <2> QED BY <1>1, <1>2, <2>1 DEF LogInv, GroupsAreAtomic, Submitted
  <1>6. DecidedInOrder'
    <2>1. ASSUME NEW o \in txn, NEW p \in Queued \ txn PROVE o < p
      <3>1. group[o] <= g /\ group[p] > g /\ o \in Ops /\ p \in Ops
            /\ o \in Submitted /\ p \in Submitted
        BY <1>2, <2>1 DEF Queued, Submitted
      <3>2. group[o] \in Nat /\ group[p] \in Nat /\ g \in Nat
        BY <3>1, GroupsAreNumbers DEF LogInv
      <3>3. o # p /\ ~(group[p] <= group[o])
        BY <3>1, <3>2
      <3>4. ~(p < o)
        BY <3>1, <3>3 DEF LogInv, GroupsInOrder
      <3> QED BY <3>1, <3>3, <3>4
    <2> QED BY <1>2, <2>1 DEF LogInv, DecidedInOrder
  <1>7. AnsweredAreDecided'
    BY <1>1, <1>2 DEF LogInv, AnsweredAreDecided
  <1> QED BY <1>3, <1>4, <1>5, <1>6, <1>7 DEF LogInv

LEMMA NextLogInv ==
  ASSUME Ops \subseteq Nat \ {0}, LogInv, [Next]_vars
  PROVE  LogInv'
  <1>1. CASE Answer
    BY <1>1 DEF Answer, LogInv, TypeOK, GroupsInOrder, GroupsAreAtomic, DecidedInOrder,
                AnsweredAreDecided, Submitted, Decided, Queued
  <1>2. CASE UNCHANGED vars
    BY <1>2 DEF vars, LogInv, TypeOK, GroupsInOrder, GroupsAreAtomic, DecidedInOrder,
                AnsweredAreDecided, Submitted, Decided, Queued
  <1> QED BY <1>1, <1>2, SubmitLogInv, DecideLogInv DEF Next

(* Writes of one event turn or batch share their fate, transactions take    *)
(* writes in the order of submission, and no promise settles before them:   *)
(* what any write path that implements CommitLog promises.                  *)
THEOREM LogIsSafe ==
  ASSUME Ops \subseteq Nat \ {0}
  PROVE  Spec => [](GroupsAreAtomic /\ DecidedInOrder /\ AnsweredAreDecided)
  <1>1. LogInv => GroupsAreAtomic /\ DecidedInOrder /\ AnsweredAreDecided
    BY DEF LogInv
  <1>2. LogInv /\ [Next]_vars => LogInv'
    BY NextLogInv
  <1> QED BY InitLogInv, <1>1, <1>2, PTL DEF Spec

(* Once a transaction has ended, no step changes what it decided.           *)
THEOREM LogIsFinal ==
  ASSUME Ops \subseteq Nat \ {0}
  PROVE  Spec => DecisionsAreFinal
  <1>1. LogInv /\ [Next]_vars => LogInv'
    BY NextLogInv
  <1>2. LogInv /\ [Next]_vars
          => [\A o \in Decided : o \in Decided' /\ status'[o] = status[o]]_vars
    <2> SUFFICES ASSUME LogInv, Next, NEW o \in Decided
                 PROVE  o \in Decided' /\ status'[o] = status[o]
      OBVIOUS
    <2>1. status \in [Ops -> Statuses] /\ o \in Ops /\ o \in Submitted
          /\ status[o] \in {"committed", "failed"}
      BY DEF LogInv, TypeOK, Decided, Submitted
    <2>2. status'[o] = status[o]
      <3>1. CASE Answer
        BY <3>1 DEF Answer
      <3>2. ASSUME NEW g \in Ops, NEW result \in {"committed", "failed"},
                   Decide(g, result)
            PROVE  status'[o] = status[o]
        BY <2>1, <3>2 DEF Decide, Queued
      <3>3. ASSUME NEW f \in Ops, NEW q \in Ops, NEW g \in Ops, Submit(f, q, g)
            PROVE  status'[o] = status[o]
        <4>1. o # f /\ o # q
          BY <2>1, <3>3 DEF Submit
        <4> QED BY <2>1, <3>3, <4>1 DEF Submit
      <3> QED BY <3>1, <3>2, <3>3 DEF Next
    <2> QED BY <2>1, <2>2 DEF Decided
  <1> QED BY InitLogInv, <1>1, <1>2, PTL DEF Spec, DecisionsAreFinal

-----------------------------------------------------------------------------
(* ConditionalWrites.  The two depths of DoWrites are exact, and with that  *)
(* DoWrites implements ConditionLog.                                        *)

-----------------------------------------------------------------------------
(* The counts.                                                              *)

\* An instruction that opens or closes no block leaves the counts alone.
LEMMA CountsUnchanged ==
    ASSUME DepthsAreExact, UNCHANGED <<conditionDepth, validatedDepth, opened>>
    PROVE  DepthsAreExact'
BY DEF DepthsAreExact

\* All open blocks hold exactly when the depths are equal.
LEMMA ValidatedMeansInEffect ==
    ASSUME CondInv
    PROVE  Validated <=> \A i \in DOMAIN opened : opened[i]
<1>1. DOMAIN opened = 1..conditionDepth
  BY DEF CondInv, CondTypeOK, DepthsAreExact
<1>2. CASE Validated
  BY <1>1, <1>2 DEF Validated, CondInv, CondTypeOK, DepthsAreExact
<1>3. CASE ~Validated
  <2>1. validatedDepth < conditionDepth
    BY <1>3 DEF Validated, CondInv, CondTypeOK, DepthsAreExact
  <2>2. validatedDepth + 1 \in DOMAIN opened
    BY <1>1, <2>1 DEF CondInv, CondTypeOK
  <2> QED BY <1>3, <2>1, <2>2 DEF CondInv, DepthsAreExact
<1> QED BY <1>2, <1>3

LEMMA StartPreserves ==
    ASSUME CondInv, NEW condition \in BOOLEAN, WriteStart(condition)
    PROVE  CondInv'
<1> DEFINE validated == Validated /\ condition
<1>1. /\ opened \in Seq(BOOLEAN) /\ Len(opened) = conditionDepth
      /\ opened' = Append(opened, condition)
      /\ conditionDepth' = conditionDepth + 1
      /\ validatedDepth' = IF validated THEN validatedDepth + 1 ELSE validatedDepth
      /\ conditionDepth \in Nat /\ validatedDepth \in 0..conditionDepth
  BY DEF CondInv, CondTypeOK, DepthsAreExact, WriteStart
<1>2. CondTypeOK'
  <2>1. results' \in Seq(BOOLEAN) /\ db' = db
    BY DEF CondInv, CondTypeOK, WriteStart, Finished, Validated
  <2> QED BY <1>1, <2>1 DEF CondInv, CondTypeOK
<1>3. /\ Len(opened') = conditionDepth'
      /\ opened'[conditionDepth + 1] = condition
      /\ \A i \in 1..conditionDepth : opened'[i] = opened[i]
  BY <1>1
<1>4. DepthsAreExact'
  <2>1. CASE validated
    BY <1>1, <1>3, <2>1 DEF CondInv, DepthsAreExact, Validated
  <2>2. CASE ~validated /\ Validated
    BY <1>1, <1>3, <2>2 DEF CondInv, DepthsAreExact, Validated
  <2>3. CASE ~Validated
    BY <1>1, <1>3, <2>3 DEF CondInv, DepthsAreExact, Validated
  <2> QED BY <2>1, <2>2, <2>3
<1> QED BY <1>2, <1>4 DEF CondInv

LEMMA EndPreserves ==
    ASSUME CondInv, WriteEnd
    PROVE  CondInv'
<1>1. /\ opened \in Seq(BOOLEAN) /\ Len(opened) = conditionDepth
      /\ conditionDepth \in Nat /\ conditionDepth > 0
      /\ validatedDepth \in 0..conditionDepth
      /\ opened' = SubSeq(opened, 1, conditionDepth - 1)
      /\ conditionDepth' = conditionDepth - 1
      /\ validatedDepth' = WithoutInnermost
  BY DEF CondInv, CondTypeOK, DepthsAreExact, WriteEnd
<1>2. /\ opened' \in Seq(BOOLEAN)
      /\ Len(opened') = conditionDepth'
      /\ \A i \in 1..conditionDepth' : opened'[i] = opened[i]
  BY <1>1
<1>3. validatedDepth' \in 0..conditionDepth' /\ validatedDepth' <= validatedDepth
  BY <1>1 DEF WithoutInnermost
<1>4. CondTypeOK'
  BY <1>1, <1>2, <1>3 DEF CondInv, CondTypeOK, WriteEnd
<1>5. validatedDepth' < conditionDepth' => validatedDepth' = validatedDepth
  BY <1>1 DEF WithoutInnermost
<1>6. DepthsAreExact'
  BY <1>1, <1>2, <1>3, <1>5 DEF CondInv, DepthsAreExact
<1> QED BY <1>4, <1>6 DEF CondInv

\* A write, a drop or a callback.
LEMMA WritePreserves ==
    ASSUME CondInv,
           \/ \E key \in Keys, tests \in SUBSET Tests :
                 \/ \E version \in Versions : WritePut(key, tests, version)
                 \/ WriteRemove(key, tests)
           \/ WriteDrop \/ WriteCallback
    PROVE  CondInv'
<1>1. UNCHANGED <<conditionDepth, validatedDepth, opened>>
  BY DEF WritePut, WriteRemove, WriteDrop, WriteCallback
<1>2. results' \in Seq(BOOLEAN)
  <2>1. \E ok \in BOOLEAN : Finished(ok)
    <3>1. ASSUME NEW key, NEW tests, NEW version, WritePut(key, tests, version)
          PROVE  \E ok \in BOOLEAN : Finished(ok)
      BY <3>1 DEF WritePut
    <3>2. ASSUME NEW key, NEW tests, WriteRemove(key, tests)
          PROVE  \E ok \in BOOLEAN : Finished(ok)
      BY <3>2 DEF WriteRemove
    <3>3. WriteDrop \/ WriteCallback => Finished(Validated)
      BY DEF WriteDrop, WriteCallback
    <3>4. Validated \in BOOLEAN
      BY DEF Validated
    <3> QED BY <3>1, <3>2, <3>3, <3>4
  <2> QED BY <2>1 DEF CondInv, CondTypeOK, Finished
<1>3. db' \in [Keys -> Tests]
  BY DEF CondInv, CondTypeOK, WritePut, WriteRemove, WriteDrop, WriteCallback, Tests
<1>4. DepthsAreExact'
  BY <1>1, CountsUnchanged DEF CondInv
<1> QED BY <1>1, <1>2, <1>3, <1>4 DEF CondInv, CondTypeOK

\* The conditions that a block can have are true or false.
LEMMA PassesIsBoolean ==
    ASSUME NEW key, NEW tests PROVE Passes(key, tests) \in BOOLEAN
BY DEF Passes

LEMMA StepPreserves == CondInv /\ [CondNext]_condVars => CondInv'
<1> SUFFICES ASSUME CondInv, [CondNext]_condVars PROVE CondInv'
  OBVIOUS
<1>1. CASE UNCHANGED condVars
  BY <1>1 DEF CondInv, CondTypeOK, DepthsAreExact, condVars
<1>2. CASE \E key \in Keys, tests \in SUBSET Tests : WriteStart(Passes(key, tests))
  BY <1>2, StartPreserves, PassesIsBoolean
<1>3. CASE WriteStart(TRUE)
  BY <1>3, StartPreserves
<1>4. CASE WriteEnd
  BY <1>4, EndPreserves
<1>5. CASE \/ \E key \in Keys, tests \in SUBSET Tests :
                 \/ \E version \in Versions : WritePut(key, tests, version)
                 \/ WriteRemove(key, tests)
           \/ WriteDrop \/ WriteCallback
  BY <1>5, WritePreserves
<1> QED BY <1>1, <1>2, <1>3, <1>4, <1>5 DEF CondNext

LEMMA InitiallyExact == CondInit => CondInv
BY DEF CondInit, CondInv, CondTypeOK, DepthsAreExact, Tests

\* conditionDepth and validatedDepth describe the open blocks exactly,
\* whatever blocks, conditions and writes DoWrites meets (writer.cpp:161-307).
THEOREM DepthsCorrect == CondSpec => []CondInv
<1> QED BY InitiallyExact, StepPreserves, PTL DEF CondSpec

-----------------------------------------------------------------------------
(* The refinement.                                                          *)

LEMMA InitImplements == CondInit => Promised!LogInit
BY DEF CondInit, Promised!LogInit, NoEntry, Promised!Absent

LEMMA InEffectIsValidated == ASSUME CondInv PROVE Validated = Promised!InEffect
BY ValidatedMeansInEffect DEF Promised!InEffect, Validated

\* What is the same in both modules but for the name.
LEMMA SameConditions ==
    /\ NoEntry = Promised!Absent
    /\ Tests = Promised!Conditions
    /\ \A key, tests : Passes(key, tests) <=> Promised!Holds(key, tests)
BY DEF NoEntry, Tests, Passes, Promised!Absent, Promised!Conditions, Promised!Holds

LEMMA StepImplements ==
    CondInv /\ [CondNext]_condVars => [Promised!LogNext]_(Promised!logVars)
<1> SUFFICES ASSUME CondInv, [CondNext]_condVars
             PROVE  [Promised!LogNext]_(Promised!logVars)
  OBVIOUS
<1> USE InEffectIsValidated, SameConditions
<1>1. CASE UNCHANGED condVars
  BY <1>1 DEF condVars, Promised!logVars
<1>2. ASSUME NEW key \in Keys, NEW tests \in SUBSET Tests, NEW version \in Versions,
             WritePut(key, tests, version)
      PROVE  Promised!LogPut(key, tests, version)
  BY <1>2 DEF WritePut, Finished, Promised!LogPut, Promised!LogWrite
<1>3. ASSUME NEW key \in Keys, NEW tests \in SUBSET Tests, WriteRemove(key, tests)
      PROVE  Promised!LogRemove(key, tests)
  <2>1. db \in [Keys -> Tests]
    BY DEF CondInv, CondTypeOK
  <2>2. db[key] = NoEntry => [db EXCEPT ![key] = NoEntry] = db
    BY <2>1
  <2> QED BY <1>3, <2>2 DEF WriteRemove, Finished, Promised!LogRemove, Promised!LogWrite
<1>4. ASSUME NEW condition, WriteStart(condition)
      PROVE  Promised!LogStart(condition)
  BY <1>4 DEF WriteStart, Finished, Promised!LogStart
<1>5. CASE WriteEnd
  <2>1. opened # <<>>
    BY <1>5 DEF WriteEnd, CondInv, DepthsAreExact
  <2> QED BY <1>5, <2>1 DEF WriteEnd, Promised!LogEnd, Promised!LogNext
<1>6. CASE WriteDrop
  <2>1. [k \in Keys |-> NoEntry] = [k \in Keys |-> Promised!Absent]
    OBVIOUS
  <2>2. Promised!LogDrop
    BY <1>6, <2>1 DEF WriteDrop, Finished, Promised!LogDrop, Promised!LogWrite
  <2> QED BY <2>2 DEF Promised!LogNext
<1>7. CASE WriteCallback
  BY <1>7 DEF WriteCallback, Finished, Promised!LogCallback, Promised!LogWrite,
              Promised!LogNext
<1>8. CASE WriteStart(TRUE)
  BY <1>4, <1>8 DEF Promised!LogNext
<1>9. CASE \E key \in Keys, tests \in SUBSET Tests : WriteStart(Passes(key, tests))
  <2>1. PICK key \in Keys, tests \in SUBSET Tests : WriteStart(Passes(key, tests))
    BY <1>9
  <2>2. Promised!LogStart(Passes(key, tests))
    BY <1>4, <2>1
  <2>3. Passes(key, tests) = Promised!Holds(key, tests)
    BY DEF Passes, Promised!Holds
  <2>4. Promised!LogStart(Promised!Holds(key, tests))
    BY <2>2, <2>3
  <2> QED BY <2>4 DEF Promised!LogNext
<1>10. CASE \E key \in Keys, tests \in SUBSET Tests :
               \/ \E version \in Versions : WritePut(key, tests, version)
               \/ WriteRemove(key, tests)
  BY <1>2, <1>3, <1>10 DEF Promised!LogNext
<1> QED BY <1>1, <1>5, <1>6, <1>7, <1>8, <1>9, <1>10 DEF CondNext

\* DoWrites gives every instruction the effect and the result that its own
\* condition and the blocks around it promise.
THEOREM DoWritesImplements == CondSpec => ImplementsConditionLog
<1>1. CondSpec => [][Promised!LogNext]_(Promised!logVars)
  BY DepthsCorrect, StepImplements, PTL DEF CondSpec
<1> QED BY <1>1, InitImplements, PTL DEF CondSpec, ImplementsConditionLog, Promised!LogSpec
=============================================================================
