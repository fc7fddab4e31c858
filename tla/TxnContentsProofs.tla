-------------------------- MODULE TxnContentsProofs -------------------------
(* What transactions are made of, for every program that is not Entangled:  *)
(* a transaction of JavaScript is one unit of what is committed, what is    *)
(* written is stored once and in the order of the calls, and a value is     *)
(* compressed once; and if no end comes without a block, only whole blocks  *)
(* are committed.                                                           *)
EXTENDS TxnContents, TxnHandoffProofs

-----------------------------------------------------------------------------
(* What a transaction is made of.                                           *)

WholeList(s) == IsList(s) /\ Whole(s)

\* All there is in the database is in lists; AllWhole.
WholeLists ==
    /\ IsList(log) /\ \A t \in 1..Len(log) : WholeList(log[t])
    /\ \A i \in 1..Len(mdbx.frames) : IsList(mdbx.frames[i])
    /\ WorkersTxn => WholeList(mdbx.frames[1])

LEMMA NothingIsWhole == WholeList(<<>>)
<1>1. IsList(<<>>) /\ DOMAIN <<>> = {}
  BY DEF IsList
<1> QED BY <1>1 DEF WholeList, Whole

LEMMA LastingIsInt ==
    ASSUME calls \in Seq(QueuedKinds \cup SyncKinds), NEW e, Lasting(e)
    PROVE  e \in Int
BY DEF Lasting

LEMMA WholeConcat ==
    ASSUME NEW s, WholeList(s), NEW t, WholeList(t)
    PROVE  WholeList(s \o t)
<1> PICK m \in Nat : m = Len(s)
  BY DEF WholeList, IsList
<1> PICK n \in Nat : n = Len(t)
  BY DEF WholeList, IsList
<1> PICK c : c = s \o t
  OBVIOUS
<1>1. /\ IsList(c) /\ Len(c) = m + n
      /\ \A i \in 1..m : c[i] = s[i]
      /\ \A i \in 1..n : c[m + i] = t[i]
  BY ConcatOfLists DEF WholeList
<1>2. DOMAIN c = 1..m + n /\ DOMAIN s = 1..m /\ DOMAIN t = 1..n
  BY <1>1 DEF IsList, WholeList
<1>3. ASSUME NEW i \in 1..m + n
      PROVE  /\ Lasting(c[i])
             /\ c[i] > 0 /\ calls[c[i]] = "sync" => i < m + n /\ c[i + 1] = -c[i]
  <2>1. CASE i \in 1..m
    <3>1. /\ Lasting(s[i])
          /\ s[i] > 0 /\ calls[s[i]] = "sync" => i < m /\ s[i + 1] = -s[i]
      BY <1>2, <2>1 DEF WholeList, Whole
    <3>2. i < m => i + 1 \in 1..m /\ i < m + n
      BY <2>1
    <3> QED BY <1>1, <2>1, <3>1, <3>2
  <2>2. CASE i \notin 1..m
    <3> PICK j \in 1..n : i = m + j
      <4>1. i - m \in 1..n /\ i = m + (i - m)
        BY <2>2
      <4> QED BY <4>1
    <3>1. /\ Lasting(t[j])
          /\ t[j] > 0 /\ calls[t[j]] = "sync" => j < n /\ t[j + 1] = -t[j]
      BY <1>2 DEF WholeList, Whole
    <3>2. j < n => j + 1 \in 1..n /\ i < m + n /\ i + 1 = m + (j + 1)
      OBVIOUS
    <3> QED BY <1>1, <3>1, <3>2
  <2> QED BY <2>1, <2>2
<1>4. Whole(c)
  BY <1>1, <1>2, <1>3 DEF Whole
<1> QED BY <1>1, <1>4 DEF WholeList

LEMMA WholeOne ==
    ASSUME calls \in Seq(QueuedKinds \cup SyncKinds), NEW n \in DOMAIN calls,
           calls[n] \notin {"cbAbort", "syncAbort", "block", "end", "sync"}
    PROVE  WholeList(<<n>>)
<1>1. IsList(<<n>>) /\ DOMAIN <<n>> = {1} /\ <<n>>[1] = n
  BY DEF IsList
<1>2. Lasting(n)
  BY DEF Lasting
<1> QED BY <1>1, <1>2 DEF WholeList, Whole

LEMMA PairOfOnes ==
    ASSUME NEW a, NEW b
    PROVE  <<a>> \o <<b>> = <<a, b>>
<1> DEFINE S == {a, b}
<1>1. <<a>> \in Seq(S) /\ <<b>> \in Seq(S) /\ <<a, b>> \in Seq(S)
  OBVIOUS
<1> HIDE DEF S
<1>2. PICK s, t, u : s = <<a>> /\ t = <<b>> /\ u = s \o t
  OBVIOUS
<1>3. /\ Len(s) = 1 /\ Len(t) = 1 /\ s[1] = a /\ t[1] = b /\ s \in Seq(S) /\ t \in Seq(S)
  BY <1>1, <1>2
<1>4. u \in Seq(S) /\ Len(u) = 2 /\ u[1] = a /\ u[2] = b
  BY <1>2, <1>3
<1>5. u = [i \in 1..2 |-> IF i = 1 THEN a ELSE b]
  BY <1>4
<1>6. <<a, b>> = [i \in 1..2 |-> IF i = 1 THEN a ELSE b]
  OBVIOUS
<1> QED BY <1>2, <1>5, <1>6

LEMMA WholePair ==
    ASSUME calls \in Seq(QueuedKinds \cup SyncKinds), NEW n \in DOMAIN calls, calls[n] = "sync"
    PROVE  WholeList(<<n, -n>>)
<1> PICK s : s = <<n, -n>>
  OBVIOUS
<1>1. IsList(s) /\ Len(s) = 2 /\ DOMAIN s = {1, 2} /\ s[1] = n /\ s[2] = -n
  BY DEF IsList
<1>2. Lasting(n) /\ Lasting(-n) /\ n \in Nat \ {0} /\ ~(-n > 0)
  BY DEF Lasting
<1>3. Whole(s)
  BY <1>1, <1>2 DEF Whole
<1> QED BY <1>1, <1>3 DEF WholeList

\* What is made of whole units is so after further calls.
LEMMA WholeStays ==
    ASSUME calls \in Seq(QueuedKinds \cup SyncKinds),
           DOMAIN calls \subseteq DOMAIN calls', \A n \in DOMAIN calls : calls'[n] = calls[n],
           NEW s, WholeList(s)
    PROVE  WholeList(s)'
<1>1. ASSUME NEW i \in DOMAIN s
      PROVE  /\ Lasting(s[i])'
             /\ s[i] > 0 /\ calls'[s[i]] = "sync" => i < Len(s) /\ s[i + 1] = -s[i]
  <2>1. Lasting(s[i])
    BY DEF WholeList, Whole
  <2>2. PICK c \in DOMAIN calls :
           \/ s[i] = c /\ calls[c] \notin {"cbAbort", "syncAbort", "block", "end"}
           \/ s[i] = -c /\ calls[c] = "sync"
    BY <2>1 DEF Lasting
  <2>3. c \in DOMAIN calls' /\ calls'[c] = calls[c]
    OBVIOUS
  <2>4. Lasting(s[i])'
    BY <2>2, <2>3 DEF Lasting
  <2>5. s[i] > 0 => s[i] = c
    BY <2>2
  <2> QED BY <2>3, <2>4, <2>5 DEF WholeList, Whole
<1> QED BY <1>1 DEF WholeList, Whole

-----------------------------------------------------------------------------
(* What a step of a worker is to the queue and to the transaction.          *)

SameBut(w) == Workers' = Workers /\ \A v \in Workers : v # w => worker'[v] = worker[v]

\* On to the next instruction.
MovesOn(w) ==
    /\ worker[w].pc \in {"run"} \cup ValuePcs /\ worker[w].at <= Len(Queue)
    /\ worker'[w].at = worker[w].at + 1
    /\ UNCHANGED <<mark, log>>

Puts(w) ==
    /\ MovesOn(w) /\ Instruction(w) \in {"put", "zput"}
    /\ worker'[w].pc = "run"
    /\ worker'[w].finished = worker[w].finished /\ worker'[w].depth = worker[w].depth
    /\ mdbx' = [mdbx EXCEPT !.frames = Written(@, Queue[worker[w].at])]

Passes(w) ==
    /\ MovesOn(w) /\ Instruction(w) \in {"block", "end"} /\ slot' = slot
    /\ worker[w].pc = "run" /\ worker'[w].pc = "run" /\ worker'[w].finished = worker[w].finished
    /\ Instruction(w) = "block" => worker'[w].depth = worker[w].depth + 1
    /\ Instruction(w) = "end" => worker'[w].depth = worker[w].depth - 1
    /\ mdbx' = mdbx

CallsBack(w) ==
    /\ MovesOn(w) /\ Instruction(w) \in CallbackKinds /\ slot' = slot
    /\ worker[w].pc = "run" /\ worker'[w].pc = IF Instruction(w) = "strict" THEN "strict" ELSE "run"
    /\ worker'[w].finished = FALSE /\ worker'[w].depth = worker[w].depth
    /\ mdbx' = mdbx

\* Or it stays where it is.
Stays(w) ==
    /\ worker'[w].at = worker[w].at /\ worker'[w].finished = worker[w].finished
    /\ worker'[w].depth = worker[w].depth
    /\ AtStrict(w) => worker[w].finished \/ AtStrict(w)'
    /\ worker'[w].pc \in ValuePcs => Instruction(w) = "zput"
    /\ \/ UNCHANGED <<mdbx, log>> \/ Begin(w) \/ Interrupt(w) \/ Commit(w)
    /\ \/ mark' = mark /\ (Active(w) <=> Active(w)')
       \/ mark' = "waiting" /\ Active(w) /\ Active(w)'
       \/ /\ mark' = "delimiter" /\ Active(w) /\ ~Active(w)' /\ worker'[w].pc = "commit"
          /\ worker[w].at > Len(Queue) /\ worker[w].finished /\ worker[w].depth = 0

LEMMA WorkerMoves ==
    ASSUME CleanInv, AtValue, NEW w \in Workers, WorkerStep(w)
    PROVE  /\ SameBut(w) /\ UNCHANGED <<jsVars, current>> /\ ~JSHolds
           /\ Puts(w) \/ Passes(w) \/ CallsBack(w) \/ Stays(w)
<1> PICK o : o = worker[w]
  OBVIOUS
<1>1. IsWorker(o) /\ o = worker[w] /\ w \in DOMAIN worker
  BY DEF CleanInv, HandoffInv, Shapes, Workers
<1>2. ASSUME NEW r, worker' = [worker EXCEPT ![w] = r] PROVE SameBut(w) /\ worker'[w] = r
  BY <1>2, OneWorkerChanges DEF SameBut, CleanInv, HandoffInv
<1>3. UNCHANGED <<jsVars, current>>
  BY Zenon DEF WorkerStep, Lock, Begin, Put, PutRaw, Exchange, CompressSelf, CompressionWait,
         StartBlock, EndBlock, UserCallback, Strict, MarkWaiting, MarkDelimiter, WaitAgain,
         Resume, Interrupt, Commit, workerOnly
<1>4. ~JSHolds
  <2>1. WorkerHolds(w) \/ lock = Free
    BY DEF WorkerStep, Lock, Begin, Put, PutRaw, Exchange, CompressSelf, CompressionWait, At,
           StartBlock, EndBlock, UserCallback, Strict, MarkWaiting, MarkDelimiter, WaitAgain,
           Resume, Woken, Interrupt, Commit, WorkerHolds
  <2> QED BY <2>1, WorkersLock
<1>5. Instruction(w) # "none" => worker[w].at <= Len(Queue)
  <2>1. worker[w].at \in Nat /\ Len(calls) \in Nat
    BY DEF CleanInv, Records
  <2>2. Len(Queue) \in Nat
    BY <2>1, QueueOfCalls DEF IsList
  <2> QED BY <2>1, <2>2 DEF Instruction
<1>6. CASE \/ Put(w) \/ CompressSelf(w)
           \/ Exchange(w) /\ PutStep(w) /\ UNCHANGED log
           \/ CompressionWait(w) /\ PutStep(w)
  <2> DEFINE r == [o EXCEPT !.at = @ + 1, !.pc = "run"]
  <2>1. r.at = o.at + 1 /\ r.pc = "run" /\ r.finished = o.finished /\ r.depth = o.depth
    BY <1>1 DEF IsWorker, Fields
  <2>2. worker' = [worker EXCEPT ![w] = r]
    BY <1>1, <1>6 DEF Put, CompressSelf, PutStep
  <2> HIDE DEF r
  <2>3. /\ mdbx' = [mdbx EXCEPT !.frames = Written(@, Queue[worker[w].at])]
        /\ UNCHANGED <<mark, log>> /\ worker[w].pc \in {"run"} \cup ValuePcs
    BY <1>6 DEF Put, CompressSelf, Exchange, CompressionWait, PutStep, workerOnly, At, ValuePcs
  <2>4. Instruction(w) \in {"put", "zput"}
    BY <1>6 DEF Put, CompressSelf, Exchange, CompressionWait, At, AtValue, ValuePcs
  <2>5. Puts(w)
    BY <1>1, <1>2, <1>5, <2>1, <2>2, <2>3, <2>4 DEF Puts, MovesOn
  <2> QED BY <1>2, <1>3, <1>4, <2>2, <2>5
<1>7. CASE StartBlock(w) \/ EndBlock(w)
  <2> PICK d : d = IF StartBlock(w) THEN o.depth + 1 ELSE o.depth - 1
    OBVIOUS
  <2>0. /\ Instruction(w) = "block" => d = o.depth + 1
        /\ Instruction(w) = "end" => d = o.depth - 1
    BY <1>7 DEF StartBlock, EndBlock, At
  <2> DEFINE r == [o EXCEPT !.at = @ + 1, !.depth = d]
  <2>1. r.at = o.at + 1 /\ r.pc = o.pc /\ r.finished = o.finished /\ r.depth = d
    BY <1>1 DEF IsWorker, Fields
  <2>2. worker' = [worker EXCEPT ![w] = r]
    <3>1. CASE StartBlock(w)
      BY <1>1, <3>1 DEF StartBlock
    <3>2. CASE ~StartBlock(w)
      BY <1>1, <1>7, <3>2 DEF EndBlock
    <3> QED BY <3>1, <3>2
  <2> HIDE DEF r
  <2>3. /\ UNCHANGED <<mark, slot, log, mdbx>> /\ worker[w].pc = "run"
        /\ Instruction(w) \in {"block", "end"}
    BY <1>7 DEF StartBlock, EndBlock, At, workerOnly, dbVars
  <2>4. Passes(w)
    BY <1>1, <1>2, <1>5, <2>0, <2>1, <2>2, <2>3 DEF Passes, MovesOn
  <2> QED BY <1>2, <1>3, <1>4, <2>2, <2>4
<1>8. CASE UserCallback(w)
  <2> DEFINE r == [o EXCEPT !.at = @ + 1, !.finished = FALSE, !.pc = AfterCallback(w)]
  <2>1. /\ r.at = o.at + 1 /\ r.pc = AfterCallback(w) /\ r.finished = FALSE
        /\ r.depth = o.depth
    BY <1>1 DEF IsWorker, Fields
  <2>2. worker' = [worker EXCEPT ![w] = r]
    BY <1>1, <1>8 DEF UserCallback
  <2> HIDE DEF r
  <2>3. /\ UNCHANGED <<mark, slot, log, mdbx>> /\ worker[w].pc = "run"
        /\ Instruction(w) \in CallbackKinds
    BY <1>8 DEF UserCallback, At, workerOnly, dbVars
  <2>4. AfterCallback(w) = IF Instruction(w) = "strict" THEN "strict" ELSE "run"
    BY <2>3 DEF AfterCallback, At
  <2>5. Instruction(w) # "none"
    BY <2>3 DEF CallbackKinds
  <2>6. CallsBack(w)
    BY <1>1, <1>2, <1>5, <2>1, <2>2, <2>3, <2>4, <2>5 DEF CallsBack, MovesOn
  <2> QED BY <1>2, <1>3, <1>4, <2>2, <2>6
<1>9. ASSUME NEW r, worker' = [worker EXCEPT ![w] = r],
             r.at = o.at, r.finished = o.finished, r.depth = o.depth,
             \/ AtStrict(w) => o.finished
             \/ r.pc \in {"strict", "strictWait"}
             \/ r.pc \in {"paused", "begin"} /\ r.resume = "strict",
             r.pc \in ValuePcs => Instruction(w) = "zput",
             UNCHANGED <<mdbx, log>> \/ Begin(w) \/ Interrupt(w) \/ Commit(w),
             \/ mark' = mark /\ (Active(w) <=> r.pc \notin {"commit", "done", "gone"})
             \/ mark' = "waiting" /\ Active(w) /\ r.pc \notin {"commit", "done", "gone"}
             \/ /\ mark' = "delimiter" /\ Active(w) /\ r.pc = "commit"
                /\ o.at > Len(Queue) /\ o.finished /\ o.depth = 0
      PROVE  SameBut(w) /\ Stays(w)
  BY <1>1, <1>2, <1>9 DEF Stays, AtStrict, Active
<1>10. \A pc : LET r == [o EXCEPT !.pc = pc] IN
          /\ r.at = o.at /\ r.finished = o.finished /\ r.depth = o.depth
          /\ r.pc = pc /\ r.resume = o.resume
  BY <1>1 DEF IsWorker, Fields
<1>11. CASE PutRaw(w) \/ (Exchange(w) /\ ~PutStep(w))
  <2>1. PICK pc \in ValuePcs : worker' = [worker EXCEPT ![w].pc = pc]
    BY <1>11 DEF PutRaw, Exchange, ValuePcs
  <2> DEFINE r == [o EXCEPT !.pc = pc]
  <2>2. worker' = [worker EXCEPT ![w] = r]
    BY <1>1, <2>1
  <2>3. /\ r.at = o.at /\ r.finished = o.finished /\ r.depth = o.depth /\ r.pc = pc
    BY <1>10
  <2> HIDE DEF r
  <2>4. UNCHANGED <<mark, mdbx, log>> /\ worker[w].pc \in {"run", "exchange"}
    BY <1>11 DEF PutRaw, Exchange, workerOnly, dbVars, At
  <2>5. Instruction(w) = "zput"
    BY <1>11 DEF PutRaw, At, Exchange, AtValue, ValuePcs
  <2>6. ~AtStrict(w) /\ Active(w) /\ pc \notin {"commit", "done", "gone"}
    BY <2>4 DEF AtStrict, Active, ValuePcs
  <2> QED BY <1>3, <1>4, <1>9, <2>2, <2>3, <2>4, <2>5, <2>6
<1>12. CASE WaitAgain(w) \/ (CompressionWait(w) /\ ~PutStep(w))
  <2>1. UNCHANGED <<mark, worker, mdbx, log>> /\ worker[w].pc \in {"wait", "zwait"}
    BY <1>12 DEF WaitAgain, CompressionWait, workerOnly, dbVars
  <2>2. worker[w].pc \in ValuePcs => Instruction(w) = "zput"
    BY DEF AtValue
  <2>3. AtStrict(w) = FALSE
    BY <2>1 DEF AtStrict
  <2>4. SameBut(w) /\ Stays(w)
    BY <2>1, <2>2, <2>3 DEF Stays, SameBut, Workers, Active
  <2> QED BY <1>3, <1>4, <2>4
<1>13. CASE Lock(w)
  <2> DEFINE r == [o EXCEPT !.pc = "begin"]
  <2>1. worker' = [worker EXCEPT ![w] = r]
    BY <1>1, <1>13 DEF Lock
  <2>2. /\ r.at = o.at /\ r.finished = o.finished /\ r.depth = o.depth /\ r.pc = "begin"
        /\ r.resume = o.resume
    BY <1>10
  <2> HIDE DEF r
  <2>3. UNCHANGED <<mark, mdbx, log>> /\ worker[w].pc \in {"lock", "paused"}
    BY <1>13 DEF Lock, workerOnly, dbVars
  <2>4. Active(w) /\ (AtStrict(w) => r.resume = "strict")
    BY <1>1, <2>2, <2>3 DEF AtStrict, Active
  <2> QED BY <1>3, <1>4, <1>9, <2>1, <2>2, <2>3, <2>4 DEF ValuePcs
<1>14. CASE Begin(w)
  <2> DEFINE r == [o EXCEPT !.pc = worker[w].resume, !.txn = mdbx'.id, !.status = "none"]
  <2>1. worker' = [worker EXCEPT ![w] = r]
    BY <1>1, <1>14 DEF Begin
  <2>2. /\ r.at = o.at /\ r.finished = o.finished /\ r.depth = o.depth /\ r.pc = o.resume
        /\ r.resume = o.resume /\ o.resume \in {"run", "strict"}
    BY <1>1 DEF IsWorker, Fields
  <2> HIDE DEF r
  <2>3. mark' = mark /\ worker[w].pc = "begin"
    BY <1>14 DEF Begin, workerOnly
  <2>4. Active(w) /\ (AtStrict(w) => o.resume = "strict")
    BY <1>1, <2>3 DEF AtStrict, Active
  <2> QED BY <1>3, <1>4, <1>9, <1>14, <2>1, <2>2, <2>3, <2>4 DEF ValuePcs
<1>15. ASSUME NEW pc \in {"strictWait", "wait"}, WaitForCallbacks(w, pc), Active(w),
              pc = "strictWait" \/ ~AtStrict(w),
              UNCHANGED <<mdbx, log>>, mark' \in {mark, "waiting"}
       PROVE  SameBut(w) /\ Stays(w)
  <2> DEFINE progress == worker[w].progress \/ ~worker[w].finished
             status == IF worker[w].depth = 0 THEN "ALLOW_COMMIT" ELSE "none"
             r == [o EXCEPT !.pc = pc, !.progress = progress, !.status = status]
  <2>1. worker' = [worker EXCEPT ![w] = r]
    BY <1>1, <1>15 DEF WaitForCallbacks
  <2>2. r.at = o.at /\ r.finished = o.finished /\ r.depth = o.depth /\ r.pc = pc
    BY <1>1 DEF IsWorker, Fields
  <2> HIDE DEF r
  <2> QED BY <1>9, <1>15, <2>1, <2>2 DEF ValuePcs
<1>16. CASE Strict(w)
  <2>1. worker[w].pc = "strict" /\ UNCHANGED <<mark, mdbx, log>> /\ Active(w)
    BY <1>16 DEF Strict, workerOnly, dbVars, Active
  <2>2. CASE worker[w].finished
    <3> DEFINE r == [o EXCEPT !.pc = "run"]
    <3>1. worker' = [worker EXCEPT ![w] = r]
      BY <1>1, <1>16, <2>2 DEF Strict
    <3>2. r.at = o.at /\ r.finished = o.finished /\ r.depth = o.depth /\ r.pc = "run"
      BY <1>10
    <3> HIDE DEF r
    <3> QED BY <1>1, <1>3, <1>4, <1>9, <2>1, <2>2, <3>1, <3>2 DEF ValuePcs
  <2>3. CASE ~worker[w].finished
    BY <1>3, <1>4, <1>15, <1>16, <2>1, <2>3 DEF Strict
  <2> QED BY <2>2, <2>3
<1>17. CASE MarkWaiting(w)
  <2>1. /\ worker[w].pc = "run" /\ WaitForCallbacks(w, "wait") /\ mark' = "waiting"
        /\ UNCHANGED <<mdbx, log>>
    BY <1>17 DEF MarkWaiting, At, dbVars
  <2>2. Active(w) /\ ~AtStrict(w)
    BY <2>1 DEF Active, AtStrict
  <2> QED BY <1>3, <1>4, <1>15, <2>1, <2>2
<1>18. CASE MarkDelimiter(w)
  <2> DEFINE r == [o EXCEPT !.pc = "commit"]
  <2>1. worker' = [worker EXCEPT ![w] = r]
    BY <1>1, <1>18 DEF MarkDelimiter
  <2>2. /\ r.at = o.at /\ r.finished = o.finished /\ r.depth = o.depth /\ r.pc = "commit"
    BY <1>10
  <2> HIDE DEF r
  <2>3. /\ mark' = "delimiter" /\ UNCHANGED <<mdbx, log>> /\ worker[w].pc = "run"
        /\ Instruction(w) = "none" /\ MayEnd(w)
    BY <1>18 DEF MarkDelimiter, At, dbVars
  <2>4. Active(w) /\ ~AtStrict(w)
    BY <2>3 DEF AtStrict, Active
  <2>5. worker[w].at > Len(Queue)
    <3>1. worker[w].at \in Nat \ {0} /\ Len(calls) \in Nat
      BY DEF CleanInv, Records
    <3>2. Len(Queue) \in Nat /\ \A j \in 1..Len(Queue) : calls[Queue[j]] \in QueuedKinds
      BY <3>1, QueueOfCalls DEF IsList
    <3>3. "none" \notin QueuedKinds
      BY DEF QueuedKinds
    <3>4. ASSUME ~(worker[w].at > Len(Queue)) PROVE FALSE
      <4>1. worker[w].at \in 1..Len(Queue)
        BY <3>1, <3>2, <3>4
      <4>2. calls[Queue[worker[w].at]] = "none"
        BY <2>3, <3>4 DEF Instruction
      <4> QED BY <3>2, <3>3, <4>1, <4>2
    <3> QED BY <3>4
  <2> QED BY <1>1, <1>3, <1>4, <1>9, <2>1, <2>2, <2>3, <2>4, <2>5 DEF ValuePcs, MayEnd
<1>19. CASE Resume(w)
  <2> DEFINE r == [o EXCEPT !.pc = Resumed(w), !.status = "none"]
  <2>1. worker' = [worker EXCEPT ![w] = r]
    BY <1>1, <1>19 DEF Resume
  <2>2. r.at = o.at /\ r.finished = o.finished /\ r.depth = o.depth /\ r.pc = Resumed(w)
    BY <1>1 DEF IsWorker, Fields
  <2> HIDE DEF r
  <2>3. UNCHANGED <<mark, mdbx, log>> /\ worker[w].pc \in {"wait", "strictWait"}
    BY <1>19 DEF Resume, Woken, workerOnly, dbVars
  <2>4. /\ Active(w) /\ (AtStrict(w) => Resumed(w) = "strict")
        /\ Resumed(w) \in {"run", "strict"}
    BY <2>3 DEF AtStrict, Active, Resumed
  <2> QED BY <1>3, <1>4, <1>9, <2>1, <2>2, <2>3, <2>4 DEF ValuePcs
<1>20. CASE Interrupt(w)
  <2> DEFINE r == [o EXCEPT !.pc = "paused", !.txn = 0,
                       !.status = "RESTART_WORKER_TXN", !.resume = Resumed(w)]
  <2>1. worker' = [worker EXCEPT ![w] = r]
    BY <1>1, <1>20 DEF Interrupt
  <2>2. /\ r.at = o.at /\ r.finished = o.finished /\ r.depth = o.depth /\ r.pc = "paused"
        /\ r.resume = Resumed(w)
    BY <1>1 DEF IsWorker, Fields
  <2> HIDE DEF r
  <2>3. mark' = mark /\ worker[w].pc \in {"wait", "strictWait"}
    BY <1>20 DEF Interrupt, Woken, workerOnly
  <2>4. Active(w) /\ (AtStrict(w) => Resumed(w) = "strict")
    BY <2>3 DEF AtStrict, Active, Resumed
  <2> QED BY <1>3, <1>4, <1>9, <1>20, <2>1, <2>2, <2>3, <2>4 DEF ValuePcs
<1>21. CASE Commit(w)
  <2> DEFINE r == [o EXCEPT !.pc = "done", !.txn = 0]
  <2>1. worker' = [worker EXCEPT ![w] = r]
    BY <1>1, <1>21 DEF Commit
  <2>2. /\ r.at = o.at /\ r.finished = o.finished /\ r.depth = o.depth /\ r.pc = "done"
    BY <1>1 DEF IsWorker, Fields
  <2> HIDE DEF r
  <2>3. mark' = mark /\ worker[w].pc = "commit"
    BY <1>21 DEF Commit, workerOnly
  <2>4. ~Active(w) /\ ~AtStrict(w)
    BY <2>3 DEF AtStrict, Active
  <2> QED BY <1>3, <1>4, <1>9, <1>21, <2>1, <2>2, <2>3, <2>4 DEF ValuePcs
<1>22. \/ Put(w) \/ CompressSelf(w) \/ (Exchange(w) /\ PutStep(w) /\ UNCHANGED log)
       \/ (CompressionWait(w) /\ PutStep(w)) \/ StartBlock(w) \/ EndBlock(w) \/ UserCallback(w)
       \/ PutRaw(w) \/ (Exchange(w) /\ ~PutStep(w))
       \/ WaitAgain(w) \/ (CompressionWait(w) /\ ~PutStep(w))
       \/ Lock(w) \/ Begin(w) \/ Strict(w) \/ MarkWaiting(w) \/ MarkDelimiter(w)
       \/ Resume(w) \/ Interrupt(w) \/ Commit(w)
  <2>1. Exchange(w) /\ PutStep(w) => UNCHANGED log
    BY DEF Exchange, PutStep, dbVars
  <2> QED BY <2>1 DEF WorkerStep
<1> QED BY <1>6, <1>7, <1>8, <1>11, <1>12, <1>13, <1>14, <1>16, <1>17, <1>18, <1>19, <1>20, <1>21,
           <1>22, Zenon

-----------------------------------------------------------------------------
(* The transactions stay whole.                                             *)

\* What a write does to the frames, and the end of a child.
Stack(frames, k) == IsList(frames) /\ k = Len(frames) /\ k > 0 /\ IsList(frames[k])

WritesAt(old, new, k, n) ==
    /\ IsList(new) /\ Len(new) = k
    /\ new[k] = old[k] \o <<n>>
    /\ \A i \in 1..k : i # k => new[i] = old[i]

LEMMA WrittenAt ==
    ASSUME NEW frames, NEW k, Stack(frames, k), NEW n
    PROVE  WritesAt(frames, Written(frames, n), k, n)
<1>0. IsList(frames) /\ k = Len(frames) /\ k > 0 /\ IsList(frames[k])
  BY DEF Stack
<1>1. IsList(Written(frames, n)) /\ Len(Written(frames, n)) = k
  BY <1>0, WrittenFrames
<1>2. Append(frames[k], n) = frames[k] \o <<n>>
  BY <1>0, AppendsOne
<1>3. k \in 1..k /\ DOMAIN frames = 1..k
  BY <1>0 DEF IsList
<1>4. /\ Written(frames, n)[k] = Append(frames[k], n)
      /\ \A i \in 1..k : i # k => Written(frames, n)[i] = frames[i]
  BY <1>0, <1>3 DEF Written
<1> QED BY <1>1, <1>2, <1>4 DEF WritesAt

EndsAt(old, new, k, aborts) ==
    /\ IsList(new) /\ Len(new) = k
    /\ new[k] = IF aborts THEN old[k] ELSE old[k] \o old[k + 1]
    /\ \A i \in 1..k : i # k => new[i] = old[i]

LEMMA EndedAt ==
    ASSUME NEW frames, IsList(frames), NEW k, k + 1 = Len(frames), k \in Nat \ {0}, NEW aborts
    PROVE  EndsAt(frames, Ended(frames, aborts), k, aborts)
<1>1. Len(frames) > 1 /\ Len(frames) > 0 /\ Len(frames) - 1 = k
  OBVIOUS
<1>2. IsList(Ended(frames, aborts)) /\ Len(Ended(frames, aborts)) = k
  BY <1>1, EndedFrames
<1>3. frames # <<>>
  BY <1>1, EmptyList
<1> PICK front : front = Front(frames)
  OBVIOUS
<1>4. IsList(front) /\ Len(front) = k /\ \A i \in 1..k : front[i] = frames[i]
  BY <1>1, <1>3, FrontOfList
<1>5. Last(frames) = frames[k + 1]
  BY DEF Last
<1>6. k \in DOMAIN front /\ DOMAIN front = 1..k
  BY <1>4 DEF IsList
<1>7. Ended(frames, aborts) = IF aborts THEN front
                              ELSE [front EXCEPT ![k] = front[k] \o frames[k + 1]]
  BY <1>1, <1>5 DEF Ended, Merged
<1>8. CASE aborts
  BY <1>2, <1>4, <1>6, <1>7, <1>8 DEF EndsAt
<1>9. CASE ~aborts
  <2>1. Ended(frames, aborts) = [front EXCEPT ![k] = front[k] \o frames[k + 1]]
    BY <1>7, <1>9
  <2>2. front[k] = frames[k]
    BY <1>4, <1>6
  <2>3. Ended(frames, aborts)[k] = frames[k] \o frames[k + 1]
    BY <1>6, <2>1, <2>2
  <2>4. \A i \in 1..k : i # k => Ended(frames, aborts)[i] = frames[i]
    BY <1>4, <1>6, <2>1
  <2> QED BY <1>2, <1>9, <2>3, <2>4 DEF EndsAt
<1> QED BY <1>8, <1>9

\* The calls and the queue do not change.
LEMMA SameQueue ==
    ASSUME calls' = calls
    PROVE  Queue' = Queue /\ \A s : WholeList(s) => WholeList(s)'
<1>1. ASSUME NEW s, WholeList(s) PROVE WholeList(s)'
  BY <1>1 DEF WholeList, Whole, Lasting
<1> QED BY <1>1 DEF Queue

\* The instruction a worker moves on from.
LEMMA InstructionIs ==
    ASSUME CleanInv, NEW w \in Workers, worker[w].at <= Len(Queue)
    PROVE  /\ worker[w].at \in 1..Len(Queue) /\ Queue[worker[w].at] \in DOMAIN calls
           /\ Instruction(w) = calls[Queue[worker[w].at]]
<1>1. worker[w].at \in Nat \ {0} /\ Len(calls) \in Nat /\ DOMAIN calls = 1..Len(calls)
  BY DEF CleanInv, Records
<1>2. Len(Queue) \in Nat /\ \A j \in 1..Len(Queue) : Queue[j] \in 1..Len(calls)
  BY <1>1, QueueOfCalls DEF IsList
<1>3. worker[w].at \in 1..Len(Queue)
  BY <1>1, <1>2
<1>4. ~(worker[w].at > Len(Queue))
  BY <1>2, <1>3
<1> QED BY <1>1, <1>2, <1>3, <1>4 DEF Instruction

LEMMA WorkersKeepWhole ==
    ASSUME CleanInv, CleanInv', WholeLists, AtValue, NEW w \in Workers, WorkerStep(w)
    PROVE  WholeLists' /\ AtValue' /\ JSContents'
<1>1. /\ SameBut(w) /\ UNCHANGED <<jsVars, current>> /\ ~JSHolds
      /\ Puts(w) \/ Passes(w) \/ CallsBack(w) \/ Stays(w)
  BY WorkerMoves
<1>2. calls' = calls /\ js' = js
  BY <1>1 DEF jsVars
<1>3. Queue' = Queue /\ \A s : WholeList(s) => WholeList(s)'
  BY <1>2, SameQueue
<1>4. ~JSInTxn /\ ~JSInTxn' /\ js'.pc # "nested"
  BY <1>1, <1>2 DEF JSHolds, JSInTxn
<1>5. JSContents'
  BY <1>4 DEF JSContents
<1>6. AtValue'
  <2> SUFFICES ASSUME NEW v \in Workers, worker'[v].pc \in ValuePcs
               PROVE  Instruction(v)' = "zput"
    BY <1>1 DEF AtValue, SameBut
  <2>1. CASE v # w
    <3>1. worker'[v] = worker[v]
      BY <1>1, <2>1 DEF SameBut
    <3>2. Instruction(v) = "zput"
      BY <3>1 DEF AtValue
    <3> QED BY <1>2, <1>3, <3>1, <3>2 DEF Instruction
  <2>2. CASE v = w
    <3>1. Stays(w)
      BY <1>1, <2>2 DEF Puts, Passes, CallsBack, ValuePcs
    <3>2. Instruction(w) = "zput" /\ worker'[w].at = worker[w].at
      BY <2>2, <3>1 DEF Stays
    <3> QED BY <1>2, <1>3, <2>2, <3>2 DEF Instruction
  <2> QED BY <2>1, <2>2
<1>7. MdbxRecord /\ MdbxRecord'
  BY DEF CleanInv, Records
<1>8. CASE UNCHANGED <<mdbx, log>>
  <2>1. WorkersTxn' => WorkersTxn
    BY <1>4, <1>8 DEF CleanInv, ExchangeInv, OpenTxn, IsOpen
  <2>2. WholeLists'
    BY <1>3, <1>8, <2>1 DEF WholeLists
  <2> QED BY <1>5, <1>6, <2>2
<1>9. CASE Puts(w)
  <2> PICK n : n = Queue[worker[w].at]
    OBVIOUS
  <2>1. n \in DOMAIN calls /\ calls[n] \in {"put", "zput"}
    BY <1>9, InstructionIs DEF Puts, MovesOn
  <2>2. InTxn(w)
    BY <1>9 DEF Puts, MovesOn, ValuePcs, InTxn, TxnPcs
  <2>3. WorkersTxn
    BY <2>2 DEF WorkersTxn
  <2>4. Len(mdbx.frames) = 1 /\ IsList(mdbx.frames) /\ WholeList(mdbx.frames[1])
    BY <1>4, <1>7, <2>3 DEF CleanInv, ExchangeInv, OpenTxn, MdbxRecord, WholeLists
  <2> PICK old : old = mdbx.frames
    OBVIOUS
  <2> PICK new : new = Written(old, n)
    OBVIOUS
  <2>5. mdbx'.frames = new /\ log' = log
    BY <1>7, <1>9 DEF Puts, MovesOn, MdbxRecord
  <2>6. IsList(new) /\ Len(new) = 1 /\ new[1] = old[1] \o <<n>>
    <3> PICK k : k = 1
      OBVIOUS
    <3>1. Stack(old, k)
      BY <2>4 DEF WholeList, Stack
    <3>2. WritesAt(old, new, k, n)
      BY <3>1, WrittenAt
    <3> QED BY <3>2 DEF WritesAt
  <2>7. WholeList(<<n>>)
    <3>1. calls \in Seq(QueuedKinds \cup SyncKinds)
      BY DEF CleanInv, Records
    <3> QED BY <2>1, <3>1, WholeOne
  <2>8. WholeList(new[1])
    <3> PICK a, b : a = old[1] /\ b = <<n>>
      OBVIOUS
    <3>1. WholeList(a \o b)
      BY <2>4, <2>7, WholeConcat
    <3> QED BY <2>6, <3>1
  <2>9. WholeList(new[1])' /\ IsList(new[1]) /\ \A i \in 1..Len(new) : i = 1
    BY <1>3, <2>6, <2>8 DEF WholeList
  <2>10. WholeLists'
    BY <1>3, <2>5, <2>9 DEF WholeLists
  <2> QED BY <1>5, <1>6, <2>10
<1>10. CASE Begin(w)
  <2> PICK none : none = <<>>
    OBVIOUS
  <2>1. mdbx'.frames = <<none>> /\ log' = log
    BY <1>10 DEF Begin, Begun
  <2>2. WholeList(none)'
    BY <1>3, NothingIsWhole
  <2>3. Len(<<none>>) = 1 /\ <<none>>[1] = none /\ IsList(none)
    BY <2>2, SingleList DEF WholeList
  <2>4. WholeLists'
    BY <1>3, <2>1, <2>2, <2>3 DEF WholeLists
  <2> QED BY <1>5, <1>6, <2>4
<1>11. CASE Interrupt(w) \/ Commit(w)
  <2>1. InTxn(w)
    BY <1>11 DEF Interrupt, Woken, Commit, InTxn, TxnPcs
  <2>2. WorkersTxn /\ WholeList(mdbx.frames[1])
    BY <2>1 DEF WorkersTxn, WholeLists
  <2> PICK f : f = mdbx.frames[1]
    OBVIOUS
  <2>3. log' = Append(log, f) /\ mdbx' = Closed
    BY <1>11 DEF Interrupt, Commit
  <2>4. mdbx'.frames = <<>> /\ Len(<<>>) = 0
    BY <1>7, <2>3 DEF Closed, MdbxRecord
  <2>5. ~WorkersTxn'
    BY <2>4 DEF CleanInv, ExchangeInv, OpenTxn, IsOpen
  <2>6. IsList(log') /\ (\A t \in 1..Len(log) : WholeList(log[t]))'
    <3> PICK l : l = log
      OBVIOUS
    <3> PICK longer : longer = Append(l, f)
      OBVIOUS
    <3>1. IsList(l) /\ \A t \in 1..Len(l) : WholeList(l[t])
      BY DEF WholeLists
    <3>2. /\ IsList(longer) /\ Len(longer) = Len(l) + 1 /\ longer[Len(l) + 1] = f
          /\ \A t \in 1..Len(l) : longer[t] = l[t]
      BY <3>1, AppendedList
    <3>3. Len(l) \in Nat
      BY <3>1 DEF IsList
    <3>4. \A t \in 1..Len(longer) : WholeList(longer[t])
      BY <2>2, <3>1, <3>2, <3>3
    <3>5. log' = longer
      BY <2>3
    <3>6. \A t \in 1..Len(log') : WholeList(log'[t])
      BY <3>4, <3>5
    <3>7. ASSUME NEW t \in 1..Len(log') PROVE WholeList(log[t])'
      <4>1. WholeList(log'[t])
        BY <3>6
      <4> QED BY <1>2, <4>1 DEF WholeList, Whole, Lasting
    <3> QED BY <3>2, <3>5, <3>7
  <2>7. WholeLists'
    BY <2>4, <2>5, <2>6 DEF WholeLists
  <2> QED BY <1>5, <1>6, <2>7
<1> QED BY <1>1, <1>8, <1>9, <1>10, <1>11 DEF Passes, CallsBack, MovesOn, Stays

\* Every further call leaves the earlier ones alone, and the queue so far.
CallsKept ==
    /\ DOMAIN calls \subseteq DOMAIN calls'
    /\ \A n \in DOMAIN calls : calls'[n] = calls[n]
    /\ Len(Queue) <= Len(Queue') /\ \A p \in 1..Len(Queue) : Queue'[p] = Queue[p]

LEMMA QueueGrows ==
    ASSUME calls \in Seq(QueuedKinds \cup SyncKinds), NEW kind, calls' = Append(calls, kind)
    PROVE  /\ kind \in QueuedKinds => Queue' = Append(Queue, Len(calls) + 1)
           /\ kind \notin QueuedKinds => Queue' = Queue
<1> PICK n \in Nat : n = Len(calls)
  OBVIOUS
<1> PICK all : all = [i \in 1..n |-> i]
  OBVIOUS
<1> PICK made : made = calls'
  OBVIOUS
<1>1. Len(calls') = n + 1 /\ made[n + 1] = kind /\ \A i \in 1..n : made[i] = calls[i]
  OBVIOUS
<1>2. IsList(all) /\ Len(all) = n /\ \A i \in 1..n : all[i] = i
  BY DEF IsList
<1>3. Append(all, n + 1) = [i \in 1..n + 1 |-> i]
  <2> PICK longer : longer = Append(all, n + 1)
    OBVIOUS
  <2>1. /\ IsList(longer) /\ Len(longer) = n + 1 /\ longer[n + 1] = n + 1
        /\ \A i \in 1..n : longer[i] = all[i]
    BY <1>2, AppendedList
  <2>2. \A i \in 1..n + 1 : longer[i] = i
    BY <1>2, <2>1
  <2> QED BY <2>1, <2>2 DEF IsList
<1>4. Queue' = Chosen(made, Append(all, n + 1), QueuedKinds)
  BY <1>1, <1>3 DEF Queue
<1>5. Queue = Chosen(calls, all, QueuedKinds)
  BY DEF Queue
<1>6. PICK e : e = n + 1
  OBVIOUS
<1>7. PICK kinds : kinds = QueuedKinds
  OBVIOUS
<1>8. Chosen(made, all, kinds) = Chosen(calls, all, kinds)
  <2>1. SameKinds(made, calls, all)
    BY <1>1, <1>2 DEF SameKinds
  <2> QED BY <1>2, <2>1, ChosenOfOther
<1>9. ChoosesNext(made, all, kinds, e)
  BY <1>2, ChosenAppend
<1>10. Queue' = Chosen(made, Append(all, e), kinds) /\ Queue = Chosen(made, all, kinds)
  BY <1>4, <1>5, <1>6, <1>7, <1>8
<1>11. made[e] = kind /\ e = Len(calls) + 1
  BY <1>1, <1>6
<1> QED BY <1>7, <1>9, <1>10, <1>11 DEF ChoosesNext

LEMMA CallsStay ==
    ASSUME CleanInv, calls' = calls \/ \E kind : calls' = Append(calls, kind)
    PROVE  CallsKept
<1>1. calls \in Seq(QueuedKinds \cup SyncKinds) /\ Len(calls) \in Nat
  BY DEF CleanInv, Records
<1>2. IsList(Queue)
  BY <1>1, QueueOfCalls
<1>3. Len(Queue) \in Nat
  BY <1>2 DEF IsList
<1>4. CASE calls' = calls
  <2>1. Queue' = Queue
    BY <1>4, SameQueue
  <2> QED BY <1>3, <1>4, <2>1 DEF CallsKept
<1>5. ASSUME NEW kind, calls' = Append(calls, kind) PROVE CallsKept
  <2>1. DOMAIN calls \subseteq DOMAIN calls' /\ \A n \in DOMAIN calls : calls'[n] = calls[n]
    BY <1>1, <1>5
  <2>2. Queue' = Queue \/ \E e : Queue' = Append(Queue, e)
    BY <1>1, <1>5, QueueGrows
  <2>3. Len(Queue) <= Len(Queue') /\ \A p \in 1..Len(Queue) : Queue'[p] = Queue[p]
    <3>1. CASE Queue' = Queue
      BY <1>3, <3>1
    <3>2. ASSUME NEW e, Queue' = Append(Queue, e)
          PROVE  Len(Queue) <= Len(Queue') /\ \A p \in 1..Len(Queue) : Queue'[p] = Queue[p]
      BY <1>2, <1>3, <3>2, AppendedList
    <3> QED BY <2>2, <3>1, <3>2
  <2> QED BY <2>1, <2>3 DEF CallsKept
<1> QED BY <1>4, <1>5

-----------------------------------------------------------------------------
(* The steps of JavaScript without a transaction.                           *)

SamePlace(w) ==
    /\ worker'[w].at = worker[w].at /\ worker'[w].finished = worker[w].finished
    /\ worker'[w].depth = worker[w].depth /\ worker'[w].resume = worker[w].resume
    /\ worker'[w].pc = worker[w].pc \/ (worker[w].pc = "done" /\ worker'[w].pc = "gone")

QuietStep ==
    \/ Call \/ Notify \/ StartWriting \/ AwaitTxn \/ Acquire \/ Interrupted
    \/ \E w \in Workers : Complete(w) \/ Progress(w)

LEMMA QuietMoves ==
    ASSUME CleanInv, QuietStep
    PROVE  /\ UNCHANGED <<ran, mdbx, log>> /\ ~JSInTxn /\ ~JSInTxn' /\ CallsKept
           /\ \A w \in Workers : w \in Workers' /\ SamePlace(w)
           /\ \A w \in Workers' : w \in Workers \/ (StartWriting /\ worker'[w] = NewWorker(start))
<1>1. UNCHANGED <<ran, mdbx, log>>
  BY DEF QuietStep, Call, Submit, CallSync, Notify, StartWriting, AwaitTxn, Acquire, Interrupted,
         Complete, Progress, jsVars, dbVars
<1>2. ~JSInTxn /\ ~JSInTxn'
  <2>1. js.pc \in {"idle", "notify", "progress", "acquire", "interrupt"}
    BY DEF QuietStep, Call, Submit, CallSync, Called, Notify, StartWriting, AwaitTxn, Acquire,
           Interrupted, Complete, Progress
  <2>2. IsJS(js)
    BY DEF CleanInv, HandoffInv, Shapes
  <2>3. js'.pc \in {"idle", "notify", "progress", "acquire", "interrupt", "begin", "join"}
    <3>1. CASE Call
      BY <2>2, <3>1 DEF Call, Submit, CallSync, Called, IsJS
    <3>2. CASE Notify \/ StartWriting \/ AwaitTxn
      BY <3>2 DEF Notify, StartWriting, AwaitTxn, Idle, jsVars
    <3>3. CASE Acquire \/ Interrupted
      BY <2>2, <3>3 DEF Acquire, Interrupted, IsJS
    <3>4. ASSUME NEW w \in Workers, Complete(w) \/ Progress(w) PROVE js'.pc \in {"idle", "progress"}
      BY <3>4 DEF Complete, Progress, jsVars
    <3> QED BY <3>1, <3>2, <3>3, <3>4 DEF QuietStep
  <2> QED BY <2>1, <2>3 DEF JSInTxn
<1>3. CallsKept
  <2>1. calls' = calls \/ \E kind : calls' = Append(calls, kind)
    BY DEF QuietStep, Call, Submit, CallSync, Called, Notify, StartWriting, AwaitTxn, Acquire,
           Interrupted, Complete, Progress, jsVars
  <2> QED BY <2>1, CallsStay
<1>4. \A w \in Workers : IsWorker(worker[w])
  BY DEF CleanInv, HandoffInv, Shapes
<1>5. ASSUME worker' = worker
      PROVE  Workers' = Workers /\ \A w \in Workers : SamePlace(w)
  BY <1>5 DEF Workers, SamePlace
<1>6. ASSUME NEW v, NEW r, worker' = [worker EXCEPT ![v] = r],
             v \in Workers => /\ r.at = worker[v].at /\ r.finished = worker[v].finished
                              /\ r.depth = worker[v].depth /\ r.resume = worker[v].resume
                              /\ \/ r.pc = worker[v].pc
                                 \/ worker[v].pc = "done" /\ r.pc = "gone"
      PROVE  Workers' = Workers /\ \A w \in Workers : SamePlace(w)
  <2>1. DOMAIN worker' = DOMAIN worker
    BY <1>6 DEF CleanInv, HandoffInv, Shapes
  <2>2. Workers' = Workers /\ \A w \in Workers : worker'[w] = IF w = v THEN r ELSE worker[w]
    BY <1>6, <2>1 DEF Workers, CleanInv, HandoffInv, Shapes
  <2> QED BY <1>6, <2>2 DEF SamePlace
<1>7. CASE worker' = worker
  BY <1>1, <1>2, <1>3, <1>5, <1>7
<1>8. CASE Acquire /\ worker' # worker
  <2>1. PICK status : worker' = [worker EXCEPT ![current].status = status]
    BY <1>8 DEF Acquire
  <2> DEFINE r == [worker[current] EXCEPT !.status = status]
  <2>2. worker' = [worker EXCEPT ![current] = r]
    BY <2>1
  <2>3. current \in Workers =>
           /\ r.at = worker[current].at /\ r.finished = worker[current].finished
           /\ r.depth = worker[current].depth /\ r.resume = worker[current].resume
           /\ r.pc = worker[current].pc
    BY <1>4 DEF IsWorker, Fields
  <2> HIDE DEF r
  <2>4. Workers' = Workers /\ \A w \in Workers : SamePlace(w)
    BY <1>6, <2>2, <2>3
  <2> QED BY <1>1, <1>2, <1>3, <2>4
<1>9. ASSUME NEW v \in Workers, Complete(v) \/ Progress(v)
      PROVE  Workers' = Workers /\ \A w \in Workers : SamePlace(w)
  <2>1. CASE Complete(v)
    <3> DEFINE r == [worker[v] EXCEPT !.pc = "gone"]
    <3>1. worker' = [worker EXCEPT ![v] = r] /\ worker[v].pc = "done"
      BY <2>1 DEF Complete
    <3>2. /\ r.at = worker[v].at /\ r.finished = worker[v].finished
          /\ r.depth = worker[v].depth /\ r.resume = worker[v].resume /\ r.pc = "gone"
      BY <1>4 DEF IsWorker, Fields
    <3> HIDE DEF r
    <3> QED BY <1>6, <3>1, <3>2
  <2>2. CASE Progress(v)
    <3> DEFINE r == [worker[v] EXCEPT !.progress = FALSE]
    <3>1. worker' = [worker EXCEPT ![v] = r]
      BY <2>2 DEF Progress
    <3>2. /\ r.at = worker[v].at /\ r.finished = worker[v].finished
          /\ r.depth = worker[v].depth /\ r.resume = worker[v].resume /\ r.pc = worker[v].pc
      BY <1>4 DEF IsWorker, Fields
    <3> HIDE DEF r
    <3> QED BY <1>6, <3>1, <3>2
  <2> QED BY <1>9, <2>1, <2>2
<1>10. CASE StartWriting
  <2> PICK n \in Nat : n = Len(worker)
    BY DEF CleanInv, HandoffInv, Shapes
  <2>1. worker' = [v \in 1..n + 1 |-> IF v = n + 1 THEN NewWorker(start) ELSE worker[v]]
    BY <1>10, AppendedTo DEF StartWriting, CleanInv, HandoffInv, Shapes
  <2>2. Workers = 1..n
    BY WorkersAreNumbers DEF CleanInv, HandoffInv
  <2>3. /\ Workers' = 1..n + 1 /\ worker'[n + 1] = NewWorker(start)
        /\ \A v \in Workers : v \in Workers' /\ worker'[v] = worker[v]
    BY <2>1, <2>2 DEF Workers
  <2>4. \A w \in Workers : w \in Workers' /\ SamePlace(w)
    BY <2>3 DEF SamePlace
  <2>5. \A w \in Workers' : w \in Workers \/ worker'[w] = NewWorker(start)
    BY <2>2, <2>3
  <2> QED BY <1>1, <1>2, <1>3, <1>10, <2>4, <2>5
<1>11. worker' = worker \/ Acquire \/ StartWriting \/ \E v \in Workers : Complete(v) \/ Progress(v)
  BY DEF QuietStep, Call, Submit, CallSync, Notify, AwaitTxn, Interrupted
<1> QED BY <1>1, <1>2, <1>3, <1>7, <1>8, <1>9, <1>10, <1>11

\* While a transaction is open and JavaScript is in none, it is a worker's.
LEMMA WorkersTxnStays ==
    ASSUME CleanInv, CleanInv', mdbx' = mdbx, ~JSInTxn, WorkersTxn'
    PROVE  WorkersTxn
<1>1. IsOpen'
  BY DEF CleanInv, ExchangeInv, OpenTxn
<1>2. IsOpen
  BY <1>1 DEF IsOpen
<1> QED BY <1>2 DEF CleanInv, ExchangeInv, OpenTxn

LEMMA QuietKeepsWhole ==
    ASSUME CleanInv, CleanInv', WholeLists, AtValue, QuietStep
    PROVE  WholeLists' /\ AtValue' /\ JSContents'
<1>1. /\ UNCHANGED <<ran, mdbx, log>> /\ ~JSInTxn /\ ~JSInTxn' /\ CallsKept
      /\ \A w \in Workers : w \in Workers' /\ SamePlace(w)
      /\ \A w \in Workers' : w \in Workers \/ (StartWriting /\ worker'[w] = NewWorker(start))
  BY QuietMoves
<1>2. JSContents'
  BY <1>1 DEF JSContents, JSInTxn
<1>3. ASSUME NEW s, WholeList(s) PROVE WholeList(s)'
  <2>1. calls \in Seq(QueuedKinds \cup SyncKinds)
    BY DEF CleanInv, Records
  <2> QED BY <1>1, <1>3, <2>1, WholeStays DEF CallsKept
<1>4. WorkersTxn' => WorkersTxn
  BY <1>1, WorkersTxnStays
<1>5. WholeLists'
  <2>1. PICK l, o : l = log /\ o = mdbx.frames
    OBVIOUS
  <2>2. /\ IsList(l) /\ \A t \in 1..Len(l) : WholeList(l[t])
        /\ \A i \in 1..Len(o) : IsList(o[i])
        /\ WorkersTxn => WholeList(o[1])
    BY <2>1 DEF WholeLists
  <2>3. (\A t \in 1..Len(l) : WholeList(l[t])') /\ (WorkersTxn' => WholeList(o[1])')
    BY <1>3, <1>4, <2>2
  <2>4. log' = l /\ mdbx'.frames = o
    BY <1>1, <2>1
  <2>5. (\A t \in 1..Len(log) : WholeList(log[t]))'
    BY <2>3, <2>4 DEF WholeList, Whole, Lasting
  <2>6. WorkersTxn' => WholeList(mdbx.frames[1])'
    BY <2>3, <2>4 DEF WholeList, Whole, Lasting
  <2> QED BY <2>2, <2>4, <2>5, <2>6 DEF WholeLists
<1>6. AtValue'
  <2>1. SUFFICES ASSUME NEW w \in Workers', worker'[w].pc \in ValuePcs
                 PROVE  Instruction(w)' = "zput"
    BY DEF AtValue
  <2>2. w \in Workers /\ SamePlace(w)
    BY <1>1, <2>1 DEF NewWorker, ValuePcs
  <2>3. worker'[w].at = worker[w].at /\ worker[w].pc \in ValuePcs
    BY <2>1, <2>2 DEF SamePlace, ValuePcs
  <2>4. Len(Queue) \in Nat /\ Len(Queue') \in Nat /\ worker[w].at \in Nat
    <3>1. Len(calls) \in Nat /\ Len(calls') \in Nat
      BY DEF CleanInv, Records
    <3>2. IsList(Queue)
      BY <3>1, QueueOfCalls
    <3>3. (Len(calls) \in Nat)'
      BY <3>1
    <3>4. IsList(Queue)'
      BY <3>3, QueueOfCalls, PTL
    <3> QED BY <2>2, <3>2, <3>4 DEF IsList, CleanInv, Records
  <2>5. Instruction(w) = "zput"
    BY <2>2, <2>3 DEF AtValue
  <2>6. worker[w].at <= Len(Queue)
    BY <2>4, <2>5 DEF Instruction
  <2>7. /\ worker[w].at \in 1..Len(Queue) /\ Queue[worker[w].at] \in DOMAIN calls
        /\ Instruction(w) = calls[Queue[worker[w].at]]
    BY <2>2, <2>6, InstructionIs
  <2>8. Queue'[worker[w].at] = Queue[worker[w].at] /\ Len(Queue) <= Len(Queue')
        /\ calls'[Queue[worker[w].at]] = "zput"
    BY <1>1, <2>5, <2>7 DEF CallsKept
  <2>9. ~(worker[w].at > Len(Queue'))
    BY <2>4, <2>6, <2>8
  <2> QED BY <2>3, <2>8, <2>9 DEF Instruction
<1> QED BY <1>2, <1>5, <1>6

-----------------------------------------------------------------------------
(* The position that is next.                                               *)

LEMMA QueueIs ==
    ASSUME CleanInv
    PROVE  /\ IsList(Queue) /\ Len(Queue) \in Nat
           /\ \A p \in 1..Len(Queue) : Queue[p] \in DOMAIN calls /\ calls[Queue[p]] \in QueuedKinds
<1>1. Len(calls) \in Nat /\ DOMAIN calls = 1..Len(calls)
  BY DEF CleanInv, Records
<1>2. IsList(Queue) /\ \A p \in 1..Len(Queue) : Queue[p] \in 1..Len(calls)
                                                 /\ calls[Queue[p]] \in QueuedKinds
  BY <1>1, QueueOfCalls
<1> QED BY <1>1, <1>2 DEF IsList

LEMMA FrontierOfActive ==
    ASSUME CleanInv, NEW w \in Workers, Active(w)
    PROVE  Frontier = worker[w].at /\ w = current /\ start = 0 /\ mark # "delimiter"
<1>1. w = current /\ start = 0 /\ mark # "delimiter"
  BY DEF CleanInv, ExchangeInv, OneWorker
<1> QED BY <1>1 DEF Frontier

\* A worker moves the frontier with its own position.
LEMMA FrontierOfWorkers ==
    ASSUME CleanInv, CleanInv', Positions, AtValue, NEW w \in Workers, WorkerStep(w)
    PROVE  /\ Stays(w) => Frontier' = Frontier
           /\ MovesOn(w) => /\ Active(w) /\ Active(w)' /\ Frontier = worker[w].at
                             /\ Frontier' = Frontier + 1 /\ Frontier <= Len(Queue)
           /\ Positions'
<1>1. /\ SameBut(w) /\ UNCHANGED <<jsVars, current>>
      /\ Puts(w) \/ Passes(w) \/ CallsBack(w) \/ Stays(w)
  BY WorkerMoves
<1>2. /\ calls' = calls /\ start' = start /\ current' = current /\ Queue' = Queue
  BY <1>1, SameQueue DEF jsVars
<1>3. Len(Queue) \in Nat /\ Frontier \in 1..Len(Queue) + 1
  BY QueueIs DEF Positions
<1>4. w \in Workers' /\ Workers' = Workers
  BY <1>1 DEF SameBut
<1>5. Active(w) => Frontier = worker[w].at /\ w = current /\ start = 0 /\ mark # "delimiter"
  BY FrontierOfActive
<1>6. Active(w)' => Frontier' = worker'[w].at /\ mark' # "delimiter"
  BY <1>4 DEF CleanInv, ExchangeInv, OneWorker, Frontier
<1>7. CASE Stays(w)
  <2>1. worker'[w].at = worker[w].at
    BY <1>7 DEF Stays
  <2>5. Frontier' = Frontier
    <3>1. CASE mark' = mark /\ (Active(w) <=> Active(w)')
      <4>1. CASE mark = "delimiter" \/ start # 0
        BY <1>2, <3>1, <4>1 DEF Frontier
      <4>2. CASE mark # "delimiter" /\ start = 0
        <5>1. current \in Workers /\ Active(current)
          BY <4>2 DEF Positions
        <5>2. worker'[current].at = worker[current].at
          BY <1>1, <2>1, <5>1 DEF SameBut
        <5> QED BY <1>2, <3>1, <4>2, <5>2 DEF Frontier
      <4> QED BY <4>1, <4>2
    <3>2. CASE mark' = "waiting" /\ Active(w) /\ Active(w)'
      BY <1>5, <1>6, <2>1, <3>2
    <3>3. CASE mark' = "delimiter" /\ Active(w) /\ worker[w].at > Len(Queue)
      <4>1. Frontier = Len(Queue) + 1
        BY <1>3, <1>5, <3>3
      <4> QED BY <1>2, <3>3, <4>1 DEF Frontier
    <3> QED BY <1>7, <3>1, <3>2, <3>3 DEF Stays
  <2>6. mark' # "delimiter" /\ start' = 0 => current \in Workers /\ Active(current)'
    <3>1. CASE mark' = mark /\ (Active(w) <=> Active(w)')
      BY <1>1, <1>2, <3>1 DEF Positions, SameBut, Active
    <3>2. CASE mark' = "waiting" /\ Active(w) /\ Active(w)'
      BY <1>2, <1>5, <3>2 DEF Active
    <3> QED BY <1>7, <3>1, <3>2 DEF Stays
  <2>7. \A v \in Workers : worker'[v].at \in 1..Frontier
    BY <1>1, <2>1 DEF Positions, SameBut
  <2>8. ~MovesOn(w)
    <3>1. worker[w].at \in Nat
      BY DEF CleanInv, Records
    <3> QED BY <2>1, <3>1 DEF MovesOn
  <2> QED BY <1>2, <1>3, <1>4, <2>5, <2>6, <2>7, <2>8 DEF Positions
<1>8. CASE Puts(w) \/ Passes(w) \/ CallsBack(w)
  <2>1. MovesOn(w) /\ worker'[w].pc \in {"run", "strict"}
    BY <1>8 DEF Puts, Passes, CallsBack
  <2>2. Active(w) /\ Active(w)'
    BY <2>1 DEF MovesOn, Active, ValuePcs
  <2>3. Frontier = worker[w].at /\ Frontier' = Frontier + 1 /\ Frontier <= Len(Queue)
        /\ w = current
    BY <1>5, <1>6, <2>1, <2>2 DEF MovesOn
  <2>4. \A v \in Workers : worker'[v].at \in 1..Frontier + 1
    BY <1>1, <1>3, <2>1, <2>3 DEF Positions, SameBut, MovesOn
  <2>5. ~Stays(w)
    <3>1. worker[w].at \in Nat
      BY DEF CleanInv, Records
    <3> QED BY <2>1, <3>1 DEF MovesOn, Stays
  <2> QED BY <1>2, <1>3, <1>4, <2>1, <2>2, <2>3, <2>4, <2>5 DEF Positions
<1> QED BY <1>1, <1>7, <1>8

FrontierStays ==
    /\ Frontier' = Frontier
    /\ mark' # "delimiter" /\ start' = 0 => current' \in Workers' /\ Active(current)'

\* JavaScript moves it only from a worker to the next one.
LEMMA FrontierOfQuiet ==
    ASSUME CleanInv, CleanInv', Positions, QuietStep
    PROVE  Frontier' = Frontier /\ Positions'
<1>1. /\ CallsKept
      /\ \A w \in Workers : w \in Workers' /\ SamePlace(w)
      /\ \A w \in Workers' : w \in Workers \/ (StartWriting /\ worker'[w] = NewWorker(start))
  BY QuietMoves
<1>2. Len(Queue) \in Nat /\ Frontier \in 1..Len(Queue) + 1
  BY QueueIs DEF Positions
<1>3. Len(Queue') \in Nat /\ Len(Queue) <= Len(Queue')
  <2>1. (Len(Queue) \in Nat)'
    BY QueueIs, PTL
  <2> QED BY <1>1, <2>1 DEF CallsKept
<1>4. \A w \in Workers : Active(w)' <=> Active(w)
  BY <1>1 DEF SamePlace, Active
<1>5. FrontierStays
  <2>1. CASE UNCHANGED <<calls, mark, start, current>>
    <3>1. Queue' = Queue
      BY <2>1, SameQueue
    <3> QED BY <1>1, <1>4, <2>1, <3>1 DEF FrontierStays, Frontier, Positions, SamePlace, Active
  <2>2. ASSUME NEW kind, Submit(kind) PROVE FrontierStays
    <3>1. /\ mark' = "none" /\ current' = current
          /\ start' = IF mark = "delimiter" THEN Len(Queue) + 1 ELSE start
      BY <2>2 DEF Submit
    <3>2. CASE mark = "delimiter"
      BY <1>2, <3>1, <3>2 DEF FrontierStays, Frontier
    <3>3. CASE mark # "delimiter"
      BY <1>1, <1>4, <3>1, <3>3 DEF FrontierStays, Frontier, Positions, SamePlace, Active
    <3> QED BY <3>2, <3>3
  <2>3. ASSUME NEW kind, CallSync(kind) PROVE FrontierStays
    <3>1. UNCHANGED <<mark, start, current>> /\ kind \in SyncKinds /\ calls' = Append(calls, kind)
      BY <2>3 DEF CallSync, Called
    <3>2. kind \notin QueuedKinds
      BY <3>1 DEF SyncKinds, QueuedKinds
    <3>3. Queue' = Queue
      BY <3>1, <3>2, QueueGrows DEF CleanInv, Records
    <3> QED BY <1>1, <1>4, <3>1, <3>3 DEF FrontierStays, Frontier, Positions, SamePlace, Active
  <2>4. CASE StartWriting
    <3>1. start # 0 /\ start' = 0 /\ mark' = mark /\ current' = Len(worker') /\ calls' = calls
          /\ worker' = Append(worker, NewWorker(start))
      BY <2>4 DEF StartWriting
    <3>2. mark # "delimiter"
      BY <3>1 DEF CleanInv, ExchangeInv, OneWorker
    <3>3. worker'[current'] = NewWorker(start) /\ current' \in Workers'
      <4>1. IsList(worker) /\ Workers' = DOMAIN worker'
        BY DEF CleanInv, HandoffInv, Shapes, IsList, Workers
      <4>2. PICK e, l : e = NewWorker(start) /\ l = worker
        OBVIOUS
      <4>3. PICK m : m = Append(l, e)
        OBVIOUS
      <4>4. IsList(m) /\ Len(m) = Len(l) + 1 /\ m[Len(l) + 1] = e
        BY <4>1, <4>2, <4>3, AppendedList
      <4>5. Len(m) \in DOMAIN m /\ m[Len(m)] = e
        <5>1. Len(m) \in Nat /\ Len(l) \in Nat
          BY <4>1, <4>2, <4>4 DEF IsList
        <5> QED BY <4>4, <5>1 DEF IsList
      <4> QED BY <3>1, <4>1, <4>2, <4>3, <4>5
    <3>4. worker'[current'].at = start /\ worker'[current'].pc = "lock"
      BY <3>3 DEF NewWorker
    <3> QED BY <3>1, <3>2, <3>3, <3>4 DEF FrontierStays, Frontier, Active
  <2>5. ASSUME NEW w \in Workers, Complete(w) PROVE FrontierStays
    <3>1. /\ UNCHANGED <<calls, mark, start>> /\ current' = IF current = w THEN 0 ELSE current
          /\ worker[w].pc = "done"
      BY <2>5 DEF Complete, jsVars
    <3>2. Queue' = Queue
      BY <3>1, SameQueue
    <3>3. CASE mark = "delimiter" \/ start # 0
      BY <3>1, <3>2, <3>3 DEF FrontierStays, Frontier
    <3>4. CASE mark # "delimiter" /\ start = 0
      <4>1. current \in Workers /\ Active(current) /\ current # w
        BY <3>1, <3>4 DEF Positions, Active
      <4> QED BY <1>1, <1>4, <3>1, <3>2, <3>4, <4>1 DEF FrontierStays, Frontier, SamePlace, Active
    <3> QED BY <3>3, <3>4
  <2>6. \/ UNCHANGED <<calls, mark, start, current>>
        \/ \E kind : Submit(kind) \/ CallSync(kind)
        \/ StartWriting \/ \E w \in Workers : Complete(w)
    BY DEF QuietStep, Call, Notify, AwaitTxn, Acquire, Interrupted, Progress, jsVars
  <2> QED BY <2>1, <2>2, <2>3, <2>4, <2>5, <2>6
<1>6. \A w \in Workers' : worker'[w].at \in 1..Frontier
  <2>1. SUFFICES ASSUME NEW w \in Workers' PROVE worker'[w].at \in 1..Frontier
    OBVIOUS
  <2>2. CASE w \in Workers
    BY <1>1, <2>2 DEF Positions, SamePlace
  <2>3. CASE StartWriting /\ worker'[w] = NewWorker(start)
    <3>1. worker'[w].at = start
      BY <2>3 DEF NewWorker
    <3>2. start # 0
      BY <2>3 DEF StartWriting
    <3>3. mark # "delimiter"
      BY <3>2 DEF CleanInv, ExchangeInv, OneWorker
    <3>4. Frontier = start
      BY <3>2, <3>3 DEF Frontier
    <3> QED BY <1>2, <3>1, <3>4
  <2> QED BY <1>1, <2>2, <2>3
<1>7. Frontier \in 1..Len(Queue') + 1
  BY <1>2, <1>3
<1> QED BY <1>5, <1>6, <1>7 DEF FrontierStays, Positions

-----------------------------------------------------------------------------
(* The callbacks up to a position.                                          *)

Place(p) == Len(CallbacksUpTo(p))
IsCallback(p) == calls[Queue[p]] \in CallbackKinds

Places ==
    /\ \A p \in 0..Len(Queue) : IsList(CallbacksUpTo(p)) /\ Place(p) \in Nat /\ Place(p) <= p
    /\ \A p \in 1..Len(Queue) : IsCallback(p) =>
          CallbacksUpTo(p) = Append(CallbacksUpTo(p - 1), Queue[p]) /\ Place(p) = Place(p - 1) + 1
    /\ \A p \in 1..Len(Queue) : ~IsCallback(p) =>
          CallbacksUpTo(p) = CallbacksUpTo(p - 1) /\ Place(p) = Place(p - 1)
    /\ \A p \in 0..Len(Queue) : \A i \in 0..p : Place(i) <= Place(p)
    /\ \A p \in 0..Len(Queue) : \A j \in 1..Place(p) :
          \E i \in 1..p : IsCallback(i) /\ CallbacksUpTo(p)[j] = Queue[i] /\ Place(i) = j
    /\ \A p \in 0..Len(Queue) : \A i \in 1..p : IsCallback(i) =>
          Place(i) \in 1..Place(p) /\ CallbacksUpTo(p)[Place(i)] = Queue[i]

LEMMA CallbackPlaces ==
    ASSUME CleanInv
    PROVE  Places
<1>1. PICK q, k, c : q = Queue /\ k = CallbackKinds /\ c = calls
  OBVIOUS
<1>2. IsList(q) /\ Len(q) \in Nat
  BY <1>1, QueueIs
<1>3. \A p : CallbacksUpTo(p) = UpTo(c, q, k, p)
  BY <1>1 DEF CallbacksUpTo, UpTo
<1>4. \A p \in 0..Len(q) : ChosenFrom(c, q, k, p)
  BY <1>2, ChosenUpTo
<1>5. \A p : IsCallback(p) <=> c[q[p]] \in k
  BY <1>1 DEF IsCallback
<1>6. \A p \in 0..Len(q) :
        /\ IsList(CallbacksUpTo(p)) /\ Place(p) \in Nat /\ Place(p) <= p
        /\ \A i \in 0..p : Place(i) <= Place(p)
        /\ \A j \in 1..Place(p) :
              \E i \in 1..p : IsCallback(i) /\ CallbacksUpTo(p)[j] = q[i] /\ Place(i) = j
        /\ \A i \in 1..p : IsCallback(i) =>
              Place(i) \in 1..Place(p) /\ CallbacksUpTo(p)[Place(i)] = q[i]
  BY <1>3, <1>4, <1>5 DEF ChosenFrom, Place, IsList
<1>7. ASSUME NEW p \in 1..Len(q)
      PROVE  /\ IsCallback(p) => /\ CallbacksUpTo(p) = Append(CallbacksUpTo(p - 1), q[p])
                                 /\ Place(p) = Place(p - 1) + 1
             /\ ~IsCallback(p) => /\ CallbacksUpTo(p) = CallbacksUpTo(p - 1)
                                  /\ Place(p) = Place(p - 1)
  <2>1. PICK o \in 0..Len(q) : o = p - 1
    BY <1>2
  <2>2. o < Len(q) /\ o + 1 = p
    BY <1>2, <2>1
  <2>3. PICK part, e : part = SubSeq(q, 1, o) /\ e = q[p]
    OBVIOUS
  <2>4. IsList(part) /\ SubSeq(q, 1, p) = Append(part, e)
    BY <1>2, <2>2, <2>3, PrefixOfList
  <2>5. ChoosesNext(c, part, k, e)
    BY <2>4, ChosenAppend
  <2>6. CallbacksUpTo(p) = Chosen(c, Append(part, e), k) /\ CallbacksUpTo(o) = Chosen(c, part, k)
    BY <1>3, <2>3, <2>4 DEF UpTo
  <2>7. IsCallback(p) <=> c[e] \in k
    BY <1>5, <2>3
  <2>8. /\ IsCallback(p) => CallbacksUpTo(p) = Append(CallbacksUpTo(o), e)
        /\ ~IsCallback(p) => CallbacksUpTo(p) = CallbacksUpTo(o)
    BY <2>5, <2>6, <2>7 DEF ChoosesNext
  <2>9. IsCallback(p) => Len(CallbacksUpTo(p)) = Len(CallbacksUpTo(o)) + 1
    <3>1. PICK f : f = CallbacksUpTo(o)
      OBVIOUS
    <3>2. IsList(f)
      BY <1>6, <3>1
    <3>3. Len(Append(f, e)) = Len(f) + 1
      BY <3>2, AppendedList
    <3> QED BY <2>8, <3>1, <3>3
  <2> QED BY <2>1, <2>3, <2>8, <2>9 DEF Place
<1>8. \A p \in 0..Len(q) : IsList(CallbacksUpTo(p)) /\ Place(p) \in Nat /\ Place(p) <= p
  BY <1>6
<1>9. \A p \in 1..Len(q) : IsCallback(p) =>
        CallbacksUpTo(p) = Append(CallbacksUpTo(p - 1), q[p]) /\ Place(p) = Place(p - 1) + 1
  BY <1>7
<1>10. \A p \in 1..Len(q) : ~IsCallback(p) =>
         CallbacksUpTo(p) = CallbacksUpTo(p - 1) /\ Place(p) = Place(p - 1)
  BY <1>7
<1>11. \A p \in 0..Len(q) : \A i \in 0..p : Place(i) <= Place(p)
  BY <1>6
<1>12. \A p \in 0..Len(q) : \A j \in 1..Place(p) :
         \E i \in 1..p : IsCallback(i) /\ CallbacksUpTo(p)[j] = q[i] /\ Place(i) = j
  BY <1>6
<1>13. \A p \in 0..Len(q) : \A i \in 1..p : IsCallback(i) =>
         Place(i) \in 1..Place(p) /\ CallbacksUpTo(p)[Place(i)] = q[i]
  BY <1>6
<1> QED BY <1>1, <1>8, <1>9, <1>10, <1>11, <1>12, <1>13, Zenon DEF Places

LEMMA SuffixOfList ==
    ASSUME NEW s, IsList(s), NEW k \in 0..Len(s)
    PROVE  /\ IsList(SubSeq(s, k + 1, Len(s))) /\ Len(SubSeq(s, k + 1, Len(s))) = Len(s) - k
           /\ \A i \in 1..Len(s) - k : SubSeq(s, k + 1, Len(s))[i] = s[k + i]
<1> DEFINE S == {s[i] : i \in 1..Len(s)}
<1>1. s \in Seq(S)
  BY ListIsSequence
<1> HIDE DEF S
<1>2. PICK m \in Nat : m = Len(s)
  BY DEF IsList
<1>3. PICK t : t = SubSeq(s, k + 1, m)
  OBVIOUS
<1>4. t \in Seq(S) /\ Len(t) = m - k /\ \A i \in 1..m - k : t[i] = s[(k + 1) + i - 1]
  BY <1>1, <1>2, <1>3
<1>5. IsList(t)
  BY <1>4 DEF IsList
<1>6. \A i \in 1..m - k : t[i] = s[k + i]
  BY <1>2, <1>4
<1> QED BY <1>2, <1>3, <1>4, <1>5, <1>6

\* What was queued stays, with its place.
LEMMA PlacesKept ==
    ASSUME CleanInv, CleanInv', CallsKept, NEW p \in 0..Len(Queue)
    PROVE  CallbacksUpTo(p)' = CallbacksUpTo(p) /\ Place(p)' = Place(p)
           /\ (p # 0 => (IsCallback(p)' <=> IsCallback(p)))
<1>1. Len(Queue) \in Nat /\ IsList(Queue) /\ \A i \in 1..Len(Queue) : Queue[i] \in DOMAIN calls
  BY QueueIs
<1>2. (IsList(Queue))'
  BY QueueIs, PTL
<1>3. PICK q, r, k, c, d : /\ q = Queue /\ r = Queue' /\ k = CallbackKinds
                          /\ c = calls /\ d = calls'
  OBVIOUS
<1>4. /\ IsList(q) /\ IsList(r) /\ Len(q) <= Len(r) /\ p \in 0..Len(q) /\ p \in 0..Len(r)
      /\ \A i \in 1..Len(q) : r[i] = q[i] /\ d[q[i]] = c[q[i]]
  <2>1. IsList(q) /\ IsList(r) /\ Len(q) <= Len(r)
        /\ \A i \in 1..Len(q) : r[i] = q[i] /\ d[q[i]] = c[q[i]]
    BY <1>1, <1>2, <1>3 DEF CallsKept
  <2> QED BY <1>3, <2>1 DEF IsList
<1>5. PICK a, b : a = SubSeq(q, 1, p) /\ b = SubSeq(r, 1, p)
  OBVIOUS
<1>6. /\ IsList(a) /\ Len(a) = p /\ \A i \in 1..p : a[i] = q[i]
      /\ IsList(b) /\ Len(b) = p /\ \A i \in 1..p : b[i] = r[i]
  BY <1>4, <1>5, PrefixOfList
<1>7. \A i \in 1..p : i \in 1..Len(q)
  BY <1>1, <1>3
<1>8. a = b
  BY <1>4, <1>6, <1>7 DEF IsList
<1>9. SameKinds(d, c, a)
  BY <1>4, <1>6, <1>7 DEF SameKinds
<1>10. Chosen(d, a, k) = Chosen(c, a, k)
  BY <1>6, <1>9, ChosenOfOther
<1>11. CallbacksUpTo(p)' = CallbacksUpTo(p)
  BY <1>3, <1>5, <1>8, <1>10 DEF CallbacksUpTo
<1>12. p # 0 => (IsCallback(p)' <=> IsCallback(p))
  BY <1>3, <1>4, <1>7 DEF IsCallback
<1> QED BY <1>11, <1>12 DEF Place

-----------------------------------------------------------------------------
(* The callbacks that have been called.                                     *)

Waited == \E w \in Workers : ~worker[w].finished

CalledUpTo(f) ==
    /\ ran \in 0..Place(f - 1)
    /\ ran = Place(f - 1) \/ Waited

Waits ==
    /\ \A w \in Workers : ~worker[w].finished => Active(w)
    /\ js.pc = "progress" => js.worker \in Workers /\ ~worker[js.worker].finished

LEMMA CallbacksAre == Callbacks <=> CalledUpTo(Frontier) /\ Waits
BY DEF Callbacks, CalledUpTo, Place, Waited, Waits

LEMMA CallbacksWillBe ==
    ASSUME NEW f, Frontier' = f, CalledUpTo(f)', Waits'
    PROVE  Callbacks'
BY DEF Callbacks, CalledUpTo, Place, Waited, Waits

LEMMA CallbacksOfWorkers ==
    ASSUME CleanInv, CleanInv', Positions, AtValue, Callbacks, NEW w \in Workers, WorkerStep(w)
    PROVE  Callbacks'
<1>1. /\ SameBut(w) /\ UNCHANGED <<jsVars, current>>
      /\ Puts(w) \/ Passes(w) \/ CallsBack(w) \/ Stays(w)
  BY WorkerMoves
<1>2. /\ Stays(w) => Frontier' = Frontier
      /\ MovesOn(w) => /\ Active(w) /\ Active(w)' /\ Frontier = worker[w].at
                        /\ Frontier' = Frontier + 1 /\ Frontier <= Len(Queue)
  BY FrontierOfWorkers
<1>3. PICK f : f = Frontier
  OBVIOUS
<1>4. Len(Queue) \in Nat /\ f \in 1..Len(Queue) + 1 /\ f - 1 \in 0..Len(Queue)
  BY <1>3, QueueIs DEF Positions
<1>5. CalledUpTo(f) /\ Waits /\ ran' = ran /\ js' = js /\ calls' = calls
  BY <1>1, <1>3, CallbacksAre DEF jsVars
<1>6. \A p : Place(p)' = Place(p)
  BY <1>5, SameQueue DEF Place, CallbacksUpTo
<1>7. worker[w].finished \in BOOLEAN /\ w \in Workers' /\ Workers' = Workers
  BY <1>1 DEF CleanInv, Records, SameBut
<1>8. \A v \in Workers : v # w =>
         (worker'[v].finished <=> worker[v].finished) /\ (Active(v)' <=> Active(v))
  BY <1>1 DEF SameBut, Active
<1>9. CASE Stays(w)
  <2>1. worker'[w].finished = worker[w].finished
        /\ (~worker[w].finished => (Active(w) => Active(w)'))
    BY <1>9 DEF Stays
  <2>2. Waited' <=> Waited
    BY <1>7, <1>8, <2>1 DEF Waited
  <2>3. CalledUpTo(f)'
    BY <1>5, <1>6, <2>2 DEF CalledUpTo
  <2>4. Waits'
    BY <1>5, <1>7, <1>8, <1>9, <2>1 DEF Waits, Stays
  <2> QED BY <1>2, <1>3, <1>9, <2>3, <2>4, CallbacksWillBe
<1>10. CASE Puts(w) \/ Passes(w) \/ CallsBack(w)
  <2>1. MovesOn(w)
    BY <1>10 DEF Puts, Passes, CallsBack
  <2>2. /\ f = worker[w].at /\ f \in 1..Len(Queue) /\ Frontier' = f + 1 /\ Active(w) /\ Active(w)'
    BY <1>2, <1>3, <1>4, <2>1
  <2>3. Instruction(w) = calls[Queue[f]]
    BY <2>2, InstructionIs
  <2>4. Place(f) \in Nat /\ Place(f - 1) \in Nat
        /\ (IsCallback(f) => Place(f) = Place(f - 1) + 1)
        /\ (~IsCallback(f) => Place(f) = Place(f - 1))
    BY <1>4, <2>2, CallbackPlaces DEF Places
  <2>5. (f + 1) - 1 = f
    BY <1>4
  <2>6. Waits'
    BY <1>5, <1>7, <1>8, <1>10, <2>2 DEF Waits, Puts, Passes, CallsBack
  <2>7. CASE Puts(w) \/ Passes(w)
    <3>1. ~IsCallback(f) /\ worker'[w].finished = worker[w].finished
      BY <2>3, <2>7 DEF Puts, Passes, IsCallback, CallbackKinds
    <3>2. Waited' <=> Waited
      BY <1>7, <1>8, <3>1 DEF Waited
    <3>3. CalledUpTo(f + 1)'
      BY <1>5, <1>6, <2>4, <2>5, <3>1, <3>2 DEF CalledUpTo
    <3> QED BY <2>2, <2>6, <3>3, CallbacksWillBe
  <2>8. CASE CallsBack(w)
    <3>1. IsCallback(f) /\ worker'[w].finished = FALSE
      BY <2>3, <2>8 DEF CallsBack, IsCallback
    <3>2. Waited'
      BY <1>7, <3>1 DEF Waited
    <3>3. ran \in 0..Place(f)
      BY <1>5, <2>4, <3>1 DEF CalledUpTo
    <3>4. CalledUpTo(f + 1)'
      BY <1>5, <1>6, <2>5, <3>2, <3>3 DEF CalledUpTo
    <3> QED BY <2>2, <2>6, <3>4, CallbacksWillBe
  <2> QED BY <1>10, <2>7, <2>8
<1> QED BY <1>1, <1>9, <1>10

LEMMA CallbacksOfQuiet ==
    ASSUME CleanInv, CleanInv', Positions, Callbacks, QuietStep
    PROVE  Callbacks'
<1>1. /\ ran' = ran /\ CallsKept
      /\ \A w \in Workers : w \in Workers' /\ SamePlace(w)
      /\ \A w \in Workers' : w \in Workers \/ (StartWriting /\ worker'[w] = NewWorker(start))
  BY QuietMoves
<1>2. Frontier' = Frontier
  BY FrontierOfQuiet
<1>3. PICK f : f = Frontier
  OBVIOUS
<1>4. f - 1 \in 0..Len(Queue)
  BY <1>3, QueueIs DEF Positions
<1>5. CalledUpTo(f) /\ Waits
  BY <1>3, CallbacksAre
<1>6. Place(f - 1)' = Place(f - 1)
  <2>1. PICK p \in 0..Len(Queue) : p = f - 1
    BY <1>4
  <2>2. Place(p)' = Place(p)
    BY <1>1, PlacesKept
  <2> QED BY <2>1, <2>2 DEF Place, CallbacksUpTo
<1>7. \A w \in Workers : Active(w)' <=> Active(w)
  BY <1>1 DEF SamePlace, Active
<1>8. Waited' <=> Waited
  BY <1>1 DEF Waited, SamePlace, NewWorker
<1>9. CalledUpTo(f)'
  BY <1>1, <1>5, <1>6, <1>8 DEF CalledUpTo
<1>10. \A w \in Workers' : ~worker'[w].finished => Active(w)'
  BY <1>1, <1>5, <1>7 DEF Waits, SamePlace, NewWorker
<1>11. js'.pc = "progress" => js'.worker \in Workers /\ ~worker[js'.worker].finished
  <2>1. CASE js' = js
    BY <1>5, <2>1 DEF Waits
  <2>2. ASSUME NEW w \in Workers, Progress(w) PROVE js'.pc = "progress" => js'.worker \in Workers /\ ~worker[js'.worker].finished
    <3>1. CASE worker[w].finished
      BY <1>5, <2>2, <3>1 DEF Waits, Progress
    <3>2. CASE ~worker[w].finished
      <4>1. js' = [pc |-> "progress", call |-> 0, worker |-> w]
        BY <2>2, <3>2 DEF Progress
      <4> QED BY <3>2, <4>1
    <3> QED BY <3>1, <3>2
  <2>3. CASE \/ Call \/ Notify \/ Acquire \/ Interrupted
    <3>1. IsJS(js)
      BY DEF CleanInv, HandoffInv, Shapes
    <3>2. js'.pc # "progress"
      BY <2>3, <3>1 DEF Call, Submit, CallSync, Called, Notify, Acquire, Interrupted, IsJS, Idle
    <3> QED BY <3>2
  <2>4. \/ js' = js \/ \E w \in Workers : Progress(w)
        \/ Call \/ Notify \/ Acquire \/ Interrupted
    BY DEF QuietStep, StartWriting, AwaitTxn, Complete, jsVars
  <2> QED BY <2>1, <2>2, <2>3, <2>4
<1>12. Waits'
  BY <1>1, <1>10, <1>11 DEF Waits, SamePlace
<1> QED BY <1>2, <1>3, <1>9, <1>12, CallbacksWillBe

\* The other steps leave the workers where they are.
WorkersAt ==
    /\ Workers' = Workers
    /\ \A w \in Workers :
          worker'[w].pc = worker[w].pc /\ worker'[w].at = worker[w].at
          /\ worker'[w].depth = worker[w].depth /\ worker'[w].resume = worker[w].resume

LEMMA PlaceStays ==
    ASSUME CleanInv, Positions, AtValue, WorkersAt, UNCHANGED <<calls, mark, start, current>>
    PROVE  /\ Frontier' = Frontier /\ Positions' /\ AtValue' /\ Queue' = Queue
           /\ \A w \in Workers : (Active(w)' <=> Active(w)) /\ (InTxn(w)' <=> InTxn(w))
<1>1. Queue' = Queue
  BY SameQueue
<1>2. \A w \in Workers : (Active(w)' <=> Active(w)) /\ (InTxn(w)' <=> InTxn(w))
  BY DEF WorkersAt, Active, InTxn
<1>3. Frontier' = Frontier
  <2>1. CASE mark = "delimiter" \/ start # 0
    BY <1>1, <2>1 DEF Frontier
  <2>2. CASE mark # "delimiter" /\ start = 0
    <3>1. current \in Workers
      BY <2>2 DEF Positions
    <3> QED BY <1>1, <2>2, <3>1 DEF Frontier, WorkersAt
  <2> QED BY <2>1, <2>2
<1>4. Positions'
  BY <1>1, <1>2, <1>3 DEF Positions, WorkersAt
<1>5. AtValue'
  BY <1>1 DEF AtValue, WorkersAt, Instruction
<1> QED BY <1>1, <1>2, <1>3, <1>4, <1>5

LEMMA CallbacksStay ==
    ASSUME CleanInv, Positions, AtValue, Callbacks, WorkersAt,
           UNCHANGED <<calls, mark, start, current, ran>>,
           \A w \in Workers : worker'[w].finished = worker[w].finished,
           js'.pc = "progress" => js' = js
    PROVE  Callbacks'
<1>1. Frontier' = Frontier /\ \A w \in Workers : Active(w)' <=> Active(w)
  BY PlaceStays
<1>2. Workers' = Workers
  BY DEF WorkersAt
<1>3. PICK f : f = Frontier
  OBVIOUS
<1>4. Place(f - 1)' = Place(f - 1)
  BY SameQueue DEF Place, CallbacksUpTo
<1>5. CalledUpTo(f) /\ Waits
  BY <1>3, CallbacksAre
<1>6. CalledUpTo(f)'
  BY <1>2, <1>4, <1>5 DEF CalledUpTo, Waited
<1>7. Waits'
  BY <1>1, <1>2, <1>5 DEF Waits
<1> QED BY <1>1, <1>3, <1>6, <1>7, CallbacksWillBe

\* The callbacks of the current worker are called, up to the frontier.
LEMMA RunsCallbacks ==
    ASSUME CleanInv, Positions, AtValue, Callbacks, RunCallbacks
    PROVE  /\ WorkersAt /\ js.worker \in Workers /\ Active(js.worker)
           /\ worker[js.worker].at = Frontier
           /\ UNCHANGED <<calls, mark, start, current, slot, log>>
           /\ ran' = Place(Frontier - 1) /\ IsList(CallbacksDue(js.worker))
           /\ Len(CallbacksDue(js.worker)) = Place(Frontier - 1) - ran
           /\ \A i \in 1..Place(Frontier - 1) - ran :
                 CallbacksDue(js.worker)[i] = CallbacksUpTo(Frontier - 1)[ran + i]
           /\ \A w \in Workers : worker'[w].finished
           /\ Callbacks'
<1>1. PICK w : w = js.worker
  OBVIOUS
<1>2. PICK f : f = Frontier
  OBVIOUS
<1>3. /\ CalledUpTo(f) /\ w \in Workers /\ ~worker[w].finished
      /\ \A v \in Workers : ~worker[v].finished => Active(v)
  BY <1>1, <1>2, CallbacksAre DEF Waits, RunCallbacks
<1>4. Active(w) /\ worker[w].at = f /\ w = current
  BY <1>2, <1>3, FrontierOfActive
<1>5. f - 1 \in 0..Len(Queue) /\ f \in Nat
  BY <1>2, QueueIs DEF Positions
<1>6. PICK passed : passed = CallbacksUpTo(f - 1)
  OBVIOUS
<1>7. IsList(passed) /\ Len(passed) \in Nat /\ Len(passed) = Place(f - 1)
  BY <1>5, <1>6, CallbackPlaces DEF Places, Place
<1>8. PICK k \in 0..Len(passed) : k = ran
  BY <1>3, <1>7 DEF CalledUpTo
<1>9. PICK due : due = SubSeq(passed, k + 1, Len(passed))
  OBVIOUS
<1>10. /\ IsList(due) /\ Len(due) = Len(passed) - k
       /\ \A i \in 1..Len(passed) - k : due[i] = passed[k + i]
  BY <1>7, <1>9, SuffixOfList
<1>11. CallbacksDue(w) = due
  BY <1>4, <1>6, <1>8, <1>9 DEF CallbacksDue
<1>12. /\ worker' = [worker EXCEPT ![w].finished = TRUE] /\ js' = Idle
       /\ ran' = ran + Len(CallbacksDue(w)) /\ UNCHANGED <<calls, mark, start, current, slot, log>>
  BY <1>1 DEF RunCallbacks
<1>13. ran' = Len(passed)
  BY <1>7, <1>8, <1>10, <1>11, <1>12
<1>14. WorkersAt /\ worker'[w].finished
       /\ \A v \in Workers : v # w => worker'[v] = worker[v]
  <2> DEFINE r == [worker[w] EXCEPT !.finished = TRUE]
  <2>1. worker' = [worker EXCEPT ![w] = r]
    BY <1>12
  <2>2. /\ r.pc = worker[w].pc /\ r.at = worker[w].at /\ r.depth = worker[w].depth
        /\ r.resume = worker[w].resume /\ r.finished = TRUE
    BY <1>3 DEF CleanInv, HandoffInv, Shapes, IsWorker, Fields
  <2> HIDE DEF r
  <2>3. DOMAIN worker' = DOMAIN worker
    BY <2>1 DEF CleanInv, HandoffInv, Shapes
  <2>4. Workers' = Workers /\ \A v \in Workers : worker'[v] = IF v = w THEN r ELSE worker[v]
    BY <2>1, <2>3 DEF Workers, CleanInv, HandoffInv, Shapes
  <2> QED BY <1>3, <2>2, <2>4 DEF WorkersAt
<1>15. \A v \in Workers : worker'[v].finished
  <2>1. ASSUME NEW v \in Workers, v # w PROVE worker'[v].finished
    <3>1. CASE Active(v)
      BY <1>4, <2>1, <3>1, FrontierOfActive
    <3>2. CASE worker[v].finished
      BY <1>14, <2>1, <3>2
    <3> QED BY <1>3, <2>1, <3>1, <3>2
  <2> QED BY <1>14, <2>1
<1>16. Frontier' = f
  BY <1>2, <1>12, <1>14, PlaceStays
<1>17. Place(f - 1)' = Place(f - 1)
  BY <1>12, SameQueue DEF Place, CallbacksUpTo
<1>18. CalledUpTo(f)'
  BY <1>7, <1>13, <1>17 DEF CalledUpTo
<1>19. Waits'
  BY <1>12, <1>14, <1>15 DEF Waits, WorkersAt, Idle
<1>20. Callbacks'
  BY <1>16, <1>18, <1>19, CallbacksWillBe
<1> QED BY <1>1, <1>2, <1>3, <1>4, <1>6, <1>7, <1>8, <1>10, <1>11, <1>12, <1>13, <1>14, <1>15, <1>20

-----------------------------------------------------------------------------
(* What JavaScript writes.                                                  *)

\* The writes of the callbacks that are called.
LEMMA CallbackWrites ==
    ASSUME CleanInv, Positions, AtValue, Callbacks, RunCallbacks
    PROVE  \E add :
              /\ Selects(calls, CallbacksDue(js.worker), {"cb", "strict"}, add)
              /\ WorkersTxn /\ ~JSInTxn /\ ~JSInTxn' /\ Len(mdbx.frames) = 1
              /\ IsList(mdbx'.frames) /\ Len(mdbx'.frames) = 1
              /\ mdbx'.frames[1] = mdbx.frames[1] \o add
<1>1. /\ js.worker \in Workers /\ IsList(CallbacksDue(js.worker))
  BY RunsCallbacks
<1>2. PICK w : w = js.worker
  OBVIOUS
<1>3. InTxn(w)
  BY <1>1, <1>2 DEF RunCallbacks, CleanInv, ExchangeInv, OpenTxn
<1>4. WorkersTxn /\ ~JSInTxn /\ ~JSInTxn'
  BY <1>1, <1>2, <1>3 DEF WorkersTxn, JSInTxn, RunCallbacks, Idle
<1>5. Len(mdbx.frames) = 1 /\ IsList(mdbx.frames) /\ MdbxRecord
  BY <1>4 DEF CleanInv, ExchangeInv, OpenTxn, Records, MdbxRecord
<1>6. PICK due, kinds, made : due = CallbacksDue(w) /\ kinds = {"cb", "strict"} /\ made = calls
  OBVIOUS
<1>7. PICK add : add = Chosen(made, due, kinds)
  OBVIOUS
<1>8. Selects(made, due, kinds, add)
  BY <1>1, <1>2, <1>6, <1>7, ChosenMembers
<1>9. CallbackKinds \ {"cbAbort"} = kinds
  BY <1>6 DEF CallbackKinds
<1>10. PICK old : old = mdbx.frames
  OBVIOUS
<1>11. PICK e : e = old[1] \o add
  OBVIOUS
<1>12. mdbx'.frames = [old EXCEPT ![1] = e]
  <2>1. mdbx' = [mdbx EXCEPT !.frames[1] = e]
    BY <1>2, <1>5, <1>6, <1>7, <1>9, <1>10, <1>11 DEF RunCallbacks
  <2> QED BY <1>5, <1>10, <2>1 DEF MdbxRecord
<1>13. PICK k : k = 1
  OBVIOUS
<1>14. LET u == [old EXCEPT ![k] = e] IN IsList(u) /\ Len(u) = Len(old)
  <2>1. IsList(old)
    BY <1>5, <1>10
  <2> QED BY <2>1, UpdatedList
<1>15. [old EXCEPT ![1] = e][1] = e
  BY <1>5, <1>10 DEF IsList
<1> QED BY <1>2, <1>4, <1>5, <1>6, <1>8, <1>10, <1>11, <1>12, <1>13, <1>14, <1>15

LEMMA WholeIfPlain ==
    ASSUME calls \in Seq(QueuedKinds \cup SyncKinds), NEW s, IsList(s),
           \A i \in 1..Len(s) :
              s[i] \in DOMAIN calls /\ calls[s[i]] \notin {"cbAbort", "syncAbort", "block", "end", "sync"}
    PROVE  WholeList(s)
<1>1. DOMAIN s = 1..Len(s)
  BY DEF IsList
<1>2. \A i \in DOMAIN s : Lasting(s[i]) /\ calls[s[i]] # "sync"
  BY <1>1 DEF Lasting
<1> QED BY <1>2 DEF WholeList, Whole

LEMMA CallbacksKeepWhole ==
    ASSUME CleanInv, Positions, AtValue, Callbacks, WholeLists, RunCallbacks
    PROVE  WholeLists' /\ AtValue' /\ JSContents'
<1>1. /\ WorkersAt /\ js.worker \in Workers
      /\ UNCHANGED <<calls, mark, start, current, log>>
      /\ Len(CallbacksDue(js.worker)) = Place(Frontier - 1) - ran
      /\ \A i \in 1..Place(Frontier - 1) - ran :
            CallbacksDue(js.worker)[i] = CallbacksUpTo(Frontier - 1)[ran + i]
  BY RunsCallbacks
<1>2. PICK add : /\ Selects(calls, CallbacksDue(js.worker), {"cb", "strict"}, add)
                 /\ WorkersTxn /\ ~JSInTxn /\ ~JSInTxn' /\ Len(mdbx.frames) = 1
                 /\ IsList(mdbx'.frames) /\ Len(mdbx'.frames) = 1
                 /\ mdbx'.frames[1] = mdbx.frames[1] \o add
  BY CallbackWrites
<1>3. PICK due, f : due = CallbacksDue(js.worker) /\ f = Frontier - 1
  OBVIOUS
<1>4. f \in 0..Len(Queue) /\ ran \in Nat
  BY <1>3, QueueIs, CallbackPlaces DEF Positions, Callbacks, Places
<1>5. Place(f) \in Nat
  BY <1>4, CallbackPlaces DEF Places
<1>6. \A i \in 1..Len(due) : due[i] \in DOMAIN calls
  <2>1. ASSUME NEW i \in 1..Len(due) PROVE due[i] \in DOMAIN calls
    <3>1. PICK j \in 1..Place(f) : j = ran + i /\ due[i] = CallbacksUpTo(f)[j]
      BY <1>1, <1>3, <1>4, <1>5
    <3>2. PICK p \in 1..f : CallbacksUpTo(f)[j] = Queue[p]
      BY <1>4, CallbackPlaces DEF Places
    <3>3. p \in 1..Len(Queue)
      BY <1>4, QueueIs
    <3> QED BY <3>1, <3>2, <3>3, QueueIs
  <2> QED BY <2>1
<1>7. IsList(add) /\ \A j \in 1..Len(add) : \E i \in 1..Len(due) :
         calls[due[i]] \in {"cb", "strict"} /\ add[j] = due[i]
  BY <1>2, <1>3 DEF Selects
<1>8. \A j \in 1..Len(add) : add[j] \in DOMAIN calls
         /\ calls[add[j]] \notin {"cbAbort", "syncAbort", "block", "end", "sync"}
  BY <1>6, <1>7
<1>9. WholeList(add)
  BY <1>7, <1>8, WholeIfPlain DEF CleanInv, Records
<1>10. PICK a : a = mdbx.frames[1]
  OBVIOUS
<1>11. WholeList(a)
  BY <1>2, <1>10 DEF WholeLists
<1>12. WholeList(a \o add)
  BY <1>9, <1>11, WholeConcat
<1>13. PICK new : new = mdbx'.frames
  OBVIOUS
<1>14. WholeList(new[1])' /\ IsList(new[1])
  <2>1. WholeList(new[1])
    BY <1>2, <1>10, <1>12, <1>13
  <2> QED BY <1>1, <2>1 DEF WholeList, Whole, Lasting
<1>15. \A i \in 1..Len(new) : i = 1
  <2>1. Len(new) = 1
    BY <1>2, <1>13
  <2> QED BY <2>1
<1>16. IsList(log') /\ (\A t \in 1..Len(log) : WholeList(log[t]))'
  BY <1>1 DEF WholeLists, WholeList, Whole, Lasting
<1>17. WholeLists'
  BY <1>13, <1>14, <1>15, <1>16 DEF WholeLists, WholeList
<1>18. AtValue'
  BY <1>1, PlaceStays
<1> QED BY <1>2, <1>17, <1>18 DEF JSContents, JSInTxn

\* The steps of a synchronous transaction.
OwnStep == BeginOwn \/ Join \/ WriteOwn \/ Nested \/ Finish

LEMMA OwnStepStays ==
    ASSUME CleanInv, OwnStep
    PROVE  /\ WorkersAt /\ UNCHANGED <<calls, mark, start, current, ran, slot>>
           /\ \A w \in Workers : worker'[w].finished = worker[w].finished
           /\ js'.pc # "progress" /\ (WorkersTxn' <=> WorkersTxn)
           /\ ~Finish => js'.call = js.call /\ Kind' = Kind /\ Outer' = Outer
<1>1. UNCHANGED <<calls, mark, start, current, ran, slot>>
  BY DEF OwnStep, BeginOwn, Join, WriteOwn, Nested, Finish
<1>2. IsJS(js)
  BY DEF CleanInv, HandoffInv, Shapes
<1>3. /\ js'.pc \in {"own", "nested", "finish", "idle"}
      /\ ~Finish => js'.call = js.call
  <2>1. CASE Finish
    BY <2>1 DEF Finish, Idle
  <2>2. CASE BeginOwn \/ Join \/ WriteOwn \/ Nested
    BY <1>2, <2>2 DEF BeginOwn, Join, WriteOwn, Nested, IsJS
  <2> QED BY <2>1, <2>2 DEF OwnStep
<1>4. WorkersAt /\ \A w \in Workers : worker'[w].finished = worker[w].finished
  <2>1. CASE worker' = worker
    BY <2>1 DEF WorkersAt, Workers
  <2>2. CASE worker' = [worker EXCEPT ![current].status = "none"]
    <3> DEFINE r == [worker[current] EXCEPT !.status = "none"]
    <3>1. worker' = [worker EXCEPT ![current] = r]
      BY <2>2
    <3>2. current \in Workers =>
             /\ r.pc = worker[current].pc /\ r.at = worker[current].at
             /\ r.depth = worker[current].depth /\ r.resume = worker[current].resume
             /\ r.finished = worker[current].finished
      BY DEF CleanInv, HandoffInv, Shapes, IsWorker, Fields
    <3> HIDE DEF r
    <3>3. DOMAIN worker' = DOMAIN worker
      BY <3>1 DEF CleanInv, HandoffInv, Shapes
    <3>4. Workers' = Workers /\ \A v \in Workers : worker'[v] = IF v = current THEN r ELSE worker[v]
      BY <3>1, <3>3 DEF Workers, CleanInv, HandoffInv, Shapes
    <3> QED BY <3>2, <3>4 DEF WorkersAt
  <2>3. worker' = worker \/ worker' = [worker EXCEPT ![current].status = "none"]
    BY DEF OwnStep, BeginOwn, Join, WriteOwn, Nested, Finish
  <2> QED BY <2>1, <2>2, <2>3
<1>5. WorkersTxn' <=> WorkersTxn
  BY <1>4 DEF WorkersAt, WorkersTxn, InTxn
<1>6. ~Finish => Kind' = Kind
  BY <1>1, <1>3 DEF Kind
<1>7. ~Finish => Outer' = Outer
  BY <1>5, <1>6 DEF Outer
<1> QED BY <1>1, <1>3, <1>4, <1>5, <1>6, <1>7

\* A synchronous transaction begins.
LEMMA BeginMoves ==
    ASSUME CleanInv, BeginOwn \/ Join
    PROVE  /\ ~JSInTxn /\ js'.pc = "own" /\ log' = log
           /\ BeginOwn => ~WorkersTxn /\ mdbx.frames = <<>> /\ mdbx'.frames = << <<>> >>
           /\ Join => /\ WorkersTxn /\ Len(mdbx.frames) = 1
                      /\ mdbx'.frames = IF Kind = "putSync" THEN mdbx.frames
                                        ELSE Append(mdbx.frames, <<>>)
<1>1. IsJS(js) /\ MdbxRecord
  BY DEF CleanInv, HandoffInv, Shapes, Records
<1>2. ~JSInTxn /\ js'.pc = "own" /\ log' = log
  BY <1>1 DEF BeginOwn, Join, JSInTxn, IsJS
<1>3. BeginOwn => ~WorkersTxn /\ mdbx.frames = <<>>
  BY DEF BeginOwn, CleanInv, ExchangeInv, OpenTxn, IsOpen
<1>4. Join => WorkersTxn /\ Len(mdbx.frames) = 1
  BY <1>2 DEF Join, CleanInv, ExchangeInv, OpenTxn
<1>5. BeginOwn => mdbx'.frames = << <<>> >>
  BY DEF BeginOwn, Begun
<1>6. ASSUME Join PROVE mdbx'.frames = IF Kind = "putSync" THEN mdbx.frames
                                      ELSE Append(mdbx.frames, <<>>)
  <2> PICK none : none = <<>>
    OBVIOUS
  <2>1. mdbx' = IF Kind = "putSync" THEN mdbx ELSE [mdbx EXCEPT !.frames = Append(@, none)]
    BY <1>6 DEF Join, Child
  <2> QED BY <1>1, <2>1 DEF MdbxRecord
<1> QED BY <1>2, <1>3, <1>4, <1>5, <1>6

LEMMA WriteOwnMoves ==
    ASSUME CleanInv, WriteOwn
    PROVE  /\ js.pc = "own" /\ log' = log /\ Len(mdbx.frames) = Outer /\ Outer \in {1, 2}
           /\ Kind = "putSync" =>
                 js'.pc = "finish" /\ mdbx'.frames = Written(mdbx.frames, js.call)
           /\ Kind # "putSync" =>
                 /\ js'.pc = "nested"
                 /\ mdbx'.frames = Append(Written(mdbx.frames, js.call), <<>>)
<1>1. IsJS(js) /\ MdbxRecord
  BY DEF CleanInv, HandoffInv, Shapes, Records
<1> PICK w : w = Written(mdbx.frames, js.call)
  OBVIOUS
<1> PICK none : none = <<>>
  OBVIOUS
<1> DEFINE written == [mdbx EXCEPT !.frames = w]
<1>2. /\ js.pc = "own" /\ log' = log
      /\ Kind = "putSync" => js' = [js EXCEPT !.pc = "finish"] /\ mdbx' = written
      /\ Kind # "putSync" => /\ js' = [js EXCEPT !.pc = "nested"]
                            /\ mdbx' = [written EXCEPT !.frames = Append(@, none)]
  BY DEF WriteOwn
<1>7. written = [f \in {"id", "frames"} |-> written[f]] /\ written.frames = w
  BY <1>1 DEF MdbxRecord
<1> HIDE DEF written
<1>3. FramesFrom(Outer, "own") /\ Outer \in {1, 2}
  BY <1>2, InsideFrames
<1>4. Len(mdbx.frames) = Outer
  BY <1>3 DEF FramesFrom
<1>5. Kind = "putSync" => js'.pc = "finish" /\ mdbx'.frames = w
  BY <1>1, <1>2, <1>7 DEF IsJS
<1>6. Kind # "putSync" => js'.pc = "nested" /\ mdbx'.frames = Append(w, none)
  BY <1>1, <1>2, <1>7 DEF IsJS
<1> QED BY <1>2, <1>3, <1>4, <1>5, <1>6

LEMMA NestedMoves ==
    ASSUME CleanInv, Nested
    PROVE  /\ js.pc = "nested" /\ js'.pc = "finish" /\ log' = log /\ Kind # "putSync"
           /\ Len(mdbx.frames) = Outer + 1 /\ Outer \in {1, 2}
           /\ mdbx'.frames = Ended(Written(mdbx.frames, -js.call), Kind = "nestAbort")
<1>1. IsJS(js) /\ MdbxRecord
  BY DEF CleanInv, HandoffInv, Shapes, Records
<1> PICK e : e = Ended(Written(mdbx.frames, -js.call), Kind = "nestAbort")
  OBVIOUS
<1>2. /\ js.pc = "nested" /\ log' = log
      /\ js' = [js EXCEPT !.pc = "finish"] /\ mdbx' = [mdbx EXCEPT !.frames = e]
  BY DEF Nested
<1>3. FramesFrom(Outer, "nested") /\ Outer \in {1, 2}
  BY <1>2, InsideFrames
<1>4. Len(mdbx.frames) = Outer + 1 /\ Kind # "putSync"
  BY <1>3 DEF FramesFrom
<1>5. js'.pc = "finish" /\ mdbx'.frames = e
  BY <1>1, <1>2 DEF MdbxRecord, IsJS
<1> QED BY <1>2, <1>3, <1>4, <1>5

\* It ends in the worker's transaction, or with its own.
EndsInWorkers ==
    /\ WorkersTxn /\ Kind # "putSync" /\ Outer = 2 /\ Len(mdbx.frames) = 2 /\ log' = log
    /\ mdbx'.frames = Ended(mdbx.frames, Kind = "syncAbort")
EndsItsOwn ==
    /\ ~WorkersTxn /\ Outer = 1 /\ Len(mdbx.frames) = 1 /\ mdbx'.frames = <<>>
    /\ log' = IF Kind = "syncAbort" THEN log ELSE Append(log, mdbx.frames[1])

LEMMA FinishMoves ==
    ASSUME CleanInv, Finish
    PROVE  /\ js.pc = "finish" /\ js'.pc = "idle"
           /\ \/ WorkersTxn /\ Kind = "putSync" /\ Outer = 1 /\ UNCHANGED <<mdbx, log>>
              \/ EndsInWorkers
              \/ EndsItsOwn
<1>1. js.pc = "finish" /\ js'.pc = "idle" /\ MdbxRecord
  BY DEF Finish, Idle, CleanInv, Records
<1>2. FramesFrom(Outer, "finish") /\ Outer \in {1, 2}
  BY <1>1, InsideFrames
<1>3. /\ Len(writeTxn) = 1 /\ Len(mdbx.frames) = Outer /\ writeTxn[1].level = Outer
      /\ writeTxn[1].abortable <=> ~WorkersTxn \/ Kind # "putSync"
  BY <1>2 DEF FramesFrom
<1>4. Last(writeTxn) = writeTxn[1]
  BY <1>3 DEF Last
<1> PICK aborts : aborts = (Kind = "syncAbort")
  OBVIOUS
<1> PICK ended : ended = Ended(mdbx.frames, aborts)
  OBVIOUS
<1>5. CASE ~Last(writeTxn).abortable
  <2>1. WorkersTxn /\ Kind = "putSync" /\ Outer = 1
    BY <1>3, <1>4, <1>5 DEF Outer
  <2> QED BY <1>1, <1>5, <2>1 DEF Finish, dbVars
<1>6. CASE Last(writeTxn).abortable /\ Last(writeTxn).level > 1
  <2>1. Outer = 2 /\ WorkersTxn /\ Kind # "putSync"
    BY <1>2, <1>3, <1>4, <1>6 DEF Outer
  <2>2. mdbx' = [mdbx EXCEPT !.frames = ended] /\ log' = log
    BY <1>6 DEF Finish
  <2>3. mdbx'.frames = ended
    BY <1>1, <2>2 DEF MdbxRecord
  <2> QED BY <1>1, <1>3, <2>1, <2>2, <2>3 DEF EndsInWorkers
<1>7. CASE Last(writeTxn).abortable /\ ~(Last(writeTxn).level > 1)
  <2>1. Outer = 1
    BY <1>2, <1>3, <1>4, <1>7
  <2>2. ~WorkersTxn
    BY <1>3, <1>4, <1>7, <2>1 DEF Outer
  <2>3. mdbx' = Closed /\ log' = IF aborts THEN log ELSE Append(log, mdbx.frames[1])
    BY <1>7 DEF Finish
  <2>4. mdbx'.frames = <<>>
    BY <1>1, <2>3 DEF Closed, MdbxRecord
  <2> QED BY <1>1, <1>3, <2>1, <2>2, <2>3, <2>4 DEF EndsItsOwn
<1> QED BY <1>5, <1>6, <1>7

\* The writes of a synchronous call, by where it is.
Own(pc, kind, n) ==
    CASE pc = "own" -> <<>>
      [] pc = "nested" -> <<n>>
      [] pc = "finish" -> IF kind \in {"nestAbort", "putSync"} THEN <<n>> ELSE <<n, -n>>

LEMMA OwnIs ==
    /\ OwnWrites = Own(js.pc, Kind, js.call)
    /\ \A kind, n : /\ Own("own", kind, n) = <<>> /\ Own("nested", kind, n) = <<n>>
                    /\ Own("finish", kind, n) =
                          IF kind \in {"nestAbort", "putSync"} THEN <<n>> ELSE <<n, -n>>
<1>1. OwnWrites = Own(js.pc, Kind, js.call)
  BY DEF OwnWrites, Own
<1>2. \A kind, n : Own("own", kind, n) = <<>>
  BY DEF Own
<1>3. \A kind, n : Own("nested", kind, n) = <<n>>
  BY DEF Own
<1>4. \A kind, n : Own("finish", kind, n) =
                     IF kind \in {"nestAbort", "putSync"} THEN <<n>> ELSE <<n, -n>>
  BY DEF Own
<1> QED BY <1>1, <1>2, <1>3, <1>4

LEMMA OwnWillBe == OwnWrites' = Own(js'.pc, Kind', js'.call)
BY DEF OwnWrites, Own

\* The frame of JavaScript holds its writes.
LEMMA OwnFrame ==
    ASSUME CleanInv, JSContents, js.pc \in {"own", "nested", "finish"},
           ~WorkersTxn \/ Kind # "putSync"
    PROVE  mdbx.frames[Outer] = Own(js.pc, Kind, js.call)
BY OwnIs DEF JSContents, JSInTxn

LEMMA OwnWhole ==
    ASSUME CleanInv, js.pc = "finish", Kind # "syncAbort"
    PROVE  WholeList(Own("finish", Kind, js.call))
<1>1. js.call \in DOMAIN calls /\ calls \in Seq(QueuedKinds \cup SyncKinds)
      /\ Kind = calls[js.call] /\ Kind \in SyncKinds
  BY DEF CleanInv, ExchangeInv, InCall, Records, Kind
<1>2. PICK n \in DOMAIN calls : n = js.call
  BY <1>1
<1>3. CASE Kind \in {"nestAbort", "putSync"}
  <2>1. calls[n] \notin {"cbAbort", "syncAbort", "block", "end", "sync"}
    BY <1>1, <1>2, <1>3
  <2>2. WholeList(<<n>>)
    BY <1>1, <2>1, WholeOne
  <2> QED BY <1>2, <1>3, <2>2, OwnIs
<1>4. CASE Kind = "sync"
  <2>1. WholeList(<<n, -n>>)
    BY <1>1, <1>2, <1>4, WholePair
  <2> QED BY <1>2, <1>4, <2>1, OwnIs
<1> QED BY <1>1, <1>3, <1>4 DEF SyncKinds

\* Where the transactions stay whole lists.
LEMMA WholeListsWillBe ==
    ASSUME CleanInv, WholeLists, calls' = calls, log' = log, NEW new, mdbx'.frames = new,
           \A i \in 1..Len(new) : IsList(new[i]), WorkersTxn' => WholeList(new[1])
    PROVE  WholeLists'
<1>1. IsList(log') /\ (\A t \in 1..Len(log) : WholeList(log[t]))'
  BY DEF WholeLists, WholeList, Whole, Lasting
<1>2. WorkersTxn' => WholeList(new[1])'
  BY DEF WholeList, Whole, Lasting
<1> QED BY <1>1, <1>2 DEF WholeLists, WholeList

LEMMA BeginKeepsWhole ==
    ASSUME CleanInv, WholeLists, BeginOwn \/ Join
    PROVE  WholeLists' /\ JSContents'
<1>1. /\ calls' = calls /\ (WorkersTxn' <=> WorkersTxn) /\ js'.call = js.call /\ Kind' = Kind
      /\ Outer' = Outer
  <2>1. js.pc # "finish"
    BY DEF BeginOwn, Join
  <2> QED BY <2>1, OwnStepStays DEF OwnStep, Finish
<1>2. /\ ~JSInTxn /\ js'.pc = "own" /\ log' = log
      /\ BeginOwn => ~WorkersTxn /\ mdbx.frames = <<>> /\ mdbx'.frames = << <<>> >>
      /\ Join => /\ WorkersTxn /\ Len(mdbx.frames) = 1
                 /\ mdbx'.frames = IF Kind = "putSync" THEN mdbx.frames
                                   ELSE Append(mdbx.frames, <<>>)
  BY BeginMoves
<1>3. PICK none : none = <<>>
  OBVIOUS
<1>4. IsList(none) /\ OwnWrites' = none
  <2>1. OwnWrites' = Own(js'.pc, Kind', js'.call)
    BY OwnWillBe
  <2> QED BY <1>2, <1>3, <2>1, OwnIs, NothingIsWhole DEF WholeList
<1>5. PICK new : new = mdbx'.frames
  OBVIOUS
<1>6. CASE BeginOwn
  <2>1. new = <<none>> /\ ~WorkersTxn
    BY <1>2, <1>3, <1>5, <1>6
  <2>2. Len(new) = 1 /\ new[1] = none
    BY <2>1, SingleList
  <2>3. \A i \in 1..Len(new) : IsList(new[i])
    BY <1>4, <2>2
  <2>4. WholeLists'
    BY <1>1, <1>2, <1>5, <2>1, <2>3, WholeListsWillBe
  <2>5. Outer' = 1
    BY <1>1, <2>1 DEF Outer
  <2> QED BY <1>1, <1>2, <1>4, <1>5, <2>2, <2>4, <2>5 DEF JSContents
<1>7. CASE Join
  <2>1. PICK old : old = mdbx.frames
    OBVIOUS
  <2>2. /\ WholeList(old[1]) /\ Len(old) = 1 /\ IsList(old) /\ WorkersTxn
        /\ \A i \in 1..Len(old) : IsList(old[i])
    BY <1>2, <1>7, <2>1 DEF WholeLists, CleanInv, Records, MdbxRecord
  <2>3. CASE Kind = "putSync"
    <3>1. new = old
      BY <1>2, <1>5, <1>7, <2>1, <2>3
    <3>2. WholeLists'
      BY <1>1, <1>2, <1>5, <2>2, <3>1, WholeListsWillBe
    <3> QED BY <1>1, <1>2, <2>2, <2>3, <3>2 DEF JSContents
  <2>4. CASE Kind # "putSync"
    <3>1. new = Append(old, none) /\ Outer' = 2
      BY <1>1, <1>2, <1>3, <1>5, <1>7, <2>1, <2>2, <2>4 DEF Outer
    <3>2. Len(Append(old, none)) = Len(old) + 1 /\ Append(old, none)[Len(old) + 1] = none
          /\ \A i \in 1..Len(old) : Append(old, none)[i] = old[i]
      BY <2>2, AppendedList
    <3>3. Len(new) = 2 /\ new[2] = none /\ new[1] = old[1]
      BY <2>2, <3>1, <3>2
    <3>4. \A i \in 1..Len(new) : IsList(new[i])
      <4>1. IsList(old[1])
        BY <2>2 DEF WholeList
      <4> QED BY <1>4, <3>3, <4>1
    <3>5. WholeLists'
      <4>1. WholeList(new[1])
        BY <2>2, <3>3
      <4> QED BY <1>1, <1>2, <1>5, <3>4, <4>1, WholeListsWillBe
    <3> QED BY <1>1, <1>2, <1>4, <1>5, <3>1, <3>3, <3>5 DEF JSContents
  <2> QED BY <2>3, <2>4
<1> QED BY <1>6, <1>7

\* The frames of JavaScript and what is below them.
LEMMA FramesInside ==
    ASSUME CleanInv, WholeLists, js.pc \in {"own", "nested", "finish"}
    PROVE  /\ IsList(mdbx.frames) /\ \A i \in 1..Len(mdbx.frames) : IsList(mdbx.frames[i])
           /\ Outer \in {1, 2} /\ (Outer = 2 <=> WorkersTxn /\ Kind # "putSync")
           /\ Len(mdbx.frames) = IF js.pc = "nested" THEN Outer + 1 ELSE Outer
<1>1. PICK p \in {"own", "nested", "finish"} : js.pc = p
  OBVIOUS
<1>2. FramesFrom(Outer, p) /\ Outer \in {1, 2} /\ IsList(mdbx.frames)
  BY <1>1, InsideFrames
<1>3. Len(mdbx.frames) = IF js.pc = "nested" THEN Outer + 1 ELSE Outer
  BY <1>1, <1>2 DEF FramesFrom
<1> QED BY <1>2, <1>3 DEF WholeLists, Outer

LEMMA WriteOwnKeepsWhole ==
    ASSUME CleanInv, WholeLists, JSContents, WriteOwn
    PROVE  WholeLists' /\ JSContents'
<1>1. /\ calls' = calls /\ (WorkersTxn' <=> WorkersTxn) /\ js'.call = js.call /\ Kind' = Kind
      /\ Outer' = Outer
  <2>1. js.pc # "finish"
    BY DEF WriteOwn
  <2> QED BY <2>1, OwnStepStays DEF OwnStep, Finish
<1>2. /\ js.pc = "own" /\ log' = log
      /\ Kind = "putSync" => js'.pc = "finish" /\ mdbx'.frames = Written(mdbx.frames, js.call)
      /\ Kind # "putSync" => /\ js'.pc = "nested"
                            /\ mdbx'.frames = Append(Written(mdbx.frames, js.call), <<>>)
  BY WriteOwnMoves
<1>3. PICK old, n, o, none : old = mdbx.frames /\ n = js.call /\ o = Outer /\ none = <<>>
  OBVIOUS
<1>4. /\ IsList(old) /\ (\A i \in 1..Len(old) : IsList(old[i]))
      /\ Len(old) = o /\ o \in {1, 2} /\ (o = 2 <=> WorkersTxn /\ Kind # "putSync")
  BY <1>2, <1>3, FramesInside
<1>5. PICK new : new = Written(old, n)
  OBVIOUS
<1>6. IsList(new) /\ Len(new) = o /\ new[o] = old[o] \o <<n>>
      /\ \A i \in 1..o : i # o => new[i] = old[i]
  <2>1. Stack(old, o)
    BY <1>4 DEF Stack
  <2>2. WritesAt(old, new, o, n)
    BY <1>5, <2>1, WrittenAt
  <2> QED BY <2>2 DEF WritesAt
<1>7. PICK one : one = <<n>>
  OBVIOUS
<1>8. IsList(one) /\ IsList(none)
  BY <1>3, <1>7, SingleList, NothingIsWhole DEF WholeList
<1>9. \A i \in 1..Len(new) : IsList(new[i])
  <2>1. IsList(old[o])
    BY <1>4
  <2>2. PICK a : a = old[o]
    OBVIOUS
  <2>3. IsList(a \o one)
    BY <1>8, <2>1, <2>2, ConcatOfLists
  <2>4. IsList(new[o])
    BY <1>6, <1>7, <2>2, <2>3
  <2> QED BY <1>4, <1>6, <2>4
<1>10. ~WorkersTxn \/ Kind # "putSync" => new[o] = one
  <2>1. ASSUME ~WorkersTxn \/ Kind # "putSync" PROVE old[o] = none
    BY <1>2, <1>3, <2>1, OwnFrame, OwnIs
  <2>2. none \o one = one
    BY <1>3, <1>8, ConcatOfLists
  <2> QED BY <1>6, <1>7, <2>1, <2>2
<1>11. CASE Kind = "putSync"
  <2>1. o = 1 /\ mdbx'.frames = new /\ js'.pc = "finish"
    BY <1>2, <1>3, <1>4, <1>5, <1>11
  <2>2. WorkersTxn => WholeList(new[1])
    <3>1. ASSUME WorkersTxn PROVE WholeList(new[1])
      <4>1. js.call \in DOMAIN calls /\ calls \in Seq(QueuedKinds \cup SyncKinds)
            /\ Kind = calls[js.call]
        BY <1>2 DEF CleanInv, ExchangeInv, InCall, Records, Kind
      <4>2. WholeList(one)
        <5>1. n \in DOMAIN calls /\ calls[n] = "putSync"
          BY <1>3, <1>11, <4>1
        <5> QED BY <1>7, <4>1, <5>1, WholeOne
      <4>3. PICK a : a = old[1]
        OBVIOUS
      <4>4. WholeList(a)
        BY <1>3, <3>1, <4>3 DEF WholeLists
      <4>5. WholeList(a \o one)
        BY <4>2, <4>4, WholeConcat
      <4> QED BY <1>6, <1>7, <2>1, <4>3, <4>5
    <3> QED BY <3>1
  <2>3. WholeLists'
    BY <1>1, <1>2, <1>9, <2>1, <2>2, WholeListsWillBe
  <2>4. ASSUME ~WorkersTxn PROVE mdbx'.frames[Outer'] = OwnWrites'
    <3>1. OwnWrites' = Own("finish", "putSync", n)
      BY <1>1, <1>3, <1>11, <2>1, OwnWillBe
    <3>2. OwnWrites' = one
      BY <1>7, <3>1, OwnIs
    <3>3. mdbx'.frames[Outer'] = one
      BY <1>1, <1>3, <1>10, <2>1, <2>4
    <3> QED BY <3>2, <3>3
  <2> QED BY <1>1, <1>11, <2>1, <2>3, <2>4 DEF JSContents
<1>12. CASE Kind # "putSync"
  <2>1. PICK longer : longer = Append(new, none)
    OBVIOUS
  <2>2. mdbx'.frames = longer /\ js'.pc = "nested"
    BY <1>2, <1>3, <1>5, <1>12, <2>1
  <2>3. /\ Len(longer) = o + 1 /\ longer[o + 1] = none /\ \A i \in 1..o : longer[i] = new[i]
    BY <1>6, <2>1, AppendedList
  <2>4. \A i \in 1..Len(longer) : IsList(longer[i])
    BY <1>4, <1>6, <1>8, <1>9, <2>3
  <2>5. WorkersTxn => WholeList(longer[1])
    <3>1. ASSUME WorkersTxn PROVE WholeList(longer[1])
      <4>1. o = 2 /\ 1 \in 1..o
        BY <1>4, <1>12, <3>1
      <4>2. longer[1] = old[1]
        BY <1>6, <2>3, <4>1
      <4> QED BY <1>3, <3>1, <4>2 DEF WholeLists
    <3> QED BY <3>1
  <2>6. WholeLists'
    BY <1>1, <1>2, <2>2, <2>4, <2>5, WholeListsWillBe
  <2>7. OwnWrites' = one
    <3>1. OwnWrites' = Own("nested", Kind, n)
      BY <1>1, <1>3, <2>2, OwnWillBe
    <3> QED BY <1>7, <3>1, OwnIs
  <2>8. longer[o] = one
    BY <1>4, <1>10, <1>12, <2>3
  <2> QED BY <1>1, <1>3, <2>2, <2>3, <2>6, <2>7, <2>8 DEF JSContents
<1> QED BY <1>11, <1>12

LEMMA NestedKeepsWhole ==
    ASSUME CleanInv, WholeLists, JSContents, Nested
    PROVE  WholeLists' /\ JSContents'
<1>1. /\ calls' = calls /\ (WorkersTxn' <=> WorkersTxn) /\ js'.call = js.call /\ Kind' = Kind
      /\ Outer' = Outer
  <2>1. js.pc # "finish"
    BY DEF Nested
  <2> QED BY <2>1, OwnStepStays DEF OwnStep, Finish
<1>2. /\ js.pc = "nested" /\ js'.pc = "finish" /\ log' = log /\ Kind # "putSync"
      /\ mdbx'.frames = Ended(Written(mdbx.frames, -js.call), Kind = "nestAbort")
  BY NestedMoves
<1>3. PICK old, n, o, none, aborts : /\ old = mdbx.frames /\ n = js.call /\ o = Outer /\ none = <<>>
                                    /\ aborts = (Kind = "nestAbort")
  OBVIOUS
<1>4. /\ IsList(old) /\ (\A i \in 1..Len(old) : IsList(old[i]))
      /\ Len(old) = o + 1 /\ o \in {1, 2} /\ (o = 2 <=> WorkersTxn)
  BY <1>2, <1>3, FramesInside
<1>5. PICK k, m : k = o + 1 /\ m = -n
  OBVIOUS
<1>6. PICK mid, one : mid = Written(old, m) /\ one = <<m>>
  OBVIOUS
<1>7. IsList(mid) /\ Len(mid) = k /\ mid[k] = old[k] \o one
      /\ \A i \in 1..k : i # k => mid[i] = old[i]
  <2>1. Stack(old, k)
    BY <1>4, <1>5 DEF Stack
  <2>2. WritesAt(old, mid, k, m)
    BY <1>6, <2>1, WrittenAt
  <2> QED BY <1>6, <2>2 DEF WritesAt
<1>8. old[o] = <<n>> /\ old[k] = none
  BY <1>2, <1>3, <1>5, OwnFrame, OwnIs DEF JSContents
<1>9. mid[k] = one /\ IsList(one) /\ mid[o] = <<n>>
  <2>1. IsList(one) /\ IsList(none)
    BY <1>3, <1>6, SingleList, NothingIsWhole DEF WholeList
  <2>2. none \o one = one
    BY <1>3, <2>1, ConcatOfLists
  <2>3. o \in 1..k /\ o # k
    BY <1>4, <1>5
  <2> QED BY <1>7, <1>8, <2>1, <2>2, <2>3
<1>10. PICK new : new = Ended(mid, aborts)
  OBVIOUS
<1>11. /\ Len(new) = o
       /\ new[o] = IF aborts THEN mid[o] ELSE mid[o] \o mid[k]
       /\ \A i \in 1..o : i # o => new[i] = mid[i]
  <2>1. o + 1 = Len(mid) /\ o \in Nat \ {0} /\ IsList(mid)
    BY <1>4, <1>5, <1>7
  <2>2. EndsAt(mid, new, o, aborts)
    BY <1>10, <2>1, EndedAt
  <2> QED BY <1>5, <2>2 DEF EndsAt
<1>12. new[o] = Own("finish", Kind, n)
  <2>1. CASE aborts
    <3>1. Own("finish", Kind, n) = <<n>>
      BY <1>3, <2>1, OwnIs
    <3> QED BY <1>9, <1>11, <2>1, <3>1
  <2>2. CASE ~aborts
    <3>1. Own("finish", Kind, n) = <<n, m>>
      BY <1>2, <1>3, <1>5, <2>2, OwnIs
    <3>2. <<n>> \o <<m>> = <<n, m>>
      BY PairOfOnes
    <3> QED BY <1>6, <1>9, <1>11, <2>2, <3>1, <3>2
  <2> QED BY <2>1, <2>2
<1>13. IsList(new[o])
  <2>1. PICK a : a = <<n>>
    OBVIOUS
  <2>2. IsList(a)
    BY <2>1, SingleList
  <2>3. IsList(a \o one)
    BY <1>9, <2>2, ConcatOfLists
  <2> QED BY <1>9, <1>11, <2>1, <2>2, <2>3
<1>14. mdbx'.frames = new
  BY <1>2, <1>3, <1>5, <1>6, <1>10
<1>15. \A i \in 1..o : i # o => new[i] = old[i]
  BY <1>4, <1>5, <1>7, <1>11
<1>16. \A i \in 1..Len(new) : IsList(new[i])
  BY <1>4, <1>11, <1>13, <1>15
<1>17. WorkersTxn => WholeList(new[1])
  <2>1. ASSUME WorkersTxn PROVE WholeList(new[1])
    <3>1. new[1] = old[1]
      BY <1>4, <1>15, <2>1
    <3> QED BY <1>3, <2>1, <3>1 DEF WholeLists
  <2> QED BY <2>1
<1>18. WholeLists'
  BY <1>1, <1>2, <1>14, <1>16, <1>17, WholeListsWillBe
<1>19. OwnWrites' = Own("finish", Kind, n)
  BY <1>1, <1>2, <1>3, OwnWillBe
<1> QED BY <1>1, <1>2, <1>3, <1>12, <1>14, <1>18, <1>19 DEF JSContents

LEMMA FinishKeepsWhole ==
    ASSUME CleanInv, WholeLists, JSContents, Finish
    PROVE  WholeLists' /\ JSContents'
<1>1. /\ calls' = calls /\ (WorkersTxn' <=> WorkersTxn)
  BY OwnStepStays DEF OwnStep
<1>2. /\ js.pc = "finish" /\ js'.pc = "idle"
      /\ \/ WorkersTxn /\ Kind = "putSync" /\ Outer = 1 /\ UNCHANGED <<mdbx, log>>
         \/ EndsInWorkers
         \/ EndsItsOwn
  BY FinishMoves
<1>3. JSContents'
  BY <1>2 DEF JSContents, JSInTxn
<1>4. PICK old, o, aborts : old = mdbx.frames /\ o = Outer /\ aborts = (Kind = "syncAbort")
  OBVIOUS
<1>5. /\ IsList(old) /\ (\A i \in 1..Len(old) : IsList(old[i])) /\ Len(old) = o
  BY <1>2, <1>4, FramesInside
<1>6. PICK own : own = Own("finish", Kind, js.call)
  OBVIOUS
<1>7. ~aborts => WholeList(own)
  BY <1>2, <1>4, <1>6, OwnWhole
<1>8. ~WorkersTxn \/ Kind # "putSync" => old[o] = own
  BY <1>2, <1>4, <1>6, OwnFrame
<1>9. CASE UNCHANGED <<mdbx, log>>
  <2>1. WorkersTxn' => WholeList(old[1])
    BY <1>1, <1>4 DEF WholeLists
  <2>2. mdbx'.frames = old /\ log' = log
    BY <1>4, <1>9
  <2> QED BY <1>1, <1>3, <1>5, <2>1, <2>2, WholeListsWillBe
<1>10. CASE EndsInWorkers
  <2>1. /\ WorkersTxn /\ o = 2 /\ Len(old) = 2 /\ log' = log /\ old[2] = own
        /\ mdbx'.frames = Ended(old, aborts)
    BY <1>4, <1>8, <1>10 DEF EndsInWorkers
  <2>2. PICK new, k : new = Ended(old, aborts) /\ k = 1
    OBVIOUS
  <2>3. EndsAt(old, new, k, aborts)
    <3>1. k + 1 = Len(old) /\ k \in Nat \ {0}
      BY <2>1, <2>2
    <3> QED BY <1>5, <2>2, <3>1, EndedAt
  <2>4. Len(new) = 1 /\ new[1] = IF aborts THEN old[1] ELSE old[1] \o own
    BY <2>1, <2>2, <2>3 DEF EndsAt
  <2>5. PICK a : a = old[1]
    OBVIOUS
  <2>6. WholeList(a)
    BY <1>4, <2>1, <2>5 DEF WholeLists
  <2>7. WholeList(new[1])
    <3>1. ~aborts => WholeList(a \o own)
      BY <1>7, <2>6, WholeConcat
    <3> QED BY <2>4, <2>5, <2>6, <3>1
  <2>8. \A i \in 1..Len(new) : IsList(new[i])
    <3>1. IsList(new[1])
      BY <2>7 DEF WholeList
    <3>2. Len(new) = 1
      BY <2>4
    <3> QED BY <3>1, <3>2
  <2> QED BY <1>1, <1>3, <2>1, <2>2, <2>7, <2>8, WholeListsWillBe
<1>11. CASE EndsItsOwn
  <2>1. /\ ~WorkersTxn /\ o = 1 /\ Len(old) = 1 /\ mdbx'.frames = <<>> /\ old[1] = own
        /\ log' = IF aborts THEN log ELSE Append(log, own)
    BY <1>4, <1>8, <1>11 DEF EndsItsOwn
  <2>2. PICK l, longer : l = log /\ longer = log'
    OBVIOUS
  <2>3. IsList(l) /\ \A t \in 1..Len(l) : WholeList(l[t])
    BY <2>2 DEF WholeLists
  <2>4. IsList(longer) /\ \A t \in 1..Len(longer) : WholeList(longer[t])
    <3>1. CASE aborts
      BY <2>1, <2>2, <2>3, <3>1
    <3>2. CASE ~aborts
      <4>1. longer = Append(l, own)
        BY <2>1, <2>2, <3>2
      <4>2. /\ IsList(longer) /\ Len(longer) = Len(l) + 1 /\ longer[Len(l) + 1] = own
            /\ \A t \in 1..Len(l) : longer[t] = l[t]
        BY <2>3, <4>1, AppendedList
      <4>3. Len(l) \in Nat
        BY <2>3 DEF IsList
      <4> QED BY <1>7, <2>3, <3>2, <4>2, <4>3
    <3> QED BY <3>1, <3>2
  <2>5. \A t \in 1..Len(longer) : WholeList(longer[t])'
    BY <1>1, <2>4 DEF WholeList, Whole, Lasting
  <2>6. IsList(log') /\ (\A t \in 1..Len(log) : WholeList(log[t]))'
    BY <2>2, <2>4, <2>5 DEF WholeList, Whole, Lasting
  <2>7. \A i \in 1..Len(mdbx'.frames) : IsList(mdbx'.frames[i])
    <3>1. PICK none : none = <<>>
      OBVIOUS
    <3>2. Len(none) = 0 /\ mdbx'.frames = none
      BY <2>1, <3>1
    <3> QED BY <3>2
  <2> QED BY <1>1, <1>3, <2>1, <2>6, <2>7 DEF WholeLists
<1> QED BY <1>2, <1>9, <1>10, <1>11

\* The other steps.
LEMMA NothingKeepsWhole ==
    ASSUME CleanInv, WholeLists, AtValue, JSContents, UNCHANGED <<calls, worker, js, mdbx, log>>
    PROVE  WholeLists' /\ AtValue' /\ JSContents'
<1>1. Queue' = Queue /\ Workers' = Workers /\ Kind' = Kind
  BY SameQueue DEF Workers, Kind
<1>2. (WorkersTxn' <=> WorkersTxn) /\ (JSInTxn' <=> JSInTxn)
  BY <1>1 DEF WorkersTxn, InTxn, JSInTxn
<1>3. Outer' = Outer /\ OwnWrites' = OwnWrites
  BY <1>1, <1>2, OwnIs, OwnWillBe DEF Outer
<1>4. JSContents'
  BY <1>1, <1>2, <1>3 DEF JSContents
<1>5. AtValue'
  BY <1>1 DEF AtValue, Instruction
<1>6. WholeLists'
  <2>1. PICK new : new = mdbx.frames
    OBVIOUS
  <2>2. (\A i \in 1..Len(new) : IsList(new[i])) /\ (WorkersTxn' => WholeList(new[1]))
    BY <1>2, <2>1 DEF WholeLists
  <2>3. mdbx'.frames = new
    BY <2>1
  <2> QED BY <2>2, <2>3, WholeListsWillBe
<1> QED BY <1>4, <1>5, <1>6

-----------------------------------------------------------------------------
(* The first part of the invariant.                                         *)

WholeInv == CleanInv /\ WholeLists /\ JSContents /\ Positions /\ AtValue /\ Callbacks

LEMMA WholeStep ==
    ASSUME \A p \in Programs : ~Entangled(p), WholeInv, [Next]_vars
    PROVE  WholeInv'
<1>1. CleanInv'
  BY CleanStep DEF WholeInv
<1>2. CASE QuietStep
  BY <1>1, <1>2, QuietKeepsWhole, FrontierOfQuiet, CallbacksOfQuiet DEF WholeInv
<1>3. ASSUME NEW w \in Workers, WorkerStep(w) PROVE WholeInv'
  BY <1>1, <1>3, WorkersKeepWhole, FrontierOfWorkers, CallbacksOfWorkers DEF WholeInv
<1>4. CASE RunCallbacks
  <2>1. WorkersAt /\ UNCHANGED <<calls, mark, start, current>> /\ Callbacks'
    BY <1>4, RunsCallbacks DEF WholeInv
  <2>2. Positions'
    BY <2>1, PlaceStays DEF WholeInv
  <2> QED BY <1>1, <1>4, <2>1, <2>2, CallbacksKeepWhole DEF WholeInv
<1>5. CASE OwnStep
  <2>1. /\ WorkersAt /\ UNCHANGED <<calls, mark, start, current, ran>>
        /\ \A w \in Workers : worker'[w].finished = worker[w].finished
        /\ js'.pc # "progress"
    BY <1>5, OwnStepStays DEF WholeInv
  <2>2. Positions' /\ AtValue' /\ Callbacks'
    BY <2>1, PlaceStays, CallbacksStay DEF WholeInv
  <2>3. WholeLists' /\ JSContents'
    BY <1>5, BeginKeepsWhole, WriteOwnKeepsWhole, NestedKeepsWhole, FinishKeepsWhole DEF OwnStep, WholeInv
  <2> QED BY <1>1, <2>2, <2>3 DEF WholeInv
<1>6. CASE UNCHANGED <<calls, mark, start, current, ran, worker, js, mdbx, log>>
  <2>1. WorkersAt
    BY <1>6 DEF WorkersAt, Workers
  <2>2. Positions' /\ Callbacks'
    BY <1>6, <2>1, PlaceStays, CallbacksStay DEF WholeInv
  <2> QED BY <1>1, <1>6, <2>2, NothingKeepsWhole DEF WholeInv
<1>7. ASSUME NEW n \in DOMAIN slot, CompressionStep(n)
      PROVE  UNCHANGED <<calls, mark, start, current, ran, worker, js, mdbx, log>>
  BY <1>7 DEF CompressionStep, TakeSlot, CompressValue, PublishSlot, SignalWriter, compressorOnly,
              jsVars, dbVars
<1>8. UNCHANGED vars => UNCHANGED <<calls, mark, start, current, ran, worker, js, mdbx, log>>
  BY DEF vars
<1>9. \/ QuietStep \/ (\E w \in Workers : WorkerStep(w)) \/ RunCallbacks \/ OwnStep
      \/ (\E n \in DOMAIN slot : CompressionStep(n)) \/ UNCHANGED vars
  BY Zenon DEF Next, EventLoop, SyncStep, QuietStep, OwnStep, Quiescent
<1> QED BY <1>2, <1>3, <1>4, <1>5, <1>6, <1>7, <1>8, <1>9

LEMMA InitiallyWhole == Init => WholeInv
<1> SUFFICES ASSUME Init PROVE WholeInv
  OBVIOUS
<1>1. CleanInv
  BY InitiallyClean
<1>2. /\ calls = <<>> /\ ran = 0 /\ mark = "delimiter" /\ start = 0 /\ js = Idle
      /\ worker = <<>> /\ current = 0 /\ mdbx.frames = <<>> /\ log = <<>>
  BY DEF Init
<1>3. Workers = {} /\ ~WorkersTxn /\ ~JSInTxn /\ js.pc = "idle"
  BY <1>2 DEF Workers, WorkersTxn, JSInTxn, Idle
<1>4. IsList(Queue) /\ Len(Queue) = 0
  <2>1. Len(calls) = 0
    BY <1>2
  <2>2. IsList(Queue) /\ Len(Queue) <= Len(calls)
    BY <2>1, QueueOfCalls
  <2> QED BY <2>1, <2>2 DEF IsList
<1>5. Frontier = 1
  BY <1>2, <1>4 DEF Frontier
<1>6. Place(0) = 0
  BY <1>1, <1>4, CallbackPlaces DEF Places
<1>7. WholeLists
  BY <1>2, <1>3, NothingIsWhole DEF WholeLists, WholeList
<1>8. JSContents
  BY <1>3 DEF JSContents
<1>9. Positions /\ AtValue
  BY <1>2, <1>3, <1>4, <1>5 DEF Positions, AtValue
<1>10. CalledUpTo(Frontier) /\ Waits
  BY <1>2, <1>3, <1>5, <1>6 DEF CalledUpTo, Waits
<1> QED BY <1>1, <1>7, <1>8, <1>9, <1>10, CallbacksAre DEF WholeInv

LEMMA AtomicOfWhole == WholeInv => SyncIsAtomic
<1> SUFFICES ASSUME WholeInv, NEW t \in DOMAIN log, NEW i \in DOMAIN log[t],
                    log[t][i] > 0, calls[log[t][i]] = "sync"
             PROVE  i < Len(log[t]) /\ log[t][i + 1] = -log[t][i]
  BY DEF SyncIsAtomic
<1>1. WholeList(log[t])
  BY DEF WholeInv, WholeLists, IsList
<1> QED BY <1>1 DEF WholeList, Whole

\* A transaction of JavaScript is one unit, whether it has a transaction of its
\* own or a child of the worker's, nested ones included.
THEOREM SyncAtomic ==
    ASSUME \A p \in Programs : ~Entangled(p)
    PROVE  Spec => []SyncIsAtomic
<1>1. Init => WholeInv
  BY InitiallyWhole
<1>2. WholeInv /\ [Next]_vars => WholeInv'
  BY WholeStep
<1>3. WholeInv => SyncIsAtomic
  BY AtomicOfWhole
<1> QED BY <1>1, <1>2, <1>3, PTL DEF Spec

-----------------------------------------------------------------------------
(* All the writes there are, in one list.                                   *)

LEMMA FlattenedIsList ==
    ASSUME NEW s, IsLists(s)
    PROVE  IsList(FlattenSeq(s))
<1> PICK m \in Nat : m = Len(s)
  BY DEF IsLists, IsList
<1>1. CASE m = 0
  <2>1. s = <<>>
    <3>1. IsList(s) /\ ~(Len(s) > 0)
      BY <1>1 DEF IsLists
    <3> QED BY <3>1, EmptyList, Zenon
  <2>2. IsList(<<>>)
    BY DEF IsList
  <2> QED BY <2>1, <2>2, FlattenNone, Zenon
<1>2. CASE m > 0
  <2>1. PICK f : FlattenSeq(s) = f[m] /\ Flattens(s, f, m)
    BY <1>2, FlattenIs
  <2> DEFINE S == {k \in Nat : k \in 1..m => IsList(f[k])}
  <2>2. 0 \in S
    OBVIOUS
  <2>3. \A k \in S : k \in Nat => k + 1 \in S
    <3> SUFFICES ASSUME NEW k \in Nat, k + 1 \in 1..m, k \in 1..m => IsList(f[k])
                 PROVE  IsList(f[k + 1])
      OBVIOUS
    <3>1. f[k + 1] = IF k + 1 = 1 THEN s[k + 1] ELSE f[(k + 1) - 1] \o s[k + 1]
      BY <2>1 DEF Flattens
    <3>2. IsList(s[k + 1])
      BY DEF IsLists
    <3>3. CASE k = 0
      BY <3>1, <3>2, <3>3
    <3>4. CASE k # 0
      <4>1. (k + 1) - 1 = k /\ k + 1 # 1 /\ k \in 1..m
        BY <3>4
      <4>2. PICK a, b : a = f[k] /\ b = s[k + 1]
        OBVIOUS
      <4>3. IsList(a) /\ IsList(b)
        BY <3>2, <4>1, <4>2
      <4>4. IsList(a \o b)
        BY <4>3, ConcatOfLists
      <4> QED BY <3>1, <4>1, <4>2, <4>4
    <3> QED BY <3>3, <3>4
  <2> HIDE DEF S
  <2>4. m \in S
    BY <2>2, <2>3, NatSetInduction
  <2> QED BY <1>2, <2>1, <2>4 DEF S
<1> QED BY <1>1, <1>2

\* A list of lists, longer by one of them.
LongerBy(s, t, x) ==
    IsLists(t) /\ IsList(s) /\ IsList(x) /\ Len(s) = Len(t) + 1 /\ s[Len(s)] = x
    /\ \A i \in 1..Len(t) : s[i] = t[i]

LEMMA FlattenLonger ==
    ASSUME NEW s, NEW t, NEW x, LongerBy(s, t, x)
    PROVE  FlattenSeq(s) = FlattenSeq(t) \o x
<1> PICK m \in Nat : m = Len(t)
  BY DEF LongerBy, IsLists, IsList
<1>1. /\ IsLists(t) /\ IsList(s) /\ IsList(x) /\ Len(s) = m + 1 /\ s[m + 1] = x
      /\ \A i \in 1..m : s[i] = t[i]
  BY DEF LongerBy
<1>2. IsList(t)
  BY <1>1 DEF IsLists
<1> PICK u : u = Append(t, x)
  OBVIOUS
<1>3. /\ IsList(u) /\ Len(u) = m + 1 /\ u[m + 1] = x /\ \A i \in 1..m : u[i] = t[i]
  BY <1>2, AppendedList
<1>4. \A i \in 1..m + 1 : u[i] = s[i]
  BY <1>1, <1>3
<1>5. u = s
  BY <1>1, <1>3, <1>4 DEF IsList
<1> QED BY <1>1, <1>5, FlattenAppend

\* The same but for the last, which is longer.
GrowsBy(s, t, y) ==
    /\ IsLists(t) /\ IsList(s) /\ IsList(y) /\ Len(s) = Len(t) /\ Len(t) > 0
    /\ s[Len(t)] = t[Len(t)] \o y /\ \A i \in 1..Len(t) : i # Len(t) => s[i] = t[i]

LEMMA FlattenGrown ==
    ASSUME NEW s, NEW t, NEW y, GrowsBy(s, t, y)
    PROVE  FlattenSeq(s) = FlattenSeq(t) \o y
<1> PICK k \in Nat : k + 1 = Len(t)
  <2>1. Len(t) \in Nat /\ Len(t) > 0
    BY DEF GrowsBy, IsLists, IsList
  <2> QED BY <2>1
<1>1. /\ IsLists(t) /\ IsList(t) /\ IsList(s) /\ IsList(y) /\ Len(s) = k + 1
      /\ s[k + 1] = t[k + 1] \o y /\ \A i \in 1..k : s[i] = t[i]
  <2>1. \A i \in 1..k : i \in 1..Len(t) /\ i # Len(t)
    OBVIOUS
  <2>2. \A i \in 1..k : s[i] = t[i]
    BY <2>1 DEF GrowsBy
  <2> QED BY <2>2 DEF GrowsBy, IsLists
<1>2. IsList(t[k + 1]) /\ \A i \in 1..k : IsList(t[i])
  BY <1>1 DEF IsLists
<1> PICK a, p : a = t[k + 1] /\ p = SubSeq(t, 1, k)
  OBVIOUS
<1>3. IsList(p) /\ Len(p) = k /\ \A i \in 1..k : p[i] = t[i]
  <2>1. k \in 0..Len(t)
    OBVIOUS
  <2> QED BY <1>1, <2>1, PrefixOfList
<1>4. IsLists(p)
  BY <1>2, <1>3 DEF IsLists
<1>5. LongerBy(t, p, a)
  BY <1>1, <1>2, <1>3, <1>4 DEF LongerBy
<1>6. IsList(a \o y)
  BY <1>1, <1>2, ConcatOfLists
<1> PICK b : b = a \o y
  OBVIOUS
<1>7. LongerBy(s, p, b)
  BY <1>1, <1>3, <1>4, <1>6 DEF LongerBy
<1>8. FlattenSeq(t) = FlattenSeq(p) \o a /\ FlattenSeq(s) = FlattenSeq(p) \o b
  BY <1>5, <1>7, FlattenLonger
<1> PICK f : f = FlattenSeq(p)
  OBVIOUS
<1>9. IsList(f)
  BY <1>4, FlattenedIsList
<1>10. (f \o a) \o y = f \o (a \o y)
  <2>1. IsList(a) /\ IsList(y)
    BY <1>1, <1>2
  <2>2. Associates(f, a, y)
    BY <1>9, <2>1, ConcatAgain
  <2> QED BY <2>2 DEF Associates
<1> QED BY <1>8, <1>10

\* A child that ends keeps what it wrote, or leaves nothing.
KeepsOrDrops(s, t, dropped, aborts) ==
    /\ ~aborts => FlattenSeq(s) = FlattenSeq(t)
    /\ aborts => FlattenSeq(t) = FlattenSeq(s) \o dropped

LEMMA FlattenEnded ==
    ASSUME NEW s, NEW t, IsLists(t), NEW k \in Nat \ {0}, k + 1 = Len(t),
           NEW aborts \in BOOLEAN, EndsAt(t, s, k, aborts)
    PROVE  KeepsOrDrops(s, t, t[k + 1], aborts)
<1>1. IsList(t) /\ IsList(t[k]) /\ IsList(t[k + 1]) /\ \A i \in 1..k : IsList(t[i])
  BY DEF IsLists
<1>2. IsList(s) /\ Len(s) = k /\ \A i \in 1..k : i # k => s[i] = t[i]
  BY DEF EndsAt
<1> PICK a, b, p : a = t[k] /\ b = t[k + 1] /\ p = SubSeq(t, 1, k)
  OBVIOUS
<1>3. IsList(p) /\ Len(p) = k /\ \A i \in 1..k : p[i] = t[i]
  <2>1. k \in 0..Len(t)
    OBVIOUS
  <2> QED BY <1>1, <2>1, PrefixOfList
<1>4. IsLists(p)
  BY <1>1, <1>3 DEF IsLists
<1>5. LongerBy(t, p, b)
  BY <1>1, <1>3, <1>4 DEF LongerBy
<1>6. FlattenSeq(t) = FlattenSeq(p) \o b
  BY <1>5, FlattenLonger
<1>7. CASE aborts
  <2>1. \A i \in 1..k : s[i] = p[i]
    BY <1>2, <1>3, <1>7 DEF EndsAt
  <2>2. s = p
    BY <1>2, <1>3, <2>1 DEF IsList
  <2> QED BY <1>6, <1>7, <2>2 DEF KeepsOrDrops
<1>8. CASE ~aborts
  <2>1. p[k] = a
    BY <1>3
  <2>2. s[k] = p[k] \o b
    BY <1>8, <2>1, Zenon DEF EndsAt
  <2>3. \A i \in 1..k : i # k => s[i] = p[i]
    BY <1>2, <1>3
  <2>4. GrowsBy(s, p, b)
    <3>1. IsList(b) /\ k > 0
      BY <1>1
    <3> QED BY <1>2, <1>3, <1>4, <2>3, <2>2, <3>1 DEF GrowsBy
  <2>5. FlattenSeq(s) = FlattenSeq(p) \o b
    BY <2>4, FlattenGrown
  <2> QED BY <1>6, <1>8, <2>5 DEF KeepsOrDrops
<1> QED BY <1>7, <1>8 DEF KeepsOrDrops

-----------------------------------------------------------------------------
(* What is in a list, and in which order.                                   *)

Has(s, e) == \E i \in 1..Len(s) : s[i] = e
NoRepeats(s) == \A i, j \in 1..Len(s) : s[i] = s[j] => i = j
Apart(s, t) == \A e : ~(Has(s, e) /\ Has(t, e))

\* No member of a first set after a smaller one of a second.
Precede(early, late, s, t) == \A e \in early, x \in late : Has(s, e) /\ Has(t, x) => e < x
KeepsOrder(early, late, s) ==
    \A i, j \in 1..Len(s) : i < j /\ s[i] \in early /\ s[j] \in late => s[i] < s[j]

\* The places of two lists in their concatenation.
LEMMA ConcatPlaces ==
    ASSUME NEW s, IsList(s), NEW t, IsList(t), NEW i \in 1..Len(s \o t)
    PROVE  \/ i \in 1..Len(s) /\ (s \o t)[i] = s[i]
           \/ \E k \in 1..Len(t) : i = Len(s) + k /\ (s \o t)[i] = t[k]
<1>1. PICK m \in Nat, n \in Nat : m = Len(s) /\ n = Len(t)
  BY DEF IsList
<1>2. i \in 1..m + n
  BY <1>1, ConcatOfLists
<1>3. CASE i <= m
  <2>1. i \in 1..m
    BY <1>2, <1>3
  <2> QED BY <1>1, <2>1, ConcatOfLists
<1>4. CASE i > m
  <2>1. PICK k \in 1..n : i = m + k
    <3>1. i - m \in 1..n /\ i = m + (i - m)
      BY <1>2, <1>4
    <3> QED BY <3>1
  <2>2. (s \o t)[m + k] = t[k]
    BY <1>1, <2>1, ConcatOfLists
  <2> QED BY <1>1, <2>1, <2>2
<1>5. i <= m \/ i > m
  BY <1>2
<1> QED BY <1>3, <1>4, <1>5

HasEither(s, t, u) == \A e : Has(u, e) <=> Has(s, e) \/ Has(t, e)

LEMMA ConcatHas ==
    ASSUME NEW s, IsList(s), NEW t, IsList(t)
    PROVE  HasEither(s, t, s \o t)
<1>1. PICK m, n, u : m \in Nat /\ n \in Nat /\ m = Len(s) /\ n = Len(t) /\ u = s \o t
  BY DEF IsList
<1>2. /\ Len(u) = m + n
      /\ \A i \in 1..m : u[i] = s[i]
      /\ \A i \in 1..n : u[m + i] = t[i]
  BY <1>1, ConcatOfLists
<1>3. \A i \in 1..m + n : \/ i \in 1..m /\ u[i] = s[i]
                          \/ \E k \in 1..n : i = m + k /\ u[i] = t[k]
  BY <1>1, <1>2, ConcatPlaces
<1>4. \A i \in 1..m : i \in 1..m + n
  BY <1>1
<1>5. \A i \in 1..n : m + i \in 1..m + n
  BY <1>1
<1>6. ASSUME NEW e, Has(u, e)
      PROVE  Has(s, e) \/ Has(t, e)
  <2>1. PICK i \in 1..m + n : u[i] = e
    BY <1>2, <1>6 DEF Has
  <2> QED BY <1>1, <1>3, <2>1 DEF Has
<1>7. ASSUME NEW e, Has(s, e) \/ Has(t, e)
      PROVE  Has(u, e)
  BY <1>1, <1>2, <1>4, <1>5, <1>7 DEF Has
<1> QED BY <1>1, <1>6, <1>7 DEF HasEither

LEMMA ConcatNoRepeats ==
    ASSUME NEW s, IsList(s), NEW t, IsList(t)
    PROVE  /\ NoRepeats(s) /\ NoRepeats(t) /\ Apart(s, t) => NoRepeats(s \o t)
           /\ NoRepeats(s \o t) => NoRepeats(s) /\ Apart(s, t)
<1>1. PICK m, n, u : m \in Nat /\ n \in Nat /\ m = Len(s) /\ n = Len(t) /\ u = s \o t
  BY DEF IsList
<1>2. /\ Len(u) = m + n
      /\ \A i \in 1..m : u[i] = s[i]
      /\ \A i \in 1..n : u[m + i] = t[i]
  BY <1>1, ConcatOfLists
<1>3. \A i \in 1..m + n : \/ i \in 1..m /\ u[i] = s[i]
                          \/ \E k \in 1..n : i = m + k /\ u[i] = t[k]
  BY <1>1, <1>2, ConcatPlaces
<1>4. \A i \in 1..m : i \in 1..m + n
  BY <1>1
<1>5. \A i \in 1..n : m + i \in 1..m + n
  BY <1>1
<1>6. ASSUME NoRepeats(s), NoRepeats(t), Apart(s, t), NEW i \in 1..m + n, NEW j \in 1..m + n,
             u[i] = u[j]
      PROVE  i = j
  <2>1. CASE i \in 1..m /\ u[i] = s[i] /\ j \in 1..m /\ u[j] = s[j]
    BY <1>1, <1>6, <2>1 DEF NoRepeats
  <2>2. ASSUME NEW k \in 1..n, NEW l \in 1..m, t[k] = s[l]
        PROVE  FALSE
    BY <1>1, <1>6, <2>2 DEF Apart, Has
  <2>3. ASSUME NEW k \in 1..n, NEW l \in 1..n, t[k] = t[l]
        PROVE  k = l
    BY <1>1, <1>6, <2>3 DEF NoRepeats
  <2> QED BY <1>3, <1>6, <2>1, <2>2, <2>3
<1>7. ASSUME NoRepeats(u)
      PROVE  NoRepeats(s) /\ Apart(s, t)
  <2>1. ASSUME NEW i \in 1..m, NEW j \in 1..m, s[i] = s[j]
        PROVE  i = j
    BY <1>2, <1>4, <1>7, <2>1 DEF NoRepeats
  <2>2. ASSUME NEW i \in 1..m, NEW j \in 1..n, s[i] = t[j]
        PROVE  FALSE
    <3>1. u[i] = u[m + j] /\ i \in 1..Len(u) /\ m + j \in 1..Len(u)
      BY <1>2, <1>4, <1>5, <2>2
    <3>2. i = m + j
      BY <1>7, <3>1 DEF NoRepeats
    <3> QED BY <1>1, <3>2
  <2>3. NoRepeats(s)
    BY <1>1, <2>1 DEF NoRepeats
  <2>4. Apart(s, t)
    BY <1>1, <2>2 DEF Apart, Has
  <2> QED BY <2>3, <2>4
<1> QED BY <1>1, <1>2, <1>6, <1>7 DEF NoRepeats

LEMMA ConcatOrder ==
    ASSUME NEW s, IsList(s), NEW t, IsList(t), NEW early, NEW late
    PROVE  /\ KeepsOrder(early, late, s) /\ KeepsOrder(early, late, t)
              /\ Precede(early, late, s, t) => KeepsOrder(early, late, s \o t)
           /\ KeepsOrder(early, late, s \o t) => KeepsOrder(early, late, s)
<1>1. PICK m, n, u : m \in Nat /\ n \in Nat /\ m = Len(s) /\ n = Len(t) /\ u = s \o t
  BY DEF IsList
<1>2. /\ Len(u) = m + n
      /\ \A i \in 1..m : u[i] = s[i]
      /\ \A i \in 1..n : u[m + i] = t[i]
  BY <1>1, ConcatOfLists
<1>3. \A i \in 1..m + n : \/ i \in 1..m /\ u[i] = s[i]
                          \/ \E k \in 1..n : i = m + k /\ u[i] = t[k]
  BY <1>1, <1>2, ConcatPlaces
<1>4. \A i \in 1..m : i \in 1..m + n
  BY <1>1
<1>5. ASSUME KeepsOrder(early, late, s), KeepsOrder(early, late, t), Precede(early, late, s, t),
             NEW i \in 1..m + n, NEW j \in 1..m + n, i < j, u[i] \in early, u[j] \in late
      PROVE  u[i] < u[j]
  <2>1. CASE i \in 1..m /\ u[i] = s[i] /\ j \in 1..m /\ u[j] = s[j]
    BY <1>1, <1>5, <2>1 DEF KeepsOrder
  <2>2. ASSUME i \in 1..m, u[i] = s[i], NEW k \in 1..n, u[j] = t[k]
        PROVE  u[i] < u[j]
    <3>1. Has(s, u[i]) /\ Has(t, u[j])
      BY <1>1, <2>2 DEF Has
    <3> QED BY <1>5, <3>1 DEF Precede
  <2>3. ASSUME NEW k \in 1..n, NEW l \in 1..n, i = m + k, j = m + l, u[i] = t[k], u[j] = t[l]
        PROVE  u[i] < u[j]
    <3>1. k < l /\ t[k] \in early /\ t[l] \in late
      BY <1>1, <1>5, <2>3
    <3> QED BY <1>1, <1>5, <2>3, <3>1 DEF KeepsOrder
  <2>4. ASSUME NEW k \in 1..n, i = m + k, NEW l \in 1..m, j = l
        PROVE  FALSE
    BY <1>1, <1>5, <2>4
  <2> QED BY <1>3, <1>5, <2>1, <2>2, <2>3, <2>4
<1>6. ASSUME KeepsOrder(early, late, u), NEW i \in 1..m, NEW j \in 1..m,
             i < j, s[i] \in early, s[j] \in late
      PROVE  s[i] < s[j]
  <2>1. i \in 1..Len(u) /\ j \in 1..Len(u) /\ u[i] = s[i] /\ u[j] = s[j]
    BY <1>2, <1>4
  <2> QED BY <1>6, <2>1 DEF KeepsOrder
<1> QED BY <1>1, <1>2, <1>5, <1>6 DEF KeepsOrder

-----------------------------------------------------------------------------
(* What each step does to the list of all the writes.                       *)

LEMMA FlattenSingle ==
    ASSUME NEW t, IsLists(t), Len(t) = 1
    PROVE  FlattenSeq(t) = t[1]
<1> PICK x : x = t[1]
  OBVIOUS
<1>1. IsList(x) /\ IsList(t)
  BY DEF IsLists
<1> PICK none : none = <<>>
  OBVIOUS
<1>2. IsList(none) /\ Len(none) = 0
  BY DEF IsList
<1>3. IsLists(none)
  BY <1>2 DEF IsLists
<1>4. LongerBy(t, none, x)
  BY <1>1, <1>2, <1>3 DEF LongerBy
<1>5. FlattenSeq(t) = FlattenSeq(none) \o x
  BY <1>4, FlattenLonger
<1>6. FlattenSeq(none) = none
  BY FlattenNone
<1>7. none \o x = x
  BY <1>1, <1>2, ConcatOfLists
<1> QED BY <1>5, <1>6, <1>7

LEMMA FlatParts ==
    ASSUME CleanInv, WholeLists
    PROVE  /\ IsLists(log) /\ IsLists(mdbx.frames)
           /\ IsList(FlattenSeq(log)) /\ IsList(FlattenSeq(mdbx.frames))
           /\ IsList(Flat) /\ DOMAIN Flat = 1..Len(Flat)
<1>1. IsLists(log) /\ IsLists(mdbx.frames)
  BY DEF WholeLists, WholeList, IsLists, CleanInv, Records, MdbxRecord
<1> PICK l, f : l = FlattenSeq(log) /\ f = FlattenSeq(mdbx.frames)
  OBVIOUS
<1>2. IsList(l) /\ IsList(f)
  BY <1>1, FlattenedIsList
<1> PICK u : u = l \o f
  OBVIOUS
<1>3. IsList(u)
  BY <1>2, ConcatOfLists
<1>4. DOMAIN u = 1..Len(u)
  BY <1>3 DEF IsList
<1>5. Flat = u
  BY DEF Flat
<1> QED BY <1>1, <1>2, <1>3, <1>4, <1>5

FlatIsList == IsList(Flat)
LEMMA FlatHasList ==
    ASSUME CleanInv, WholeLists
    PROVE  FlatIsList
BY FlatParts DEF FlatIsList

LEMMA FlatAdds ==
    ASSUME CleanInv, WholeLists, log' = log, NEW add, IsList(add),
           FlattenSeq(mdbx'.frames) = FlattenSeq(mdbx.frames) \o add
    PROVE  Flat' = Flat \o add
<1> PICK l, f : l = FlattenSeq(log) /\ f = FlattenSeq(mdbx.frames)
  OBVIOUS
<1>1. IsList(l) /\ IsList(f)
  BY FlatParts
<1>2. Associates(l, f, add)
  BY <1>1, ConcatAgain
<1>3. (l \o f) \o add = l \o (f \o add)
  BY <1>2 DEF Associates
<1>4. Flat = l \o f /\ Flat' = l \o (f \o add)
  BY DEF Flat
<1> QED BY <1>3, <1>4

LEMMA FlatStays ==
    ASSUME log' = log, FlattenSeq(mdbx'.frames) = FlattenSeq(mdbx.frames)
    PROVE  Flat' = Flat
BY DEF Flat

LEMMA FlatCommits ==
    ASSUME CleanInv, WholeLists, Len(mdbx.frames) = 1, mdbx'.frames = <<>>,
           log' = Append(log, mdbx.frames[1])
    PROVE  Flat' = Flat
<1> PICK x, l : x = mdbx.frames[1] /\ l = log
  OBVIOUS
<1>1. IsLists(l) /\ IsLists(mdbx.frames)
  BY FlatParts
<1>2. IsList(x)
  BY <1>1 DEF IsLists
<1>3. FlattenSeq(mdbx.frames) = x
  BY <1>1, FlattenSingle
<1>4. FlattenSeq(Append(l, x)) = FlattenSeq(l) \o x
  BY <1>1, <1>2, FlattenAppend
<1> PICK u : u = FlattenSeq(l) \o x
  OBVIOUS
<1>5. IsList(u)
  <2>1. IsList(FlattenSeq(l))
    BY FlatParts
  <2> PICK k : k = FlattenSeq(l)
    OBVIOUS
  <2> QED BY <1>2, <2>1, ConcatOfLists
<1>6. Flat = u
  BY <1>3 DEF Flat
<1>7. Flat' = u \o <<>>
  BY <1>4, FlattenNone DEF Flat
<1>8. u \o <<>> = u
  <2>1. IsList(<<>>)
    BY DEF IsList
  <2> QED BY <1>5, <2>1, ConcatOfLists
<1> QED BY <1>6, <1>7, <1>8

LEMMA FlatOpens ==
    ASSUME CleanInv, WholeLists, log' = log, mdbx'.frames = Append(mdbx.frames, <<>>)
    PROVE  Flat' = Flat
<1> PICK f, none : f = mdbx.frames /\ none = <<>>
  OBVIOUS
<1>1. IsLists(f) /\ IsList(FlattenSeq(f))
  BY FlatParts
<1>2. IsList(none)
  BY DEF IsList
<1>3. FlattenSeq(Append(f, none)) = FlattenSeq(f) \o none
  BY <1>1, <1>2, FlattenAppend
<1> PICK u : u = FlattenSeq(f)
  OBVIOUS
<1>4. u \o none = u
  BY <1>1, <1>2, ConcatOfLists
<1> QED BY <1>3, <1>4, FlatStays

\* A write into the innermost frame.
LEMMA FlattenWritten ==
    ASSUME NEW s, IsLists(s), Len(s) > 0, NEW n
    PROVE  IsLists(Written(s, n)) /\ FlattenSeq(Written(s, n)) = FlattenSeq(s) \o <<n>>
<1> PICK k : k = Len(s)
  OBVIOUS
<1>1. Stack(s, k) /\ IsList(s) /\ k \in Nat
  BY DEF Stack, IsLists, IsList
<1> PICK t : t = Written(s, n)
  OBVIOUS
<1>2. WritesAt(s, t, k, n)
  BY <1>1, WrittenAt
<1> PICK one : one = <<n>>
  OBVIOUS
<1>3. IsList(one)
  BY SingleList
<1>4. IsList(t) /\ Len(t) = k /\ t[k] = s[k] \o one /\ \A i \in 1..k : i # k => t[i] = s[i]
  BY <1>2 DEF WritesAt
<1>5. GrowsBy(t, s, one)
  BY <1>3, <1>4 DEF GrowsBy
<1>6. FlattenSeq(t) = FlattenSeq(s) \o one
  BY <1>5, FlattenGrown
<1>7. IsLists(t)
  <2> PICK a, b : a = s[k] /\ b = a \o one
    OBVIOUS
  <2>1. IsList(a) /\ \A i \in 1..k : IsList(s[i])
    BY <1>1 DEF IsLists
  <2>2. IsList(b)
    BY <1>3, <2>1, ConcatOfLists
  <2>3. \A i \in 1..k : IsList(t[i])
    BY <1>4, <2>1, <2>2
  <2> QED BY <1>4, <2>3 DEF IsLists
<1> QED BY <1>6, <1>7

\* A worker adds what it puts, and nothing else.
LEMMA FlatOfWorkers ==
    ASSUME CleanInv, WholeLists, NEW w \in Workers, WorkerStep(w), ~JSHolds,
           Puts(w) \/ Passes(w) \/ CallsBack(w) \/ Stays(w)
    PROVE  /\ Puts(w) => Flat' = Flat \o <<Queue[worker[w].at]>>
           /\ ~Puts(w) => Flat' = Flat
<1>1. ~JSInTxn
  BY DEF JSHolds, JSInTxn
<1>2. MdbxRecord /\ IsLists(mdbx.frames)
  BY FlatParts DEF CleanInv, Records
<1>3. InTxn(w) => Len(mdbx.frames) = 1
  BY <1>1 DEF WorkersTxn, CleanInv, ExchangeInv, OpenTxn
<1>4. CASE Puts(w)
  <2> PICK n, old : n = Queue[worker[w].at] /\ old = mdbx.frames
    OBVIOUS
  <2>1. InTxn(w)
    BY <1>4 DEF Puts, MovesOn, ValuePcs, InTxn, TxnPcs
  <2>2. mdbx'.frames = Written(old, n) /\ log' = log
    BY <1>2, <1>4 DEF Puts, MovesOn, MdbxRecord
  <2>3. FlattenSeq(Written(old, n)) = FlattenSeq(old) \o <<n>>
    <3>1. IsLists(old)
      BY <1>2
    <3>2. Len(old) = 1
      BY <1>3, <2>1
    <3>3. Len(old) > 0
      BY <3>2
    <3> QED BY <3>1, <3>3, FlattenWritten
  <2>4. IsList(<<n>>)
    BY SingleList
  <2>5. Flat' = Flat \o <<n>>
    BY <2>2, <2>3, <2>4, FlatAdds
  <2> QED BY <1>4, <2>5
<1>5. CASE UNCHANGED <<mdbx, log>> /\ ~Puts(w)
  BY <1>5, FlatStays
<1>6. CASE Begin(w) /\ ~Puts(w)
  <2>1. mdbx.frames = <<>> /\ mdbx'.frames = << <<>> >> /\ log' = log
    BY <1>6 DEF Begin, Begun, IsOpen
  <2>2. Flat' = Flat
    <3> PICK f, none : f = mdbx.frames /\ none = <<>>
      OBVIOUS
    <3>1. mdbx'.frames = Append(f, none)
      BY <2>1
    <3> QED BY <2>1, <3>1, FlatOpens
  <2> QED BY <1>6, <2>2
<1>7. CASE (Interrupt(w) \/ Commit(w)) /\ ~Puts(w)
  <2>1. InTxn(w)
    BY <1>7 DEF Interrupt, Woken, Commit, InTxn, TxnPcs
  <2>2. mdbx'.frames = <<>> /\ log' = Append(log, mdbx.frames[1])
    BY <1>2, <1>7 DEF Interrupt, Commit, Closed, MdbxRecord
  <2> QED BY <1>3, <1>7, <2>1, <2>2, FlatCommits
<1>8. ~Puts(w) => UNCHANGED <<mdbx, log>> \/ Begin(w) \/ Interrupt(w) \/ Commit(w)
  BY DEF Passes, CallsBack, Stays, MovesOn
<1> QED BY <1>4, <1>5, <1>6, <1>7, <1>8

\* The callbacks add what they write.
LEMMA FlatOfCallbacks ==
    ASSUME CleanInv, WholeLists, Positions, AtValue, Callbacks, RunCallbacks
    PROVE  \E add : /\ Selects(calls, CallbacksDue(js.worker), {"cb", "strict"}, add)
                    /\ IsList(add) /\ Flat' = Flat \o add
<1>1. PICK add :
        /\ Selects(calls, CallbacksDue(js.worker), {"cb", "strict"}, add)
        /\ Len(mdbx.frames) = 1 /\ IsList(mdbx'.frames) /\ Len(mdbx'.frames) = 1
        /\ mdbx'.frames[1] = mdbx.frames[1] \o add
  BY CallbackWrites
<1>2. IsList(add)
  BY <1>1 DEF Selects
<1> PICK old, new : old = mdbx.frames /\ new = mdbx'.frames
  OBVIOUS
<1>3. IsLists(old)
  BY FlatParts
<1>4. GrowsBy(new, old, add)
  BY <1>1, <1>2, <1>3 DEF GrowsBy
<1>5. FlattenSeq(new) = FlattenSeq(old) \o add
  BY <1>4, FlattenGrown
<1>6. log' = log
  BY DEF RunCallbacks
<1>7. Flat' = Flat \o add
  BY <1>2, <1>5, <1>6, FlatAdds
<1> QED BY <1>1, <1>2, <1>7

\* A synchronous transaction adds its two writes, one of them in a child that
\* may abort; when it aborts itself, they are taken back.
LEMMA FlatOfBegin ==
    ASSUME CleanInv, WholeLists, BeginOwn \/ Join
    PROVE  Flat' = Flat
<1>1. /\ log' = log
      /\ \/ mdbx'.frames = Append(mdbx.frames, <<>>)
         \/ mdbx'.frames = mdbx.frames
  <2>1. CASE BeginOwn
    <3>1. log' = log /\ mdbx.frames = <<>> /\ mdbx'.frames = << <<>> >>
      BY <2>1, BeginMoves
    <3> QED BY <3>1
  <2>2. CASE Join
    BY <2>2, BeginMoves
  <2> QED BY <2>1, <2>2
<1> QED BY <1>1, FlatOpens, FlatStays

LEMMA FlatOfWriteOwn ==
    ASSUME CleanInv, WholeLists, WriteOwn
    PROVE  Flat' = Flat \o <<js.call>>
<1> PICK old, c : old = mdbx.frames /\ c = js.call
  OBVIOUS
<1>1. IsLists(old)
  BY FlatParts
<1>2. /\ log' = log /\ Len(old) > 0
      /\ mdbx'.frames = Written(old, c) \/ mdbx'.frames = Append(Written(old, c), <<>>)
  BY WriteOwnMoves
<1> PICK t, none : t = Written(old, c) /\ none = <<>>
  OBVIOUS
<1>3. IsLists(t) /\ FlattenSeq(t) = FlattenSeq(old) \o <<c>>
  BY <1>1, <1>2, FlattenWritten
<1>4. IsList(none) /\ IsList(<<c>>)
  BY SingleList DEF IsList
<1>5. FlattenSeq(Append(t, none)) = FlattenSeq(t)
  <2>1. FlattenSeq(Append(t, none)) = FlattenSeq(t) \o none
    BY <1>3, <1>4, FlattenAppend
  <2> PICK u : u = FlattenSeq(t)
    OBVIOUS
  <2>2. IsList(u)
    BY <1>3, FlattenedIsList
  <2>3. u \o none = u
    BY <1>4, <2>2, ConcatOfLists
  <2> QED BY <2>1, <2>3
<1>6. FlattenSeq(mdbx'.frames) = FlattenSeq(old) \o <<c>>
  BY <1>2, <1>3, <1>5
<1>7. Flat' = Flat \o <<c>>
  BY <1>2, <1>4, <1>6, FlatAdds
<1> QED BY <1>7

LEMMA FlatOfNested ==
    ASSUME CleanInv, WholeLists, JSContents, Nested
    PROVE  Flat' = Flat \o <<-js.call>> \/ Flat' = Flat
<1> PICK old, c : old = mdbx.frames /\ c = js.call
  OBVIOUS
<1>1. IsLists(old)
  BY FlatParts
<1>2. /\ log' = log /\ Len(old) = Outer + 1 /\ Outer \in {1, 2} /\ js.pc = "nested"
      /\ mdbx'.frames = Ended(Written(old, -c), Kind = "nestAbort")
  BY NestedMoves
<1> PICK t, k, aborts, new : /\ t = Written(old, -c) /\ k = Outer /\ aborts = (Kind = "nestAbort")
                             /\ new = Ended(t, aborts)
  OBVIOUS
<1>3. IsLists(t) /\ FlattenSeq(t) = FlattenSeq(old) \o <<-c>>
  BY <1>1, <1>2, FlattenWritten
<1>4. IsList(t) /\ Len(t) = k + 1 /\ k \in Nat \ {0} /\ aborts \in BOOLEAN
  <2>1. IsList(old)
    BY <1>1 DEF IsLists
  <2>2. Len(Written(old, -c)) = Len(old)
    BY <2>1, WrittenFrames
  <2> QED BY <1>2, <1>3, <2>2 DEF IsLists
<1>5. EndsAt(t, new, k, aborts)
  BY <1>4, EndedAt
<1>6. mdbx'.frames = new
  BY <1>2
<1>7. CASE ~aborts
  <2>1. FlattenSeq(new) = FlattenSeq(t)
    <3>1. KeepsOrDrops(new, t, t[k + 1], aborts)
      BY <1>3, <1>4, <1>5, FlattenEnded
    <3> QED BY <1>7, <3>1, Zenon DEF KeepsOrDrops
  <2>2. FlattenSeq(mdbx'.frames) = FlattenSeq(old) \o <<-c>>
    BY <1>3, <1>6, <2>1
  <2> PICK one : one = <<-c>>
    OBVIOUS
  <2>3. IsList(one)
    BY SingleList
  <2>4. Flat' = Flat \o one
    BY <1>2, <2>2, <2>3, FlatAdds
  <2> QED BY <2>4
<1>8. CASE aborts
  <2>1. old[k + 1] = <<>>
    BY <1>2 DEF JSContents
  <2>2. WritesAt(old, t, k + 1, -c)
    <3>1. Stack(old, k + 1)
      BY <1>1, <1>2, <1>4 DEF IsLists, Stack
    <3> PICK l : l = k + 1
      OBVIOUS
    <3>2. WritesAt(old, t, l, -c)
      BY <3>1, WrittenAt
    <3> QED BY <3>2
  <2>3. \A i \in 1..k : t[i] = old[i]
    <3>1. \A i \in 1..k : i \in 1..k + 1 /\ i # k + 1
      BY <1>4
    <3> QED BY <2>2, <3>1 DEF WritesAt
  <2>4. IsList(new) /\ Len(new) = k /\ \A i \in 1..k : new[i] = t[i]
    BY <1>5, <1>8 DEF EndsAt
  <2>5. EndsAt(old, new, k, TRUE)
    <3>1. \A i \in 1..k : new[i] = old[i]
      BY <2>3, <2>4
    <3>2. k \in 1..k
      BY <1>4
    <3> QED BY <2>4, <3>1, <3>2 DEF EndsAt
  <2>6. k + 1 = Len(old) /\ k \in Nat \ {0}
    BY <1>2, <1>4
  <2>7. FlattenSeq(old) = FlattenSeq(new) \o old[k + 1]
    <3>1. EndsAt(old, new, k, aborts)
      BY <1>8, <2>5, Zenon DEF EndsAt
    <3>2. KeepsOrDrops(new, old, old[k + 1], aborts)
      BY <1>1, <1>4, <2>6, <3>1, FlattenEnded
    <3> QED BY <1>8, <3>2, Zenon DEF KeepsOrDrops
  <2>8. FlattenSeq(new) = FlattenSeq(old)
    <3> PICK u, none : u = FlattenSeq(new) /\ none = <<>>
      OBVIOUS
    <3>1. IsLists(new)
      <4>1. \A i \in 1..k : new[i] = old[i] /\ i \in 1..Len(old)
        BY <2>3, <2>4, <2>6
      <4> QED BY <1>1, <2>4, <4>1 DEF IsLists
    <3>2. IsList(u) /\ IsList(none)
      BY <3>1, FlattenedIsList DEF IsList
    <3>3. u \o none = u
      BY <3>2, ConcatOfLists
    <3> QED BY <2>1, <2>7, <3>3
  <2> QED BY <1>2, <1>6, <2>8, FlatStays
<1> QED BY <1>4, <1>7, <1>8

LEMMA FlatOfFinish ==
    ASSUME CleanInv, WholeLists, JSContents, Finish
    PROVE  \E own : /\ IsList(own) /\ Flat = Flat' \o own
                    /\ own = <<>> \/ own = Own("finish", Kind, js.call)
<1> PICK old, c : old = mdbx.frames /\ c = js.call
  OBVIOUS
<1>1. IsLists(old)
  BY FlatParts
<1>2. /\ js.pc = "finish"
      /\ \/ WorkersTxn /\ Kind = "putSync" /\ Outer = 1 /\ UNCHANGED <<mdbx, log>>
         \/ EndsInWorkers
         \/ EndsItsOwn
  BY FinishMoves
<1> PICK none : none = <<>>
  OBVIOUS
<1>3. IsList(none)
  BY DEF IsList
<1>4. Flat' = Flat => Flat = Flat' \o none
  <2> PICK u : u = Flat
    OBVIOUS
  <2>1. IsList(u)
    BY FlatParts
  <2>2. u \o none = u
    BY <1>3, <2>1, ConcatOfLists
  <2> QED BY <2>2
<1>5. CASE UNCHANGED <<mdbx, log>>
  <2>1. Flat' = Flat
    BY <1>5, FlatStays
  <2> QED BY <1>3, <1>4, <2>1
<1>6. CASE EndsInWorkers
  <2> PICK aborts : aborts = (Kind = "syncAbort")
    OBVIOUS
  <2> PICK new : new = Ended(old, aborts)
    OBVIOUS
  <2>1. Len(old) = 2 /\ log' = log /\ mdbx'.frames = new
    BY <1>6 DEF EndsInWorkers
  <2> PICK k : k = 1
    OBVIOUS
  <2>2. IsList(old) /\ k + 1 = Len(old) /\ k \in Nat \ {0} /\ aborts \in BOOLEAN
    BY <1>1, <2>1 DEF IsLists
  <2>3. EndsAt(old, new, k, aborts)
    BY <2>2, EndedAt
  <2>4. KeepsOrDrops(new, old, old[k + 1], aborts)
    BY <1>1, <2>2, <2>3, FlattenEnded
  <2>5. CASE ~aborts
    <3>1. FlattenSeq(new) = FlattenSeq(old)
      BY <2>5, <2>4, Zenon DEF KeepsOrDrops
    <3>2. Flat' = Flat
      BY <2>1, <3>1, FlatStays
    <3> QED BY <1>3, <1>4, <3>2
  <2>6. CASE aborts
    <3> PICK own : own = old[k + 1]
      OBVIOUS
    <3>1. own = Own("finish", Kind, js.call)
      <4>1. js.pc \in {"own", "nested", "finish"} /\ (~WorkersTxn \/ Kind # "putSync")
            /\ Outer = k + 1
        BY <1>2, <1>6 DEF EndsInWorkers
      <4>2. mdbx.frames[Outer] = Own(js.pc, Kind, js.call)
        BY <4>1, OwnFrame
      <4> QED BY <1>2, <4>1, <4>2
    <3>2. FlattenSeq(old) = FlattenSeq(new) \o own
      BY <2>6, <2>4, Zenon DEF KeepsOrDrops
    <3>3. IsList(own) /\ IsList(old[1])
      BY <1>1, <2>1 DEF IsLists
    <3>4. IsLists(new)
      BY <2>3, <2>6, <3>3 DEF EndsAt, IsLists
    <3> PICK l, f : l = FlattenSeq(log) /\ f = FlattenSeq(new)
      OBVIOUS
    <3>5. IsList(l) /\ IsList(f)
      BY <3>4, FlattenedIsList, FlatParts
    <3>6. Associates(l, f, own)
      BY <3>3, <3>5, ConcatAgain
    <3>7. (l \o f) \o own = l \o (f \o own)
      BY <3>6 DEF Associates
    <3>8. Flat = l \o (f \o own) /\ Flat' = l \o f
      BY <2>1, <3>2 DEF Flat
    <3>9. Flat = Flat' \o own
      BY <3>7, <3>8
    <3> QED BY <3>3, <3>9, <3>1
  <2> QED BY <2>2, <2>5, <2>6
<1>7. CASE EndsItsOwn
  <2>1. /\ Len(mdbx.frames) = 1 /\ mdbx'.frames = <<>>
        /\ log' = IF Kind = "syncAbort" THEN log ELSE Append(log, mdbx.frames[1])
    BY <1>7 DEF EndsItsOwn
  <2>2. CASE Kind # "syncAbort"
    <3>1. Flat' = Flat
      BY <2>1, <2>2, FlatCommits
    <3> QED BY <1>3, <1>4, <3>1
  <2>3. CASE Kind = "syncAbort"
    <3> PICK own : own = old[1]
      OBVIOUS
    <3>1. own = Own("finish", Kind, js.call)
      <4>1. js.pc \in {"own", "nested", "finish"} /\ (~WorkersTxn \/ Kind # "putSync")
            /\ Outer = 1
        BY <1>2, <1>7 DEF EndsItsOwn
      <4>2. mdbx.frames[Outer] = Own(js.pc, Kind, js.call)
        BY <4>1, OwnFrame
      <4> QED BY <1>2, <4>1, <4>2
    <3>2. IsList(own)
      BY <1>1, <2>1 DEF IsLists
    <3>3. FlattenSeq(old) = own
      BY <1>1, <2>1, FlattenSingle
    <3> PICK l : l = FlattenSeq(log)
      OBVIOUS
    <3>4. IsList(l)
      BY FlatParts
    <3>5. l \o none = l
      BY <1>3, <3>4, ConcatOfLists
    <3>6. Flat = l \o own
      BY <3>3 DEF Flat
    <3>7. Flat' = l \o none
      BY <2>1, <2>3, FlattenNone DEF Flat
    <3>8. Flat = Flat' \o own
      BY <3>5, <3>6, <3>7
    <3> QED BY <3>2, <3>8, <3>1
  <2> QED BY <2>2, <2>3
<1> QED BY <1>2, <1>5, <1>6, <1>7

-----------------------------------------------------------------------------
(* What is stored, and the queue.                                           *)

QueueOrder ==
    /\ Len(calls) \in Nat /\ DOMAIN calls = 1..Len(calls) /\ Len(Queue) \in Nat
    /\ \A p \in 1..Len(Queue) : Queue[p] \in 1..Len(calls) /\ calls[Queue[p]] \in QueuedKinds
    /\ \A i, j \in 1..Len(Queue) : i < j => Queue[i] < Queue[j]
    /\ \A i, j \in 1..Len(Queue) : Queue[i] = Queue[j] => i = j
    /\ \A n \in 1..Len(calls) : calls[n] \in QueuedKinds => \E p \in 1..Len(Queue) : Queue[p] = n

LEMMA QueueIsOrdered ==
    ASSUME CleanInv
    PROVE  QueueOrder
<1>1. Len(calls) \in Nat /\ DOMAIN calls = 1..Len(calls)
  BY DEF CleanInv, Records
<1>2. /\ IsList(Queue)
      /\ \A p \in 1..Len(Queue) : Queue[p] \in 1..Len(calls) /\ calls[Queue[p]] \in QueuedKinds
      /\ \A i, j \in 1..Len(Queue) : i < j => Queue[i] < Queue[j]
      /\ \A n \in 1..Len(calls) : calls[n] \in QueuedKinds =>
            \E p \in 1..Len(Queue) : Queue[p] = n
  BY <1>1, QueueOfCalls
<1>3. Len(Queue) \in Nat
  BY <1>2 DEF IsList
<1>4. ASSUME NEW i \in 1..Len(Queue), NEW j \in 1..Len(Queue), Queue[i] = Queue[j], i # j
      PROVE  FALSE
  <2>1. Queue[i] \in Nat
    BY <1>1, <1>2
  <2>2. i < j \/ j < i
    BY <1>3, <1>4
  <2>3. Queue[i] < Queue[j] \/ Queue[j] < Queue[i]
    BY <1>2, <2>2
  <2> QED BY <1>4, <2>1, <2>3
<1> QED BY <1>1, <1>2, <1>3, <1>4 DEF QueueOrder

\* Further calls are behind in the queue.
LEMMA QueuedLater ==
    ASSUME CleanInv, CleanInv', CallsKept,
           NEW p \in 1..Len(Queue'), p \notin 1..Len(Queue)
    PROVE  Queue'[p] \in Nat /\ Queue'[p] \notin DOMAIN calls /\ p > Len(Queue)
<1>1. QueueOrder /\ QueueOrder'
  BY QueueIsOrdered, PTL
<1>2. Queue'[p] \in 1..Len(calls') /\ Len(calls') \in Nat /\ calls'[Queue'[p]] \in QueuedKinds
  BY <1>1 DEF QueueOrder
<1>3. p > Len(Queue)
  BY <1>1 DEF QueueOrder
<1>4. ASSUME Queue'[p] \in DOMAIN calls
      PROVE  FALSE
  <2> PICK n : n = Queue'[p]
    OBVIOUS
  <2>1. n \in 1..Len(calls) /\ calls[n] \in QueuedKinds
    BY <1>1, <1>2, <1>4 DEF QueueOrder, CallsKept
  <2>2. PICK j \in 1..Len(Queue) : Queue[j] = n
    BY <1>1, <2>1 DEF QueueOrder
  <2>3. Queue'[j] = Queue'[p] /\ j \in 1..Len(Queue')
    BY <1>1, <2>2 DEF QueueOrder, CallsKept
  <2>4. j = p
    BY <1>1, <2>3 DEF QueueOrder
  <2> QED BY <2>4
<1> QED BY <1>2, <1>3, <1>4

\* What is executed is before the frontier.
LEMMA DoneIs ==
    ASSUME WholeInv, NEW p \in 1..Len(Queue)
    PROVE  /\ Done(p) <=> IF IsCallback(p) THEN Place(p) <= ran ELSE p < Frontier
           /\ Done(p) => p < Frontier
           /\ Frontier \in Nat /\ ran \in Nat /\ Place(p) \in Nat
<1>1. CleanInv /\ Positions /\ Callbacks
  BY DEF WholeInv
<1>2. Places /\ QueueOrder
  BY <1>1, CallbackPlaces, QueueIsOrdered
<1>3. Done(p) <=> IF IsCallback(p) THEN Place(p) <= ran ELSE p < Frontier
  BY DEF Done, IsCallback, Place
<1> PICK f, m : f = Frontier /\ m = Len(Queue)
  OBVIOUS
<1>4. m \in Nat /\ f \in 1..m + 1
  BY <1>1, <1>2 DEF QueueOrder, Positions
<1>5. ran \in 0..Place(f - 1)
  BY <1>1, CallbacksAre DEF CalledUpTo
<1>6. f - 1 \in 0..m /\ p \in 0..m /\ p - 1 \in 0..m
  BY <1>4
<1>7. Place(f - 1) \in Nat /\ Place(p) \in Nat
  BY <1>2, <1>6 DEF Places
<1>8. ASSUME IsCallback(p), Place(p) <= ran, p >= f
      PROVE  FALSE
  <2>1. Place(p) = Place(p - 1) + 1
    BY <1>2, <1>8 DEF Places
  <2>2. f - 1 \in 0..p - 1
    BY <1>4, <1>6, <1>8
  <2>3. Place(f - 1) <= Place(p - 1) /\ Place(p - 1) \in Nat
    BY <1>2, <1>6, <2>2 DEF Places
  <2> QED BY <1>5, <1>7, <1>8, <2>1, <2>3
<1> QED BY <1>3, <1>4, <1>5, <1>7, <1>8

DoneBehind == \A p \in 1..Len(Queue) : Done(p) => p < Frontier
LEMMA BehindFrontier == WholeInv => DoneBehind
BY DoneIs DEF DoneBehind

LEMMA DoneAfter ==
    ASSUME CleanInv, CleanInv', CallsKept, NEW p \in 1..Len(Queue)
    PROVE  /\ Done(p)' <=> IF IsCallback(p) THEN Place(p) <= ran' ELSE p < Frontier'
           /\ calls'[Queue'[p]] = calls[Queue[p]]
<1>1. QueueOrder
  BY QueueIsOrdered
<1>2. p \in 0..Len(Queue) /\ p # 0
  BY <1>1 DEF QueueOrder
<1>3. Place(p)' = Place(p) /\ (IsCallback(p)' <=> IsCallback(p))
  BY <1>2, PlacesKept
<1>4. Done(p)' <=> IF IsCallback(p)' THEN Place(p)' <= ran' ELSE p < Frontier'
  BY DEF Done, IsCallback, Place
<1>5. calls'[Queue'[p]] = calls[Queue[p]]
  BY <1>1 DEF QueueOrder, CallsKept
<1> QED BY <1>3, <1>4, <1>5

StoredKinds == {"put", "zput", "cb", "strict"}
QueuedCalls == {n \in DOMAIN calls : calls[n] \in QueuedKinds}
FirmCalls == {n \in DOMAIN calls : calls[n] \in {"put", "zput", "strict"}}

\* Exactly, Distinct, Ordered and, of all that is stored, that it was called.
CallOf(e) == \E n \in DOMAIN calls : e = n \/ e = -n
Contents ==
    /\ \A e : Has(Flat, e) => CallOf(e)
    /\ \A p \in 1..Len(Queue) : Has(Flat, Queue[p]) <=> Done(p) /\ calls[Queue[p]] \in StoredKinds
    /\ NoRepeats(Flat)
    /\ KeepsOrder(QueuedCalls, FirmCalls, Flat)

\* NotYet.
Unwritten ==
    /\ js.pc \in {"acquire", "interrupt", "begin", "join", "own"} =>
          ~Has(Flat, js.call) /\ ~Has(Flat, -js.call)
    /\ js.pc = "nested" => ~Has(Flat, -js.call)

StoreInv == WholeInv /\ Contents /\ StrictLast /\ Unwritten

\* Nothing is written, but there may be a further call.
LEMMA ContentsKept ==
    ASSUME StoreInv, WholeInv', CallsKept, Frontier' = Frontier, ran' = ran, Flat' = Flat
    PROVE  Contents'
<1>1. CleanInv /\ CleanInv' /\ QueueOrder /\ QueueOrder'
  <2>1. CleanInv /\ CleanInv'
    BY DEF StoreInv, WholeInv
  <2> QED BY <2>1, QueueIsOrdered, PTL
<1>2. \A e : Has(Flat', e) => CallOf(e) /\ CallOf(e)'
  BY DEF StoreInv, Contents, CallOf, CallsKept
<1>3. ASSUME NEW p \in 1..Len(Queue')
      PROVE  Has(Flat', Queue'[p]) <=> Done(p)' /\ calls'[Queue'[p]] \in StoredKinds
  <2>1. CASE p \in 1..Len(Queue)
    <3>1. /\ Done(p)' <=> IF IsCallback(p) THEN Place(p) <= ran ELSE p < Frontier
          /\ calls'[Queue'[p]] = calls[Queue[p]]
      BY <1>1, <2>1, DoneAfter
    <3>2. Done(p) <=> IF IsCallback(p) THEN Place(p) <= ran ELSE p < Frontier
      BY <2>1, DoneIs DEF StoreInv
    <3>3. Queue'[p] = Queue[p]
      BY <2>1 DEF CallsKept
    <3> QED BY <2>1, <3>1, <3>2, <3>3 DEF StoreInv, Contents
  <2>2. CASE p \notin 1..Len(Queue)
    <3>1. Queue'[p] \in Nat /\ Queue'[p] \notin DOMAIN calls /\ p > Len(Queue)
      BY <1>1, <2>2, QueuedLater
    <3>2. ~CallOf(Queue'[p])
      BY <1>1, <3>1 DEF CallOf, QueueOrder
    <3>3. Frontier \in 1..Len(Queue) + 1
      BY DEF StoreInv, WholeInv, Positions
    <3>4. Done(p)' => p < Frontier'
      <4>1. DoneBehind'
        BY BehindFrontier, PTL
      <4> QED BY <4>1 DEF DoneBehind
    <3> QED BY <1>1, <1>2, <3>1, <3>2, <3>3, <3>4 DEF QueueOrder
  <2> QED BY <2>1, <2>2
<1>4. NoRepeats(Flat')
  BY DEF StoreInv, Contents
<1>5. KeepsOrder(QueuedCalls', FirmCalls', Flat')
  <2>1. ASSUME NEW e, Has(Flat, e), NEW kinds, e \in DOMAIN calls', calls'[e] \in kinds
        PROVE  e \in DOMAIN calls /\ calls[e] \in kinds
    <3>1. PICK n \in DOMAIN calls : e = n \/ e = -n
      BY <1>2, <2>1 DEF CallOf
    <3>2. e = n
      BY <1>1, <2>1, <3>1 DEF QueueOrder
    <3> QED BY <2>1, <3>1, <3>2 DEF CallsKept
  <2>2. \A i \in 1..Len(Flat) : Has(Flat, Flat[i])
    BY DEF Has
  <2>3. \A i \in 1..Len(Flat) : /\ Flat[i] \in QueuedCalls' => Flat[i] \in QueuedCalls
                                /\ Flat[i] \in FirmCalls' => Flat[i] \in FirmCalls
    BY <2>1, <2>2 DEF QueuedCalls, FirmCalls
  <2> QED BY <2>3 DEF StoreInv, Contents, KeepsOrder
<1> QED BY <1>2, <1>3, <1>4, <1>5 DEF Contents

\* Something is written that was not there.
Adds(add) ==
    /\ IsList(add) /\ Flat' = Flat \o add
    /\ NoRepeats(add) /\ Apart(Flat, add)
    /\ KeepsOrder(QueuedCalls, FirmCalls, add) /\ Precede(QueuedCalls, FirmCalls, Flat, add)
    /\ \A e : Has(add, e) => CallOf(e)
    /\ \A p \in 1..Len(Queue) : calls[Queue[p]] \in StoredKinds =>
          (Done(p)' <=> Done(p) \/ Has(add, Queue[p]))
    /\ \A p \in 1..Len(Queue) : Has(add, Queue[p]) => calls[Queue[p]] \in StoredKinds

LEMMA ContentsGrow ==
    ASSUME StoreInv, calls' = calls, NEW add, Adds(add)
    PROVE  Contents'
<1>1. Queue' = Queue /\ QueuedCalls' = QueuedCalls /\ FirmCalls' = FirmCalls
  BY SameQueue DEF QueuedCalls, FirmCalls
<1> PICK f : f = Flat
  OBVIOUS
<1>2. IsList(f) /\ IsList(add) /\ Flat' = f \o add
  BY FlatParts DEF StoreInv, WholeInv, Adds
<1> PICK u : u = f \o add
  OBVIOUS
<1>3. HasEither(f, add, u)
  BY <1>2, ConcatHas
<1>4. \A e : Has(u, e) => CallOf(e)'
  BY <1>3 DEF HasEither, StoreInv, Contents, Adds, CallOf
<1>5. ASSUME NEW p \in 1..Len(Queue)
      PROVE  Has(u, Queue[p]) <=> Done(p)' /\ calls[Queue[p]] \in StoredKinds
  <2>1. Has(f, Queue[p]) <=> Done(p) /\ calls[Queue[p]] \in StoredKinds
    BY <1>5 DEF StoreInv, Contents
  <2>2. Has(u, Queue[p]) <=> Has(f, Queue[p]) \/ Has(add, Queue[p])
    BY <1>3 DEF HasEither
  <2>3. /\ calls[Queue[p]] \in StoredKinds => (Done(p)' <=> Done(p) \/ Has(add, Queue[p]))
        /\ Has(add, Queue[p]) => calls[Queue[p]] \in StoredKinds
    BY <1>5 DEF Adds
  <2> QED BY <2>1, <2>2, <2>3
<1>6. NoRepeats(u)
  <2>1. NoRepeats(f) /\ NoRepeats(add) /\ Apart(f, add)
    BY DEF StoreInv, Contents, Adds
  <2> QED BY <1>2, <2>1, ConcatNoRepeats
<1>7. KeepsOrder(QueuedCalls, FirmCalls, u)
  <2> PICK early, late : early = QueuedCalls /\ late = FirmCalls
    OBVIOUS
  <2>1. KeepsOrder(early, late, f) /\ KeepsOrder(early, late, add) /\ Precede(early, late, f, add)
    BY DEF StoreInv, Contents, Adds
  <2>2. KeepsOrder(early, late, u)
    BY <1>2, <2>1, ConcatOrder
  <2> QED BY <2>2
<1>8. Flat' = u
  BY <1>2
<1>9. \A p \in 1..Len(Queue) : Has(Flat', Queue[p]) <=> Done(p)' /\ calls[Queue[p]] \in StoredKinds
  BY <1>5, <1>8
<1> QED BY <1>1, <1>4, <1>6, <1>7, <1>8, <1>9 DEF Contents

\* What JavaScript wrote is taken back.
LEMMA ContentsShrink ==
    ASSUME StoreInv, calls' = calls, NEW own, IsList(own), Flat = Flat' \o own, IsList(Flat'),
           \A p \in 1..Len(Queue) : (Done(p)' <=> Done(p)) /\ ~Has(own, Queue[p])
    PROVE  Contents'
<1>1. Queue' = Queue /\ QueuedCalls' = QueuedCalls /\ FirmCalls' = FirmCalls
  BY SameQueue DEF QueuedCalls, FirmCalls
<1> PICK f, u : f = Flat' /\ u = Flat
  OBVIOUS
<1>2. IsList(f) /\ u = f \o own
  OBVIOUS
<1>3. HasEither(f, own, u)
  BY <1>2, ConcatHas
<1>4. \A e : Has(f, e) => CallOf(e)'
  BY <1>3 DEF HasEither, StoreInv, Contents, CallOf
<1>5. \A p \in 1..Len(Queue) : Has(f, Queue[p]) <=> Done(p)' /\ calls[Queue[p]] \in StoredKinds
  BY <1>3 DEF HasEither, StoreInv, Contents
<1>6. NoRepeats(f)
  <2>1. NoRepeats(u)
    BY DEF StoreInv, Contents
  <2> QED BY <1>2, <2>1, ConcatNoRepeats
<1>7. KeepsOrder(QueuedCalls, FirmCalls, f)
  <2> PICK early, late : early = QueuedCalls /\ late = FirmCalls
    OBVIOUS
  <2>1. KeepsOrder(early, late, u)
    BY DEF StoreInv, Contents
  <2>2. KeepsOrder(early, late, f)
    BY <1>2, <2>1, ConcatOrder
  <2> QED BY <2>2
<1> QED BY <1>1, <1>4, <1>5, <1>6, <1>7 DEF Contents

\* One thing is written.
LEMMA OneHas ==
    ASSUME NEW n
    PROVE  /\ IsList(<<n>>) /\ NoRepeats(<<n>>) /\ \A e : Has(<<n>>, e) <=> e = n
           /\ \A early, late : KeepsOrder(early, late, <<n>>)
<1> PICK s : s = <<n>>
  OBVIOUS
<1>1. IsList(s) /\ Len(s) = 1 /\ s[1] = n
  BY SingleList
<1>2. NoRepeats(s)
  BY <1>1 DEF NoRepeats
<1>3. \A e : Has(s, e) <=> e = n
  BY <1>1 DEF Has
<1>4. \A early, late : KeepsOrder(early, late, s)
  BY <1>1 DEF KeepsOrder
<1> QED BY <1>1, <1>2, <1>3, <1>4

LEMMA NoneHas ==
    /\ IsList(<<>>) /\ NoRepeats(<<>>) /\ \A e : ~Has(<<>>, e)
    /\ \A early, late : KeepsOrder(early, late, <<>>)
BY DEF IsList, NoRepeats, Has, KeepsOrder

\* What was queued and is stored is before the frontier.
LEMMA StoredBefore ==
    ASSUME StoreInv, NEW e \in QueuedCalls, Has(Flat, e)
    PROVE  \E p \in 1..Len(Queue) : Queue[p] = e /\ Done(p) /\ p < Frontier
<1>1. QueueOrder
  BY QueueIsOrdered DEF StoreInv, WholeInv
<1>2. PICK p \in 1..Len(Queue) : Queue[p] = e
  BY <1>1 DEF QueueOrder, QueuedCalls
<1>3. Done(p)
  BY <1>2 DEF StoreInv, Contents
<1>4. p < Frontier
  BY <1>3, DoneIs DEF StoreInv
<1> QED BY <1>2, <1>3, <1>4

LEMMA PutContents ==
    ASSUME StoreInv, WholeInv', NEW w \in Workers, WorkerStep(w), Puts(w)
    PROVE  Contents'
<1>1. CleanInv /\ CleanInv' /\ WholeLists /\ AtValue /\ Positions
  BY DEF StoreInv, WholeInv
<1>2. /\ UNCHANGED <<calls, ran>> /\ ~JSHolds
  BY <1>1, WorkerMoves DEF jsVars
<1> PICK f : f = Frontier
  OBVIOUS
<1>3. /\ f = worker[w].at /\ Frontier' = f + 1 /\ f <= Len(Queue)
  BY <1>1, FrontierOfWorkers DEF Puts
<1>4. f \in 1..Len(Queue) /\ calls[Queue[f]] \in {"put", "zput"}
  BY <1>1, <1>3, InstructionIs DEF Puts
<1> PICK n : n = Queue[f]
  OBVIOUS
<1>5. Flat' = Flat \o <<n>>
  BY <1>1, <1>2, <1>3, FlatOfWorkers
<1>6. QueueOrder /\ CallsKept /\ f \in Nat
  BY <1>1, <1>2, <1>4, QueueIsOrdered, CallsStay
<1>7. ~IsCallback(f)
  BY <1>4 DEF IsCallback, CallbackKinds
<1> PICK add : add = <<n>>
  OBVIOUS
<1>8. /\ IsList(add) /\ NoRepeats(add) /\ KeepsOrder(QueuedCalls, FirmCalls, add)
      /\ \A e : Has(add, e) <=> e = n
  BY OneHas
<1>9. ~Has(Flat, n)
  <2>1. Has(Flat, n) => Done(f)
    BY <1>4 DEF StoreInv, Contents
  <2>2. Done(f) => f < Frontier
    BY <1>4, DoneIs DEF StoreInv
  <2> QED BY <1>6, <2>1, <2>2
<1>10. Apart(Flat, add)
  BY <1>8, <1>9 DEF Apart
<1>11. Precede(QueuedCalls, FirmCalls, Flat, add)
  <2> SUFFICES ASSUME NEW e \in QueuedCalls, Has(Flat, e)
               PROVE  e < n
    BY <1>8 DEF Precede
  <2>1. PICK p \in 1..Len(Queue) : Queue[p] = e /\ p < f
    BY StoredBefore
  <2> QED BY <1>4, <1>6, <2>1 DEF QueueOrder
<1>12. \A e : Has(add, e) => CallOf(e)
  BY <1>4, <1>6, <1>8 DEF CallOf, QueueOrder
<1>13. ASSUME NEW p \in 1..Len(Queue)
       PROVE  /\ Done(p)' <=> Done(p) \/ Has(add, Queue[p])
              /\ Has(add, Queue[p]) => calls[Queue[p]] \in StoredKinds
  <2>1. Done(p)' <=> IF IsCallback(p) THEN Place(p) <= ran ELSE p < f + 1
    BY <1>1, <1>2, <1>3, <1>6, DoneAfter
  <2>2. Done(p) <=> IF IsCallback(p) THEN Place(p) <= ran ELSE p < f
    BY DoneIs DEF StoreInv
  <2>3. Has(add, Queue[p]) <=> p = f
    BY <1>4, <1>6, <1>8 DEF QueueOrder
  <2>4. p < f + 1 <=> p < f \/ p = f
    BY <1>6
  <2> QED BY <1>4, <1>7, <2>1, <2>2, <2>3, <2>4 DEF StoredKinds
<1>14. Adds(add)
  BY <1>5, <1>8, <1>10, <1>11, <1>12, <1>13 DEF Adds
<1> QED BY <1>2, <1>14, ContentsGrow

LEMMA PassContents ==
    ASSUME StoreInv, WholeInv', NEW w \in Workers, WorkerStep(w), Passes(w) \/ CallsBack(w)
    PROVE  Contents'
<1>1. CleanInv /\ CleanInv' /\ WholeLists /\ AtValue /\ Positions
  BY DEF StoreInv, WholeInv
<1>2. /\ UNCHANGED <<calls, ran>> /\ ~JSHolds
  BY <1>1, WorkerMoves DEF jsVars
<1> PICK f : f = Frontier
  OBVIOUS
<1>3. /\ f = worker[w].at /\ Frontier' = f + 1 /\ f <= Len(Queue)
  BY <1>1, FrontierOfWorkers DEF Passes, CallsBack
<1>4. f \in 1..Len(Queue) /\ calls[Queue[f]] \in {"block", "end"} \cup CallbackKinds
  BY <1>1, <1>3, InstructionIs DEF Passes, CallsBack
<1>5. ~Puts(w)
  BY DEF Puts, Passes, CallsBack, CallbackKinds
<1>6. Flat' = Flat
  BY <1>1, <1>2, <1>5, FlatOfWorkers
<1>7. QueueOrder /\ CallsKept /\ f \in Nat
  BY <1>1, <1>2, <1>4, QueueIsOrdered, CallsStay
<1> PICK add : add = <<>>
  OBVIOUS
<1>8. /\ IsList(add) /\ NoRepeats(add) /\ KeepsOrder(QueuedCalls, FirmCalls, add)
      /\ \A e : ~Has(add, e)
  BY NoneHas
<1>9. Flat' = Flat \o add
  <2> PICK u : u = Flat
    OBVIOUS
  <2>1. IsList(u)
    BY <1>1, FlatParts
  <2>2. u \o add = u
    BY <1>8, <2>1, ConcatOfLists
  <2> QED BY <1>6, <2>2
<1>10. ASSUME NEW p \in 1..Len(Queue), calls[Queue[p]] \in StoredKinds
       PROVE  Done(p)' <=> Done(p)
  <2>1. Done(p)' <=> IF IsCallback(p) THEN Place(p) <= ran ELSE p < f + 1
    BY <1>1, <1>2, <1>3, <1>7, DoneAfter
  <2>2. Done(p) <=> IF IsCallback(p) THEN Place(p) <= ran ELSE p < f
    BY DoneIs DEF StoreInv
  <2>3. ~IsCallback(p) => p # f
    BY <1>4, <1>10 DEF IsCallback, StoredKinds
  <2>4. p < f + 1 <=> p < f \/ p = f
    BY <1>7
  <2> QED BY <2>1, <2>2, <2>3, <2>4
<1>11. Adds(add)
  BY <1>8, <1>9, <1>10 DEF Adds, Apart, Precede
<1> QED BY <1>2, <1>11, ContentsGrow

\* The worker that is at a strict callback is the current one.
LEMMA StrictIsCurrent ==
    ASSUME CleanInv, NEW v \in Workers, AtStrict(v)
    PROVE  Active(v) /\ v = current
<1>1. Active(v)
  BY DEF AtStrict, Active
<1> QED BY <1>1, FrontierOfActive

\* A strict callback, and whether it was called, after a step of a worker or
\* of JavaScript that calls none.
LEMMA StrictAfter ==
    ASSUME StoreInv, WholeInv', CallsKept, ran' = ran, NEW p \in 1..Len(Queue),
           calls'[Queue'[p]] = "strict", ~Done(p)'
    PROVE  calls[Queue[p]] = "strict" /\ ~Done(p) /\ ran < Place(p)
<1>1. CleanInv /\ CleanInv'
  BY DEF StoreInv, WholeInv
<1>2. /\ Done(p)' <=> IF IsCallback(p) THEN Place(p) <= ran ELSE p < Frontier'
      /\ calls'[Queue'[p]] = calls[Queue[p]]
  BY <1>1, DoneAfter
<1>3. IsCallback(p)
  BY <1>2 DEF IsCallback, CallbackKinds
<1>4. /\ Done(p) <=> IF IsCallback(p) THEN Place(p) <= ran ELSE p < Frontier
      /\ ran \in Nat /\ Place(p) \in Nat
  BY DoneIs DEF StoreInv
<1> QED BY <1>2, <1>3, <1>4

LEMMA StrictOfWorkers ==
    ASSUME StoreInv, WholeInv', NEW w \in Workers, WorkerStep(w)
    PROVE  StrictLast'
<1>1. CleanInv /\ CleanInv' /\ AtValue /\ Positions /\ Positions' /\ Callbacks
  BY DEF StoreInv, WholeInv
<1>2. /\ SameBut(w) /\ UNCHANGED <<calls, ran>>
      /\ Puts(w) \/ Passes(w) \/ CallsBack(w) \/ Stays(w)
  BY <1>1, WorkerMoves DEF jsVars
<1>3. Queue' = Queue /\ CallsKept /\ QueueOrder
  BY <1>1, <1>2, SameQueue, CallsStay, QueueIsOrdered
<1> PICK f, g : f = Frontier /\ g = Frontier'
  OBVIOUS
<1>4. /\ Stays(w) => g = f
      /\ MovesOn(w) => Active(w) /\ f = worker[w].at /\ g = f + 1 /\ f <= Len(Queue)
      /\ f \in 1..Len(Queue) + 1 /\ g \in 1..Len(Queue) + 1
  BY <1>1, <1>3, FrontierOfWorkers DEF Positions
<1>5. \A p \in 1..g - 1 : p \in 1..Len(Queue)
  <2> PICK m : m = Len(Queue)
    OBVIOUS
  <2>1. m \in Nat /\ g \in 1..m + 1
    BY <1>3, <1>4 DEF QueueOrder
  <2>2. \A k \in Nat : \A h \in 1..k + 1 : \A p \in 1..h - 1 : p \in 1..k
    OBVIOUS
  <2>3. \A p \in 1..g - 1 : p \in 1..m
    BY <2>1, <2>2, Zenon
  <2> QED BY <2>3, Zenon
<1> SUFFICES ASSUME NEW p \in 1..g - 1, calls'[Queue'[p]] = "strict", ~Done(p)'
             PROVE  p = g - 1 /\ \E v \in Workers : AtStrict(v)'
  BY <1>2 DEF StrictLast, SameBut
<1>6. p \in 1..Len(Queue)
  BY <1>5, Zenon
<1>7. calls[Queue[p]] = "strict" /\ ~Done(p) /\ ran < Place(p)
  BY <1>2, <1>3, <1>6, StrictAfter
<1>8. ASSUME p < f
      PROVE  p = f - 1 /\ \E v \in Workers : AtStrict(v)
  <2>1. p \in 1..f - 1
    BY <1>4, <1>6, <1>8
  <2> QED BY <1>7, <2>1 DEF StoreInv, StrictLast
<1>9. CASE MovesOn(w)
  <2>1. ~AtStrict(w) /\ Active(w)
    BY <1>4, <1>9 DEF MovesOn, AtStrict, ValuePcs
  <2>2. ~(p < f)
    <3> SUFFICES ASSUME p < f PROVE FALSE
      OBVIOUS
    <3>1. PICK v \in Workers : AtStrict(v)
      BY <1>8
    <3>2. v = current /\ w = current
      BY <1>1, <2>1, <3>1, StrictIsCurrent, FrontierOfActive
    <3> QED BY <2>1, <3>1, <3>2
  <2>3. p = f
    BY <1>4, <1>6, <1>9, <2>2
  <2>4. Instruction(w) = "strict"
    BY <1>1, <1>4, <1>7, <1>9, <2>3, InstructionIs
  <2>5. CallsBack(w)
    <3>1. ~Puts(w) /\ ~Passes(w)
      BY <2>4 DEF Puts, Passes
    <3>2. ~Stays(w)
      BY <1>4, <1>9
    <3> QED BY <1>2, <3>1, <3>2
  <2>6. AtStrict(w)'
    BY <2>4, <2>5 DEF CallsBack, AtStrict
  <2> QED BY <1>4, <1>9, <2>3, <2>6
<1>10. CASE Stays(w)
  <2>1. p < f /\ g = f
    BY <1>4, <1>10
  <2>2. PICK v \in Workers : AtStrict(v)
    BY <1>8, <2>1
  <2>3. CASE v # w
    <3>1. worker'[v] = worker[v]
      BY <1>2, <2>3 DEF SameBut
    <3>2. AtStrict(v)'
      BY <2>2, <3>1 DEF AtStrict
    <3> QED BY <1>8, <2>1, <3>2
  <2>4. CASE v = w
    <3>1. worker[w].finished \/ AtStrict(w)'
      BY <1>10, <2>2, <2>4 DEF Stays
    <3>2. ~worker[w].finished
      <4>1. CalledUpTo(f) /\ Waits
        BY <1>1, CallbacksAre
      <4>2. Place(p) <= Place(f - 1) /\ Place(p) \in Nat /\ Place(f - 1) \in Nat
        <5>1. f - 1 \in 0..Len(Queue) /\ p \in 0..f - 1 /\ p \in 0..Len(Queue)
          BY <1>3, <1>4, <1>6, <2>1 DEF QueueOrder
        <5> QED BY <1>1, <5>1, CallbackPlaces DEF Places
      <4>3. Waited
        BY <1>7, <4>1, <4>2 DEF CalledUpTo
      <4>4. PICK u \in Workers : ~worker[u].finished
        BY <4>3 DEF Waited
      <4>5. Active(u)
        BY <4>1, <4>4 DEF Waits
      <4>6. u = w
        BY <1>1, <2>2, <2>4, <4>5, StrictIsCurrent, FrontierOfActive
      <4> QED BY <4>4, <4>6
    <3> QED BY <1>8, <2>1, <3>1, <3>2
  <2> QED BY <2>3, <2>4
<1>11. MovesOn(w) \/ Stays(w)
  BY <1>2 DEF Puts, Passes, CallsBack
<1> QED BY <1>9, <1>10, <1>11

LEMMA UnwrittenOfWorkers ==
    ASSUME StoreInv, WholeInv', NEW w \in Workers, WorkerStep(w)
    PROVE  Unwritten'
<1>1. CleanInv /\ WholeLists /\ AtValue
  BY DEF StoreInv, WholeInv
<1>2. /\ UNCHANGED <<calls, js>> /\ ~JSHolds
      /\ Puts(w) \/ Passes(w) \/ CallsBack(w) \/ Stays(w)
  BY <1>1, WorkerMoves DEF jsVars
<1>3. QueueOrder
  BY <1>1, QueueIsOrdered
<1>4. CASE ~Puts(w)
  <2>1. Flat' = Flat
    BY <1>1, <1>2, <1>4, FlatOfWorkers
  <2>2. Unwritten
    BY DEF StoreInv
  <2> QED BY <1>2, <2>1, <2>2 DEF Unwritten
<1>5. CASE Puts(w)
  <2> PICK n, c : n = Queue[worker[w].at] /\ c = js.call
    OBVIOUS
  <2>1. n \in DOMAIN calls /\ calls[n] \in {"put", "zput"}
    BY <1>1, <1>5, InstructionIs DEF Puts, MovesOn
  <2>2. Flat' = Flat \o <<n>>
    BY <1>1, <1>2, <1>5, FlatOfWorkers
  <2> PICK f, one : f = Flat /\ one = <<n>>
    OBVIOUS
  <2>3. IsList(f) /\ IsList(one) /\ \A e : Has(one, e) <=> e = n
    BY <1>1, FlatParts, OneHas
  <2>4. HasEither(f, one, f \o one)
    BY <2>3, ConcatHas
  <2>5. \A e : Has(Flat', e) <=> Has(Flat, e) \/ e = n
    BY <2>2, <2>3, <2>4 DEF HasEither
  <2>6. js.pc \in {"acquire", "interrupt"} => c \in DOMAIN calls /\ calls[c] \in SyncKinds
    BY <1>1 DEF CleanInv, ExchangeInv, InCall, Kind
  <2>7. js.pc \in {"acquire", "interrupt"} => c # n /\ -c # n
    BY <1>3, <2>1, <2>6 DEF QueueOrder, SyncKinds
  <2>8. js.pc \notin {"begin", "join", "own", "nested"}
    BY <1>2 DEF JSHolds
  <2> QED BY <1>2, <2>5, <2>7, <2>8 DEF Unwritten, StoreInv
<1> QED BY <1>4, <1>5

LEMMA StoreOfWorkers ==
    ASSUME StoreInv, WholeInv', NEW w \in Workers, WorkerStep(w)
    PROVE  StoreInv'
<1>1. CleanInv /\ CleanInv' /\ AtValue /\ Positions
  BY DEF StoreInv, WholeInv
<1>2. /\ UNCHANGED <<calls, ran>> /\ ~JSHolds
      /\ Puts(w) \/ Passes(w) \/ CallsBack(w) \/ Stays(w)
  BY <1>1, WorkerMoves DEF jsVars
<1>3. Contents'
  <2>1. CASE Stays(w)
    <3>1. Frontier' = Frontier
      BY <1>1, <2>1, FrontierOfWorkers
    <3>2. ~Puts(w)
      BY <1>1, <2>1 DEF Puts, MovesOn, Stays, CleanInv, Records
    <3>3. Flat' = Flat
      BY <1>2, <3>2, FlatOfWorkers DEF StoreInv, WholeInv
    <3>4. CallsKept
      BY <1>1, <1>2, CallsStay
    <3> QED BY <1>2, <3>1, <3>3, <3>4, ContentsKept
  <2> QED BY <1>2, <2>1, PutContents, PassContents
<1> QED BY <1>3, StrictOfWorkers, UnwrittenOfWorkers DEF StoreInv

\* The steps of JavaScript without a transaction.
LEMMA StrictOfQuiet ==
    ASSUME StoreInv, WholeInv', QuietStep
    PROVE  StrictLast'
<1>1. CleanInv /\ CleanInv' /\ Positions
  BY DEF StoreInv, WholeInv
<1>2. /\ ran' = ran /\ CallsKept /\ Frontier' = Frontier
      /\ \A w \in Workers : w \in Workers' /\ SamePlace(w)
  BY <1>1, QuietMoves, FrontierOfQuiet
<1>3. \A p \in 1..Frontier - 1 : p \in 1..Len(Queue)
  BY <1>1, QueueIsOrdered DEF Positions, QueueOrder
<1> SUFFICES ASSUME NEW p \in 1..Frontier - 1, calls'[Queue'[p]] = "strict", ~Done(p)'
             PROVE  p = Frontier - 1 /\ \E v \in Workers' : AtStrict(v)'
  BY <1>2 DEF StrictLast
<1>4. calls[Queue[p]] = "strict" /\ ~Done(p)
  <2>1. p \in 1..Len(Queue)
    BY <1>3, Zenon
  <2> QED BY <1>2, <2>1, StrictAfter
<1>5. p = Frontier - 1 /\ \E v \in Workers : AtStrict(v)
  BY <1>4 DEF StoreInv, StrictLast
<1>6. ASSUME NEW v \in Workers, AtStrict(v)
      PROVE  v \in Workers' /\ AtStrict(v)'
  BY <1>2, <1>6 DEF SamePlace, AtStrict
<1> QED BY <1>5, <1>6

LEMMA UnwrittenOfQuiet ==
    ASSUME StoreInv, WholeInv', QuietStep
    PROVE  Unwritten'
<1>1. CleanInv
  BY DEF StoreInv, WholeInv
<1>2. UNCHANGED <<mdbx, log>> /\ ~JSInTxn /\ ~JSInTxn'
  BY <1>1, QuietMoves
<1>3. Flat' = Flat
  BY <1>2, FlatStays
<1>4. IsJS(js) /\ QueueOrder
  BY <1>1, QueueIsOrdered DEF CleanInv, HandoffInv, Shapes
<1>5. CASE \E kind : CallSync(kind)
  <2>1. PICK kind : CallSync(kind)
    BY <1>5
  <2>2. js'.pc = "acquire" /\ js'.call = Len(calls) + 1
    BY <1>1, <2>1 DEF CallSync, Called, CleanInv, Records
  <2> PICK c : c = Len(calls) + 1
    OBVIOUS
  <2>3. ~CallOf(c) /\ ~CallOf(-c)
    BY <1>4 DEF CallOf, QueueOrder
  <2>4. ~Has(Flat, c) /\ ~Has(Flat, -c)
    BY <2>3 DEF StoreInv, Contents
  <2> QED BY <1>3, <2>2, <2>4 DEF Unwritten
<1>6. CASE Acquire \/ Interrupted
  <2>1. js.pc \in {"acquire", "interrupt"} /\ js'.call = js.call
        /\ js'.pc \in {"interrupt", "join", "begin"}
    BY <1>4, <1>6 DEF Acquire, Interrupted, IsJS
  <2> QED BY <1>3, <2>1 DEF Unwritten, StoreInv
<1>7. CASE js' = js \/ js'.pc \in {"idle", "notify", "progress"}
  BY <1>3, <1>7 DEF Unwritten, StoreInv
<1>8. \/ \E kind : CallSync(kind)
      \/ Acquire \/ Interrupted
      \/ js' = js \/ js'.pc \in {"idle", "notify", "progress"}
  <2>1. ASSUME NEW kind, Submit(kind)
        PROVE  js' = js \/ js'.pc = "notify"
    BY <1>4, <2>1 DEF Submit, IsJS
  <2>2. ASSUME NEW w, Complete(w) \/ Progress(w)
        PROVE  js' = js \/ js'.pc = "progress"
    BY <2>2 DEF Complete, Progress, jsVars
  <2>3. Notify \/ StartWriting \/ AwaitTxn => js' = js \/ js'.pc = "idle"
    BY DEF Notify, StartWriting, AwaitTxn, Idle, jsVars
  <2> QED BY <2>1, <2>2, <2>3 DEF QuietStep, Call
<1> QED BY <1>5, <1>6, <1>7, <1>8

LEMMA StoreOfQuiet ==
    ASSUME StoreInv, WholeInv', QuietStep
    PROVE  StoreInv'
<1>1. CleanInv /\ CleanInv' /\ Positions
  BY DEF StoreInv, WholeInv
<1>2. /\ UNCHANGED <<ran, mdbx, log>> /\ CallsKept /\ Frontier' = Frontier
  BY <1>1, QuietMoves, FrontierOfQuiet
<1>3. Flat' = Flat
  BY <1>2, FlatStays
<1>4. Contents'
  BY <1>2, <1>3, ContentsKept
<1> QED BY <1>4, StrictOfQuiet, UnwrittenOfQuiet DEF StoreInv

-----------------------------------------------------------------------------
(* What the callbacks write.                                                *)

\* The callbacks that are called: those that were not, in the order of the
\* queue.
LEMMA DueMembers ==
    ASSUME StoreInv, RunCallbacks
    PROVE  /\ IsList(CallbacksDue(js.worker))
           /\ \A i \in 1..Len(CallbacksDue(js.worker)) :
                 \E p \in 1..Frontier - 1 :
                    /\ p \in 1..Len(Queue) /\ IsCallback(p)
                    /\ Place(p) = ran + i /\ CallbacksDue(js.worker)[i] = Queue[p]
           /\ \A p \in 1..Frontier - 1 :
                 p \in 1..Len(Queue) /\ IsCallback(p) /\ ran < Place(p) =>
                    \E i \in 1..Len(CallbacksDue(js.worker)) :
                       Place(p) = ran + i /\ CallbacksDue(js.worker)[i] = Queue[p]
           /\ Len(CallbacksDue(js.worker)) \in Nat
<1>1. CleanInv /\ Positions /\ AtValue /\ Callbacks
  BY DEF StoreInv, WholeInv
<1> PICK f, m, due : f = Frontier - 1 /\ m = Len(Queue) /\ due = CallbacksDue(js.worker)
  OBVIOUS
<1>2. m \in Nat /\ f \in 0..m
  BY <1>1, QueueIsOrdered DEF Positions, QueueOrder
<1>3. Places /\ f \in 0..Len(Queue)
  BY <1>1, <1>2, CallbackPlaces
<1> PICK n, list : n = Place(f) /\ list = CallbacksUpTo(f)
  OBVIOUS
<1>4. n \in Nat /\ ran \in 0..n
  BY <1>1, <1>3, CallbacksAre DEF Places, CalledUpTo
<1>5. IsList(due) /\ Len(due) = n - ran /\ \A i \in 1..n - ran : due[i] = list[ran + i]
  BY <1>1, RunsCallbacks
<1>6. \A j \in 1..n : \E p \in 1..f : IsCallback(p) /\ list[j] = Queue[p] /\ Place(p) = j
  BY <1>3 DEF Places
<1>7. \A p \in 1..f : IsCallback(p) => Place(p) \in 1..n /\ list[Place(p)] = Queue[p]
  BY <1>3 DEF Places
<1>8. \A i \in 1..n - ran : ran + i \in 1..n
  BY <1>4
<1>9. \A j \in 1..n : ran < j => j - ran \in 1..n - ran /\ j = ran + (j - ran)
  BY <1>4
<1>10. \A p \in 1..f : p \in 1..m
  BY <1>2
<1>11. ASSUME NEW i \in 1..n - ran
       PROVE  \E p \in 1..f : p \in 1..m /\ IsCallback(p) /\ Place(p) = ran + i /\ due[i] = Queue[p]
  <2>1. PICK p \in 1..f : IsCallback(p) /\ list[ran + i] = Queue[p] /\ Place(p) = ran + i
    BY <1>6, <1>8
  <2> QED BY <1>5, <1>10, <2>1
<1>12. ASSUME NEW p \in 1..f, IsCallback(p), ran < Place(p)
       PROVE  \E i \in 1..n - ran : Place(p) = ran + i /\ due[i] = Queue[p]
  <2> PICK j : j = Place(p)
    OBVIOUS
  <2>1. j \in 1..n /\ list[j] = Queue[p]
    BY <1>7, <1>12
  <2>2. j - ran \in 1..n - ran /\ j = ran + (j - ran)
    BY <1>9, <1>12, <2>1
  <2>3. due[j - ran] = list[j]
    BY <1>5, <2>2
  <2> QED BY <2>1, <2>2, <2>3
<1>13. n - ran \in Nat
  BY <1>4
<1> QED BY <1>5, <1>11, <1>12, <1>13

\* What they write, in order.
LEMMA CallbackAdds ==
    ASSUME StoreInv, RunCallbacks
    PROVE  \E add :
              /\ IsList(add) /\ Flat' = Flat \o add
              /\ \A j, k \in 1..Len(add) : j < k => add[j] < add[k]
              /\ \A e : Has(add, e) <=>
                    \E p \in 1..Frontier - 1 :
                       /\ p \in 1..Len(Queue) /\ calls[Queue[p]] \in {"cb", "strict"}
                       /\ ran < Place(p) /\ Queue[p] = e
<1>1. CleanInv /\ WholeLists /\ Positions /\ AtValue /\ Callbacks
  BY DEF StoreInv, WholeInv
<1> PICK due, kinds, made, f : /\ due = CallbacksDue(js.worker) /\ kinds = {"cb", "strict"}
                               /\ made = calls /\ f = Frontier - 1
  OBVIOUS
<1>2. PICK add : Selects(made, due, kinds, add) /\ IsList(add) /\ Flat' = Flat \o add
  BY <1>1, FlatOfCallbacks
<1>3. IsList(due) /\ Len(due) \in Nat /\ Len(add) \in Nat
  BY <1>2, DueMembers DEF IsList
<1>4. \A i \in 1..Len(due) : \E p \in 1..f : /\ p \in 1..Len(Queue) /\ IsCallback(p)
                                             /\ Place(p) = ran + i /\ due[i] = Queue[p]
  BY DueMembers
<1>5. \A p \in 1..f : p \in 1..Len(Queue) /\ IsCallback(p) /\ ran < Place(p) =>
         \E i \in 1..Len(due) : Place(p) = ran + i /\ due[i] = Queue[p]
  BY DueMembers, Zenon
<1> PICK place : place = [i \in 0..Len(due) |-> Len(UpTo(made, due, kinds, i))]
  OBVIOUS
<1>6. /\ \A j \in 1..Len(add) :
            \E i \in 1..Len(due) : made[due[i]] \in kinds /\ add[j] = due[i] /\ place[i] = j
      /\ \A i \in 1..Len(due) : made[due[i]] \in kinds =>
            place[i] \in 1..Len(add) /\ add[place[i]] = due[i]
      /\ \A i, k \in 0..Len(due) : i <= k => place[i] <= place[k]
  <2>1. /\ \A i \in 0..Len(due) : place[i] = Len(UpTo(made, due, kinds, i))
        /\ \A i \in 1..Len(due) : i \in 0..Len(due)
    BY <1>3
  <2>2. \A j \in 1..Len(add) :
           \E i \in 1..Len(due) : made[due[i]] \in kinds /\ add[j] = due[i] /\ place[i] = j
    BY <1>2, <2>1, Zenon DEF Selects
  <2>3. \A i \in 1..Len(due) : made[due[i]] \in kinds =>
           place[i] \in 1..Len(add) /\ add[place[i]] = due[i]
    BY <1>2, <2>1, Zenon DEF Selects
  <2>4. \A i, k \in 0..Len(due) : i <= k => place[i] <= place[k]
    BY <1>2, <2>1, Zenon DEF Selects
  <2> QED BY <2>2, <2>3, <2>4
<1>7. Places /\ QueueOrder
  BY <1>1, CallbackPlaces, QueueIsOrdered
<1>8. ran \in Nat
  <2>1. ran \in 0..Place(f)
    BY <1>1, CallbacksAre DEF CalledUpTo
  <2> QED BY <2>1
<1>9. ASSUME NEW j \in 1..Len(add), NEW k \in 1..Len(add), j < k
      PROVE  add[j] < add[k]
  <2>1. PICK a \in 1..Len(due) : add[j] = due[a] /\ place[a] = j
    BY <1>6
  <2>2. PICK b \in 1..Len(due) : add[k] = due[b] /\ place[b] = k
    BY <1>6
  <2>3. a < b
    <3>1. b <= a => place[b] <= place[a]
      BY <1>3, <1>6
    <3> QED BY <1>3, <1>9, <2>1, <2>2, <3>1
  <2>4. PICK p \in 1..Len(Queue) : Place(p) = ran + a /\ due[a] = Queue[p]
    BY <1>4
  <2>5. PICK q \in 1..Len(Queue) : Place(q) = ran + b /\ due[b] = Queue[q]
    BY <1>4
  <2>6. p < q
    <3>1. q <= p => Place(q) <= Place(p)
      <4>1. Len(Queue) \in Nat
        BY <1>7 DEF QueueOrder
      <4>2. p \in 0..Len(Queue) /\ (q <= p => q \in 0..p)
        BY <4>1
      <4> QED BY <1>7, <4>2 DEF Places
    <3>2. Place(p) < Place(q)
      BY <1>3, <1>8, <2>3, <2>4, <2>5
    <3>3. Place(p) \in Nat /\ Place(q) \in Nat
      <4>1. p \in 0..Len(Queue) /\ q \in 0..Len(Queue)
        OBVIOUS
      <4> QED BY <1>7, <4>1 DEF Places
    <3>4. p \in Nat /\ q \in Nat
      OBVIOUS
    <3> QED BY <3>1, <3>2, <3>3, <3>4
  <2> QED BY <1>7, <2>1, <2>2, <2>4, <2>5, <2>6 DEF QueueOrder
<1>10. ASSUME NEW e, Has(add, e)
       PROVE  \E p \in 1..f : /\ p \in 1..Len(Queue) /\ calls[Queue[p]] \in {"cb", "strict"}
                              /\ ran < Place(p) /\ Queue[p] = e
  <2>1. PICK j \in 1..Len(add) : add[j] = e
    BY <1>10 DEF Has
  <2>2. PICK i \in 1..Len(due) : made[due[i]] \in kinds /\ add[j] = due[i]
    BY <1>6
  <2>3. PICK p \in 1..f : p \in 1..Len(Queue) /\ Place(p) = ran + i /\ due[i] = Queue[p]
    BY <1>4
  <2>4. ran < Place(p)
    BY <1>3, <1>8, <2>3
  <2> QED BY <2>1, <2>2, <2>3, <2>4
<1>11. ASSUME NEW p \in 1..f, p \in 1..Len(Queue), calls[Queue[p]] \in {"cb", "strict"},
              ran < Place(p)
       PROVE  Has(add, Queue[p])
  <2>1. IsCallback(p)
    BY <1>11 DEF IsCallback, CallbackKinds
  <2>2. PICK i \in 1..Len(due) : due[i] = Queue[p]
    BY <1>5, <1>11, <2>1
  <2>3. place[i] \in 1..Len(add) /\ add[place[i]] = due[i]
    BY <1>6, <1>11, <2>2
  <2> QED BY <2>2, <2>3 DEF Has
<1> QED BY <1>2, <1>9, <1>10, <1>11

LEMMA StoreOfCallbacks ==
    ASSUME StoreInv, WholeInv', RunCallbacks
    PROVE  StoreInv'
<1>1. CleanInv /\ CleanInv' /\ WholeLists /\ Positions /\ AtValue /\ Callbacks
  BY DEF StoreInv, WholeInv
<1>2. /\ WorkersAt /\ UNCHANGED <<calls, mark, start, current>>
      /\ ran' = Place(Frontier - 1)
  BY <1>1, RunsCallbacks
<1>3. Frontier' = Frontier /\ Queue' = Queue
  BY <1>1, <1>2, PlaceStays
<1> PICK f, n : f = Frontier - 1 /\ n = Place(f)
  OBVIOUS
<1>4. PICK add :
        /\ IsList(add) /\ Flat' = Flat \o add
        /\ \A j, k \in 1..Len(add) : j < k => add[j] < add[k]
        /\ \A e : Has(add, e) <=>
              \E p \in 1..f : /\ p \in 1..Len(Queue) /\ calls[Queue[p]] \in {"cb", "strict"}
                              /\ ran < Place(p) /\ Queue[p] = e
  BY CallbackAdds
<1>5. QueueOrder /\ CallsKept /\ Places
  BY <1>1, <1>2, QueueIsOrdered, CallsStay, CallbackPlaces
<1>6. f \in 0..Len(Queue) /\ n \in Nat /\ ran \in 0..n /\ Frontier = f + 1
  <2>1. Frontier \in 1..Len(Queue) + 1 /\ Len(Queue) \in Nat
    BY <1>1, <1>5 DEF Positions, QueueOrder
  <2>2. f \in 0..Len(Queue) /\ Frontier = f + 1
    BY <2>1
  <2>3. n \in Nat
    BY <1>5, <2>2 DEF Places
  <2>4. ran \in 0..n
    BY <1>1, CallbacksAre DEF CalledUpTo
  <2> QED BY <2>2, <2>3, <2>4
<1>7. \A p \in 1..Len(Queue) : p \in Nat /\ p \in 0..Len(Queue)
  OBVIOUS
<1>8. \A e : Has(add, e) => \E p \in 1..Len(Queue) :
               /\ p < Frontier /\ calls[Queue[p]] \in {"cb", "strict"} /\ Queue[p] = e
               /\ ran < Place(p) /\ ~Done(p)
  <2> SUFFICES ASSUME NEW p \in 1..f, p \in 1..Len(Queue), ran < Place(p),
                      calls[Queue[p]] \in {"cb", "strict"}
               PROVE  p < Frontier /\ ~Done(p)
    BY <1>4
  <2>1. p < Frontier
    BY <1>6
  <2>2. IsCallback(p)
    BY DEF IsCallback, CallbackKinds
  <2>3. Done(p) => Place(p) <= ran
    BY <2>2, DoneIs DEF StoreInv
  <2>4. Place(p) \in Nat
    BY DoneIs DEF StoreInv
  <2> QED BY <1>6, <2>1, <2>3, <2>4
<1>9. NoRepeats(add)
  <2>1. ASSUME NEW j \in 1..Len(add), NEW k \in 1..Len(add), add[j] = add[k], j < k
        PROVE  FALSE
    <3>1. Has(add, add[j])
      BY DEF Has
    <3>2. add[j] \in Nat
      BY <1>5, <1>8, <3>1 DEF QueueOrder
    <3>3. add[j] < add[k]
      BY <1>4, <2>1
    <3> QED BY <2>1, <3>2, <3>3
  <2>2. \A j, k \in 1..Len(add) : j = k \/ j < k \/ k < j
    OBVIOUS
  <2> QED BY <2>1, <2>2 DEF NoRepeats
<1>10. Apart(Flat, add)
  BY <1>8 DEF Apart, StoreInv, Contents
<1>11. KeepsOrder(QueuedCalls, FirmCalls, add)
  BY <1>4 DEF KeepsOrder
<1>12. Precede(QueuedCalls, FirmCalls, Flat, add)
  <2> SUFFICES ASSUME NEW e \in QueuedCalls, NEW x \in FirmCalls, Has(Flat, e), Has(add, x)
               PROVE  e < x
    BY DEF Precede
  <2>1. PICK p \in 1..Len(Queue) :
          p < Frontier /\ calls[Queue[p]] \in {"cb", "strict"} /\ Queue[p] = x /\ ~Done(p)
    BY <1>8
  <2>2. calls[Queue[p]] = "strict"
    BY <2>1 DEF FirmCalls
  <2>3. p = f
    <3>1. p \in 1..Frontier - 1
      BY <1>6, <2>1
    <3> QED BY <2>1, <2>2, <3>1 DEF StoreInv, StrictLast
  <2>4. PICK q \in 1..Len(Queue) : Queue[q] = e /\ Done(q) /\ q < Frontier
    BY StoredBefore
  <2>5. q < p
    <3>1. q # p
      BY <2>1, <2>4
    <3>2. q <= f
      BY <1>6, <2>4
    <3> QED BY <1>6, <2>3, <3>1, <3>2
  <2> QED BY <1>5, <2>1, <2>4, <2>5 DEF QueueOrder
<1>13. \A e : Has(add, e) => CallOf(e)
  BY <1>5, <1>8 DEF CallOf, QueueOrder
<1>14. ASSUME NEW p \in 1..Len(Queue)
       PROVE  /\ calls[Queue[p]] \in StoredKinds => (Done(p)' <=> Done(p) \/ Has(add, Queue[p]))
              /\ Has(add, Queue[p]) => calls[Queue[p]] \in {"cb", "strict"}
  <2>1. Done(p)' <=> IF IsCallback(p) THEN Place(p) <= n ELSE p < Frontier
    BY <1>1, <1>2, <1>3, <1>5, DoneAfter
  <2>2. /\ Done(p) <=> IF IsCallback(p) THEN Place(p) <= ran ELSE p < Frontier
        /\ Place(p) \in Nat
    BY DoneIs DEF StoreInv
  <2>3. Has(add, Queue[p]) <=> p \in 1..f /\ calls[Queue[p]] \in {"cb", "strict"} /\ ran < Place(p)
    <3>1. \A q \in 1..Len(Queue) : Queue[q] = Queue[p] => q = p
      BY <1>5 DEF QueueOrder
    <3> QED BY <1>4, <3>1
  <2>4. CASE ~IsCallback(p)
    BY <2>1, <2>2, <2>3, <2>4 DEF IsCallback, CallbackKinds
  <2>5. CASE IsCallback(p)
    <3>1. p \in 1..f => Place(p) <= n
      <4>1. p \in 1..f => p \in 0..f
        BY <1>7
      <4> QED BY <1>5, <1>6, <4>1 DEF Places
    <3>2. p \notin 1..f => ~(Place(p) <= n)
      <4> SUFFICES ASSUME p \notin 1..f PROVE ~(Place(p) <= n)
        OBVIOUS
      <4>1. p - 1 \in 0..Len(Queue) /\ f \in 0..p - 1
        BY <1>6, <1>7
      <4>2. n <= Place(p - 1) /\ Place(p - 1) \in Nat
        BY <1>5, <4>1 DEF Places
      <4>3. Place(p) = Place(p - 1) + 1
        BY <1>5, <2>5 DEF Places
      <4> QED BY <1>6, <4>2, <4>3
    <3>3. calls[Queue[p]] \in StoredKinds => calls[Queue[p]] \in {"cb", "strict"}
      BY <2>5 DEF IsCallback, CallbackKinds, StoredKinds
    <3>4. Place(p) <= ran => Place(p) <= n
      BY <1>6, <2>2
    <3>5. ~(Place(p) <= ran) <=> ran < Place(p)
      BY <1>6, <2>2
    <3> QED BY <2>1, <2>2, <2>3, <2>5, <3>1, <3>2, <3>3, <3>4, <3>5
  <2> QED BY <2>3, <2>4, <2>5
<1>15. Adds(add)
  BY <1>4, <1>9, <1>10, <1>11, <1>12, <1>13, <1>14 DEF Adds, StoredKinds
<1>16. Contents'
  BY <1>2, <1>15, ContentsGrow
<1>17. StrictLast'
  <2> SUFFICES ASSUME NEW p \in 1..f, calls[Queue[p]] = "strict"
               PROVE  Done(p)'
    BY <1>2, <1>3 DEF StrictLast
  <2>1. p \in 1..Len(Queue) /\ p \in 0..f
    BY <1>6
  <2>2. IsCallback(p)
    BY DEF IsCallback, CallbackKinds
  <2>3. Place(p) <= n
    BY <1>5, <1>6, <2>1 DEF Places
  <2>4. Done(p)' <=> IF IsCallback(p) THEN Place(p) <= n ELSE p < Frontier
    BY <1>1, <1>2, <1>3, <1>5, <2>1, DoneAfter
  <2> QED BY <2>2, <2>3, <2>4
<1>18. Unwritten'
  BY DEF RunCallbacks, Unwritten, Idle
<1> QED BY <1>16, <1>17, <1>18 DEF StoreInv

-----------------------------------------------------------------------------
(* What synchronous transactions write.                                     *)

\* They leave the queue and what is executed of it alone.
LEMMA OwnLeavesQueue ==
    ASSUME StoreInv, WholeInv', OwnStep
    PROVE  /\ UNCHANGED <<calls, ran>> /\ Frontier' = Frontier /\ CallsKept /\ StrictLast'
           /\ \A p \in 1..Len(Queue) : Done(p)' <=> Done(p)
           /\ js.call \in DOMAIN calls /\ calls[js.call] \in SyncKinds
<1>1. CleanInv /\ CleanInv' /\ Positions /\ AtValue
  BY DEF StoreInv, WholeInv
<1>2. WorkersAt /\ UNCHANGED <<calls, mark, start, current, ran>>
  BY <1>1, OwnStepStays
<1>3. Frontier' = Frontier /\ Queue' = Queue /\ CallsKept
  BY <1>1, <1>2, PlaceStays, CallsStay
<1>4. ASSUME NEW p \in 1..Len(Queue)
      PROVE  Done(p)' <=> Done(p)
  <2>1. Done(p)' <=> IF IsCallback(p) THEN Place(p) <= ran ELSE p < Frontier
    BY <1>1, <1>2, <1>3, DoneAfter
  <2>2. Done(p) <=> IF IsCallback(p) THEN Place(p) <= ran ELSE p < Frontier
    BY DoneIs DEF StoreInv
  <2> QED BY <2>1, <2>2
<1>5. \A p \in 1..Frontier - 1 : p \in 1..Len(Queue)
  BY <1>1, QueueIsOrdered DEF Positions, QueueOrder
<1>6. \A w \in Workers : AtStrict(w) => AtStrict(w)'
  BY <1>2 DEF WorkersAt, AtStrict
<1>7. Workers' = Workers
  BY <1>2 DEF WorkersAt
<1>8. StrictLast'
  <2> SUFFICES ASSUME NEW p \in 1..Frontier - 1, calls[Queue[p]] = "strict", ~Done(p)'
               PROVE  p = Frontier - 1 /\ \E w \in Workers : AtStrict(w)'
    BY <1>2, <1>3, <1>7 DEF StrictLast
  <2>1. ~Done(p)
    <3>1. p \in 1..Len(Queue)
      BY <1>5, Zenon
    <3> QED BY <1>4, <3>1
  <2>2. p = Frontier - 1 /\ \E w \in Workers : AtStrict(w)
    BY <2>1 DEF StoreInv, StrictLast
  <2> QED BY <1>6, <2>2
<1>9. js.call \in DOMAIN calls /\ calls[js.call] \in SyncKinds
  <2>1. js.pc \in {"begin", "join", "own", "nested", "finish"}
    BY DEF OwnStep, BeginOwn, Join, WriteOwn, Nested, Finish
  <2> QED BY <1>1, <2>1 DEF CleanInv, ExchangeInv, InCall, Kind
<1> QED BY <1>2, <1>3, <1>4, <1>8, <1>9

LEMMA SyncAdds ==
    ASSUME StoreInv, WholeInv', OwnStep, NEW c, c = js.call, NEW e \in {c, -c},
           ~Has(Flat, e), Flat' = Flat \o <<e>>
    PROVE  Contents' /\ \A x : Has(Flat', x) <=> Has(Flat, x) \/ x = e
<1>1. /\ UNCHANGED <<calls, ran>> /\ \A p \in 1..Len(Queue) : Done(p)' <=> Done(p)
      /\ c \in DOMAIN calls /\ calls[c] \in SyncKinds
  BY OwnLeavesQueue
<1>2. CleanInv /\ WholeLists
  BY DEF StoreInv, WholeInv
<1>3. QueueOrder
  BY <1>2, QueueIsOrdered
<1> PICK f, add : f = Flat /\ add = <<e>>
  OBVIOUS
<1>4. /\ IsList(add) /\ NoRepeats(add) /\ \A x : Has(add, x) <=> x = e
      /\ KeepsOrder(QueuedCalls, FirmCalls, add)
  BY OneHas
<1>5. Apart(Flat, add)
  BY <1>4 DEF Apart
<1>6. e \notin FirmCalls /\ \A p \in 1..Len(Queue) : Queue[p] # e
  <2>1. calls[c] \notin QueuedKinds
    BY <1>1 DEF SyncKinds, QueuedKinds
  <2>2. c \in Nat \ {0}
    BY <1>1, <1>3 DEF QueueOrder
  <2>3. CASE e = c
    BY <1>3, <2>1, <2>3 DEF FirmCalls, QueuedKinds, QueueOrder
  <2>4. CASE e = -c
    BY <1>3, <2>2, <2>4 DEF FirmCalls, QueueOrder
  <2> QED BY <2>3, <2>4
<1>7. Precede(QueuedCalls, FirmCalls, Flat, add)
  BY <1>4, <1>6 DEF Precede
<1>8. \A x : Has(add, x) => CallOf(x)
  BY <1>1, <1>4 DEF CallOf
<1>9. Adds(add)
  BY <1>1, <1>4, <1>5, <1>6, <1>7, <1>8 DEF Adds
<1>10. Contents'
  BY <1>1, <1>9, ContentsGrow
<1>11. \A x : Has(Flat', x) <=> Has(Flat, x) \/ x = e
  <2>1. IsList(f)
    BY <1>2, FlatParts
  <2>2. HasEither(f, add, f \o add)
    BY <1>4, <2>1, ConcatHas
  <2>3. Flat' = f \o add
    OBVIOUS
  <2>4. \A x : Has(Flat', x) <=> Has(f, x) \/ Has(add, x)
    BY <2>2, <2>3 DEF HasEither
  <2> QED BY <1>4, <2>4
<1> QED BY <1>10, <1>11

\* The writes of a synchronous call are not those of the queue.
LEMMA OwnHas ==
    ASSUME NEW kind, NEW n, NEW own, own = <<>> \/ own = Own("finish", kind, n), NEW e, Has(own, e)
    PROVE  e = n \/ e = -n
<1>1. own \in {<<>>, <<n>>, <<n, -n>>}
  <2>1. Own("finish", kind, n) = IF kind \in {"nestAbort", "putSync"} THEN <<n>> ELSE <<n, -n>>
    BY OwnIs
  <2> QED BY <2>1
<1>2. PICK i \in 1..Len(own) : own[i] = e
  BY DEF Has
<1>3. CASE own = <<>>
  BY <1>2, <1>3
<1>4. CASE own = <<n>>
  <2>1. Len(own) = 1 /\ own[1] = n
    BY <1>4
  <2> QED BY <1>2, <2>1
<1>5. CASE own = <<n, -n>>
  <2>1. Len(own) = 2 /\ own[1] = n /\ own[2] = -n
    BY <1>5
  <2>2. i \in {1, 2}
    BY <1>2, <2>1
  <2> QED BY <1>2, <2>1, <2>2
<1> QED BY <1>1, <1>3, <1>4, <1>5

LEMMA StoreOfOwn ==
    ASSUME StoreInv, WholeInv', OwnStep
    PROVE  StoreInv'
<1>1. CleanInv /\ CleanInv' /\ WholeLists /\ JSContents
  BY DEF StoreInv, WholeInv
<1>2. /\ UNCHANGED <<calls, ran>> /\ Frontier' = Frontier /\ CallsKept /\ StrictLast'
      /\ \A p \in 1..Len(Queue) : Done(p)' <=> Done(p)
      /\ js.call \in DOMAIN calls /\ calls[js.call] \in SyncKinds
  BY OwnLeavesQueue
<1>3. ~Finish => js'.call = js.call
  BY <1>1, OwnStepStays
<1>4. QueueOrder
  BY <1>1, QueueIsOrdered
<1> PICK c : c = js.call
  OBVIOUS
<1>5. c \in Nat \ {0} /\ c # -c
  BY <1>2, <1>4 DEF QueueOrder
<1>6. CASE BeginOwn \/ Join
  <2>1. Flat' = Flat
    BY <1>1, <1>6, FlatOfBegin
  <2>2. Contents'
    BY <1>2, <2>1, ContentsKept
  <2>3. js.pc \in {"begin", "join"} /\ js'.pc = "own" /\ js'.call = c
    BY <1>1, <1>3, <1>6, BeginMoves DEF BeginOwn, Join, Finish
  <2>4. Unwritten'
    BY <2>1, <2>3 DEF Unwritten, StoreInv
  <2> QED BY <1>2, <2>2, <2>4 DEF StoreInv
<1>7. CASE WriteOwn
  <2>1. js.pc = "own" /\ js'.pc \in {"finish", "nested"} /\ js'.call = c
    BY <1>1, <1>3, <1>7, WriteOwnMoves DEF WriteOwn, Finish
  <2>2. ~Has(Flat, c) /\ ~Has(Flat, -c)
    BY <2>1 DEF Unwritten, StoreInv
  <2>3. Flat' = Flat \o <<c>>
    BY <1>1, <1>7, FlatOfWriteOwn
  <2>4. Contents' /\ \A x : Has(Flat', x) <=> Has(Flat, x) \/ x = c
    <3> PICK e : e = c
      OBVIOUS
    <3>1. e \in {c, -c} /\ ~Has(Flat, e) /\ Flat' = Flat \o <<e>>
      BY <2>2, <2>3
    <3>2. Contents' /\ \A x : Has(Flat', x) <=> Has(Flat, x) \/ x = e
      BY <3>1, SyncAdds
    <3> QED BY <3>2
  <2>5. Unwritten'
    BY <1>5, <2>1, <2>2, <2>4 DEF Unwritten
  <2> QED BY <1>2, <2>4, <2>5 DEF StoreInv
<1>8. CASE Nested
  <2>1. js.pc = "nested" /\ js'.pc = "finish"
    BY <1>1, <1>8, NestedMoves
  <2>2. Contents'
    <3>1. Flat' = Flat \o <<-c>> \/ Flat' = Flat
      BY <1>1, <1>8, FlatOfNested
    <3>2. ASSUME Flat' = Flat \o <<-c>>
          PROVE  Contents'
      <4>1. ~Has(Flat, -c)
        BY <2>1 DEF Unwritten, StoreInv
      <4> PICK e : e = -c
        OBVIOUS
      <4>2. e \in {c, -c} /\ ~Has(Flat, e) /\ Flat' = Flat \o <<e>>
        BY <3>2, <4>1
      <4> QED BY <4>2, SyncAdds
    <3> QED BY <1>2, <3>1, <3>2, ContentsKept
  <2>3. Unwritten'
    BY <2>1 DEF Unwritten
  <2> QED BY <1>2, <2>2, <2>3 DEF StoreInv
<1>9. CASE Finish
  <2>1. js'.pc = "idle"
    BY <1>1, <1>9, FinishMoves
  <2>2. PICK own : /\ IsList(own) /\ Flat = Flat' \o own
                   /\ own = <<>> \/ own = Own("finish", Kind, c)
    BY <1>1, <1>9, FlatOfFinish
  <2>3. \A p \in 1..Len(Queue) : ~Has(own, Queue[p])
    <3> SUFFICES ASSUME NEW p \in 1..Len(Queue), Has(own, Queue[p])
                 PROVE  FALSE
      OBVIOUS
    <3>1. Queue[p] = c \/ Queue[p] = -c
      <4> PICK e, kind : e = Queue[p] /\ kind = Kind
        OBVIOUS
      <4>1. e = c \/ e = -c
        BY <2>2, OwnHas
      <4> QED BY <4>1
    <3>2. Queue[p] \in Nat /\ calls[Queue[p]] \in QueuedKinds
      BY <1>4 DEF QueueOrder
    <3> QED BY <1>2, <1>5, <3>1, <3>2 DEF QueuedKinds, SyncKinds
  <2>4. IsList(Flat')
    <3>1. WholeLists'
      BY DEF WholeInv
    <3>2. FlatIsList'
      BY <1>1, <3>1, FlatHasList, PTL
    <3> QED BY <3>2 DEF FlatIsList
  <2>5. Contents'
    BY <1>2, <2>2, <2>3, <2>4, ContentsShrink
  <2>6. Unwritten'
    BY <2>1 DEF Unwritten
  <2> QED BY <1>2, <2>5, <2>6 DEF StoreInv
<1> QED BY <1>6, <1>7, <1>8, <1>9 DEF OwnStep

-----------------------------------------------------------------------------
(* What is stored, in every program that is not Entangled.                  *)

LEMMA StoreOfNothing ==
    ASSUME StoreInv, WholeInv',
           UNCHANGED <<calls, mark, start, current, ran, worker, js, mdbx, log>>
    PROVE  StoreInv'
<1>1. CleanInv /\ Positions /\ AtValue
  BY DEF StoreInv, WholeInv
<1>2. WorkersAt /\ Workers' = Workers
  BY DEF WorkersAt, Workers
<1>3. Frontier' = Frontier /\ Queue' = Queue /\ CallsKept
  BY <1>1, <1>2, PlaceStays, CallsStay
<1>4. Flat' = Flat
  BY FlatStays
<1>5. Contents'
  BY <1>3, <1>4, ContentsKept
<1>6. \A p : Done(p)' <=> Done(p)
  BY <1>3, SameQueue DEF Done, CallbacksUpTo
<1>7. StrictLast'
  BY <1>2, <1>3, <1>6 DEF StoreInv, StrictLast, AtStrict
<1>8. Unwritten'
  BY <1>4 DEF StoreInv, Unwritten
<1> QED BY <1>5, <1>7, <1>8 DEF StoreInv

LEMMA StoreStep ==
    ASSUME \A p \in Programs : ~Entangled(p), StoreInv, [Next]_vars
    PROVE  StoreInv'
<1>1. WholeInv'
  BY WholeStep DEF StoreInv
<1>2. ASSUME NEW n \in DOMAIN slot, CompressionStep(n)
      PROVE  UNCHANGED <<calls, mark, start, current, ran, worker, js, mdbx, log>>
  BY <1>2 DEF CompressionStep, TakeSlot, CompressValue, PublishSlot, SignalWriter, compressorOnly,
              jsVars, dbVars
<1>3. UNCHANGED vars => UNCHANGED <<calls, mark, start, current, ran, worker, js, mdbx, log>>
  BY DEF vars
<1>4. \/ QuietStep \/ (\E w \in Workers : WorkerStep(w)) \/ RunCallbacks \/ OwnStep
      \/ (\E n \in DOMAIN slot : CompressionStep(n)) \/ UNCHANGED vars
  BY Zenon DEF Next, EventLoop, SyncStep, QuietStep, OwnStep, Quiescent
<1> QED BY <1>1, <1>2, <1>3, <1>4, StoreOfQuiet, StoreOfWorkers, StoreOfCallbacks, StoreOfOwn,
           StoreOfNothing

LEMMA InitiallyStored == Init => StoreInv
<1> SUFFICES ASSUME Init PROVE StoreInv
  OBVIOUS
<1>1. WholeInv
  BY InitiallyWhole
<1>2. CleanInv /\ calls = <<>> /\ mark = "delimiter" /\ js = Idle /\ mdbx.frames = <<>> /\ log = <<>>
  BY <1>1 DEF Init, WholeInv
<1>3. QueueOrder /\ Len(Queue) = 0
  <2>1. QueueOrder
    BY <1>2, QueueIsOrdered
  <2>2. Len(calls) = 0
    BY <1>2
  <2> QED BY <2>1, <2>2 DEF QueueOrder
<1>4. Frontier = 1
  BY <1>2, <1>3 DEF Frontier
<1>5. Flat = <<>>
  <2>1. Flat = <<>> \o <<>>
    BY <1>2, FlattenNone DEF Flat
  <2> QED BY <2>1
<1>6. Contents
  <2> PICK none, early, late : none = <<>> /\ early = QueuedCalls /\ late = FirmCalls
    OBVIOUS
  <2>1. NoRepeats(none) /\ (\A e : ~Has(none, e)) /\ KeepsOrder(early, late, none)
    BY NoneHas
  <2> QED BY <1>3, <1>5, <2>1 DEF Contents
<1>7. StrictLast
  BY <1>4 DEF StrictLast
<1>8. Unwritten
  BY <1>2 DEF Unwritten, Idle
<1> QED BY <1>1, <1>6, <1>7, <1>8 DEF StoreInv

\* The parts of ContentsInv this establishes.
LEMMA StoredIs ==
    ASSUME StoreInv
    PROVE  /\ \A n : IsStored(n) <=> Has(Flat, n)
           /\ NotYet /\ Exactly /\ Distinct /\ Ordered
<1>1. CleanInv /\ WholeLists
  BY DEF StoreInv, WholeInv
<1>2. DOMAIN Flat = 1..Len(Flat) /\ DOMAIN Queue = 1..Len(Queue)
  BY <1>1, FlatParts, QueueIs DEF IsList
<1>3. \A n : IsStored(n) <=> Has(Flat, n)
  BY <1>2 DEF IsStored, Has
<1>4. NotYet
  BY <1>3 DEF NotYet, StoreInv, Unwritten
<1>5. Exactly
  BY <1>2, <1>3 DEF Exactly, StoreInv, Contents, StoredKinds
<1>6. Distinct
  BY <1>2 DEF Distinct, StoreInv, Contents, NoRepeats
<1>7. Ordered
  BY <1>2 DEF Ordered, StoreInv, Contents, KeepsOrder, QueuedCalls, FirmCalls
<1> QED BY <1>3, <1>4, <1>5, <1>6, <1>7

LEMMA OnceOfStored == StoreInv => StoredOnce
<1> SUFFICES ASSUME StoreInv PROVE StoredOnce
  OBVIOUS
<1>1. Distinct /\ CleanInv /\ WholeLists
  BY StoredIs DEF StoreInv, WholeInv
<1>2. DOMAIN calls = 1..Len(calls) /\ Len(calls) \in Nat
  BY <1>1, QueueIsOrdered DEF QueueOrder
<1>3. DOMAIN log = 1..Len(log)
  BY <1>1 DEF WholeLists, IsList
<1>4. ASSUME NEW t \in DOMAIN log, NEW e \in Range(log[t])
      PROVE  Lasting(e)
  <2> PICK s : s = log[t]
    OBVIOUS
  <2>1. Whole(s)
    BY <1>1, <1>3 DEF WholeLists, WholeList
  <2>2. PICK i \in DOMAIN s : e = s[i]
    BY DEF Range
  <2> QED BY <2>1, <2>2 DEF Whole
<1>5. ASSUME NEW n \in DOMAIN calls
      PROVE  /\ Lasting(n) => calls[n] \notin {"cbAbort", "syncAbort"}
             /\ Lasting(-n) => calls[n] = "sync"
  <2>1. n \in Nat \ {0} /\ \A c \in DOMAIN calls : c \in Nat \ {0}
    BY <1>2
  <2>2. \A c \in DOMAIN calls : /\ n # -c /\ (-n = -c => n = c) /\ -n # c
    BY <2>1
  <2> QED BY <2>2 DEF Lasting
<1>6. ASSUME NEW t \in DOMAIN log, NEW n \in DOMAIN calls
      PROVE  /\ calls[n] = "cbAbort" => n \notin Range(log[t])
             /\ calls[n] = "syncAbort" => {n, -n} \cap Range(log[t]) = {}
             /\ calls[n] = "nestAbort" => -n \notin Range(log[t])
  BY <1>4, <1>5
<1> QED BY <1>1, <1>6 DEF StoredOnce, Distinct

LEMMA KeptOfStored == StoreInv => OrderIsKept
<1> SUFFICES ASSUME StoreInv, NEW a \in DOMAIN Queue, NEW b \in DOMAIN Queue, a < b,
                    IsStored(Queue[b]), calls[Queue[a]] \in {"put", "zput", "strict"}
             PROVE  IsStored(Queue[a]) /\ IndexOf(Queue[a]) < IndexOf(Queue[b])
  BY DEF OrderIsKept
<1>1. Exactly /\ Distinct /\ Ordered /\ CleanInv /\ WholeLists /\ Positions
  BY StoredIs DEF StoreInv, WholeInv
<1>2. QueueOrder /\ DOMAIN Queue = 1..Len(Queue) /\ DOMAIN Flat = 1..Len(Flat)
  BY <1>1, QueueIsOrdered, QueueIs, FlatParts DEF IsList
<1>3. Done(b) /\ b < Frontier
  <2>1. Done(b)
    BY <1>1 DEF Exactly
  <2>2. b \in 1..Len(Queue) /\ WholeInv
    BY <1>2 DEF StoreInv
  <2> QED BY <2>1, <2>2, DoneIs
<1>4. a \in Nat /\ b \in Nat /\ Frontier \in Nat
  <2>1. b \in 1..Len(Queue) /\ WholeInv
    BY <1>2 DEF StoreInv
  <2>2. Frontier \in Nat
    BY <2>1, DoneIs
  <2> QED BY <1>2, <2>2
<1>5. Done(a)
  <2>1. CASE calls[Queue[a]] = "strict"
    <3> SUFFICES ASSUME ~Done(a) PROVE FALSE
      OBVIOUS
    <3>1. a \in 1..Frontier - 1
      BY <1>2, <1>3, <1>4
    <3>2. a = Frontier - 1
      BY <2>1, <3>1 DEF StoreInv, StrictLast
    <3> QED BY <1>3, <1>4, <3>2
  <2>2. CASE calls[Queue[a]] # "strict"
    <3>1. a < Frontier
      BY <1>3, <1>4
    <3> QED BY <2>2, <3>1 DEF Done, CallbackKinds
  <2> QED BY <2>1, <2>2
<1>6. IsStored(Queue[a])
  BY <1>1, <1>5 DEF Exactly
<1> PICK m, n : m = Queue[a] /\ n = Queue[b]
  OBVIOUS
<1>7. m < n /\ m \in Nat /\ n \in Nat /\ m \in DOMAIN calls /\ n \in DOMAIN calls
      /\ calls[n] \in QueuedKinds
  BY <1>2 DEF QueueOrder
<1> PICK i, j : i = IndexOf(m) /\ j = IndexOf(n)
  OBVIOUS
<1>8. i \in DOMAIN Flat /\ Flat[i] = m /\ j \in DOMAIN Flat /\ Flat[j] = n
  BY <1>6, Zenon DEF IsStored, IndexOf
<1>9. ~(j < i)
  <2> SUFFICES ASSUME j < i PROVE FALSE
    OBVIOUS
  <2>1. n < m
    BY <1>1, <1>7, <1>8 DEF Ordered
  <2> QED BY <1>7, <2>1
<1>10. i # j
  BY <1>7, <1>8
<1>11. i \in Nat /\ j \in Nat
  BY <1>2, <1>8
<1> QED BY <1>6, <1>9, <1>10, <1>11

\* What is written once is stored once, and nothing of an aborted transaction
\* is committed, whether DoWrites, a callback or a synchronous transaction
\* wrote it, and however interruptions and joins split the transactions.
THEOREM WritesOnce ==
    ASSUME \A p \in Programs : ~Entangled(p)
    PROVE  Spec => []StoredOnce
<1>1. StoreInv /\ [Next]_vars => StoreInv'
  BY StoreStep
<1> QED BY <1>1, InitiallyStored, OnceOfStored, PTL DEF Spec

\* Writes and strict callbacks take effect in the order of the calls, and a
\* callback after the writes called before it, with whatever JavaScript does
\* in between.
THEOREM OrderKept ==
    ASSUME \A p \in Programs : ~Entangled(p)
    PROVE  Spec => []OrderIsKept
<1>1. StoreInv /\ [Next]_vars => StoreInv'
  BY StoreStep
<1> QED BY <1>1, InitiallyStored, KeptOfStored, PTL DEF Spec

-----------------------------------------------------------------------------
(* Who compresses a value.                                                  *)

SlotsAll == \A p \in 1..Len(Queue) : calls[Queue[p]] = "zput" => Fits(p)

LEMMA SlotsAre ==
    ASSUME CleanInv
    PROVE  Slots <=> SlotsAll
<1>1. DOMAIN Queue = 1..Len(Queue)
  BY QueueIs DEF IsList
<1> QED BY <1>1 DEF Slots, SlotsAll

LEMMA SlotsWillBe ==
    ASSUME CleanInv', SlotsAll'
    PROVE  Slots'
BY SlotsAre, PTL

LEMMA SlotIs ==
    ASSUME CleanInv, NEW p \in 1..Len(Queue)
    PROVE  /\ Queue[p] \in DOMAIN slot
           /\ SlotOf(p) = [f \in {"status", "copies", "pc"} |-> SlotOf(p)[f]]
<1>1. DOMAIN slot = DOMAIN calls
  BY DEF CleanInv, Records, SlotRecords, IsList, ExchangeInv, Compressions
<1>2. Queue[p] \in DOMAIN slot
  BY <1>1, QueueIs
<1> QED BY <1>2 DEF CleanInv, Records, SlotRecords, SlotOf

\* A worker looks at the instruction that is next, and no other worker looks.
LEMMA LookingIs ==
    ASSUME CleanInv, NEW w \in Workers, Active(w), NEW pcs \in SUBSET ValuePcs
    PROVE  Looking(pcs) <=> worker[w].pc \in pcs
<1>1. ASSUME NEW v \in Workers, worker[v].pc \in pcs PROVE v = w
  <2>1. Active(v)
    BY <1>1 DEF Active, ValuePcs
  <2> QED BY <2>1 DEF CleanInv, ExchangeInv, OneWorker
<1> QED BY <1>1 DEF Looking

LookedAt == {{"compress"}, {"compress", "zwait"}}

\* What fits goes on fitting when nothing happens to it.
LEMMA FitsOn ==
    ASSUME CleanInv, CallsKept, NEW p \in 1..Len(Queue), Fits(p),
           slot'[Queue[p]] = slot[Queue[p]], Frontier' = Frontier,
           p = Frontier => \A pcs \in LookedAt : Looking(pcs)' <=> Looking(pcs)
    PROVE  Fits(p)'
<1>1. SlotOf(p)' = SlotOf(p)
  BY DEF SlotOf, CallsKept
<1> PICK s, f : s = SlotOf(p) /\ f = Frontier
  OBVIOUS
<1>2. /\ Coherent(s)
      /\ p > f => Untouched(s)
      /\ p = f /\ ~Looking({"compress", "zwait"}) => Untouched(s)
      /\ p = f /\ Looking({"compress"}) => Claimed(s)
      /\ p < f => s.copies = 1
  BY DEF Fits
<1>3. SlotOf(p)' = s /\ Frontier' = f
  BY <1>1
<1>4. /\ p = f => (Looking({"compress"})' <=> Looking({"compress"}))
      /\ p = f => (Looking({"compress", "zwait"})' <=> Looking({"compress", "zwait"}))
  BY DEF LookedAt
<1>5. /\ Coherent(s)
      /\ p > f => Untouched(s)
      /\ p = f /\ ~Looking({"compress", "zwait"})' => Untouched(s)
      /\ p = f /\ Looking({"compress"})' => Claimed(s)
      /\ p < f => s.copies = 1
  BY <1>2, <1>4
<1> QED BY <1>3, <1>5 DEF Fits, Coherent, Untouched, Claimed

\* The worker's position afterwards.
PutsOn(w) ==
    /\ worker'[w].at = worker[w].at + 1 /\ worker'[w].pc = "run"

LEMMA PutIs ==
    ASSUME CleanInv, NEW w \in Workers, PutStep(w)
    PROVE  PutsOn(w)
<1> PICK o : o = worker[w]
  OBVIOUS
<1>1. IsWorker(o) /\ w \in DOMAIN worker /\ Shapes
  BY DEF CleanInv, HandoffInv, Shapes, Workers
<1> DEFINE r == [o EXCEPT !.at = @ + 1, !.pc = "run"]
<1>2. r.at = o.at + 1 /\ r.pc = "run"
  BY <1>1 DEF IsWorker, Fields
<1>3. worker' = [worker EXCEPT ![w] = r]
  BY <1>1 DEF PutStep
<1> HIDE DEF r
<1>4. worker'[w] = r
  BY <1>1, <1>3, OneWorkerChanges
<1> QED BY <1>2, <1>4 DEF PutsOn

\* A compression worker may be at the slot of a value that was put.
LEMMA PutSlots ==
    ASSUME WholeInv, WholeInv', SlotsAll, NEW w \in Workers, WorkerStep(w), MovesOn(w),
           worker'[w].pc \notin ValuePcs,
           \A p \in 1..Len(Queue) : p # Frontier => slot'[Queue[p]] = slot[Queue[p]],
           Frontier \in 1..Len(Queue) /\ calls[Queue[Frontier]] = "zput" =>
              Coherent(slot'[Queue[Frontier]]) /\ slot'[Queue[Frontier]].copies = 1
    PROVE  SlotsAll'
<1>1. CleanInv /\ CleanInv' /\ Positions /\ AtValue
  BY DEF WholeInv
<1>2. /\ Active(w) /\ Active(w)' /\ Frontier = worker[w].at
      /\ Frontier' = Frontier + 1 /\ Frontier <= Len(Queue)
  BY <1>1, FrontierOfWorkers
<1>3. SameBut(w) /\ UNCHANGED jsVars
  BY <1>1, WorkerMoves
<1>4. calls' = calls /\ Queue' = Queue
  BY <1>3, SameQueue DEF jsVars
<1> PICK f, m : f = Frontier /\ m = Len(Queue)
  OBVIOUS
<1>5. f \in 1..m /\ m \in Nat /\ Frontier' = f + 1
  BY <1>1, <1>2, QueueIs DEF Positions
<1>6. ~Looking({"compress"})' /\ ~Looking({"compress", "zwait"})'
  <2>1. ASSUME NEW v \in Workers' PROVE worker'[v].pc \notin {"compress", "zwait"}
    <3>1. CASE v = w
      BY <3>1 DEF ValuePcs
    <3>2. CASE v # w
      <4>1. v \in Workers /\ w \in Workers'
        BY <1>3 DEF SameBut
      <4>2. ~Active(v)'
        BY <1>1, <1>2, <3>2, <4>1 DEF CleanInv, ExchangeInv, OneWorker
      <4> QED BY <4>2 DEF Active
    <3> QED BY <3>1, <3>2
  <2> QED BY <2>1 DEF Looking
<1>7. ASSUME NEW p \in 1..m, calls[Queue[p]] = "zput"
      PROVE  Fits(p)'
  <2>1. Fits(p)
    BY <1>7 DEF SlotsAll
  <2> PICK s : s = SlotOf(p)'
    OBVIOUS
  <2>2. p # f => s = SlotOf(p)
    BY <1>4, <1>7 DEF SlotOf
  <2>3. CASE p > f
    <3>1. Coherent(s) /\ Untouched(s)
      BY <1>5, <2>1, <2>2, <2>3 DEF Fits
    <3>2. ~(p < f + 1)
      BY <1>5, <2>3
    <3> QED BY <1>5, <1>6, <3>1, <3>2 DEF Fits, Coherent, Untouched
  <2>4. CASE p < f
    <3>1. Coherent(s) /\ s.copies = 1
      BY <1>5, <2>1, <2>2, <2>4 DEF Fits
    <3>2. ~(p > f + 1) /\ p # f + 1
      BY <1>5, <2>4
    <3> QED BY <1>5, <3>1, <3>2 DEF Fits, Coherent
  <2>5. CASE p = f
    <3>1. Coherent(s) /\ s.copies = 1
      BY <1>4, <1>7, <2>5 DEF SlotOf
    <3>2. ~(p > f + 1) /\ p # f + 1
      BY <1>5, <2>5
    <3> QED BY <1>5, <3>1, <3>2 DEF Fits, Coherent
  <2>6. p > f \/ p < f \/ p = f
    BY <1>5
  <2> QED BY <2>3, <2>4, <2>5, <2>6
<1> QED BY <1>4, <1>7 DEF SlotsAll

\* The others leave the slots alone.
SlotlessStep(w) ==
    \/ Lock(w) \/ Begin(w) \/ PutRaw(w) \/ Strict(w) \/ MarkWaiting(w) \/ MarkDelimiter(w)
    \/ WaitAgain(w) \/ Resume(w) \/ Interrupt(w) \/ Commit(w)
    \/ CompressionWait(w) /\ worker' = worker

LEMMA SlotlessIs ==
    ASSUME CleanInv, NEW w \in Workers, SlotlessStep(w)
    PROVE  /\ worker'[w].at = worker[w].at /\ slot' = slot
           /\ \/ worker'[w].pc = worker[w].pc
              \/ {worker[w].pc, worker'[w].pc} \cap {"compress", "zwait"} = {}
<1> PICK o : o = worker[w]
  OBVIOUS
<1>1. IsWorker(o) /\ w \in DOMAIN worker /\ Shapes /\ o.resume \in {"run", "strict"}
  BY DEF CleanInv, HandoffInv, Shapes, Workers, IsWorker
<1>2. slot' = slot
  BY DEF SlotlessStep, Lock, Begin, PutRaw, Strict, MarkWaiting, MarkDelimiter, WaitAgain,
         Resume, Interrupt, Commit, CompressionWait, workerOnly
<1>3. ASSUME NEW r, worker' = [worker EXCEPT ![w] = r], r.at = o.at,
             {o.pc, r.pc} \cap {"compress", "zwait"} = {}
      PROVE  /\ worker'[w].at = worker[w].at
             /\ {worker[w].pc, worker'[w].pc} \cap {"compress", "zwait"} = {}
  <2>1. worker'[w] = r
    BY <1>1, <1>3, OneWorkerChanges
  <2> QED BY <1>3, <2>1
<1>4. CASE worker' = worker
  BY <1>2, <1>4
<1>6. CASE Lock(w) \/ PutRaw(w) \/ MarkDelimiter(w) \/ (Strict(w) /\ worker[w].finished)
  <2>1. PICK pc : /\ pc \in {"begin", "exchange", "commit", "run"}
                  /\ worker' = [worker EXCEPT ![w].pc = pc]
                  /\ o.pc \notin {"compress", "zwait"}
    BY <1>6 DEF Lock, PutRaw, MarkDelimiter, Strict, At
  <2> DEFINE r == [o EXCEPT !.pc = pc]
  <2>2. r.at = o.at /\ r.pc = pc
    BY <1>1 DEF IsWorker, Fields
  <2>3. worker' = [worker EXCEPT ![w] = r]
    BY <1>1, <2>1
  <2> HIDE DEF r
  <2> QED BY <1>2, <1>3, <2>1, <2>2, <2>3
<1>7. CASE Begin(w) \/ Resume(w) \/ Interrupt(w) \/ Commit(w)
           \/ MarkWaiting(w) \/ (Strict(w) /\ ~worker[w].finished)
  <2>1. PICK r : /\ worker' = [worker EXCEPT ![w] = r] /\ r.at = o.at
                 /\ r.pc \notin {"compress", "zwait"} /\ o.pc \notin {"compress", "zwait"}
    <3> DEFINE begun == [o EXCEPT !.pc = o.resume, !.txn = mdbx'.id, !.status = "none"]
               resumed == [o EXCEPT !.pc = Resumed(w), !.status = "none"]
               paused == [o EXCEPT !.pc = "paused", !.txn = 0, !.status = "RESTART_WORKER_TXN",
                                   !.resume = Resumed(w)]
               committed == [o EXCEPT !.pc = "done", !.txn = 0]
               status == IF o.depth = 0 THEN "ALLOW_COMMIT" ELSE "none"
               progress == o.progress \/ ~o.finished
               waiting(pc) == [o EXCEPT !.pc = pc, !.progress = progress, !.status = status]
    <3>1. Resumed(w) \in {"run", "strict"}
      BY DEF Resumed
    <3>2. /\ begun.at = o.at /\ begun.pc = o.resume
          /\ resumed.at = o.at /\ resumed.pc = Resumed(w)
          /\ paused.at = o.at /\ paused.pc = "paused"
          /\ committed.at = o.at /\ committed.pc = "done"
      BY <1>1 DEF IsWorker, Fields
    <3>3. \A pc : waiting(pc).at = o.at /\ waiting(pc).pc = pc
      BY <1>1 DEF IsWorker, Fields
    <3>4. Begin(w) => worker' = [worker EXCEPT ![w] = begun] /\ o.pc = "begin"
      BY <1>1 DEF Begin
    <3>5. Resume(w) => worker' = [worker EXCEPT ![w] = resumed] /\ o.pc \in {"wait", "strictWait"}
      BY <1>1 DEF Resume, Woken
    <3>6. Interrupt(w) => worker' = [worker EXCEPT ![w] = paused] /\ o.pc \in {"wait", "strictWait"}
      BY <1>1 DEF Interrupt, Woken
    <3>7. Commit(w) => worker' = [worker EXCEPT ![w] = committed] /\ o.pc = "commit"
      BY <1>1 DEF Commit
    <3>8. MarkWaiting(w) => worker' = [worker EXCEPT ![w] = waiting("wait")] /\ o.pc = "run"
      BY <1>1 DEF MarkWaiting, WaitForCallbacks, At
    <3>9. Strict(w) /\ ~worker[w].finished =>
             worker' = [worker EXCEPT ![w] = waiting("strictWait")] /\ o.pc = "strict"
      BY <1>1 DEF Strict, WaitForCallbacks
    <3> HIDE DEF begun, resumed, paused, committed, waiting
    <3> QED BY <1>1, <1>7, <3>1, <3>2, <3>3, <3>4, <3>5, <3>6, <3>7, <3>8, <3>9
  <2> QED BY <1>2, <1>3, <2>1
<1>8. WaitAgain(w) \/ (CompressionWait(w) /\ worker' = worker) => worker' = worker
  BY DEF WaitAgain
<1> QED BY <1>4, <1>6, <1>7, <1>8 DEF SlotlessStep

\* The exchange decides who compresses.
LEMMA ExchangeIs ==
    ASSUME CleanInv, NEW w \in Workers, Exchange(w), NEW s, s = slot[Queue[worker[w].at]]
    PROVE  /\ slot' = [slot EXCEPT ![Queue[worker[w].at]] = [s EXCEPT !.status = "1"]]
           /\ \/ s.status = "0" /\ PutStep(w)
              \/ /\ worker'[w].at = worker[w].at
                 /\ \/ s.status = "pointer" /\ worker'[w].pc = "compress"
                    \/ s.status = "2" /\ worker'[w].pc = "zwait"
<1> PICK o : o = worker[w]
  OBVIOUS
<1>1. IsWorker(o) /\ w \in DOMAIN worker /\ Shapes
  BY DEF CleanInv, HandoffInv, Shapes, Workers
<1>2. ASSUME NEW pc, worker' = [worker EXCEPT ![w].pc = pc]
      PROVE  worker'[w].at = worker[w].at /\ worker'[w].pc = pc
  <2> DEFINE r == [o EXCEPT !.pc = pc]
  <2>1. r.at = o.at /\ r.pc = pc
    BY <1>1 DEF IsWorker, Fields
  <2>2. worker' = [worker EXCEPT ![w] = r]
    BY <1>1, <1>2
  <2> HIDE DEF r
  <2>3. worker'[w] = r
    BY <1>1, <2>2, OneWorkerChanges
  <2> QED BY <2>1, <2>3
<1>3. slot' = [slot EXCEPT ![Queue[worker[w].at]] = [s EXCEPT !.status = "1"]]
  BY DEF Exchange
<1> QED BY <1>2, <1>3 DEF Exchange

\* A slot changes in one place.
LEMMA OneSlot ==
    ASSUME CleanInv, NEW p \in 1..Len(Queue), NEW s, slot' = [slot EXCEPT ![Queue[p]] = s]
    PROVE  /\ slot'[Queue[p]] = s
           /\ \A q \in 1..Len(Queue) : q # p => slot'[Queue[q]] = slot[Queue[q]]
<1>1. QueueOrder /\ Queue[p] \in DOMAIN slot
  BY SlotIs, QueueIsOrdered
<1>2. \A q \in 1..Len(Queue) : Queue[q] \in DOMAIN slot /\ (q # p => Queue[q] # Queue[p])
  BY <1>1, SlotIs DEF QueueOrder
<1> QED BY <1>1, <1>2

\* A worker that looks at a value has it before it.
LEMMA ValueIs ==
    ASSUME WholeInv, NEW w \in Workers, worker[w].pc \in ValuePcs \/ At(w, "zput")
    PROVE  /\ Active(w) /\ Frontier = worker[w].at /\ Frontier \in 1..Len(Queue)
           /\ calls[Queue[Frontier]] = "zput"
<1>1. CleanInv /\ Positions /\ AtValue
  BY DEF WholeInv
<1>2. Active(w) /\ Instruction(w) = "zput"
  BY <1>1 DEF Active, ValuePcs, AtValue, At
<1>3. worker[w].at \in Nat /\ Len(Queue) \in Nat /\ Frontier = worker[w].at
  BY <1>1, <1>2, QueueIs, FrontierOfActive DEF CleanInv, Records
<1>4. worker[w].at <= Len(Queue)
  BY <1>2, <1>3 DEF Instruction
<1> QED BY <1>1, <1>2, <1>3, <1>4, InstructionIs

LEMMA SlotsOfWorkers ==
    ASSUME WholeInv, WholeInv', SlotsAll, NEW w \in Workers, WorkerStep(w)
    PROVE  SlotsAll'
<1>1. CleanInv /\ CleanInv' /\ Positions /\ AtValue
  BY DEF WholeInv
<1>2. /\ SameBut(w) /\ UNCHANGED <<jsVars, current>>
      /\ Puts(w) \/ Passes(w) \/ CallsBack(w) \/ Stays(w)
  BY <1>1, WorkerMoves
<1>3. calls' = calls /\ Queue' = Queue /\ CallsKept
  BY <1>1, <1>2, SameQueue, CallsStay DEF jsVars
<1>4. worker[w].at \in Nat
  BY <1>1 DEF CleanInv, Records
<1>5. worker'[w].at = worker[w].at => Stays(w) /\ Frontier' = Frontier
  <2>1. Stays(w) => Frontier' = Frontier
    BY <1>1, FrontierOfWorkers
  <2> QED BY <1>2, <1>4, <2>1 DEF Puts, Passes, CallsBack, MovesOn
<1>6. worker'[w].at = worker[w].at + 1 => MovesOn(w)
  BY <1>2, <1>4 DEF Puts, Passes, CallsBack, Stays
<1> PICK f, m : f = Frontier /\ m = Len(Queue)
  OBVIOUS
<1>7. m \in Nat /\ f \in 1..m + 1
  BY <1>1, QueueIs DEF Positions
<1>8. CASE SlotlessStep(w)
  <2>1. /\ worker'[w].at = worker[w].at /\ slot' = slot
        /\ \/ worker'[w].pc = worker[w].pc
           \/ {worker[w].pc, worker'[w].pc} \cap {"compress", "zwait"} = {}
    BY <1>1, <1>8, SlotlessIs
  <2>2. \A pcs \in LookedAt : Looking(pcs)' <=> Looking(pcs)
    BY <1>2, <2>1 DEF Looking, LookedAt, SameBut
  <2>3. ASSUME NEW p \in 1..m, calls[Queue[p]] = "zput"
        PROVE  Fits(p)'
    <3>1. Fits(p)
      BY <2>3 DEF SlotsAll
    <3>2. slot'[Queue[p]] = slot[Queue[p]] /\ Frontier' = Frontier
      BY <1>5, <2>1
    <3> QED BY <1>1, <1>3, <2>2, <3>1, <3>2, FitsOn
  <2> QED BY <1>3, <2>3 DEF SlotsAll
<1>9. CASE StartBlock(w) \/ EndBlock(w) \/ UserCallback(w)
  <2>1. slot' = slot /\ worker[w].pc = "run" /\ Instruction(w) \notin {"put", "zput"}
    BY <1>9 DEF StartBlock, EndBlock, UserCallback, At, workerOnly, CallbackKinds
  <2>2. ~Stays(w) /\ MovesOn(w) /\ worker'[w].pc \notin ValuePcs
    <3> PICK o : o = worker[w]
      OBVIOUS
    <3>1. IsWorker(o) /\ w \in DOMAIN worker /\ Shapes
      BY <1>1 DEF CleanInv, HandoffInv, Shapes, Workers
    <3>2. worker'[w].at = worker[w].at + 1
      BY <1>9, <3>1 DEF StartBlock, EndBlock, UserCallback, IsWorker, Fields
    <3>3. ~Stays(w)
      BY <1>4, <3>2 DEF Stays
    <3> QED BY <1>2, <1>6, <2>1, <3>2, <3>3 DEF Puts, Passes, CallsBack, ValuePcs
  <2>3. f \in 1..m => calls[Queue[f]] # "zput"
    <3>1. /\ Active(w) /\ f = worker[w].at /\ f <= m
      BY <1>1, <2>2, FrontierOfWorkers
    <3>2. Instruction(w) = calls[Queue[f]]
      BY <1>1, <3>1, InstructionIs
    <3> QED BY <2>1, <3>2
  <2> QED BY <2>1, <2>2, <2>3, PutSlots
<1>10. ASSUME PutStep(w), f \in 1..m => /\ calls[Queue[f]] = "zput" => Coherent(slot'[Queue[f]])
                                        /\ calls[Queue[f]] = "zput" => slot'[Queue[f]].copies = 1,
              \A p \in 1..m : p # f => slot'[Queue[p]] = slot[Queue[p]]
       PROVE  SlotsAll'
  <2>1. MovesOn(w) /\ worker'[w].pc \notin ValuePcs
    BY <1>1, <1>6, <1>10, PutIs DEF PutsOn, ValuePcs
  <2> QED BY <1>10, <2>1, PutSlots
<1>11. ASSUME worker[w].pc \in ValuePcs \/ At(w, "zput")
       PROVE  /\ Active(w) /\ f = worker[w].at /\ f \in 1..m /\ calls[Queue[f]] = "zput"
              /\ Fits(f) /\ SlotOf(f) = [g \in {"status", "copies", "pc"} |-> SlotOf(f)[g]]
              /\ SlotOf(f) = slot[Queue[f]]
              /\ Looking({"compress", "zwait"}) <=> worker[w].pc \in {"compress", "zwait"}
              /\ Looking({"compress"}) <=> worker[w].pc \in {"compress"}
  <2>1. Active(w) /\ f = worker[w].at /\ f \in 1..m /\ calls[Queue[f]] = "zput"
    BY <1>11, ValueIs
  <2>2. {"compress", "zwait"} \in SUBSET ValuePcs /\ {"compress"} \in SUBSET ValuePcs
    BY DEF ValuePcs
  <2>3. Fits(f) /\ SlotOf(f) = slot[Queue[f]]
    BY <2>1 DEF SlotsAll, SlotOf
  <2> QED BY <1>1, <2>1, <2>2, <2>3, SlotIs, LookingIs
<1>12. CASE Put(w)
  <2>1. slot' = slot /\ PutStep(w) /\ worker[w].pc = "run"
    BY <1>12 DEF Put, workerOnly, At
  <2>2. CASE At(w, "zput")
    <3>1. slot[Queue[f]].copies > 0 /\ Fits(f) /\ SlotOf(f) = slot[Queue[f]]
      BY <1>11, <1>12, <2>2 DEF Put, At
    <3>2. Coherent(slot[Queue[f]]) /\ slot[Queue[f]].copies = 1
      BY <3>1 DEF Fits, Coherent
    <3> QED BY <1>10, <2>1, <3>2
  <2>3. CASE ~At(w, "zput")
    <3>1. Instruction(w) = "put" /\ MovesOn(w)
      BY <1>1, <1>6, <1>12, <2>1, <2>3, PutIs DEF Put, At, PutsOn
    <3>2. Instruction(w) = calls[Queue[f]]
      BY <1>1, <3>1, FrontierOfWorkers, InstructionIs
    <3> QED BY <1>10, <2>1, <3>1, <3>2
  <2> QED BY <2>2, <2>3
<1>13. CASE CompressionWait(w) /\ worker' # worker
  <2>1. /\ slot' = slot /\ PutStep(w) /\ worker[w].pc \in ValuePcs
        /\ slot[Queue[worker[w].at]].copies > 0
    BY <1>13 DEF CompressionWait, workerOnly, ValuePcs
  <2>2. Coherent(slot[Queue[f]]) /\ slot[Queue[f]].copies = 1
    BY <1>11, <2>1 DEF Fits, Coherent
  <2> QED BY <1>10, <2>1, <2>2
<1>14. CASE CompressSelf(w)
  <2>1. PutStep(w) /\ worker[w].pc = "compress" /\ worker[w].pc \in ValuePcs
    BY <1>14 DEF CompressSelf, ValuePcs
  <2> PICK s : s = SlotOf(f)
    OBVIOUS
  <2>2. /\ f \in 1..m /\ Claimed(s) /\ s = [g \in {"status", "copies", "pc"} |-> s[g]]
        /\ f = worker[w].at /\ s = slot[Queue[f]]
    BY <1>11, <2>1 DEF Fits
  <2> DEFINE t == [s EXCEPT !.status = "0", !.copies = @ + 1]
  <2>3. slot' = [slot EXCEPT ![Queue[f]] = t]
    BY <1>14, <2>2 DEF CompressSelf
  <2>4. Coherent(t) /\ t.copies = 1
    BY <2>2 DEF Coherent, Claimed
  <2> HIDE DEF t
  <2> QED BY <1>1, <1>10, <2>1, <2>2, <2>3, <2>4, OneSlot
<1>15. CASE Exchange(w)
  <2>1. worker[w].pc = "exchange" /\ worker[w].pc \in ValuePcs
    BY <1>15 DEF Exchange, ValuePcs
  <2> PICK s : s = SlotOf(f)
    OBVIOUS
  <2>2. /\ f \in 1..m /\ Coherent(s) /\ Untouched(s)
        /\ s = [g \in {"status", "copies", "pc"} |-> s[g]]
        /\ f = worker[w].at /\ s = slot[Queue[f]] /\ calls[Queue[f]] = "zput"
    BY <1>11, <2>1 DEF Fits
  <2> DEFINE t == [s EXCEPT !.status = "1"]
  <2>3. /\ slot' = [slot EXCEPT ![Queue[f]] = t]
        /\ \/ s.status = "0" /\ PutStep(w)
           \/ /\ worker'[w].at = worker[w].at
              /\ \/ s.status = "pointer" /\ worker'[w].pc = "compress"
                 \/ s.status = "2" /\ worker'[w].pc = "zwait"
    BY <1>1, <1>15, <2>2, ExchangeIs
  <2>4. /\ Coherent(t) /\ (s.status = "0" => t.copies = 1) /\ (s.status = "pointer" => Claimed(t))
    BY <2>2 DEF Coherent, Untouched, Claimed
  <2> HIDE DEF t
  <2>5. slot'[Queue[f]] = t /\ \A p \in 1..m : p # f => slot'[Queue[p]] = slot[Queue[p]]
    BY <1>1, <2>2, <2>3, OneSlot
  <2>6. CASE s.status = "0" /\ PutStep(w)
    BY <1>10, <2>4, <2>5, <2>6
  <2>7. CASE /\ worker'[w].at = worker[w].at
             /\ \/ s.status = "pointer" /\ worker'[w].pc = "compress"
                \/ s.status = "2" /\ worker'[w].pc = "zwait"
    <3>1. Frontier' = f
      BY <1>5, <2>7
    <3>2. Looking({"compress", "zwait"})'
      BY <1>2, <2>7 DEF Looking, SameBut
    <3>3. ASSUME s.status = "2"
          PROVE  ~Looking({"compress"})'
      <4>1. ASSUME NEW v \in Workers, worker'[v].pc = "compress" PROVE FALSE
        <5>1. v # w
          BY <2>7, <3>3, <4>1
        <5>2. worker[v].pc \in ValuePcs
          BY <1>2, <4>1, <5>1 DEF SameBut, ValuePcs
        <5>3. Active(v) /\ Active(w)
          BY <2>1, <5>2 DEF Active, ValuePcs
        <5> QED BY <1>1, <5>1, <5>3 DEF CleanInv, ExchangeInv, OneWorker
      <4> QED BY <1>2, <4>1 DEF Looking, SameBut
    <3>4. ASSUME NEW p \in 1..m, calls[Queue[p]] = "zput"
          PROVE  Fits(p)'
      <4>1. Fits(p)
        BY <3>4 DEF SlotsAll
      <4>2. CASE p # f
        <5>1. slot'[Queue[p]] = slot[Queue[p]]
          BY <2>5, <4>2
        <5> QED BY <1>1, <1>3, <3>1, <4>1, <4>2, <5>1, FitsOn
      <4>3. CASE p = f
        <5>1. SlotOf(p)' = t
          BY <1>3, <2>5, <4>3 DEF SlotOf
        <5>2. ~(p > f) /\ ~(p < f)
          BY <1>7, <4>3
        <5>3. Coherent(t) /\ (Looking({"compress"})' => Claimed(t))
          BY <2>4, <2>7, <3>3
        <5> QED BY <3>1, <3>2, <5>1, <5>2, <5>3 DEF Fits, Coherent, Claimed
      <4> QED BY <4>2, <4>3
    <3> QED BY <1>3, <3>4 DEF SlotsAll
  <2> QED BY <2>3, <2>6, <2>7
<1>16. CompressionWait(w) => worker' # worker \/ SlotlessStep(w)
  BY DEF SlotlessStep
<1> QED BY <1>8, <1>9, <1>12, <1>13, <1>14, <1>15, <1>16, Zenon DEF WorkerStep, SlotlessStep

\* JavaScript adds slots, and leaves those there are to the workers.
LEMMA SlotsOfStill ==
    ASSUME WholeInv, WholeInv', SlotsAll, WorkersAt, UNCHANGED <<slot, calls, mark, start, current>>
    PROVE  SlotsAll'
<1>1. CleanInv /\ Positions /\ AtValue
  BY DEF WholeInv
<1>2. Frontier' = Frontier /\ Queue' = Queue /\ CallsKept
  BY <1>1, PlaceStays, CallsStay
<1>3. \A pcs \in LookedAt : Looking(pcs)' <=> Looking(pcs)
  BY DEF Looking, WorkersAt
<1>4. ASSUME NEW p \in 1..Len(Queue), calls[Queue[p]] = "zput"
      PROVE  Fits(p)'
  <2>1. Fits(p) /\ slot'[Queue[p]] = slot[Queue[p]]
    BY <1>4 DEF SlotsAll
  <2> QED BY <1>1, <1>2, <1>3, <2>1, FitsOn
<1> QED BY <1>2, <1>4 DEF SlotsAll

LEMMA SlotsOfQuiet ==
    ASSUME WholeInv, WholeInv', SlotsAll, QuietStep
    PROVE  SlotsAll'
<1>1. CleanInv /\ CleanInv' /\ Positions /\ AtValue
  BY DEF WholeInv
<1>2. /\ CallsKept
      /\ \A w \in Workers : w \in Workers' /\ SamePlace(w)
      /\ \A w \in Workers' : w \in Workers \/ (StartWriting /\ worker'[w] = NewWorker(start))
  BY <1>1, QuietMoves
<1>3. Frontier' = Frontier
  BY <1>1, FrontierOfQuiet
<1>4. \A pcs \in LookedAt : Looking(pcs)' <=> Looking(pcs)
  BY <1>2 DEF Looking, LookedAt, SamePlace, NewWorker
<1>5. \/ slot' = slot /\ calls' = calls
      \/ \E kind : /\ slot' = Append(slot, IF kind = "zput" THEN QueuedSlot ELSE NoSlot)
                   /\ calls' = Append(calls, kind)
  BY Zenon DEF QuietStep, Call, Submit, CallSync, Called, Notify, StartWriting, AwaitTxn, Acquire,
               Interrupted, Complete, Progress, jsVars
<1>6. IsList(slot) /\ Len(slot) = Len(calls) /\ Len(calls) \in Nat
      /\ calls \in Seq(QueuedKinds \cup SyncKinds)
  BY <1>1 DEF CleanInv, Records, SlotRecords, ExchangeInv, Compressions
<1>7. \A n \in DOMAIN slot : slot'[n] = slot[n]
  <2>1. ASSUME NEW e, slot' = Append(slot, e) PROVE \A n \in DOMAIN slot : slot'[n] = slot[n]
    BY <1>6, <2>1, AppendedList DEF IsList
  <2> QED BY <1>5, <2>1
<1>8. ASSUME NEW p \in 1..Len(Queue), calls'[Queue'[p]] = "zput"
      PROVE  Fits(p)'
  <2>1. calls[Queue[p]] = "zput" /\ Queue[p] \in DOMAIN slot
    BY <1>1, <1>2, <1>8, QueueIs, SlotIs DEF CallsKept
  <2>2. Fits(p) /\ slot'[Queue[p]] = slot[Queue[p]]
    BY <1>7, <2>1 DEF SlotsAll
  <2> QED BY <1>1, <1>2, <1>3, <1>4, <2>2, FitsOn
<1>9. ASSUME NEW p \in 1..Len(Queue'), p \notin 1..Len(Queue), calls'[Queue'[p]] = "zput"
      PROVE  Fits(p)'
  <2>1. Queue'[p] \in Nat /\ Queue'[p] \notin DOMAIN calls /\ p > Len(Queue)
    BY <1>1, <1>2, <1>9, QueuedLater
  <2>2. QueueOrder'
    BY <1>1, QueueIsOrdered, PTL
  <2>3. Queue'[p] \in 1..Len(calls')
    BY <2>2 DEF QueueOrder
  <2> PICK kind : /\ slot' = Append(slot, IF kind = "zput" THEN QueuedSlot ELSE NoSlot)
                  /\ calls' = Append(calls, kind)
    <3>1. DOMAIN calls = 1..Len(calls)
      BY <1>6
    <3>2. calls' # calls
      BY <2>1, <2>3, <3>1
    <3> QED BY <1>5, <3>2
  <2> PICK n : n = Len(calls)
    OBVIOUS
  <2>4. Queue'[p] = n + 1 /\ n \in Nat
    <3>1. DOMAIN calls = 1..n /\ Len(calls') = n + 1 /\ n \in Nat
      BY <1>6
    <3> QED BY <2>1, <2>3, <3>1
  <2>5. kind = "zput"
    BY <1>6, <1>9, <2>4
  <2>6. slot'[n + 1] = QueuedSlot
    BY <1>6, <2>5, AppendedList
  <2>7. SlotOf(p)' = QueuedSlot
    BY <2>4, <2>6 DEF SlotOf
  <2>8. Frontier \in Nat /\ Len(Queue) \in Nat /\ Frontier <= p /\ p \in Nat
    <3>1. Frontier \in 1..Len(Queue) + 1 /\ Len(Queue) \in Nat /\ p \in Nat
      BY <1>1, <2>2, QueueIs DEF Positions, QueueOrder
    <3> QED BY <2>1, <3>1
  <2>9. p = Frontier => ~Looking({"compress"})
    <3>1. ASSUME NEW w \in Workers, worker[w].pc = "compress", p = Frontier PROVE FALSE
      <4>1. Frontier \in 1..Len(Queue)
        BY <3>1, ValueIs DEF ValuePcs
      <4> QED BY <2>1, <2>8, <3>1, <4>1
    <3> QED BY <3>1 DEF Looking
  <2>10. p = Frontier' => ~Looking({"compress"})'
    BY <1>3, <1>4, <2>9 DEF LookedAt
  <2>11. Coherent(QueuedSlot) /\ Untouched(QueuedSlot)
    BY DEF Coherent, Untouched, QueuedSlot
  <2>12. ~(p < Frontier')
    BY <1>3, <2>8
  <2> QED BY <2>7, <2>10, <2>11, <2>12 DEF Fits, Coherent, Untouched
<1>10. ASSUME NEW p \in 1..Len(Queue'), calls'[Queue'[p]] = "zput"
       PROVE  Fits(p)'
  BY <1>8, <1>9, <1>10, Zenon
<1> QED BY <1>10, Zenon DEF SlotsAll

\* A compression worker takes the value, compresses it and says so.
LEMMA CompressionIs ==
    ASSUME CleanInv, NEW p \in 1..Len(Queue), NEW n, n = Queue[p], CompressionStep(n), Fits(p)
    PROVE  /\ Coherent(slot'[n])
           /\ Untouched(slot[n]) => Untouched(slot'[n])
           /\ Claimed(slot[n]) => Claimed(slot'[n])
           /\ slot[n].copies = 1 => slot'[n].copies = 1
<1> PICK s : s = slot[n]
  OBVIOUS
<1>1. n \in DOMAIN slot /\ s = [f \in {"status", "copies", "pc"} |-> s[f]] /\ Coherent(s)
  BY SlotIs DEF SlotOf, Fits
<1> DEFINE taken == [s EXCEPT !.status = "2", !.pc = IF s.status = "pointer" THEN "compress" ELSE "done"]
           compressed == [s EXCEPT !.copies = @ + 1, !.pc = "publish"]
           published == [s EXCEPT !.status = "0", !.pc = IF s.status = "1" THEN "signal" ELSE "done"]
           signalled == [s EXCEPT !.pc = "done"]
<1>2. \/ s.pc = "queued" /\ slot'[n] = taken
      \/ s.pc = "compress" /\ slot'[n] = compressed
      \/ s.pc = "publish" /\ slot'[n] = published
      \/ s.pc = "signal" /\ slot'[n] = signalled
  BY <1>1 DEF CompressionStep, TakeSlot, CompressValue, PublishSlot, SignalWriter, Taken
<1>3. /\ taken.status = "2" /\ taken.copies = s.copies
      /\ taken.pc = IF s.status = "pointer" THEN "compress" ELSE "done"
      /\ compressed.status = s.status /\ compressed.copies = s.copies + 1 /\ compressed.pc = "publish"
      /\ published.status = "0" /\ published.copies = s.copies
      /\ published.pc = IF s.status = "1" THEN "signal" ELSE "done"
      /\ signalled.status = s.status /\ signalled.copies = s.copies /\ signalled.pc = "done"
  BY <1>1
<1> HIDE DEF taken, compressed, published, signalled
<1> QED BY <1>1, <1>2, <1>3 DEF Coherent, Untouched, Claimed

LEMMA SlotsOfCompression ==
    ASSUME WholeInv, WholeInv', SlotsAll, NEW n \in DOMAIN slot, CompressionStep(n)
    PROVE  SlotsAll'
<1>1. UNCHANGED <<calls, mark, start, current, worker>>
  BY DEF CompressionStep, TakeSlot, CompressValue, PublishSlot, SignalWriter, compressorOnly, jsVars
<1>2. CleanInv /\ Positions /\ AtValue /\ WorkersAt
  BY <1>1 DEF WholeInv, WorkersAt, Workers
<1>3. Frontier' = Frontier /\ Queue' = Queue /\ CallsKept
  BY <1>1, <1>2, PlaceStays, CallsStay
<1>4. \A pcs : Looking(pcs)' <=> Looking(pcs)
  BY <1>1 DEF Looking, Workers
<1>5. ASSUME NEW p \in 1..Len(Queue), calls[Queue[p]] = "zput"
      PROVE  Fits(p)'
  <2>1. Fits(p)
    BY <1>5 DEF SlotsAll
  <2>2. CASE Queue[p] = n
    <3>1. /\ Coherent(slot'[n])
          /\ Untouched(slot[n]) => Untouched(slot'[n])
          /\ Claimed(slot[n]) => Claimed(slot'[n])
          /\ slot[n].copies = 1 => slot'[n].copies = 1
      BY <1>2, <2>1, <2>2, CompressionIs
    <3> PICK s, t, f : s = slot[n] /\ t = slot'[n] /\ f = Frontier
      OBVIOUS
    <3>2. SlotOf(p) = s /\ SlotOf(p)' = t /\ Frontier' = f
      BY <1>3, <2>2 DEF SlotOf
    <3>3. /\ p > f => Untouched(s)
          /\ p = f /\ ~Looking({"compress", "zwait"}) => Untouched(s)
          /\ p = f /\ Looking({"compress"}) => Claimed(s)
          /\ p < f => s.copies = 1
      BY <2>1, <3>2, Zenon DEF Fits
    <3>4. /\ Coherent(t)
          /\ p > f => Untouched(t)
          /\ p = f /\ ~Looking({"compress", "zwait"})' => Untouched(t)
          /\ p = f /\ Looking({"compress"})' => Claimed(t)
          /\ p < f => t.copies = 1
      BY <1>4, <3>1, <3>3
    <3> QED BY <3>2, <3>4 DEF Fits, Coherent, Untouched, Claimed
  <2>3. CASE Queue[p] # n
    <3>1. slot'[Queue[p]] = slot[Queue[p]]
      BY <1>2, <2>3, SlotIs
         DEF CompressionStep, TakeSlot, CompressValue, PublishSlot, SignalWriter
    <3> QED BY <1>2, <1>3, <1>4, <2>1, <3>1, FitsOn
  <2> QED BY <2>2, <2>3
<1>6. calls' = calls /\ Queue' = Queue
  BY <1>1, <1>3
<1>7. \A p \in 1..Len(Queue) : calls[Queue[p]] = "zput" => Fits(p)'
  BY <1>5
<1> QED BY <1>6, <1>7, Zenon DEF SlotsAll

-----------------------------------------------------------------------------
(* What is compressed, in every program that is not Entangled.              *)

StorageInv == StoreInv /\ SlotsAll

LEMMA StorageStep ==
    ASSUME \A p \in Programs : ~Entangled(p), StorageInv, [Next]_vars
    PROVE  StorageInv'
<1>1. StoreInv' /\ StoreInv /\ SlotsAll
  BY StoreStep DEF StorageInv
<1>2. WholeInv /\ WholeInv' /\ CleanInv /\ Positions /\ AtValue /\ Callbacks
  BY <1>1 DEF StoreInv, WholeInv
<1>3. CASE RunCallbacks
  <2>1. WorkersAt /\ UNCHANGED <<slot, calls, mark, start, current>>
    BY <1>2, <1>3, RunsCallbacks DEF RunCallbacks
  <2> QED BY <1>1, <1>2, <2>1, SlotsOfStill DEF StorageInv
<1>4. CASE OwnStep
  <2>1. WorkersAt /\ UNCHANGED <<slot, calls, mark, start, current>>
    BY <1>2, <1>4, OwnStepStays
  <2> QED BY <1>1, <1>2, <2>1, SlotsOfStill DEF StorageInv
<1>5. CASE UNCHANGED vars
  <2>1. WorkersAt /\ UNCHANGED <<slot, calls, mark, start, current>>
    BY <1>5 DEF vars, WorkersAt, Workers
  <2> QED BY <1>1, <1>2, <2>1, SlotsOfStill DEF StorageInv
<1>6. \/ QuietStep \/ (\E w \in Workers : WorkerStep(w)) \/ RunCallbacks \/ OwnStep
      \/ (\E n \in DOMAIN slot : CompressionStep(n)) \/ UNCHANGED vars
  BY Zenon DEF Next, EventLoop, SyncStep, QuietStep, OwnStep, Quiescent
<1> QED BY <1>1, <1>2, <1>3, <1>4, <1>5, <1>6, SlotsOfQuiet, SlotsOfWorkers, SlotsOfCompression
        DEF StorageInv

LEMMA InitiallyCompressed == Init => StorageInv
<1> SUFFICES ASSUME Init PROVE StorageInv
  OBVIOUS
<1>1. StoreInv /\ CleanInv /\ calls = <<>>
  BY InitiallyStored DEF StoreInv, WholeInv, Init
<1>2. Len(calls) = 0
  BY <1>1
<1>3. Len(Queue) = 0
  BY <1>1, <1>2, QueueIsOrdered DEF QueueOrder
<1> QED BY <1>1, <1>3 DEF StorageInv, SlotsAll

LEMMA CompressedOfStorage == StorageInv => CompressedOnce
<1> SUFFICES ASSUME StorageInv, NEW n \in DOMAIN calls, calls[n] = "zput"
             PROVE  slot[n].copies <= 1 /\ (IsStored(n) => slot[n].copies = 1)
  BY DEF CompressedOnce
<1>1. StoreInv /\ WholeInv /\ CleanInv /\ Exactly /\ SlotsAll
  BY StoredIs DEF StorageInv, StoreInv, WholeInv
<1>2. QueueOrder /\ DOMAIN Queue = 1..Len(Queue)
  BY <1>1, QueueIsOrdered, QueueIs DEF IsList
<1>3. PICK p \in 1..Len(Queue) : Queue[p] = n
  BY <1>2 DEF QueueOrder, QueuedKinds
<1>4. Fits(p) /\ SlotOf(p) = slot[n]
  BY <1>1, <1>3 DEF SlotsAll, SlotOf
<1>5. slot[n].copies \in {0, 1}
  BY <1>4 DEF Fits, Coherent
<1>6. ASSUME IsStored(n)
      PROVE  slot[n].copies = 1
  <2>1. Done(p)
    BY <1>1, <1>2, <1>3, <1>6 DEF Exactly
  <2>2. p < Frontier
    BY <1>1, <2>1, DoneIs
  <2> QED BY <1>4, <2>2 DEF Fits
<1> QED BY <1>5, <1>6

\* What the exchange of the words decides: a value is compressed by the write
\* worker or by a compression worker, never by both, and never after it was
\* stored, when its memory has been released; however late any of them acts.
THEOREM CompressesOnce ==
    ASSUME \A p \in Programs : ~Entangled(p)
    PROVE  Spec => []CompressedOnce
<1>1. StorageInv /\ [Next]_vars => StorageInv'
  BY StorageStep
<1> QED BY <1>1, InitiallyCompressed, CompressedOfStorage, PTL DEF Spec

-----------------------------------------------------------------------------
(* How deep a position is nested.                                           *)

Counted(p, kind, n) == {c \in 1..n : p[c] = kind}

LEMMA CountedIs ==
    ASSUME NEW p, NEW kind, NEW n \in Nat
    PROVE  IsFiniteSet(Counted(p, kind, n)) /\ Cardinality(Counted(p, kind, n)) \in Nat
<1>1. IsFiniteSet(1..n) /\ Counted(p, kind, n) \in SUBSET (1..n)
  BY FS_Interval DEF Counted
<1> QED BY <1>1, FS_Subset, FS_CardinalityType

Count(p, kind, n) == Cardinality(Counted(p, kind, n))

LEMMA NestingIs ==
    ASSUME NEW p, NEW n
    PROVE  Nesting(p, n) = Count(p, "block", n) - Count(p, "end", n)
BY DEF Nesting, Count, Counted

\* What one more call of a kind counts, after others of other kinds.
LEMMA CountNext ==
    ASSUME NEW p, NEW kind, NEW m \in Nat, NEW n \in Nat, m < n,
           \A c \in m + 1..n - 1 : p[c] # kind
    PROVE  Count(p, kind, n) = Count(p, kind, m) + IF p[n] = kind THEN 1 ELSE 0
<1>1. IsFiniteSet(Counted(p, kind, m)) /\ Cardinality(Counted(p, kind, m)) \in Nat
  BY CountedIs
<1>2. n \notin Counted(p, kind, m)
  BY DEF Counted
<1>3. Counted(p, kind, n) = IF p[n] = kind THEN Counted(p, kind, m) \cup {n} ELSE Counted(p, kind, m)
  BY DEF Counted
<1>4. Cardinality(Counted(p, kind, m) \cup {n}) = Cardinality(Counted(p, kind, m)) + 1
  BY <1>1, <1>2, FS_AddElement
<1> QED BY <1>1, <1>3, <1>4 DEF Count

LEMMA CountMore ==
    ASSUME NEW p, NEW kind, NEW m \in Nat, NEW n \in Nat, m <= n
    PROVE  Count(p, kind, m) <= Count(p, kind, n) /\ Count(p, kind, m) \in Nat
<1>1. Counted(p, kind, m) \in SUBSET Counted(p, kind, n)
  BY DEF Counted
<1>2. IsFiniteSet(Counted(p, kind, n)) /\ Cardinality(Counted(p, kind, m)) \in Nat
  BY CountedIs
<1> QED BY <1>1, <1>2, FS_Subset DEF Count

Deeper(kind) == IF kind = "block" THEN 1 ELSE IF kind = "end" THEN -1 ELSE 0

\* The call before an instruction in the queue, or the start.
Before(q) == IF q = 0 THEN 0 ELSE Queue[q]

LEMMA QueueGoesUp ==
    ASSUME QueueOrder, NEW i \in 1..Len(Queue), NEW j \in 1..Len(Queue), i < j
    PROVE  Queue[i] < Queue[j]
  BY Zenon DEF QueueOrder

LEMMA NoneBetween ==
    ASSUME QueueOrder, NEW q \in 1..Len(Queue), NEW c \in 1..Len(calls),
           Before(q - 1) < c, c < Queue[q], Before(q - 1) \in Nat, Queue[q] \in Nat
    PROVE  calls[c] \notin QueuedKinds
<1> SUFFICES ASSUME calls[c] \in QueuedKinds PROVE FALSE
  OBVIOUS
<1>1. PICK j \in 1..Len(Queue) : Queue[j] = c
  BY DEF QueueOrder
<1>2. Len(Queue) \in Nat /\ j \in Nat /\ q \in Nat /\ c \in Nat
  BY DEF QueueOrder
<1>3. CASE j = q
  <2>1. c = Queue[q]
    BY <1>1, <1>3
  <2> QED BY <1>2, <2>1
<1>4. CASE q < j
  <2>1. Queue[q] < c
    BY <1>1, <1>4, QueueGoesUp
  <2> QED BY <1>2, <2>1
<1>5. CASE j = q - 1
  <2>1. c = Before(q - 1)
    BY <1>1, <1>2, <1>5 DEF Before
  <2> QED BY <1>2, <2>1
<1>6. CASE j < q - 1
  <2>1. q - 1 \in 1..Len(Queue) /\ q - 1 # 0
    BY <1>2, <1>6
  <2>2. c < Queue[q - 1]
    BY <1>1, <1>6, <2>1, QueueGoesUp
  <2>3. Before(q - 1) = Queue[q - 1]
    BY <2>1 DEF Before
  <2> QED BY <1>2, <2>2, <2>3
<1> QED BY <1>2, <1>3, <1>4, <1>5, <1>6

LEMMA Added ==
    ASSUME NEW b \in Nat, NEW e \in Nat, NEW x \in {0, 1}, NEW y \in {0, 1}
    PROVE  b - e \in Int /\ (b + x) - (e + y) = (b - e) + (x - y)
OBVIOUS

LEMMA NestingNext ==
    ASSUME NEW p, NEW m \in Nat, NEW n \in Nat, m < n,
           \A c \in m + 1..n - 1 : p[c] # "block" /\ p[c] # "end"
    PROVE  Nesting(p, m) \in Int /\ Nesting(p, n) = Nesting(p, m) + Deeper(p[n])
<1> DEFINE x == IF p[n] = "block" THEN 1 ELSE 0
           y == IF p[n] = "end" THEN 1 ELSE 0
<1>1. Count(p, "block", n) = Count(p, "block", m) + x
  BY CountNext
<1>2. Count(p, "end", n) = Count(p, "end", m) + y
  BY CountNext
<1>3. Count(p, "block", m) \in Nat /\ Count(p, "end", m) \in Nat
  BY CountMore
<1>4. /\ Nesting(p, m) = Count(p, "block", m) - Count(p, "end", m)
      /\ Nesting(p, n) = (Count(p, "block", m) + x) - (Count(p, "end", m) + y)
  BY <1>1, <1>2, NestingIs
<1>5. x \in {0, 1} /\ y \in {0, 1} /\ x - y = Deeper(p[n])
  BY DEF Deeper
<1> HIDE DEF x, y
<1>6. /\ Nesting(p, m) \in Int
      /\ Nesting(p, n) = (Count(p, "block", m) - Count(p, "end", m)) + (x - y)
  BY <1>3, <1>4, <1>5, Added
<1> QED BY <1>4, <1>5, <1>6

LEMMA Strictly ==
    ASSUME NEW m \in Nat, NEW n \in Nat, NEW size \in Nat, n \in 1..size, NEW c \in m + 1..n - 1
    PROVE  c \in 1..size /\ m < c /\ c < n
OBVIOUS

LEMMA OpenAtNext ==
    ASSUME CleanInv, NEW q \in 1..Len(Queue)
    PROVE  OpenAt(q - 1) \in Int /\ OpenAt(q) = OpenAt(q - 1) + Deeper(calls[Queue[q]])
<1>1. QueueOrder /\ FromProgram
  BY QueueIsOrdered DEF CleanInv, ExchangeInv
<1>2. Before(q - 1) \in Nat /\ Queue[q] \in Nat /\ Before(q - 1) < Queue[q]
      /\ Queue[q] \in 1..Len(calls) /\ Len(calls) \in Nat /\ q # 0
  BY <1>1 DEF QueueOrder, Before
<1>3. \A c \in 1..Len(calls) : program[c] = calls[c]
  BY <1>1 DEF QueueOrder, FromProgram
<1>4. ASSUME NEW c \in Before(q - 1) + 1..Queue[q] - 1
      PROVE  program[c] # "block" /\ program[c] # "end"
  <2>1. c \in 1..Len(calls) /\ Before(q - 1) < c /\ c < Queue[q]
    BY <1>2, Strictly
  <2>2. calls[c] \notin QueuedKinds
    BY <1>1, <1>2, <2>1, NoneBetween
  <2> QED BY <1>3, <2>1, <2>2 DEF QueuedKinds
<1>5. /\ Nesting(program, Before(q - 1)) \in Int
      /\ Nesting(program, Queue[q])
           = Nesting(program, Before(q - 1)) + Deeper(program[Queue[q]])
  BY <1>2, <1>4, NestingNext
<1>6. OpenAt(q - 1) = Nesting(program, Before(q - 1)) /\ OpenAt(q) = Nesting(program, Queue[q])
  BY <1>2 DEF OpenAt, Before
<1>7. program[Queue[q]] = calls[Queue[q]]
  BY <1>2, <1>3
<1> QED BY <1>5, <1>6, <1>7

LEMMA OpenAtStart == OpenAt(0) = 0
<1>1. Counted(program, "block", 0) = {} /\ Counted(program, "end", 0) = {}
  BY DEF Counted
<1> QED BY <1>1, NestingIs, FS_EmptySet DEF OpenAt, Count

LEMMA OpenAtKept ==
    ASSUME CleanInv, CallsKept, program' = program, NEW q \in 0..Len(Queue)
    PROVE  OpenAt(q)' = OpenAt(q)
<1>1. q = 0 \/ q \in 1..Len(Queue)
  BY QueueIsOrdered DEF QueueOrder
<1>2. q # 0 => Queue'[q] = Queue[q]
  BY <1>1 DEF CallsKept
<1> QED BY <1>2 DEF OpenAt

LEMMA NeverNegative ==
    ASSUME NEW p, NEW size \in Nat, DOMAIN p = 1..size, EndsCloseBlocks(p), NEW m \in 0..size
    PROVE  Nesting(p, m) >= 0
<1>1. CASE m = 0
  <2>1. Counted(p, "block", m) = {} /\ Counted(p, "end", m) = {}
    BY <1>1 DEF Counted
  <2>2. Count(p, "block", m) = 0 /\ Count(p, "end", m) = 0
    BY <2>1, FS_EmptySet DEF Count
  <2> QED BY <2>2, NestingIs
<1>2. CASE m # 0
  <2>1. m \in DOMAIN p
    BY <1>2
  <2> QED BY <2>1 DEF EndsCloseBlocks
<1> QED BY <1>1, <1>2

LEMMA Within ==
    ASSUME NEW k \in Nat, NEW n \in Nat, NEW i \in k..n
    PROVE  i \in Nat /\ k <= i /\ i <= n
OBVIOUS

LEMMA ToTheEnd ==
    ASSUME NEW size \in Nat, NEW k \in 1..size, NEW n \in k..size, NEW i \in k..n
    PROVE  i \in 1..size /\ i \in Nat
OBVIOUS

LEMMA OneMoreOpen ==
    ASSUME NEW before \in Nat, NEW after \in Nat, NEW ended \in Nat,
           before - ended >= 0, before + 1 <= after
    PROVE  after - ended > 0
OBVIOUS

\* Behind a block whose end does not come, the nesting is positive.
LEMMA NestedBehind ==
    ASSUME NEW p, NEW size \in Nat, DOMAIN p = 1..size, EndsCloseBlocks(p),
           NEW k \in 1..size, NEW n \in k..size,
           p[k] = "block", \A i \in k..n : p[i] # "end"
    PROVE  Nesting(p, n) > 0
<1> PICK m : m = k - 1
  OBVIOUS
<1>1. m \in Nat /\ n \in Nat /\ k \in Nat /\ m < k /\ m <= n /\ k <= n /\ m + 1 = k /\ m \in 0..size
  OBVIOUS
<1>2. Count(p, "end", n) = Count(p, "end", m)
  <2>1. Counted(p, "end", n) = Counted(p, "end", m)
    <3>1. \A i \in 1..n : i \notin 1..m => i \in k..n
      BY <1>1
    <3>2. \A i \in 1..m : i \in 1..n
      BY <1>1
    <3> QED BY <3>1, <3>2 DEF Counted
  <2> QED BY <2>1 DEF Count
<1>3. Count(p, "block", k) = Count(p, "block", m) + 1
  <2>1. \A c \in m + 1..k - 1 : p[c] # "block"
    BY <1>1
  <2>2. Count(p, "block", k) = Count(p, "block", m) + IF p[k] = "block" THEN 1 ELSE 0
    BY <1>1, <2>1, CountNext
  <2> QED BY <2>2
<1>4. Count(p, "block", k) <= Count(p, "block", n)
  BY <1>1, CountMore
<1>5. Count(p, "block", m) \in Nat /\ Count(p, "end", m) \in Nat
  BY <1>1, CountMore
<1>6. Count(p, "block", n) \in Nat
  <2>1. n <= n
    BY <1>1
  <2> QED BY <1>1, <2>1, CountMore
<1>7. Nesting(p, m) >= 0
  BY <1>1, NeverNegative
<1>8. /\ Nesting(p, m) = Count(p, "block", m) - Count(p, "end", m)
      /\ Nesting(p, n) = Count(p, "block", n) - Count(p, "end", m)
  BY <1>2, NestingIs, Zenon
<1>9. Count(p, "block", n) - Count(p, "end", m) > 0
  <2>1. Count(p, "block", m) - Count(p, "end", m) >= 0
    BY <1>7, <1>8, Zenon
  <2>2. Count(p, "block", m) + 1 <= Count(p, "block", n)
    BY <1>3, <1>4, Zenon
  <2> QED BY <1>5, <1>6, <2>1, <2>2, OneMoreOpen
<1> QED BY <1>8, <1>9, Zenon

\* In a program whose ends close blocks, a position in a block is nested.
LEMMA OpenInBlock ==
    ASSUME CleanInv, EndsCloseBlocks(program), NEW a \in 1..Len(Queue), NEW b \in 1..Len(Queue),
           a <= b, InBlock(a, b)
    PROVE  OpenAt(b) > 0
<1>1. QueueOrder /\ FromProgram
  BY QueueIsOrdered DEF CleanInv, ExchangeInv
<1>2. PICK c \in 1..a : calls[Queue[c]] = "block" /\ \A d \in c..b : calls[Queue[d]] # "end"
  BY DEF InBlock
<1>3. Len(Queue) \in Nat /\ c \in 1..Len(Queue) /\ c <= b /\ c \in Nat /\ b \in Nat
  BY <1>1, <1>2 DEF QueueOrder
<1>4. OpenAt(b) = Nesting(program, Queue[b])
  BY <1>3 DEF OpenAt
<1>5. Queue[c] \in 1..Len(calls) /\ Queue[b] \in Queue[c]..Len(calls) /\ Len(calls) \in Nat
  BY <1>1, <1>3 DEF QueueOrder
<1>6. \A i \in 1..Len(calls) : calls[i] = "end" => ~(Queue[c] <= i /\ i <= Queue[b])
  <2> SUFFICES ASSUME NEW i \in 1..Len(calls), calls[i] = "end", Queue[c] <= i, i <= Queue[b]
               PROVE  FALSE
    OBVIOUS
  <2>1. PICK d \in 1..Len(Queue) : Queue[d] = i
    BY <1>1 DEF QueueOrder, QueuedKinds
  <2>2. \A u, v \in 1..Len(Queue) : u < v => Queue[u] < Queue[v]
    BY <1>1 DEF QueueOrder
  <2>3. ~(d < c)
    BY <1>3, <1>5, <2>1, <2>2
  <2>4. ~(b < d)
    BY <1>3, <1>5, <2>1, <2>2
  <2>5. d \in c..b
    BY <1>3, <2>3, <2>4
  <2> QED BY <1>2, <2>1, <2>5
<1>7. \A i \in 1..Len(calls) : program[i] = calls[i]
  BY <1>1 DEF FromProgram, QueueOrder
<1>8. Len(program) \in Nat /\ DOMAIN program = 1..Len(program) /\ Len(calls) <= Len(program)
  <2>1. program \in Seq(QueuedKinds \cup SyncKinds) /\ Len(calls) <= Len(program)
    BY <1>1, HandoffAssumption DEF FromProgram
  <2> QED BY <2>1
<1> HIDE <1>1
<1> PICK k, n, x, size : k = Queue[c] /\ n = Queue[b] /\ x = Len(calls) /\ size = Len(program)
  OBVIOUS
<1>9. k \in 1..x /\ n \in k..x /\ x \in Nat /\ size \in Nat /\ x <= size /\ DOMAIN program = 1..size
  BY <1>5, <1>8, Zenon
<1>10. k \in 1..size /\ n \in k..size
  BY <1>9
<1>11. program[k] = "block"
  BY <1>2, <1>7, <1>5, Zenon
<1>12. \A i \in k..n : program[i] # "end"
  <2> SUFFICES ASSUME NEW i \in k..n PROVE program[i] # "end"
    OBVIOUS
  <2>1. i \in 1..x /\ i \in Nat
    BY <1>9, ToTheEnd
  <2>2. k \in Nat /\ n \in Nat
    BY <1>9
  <2>3. k <= i /\ i <= n
    BY <2>2, Within
  <2> QED BY <1>6, <1>7, <2>1, <2>3, Zenon
<1>13. Nesting(program, n) > 0
  BY <1>9, <1>10, <1>11, <1>12, NestedBehind
<1> QED BY <1>4, <1>13

-----------------------------------------------------------------------------
(* The depth of the workers.                                                *)

Permits(w) == worker[w].status \in {"ALLOW_COMMIT", "INTERRUPT_BATCH"}

LaterPcs == {"begin", "exchange", "compress", "zwait", "run", "commit"}

LEMMA StatusStays ==
    ASSUME CleanInv, NEW w \in Workers,
           \/ Lock(w) \/ Put(w) \/ PutRaw(w) \/ Exchange(w) \/ CompressSelf(w)
           \/ CompressionWait(w) \/ StartBlock(w) \/ EndBlock(w) \/ UserCallback(w)
           \/ (Strict(w) /\ worker[w].finished) \/ MarkDelimiter(w) \/ WaitAgain(w) \/ Commit(w)
    PROVE  worker'[w].status = worker[w].status /\ worker'[w].pc # "lock"
<1> PICK o : o = worker[w]
  OBVIOUS
<1>1. IsWorker(o) /\ o = worker[w] /\ w \in DOMAIN worker
  BY DEF CleanInv, HandoffInv, Shapes, Workers
<1>2. ASSUME NEW r, worker' = [worker EXCEPT ![w] = r] PROVE worker'[w] = r
  BY <1>2, OneWorkerChanges DEF CleanInv, HandoffInv
<1>3. CASE PutStep(w)
  <2> DEFINE r == [o EXCEPT !.at = @ + 1, !.pc = "run"]
  <2>1. worker' = [worker EXCEPT ![w] = r]
    BY <1>1, <1>3 DEF PutStep
  <2>2. r.status = o.status /\ r.pc = "run"
    BY <1>1 DEF IsWorker, Fields
  <2> HIDE DEF r
  <2> QED BY <1>1, <1>2, <2>1, <2>2
<1>4. CASE StartBlock(w) \/ EndBlock(w)
  <2> PICK d : d = IF StartBlock(w) THEN o.depth + 1 ELSE o.depth - 1
    OBVIOUS
  <2> DEFINE r == [o EXCEPT !.at = @ + 1, !.depth = d]
  <2>1. worker' = [worker EXCEPT ![w] = r]
    <3>1. CASE StartBlock(w)
      BY <1>1, <3>1 DEF StartBlock
    <3>2. CASE ~StartBlock(w)
      BY <1>1, <1>4, <3>2 DEF EndBlock
    <3> QED BY <3>1, <3>2
  <2>2. r.status = o.status /\ r.pc = "run"
    BY <1>1, <1>4 DEF IsWorker, Fields, StartBlock, EndBlock, At
  <2> HIDE DEF r
  <2> QED BY <1>1, <1>2, <2>1, <2>2
<1>5. CASE UserCallback(w)
  <2> DEFINE r == [o EXCEPT !.at = @ + 1, !.finished = FALSE, !.pc = AfterCallback(w)]
  <2>1. worker' = [worker EXCEPT ![w] = r]
    BY <1>1, <1>5 DEF UserCallback
  <2>2. r.status = o.status /\ r.pc \in {"strict", "run"}
    BY <1>1 DEF IsWorker, Fields, AfterCallback
  <2> HIDE DEF r
  <2> QED BY <1>1, <1>2, <2>1, <2>2
<1>6. CASE \E pc \in LaterPcs : worker' = [worker EXCEPT ![w].pc = pc]
  <2> PICK pc \in LaterPcs : worker' = [worker EXCEPT ![w].pc = pc]
    BY <1>6
  <2> DEFINE r == [o EXCEPT !.pc = pc]
  <2>1. worker' = [worker EXCEPT ![w] = r]
    BY <1>1
  <2>2. r.status = o.status /\ r.pc = pc
    BY <1>1 DEF IsWorker, Fields
  <2> HIDE DEF r
  <2> QED BY <1>1, <1>2, <2>1, <2>2 DEF LaterPcs
<1>7. CASE Commit(w)
  <2> DEFINE r == [o EXCEPT !.pc = "done", !.txn = 0]
  <2>1. worker' = [worker EXCEPT ![w] = r]
    BY <1>1, <1>7 DEF Commit
  <2>2. r.status = o.status /\ r.pc = "done"
    BY <1>1 DEF IsWorker, Fields
  <2> HIDE DEF r
  <2> QED BY <1>1, <1>2, <2>1, <2>2
<1>8. CASE worker' = worker /\ worker[w].pc # "lock"
  BY <1>8
<1>9. \/ PutStep(w) \/ StartBlock(w) \/ EndBlock(w) \/ UserCallback(w) \/ Commit(w)
      \/ worker' = worker /\ worker[w].pc # "lock"
      \/ \E pc \in LaterPcs : worker' = [worker EXCEPT ![w].pc = pc]
  <2>1. CASE Put(w) \/ CompressSelf(w)
    BY <2>1 DEF Put, CompressSelf
  <2>4. CASE Exchange(w)
    <3>1. \/ worker' = [worker EXCEPT ![w].pc = "compress"]
          \/ worker' = [worker EXCEPT ![w].pc = "zwait"]
          \/ PutStep(w)
      BY <2>4, Zenon DEF Exchange
    <3> QED BY <3>1 DEF LaterPcs
  <2>2. CASE Lock(w) \/ PutRaw(w) \/ MarkDelimiter(w) \/ (Strict(w) /\ worker[w].finished)
    BY <2>2 DEF Lock, PutRaw, MarkDelimiter, Strict, LaterPcs
  <2>3. CASE CompressionWait(w) \/ WaitAgain(w)
    BY <2>3 DEF CompressionWait, WaitAgain
  <2> QED BY <2>1, <2>2, <2>3, <2>4
<1> QED BY <1>3, <1>4, <1>5, <1>6, <1>7, <1>8, <1>9

LEMMA PermitsOfWorkers ==
    ASSUME CleanInv, NEW w \in Workers, WorkerStep(w), Permits(w) => worker[w].depth = 0,
           worker'[w].depth = worker[w].depth \/ worker[w].pc \notin {"wait", "strictWait"}
    PROVE  (Permits(w)' => worker'[w].depth = 0) /\ worker'[w].pc # "lock"
<1> PICK o : o = worker[w]
  OBVIOUS
<1>1. IsWorker(o) /\ o = worker[w] /\ w \in DOMAIN worker
  BY DEF CleanInv, HandoffInv, Shapes, Workers
<1>2. ASSUME NEW r, worker' = [worker EXCEPT ![w] = r] PROVE worker'[w] = r
  BY <1>2, OneWorkerChanges DEF CleanInv, HandoffInv
<1>3. worker[w].pc \notin {"wait", "strictWait"} => ~Permits(w)
  BY Undisturbed DEF CleanInv, ExchangeInv, MayCommit, Permits
<1>4. CASE worker'[w].status = worker[w].status /\ worker'[w].pc # "lock"
  BY <1>3, <1>4 DEF Permits
<1>5. CASE Begin(w)
  <2> DEFINE r == [o EXCEPT !.pc = worker[w].resume, !.txn = mdbx'.id, !.status = "none"]
  <2>1. worker' = [worker EXCEPT ![w] = r]
    BY <1>1, <1>5 DEF Begin
  <2>2. r.status = "none" /\ r.pc \in {"run", "strict"}
    BY <1>1 DEF IsWorker, Fields
  <2> HIDE DEF r
  <2> QED BY <1>2, <2>1, <2>2 DEF Permits
<1>6. CASE Resume(w)
  <2> DEFINE r == [o EXCEPT !.pc = Resumed(w), !.status = "none"]
  <2>1. worker' = [worker EXCEPT ![w] = r]
    BY <1>1, <1>6 DEF Resume
  <2>2. r.status = "none" /\ r.pc \in {"run", "strict"}
    BY <1>1 DEF IsWorker, Fields, Resumed
  <2> HIDE DEF r
  <2> QED BY <1>2, <2>1, <2>2 DEF Permits
<1>7. CASE Interrupt(w)
  <2> DEFINE r == [o EXCEPT !.pc = "paused", !.txn = 0,
                       !.status = "RESTART_WORKER_TXN", !.resume = Resumed(w)]
  <2>1. worker' = [worker EXCEPT ![w] = r]
    BY <1>1, <1>7 DEF Interrupt
  <2>2. r.status = "RESTART_WORKER_TXN" /\ r.pc = "paused"
    BY <1>1 DEF IsWorker, Fields
  <2> HIDE DEF r
  <2> QED BY <1>2, <2>1, <2>2 DEF Permits
<1>8. ASSUME NEW pc \in {"wait", "strictWait"}, WaitForCallbacks(w, pc)
      PROVE  (Permits(w)' => worker'[w].depth = 0) /\ worker'[w].pc # "lock"
  <2> DEFINE progress == worker[w].progress \/ ~worker[w].finished
             status == IF worker[w].depth = 0 THEN "ALLOW_COMMIT" ELSE "none"
             r == [o EXCEPT !.pc = pc, !.progress = progress, !.status = status]
  <2>1. worker' = [worker EXCEPT ![w] = r]
    BY <1>1, <1>8 DEF WaitForCallbacks
  <2>2. r.depth = o.depth /\ r.pc = pc /\ r.status = IF o.depth = 0 THEN "ALLOW_COMMIT" ELSE "none"
    BY <1>1 DEF IsWorker, Fields
  <2> HIDE DEF r
  <2> QED BY <1>2, <2>1, <2>2 DEF Permits
<1>9. CASE (Strict(w) /\ ~worker[w].finished) \/ MarkWaiting(w)
  BY <1>8, <1>9 DEF Strict, MarkWaiting
<1>10. \/ Lock(w) \/ Put(w) \/ PutRaw(w) \/ Exchange(w) \/ CompressSelf(w)
       \/ CompressionWait(w) \/ StartBlock(w) \/ EndBlock(w) \/ UserCallback(w)
       \/ (Strict(w) /\ worker[w].finished) \/ MarkDelimiter(w) \/ WaitAgain(w) \/ Commit(w)
       => worker'[w].status = worker[w].status /\ worker'[w].pc # "lock"
  BY StatusStays, Zenon
<1> QED BY <1>4, <1>5, <1>6, <1>7, <1>9, <1>10 DEF WorkerStep

DepthIs(w) ==
    /\ worker[w].depth = IF Active(w) THEN OpenAt(worker[w].at - 1) ELSE 0
    /\ worker[w].pc = "lock" => worker[w].depth = 0
BetweenTxns == mark = "delimiter" \/ start # 0 => OpenAt(Frontier - 1) = 0

LEMMA DepthsAre ==
    Depths <=> /\ \A w \in Workers : DepthIs(w) /\ (Permits(w) => worker[w].depth = 0)
               /\ BetweenTxns
BY DEF Depths, DepthIs, Permits, BetweenTxns

LEMMA DepthsWillBe ==
    ASSUME \A w \in Workers' : DepthIs(w)' /\ (Permits(w)' => worker'[w].depth = 0), BetweenTxns'
    PROVE  Depths'
BY DEF Depths, DepthIs, Permits, BetweenTxns

\* The position of an active worker, and of the next instruction.
LEMMA InQueue ==
    ASSUME CleanInv, Positions
    PROVE  /\ Len(Queue) \in Nat /\ Frontier \in Nat /\ Frontier - 1 \in 0..Len(Queue)
           /\ \A w \in Workers : worker[w].at \in Nat /\ worker[w].at - 1 \in 0..Len(Queue)
<1>1. Len(Queue) \in Nat
  BY QueueIs
<1>2. Frontier \in 1..Len(Queue) + 1 /\ \A w \in Workers : worker[w].at \in 1..Frontier
  BY DEF Positions
<1> PICK f, n : f = Frontier /\ n = Len(Queue)
  OBVIOUS
<1>3. n \in Nat /\ f \in 1..n + 1 /\ f \in Nat /\ f - 1 \in 0..n
  BY <1>1, <1>2
<1>4. \A w \in Workers : worker[w].at \in Nat /\ worker[w].at - 1 \in 0..n
  <2> SUFFICES ASSUME NEW w \in Workers, NEW p, p = worker[w].at
               PROVE  p \in Nat /\ p - 1 \in 0..n
    OBVIOUS
  <2>1. p \in 1..f
    BY <1>2
  <2> QED BY <1>3, <2>1
<1> QED BY <1>3, <1>4

LEMMA MovesDeeper ==
    ASSUME CleanInv, NEW w \in Workers, Puts(w) \/ Passes(w) \/ CallsBack(w),
           worker[w].depth \in Int
    PROVE  /\ worker'[w].depth = worker[w].depth + Deeper(calls[Queue[worker[w].at]])
           /\ worker'[w].at = worker[w].at + 1
           /\ worker[w].pc \notin {"wait", "strictWait"} /\ mark' = mark
<1>1. MovesOn(w)
  BY DEF Puts, Passes, CallsBack
<1>2. Instruction(w) = calls[Queue[worker[w].at]]
  BY <1>1, InstructionIs DEF MovesOn
<1>3. worker'[w].depth = worker[w].depth + Deeper(Instruction(w))
  BY DEF Puts, Passes, CallsBack, Deeper, CallbackKinds
<1> QED BY <1>1, <1>2, <1>3 DEF MovesOn, ValuePcs

LEMMA DepthsOfWorkers ==
    ASSUME WholeInv, WholeInv', Depths, NEW w \in Workers, WorkerStep(w)
    PROVE  Depths'
<1>1. CleanInv /\ CleanInv' /\ Positions /\ Positions' /\ AtValue
  BY DEF WholeInv
<1>2. /\ SameBut(w) /\ UNCHANGED <<jsVars, current>>
      /\ Puts(w) \/ Passes(w) \/ CallsBack(w) \/ Stays(w)
  BY <1>1, WorkerMoves
<1>3. calls' = calls /\ start' = start /\ program' = program /\ Queue' = Queue
  BY <1>2, SameQueue DEF jsVars
<1>4. CallsKept
  BY <1>1, <1>3, CallsStay
<1>5. \A q \in 0..Len(Queue) : OpenAt(q)' = OpenAt(q)
  BY <1>1, <1>3, <1>4, OpenAtKept
<1>6. /\ \A v \in Workers : DepthIs(v) /\ (Permits(v) => worker[v].depth = 0)
      /\ BetweenTxns
  BY DepthsAre
<1>7. /\ Len(Queue) \in Nat /\ Frontier \in Nat /\ Frontier - 1 \in 0..Len(Queue)
      /\ \A v \in Workers : worker[v].at \in Nat /\ worker[v].at - 1 \in 0..Len(Queue)
  BY <1>1, InQueue
<1>8. ASSUME NEW v \in Workers', v # w PROVE DepthIs(v)' /\ (Permits(v)' => worker'[v].depth = 0)
  <2>1. v \in Workers /\ worker'[v] = worker[v]
    BY <1>2, <1>8 DEF SameBut
  <2>2. OpenAt(worker[v].at - 1)' = OpenAt(worker[v].at - 1)
    <3> PICK q : q = worker[v].at - 1
      OBVIOUS
    <3>1. OpenAt(q)' = OpenAt(q)
      BY <1>5, <1>7, <2>1
    <3>2. worker'[v].at - 1 = q
      BY <2>1
    <3> QED BY <3>1, <3>2
  <2> QED BY <1>6, <2>1, <2>2 DEF DepthIs, Permits, Active
<1>9. CASE Puts(w) \/ Passes(w) \/ CallsBack(w)
  <2>1. MovesOn(w)
    BY <1>9 DEF Puts, Passes, CallsBack
  <2>2. /\ Active(w) /\ Active(w)' /\ Frontier = worker[w].at /\ Frontier \in 1..Len(Queue)
        /\ start = 0 /\ mark # "delimiter"
    BY <1>1, <1>7, <2>1, FrontierOfWorkers, FrontierOfActive
  <2> PICK q : q = worker[w].at
    OBVIOUS
  <2>3. worker[w].depth = OpenAt(q - 1) /\ q \in 1..Len(Queue)
    BY <1>6, <2>2 DEF DepthIs
  <2>4. OpenAt(q - 1) \in Int /\ OpenAt(q) = OpenAt(q - 1) + Deeper(calls[Queue[q]])
    BY <1>1, <2>3, OpenAtNext
  <2>5. /\ worker'[w].depth = worker[w].depth + Deeper(calls[Queue[worker[w].at]])
        /\ worker'[w].at = worker[w].at + 1
        /\ worker[w].pc \notin {"wait", "strictWait"} /\ mark' = mark
    BY <1>1, <1>9, <2>3, <2>4, MovesDeeper
  <2>6. worker'[w].depth = OpenAt(q) /\ worker'[w].at - 1 = q
    BY <2>3, <2>4, <2>5
  <2>7. OpenAt(q)' = OpenAt(q)
    BY <1>5, <2>3
  <2>8. (Permits(w)' => worker'[w].depth = 0) /\ worker'[w].pc # "lock"
    BY <1>1, <1>6, <2>5, PermitsOfWorkers
  <2>9. DepthIs(w)'
    BY <2>2, <2>6, <2>7, <2>8 DEF DepthIs
  <2>10. BetweenTxns'
    BY <1>3, <2>2, <2>5 DEF BetweenTxns
  <2> QED BY <1>8, <2>8, <2>9, <2>10, DepthsWillBe
<1>10. CASE Stays(w)
  <2> PICK q, f : q = worker[w].at - 1 /\ f = Frontier - 1
    OBVIOUS
  <2>1. /\ Frontier' = Frontier /\ worker'[w].at = worker[w].at
        /\ worker'[w].depth = worker[w].depth
    BY <1>1, <1>10, FrontierOfWorkers DEF Stays
  <2>2. OpenAt(q)' = OpenAt(q) /\ OpenAt(f)' = OpenAt(f)
    BY <1>5, <1>7
  <2>3. worker[w].depth = IF Active(w) THEN OpenAt(q) ELSE 0
    BY <1>6 DEF DepthIs
  <2>4. Active(w) => start = 0 /\ mark # "delimiter" /\ q = f
    BY <1>1, FrontierOfActive
  <2>5. (Active(w) <=> Active(w)') \/ (worker[w].depth = 0 /\ ~Active(w)')
    BY <1>10 DEF Stays
  <2>6. (Permits(w)' => worker'[w].depth = 0) /\ worker'[w].pc # "lock"
    BY <1>1, <1>6, <2>1, PermitsOfWorkers
  <2>7. DepthIs(w)'
    BY <2>1, <2>2, <2>3, <2>5, <2>6 DEF DepthIs
  <2>8. BetweenTxns'
    <3>1. Frontier' - 1 = f /\ (mark = "delimiter" \/ start # 0 => OpenAt(f) = 0)
      BY <1>6, <2>1 DEF BetweenTxns
    <3>2. \/ mark' = mark
          \/ mark' = "waiting" /\ Active(w)
          \/ Active(w) /\ worker[w].depth = 0
      BY <1>10 DEF Stays
    <3>3. mark' = "delimiter" \/ start' # 0 => OpenAt(f) = 0
      BY <1>3, <2>3, <2>4, <3>1, <3>2
    <3> QED BY <2>2, <3>1, <3>3 DEF BetweenTxns
  <2> QED BY <1>8, <2>6, <2>7, <2>8, DepthsWillBe
<1> QED BY <1>2, <1>9, <1>10

LEMMA PermitsOfQuiet ==
    ASSUME CleanInv, QuietStep
    PROVE  \A w \in Workers : Permits(w)' => Permits(w)
<1>1. \A w \in Workers : IsWorker(worker[w])
  BY DEF CleanInv, HandoffInv, Shapes
<1>2. CASE worker' = worker
  BY <1>2 DEF Permits
<1>3. CASE Acquire
  <2>1. PICK status : /\ worker' = [worker EXCEPT ![current].status = status] \/ worker' = worker
                      /\ \/ status = "USER_HAS_LOCK"
                         \/ worker[current].status = "ALLOW_COMMIT"
    BY <1>3, Zenon DEF Acquire
  <2>2. \A w \in Workers :
           \/ worker'[w].status = worker[w].status
           \/ w = current /\ worker'[w].status = status
    BY <2>1, StatusOnly
  <2> QED BY <2>1, <2>2 DEF Permits
<1>4. ASSUME NEW v \in Workers, Complete(v) \/ Progress(v)
      PROVE  \A w \in Workers : Permits(w)' => Permits(w)
  <2>1. PICK r : worker' = [worker EXCEPT ![v] = r] /\ r.status = worker[v].status
    <3>1. CASE Complete(v)
      <4> DEFINE r == [worker[v] EXCEPT !.pc = "gone"]
      <4>1. worker' = [worker EXCEPT ![v] = r] /\ r.status = worker[v].status
        BY <1>1, <3>1 DEF Complete, IsWorker, Fields
      <4> QED BY <4>1
    <3>2. CASE Progress(v)
      <4> DEFINE r == [worker[v] EXCEPT !.progress = FALSE]
      <4>1. worker' = [worker EXCEPT ![v] = r] /\ r.status = worker[v].status
        BY <1>1, <3>2 DEF Progress, IsWorker, Fields
      <4> QED BY <4>1
    <3> QED BY <1>4, <3>1, <3>2
  <2>2. worker' = [worker EXCEPT ![v] = r]
    BY <2>1
  <2>3. \A w \in Workers : worker'[w] = IF w = v THEN r ELSE worker[w]
    BY <2>2, UpdatedWorker, Zenon
  <2> QED BY <2>1, <2>3 DEF Permits
<1>5. CASE StartWriting
  <2> PICK n \in Nat : n = Len(worker)
    BY DEF CleanInv, HandoffInv, Shapes
  <2>1. worker' = [v \in 1..n + 1 |-> IF v = n + 1 THEN NewWorker(start) ELSE worker[v]]
    BY <1>5, AppendedTo DEF StartWriting, CleanInv, HandoffInv, Shapes
  <2>2. Workers = 1..n
    BY WorkersAreNumbers DEF CleanInv, HandoffInv
  <2>3. \A w \in Workers : worker'[w] = worker[w]
    BY <2>1, <2>2
  <2> QED BY <2>3 DEF Permits
<1> QED BY <1>2, <1>3, <1>4, <1>5
        DEF QuietStep, Call, Submit, CallSync, Notify, AwaitTxn, Interrupted

LEMMA BetweenStays ==
    ASSUME QuietStep
    PROVE  /\ program' = program
           /\ mark' = "delimiter" \/ start' # 0 => mark = "delimiter" \/ start # 0
BY Zenon DEF QuietStep, Call, Submit, CallSync, Called, Notify, StartWriting, AwaitTxn, Acquire, Interrupted,
       Complete, Progress, jsVars

LEMMA DepthsOfQuiet ==
    ASSUME WholeInv, WholeInv', Depths, QuietStep
    PROVE  Depths'
<1>1. CleanInv /\ CleanInv' /\ Positions /\ Positions'
  BY DEF WholeInv
<1>2. /\ CallsKept
      /\ \A w \in Workers : w \in Workers' /\ SamePlace(w)
      /\ \A w \in Workers' : w \in Workers \/ (StartWriting /\ worker'[w] = NewWorker(start))
  BY <1>1, QuietMoves
<1>3. /\ program' = program
      /\ mark' = "delimiter" \/ start' # 0 => mark = "delimiter" \/ start # 0
  BY BetweenStays
<1>4. \A q \in 0..Len(Queue) : OpenAt(q)' = OpenAt(q)
  BY <1>1, <1>2, <1>3, OpenAtKept
<1>5. /\ \A w \in Workers : DepthIs(w) /\ (Permits(w) => worker[w].depth = 0)
      /\ BetweenTxns
  BY DepthsAre
<1>6. /\ Frontier - 1 \in 0..Len(Queue)
      /\ \A w \in Workers : worker[w].at - 1 \in 0..Len(Queue)
  BY <1>1, InQueue
<1>7. Frontier' = Frontier
  BY <1>1, FrontierOfQuiet
<1>8. ASSUME NEW w \in Workers
      PROVE  DepthIs(w)' /\ (Permits(w)' => worker'[w].depth = 0)
  <2> PICK q : q = worker[w].at - 1
    OBVIOUS
  <2>1. OpenAt(q)' = OpenAt(q)
    BY <1>4, <1>6
  <2>2. /\ worker'[w].at - 1 = q /\ worker'[w].depth = worker[w].depth
        /\ Active(w)' <=> Active(w)
        /\ worker'[w].pc = "lock" => worker[w].pc = "lock"
    BY <1>2 DEF SamePlace, Active
  <2>3. DepthIs(w)'
    BY <1>5, <2>1, <2>2 DEF DepthIs
  <2>4. Permits(w)' => Permits(w)
    BY <1>1, PermitsOfQuiet
  <2> QED BY <1>5, <2>2, <2>3, <2>4
<1>9. ASSUME NEW w \in Workers', w \notin Workers
      PROVE  DepthIs(w)' /\ (Permits(w)' => worker'[w].depth = 0)
  <2>1. StartWriting /\ worker'[w] = NewWorker(start)
    BY <1>2, <1>9
  <2>2. start # 0 /\ mark # "delimiter"
    BY <1>1, <2>1 DEF StartWriting, CleanInv, ExchangeInv, OneWorker
  <2>3. Frontier = start
    BY <2>2 DEF Frontier
  <2>4. OpenAt(Frontier - 1) = 0 /\ OpenAt(Frontier - 1)' = OpenAt(Frontier - 1)
    <3> PICK f : f = Frontier - 1
      OBVIOUS
    <3>1. OpenAt(f) = 0 /\ OpenAt(f)' = OpenAt(f)
      BY <1>4, <1>5, <1>6, <2>2 DEF BetweenTxns
    <3> QED BY <1>7, <3>1
  <2>5. /\ worker'[w].at = start /\ worker'[w].depth = 0 /\ worker'[w].pc = "lock"
        /\ worker'[w].status = "none"
    BY <2>1 DEF NewWorker
  <2>6. OpenAt(worker[w].at - 1)' = 0
    <3> PICK f : f = start - 1
      OBVIOUS
    <3>1. OpenAt(f)' = 0
      BY <1>4, <1>6, <2>3, <2>4
    <3>2. worker'[w].at - 1 = f
      BY <2>5
    <3> QED BY <3>1, <3>2
  <2> QED BY <2>5, <2>6 DEF DepthIs, Active, Permits
<1>10. BetweenTxns'
  <2> PICK f : f = Frontier - 1
    OBVIOUS
  <2>1. OpenAt(f)' = OpenAt(f) /\ Frontier' - 1 = f
    BY <1>4, <1>6, <1>7
  <2> QED BY <1>3, <1>5, <2>1 DEF BetweenTxns
<1> QED BY <1>8, <1>9, <1>10, DepthsWillBe

\* A step that leaves the workers where they are.
LEMMA DepthsOfStill ==
    ASSUME WholeInv, WholeInv', Depths, WorkersAt, UNCHANGED <<program, calls, mark, start, current>>,
           \A w \in Workers : Permits(w)' => Permits(w)
    PROVE  Depths'
<1>1. CleanInv /\ Positions /\ AtValue
  BY DEF WholeInv
<1>2. /\ Frontier' = Frontier /\ Queue' = Queue
      /\ \A w \in Workers : Active(w)' <=> Active(w)
  BY <1>1, PlaceStays
<1>3. \A q : OpenAt(q)' = OpenAt(q)
  BY <1>2 DEF OpenAt
<1>4. /\ \A w \in Workers : DepthIs(w) /\ (Permits(w) => worker[w].depth = 0)
      /\ BetweenTxns
  BY DepthsAre
<1>5. ASSUME NEW w \in Workers'
      PROVE  DepthIs(w)' /\ (Permits(w)' => worker'[w].depth = 0)
  <2> PICK q : q = worker[w].at - 1
    OBVIOUS
  <2>1. /\ w \in Workers /\ worker'[w].at - 1 = q /\ worker'[w].depth = worker[w].depth
        /\ OpenAt(q)' = OpenAt(q) /\ (Active(w)' <=> Active(w)) /\ worker'[w].pc = worker[w].pc
    BY <1>2, <1>3, <1>5 DEF WorkersAt
  <2>2. DepthIs(w)'
    BY <1>4, <2>1 DEF DepthIs
  <2> QED BY <1>4, <2>1, <2>2
<1>6. BetweenTxns'
  <2> PICK f : f = Frontier - 1
    OBVIOUS
  <2>1. OpenAt(f)' = OpenAt(f) /\ Frontier' - 1 = f
    BY <1>2, <1>3
  <2> QED BY <1>4, <2>1 DEF BetweenTxns
<1> QED BY <1>5, <1>6, DepthsWillBe

LEMMA StillPermits ==
    ASSUME CleanInv, RunCallbacks \/ OwnStep
    PROVE  program' = program /\ \A w \in Workers : Permits(w)' => Permits(w)
<1>1. CASE RunCallbacks
  <2> DEFINE r == [worker[js.worker] EXCEPT !.finished = TRUE]
  <2>1. worker' = [worker EXCEPT ![js.worker] = r]
    BY <1>1 DEF RunCallbacks
  <2>2. \A v \in Workers : worker'[v] = IF v = js.worker THEN r ELSE worker[v]
    BY <2>1, UpdatedWorker
  <2>3. js.worker \in Workers => r.status = worker[js.worker].status
    BY DEF CleanInv, HandoffInv, Shapes, IsWorker, Fields
  <2> QED BY <1>1, <2>2, <2>3 DEF RunCallbacks, Permits
<1>2. CASE Finish
  <2>1. worker' = [worker EXCEPT ![current].status = "none"] \/ worker' = worker
    BY <1>2 DEF Finish
  <2> PICK status : status = "none"
    OBVIOUS
  <2>2. worker' = [worker EXCEPT ![current].status = status] \/ worker' = worker
    BY <2>1
  <2>3. \A w \in Workers : worker'[w].status \in {worker[w].status, status}
    BY <2>2, StatusOnly
  <2> QED BY <1>2, <2>3 DEF Finish, Permits
<1>3. CASE OwnStep /\ ~Finish
  <2>1. UNCHANGED <<program, worker>>
    BY <1>3 DEF OwnStep, BeginOwn, Join, WriteOwn, Nested
  <2> QED BY <2>1 DEF Permits
<1> QED BY <1>1, <1>2, <1>3

LEMMA CompressionStays ==
    ASSUME NEW n, CompressionStep(n)
    PROVE  UNCHANGED <<program, calls, mark, start, current, worker, log>>
BY DEF CompressionStep, TakeSlot, CompressValue, PublishSlot, SignalWriter,
       compressorOnly, jsVars, dbVars

LEMMA DepthsStep ==
    ASSUME WholeInv, WholeInv', Depths, [Next]_vars
    PROVE  Depths'
<1>1. CleanInv /\ Positions /\ AtValue /\ Callbacks
  BY DEF WholeInv
<1>2. CASE RunCallbacks \/ OwnStep
  <2>1. WorkersAt /\ UNCHANGED <<calls, mark, start, current>>
    <3>1. CASE RunCallbacks
      BY <1>1, <3>1, RunsCallbacks
    <3>2. CASE OwnStep
      BY <1>1, <3>2, OwnStepStays
    <3> QED BY <1>2, <3>1, <3>2
  <2>2. program' = program /\ \A w \in Workers : Permits(w)' => Permits(w)
    BY <1>1, <1>2, StillPermits
  <2> QED BY <2>1, <2>2, DepthsOfStill
<1>3. CASE UNCHANGED vars \/ \E n \in DOMAIN slot : CompressionStep(n)
  <2>1. UNCHANGED <<program, calls, mark, start, current, worker>>
    <3>1. CASE UNCHANGED vars
      BY <3>1 DEF vars
    <3>2. CASE \E n \in DOMAIN slot : CompressionStep(n)
      BY <3>2, CompressionStays
    <3> QED BY <1>3, <3>1, <3>2
  <2>2. WorkersAt /\ \A w \in Workers : Permits(w)' => Permits(w)
    BY <2>1 DEF WorkersAt, Workers, Permits
  <2> QED BY <2>1, <2>2, DepthsOfStill
<1>4. \/ QuietStep \/ (\E w \in Workers : WorkerStep(w)) \/ RunCallbacks \/ OwnStep
      \/ (\E n \in DOMAIN slot : CompressionStep(n)) \/ UNCHANGED vars
  BY Zenon DEF Next, EventLoop, SyncStep, QuietStep, OwnStep, Quiescent
<1> QED BY <1>2, <1>3, <1>4, DepthsOfQuiet, DepthsOfWorkers

LEMMA InitiallyDeep == Init => Depths
<1> SUFFICES ASSUME Init PROVE Depths
  OBVIOUS
<1>1. CleanInv /\ Len(calls) = 0 /\ Workers = {} /\ mark = "delimiter"
  BY InitiallyClean DEF Init, Workers
<1>2. Len(Queue) = 0
  BY <1>1, QueueIsOrdered DEF QueueOrder
<1>3. Frontier - 1 = 0
  BY <1>1, <1>2 DEF Frontier
<1> QED BY <1>1, <1>3, OpenAtStart DEF Depths

-----------------------------------------------------------------------------
(* What is committed of a block.                                            *)

\* What some of the lists of a list have.
SomeHas(s, e) == \E i \in 1..Len(s) : Has(s[i], e)
AllHas(s, t) == \A e : Has(t, e) <=> SomeHas(s, e)

HasUpTo(s, g, k) == IsList(g) /\ \A e : Has(g, e) <=> \E i \in 1..k : Has(s[i], e)

LEMMA FlattenHas ==
    ASSUME NEW s, IsLists(s)
    PROVE  AllHas(s, FlattenSeq(s))
<1> PICK m \in Nat : m = Len(s)
  BY DEF IsLists, IsList
<1>1. CASE m = 0
  <2>1. s = <<>>
    <3>1. IsList(s) /\ ~(Len(s) > 0)
      BY <1>1 DEF IsLists
    <3> QED BY <3>1, EmptyList, Zenon
  <2>2. \A e : ~Has(<<>>, e)
    BY DEF Has
  <2>3. \A e : ~SomeHas(s, e)
    BY <1>1 DEF SomeHas
  <2>4. \A e : ~Has(FlattenSeq(s), e)
    BY <2>1, <2>2, FlattenNone, Zenon
  <2> QED BY <2>3, <2>4 DEF AllHas
<1>2. CASE m > 0
  <2>1. PICK f : FlattenSeq(s) = f[m] /\ Flattens(s, f, m)
    BY <1>2, FlattenIs
  <2> DEFINE S == {k \in Nat : k \in 1..m => HasUpTo(s, f[k], k)}
  <2>2. 0 \in S
    OBVIOUS
  <2>3. \A k \in S : k \in Nat => k + 1 \in S
    <3> SUFFICES ASSUME NEW k \in Nat, k + 1 \in 1..m, k \in 1..m => HasUpTo(s, f[k], k)
                 PROVE  HasUpTo(s, f[k + 1], k + 1)
      OBVIOUS
    <3>1. f[k + 1] = IF k + 1 = 1 THEN s[k + 1] ELSE f[(k + 1) - 1] \o s[k + 1]
      BY <2>1 DEF Flattens
    <3>2. IsList(s[k + 1])
      BY DEF IsLists
    <3>3. CASE k = 0
      <4>1. f[k + 1] = s[k + 1] /\ 1..k + 1 = {k + 1}
        BY <3>1, <3>3
      <4> QED BY <3>2, <4>1 DEF HasUpTo
    <3>4. CASE k # 0
      <4>1. (k + 1) - 1 = k /\ k + 1 # 1 /\ k \in 1..m /\ 1..k + 1 = 1..k \cup {k + 1}
        BY <3>4
      <4>2. PICK a, b : a = f[k] /\ b = s[k + 1]
        OBVIOUS
      <4>3. IsList(a) /\ IsList(b) /\ \A e : Has(a, e) <=> \E i \in 1..k : Has(s[i], e)
        BY <3>2, <4>1, <4>2 DEF HasUpTo
      <4>4. IsList(a \o b) /\ HasEither(a, b, a \o b)
        BY <4>3, ConcatOfLists, ConcatHas
      <4>5. \A e : Has(a \o b, e) <=> \E i \in 1..k + 1 : Has(s[i], e)
        BY <4>1, <4>2, <4>3, <4>4 DEF HasEither
      <4>6. f[k + 1] = a \o b
        BY <3>1, <4>1, <4>2
      <4> QED BY <4>4, <4>5, <4>6 DEF HasUpTo
    <3> QED BY <3>3, <3>4
  <2> HIDE DEF S
  <2>4. m \in S
    BY <2>2, <2>3, NatSetInduction
  <2> QED BY <1>2, <2>1, <2>4 DEF S, HasUpTo, AllHas, SomeHas
<1> QED BY <1>1, <1>2

PutAt(q) == calls[Queue[q]] \in {"put", "zput"}
Committed(t, q) == Has(log[t], Queue[q])

\* Unsplit and BlocksAreWhole.
UnsplitAll ==
    \A a \in 1..Frontier - 1 :
        PutAt(a) /\ InBlock(a, Frontier - 1) => \A t \in 1..Len(log) : ~Committed(t, a)
Together ==
    \A a, b \in 1..Len(Queue) :
        a < b /\ PutAt(a) /\ PutAt(b) /\ InBlock(a, b) =>
            \A t \in 1..Len(log) : Committed(t, a) <=> Committed(t, b)

\* What has not been executed is not committed.
LaterNot ==
    \A q \in 1..Len(Queue) :
        q >= Frontier /\ PutAt(q) => \A t \in 1..Len(log) : ~Committed(t, q)

LEMMA RangeHas ==
    ASSUME NEW s, IsList(s), NEW e
    PROVE  e \in Range(s) <=> Has(s, e)
<1>1. DOMAIN s = 1..Len(s)
  BY DEF IsList
<1> QED BY <1>1 DEF Range, Has

LEMMA WholeBlocks ==
    ASSUME WholeInv
    PROVE  (Unsplit <=> UnsplitAll) /\ (BlocksAreWhole <=> Together)
<1>1. DOMAIN Queue = 1..Len(Queue) /\ DOMAIN log = 1..Len(log)
      /\ \A t \in DOMAIN log : IsList(log[t])
  BY QueueIs DEF WholeInv, WholeLists, WholeList, IsList
<1>2. \A t \in DOMAIN log : \A q : Queue[q] \in Range(log[t]) <=> Committed(t, q)
  BY <1>1, RangeHas, Zenon DEF Committed
<1>3. Unsplit <=> UnsplitAll
  BY <1>1, <1>2 DEF Unsplit, UnsplitAll, PutAt
<1>4. BlocksAreWhole <=> Together
  BY <1>1, <1>2 DEF BlocksAreWhole, Together, PutAt, InBlock
<1> QED BY <1>3, <1>4

\* What is committed is stored; all of the queue that is stored has been executed.
LEMMA CommittedIsStored ==
    ASSUME StoreInv
    PROVE  /\ IsLists(log) /\ IsLists(mdbx.frames) /\ IsList(FlattenSeq(log))
           /\ IsList(FlattenSeq(mdbx.frames)) /\ AllHas(log, FlattenSeq(log))
           /\ Apart(FlattenSeq(log), FlattenSeq(mdbx.frames))
           /\ \A e : Has(Flat, e) <=> Has(FlattenSeq(log), e) \/ Has(FlattenSeq(mdbx.frames), e)
           /\ \A q \in 1..Len(Queue) : PutAt(q) => (Has(Flat, Queue[q]) <=> q < Frontier)
<1>1. WholeInv /\ CleanInv /\ WholeLists /\ Contents
  BY DEF StoreInv, WholeInv
<1>2. /\ IsLists(log) /\ IsLists(mdbx.frames) /\ IsList(FlattenSeq(log))
      /\ IsList(FlattenSeq(mdbx.frames))
  BY <1>1, FlatParts
<1>3. AllHas(log, FlattenSeq(log))
  BY <1>2, FlattenHas
<1> PICK s, t : s = FlattenSeq(log) /\ t = FlattenSeq(mdbx.frames)
  OBVIOUS
<1>4. IsList(s) /\ IsList(t) /\ Flat = s \o t
  BY <1>2 DEF Flat
<1>5. HasEither(s, t, s \o t) /\ (NoRepeats(s \o t) => Apart(s, t))
  BY <1>4, ConcatHas, ConcatNoRepeats
<1>6. NoRepeats(Flat) /\ \A q \in 1..Len(Queue) : Has(Flat, Queue[q]) <=> Done(q) /\ calls[Queue[q]] \in StoredKinds
  BY <1>1 DEF Contents
<1>7. ASSUME NEW q \in 1..Len(Queue), PutAt(q)
      PROVE  Has(Flat, Queue[q]) <=> q < Frontier
  <2>1. Done(q) <=> IF IsCallback(q) THEN Place(q) <= ran ELSE q < Frontier
    BY <1>1, DoneIs
  <2>2. ~IsCallback(q) /\ calls[Queue[q]] \in StoredKinds
    BY <1>7 DEF PutAt, IsCallback, CallbackKinds, StoredKinds
  <2> QED BY <1>6, <2>1, <2>2
<1>8. \A e : Has(Flat, e) <=> Has(s, e) \/ Has(t, e)
  BY <1>4, <1>5 DEF HasEither
<1> QED BY <1>2, <1>3, <1>4, <1>5, <1>6, <1>7, <1>8

LEMMA LaterIsNot == StoreInv => LaterNot
<1> SUFFICES ASSUME StoreInv, NEW q \in 1..Len(Queue), q >= Frontier, PutAt(q),
                    NEW t \in 1..Len(log), Committed(t, q)
             PROVE  FALSE
  BY DEF LaterNot
<1>1. Has(FlattenSeq(log), Queue[q])
  BY CommittedIsStored DEF AllHas, SomeHas, Committed
<1>2. q < Frontier
  BY <1>1, CommittedIsStored
<1>3. Frontier \in Nat /\ q \in Nat
  BY InQueue DEF StoreInv, WholeInv
<1> QED BY <1>2, <1>3

SamePuts(n) ==
    /\ \A q \in 1..n : PutAt(q)' <=> PutAt(q)
    /\ \A a, b \in 1..n : a <= b => (InBlock(a, b)' <=> InBlock(a, b))
    /\ log' = log => \A q \in 1..n : \A t : Committed(t, q)' <=> Committed(t, q)

LEMMA PutsKept ==
    ASSUME CleanInv, CallsKept
    PROVE  SamePuts(Len(Queue))
<1> PICK n \in Nat : n = Len(Queue)
  BY QueueIs
<1>1. \A q \in 1..n : Queue'[q] = Queue[q] /\ calls'[Queue'[q]] = calls[Queue[q]]
  BY QueueIs DEF CallsKept
<1>2. \A q \in 1..n : PutAt(q)' <=> PutAt(q)
  BY <1>1 DEF PutAt
<1>3. log' = log => \A q \in 1..n : \A t : Committed(t, q)' <=> Committed(t, q)
  BY <1>1 DEF Committed
<1>4. ASSUME NEW a \in 1..n, NEW b \in 1..n, a <= b
      PROVE  InBlock(a, b)' <=> InBlock(a, b)
  <2>1. \A c \in 1..a : c \in 1..n /\ \A d \in c..b : d \in 1..n
    BY <1>4
  <2>2. \A c \in 1..a : /\ calls'[Queue'[c]] = calls[Queue[c]]
                        /\ \A d \in c..b : calls'[Queue'[d]] = calls[Queue[d]]
    BY <1>1, <2>1
  <2> QED BY <2>2 DEF InBlock
<1> QED BY <1>2, <1>3, <1>4 DEF SamePuts

LEMMA StartsInside ==
    ASSUME NEW a \in Nat, a > 0, NEW f \in Nat, NEW b \in Nat, a < f, f <= b
    PROVE  a \in 1..(f - 1) /\ \A c \in 1..a : \A d \in c..(f - 1) : d \in c..b
OBVIOUS

LEMMA NextInside ==
    ASSUME NEW n \in Nat, NEW f \in 1..n + 1, NEW g, g = f \/ (g = f + 1 /\ g \in 1..n + 1)
    PROVE  /\ g \in {f, f + 1} /\ g \in Nat /\ g - 1 \in 0..n
           /\ f \in Nat /\ (f <= g - 1 \/ f - 1 = g - 1)
OBVIOUS

LEMMA BothInside ==
    ASSUME NEW n \in Nat, NEW g \in Nat, g - 1 \in 0..n, NEW m \in Nat,
           NEW a \in 1..m, NEW b \in 1..m, a < b, b < g
    PROVE  a \in 1..n /\ b \in 1..n /\ a <= b
OBVIOUS

LEMMA PlaceInside ==
    ASSUME NEW n \in Nat, NEW g \in Nat, g - 1 \in 0..n, NEW a \in 1..(g - 1)
    PROVE  a \in 1..n /\ g - 1 \in 1..n /\ a <= g - 1 /\ a \in Nat /\ a > 0 /\ g - 1 \in Nat
OBVIOUS

\* What is not committed: nothing of what is executed later, nothing of an
\* open block; so of a block all or nothing, if it is so of what is executed.
LEMMA TogetherWillBe ==
    ASSUME StoreInv', UnsplitAll', NEW f, f = Frontier',
           \A a, b \in 1..Len(Queue') :
              a < b /\ b < f /\ PutAt(a)' /\ PutAt(b)' /\ InBlock(a, b)' =>
                 \A t \in 1..Len(log') : Committed(t, a)' <=> Committed(t, b)'
    PROVE  Together'
<1>1. LaterNot'
  BY LaterIsNot, PTL
<1>2. QueueOrder'
  <2>1. CleanInv'
    BY DEF StoreInv, WholeInv
  <2> QED BY <2>1, QueueIsOrdered, PTL
<1> PICK n : n = Len(Queue')
  OBVIOUS
<1>3. n \in Nat /\ f \in 1..n + 1
  BY <1>2 DEF QueueOrder, StoreInv, WholeInv, Positions
<1>4. ASSUME NEW a \in 1..n, NEW b \in 1..n, a < b, f <= b, PutAt(a)', PutAt(b)', InBlock(a, b)',
             NEW t \in 1..Len(log')
      PROVE  ~Committed(t, a)' /\ ~Committed(t, b)'
  <2>1. ~Committed(t, b)'
    BY <1>1, <1>3, <1>4 DEF LaterNot
  <2>2. CASE f <= a
    BY <1>1, <1>3, <1>4, <2>1, <2>2 DEF LaterNot
  <2>3. CASE a < f
    <3> PICK g : g = f - 1
      OBVIOUS
    <3>1. a \in 1..g /\ \A c \in 1..a : \A d \in c..g : d \in c..b
      <4>1. a \in Nat /\ a > 0 /\ f \in Nat /\ b \in Nat
        BY <1>3
      <4> QED BY <1>4, <2>3, <4>1, StartsInside
    <3>2. InBlock(a, g)'
      BY <1>4, <3>1 DEF InBlock
    <3>3. ~Committed(t, a)'
      BY <1>4, <3>1, <3>2 DEF UnsplitAll
    <3> QED BY <2>1, <3>3
  <2> QED BY <1>3, <2>2, <2>3
<1>5. ASSUME NEW a \in 1..n, NEW b \in 1..n, a < b, PutAt(a)', PutAt(b)', InBlock(a, b)',
             NEW t \in 1..Len(log')
      PROVE  Committed(t, a)' <=> Committed(t, b)'
  <2>1. CASE b < f
    BY <1>5, <2>1
  <2>2. CASE f <= b
    BY <1>4, <1>5, <2>2
  <2> QED BY <1>3, <2>1, <2>2
<1> QED BY <1>5 DEF Together

\* A step that commits nothing: it executes an instruction at most.
LEMMA BlocksStay ==
    ASSUME StoreInv, StoreInv', UnsplitAll, Together, CallsKept, log' = log,
           Frontier' = Frontier \/ (Frontier' = Frontier + 1 /\ calls' = calls)
    PROVE  UnsplitAll' /\ Together'
<1>1. CleanInv /\ CleanInv' /\ Positions /\ Positions' /\ LaterNot
  BY LaterIsNot DEF StoreInv, WholeInv
<1> PICK n, f, g : n = Len(Queue) /\ f = Frontier /\ g = Frontier'
  OBVIOUS
<1>2. /\ n \in Nat /\ f \in 1..n + 1 /\ g \in {f, f + 1} /\ g \in Nat /\ g - 1 \in 0..n
      /\ f \in Nat /\ (f <= g - 1 \/ f - 1 = g - 1)
  <2>1. n \in Nat /\ f \in 1..n + 1 /\ (g = f \/ (g = f + 1 /\ calls' = calls))
    BY <1>1, QueueIs DEF Positions
  <2>2. calls' = calls => g \in 1..n + 1
    BY <1>1, SameQueue DEF Positions
  <2> QED BY <2>1, <2>2, NextInside
<1>3. SamePuts(n)
  BY <1>1, PutsKept
<1>4. ASSUME NEW a \in 1..g - 1, PutAt(a)', InBlock(a, g - 1)', NEW t \in 1..Len(log')
      PROVE  ~Committed(t, a)'
  <2>1. a \in 1..n /\ g - 1 \in 1..n /\ a <= g - 1 /\ a \in Nat /\ a > 0 /\ g - 1 \in Nat
    BY <1>2, PlaceInside
  <2>2. PutAt(a) /\ InBlock(a, g - 1) /\ (Committed(t, a)' <=> Committed(t, a))
    BY <1>3, <1>4, <2>1 DEF SamePuts
  <2>3. CASE a < f
    <3> PICK h : h = f - 1
      OBVIOUS
    <3>1. a \in 1..h /\ \A c \in 1..a : \A d \in c..h : d \in c..(g - 1)
      <4> PICK q : q = g - 1
        OBVIOUS
      <4>1. CASE f <= q
        <5>1. q \in Nat /\ a \in Nat /\ a > 0 /\ f \in Nat
          BY <1>2, <2>1
        <5>2. a \in 1..(f - 1) /\ \A c \in 1..a : \A d \in c..(f - 1) : d \in c..q
          BY <2>3, <4>1, <5>1, StartsInside
        <5> QED BY <5>2
      <4>2. CASE h = q
        BY <2>1, <4>2
      <4> QED BY <1>2, <4>1, <4>2
    <3>2. InBlock(a, h)
      BY <2>2, <3>1 DEF InBlock
    <3> QED BY <1>4, <2>2, <3>1, <3>2 DEF UnsplitAll
  <2>4. CASE f <= a
    BY <1>1, <1>4, <2>1, <2>2, <2>4 DEF LaterNot
  <2> QED BY <1>2, <2>1, <2>3, <2>4
<1>5. UnsplitAll'
  BY <1>4 DEF UnsplitAll
<1>6. ASSUME NEW a \in 1..Len(Queue'), NEW b \in 1..Len(Queue'), a < b, b < g,
             PutAt(a)', PutAt(b)', InBlock(a, b)', NEW t \in 1..Len(log')
      PROVE  Committed(t, a)' <=> Committed(t, b)'
  <2>1. a \in 1..n /\ b \in 1..n /\ a <= b
    <3>1. Len(Queue') \in Nat
      <4>1. QueueOrder'
        BY <1>1, QueueIsOrdered, PTL
      <4> QED BY <4>1 DEF QueueOrder
    <3> QED BY <1>2, <1>6, <3>1, BothInside
  <2>2. /\ PutAt(a) /\ PutAt(b) /\ InBlock(a, b)
        /\ Committed(t, a)' <=> Committed(t, a)
        /\ Committed(t, b)' <=> Committed(t, b)
    BY <1>3, <1>6, <2>1 DEF SamePuts
  <2> QED BY <1>6, <2>1, <2>2 DEF Together
<1> QED BY <1>5, <1>6, TogetherWillBe

\* What may be committed: all or nothing of a block, and nothing of an open one.
MayAdd(x) ==
    /\ \A a, b \in 1..Len(Queue) :
          a < b /\ b < Frontier /\ PutAt(a) /\ PutAt(b) /\ InBlock(a, b) =>
             (Has(x, Queue[a]) <=> Has(x, Queue[b]))
    /\ \A a \in 1..Frontier - 1 :
          PutAt(a) /\ InBlock(a, Frontier - 1) => ~Has(x, Queue[a])

LEMMA BlocksCommitted ==
    ASSUME StoreInv, StoreInv', UnsplitAll, Together, calls' = calls, Frontier' = Frontier,
           NEW x, log' = Append(log, x), MayAdd(x)
    PROVE  UnsplitAll' /\ Together'
<1>1. CleanInv /\ IsList(log)
  BY DEF StoreInv, WholeInv, WholeLists
<1> PICK m \in Nat : m = Len(log)
  BY <1>1 DEF IsList
<1>2. Len(log') = m + 1 /\ log'[m + 1] = x /\ \A t \in 1..m : log'[t] = log[t]
  BY <1>1, AppendedList
<1>3. Queue' = Queue
  BY SameQueue
<1>4. \A t \in 1..Len(log'), q \in Nat :
         Committed(t, q)' <=> \/ t \in 1..m /\ Committed(t, q)
                              \/ t \notin 1..m /\ Has(x, Queue[q])
  BY <1>2, <1>3 DEF Committed
<1>5. \A a, b : (PutAt(a)' <=> PutAt(a)) /\ (InBlock(a, b)' <=> InBlock(a, b))
  BY <1>3 DEF PutAt, InBlock
<1> PICK f, g, n : f = Frontier /\ g = f - 1 /\ n = Len(Queue)
  OBVIOUS
<1>6. f \in Nat /\ g \in Nat /\ n \in Nat
  BY <1>1, InQueue DEF StoreInv, WholeInv
<1>7. UnsplitAll'
  <2>1. ASSUME NEW a \in 1..g, PutAt(a)', InBlock(a, g)', NEW t \in 1..Len(log')
        PROVE  ~Committed(t, a)'
    BY <1>4, <1>5, <1>6, <2>1 DEF UnsplitAll, MayAdd
  <2>2. Frontier' - 1 = g
    OBVIOUS
  <2> QED BY <2>1, <2>2 DEF UnsplitAll
<1>8. ASSUME NEW a \in 1..Len(Queue'), NEW b \in 1..Len(Queue'), a < b, b < f,
             PutAt(a)', PutAt(b)', InBlock(a, b)', NEW t \in 1..Len(log')
      PROVE  Committed(t, a)' <=> Committed(t, b)'
  <2>1. a \in 1..n /\ b \in 1..n /\ a \in Nat /\ b \in Nat
    BY <1>3, <1>6
  <2>2. PutAt(a) /\ PutAt(b) /\ InBlock(a, b)
    BY <1>5, <1>8
  <2>3. t \in 1..m => (Committed(t, a) <=> Committed(t, b))
    BY <1>8, <2>1, <2>2 DEF Together
  <2>4. Has(x, Queue[a]) <=> Has(x, Queue[b])
    BY <1>8, <2>1, <2>2 DEF MayAdd
  <2> QED BY <1>4, <2>1, <2>3, <2>4
<1> QED BY <1>7, <1>8, TogetherWillBe

\* The worker commits between blocks.
LEMMA WorkerMayAdd ==
    ASSUME StoreInv, Together, EndsCloseBlocks(program), Len(mdbx.frames) = 1,
           OpenAt(Frontier - 1) = 0
    PROVE  MayAdd(mdbx.frames[1])
<1> PICK x, s, f, n : x = mdbx.frames[1] /\ s = FlattenSeq(log) /\ f = Frontier /\ n = Len(Queue)
  OBVIOUS
<1>1. CleanInv /\ n \in Nat /\ f \in Nat /\ f - 1 \in 0..n
  BY InQueue DEF StoreInv, WholeInv
<1>2. /\ AllHas(log, s) /\ Apart(s, x) /\ \A e : Has(Flat, e) <=> Has(s, e) \/ Has(x, e)
      /\ \A q \in 1..n : PutAt(q) => (Has(Flat, Queue[q]) <=> q < f)
  <2>1. IsLists(mdbx.frames)
    BY CommittedIsStored
  <2>2. FlattenSeq(mdbx.frames) = x
    BY <2>1, FlattenSingle
  <2> QED BY <2>2, CommittedIsStored
<1>3. ASSUME NEW a \in 1..f - 1, InBlock(a, f - 1)
      PROVE  FALSE
  <2> PICK g : g = f - 1
    OBVIOUS
  <2>1. a \in 1..n /\ g \in 1..n /\ a <= g
    BY <1>1
  <2>2. OpenAt(g) > 0
    BY <1>1, <1>3, <2>1, OpenInBlock
  <2> QED BY <2>2
<1>4. ASSUME NEW a \in 1..n, NEW b \in 1..n, a < b, b < f, PutAt(a), PutAt(b), InBlock(a, b)
      PROVE  Has(x, Queue[a]) <=> Has(x, Queue[b])
  <2>1. a < f
    BY <1>1, <1>4
  <2>2. /\ Has(s, Queue[a]) \/ Has(x, Queue[a])
        /\ Has(s, Queue[b]) \/ Has(x, Queue[b])
    BY <1>2, <1>4, <2>1
  <2>3. ~(Has(s, Queue[a]) /\ Has(x, Queue[a])) /\ ~(Has(s, Queue[b]) /\ Has(x, Queue[b]))
    BY <1>2 DEF Apart
  <2>4. Has(s, Queue[a]) <=> Has(s, Queue[b])
    <3>1. \A t \in 1..Len(log) : Has(log[t], Queue[a]) <=> Has(log[t], Queue[b])
      BY <1>4 DEF Together, Committed
    <3> QED BY <1>2, <3>1 DEF AllHas, SomeHas
  <2> QED BY <2>2, <2>3, <2>4
<1> QED BY <1>3, <1>4 DEF MayAdd

\* JavaScript commits nothing of the queue.
LEMMA OwnMayAdd ==
    ASSUME NEW x, \A q \in 1..Len(Queue) : ~Has(x, Queue[q]), CleanInv, Positions
    PROVE  MayAdd(x)
<1>1. \A a \in 1..Frontier - 1 : a \in 1..Len(Queue)
  <2> PICK f, n : f = Frontier /\ n = Len(Queue)
    OBVIOUS
  <2>1. n \in Nat /\ f \in Nat /\ f - 1 \in 0..n
    BY InQueue
  <2> QED BY <2>1
<1> QED BY <1>1 DEF MayAdd

-----------------------------------------------------------------------------
(* Blocks, in every program that is not Entangled and whose ends close them. *)

BlockInv == StorageInv /\ Depths /\ UnsplitAll /\ Together

LEMMA NothingOpen ==
    ASSUME WholeInv, Depths, NEW w \in Workers, Interrupt(w) \/ Commit(w)
    PROVE  OpenAt(Frontier - 1) = 0 /\ InTxn(w)
<1>1. CleanInv /\ Positions /\ BetweenTxns
      /\ \A v \in Workers : DepthIs(v) /\ (Permits(v) => worker[v].depth = 0)
  BY DepthsAre DEF WholeInv
<1>2. CASE Interrupt(w)
  <2>1. worker[w].pc \in {"wait", "strictWait"} /\ Permits(w)
    BY <1>2 DEF Interrupt, Woken, Permits
  <2>2. InTxn(w) /\ Active(w) /\ worker[w].pc # "commit"
    BY <2>1 DEF InTxn, TxnPcs, Active
  <2>3. Frontier = worker[w].at
    BY <1>1, <2>2, FrontierOfActive
  <2> QED BY <1>1, <2>1, <2>2, <2>3 DEF DepthIs
<1>3. CASE Commit(w)
  <2>1. worker[w].pc = "commit" /\ InTxn(w)
    BY <1>3 DEF Commit, InTxn, TxnPcs
  <2>2. CASE mark = "delimiter" \/ start # 0
    BY <1>1, <2>1, <2>2 DEF BetweenTxns
  <2>3. CASE mark # "delimiter" /\ start = 0
    <3>1. current \in Workers /\ Active(current) /\ Frontier = worker[current].at
      BY <1>1, <2>3, FrontierOfActive DEF Positions
    <3>2. current # w
      BY <2>1, <3>1 DEF Active
    <3>3. ~HasBegun(current)
      BY <1>1, <2>1, <3>1, <3>2 DEF CleanInv, ExchangeInv, OneWorker, HasBegun
    <3>4. worker[current].pc = "lock"
      BY <3>1, <3>3 DEF HasBegun, Active
    <3> QED BY <1>1, <2>1, <3>1, <3>4 DEF DepthIs
  <2> QED BY <2>2, <2>3
<1> QED BY <1>2, <1>3

LEMMA BlocksOfWorkers ==
    ASSUME BlockInv, StoreInv', EndsCloseBlocks(program), NEW w \in Workers, WorkerStep(w)
    PROVE  UnsplitAll' /\ Together'
<1>1. StoreInv /\ WholeInv /\ CleanInv /\ CleanInv' /\ Positions /\ AtValue /\ Depths
      /\ UnsplitAll /\ Together
  BY DEF BlockInv, StorageInv, StoreInv, WholeInv
<1>2. /\ UNCHANGED <<jsVars, current>> /\ ~JSHolds
      /\ Puts(w) \/ Passes(w) \/ CallsBack(w) \/ Stays(w)
  BY <1>1, WorkerMoves
<1>3. calls' = calls
  BY <1>2 DEF jsVars
<1>4. CallsKept
  BY <1>1, <1>3, CallsStay
<1>5. CASE Puts(w) \/ Passes(w) \/ CallsBack(w)
  <2>1. MovesOn(w)
    BY <1>5 DEF Puts, Passes, CallsBack
  <2>2. log' = log /\ Frontier' = Frontier + 1
    BY <1>1, <2>1, FrontierOfWorkers DEF MovesOn
  <2> QED BY <1>1, <1>3, <1>4, <2>2, BlocksStay
<1>6. CASE Stays(w)
  <2>1. Frontier' = Frontier
    BY <1>1, <1>6, FrontierOfWorkers
  <2>2. CASE log' = log
    BY <1>1, <1>4, <2>1, <2>2, BlocksStay
  <2>3. CASE Interrupt(w) \/ Commit(w)
    <3>1. OpenAt(Frontier - 1) = 0 /\ InTxn(w)
      BY <1>1, <2>3, NothingOpen
    <3>2. Len(mdbx.frames) = 1
      BY <1>1, <1>2, <3>1 DEF CleanInv, ExchangeInv, OpenTxn, WorkersTxn, JSHolds, JSInTxn
    <3>3. MayAdd(mdbx.frames[1])
      BY <1>1, <3>1, <3>2, WorkerMayAdd
    <3> PICK x : x = mdbx.frames[1]
      OBVIOUS
    <3>4. log' = Append(log, x) /\ MayAdd(x)
      BY <2>3, <3>3 DEF Interrupt, Commit
    <3> QED BY <1>1, <1>3, <2>1, <3>4, BlocksCommitted
  <2>4. CASE Begin(w)
    BY <2>2, <2>4 DEF Begin
  <2> QED BY <1>6, <2>2, <2>3, <2>4 DEF Stays
<1> QED BY <1>2, <1>5, <1>6

LEMMA BlocksOfOwn ==
    ASSUME BlockInv, StoreInv', OwnStep
    PROVE  UnsplitAll' /\ Together'
<1>1. StoreInv /\ WholeInv /\ CleanInv /\ Positions /\ JSContents /\ UnsplitAll /\ Together /\ WholeInv'
  BY DEF BlockInv, StorageInv, StoreInv, WholeInv
<1>2. /\ calls' = calls /\ Frontier' = Frontier /\ CallsKept
      /\ js.call \in DOMAIN calls /\ calls[js.call] \in SyncKinds
  BY <1>1, OwnLeavesQueue
<1>3. CASE log' = log
  BY <1>1, <1>2, <1>3, BlocksStay
<1>4. CASE Finish /\ log' # log
  <2>1. js.pc = "finish" /\ EndsItsOwn
    BY <1>1, <1>4, FinishMoves DEF EndsInWorkers
  <2> PICK x : x = mdbx.frames[1]
    OBVIOUS
  <2>2. log' = Append(log, x) /\ ~WorkersTxn /\ Outer = 1
    BY <1>4, <2>1 DEF EndsItsOwn
  <2>3. x = Own("finish", Kind, js.call)
    BY <1>1, <2>1, <2>2, OwnFrame
  <2>4. \A e : Has(x, e) => e = js.call \/ e = -js.call
    <3> PICK kind, n : kind = Kind /\ n = js.call
      OBVIOUS
    <3>1. x = Own("finish", kind, n)
      BY <2>3
    <3>2. \A e : Has(x, e) => e = n \/ e = -n
      BY <3>1, OwnHas
    <3> QED BY <3>2
  <2>5. \A q \in 1..Len(Queue) : ~Has(x, Queue[q])
    <3>1. QueueOrder
      BY <1>1, QueueIsOrdered
    <3>2. js.call \in Nat /\ js.call > 0
      BY <1>2, <3>1 DEF QueueOrder
    <3>3. \A q \in 1..Len(Queue) : Queue[q] # js.call /\ Queue[q] # -js.call
      <4>1. \A q \in 1..Len(Queue) : Queue[q] \in Nat /\ Queue[q] > 0 /\ calls[Queue[q]] \in QueuedKinds
        BY <3>1 DEF QueueOrder
      <4>2. calls[js.call] \notin QueuedKinds
        BY <1>2 DEF QueuedKinds, SyncKinds
      <4> QED BY <3>2, <4>1, <4>2
    <3> QED BY <2>4, <3>3
  <2>6. MayAdd(x)
    BY <1>1, <2>5, OwnMayAdd
  <2> QED BY <1>1, <1>2, <2>2, <2>6, BlocksCommitted
<1>5. OwnStep /\ ~Finish => log' = log
  BY DEF OwnStep, BeginOwn, Join, WriteOwn, Nested
<1> QED BY <1>3, <1>4, <1>5

LEMMA BlocksOfOthers ==
    ASSUME BlockInv, StoreInv',
           QuietStep \/ RunCallbacks \/ UNCHANGED vars \/ \E n \in DOMAIN slot : CompressionStep(n)
    PROVE  UnsplitAll' /\ Together'
<1>1. StoreInv /\ WholeInv /\ CleanInv /\ CleanInv' /\ Positions /\ AtValue /\ Callbacks
      /\ UnsplitAll /\ Together
  BY DEF BlockInv, StorageInv, StoreInv, WholeInv
<1>2. log' = log /\ Frontier' = Frontier /\ CallsKept
  <2>1. CASE QuietStep
    BY <1>1, <2>1, QuietMoves, FrontierOfQuiet
  <2>2. CASE WorkersAt /\ UNCHANGED <<calls, mark, start, current, log>>
    BY <1>1, <2>2, PlaceStays, CallsStay
  <2>3. CASE RunCallbacks
    BY <1>1, <2>2, <2>3, RunsCallbacks
  <2>4. CASE UNCHANGED vars
    BY <2>2, <2>4 DEF vars, WorkersAt, Workers
  <2>5. CASE \E n \in DOMAIN slot : CompressionStep(n)
    <3>1. UNCHANGED <<calls, mark, start, current, worker, log>>
      BY <2>5, CompressionStays, Zenon
    <3> QED BY <2>2, <3>1 DEF WorkersAt, Workers
  <2> QED BY <2>1, <2>3, <2>4, <2>5
<1> QED BY <1>1, <1>2, BlocksStay

LEMMA BlockStep ==
    ASSUME \A p \in Programs : ~Entangled(p) /\ EndsCloseBlocks(p), BlockInv, [Next]_vars
    PROVE  BlockInv'
<1>1. StorageInv /\ StorageInv' /\ Depths
  BY StorageStep DEF BlockInv
<1>2. StoreInv' /\ WholeInv /\ WholeInv'
  BY <1>1 DEF StorageInv, StoreInv
<1>3. Depths'
  BY <1>1, <1>2, DepthsStep
<1>4. EndsCloseBlocks(program)
  BY <1>2 DEF WholeInv, CleanInv, ExchangeInv, FromProgram
<1>5. \/ QuietStep \/ (\E w \in Workers : WorkerStep(w)) \/ RunCallbacks \/ OwnStep
      \/ (\E n \in DOMAIN slot : CompressionStep(n)) \/ UNCHANGED vars
  BY Zenon DEF Next, EventLoop, SyncStep, QuietStep, OwnStep, Quiescent
<1>6. UnsplitAll' /\ Together'
  BY <1>2, <1>4, <1>5, BlocksOfWorkers, BlocksOfOwn, BlocksOfOthers
<1> QED BY <1>1, <1>3, <1>6 DEF BlockInv

LEMMA InitiallyBlocks == Init => BlockInv
<1> SUFFICES ASSUME Init PROVE BlockInv
  OBVIOUS
<1>1. StorageInv /\ Depths /\ CleanInv /\ Len(log) = 0
  BY InitiallyCompressed, InitiallyDeep DEF Init, StorageInv, StoreInv, WholeInv
<1>2. UnsplitAll /\ Together
  BY <1>1 DEF UnsplitAll, Together
<1> QED BY <1>1, <1>2 DEF BlockInv

LEMMA BlocksOfBlocks == BlockInv => BlocksAreWhole
BY WholeBlocks DEF BlockInv, StorageInv, StoreInv

\* Interruptions and the ends of batches split the queue only between blocks:
\* of the writes of a batch, in whatever the worker is interrupted, all are in
\* one committed transaction or none is.
THEOREM BlocksWhole ==
    ASSUME \A p \in Programs : ~Entangled(p) /\ EndsCloseBlocks(p)
    PROVE  Spec => []BlocksAreWhole
<1>1. BlockInv /\ [Next]_vars => BlockInv'
  BY BlockStep
<1> QED BY <1>1, InitiallyBlocks, BlocksOfBlocks, PTL DEF Spec

-----------------------------------------------------------------------------
(* The types.                                                               *)

JSPcs == {"idle", "notify", "progress", "acquire", "interrupt", "begin", "join",
          "own", "nested", "finish"}
Marks == {"none", "waiting", "delimiter"}
Domains == mark \in Marks /\ start \in 0..Len(calls) /\ js.pc \in JSPcs

LEMMA NextPc ==
    ASSUME CleanInv, NEW pc, js' = [js EXCEPT !.pc = pc]
    PROVE  js'.pc = pc
BY DEF CleanInv, HandoffInv, Shapes, IsJS

LEMMA DomainsOfCalls ==
    ASSUME CleanInv, Domains, Call
    PROVE  Domains'
<1> PICK kind : Submit(kind) \/ CallSync(kind)
  BY DEF Call
<1> PICK n, s : n = Len(calls) /\ s = start
  OBVIOUS
<1>1. calls \in Seq(QueuedKinds \cup SyncKinds) /\ calls' = Append(calls, kind)
  BY DEF CleanInv, Records, Submit, CallSync, Called
<1>2. n \in Nat /\ Len(calls') = n + 1 /\ s \in 0..n
  BY <1>1 DEF Domains
<1>3. CASE Submit(kind)
  <2>1. Len(Queue) \in Nat /\ Len(Queue) <= n
    BY <1>2, QueueOfCalls, QueueIs
  <2>2. start' \in {s, Len(Queue) + 1} /\ mark' = "none"
    BY <1>3 DEF Submit
  <2>3. start' \in 0..n + 1
    BY <1>2, <2>1, <2>2
  <2>4. js' = js \/ js' = [js EXCEPT !.pc = "notify"]
    BY <1>3 DEF Submit
  <2>5. js'.pc \in JSPcs
    BY <2>4, NextPc DEF Domains, JSPcs
  <2> QED BY <1>2, <2>2, <2>3, <2>5 DEF Domains, Marks
<1>4. CASE CallSync(kind)
  <2>1. start' = s /\ mark' = mark /\ js'.pc = "acquire"
    BY <1>4 DEF CallSync
  <2>2. s \in 0..n + 1
    BY <1>2
  <2> QED BY <1>2, <2>1, <2>2 DEF Domains, JSPcs
<1> QED BY <1>3, <1>4

LEMMA DomainsStep ==
    ASSUME CleanInv, AtValue, Domains, [Next]_vars
    PROVE  Domains'
<1>1. CASE /\ calls' = calls /\ mark' \in Marks /\ start' \in {0, start} /\ js'.pc \in JSPcs
  BY <1>1, QueueIsOrdered DEF Domains, QueueOrder
<1>2. CASE Notify \/ StartWriting \/ AwaitTxn \/ RunCallbacks
  <2>1. calls' = calls /\ mark' = mark /\ start' \in {0, start} /\ (js' = js \/ js' = Idle)
    BY <1>2 DEF Notify, StartWriting, AwaitTxn, RunCallbacks, jsVars
  <2> QED BY <1>1, <2>1 DEF Domains, JSPcs, Idle
<1>3. CASE SyncStep
  <2>1. UNCHANGED <<calls, mark, start>>
    BY <1>3 DEF SyncStep, Acquire, Interrupted, BeginOwn, Join, WriteOwn, Nested, Finish
  <2>2. js' = Idle \/ \E pc \in JSPcs : js' = [js EXCEPT !.pc = pc]
    BY <1>3, Zenon DEF SyncStep, Acquire, Interrupted, BeginOwn, Join, WriteOwn, Nested, Finish, JSPcs
  <2>3. js'.pc \in JSPcs
    BY <2>2, NextPc DEF Idle, JSPcs
  <2> QED BY <1>1, <2>1, <2>3 DEF Domains
<1>4. ASSUME NEW w \in Workers, Complete(w) \/ Progress(w)
      PROVE  Domains'
  <2>1. UNCHANGED <<calls, mark, start>> /\ (js' = js \/ js'.pc = "progress")
    BY <1>4 DEF Complete, Progress, jsVars
  <2> QED BY <1>1, <2>1 DEF Domains, JSPcs
<1>5. ASSUME NEW w \in Workers, WorkerStep(w)
      PROVE  Domains'
  <2>1. Puts(w) \/ Passes(w) \/ CallsBack(w) \/ Stays(w)
    BY <1>5, WorkerMoves
  <2>2. UNCHANGED <<calls, start, js>>
    BY <1>5, WorkerMoves DEF jsVars
  <2>3. mark' \in {mark, "waiting", "delimiter"}
    BY <2>1 DEF Puts, Passes, CallsBack, Stays, MovesOn
  <2> QED BY <1>1, <2>2, <2>3 DEF Domains, Marks
<1>6. CASE UNCHANGED vars
  BY <1>1, <1>6 DEF vars, Domains
<1>7. ASSUME NEW n \in DOMAIN slot, CompressionStep(n)
      PROVE  Domains'
  <2>1. UNCHANGED <<calls, mark, start>>
    BY <1>7, CompressionStays
  <2>2. js' = js
    BY <1>7 DEF CompressionStep, TakeSlot, CompressValue, PublishSlot, SignalWriter, compressorOnly, jsVars
  <2> QED BY <1>1, <2>1, <2>2 DEF Domains
<1>8. \/ Call \/ Notify \/ StartWriting \/ AwaitTxn \/ RunCallbacks \/ SyncStep
      \/ (\E w \in Workers : Complete(w) \/ Progress(w)) \/ (\E w \in Workers : WorkerStep(w))
      \/ (\E n \in DOMAIN slot : CompressionStep(n)) \/ UNCHANGED vars
  BY Zenon DEF Next, EventLoop, Quiescent
<1> QED BY <1>2, <1>3, <1>4, <1>5, <1>6, <1>7, <1>8, DomainsOfCalls

\* The nesting is never negative in a program whose ends close blocks.
LEMMA OpenIsNatural ==
    ASSUME CleanInv, EndsCloseBlocks(program), NEW q \in 0..Len(Queue)
    PROVE  OpenAt(q) >= 0
<1>1. QueueOrder /\ FromProgram
  BY QueueIsOrdered DEF CleanInv, ExchangeInv
<1> PICK m, x, y : m = Before(q) /\ x = Len(calls) /\ y = Len(program)
  OBVIOUS
<1>2. program \in Seq(QueuedKinds \cup SyncKinds) /\ x <= y
  BY <1>1, HandoffAssumption DEF FromProgram
<1>3. y \in Nat /\ DOMAIN program = 1..y /\ x \in Nat
  BY <1>1, <1>2 DEF QueueOrder
<1>4. m \in 0..x
  BY <1>1, <1>3 DEF Before, QueueOrder
<1>5. m \in 0..y
  BY <1>2, <1>3, <1>4
<1>6. Nesting(program, m) >= 0
  BY <1>3, <1>5, NeverNegative
<1> QED BY <1>6 DEF OpenAt, Before

LEMMA NextOfAtMost ==
    ASSUME NEW n \in Nat, NEW m \in Nat, n <= m, NEW a \in Nat, a - 1 \in 0..n
    PROVE  a \in 1..m + 1
OBVIOUS

TypedInv == BlockInv /\ Domains

LEMMA TypedOfInv ==
    ASSUME \A p \in Programs : EndsCloseBlocks(p), TypedInv
    PROVE  TypeOK
<1>1. WholeInv /\ CleanInv /\ Positions /\ Callbacks /\ Domains /\ Depths
  BY DEF TypedInv, BlockInv, StorageInv, StoreInv, WholeInv
<1>2. program \in Programs /\ EndsCloseBlocks(program)
  BY <1>1 DEF CleanInv, ExchangeInv, FromProgram
<1> PICK n, m, f : n = Len(Queue) /\ m = Len(calls) /\ f = Frontier
  OBVIOUS
<1>3. n \in Nat /\ m \in Nat /\ n <= m /\ f \in Nat /\ f - 1 \in 0..n
      /\ calls \in Seq(QueuedKinds \cup SyncKinds)
  BY <1>1, QueueIsOrdered, QueueOfCalls, InQueue DEF QueueOrder, CleanInv, Records
<1>4. DOMAIN slot = DOMAIN calls
  BY <1>1, <1>3 DEF CleanInv, Records, SlotRecords, IsList, ExchangeInv, Compressions
<1>5. ran \in 0..m
  <2>1. ran \in 0..Place(f - 1) /\ Place(f - 1) \in Nat /\ Place(f - 1) <= f - 1
    BY <1>1, <1>3, CallbackPlaces DEF Callbacks, Place, Places
  <2> PICK k : k = Place(f - 1)
    OBVIOUS
  <2> QED BY <1>3, <2>1
<1>6. /\ current \in 0..Len(worker) /\ lock \in {Free, JS} \cup Workers
      /\ asleep \subseteq {JS} \cup Workers
  <2>1. Workers = 1..Len(worker) /\ Len(worker) \in Nat
    BY <1>1, WorkersAreNumbers DEF CleanInv, HandoffInv, Shapes
  <2> QED BY <1>1, <2>1 DEF CleanInv, HandoffInv, ExchangeInv, OneWorker, Asleep
<1>7. ASSUME NEW w \in Workers
      PROVE  worker[w].depth >= 0 /\ worker[w].at \in 1..m + 1
  <2> PICK a, q : a = worker[w].at /\ q = a - 1
    OBVIOUS
  <2>1. a \in Nat /\ q \in 0..n
    BY <1>1, <1>3, InQueue
  <2>2. a \in 1..m + 1
    BY <1>3, <2>1, NextOfAtMost
  <2>3. worker[w].depth = IF Active(w) THEN OpenAt(q) ELSE 0
    BY <1>1 DEF Depths
  <2>4. OpenAt(q) >= 0
    BY <1>1, <1>2, <2>1, OpenIsNatural
  <2>5. worker[w].depth >= 0
    BY <2>3, <2>4
  <2> QED BY <2>2, <2>5
<1> QED BY <1>1, <1>2, <1>3, <1>4, <1>5, <1>6, <1>7 DEF TypeOK, Domains, JSPcs, Marks

\* The types, which rest on all of it: the worker never reads past the queue,
\* passes no end of a block that was not begun, and only threads that exist
\* hold the lock or wait on the condition.
THEOREM HandoffTyped ==
    ASSUME \A p \in Programs : ~Entangled(p) /\ EndsCloseBlocks(p)
    PROVE  Spec => []TypeOK
<1>1. TypedInv /\ [Next]_vars => TypedInv'
  <2> SUFFICES ASSUME TypedInv, [Next]_vars PROVE TypedInv'
    OBVIOUS
  <2>1. BlockInv'
    BY BlockStep DEF TypedInv
  <2>2. Domains'
    BY DomainsStep DEF TypedInv, BlockInv, StorageInv, StoreInv, WholeInv
  <2> QED BY <2>1, <2>2 DEF TypedInv
<1>2. Init => TypedInv
  <2> SUFFICES ASSUME Init PROVE TypedInv
    OBVIOUS
  <2>1. Domains
    BY DEF Init, Domains, Marks, JSPcs, Idle
  <2> QED BY <2>1, InitiallyBlocks DEF TypedInv
<1>3. TypedInv => TypeOK
  BY TypedOfInv
<1> QED BY <1>1, <1>2, <1>3, PTL DEF Spec

-----------------------------------------------------------------------------
(* All of it.                                                               *)

LEMMA ContentsOfBlocks == BlockInv => ContentsInv
<1> SUFFICES ASSUME BlockInv PROVE ContentsInv
  OBVIOUS
<1>1. StorageInv /\ StoreInv /\ WholeInv /\ CleanInv /\ Slots /\ StrictLast /\ Depths /\ Unsplit
  BY SlotsAre, WholeBlocks DEF BlockInv, StorageInv, StoreInv, WholeInv
<1>2. NotYet /\ Exactly /\ Distinct /\ Ordered
  BY <1>1, StoredIs
<1>3. AllWhole
  BY <1>1 DEF AllWhole, WholeInv, WholeLists, WholeList, IsList
<1> QED BY <1>1, <1>2, <1>3 DEF ContentsInv, WholeInv

\* What the transactions contain, at every moment: DoWrites, the callbacks it
\* hands to JavaScript and the synchronous transactions leave whole units in
\* them, each write once and in order, every value that was put compressed, and
\* of an open block nothing that is committed.
THEOREM ContentsCorrect ==
    ASSUME \A p \in Programs : ~Entangled(p) /\ EndsCloseBlocks(p)
    PROVE  Spec => []ContentsInv
<1>1. BlockInv /\ [Next]_vars => BlockInv'
  BY BlockStep
<1> QED BY <1>1, InitiallyBlocks, ContentsOfBlocks, PTL DEF Spec
=============================================================================
