-------------------------- MODULE TxnHandoffProofs --------------------------
(* writingLock always has the holder the code believes it has, for every    *)
(* program; for every program that is not Entangled, JavaScript and the     *)
(* write worker hand the one transaction over cleanly.                      *)
EXTENDS TxnExchange, SequenceTheorems, FiniteSetTheorems, WellFoundedInduction, TLAPS

Fields == {"pc", "at", "depth", "txn", "finished", "status", "progress", "resume"}

\* A worker is a record; what most of its fields hold does not matter here.
IsWorker(r) == r = [f \in Fields |-> r[f]] /\ r.resume \in {"run", "strict"}

IsJS(r) == r = [f \in {"pc", "call", "worker"} |-> r[f]]

Shapes ==
    /\ Len(worker) \in Nat
    /\ worker = [w \in 1..Len(worker) |-> worker[w]]
    /\ \A w \in Workers : IsWorker(worker[w])
    /\ IsJS(js)

\* Inductive: the lock has no holder that does not exist yet.
HandoffInv ==
    /\ Shapes
    /\ lock \in {Free, JS} \cup Workers
    /\ LockHolder

Holding == {"begin", "run", "exchange", "compress", "strict", "commit"}

LEMMA WorkersAreNumbers ==
    ASSUME Shapes
    PROVE  Workers = 1..Len(worker) /\ Free \notin Workers /\ JS \notin Workers
BY DEF Shapes, Workers, Free, JS

-----------------------------------------------------------------------------
(* A step of one worker, and a step of JavaScript.                          *)

\* A worker changes, and takes or releases nobody's lock but its own.
LEMMA OneWorkerSteps ==
    ASSUME HandoffInv, NEW w \in Workers, NEW r,
           worker' = [worker EXCEPT ![w] = r], IsWorker(r), UNCHANGED js,
           \/ lock' = lock
           \/ lock = Free /\ lock' = w
           \/ lock = w /\ lock' = Free,
           lock' = w <=> r.pc \in Holding
    PROVE  HandoffInv'
<1>1. Workers' = Workers /\ Len(worker') = Len(worker)
  BY DEF Workers, HandoffInv, Shapes
<1>2. Shapes'
  BY <1>1 DEF HandoffInv, Shapes, Workers
<1>3. worker'[w] = r /\ \A v \in Workers \ {w} : worker'[v] = worker[v]
  BY DEF Workers, HandoffInv, Shapes
<1>4. lock' \in {Free, JS} \cup Workers'
  BY <1>1 DEF HandoffInv
<1>5. \A v \in Workers : lock' = v <=> WorkerHolds(v)'
  BY <1>3, WorkersAreNumbers DEF HandoffInv, LockHolder, WorkerHolds, Holding
<1>6. lock' = JS <=> JSHolds'
  BY WorkersAreNumbers DEF HandoffInv, LockHolder, JSHolds, Free, JS
<1> QED BY <1>1, <1>2, <1>4, <1>5, <1>6 DEF HandoffInv, LockHolder

\* JavaScript moves on, with or without the lock; what it does to a worker
\* leaves its place alone.
LEMMA JavaScriptSteps ==
    ASSUME HandoffInv, IsJS(js'),
           Len(worker') = Len(worker),
           worker' = [w \in 1..Len(worker) |-> worker'[w]],
           \A w \in Workers : /\ IsWorker(worker'[w])
                              /\ (worker'[w].pc \in Holding <=> worker[w].pc \in Holding),
           \/ lock' = lock
           \/ lock = Free /\ lock' = JS
           \/ lock = JS /\ lock' = Free,
           lock' = JS <=> JSHolds'
    PROVE  HandoffInv'
<1>1. Workers' = Workers
  BY DEF Workers, HandoffInv, Shapes
<1>2. Shapes'
  BY <1>1 DEF HandoffInv, Shapes, Workers
<1>3. \A v \in Workers : lock' = v <=> WorkerHolds(v)'
  BY WorkersAreNumbers DEF HandoffInv, LockHolder, WorkerHolds, Holding
<1> QED BY <1>1, <1>2, <1>3 DEF HandoffInv, LockHolder

-----------------------------------------------------------------------------
(* JavaScript.                                                              *)

\* One worker's fields other than pc.
LEMMA OtherField ==
    ASSUME Shapes, NEW w \in Workers, NEW r, IsWorker(r), r.pc = worker[w].pc,
           worker' = [worker EXCEPT ![w] = r]
    PROVE  /\ Len(worker') = Len(worker)
           /\ worker' = [v \in 1..Len(worker) |-> worker'[v]]
           /\ \A v \in Workers : IsWorker(worker'[v])
                  /\ (worker'[v].pc \in Holding <=> worker[v].pc \in Holding)
<1>1. worker' = [v \in 1..Len(worker) |-> worker'[v]] /\ DOMAIN worker' = 1..Len(worker)
  BY DEF Shapes
<1>2. Len(worker') = Len(worker)
  BY <1>1 DEF Shapes
<1>3. w \in 1..Len(worker) /\ Workers = 1..Len(worker)
  BY WorkersAreNumbers
<1>4. worker'[w] = r /\ \A v \in Workers \ {w} : worker'[v] = worker[v]
  BY <1>3 DEF Shapes
<1> QED BY <1>1, <1>2, <1>4 DEF Shapes

\* No worker at all changes.
LEMMA NoField ==
    ASSUME Shapes, UNCHANGED worker
    PROVE  /\ Len(worker') = Len(worker)
           /\ worker' = [v \in 1..Len(worker) |-> worker'[v]]
           /\ \A v \in Workers : IsWorker(worker'[v])
                  /\ (worker'[v].pc \in Holding <=> worker[v].pc \in Holding)
BY DEF Shapes

LEMMA CallStep ==
    ASSUME HandoffInv, Call
    PROVE  HandoffInv'
<1>1. IsJS(js') /\ UNCHANGED <<worker, lock>> /\ ~JSHolds /\ ~JSHolds'
  BY DEF Call, Submit, CallSync, Called, HandoffInv, Shapes, IsJS, JSHolds
<1> QED BY <1>1, NoField, JavaScriptSteps DEF HandoffInv, LockHolder

LEMMA NotifyStep ==
    ASSUME HandoffInv, Notify
    PROVE  HandoffInv'
<1>1. IsJS(js') /\ UNCHANGED <<worker, lock>> /\ ~JSHolds /\ ~JSHolds'
  BY DEF Notify, Idle, IsJS, JSHolds
<1> QED BY <1>1, NoField, JavaScriptSteps DEF HandoffInv, LockHolder

LEMMA AppendedTo ==
    ASSUME NEW n \in Nat, NEW s, s = [i \in 1..n |-> s[i]], NEW e
    PROVE  Append(s, e) = [i \in 1..n + 1 |-> IF i = n + 1 THEN e ELSE s[i]]
<1> DEFINE S == {s[i] : i \in 1..n} \cup {e}
<1>1. s \in [1..n -> S]
  OBVIOUS
<1>2. s \in Seq(S) /\ Len(s) = n
  BY <1>1, SeqDef
<1> QED BY <1>2

LEMMA StartWritingStep ==
    ASSUME HandoffInv, StartWriting
    PROVE  HandoffInv'
<1> PICK n \in Nat : n = Len(worker)
  BY DEF HandoffInv, Shapes
<1>1. worker' = [v \in 1..n + 1 |-> IF v = n + 1 THEN NewWorker(start) ELSE worker[v]]
  BY AppendedTo DEF StartWriting, HandoffInv, Shapes
<1>2. Len(worker') = n + 1 /\ Workers' = Workers \cup {n + 1} /\ n \in Nat
  BY <1>1 DEF Workers, HandoffInv, Shapes
<1>3. worker'[n + 1] = NewWorker(start) /\ \A v \in Workers : worker'[v] = worker[v]
  BY <1>1, WorkersAreNumbers DEF HandoffInv, Shapes
<1>4. IsWorker(NewWorker(start))
  BY DEF IsWorker, Fields, NewWorker
<1>5. Shapes'
  BY <1>1, <1>2, <1>3, <1>4 DEF HandoffInv, Shapes, StartWriting
<1>6. lock' = lock /\ lock # n + 1
  BY <1>2, WorkersAreNumbers DEF StartWriting, HandoffInv, Free, JS
<1>7. LockHolder'
  <2>1. ~WorkerHolds(n + 1)'
    BY <1>3 DEF WorkerHolds, NewWorker
  <2>2. \A v \in Workers : lock' = v <=> WorkerHolds(v)'
    BY <1>3, <1>6 DEF HandoffInv, LockHolder, WorkerHolds
  <2>3. lock' = JS <=> JSHolds'
    BY <1>6 DEF HandoffInv, LockHolder, JSHolds, StartWriting
  <2> QED BY <1>2, <1>6, <2>1, <2>2, <2>3 DEF LockHolder
<1> QED BY <1>2, <1>5, <1>6, <1>7 DEF HandoffInv

LEMMA CompletionStep ==
    ASSUME HandoffInv, NEW w \in Workers, Complete(w) \/ Progress(w)
    PROVE  HandoffInv'
<1>1. CASE Complete(w)
  <2> DEFINE r == [worker[w] EXCEPT !.pc = "gone"]
  <2>1. worker' = [worker EXCEPT ![w] = r] /\ UNCHANGED <<js, lock>>
    BY <1>1 DEF Complete, jsVars
  <2>2. IsWorker(r) /\ r.pc = "gone"
    BY DEF HandoffInv, Shapes, IsWorker, Fields
  <2>3. lock # w
    BY <1>1 DEF Complete, HandoffInv, LockHolder, WorkerHolds
  <2> QED BY <2>1, <2>2, <2>3, OneWorkerSteps DEF Holding
<1>2. CASE Progress(w)
  <2> DEFINE r == [worker[w] EXCEPT !.progress = FALSE]
  <2>1. worker' = [worker EXCEPT ![w] = r] /\ UNCHANGED lock /\ IsJS(js')
    BY <1>2 DEF Progress, IsJS, HandoffInv, Shapes
  <2>2. IsWorker(r) /\ r.pc = worker[w].pc
    BY DEF HandoffInv, Shapes, IsWorker, Fields
  <2>3. ~JSHolds /\ ~JSHolds'
    BY <1>2 DEF Progress, JSHolds
  <2> QED BY <2>1, <2>2, <2>3, OtherField, JavaScriptSteps DEF HandoffInv, LockHolder
<1> QED BY <1>1, <1>2

LEMMA AwaitTxnStep ==
    ASSUME HandoffInv, AwaitTxn
    PROVE  HandoffInv'
<1>1. UNCHANGED <<js, worker, lock>>
  BY DEF AwaitTxn, jsVars
<1> QED BY <1>1 DEF HandoffInv, Shapes, LockHolder, Workers, WorkerHolds, JSHolds

\* An update of a worker that keeps its place; none, if there is no such worker.
LEMMA FieldUpdate ==
    ASSUME Shapes, NEW w, NEW r, w \in Workers => IsWorker(r) /\ r.pc = worker[w].pc,
           worker' = [worker EXCEPT ![w] = r]
    PROVE  /\ Len(worker') = Len(worker)
           /\ worker' = [v \in 1..Len(worker) |-> worker'[v]]
           /\ \A v \in Workers : IsWorker(worker'[v])
                  /\ (worker'[v].pc \in Holding <=> worker[v].pc \in Holding)
<1>1. CASE w \in Workers
  BY <1>1, OtherField
<1>2. CASE w \notin Workers
  <2>1. worker' = worker
    BY <1>2, WorkersAreNumbers DEF Shapes
  <2> QED BY <2>1, NoField
<1> QED BY <1>1, <1>2

LEMMA RunCallbacksStep ==
    ASSUME HandoffInv, RunCallbacks
    PROVE  HandoffInv'
<1> DEFINE w == js.worker
           r == [worker[w] EXCEPT !.finished = TRUE]
<1>1. worker' = [worker EXCEPT ![w] = r] /\ UNCHANGED lock /\ IsJS(js')
  BY DEF RunCallbacks, Idle, IsJS
<1>2. w \in Workers => IsWorker(r) /\ r.pc = worker[w].pc
  BY DEF HandoffInv, Shapes, IsWorker, Fields
<1>3. ~JSHolds /\ ~JSHolds'
  BY DEF RunCallbacks, JSHolds, Idle
<1> QED BY <1>1, <1>2, <1>3, FieldUpdate, JavaScriptSteps DEF HandoffInv, LockHolder

LEMMA StatusUpdate ==
    ASSUME Shapes, NEW status,
           worker' = [worker EXCEPT ![current].status = status] \/ worker' = worker
    PROVE  /\ Len(worker') = Len(worker)
           /\ worker' = [v \in 1..Len(worker) |-> worker'[v]]
           /\ \A v \in Workers : IsWorker(worker'[v])
                  /\ (worker'[v].pc \in Holding <=> worker[v].pc \in Holding)
<1> DEFINE r == [worker[current] EXCEPT !.status = status]
<1>1. current \in Workers => IsWorker(r) /\ r.pc = worker[current].pc
  BY DEF Shapes, IsWorker, Fields
<1>2. CASE worker' = [worker EXCEPT ![current].status = status]
  BY <1>1, <1>2, FieldUpdate
<1>3. CASE worker' = worker
  BY <1>3, NoField
<1> QED BY <1>2, <1>3

LEMMA AcquireStep ==
    ASSUME HandoffInv, Acquire
    PROVE  HandoffInv'
<1>1. PICK status : worker' = [worker EXCEPT ![current].status = status] \/ worker' = worker
  BY DEF Acquire
<1>2. IsJS(js') /\ lock = Free /\ ~JSHolds
  BY DEF Acquire, HandoffInv, Shapes, IsJS, JSHolds
<1>3. \/ lock' = lock /\ js'.pc = "interrupt"
      \/ lock' = JS /\ js'.pc \in {"join", "begin"}
  BY DEF Acquire, HandoffInv, Shapes, IsJS
<1>4. lock' = JS <=> JSHolds'
  BY <1>2, <1>3 DEF JSHolds, Free, JS
<1> QED BY <1>1, <1>2, <1>3, <1>4, StatusUpdate, JavaScriptSteps DEF HandoffInv

LEMMA InterruptedStep ==
    ASSUME HandoffInv, Interrupted
    PROVE  HandoffInv'
<1>1. IsJS(js') /\ UNCHANGED worker /\ lock = Free /\ lock' = JS /\ JSHolds'
  BY DEF Interrupted, HandoffInv, Shapes, IsJS, JSHolds
<1> QED BY <1>1, NoField, JavaScriptSteps DEF HandoffInv

LEMMA WithinSyncStep ==
    ASSUME HandoffInv, BeginOwn \/ Join \/ WriteOwn \/ Nested
    PROVE  HandoffInv'
<1>1. IsJS(js') /\ UNCHANGED <<worker, lock>> /\ JSHolds /\ JSHolds'
  BY DEF BeginOwn, Join, WriteOwn, Nested, HandoffInv, Shapes, IsJS, JSHolds
<1> QED BY <1>1, NoField, JavaScriptSteps DEF HandoffInv, LockHolder

LEMMA FinishStep ==
    ASSUME HandoffInv, Finish
    PROVE  HandoffInv'
<1>1. worker' = [worker EXCEPT ![current].status = "none"] \/ worker' = worker
  BY DEF Finish
<1>2. IsJS(js') /\ JSHolds /\ ~JSHolds' /\ lock' = Free
  BY DEF Finish, Idle, IsJS, JSHolds
<1>3. lock = JS
  BY <1>2 DEF HandoffInv, LockHolder
<1> QED BY <1>1, <1>2, <1>3, StatusUpdate, JavaScriptSteps DEF HandoffInv, Free, JS

-----------------------------------------------------------------------------
(* The write worker.                                                        *)

\* The worker moves on and keeps what it has of the lock.
LEMMA KeepsLock ==
    ASSUME HandoffInv, NEW w \in Workers, NEW r,
           worker' = [worker EXCEPT ![w] = r], IsWorker(r),
           r.pc \in Holding <=> worker[w].pc \in Holding, UNCHANGED <<js, lock>>
    PROVE  HandoffInv'
<1>1. lock = w <=> r.pc \in Holding
  BY DEF HandoffInv, LockHolder, WorkerHolds, Holding
<1> QED BY <1>1, OneWorkerSteps

LEMMA TakesLock ==
    ASSUME HandoffInv, NEW w \in Workers, NEW r,
           worker' = [worker EXCEPT ![w] = r], IsWorker(r),
           r.pc \in Holding, lock = Free, lock' = w, UNCHANGED js
    PROVE  HandoffInv'
BY OneWorkerSteps

LEMMA ReleasesLock ==
    ASSUME HandoffInv, NEW w \in Workers, NEW r,
           worker' = [worker EXCEPT ![w] = r], IsWorker(r),
           worker[w].pc \in Holding, r.pc \notin Holding, lock' = Free, UNCHANGED js
    PROVE  HandoffInv'
<1>1. lock = w /\ lock' # w
  BY WorkersAreNumbers DEF HandoffInv, LockHolder, WorkerHolds, Holding
<1> QED BY <1>1, OneWorkerSteps

\* Steps within the lock, and steps without it.
LEMMA SteadySteps ==
    ASSUME HandoffInv, NEW w \in Workers,
           \/ Begin(w) \/ Put(w) \/ PutRaw(w) \/ CompressSelf(w) \/ StartBlock(w)
           \/ EndBlock(w) \/ UserCallback(w) \/ MarkDelimiter(w) \/ WaitAgain(w)
           \/ Interrupt(w)
    PROVE  HandoffInv'
<1> DEFINE at1 == worker[w].at + 1
<1>1. IsWorker(worker[w]) /\ w \in DOMAIN worker
  BY DEF HandoffInv, Shapes, Workers
<1>2. CASE Begin(w)
  <2> PICK id : worker' = [worker EXCEPT ![w].pc = worker[w].resume, ![w].txn = id,
                                         ![w].status = "none"]
    BY <1>2 DEF Begin
  <2> DEFINE r == [worker[w] EXCEPT !.pc = worker[w].resume, !.txn = id, !.status = "none"]
  <2>1. IsWorker(r) /\ r.pc \in {"run", "strict"} /\ worker' = [worker EXCEPT ![w] = r]
    BY <1>1 DEF IsWorker, Fields
  <2>2. worker[w].pc = "begin" /\ UNCHANGED <<js, lock>>
    BY <1>2 DEF Begin, workerOnly, jsVars
  <2> QED BY <2>1, <2>2, KeepsLock DEF Holding
<1>3. CASE Put(w) \/ CompressSelf(w)
  <2> DEFINE r == [worker[w] EXCEPT !.at = @ + 1, !.pc = "run"]
  <2>1. IsWorker(r) /\ r.pc = "run"
    BY <1>1 DEF IsWorker, Fields
  <2>2. worker' = [worker EXCEPT ![w] = r]
    BY <1>3 DEF Put, CompressSelf, PutStep
  <2>3. worker[w].pc \in Holding /\ UNCHANGED <<js, lock>>
    BY <1>3 DEF Put, CompressSelf, At, workerOnly, jsVars, Holding
  <2> QED BY <2>1, <2>2, <2>3, KeepsLock DEF Holding
<1>4. CASE PutRaw(w)
  <2> DEFINE r == [worker[w] EXCEPT !.pc = "exchange"]
  <2>1. IsWorker(r) /\ r.pc = "exchange"
    BY <1>1 DEF IsWorker, Fields
  <2>2. /\ worker' = [worker EXCEPT ![w] = r]
        /\ worker[w].pc \in Holding /\ UNCHANGED <<js, lock>>
    BY <1>4 DEF PutRaw, At, workerOnly, jsVars, Holding
  <2> QED BY <2>1, <2>2, KeepsLock DEF Holding
<1>5. CASE StartBlock(w) \/ EndBlock(w)
  <2> PICK d : worker' = [worker EXCEPT ![w].at = @ + 1, ![w].depth = d]
    BY <1>5 DEF StartBlock, EndBlock
  <2> DEFINE r == [worker[w] EXCEPT !.at = @ + 1, !.depth = d]
  <2>1. IsWorker(r) /\ r.pc = worker[w].pc /\ worker' = [worker EXCEPT ![w] = r]
    BY <1>1 DEF IsWorker, Fields
  <2>2. UNCHANGED <<js, lock>>
    BY <1>5 DEF StartBlock, EndBlock, workerOnly, jsVars
  <2> QED BY <2>1, <2>2, KeepsLock
<1>6. CASE UserCallback(w)
  <2> DEFINE r == [worker[w] EXCEPT !.at = @ + 1, !.finished = FALSE, !.pc = AfterCallback(w)]
  <2>1. IsWorker(r) /\ r.pc \in {"run", "strict"}
    BY <1>1 DEF IsWorker, Fields, AfterCallback
  <2>2. worker' = [worker EXCEPT ![w] = r]
    BY <1>6 DEF UserCallback
  <2>3. worker[w].pc \in Holding /\ UNCHANGED <<js, lock>>
    BY <1>6 DEF UserCallback, At, workerOnly, jsVars, Holding
  <2> QED BY <2>1, <2>2, <2>3, KeepsLock DEF Holding
<1>7. CASE MarkDelimiter(w)
  <2> DEFINE r == [worker[w] EXCEPT !.pc = "commit"]
  <2>1. IsWorker(r) /\ r.pc = "commit"
    BY <1>1 DEF IsWorker, Fields
  <2>2. /\ worker' = [worker EXCEPT ![w] = r]
        /\ worker[w].pc \in Holding /\ UNCHANGED <<js, lock>>
    BY <1>7 DEF MarkDelimiter, At, jsVars, Holding
  <2> QED BY <2>1, <2>2, KeepsLock DEF Holding
<1>8. CASE WaitAgain(w)
  <2>1. UNCHANGED <<js, worker, lock>>
    BY <1>8 DEF WaitAgain, workerOnly, jsVars
  <2> QED BY <2>1 DEF HandoffInv, Shapes, LockHolder, Workers, WorkerHolds, JSHolds
<1>9. CASE Interrupt(w)
  <2> DEFINE r == [worker[w] EXCEPT !.pc = "paused", !.txn = 0,
                       !.status = "RESTART_WORKER_TXN", !.resume = Resumed(w)]
  <2>1. IsWorker(r) /\ r.pc = "paused"
    BY <1>1 DEF IsWorker, Fields, Resumed
  <2>2. worker' = [worker EXCEPT ![w] = r] /\ UNCHANGED <<js, lock>>
    BY <1>9 DEF Interrupt, workerOnly, jsVars
  <2>3. worker[w].pc \notin Holding
    BY <1>9 DEF Interrupt, Woken, Holding
  <2> QED BY <2>1, <2>2, <2>3, KeepsLock DEF Holding
<1> QED BY <1>2, <1>3, <1>4, <1>5, <1>6, <1>7, <1>8, <1>9

\* WaitForCallbacks gives the lock up.
LEMMA WaitingStep ==
    ASSUME HandoffInv, NEW w \in Workers, NEW pc, pc \notin Holding,
           worker[w].pc \in Holding, WaitForCallbacks(w, pc), UNCHANGED js
    PROVE  HandoffInv'
<1> PICK progress, status :
        worker' = [worker EXCEPT ![w].pc = pc, ![w].progress = progress, ![w].status = status]
  BY DEF WaitForCallbacks
<1> DEFINE r == [worker[w] EXCEPT !.pc = pc, !.progress = progress, !.status = status]
<1>1. IsWorker(r) /\ r.pc = pc /\ worker' = [worker EXCEPT ![w] = r]
  BY DEF IsWorker, Fields, HandoffInv, Shapes
<1>2. lock' = Free
  BY DEF WaitForCallbacks
<1> QED BY <1>1, <1>2, ReleasesLock

\* Steps that take the lock or give it up.
LEMMA LockingSteps ==
    ASSUME HandoffInv, NEW w \in Workers,
           \/ Lock(w) \/ Exchange(w) \/ CompressionWait(w) \/ Strict(w)
           \/ MarkWaiting(w) \/ Resume(w) \/ Commit(w)
    PROVE  HandoffInv'
<1>1. IsWorker(worker[w]) /\ w \in DOMAIN worker
  BY DEF HandoffInv, Shapes, Workers
<1> DEFINE moved(pc) == [worker[w] EXCEPT !.pc = pc]
           put == [worker[w] EXCEPT !.at = @ + 1, !.pc = "run"]
<1>2. \A pc : IsWorker(moved(pc)) /\ moved(pc).pc = pc
  BY <1>1 DEF IsWorker, Fields
<1>3. IsWorker(put) /\ put.pc = "run"
  BY <1>1 DEF IsWorker, Fields
<1>4. CASE Lock(w)
  <2>1. /\ worker' = [worker EXCEPT ![w] = moved("begin")]
        /\ lock = Free /\ lock' = w /\ UNCHANGED js
    BY <1>4 DEF Lock, workerOnly, jsVars
  <2> QED BY <1>2, <2>1, TakesLock DEF Holding
<1>5. CASE Exchange(w)
  <2>1. worker[w].pc \in Holding /\ UNCHANGED js
    BY <1>5 DEF Exchange, Holding, jsVars
  <2>2. \/ worker' = [worker EXCEPT ![w] = moved("compress")] /\ lock' = lock
        \/ worker' = [worker EXCEPT ![w] = moved("zwait")] /\ lock' = Free
        \/ worker' = [worker EXCEPT ![w] = put] /\ lock' = lock
    BY <1>5 DEF Exchange, PutStep
  <2>3. CASE worker' = [worker EXCEPT ![w] = moved("compress")] /\ lock' = lock
    BY <1>2, <2>1, <2>3, KeepsLock DEF Holding
  <2>4. CASE worker' = [worker EXCEPT ![w] = moved("zwait")] /\ lock' = Free
    BY <1>2, <2>1, <2>4, ReleasesLock DEF Holding
  <2>5. CASE worker' = [worker EXCEPT ![w] = put] /\ lock' = lock
    BY <1>3, <2>1, <2>5, KeepsLock DEF Holding
  <2> QED BY <2>2, <2>3, <2>4, <2>5
<1>6. CASE CompressionWait(w)
  <2>1. UNCHANGED js /\ lock = Free
    BY <1>6 DEF CompressionWait, workerOnly, jsVars
  <2>2. \/ worker' = [worker EXCEPT ![w] = put] /\ lock' = w
        \/ UNCHANGED <<worker, lock>>
    BY <1>6 DEF CompressionWait, PutStep
  <2>3. CASE worker' = [worker EXCEPT ![w] = put] /\ lock' = w
    BY <1>3, <2>1, <2>3, TakesLock DEF Holding
  <2>4. CASE UNCHANGED <<worker, lock>>
    BY <2>1, <2>4 DEF HandoffInv, Shapes, LockHolder, Workers, WorkerHolds, JSHolds
  <2> QED BY <2>2, <2>3, <2>4
<1>7. CASE Strict(w)
  <2>1. worker[w].pc = "strict" /\ UNCHANGED js
    BY <1>7 DEF Strict, workerOnly, jsVars
  <2>2. CASE worker' = [worker EXCEPT ![w].pc = "run"] /\ UNCHANGED lock
    <3>1. worker' = [worker EXCEPT ![w] = moved("run")]
      BY <2>2
    <3> QED BY <1>2, <2>1, <2>2, <3>1, KeepsLock DEF Holding
  <2>3. CASE WaitForCallbacks(w, "strictWait")
    BY <2>1, <2>3, WaitingStep DEF Holding
  <2> QED BY <1>7, <2>2, <2>3 DEF Strict
<1>8. CASE MarkWaiting(w)
  <2>1. worker[w].pc \in Holding /\ UNCHANGED js /\ WaitForCallbacks(w, "wait")
    BY <1>8 DEF MarkWaiting, At, jsVars, Holding
  <2> QED BY <2>1, WaitingStep DEF Holding
<1>9. CASE Resume(w)
  <2> DEFINE r == [worker[w] EXCEPT !.pc = Resumed(w), !.status = "none"]
  <2>1. IsWorker(r) /\ r.pc \in Holding
    BY <1>1 DEF IsWorker, Fields, Resumed, Holding
  <2>2. worker' = [worker EXCEPT ![w] = r] /\ lock = Free /\ lock' = w /\ UNCHANGED js
    BY <1>9 DEF Resume, Woken, workerOnly, jsVars
  <2> QED BY <2>1, <2>2, TakesLock
<1>10. CASE Commit(w)
  <2> DEFINE r == [worker[w] EXCEPT !.pc = "done", !.txn = 0]
  <2>1. IsWorker(r) /\ r.pc = "done"
    BY <1>1 DEF IsWorker, Fields
  <2>2. /\ worker' = [worker EXCEPT ![w] = r] /\ lock' = Free /\ UNCHANGED js
        /\ worker[w].pc \in Holding
    BY <1>10 DEF Commit, workerOnly, jsVars, Holding
  <2> QED BY <2>1, <2>2, ReleasesLock DEF Holding
<1> QED BY <1>4, <1>5, <1>6, <1>7, <1>8, <1>9, <1>10

-----------------------------------------------------------------------------
(* The theorem.                                                             *)

LEMMA CompressionSteps ==
    ASSUME HandoffInv, NEW n, CompressionStep(n)
    PROVE  HandoffInv'
<1>1. UNCHANGED <<js, worker, lock>>
  BY DEF CompressionStep, TakeSlot, CompressValue, PublishSlot, SignalWriter,
         compressorOnly, jsVars
<1> QED BY <1>1 DEF HandoffInv, Shapes, LockHolder, Workers, WorkerHolds, JSHolds

LEMMA InitiallyFree == Init => HandoffInv
<1> SUFFICES ASSUME Init PROVE HandoffInv
  OBVIOUS
<1>1. Len(worker) = 0 /\ worker = [w \in 1..0 |-> worker[w]] /\ Workers = {}
  BY DEF Init, Workers
<1>2. IsJS(js) /\ ~JSHolds /\ lock = Free
  BY DEF Init, Idle, IsJS, JSHolds
<1> QED BY <1>1, <1>2 DEF HandoffInv, Shapes, LockHolder, Free, JS

LEMMA HandoffStep == HandoffInv /\ [Next]_vars => HandoffInv'
<1> SUFFICES ASSUME HandoffInv, [Next]_vars PROVE HandoffInv'
  OBVIOUS
<1>1. CASE UNCHANGED vars
  BY <1>1 DEF vars, HandoffInv, Shapes, LockHolder, Workers, WorkerHolds, JSHolds
<1>2. CASE Call
  BY <1>2, CallStep
<1>3. CASE EventLoop
  BY <1>3, NotifyStep, StartWritingStep, CompletionStep, AwaitTxnStep, RunCallbacksStep,
     AcquireStep, InterruptedStep, WithinSyncStep, FinishStep DEF EventLoop, SyncStep
<1>4. CASE \E w \in Workers : WorkerStep(w)
  BY <1>4, SteadySteps, LockingSteps DEF WorkerStep
<1>5. CASE \E n \in DOMAIN slot : CompressionStep(n)
  BY <1>5, CompressionSteps
<1>6. CASE Quiescent
  BY <1>1, <1>6 DEF Quiescent
<1> QED BY <1>1, <1>2, <1>3, <1>4, <1>5, <1>6 DEF Next

\* Whoever is between a lock and its unlock, in WriteWorker::Write, in
\* HandleProgressCallback or in a synchronous transaction, holds writingLock,
\* for every program, with every number of workers.
THEOREM LockCorrect == Spec => []LockHolder
<1>1. HandoffInv => LockHolder
  BY DEF HandoffInv
<1> QED BY InitiallyFree, HandoffStep, <1>1, PTL DEF Spec

-----------------------------------------------------------------------------
(* Lists.                                                                   *)

IsList(s) == Len(s) \in Nat /\ s = [i \in 1..Len(s) |-> s[i]]

LEMMA AppendedList ==
    ASSUME NEW s, IsList(s), NEW e
    PROVE  /\ IsList(Append(s, e)) /\ Len(Append(s, e)) = Len(s) + 1
           /\ Append(s, e)[Len(s) + 1] = e
           /\ \A i \in 1..Len(s) : Append(s, e)[i] = s[i]
           /\ Append(s, e) # <<>>
<1> PICK n \in Nat : n = Len(s)
  BY DEF IsList
<1>1. Append(s, e) = [i \in 1..n + 1 |-> IF i = n + 1 THEN e ELSE s[i]]
  BY AppendedTo DEF IsList
<1>2. Len(Append(s, e)) = n + 1
  BY <1>1
<1> QED BY <1>1, <1>2 DEF IsList

LEMMA FrontOfList ==
    ASSUME NEW s, IsList(s), s # <<>>
    PROVE  /\ IsList(Front(s)) /\ Len(Front(s)) = Len(s) - 1 /\ Len(s) > 0
           /\ \A i \in 1..Len(s) - 1 : Front(s)[i] = s[i]
<1> PICK n \in Nat : n = Len(s)
  BY DEF IsList
<1> DEFINE S == {s[i] : i \in 1..n}
<1>1. s \in Seq(S)
  <2>1. s \in [1..n -> S]
    BY DEF IsList
  <2> QED BY <2>1, SeqDef
<1>2. n > 0
  BY <1>1
<1> HIDE DEF S
<1>3. Front(s) = SubSeq(s, 1, n - 1)
  BY DEF Front
<1> QED BY <1>1, <1>2, <1>3 DEF IsList

LEMMA EmptyList == ASSUME NEW s, IsList(s) PROVE s # <<>> <=> Len(s) > 0
<1> PICK n \in Nat : n = Len(s)
  BY DEF IsList
<1>1. CASE n = 0
  <2>1. s = [i \in 1..0 |-> s[i]]
    BY <1>1 DEF IsList
  <2> QED BY <1>1, <2>1
<1>2. CASE n # 0
  <2>1. Len(<<>>) = 0
    OBVIOUS
  <2> QED BY <1>2, <2>1
<1> QED BY <1>1, <1>2

LEMMA UpdatedList ==
    ASSUME NEW s, IsList(s), NEW k, NEW e
    PROVE  IsList([s EXCEPT ![k] = e]) /\ Len([s EXCEPT ![k] = e]) = Len(s)
<1> PICK n \in Nat : n = Len(s)
  BY DEF IsList
<1> DEFINE u == [s EXCEPT ![k] = e]
<1>1. DOMAIN u = 1..n /\ u = [i \in 1..n |-> u[i]]
  BY DEF IsList
<1> HIDE DEF u
<1>2. Len(u) = n
  BY <1>1
<1>3. IsList(u) /\ Len(u) = Len(s)
  BY <1>1, <1>2 DEF IsList
<1> QED BY <1>3 DEF u

LEMMA ListIsSequence ==
    ASSUME NEW s, IsList(s)
    PROVE  s \in Seq({s[i] : i \in 1..Len(s)})
<1> PICK n \in Nat : n = Len(s)
  BY DEF IsList
<1> DEFINE S == {s[i] : i \in 1..n}
<1>1. s \in [1..n -> S]
  BY DEF IsList
<1>2. s \in Seq(S)
  BY <1>1, SeqDef
<1> QED BY <1>2

LEMMA PrefixOfList ==
    ASSUME NEW s, IsList(s), NEW k \in 0..Len(s)
    PROVE  /\ IsList(SubSeq(s, 1, k)) /\ Len(SubSeq(s, 1, k)) = k
           /\ \A i \in 1..k : SubSeq(s, 1, k)[i] = s[i]
           /\ k < Len(s) => SubSeq(s, 1, k + 1) = Append(SubSeq(s, 1, k), s[k + 1])
           /\ k = Len(s) => SubSeq(s, 1, k) = s
<1> DEFINE S == {s[i] : i \in 1..Len(s)}
<1>1. s \in Seq(S)
  BY ListIsSequence
<1> HIDE DEF S
<1> QED BY <1>1 DEF IsList

-----------------------------------------------------------------------------
(* The queue of instructions.                                               *)

\* Induction over the natural numbers.
LEMMA NatSetInduction ==
    ASSUME NEW S, 0 \in S, \A n \in S : n \in Nat => n + 1 \in S
    PROVE  Nat \subseteq S
<1> DEFINE T == Nat \ S
           R == OpToRel(<, Nat)
<1> SUFFICES ASSUME T # {} PROVE FALSE
  OBVIOUS
<1>1. IsWellFoundedOn(R, Nat)
  BY NatLessThanWellFounded, Zenon
<1>2. \A y, z \in Nat : y < z => <<y, z>> \in R
  BY DEF OpToRel
<1> HIDE DEF R
<1>3. PICK x \in T : \A y \in T : ~(<<y, x>> \in R)
  BY <1>1, WFMin
<1>4. x \in Nat /\ x # 0 /\ x \notin S
  OBVIOUS
<1>5. x - 1 \in Nat /\ x - 1 < x
  BY <1>4
<1>6. x - 1 \in S
  BY <1>2, <1>3, <1>4, <1>5
<1>7. (x - 1) + 1 \in S
  BY <1>5, <1>6
<1>8. (x - 1) + 1 = x
  BY <1>4
<1> QED BY <1>4, <1>7, <1>8

\* The recursion in Chosen.
Extended(made, list, kinds, f, i) ==
    IF i = 0 THEN <<>>
    ELSE IF made[list[i]] \in kinds THEN Append(f[i - 1], list[i]) ELSE f[i - 1]
IsUpTo(made, list, kinds, f, m) == f = [i \in 0..m |-> Extended(made, list, kinds, f, i)]

LEMMA UpToExists ==
    ASSUME NEW made, NEW list, NEW kinds, NEW n \in Nat
    PROVE  \E f : IsUpTo(made, list, kinds, f, n)
<1> DEFINE E(f, i) == Extended(made, list, kinds, f, i)
           S == {m \in Nat : \E f : IsUpTo(made, list, kinds, f, m)}
<1>1. 0 \in S
  <2>1. IsUpTo(made, list, kinds, [i \in 0..0 |-> <<>>], 0)
    BY DEF IsUpTo, Extended
  <2> QED BY <2>1
<1>2. ASSUME NEW m \in Nat, NEW f, IsUpTo(made, list, kinds, f, m)
      PROVE  \E g : IsUpTo(made, list, kinds, g, m + 1)
  <2> DEFINE g == [i \in 0..m + 1 |-> IF i = m + 1 THEN E(f, i) ELSE f[i]]
  <2>1. \A i \in 0..m : f[i] = E(f, i)
    BY <1>2 DEF IsUpTo
  <2>2. \A i \in 0..m : g[i] = f[i]
    OBVIOUS
  <2>3. g[m + 1] = E(f, m + 1)
    OBVIOUS
  <2>4. DOMAIN g = 0..m + 1 /\ g = [i \in 0..m + 1 |-> g[i]]
    OBVIOUS
  <2> HIDE DEF g
  <2>5. \A i \in 0..m + 1 : E(g, i) = E(f, i)
    <3> SUFFICES ASSUME NEW i \in 0..m + 1, i # 0 PROVE E(g, i) = E(f, i)
      BY DEF Extended
    <3>1. i - 1 \in 0..m
      OBVIOUS
    <3> QED BY <2>2, <3>1 DEF Extended
  <2>6. \A i \in 0..m + 1 : g[i] = E(g, i)
    <3> SUFFICES ASSUME NEW i \in 0..m + 1 PROVE g[i] = E(g, i)
      OBVIOUS
    <3>1. CASE i = m + 1
      BY <2>3, <2>5, <3>1
    <3>2. CASE i # m + 1
      BY <2>1, <2>2, <2>5, <3>2
    <3> QED BY <3>1, <3>2
  <2>7. IsUpTo(made, list, kinds, g, m + 1)
    BY <2>4, <2>6 DEF IsUpTo
  <2> QED BY <2>7
<1>3. \A m \in S : m \in Nat => m + 1 \in S
  BY <1>2
<1> HIDE DEF S
<1>4. n \in S
  BY <1>1, <1>3, NatSetInduction
<1> QED BY <1>4 DEF S

Chooses(made, list, kinds, f, m) ==
    /\ f[0] = <<>>
    /\ \A i \in 1..m : f[i] = IF made[list[i]] \in kinds
                              THEN Append(f[i - 1], list[i]) ELSE f[i - 1]

LEMMA ChosenIsUpTo ==
    ASSUME NEW made, NEW list, NEW kinds, NEW m \in Nat, m = Len(list)
    PROVE  \E f : Chosen(made, list, kinds) = f[m] /\ Chooses(made, list, kinds, f, m)
<1> DEFINE q == CHOOSE f : IsUpTo(made, list, kinds, f, Len(list))
<1>1. IsUpTo(made, list, kinds, q, Len(list))
  <2>1. \E f : IsUpTo(made, list, kinds, f, Len(list))
    BY UpToExists
  <2> QED BY <2>1, Zenon
<1>2. Chosen(made, list, kinds) = q[Len(list)]
  BY DEF Chosen, IsUpTo, Extended
<1> HIDE DEF q
<1>3. \A i \in 0..m : q[i] = Extended(made, list, kinds, q, i)
  BY <1>1 DEF IsUpTo
<1>4. q[0] = <<>>
  BY <1>3 DEF Extended
<1>5. \A i \in 1..m : q[i] = IF made[list[i]] \in kinds
                            THEN Append(q[i - 1], list[i]) ELSE q[i - 1]
  BY <1>3 DEF Extended
<1> QED BY <1>2, <1>4, <1>5 DEF Chooses

LEMMA ChosenNone ==
    ASSUME NEW made, NEW kinds
    PROVE  Chosen(made, <<>>, kinds) = <<>>
<1>1. Len(<<>>) = 0
  OBVIOUS
<1> QED BY <1>1, ChosenIsUpTo DEF Chooses

\* The same members, and the same kinds of them, up to some place.
LEMMA ChosenAgree ==
    ASSUME NEW made, NEW list, NEW f, NEW other, NEW list2, NEW g, NEW kinds, NEW m \in Nat,
           Chooses(made, list, kinds, f, m), Chooses(other, list2, kinds, g, m),
           \A i \in 1..m : list[i] = list2[i] /\ made[list[i]] = other[list[i]]
    PROVE  f[m] = g[m]
<1> DEFINE S == {k \in Nat : k <= m => f[k] = g[k]}
<1>1. 0 \in S
  BY DEF Chooses
<1>2. \A k \in S : k \in Nat => k + 1 \in S
  <2> SUFFICES ASSUME NEW k \in Nat, k + 1 <= m, f[k] = g[k] PROVE f[k + 1] = g[k + 1]
    OBVIOUS
  <2>1. k + 1 \in 1..m /\ (k + 1) - 1 = k
    OBVIOUS
  <2>2. f[k + 1] = IF made[list[k + 1]] \in kinds THEN Append(f[k], list[k + 1]) ELSE f[k]
    BY <2>1 DEF Chooses
  <2>3. g[k + 1] = IF other[list2[k + 1]] \in kinds THEN Append(g[k], list2[k + 1]) ELSE g[k]
    BY <2>1 DEF Chooses
  <2>4. list[k + 1] = list2[k + 1] /\ made[list[k + 1]] = other[list[k + 1]]
    BY <2>1
  <2> QED BY <2>2, <2>3, <2>4
<1> HIDE DEF S
<1>3. m \in S
  BY <1>1, <1>2, NatSetInduction
<1> QED BY <1>3 DEF S

ChoosesNext(made, list, kinds, e) ==
    /\ made[e] \in kinds =>
          Chosen(made, Append(list, e), kinds) = Append(Chosen(made, list, kinds), e)
    /\ made[e] \notin kinds =>
          Chosen(made, Append(list, e), kinds) = Chosen(made, list, kinds)
LEMMA ChosenAppend ==
    ASSUME NEW made, NEW list, IsList(list), NEW e, NEW kinds
    PROVE  ChoosesNext(made, list, kinds, e)
<1> PICK m \in Nat : m = Len(list)
  BY DEF IsList
<1> DEFINE longer == Append(list, e)
<1>1. Len(longer) = m + 1 /\ longer[m + 1] = e /\ \A i \in 1..m : longer[i] = list[i]
  BY AppendedList
<1> HIDE DEF longer
<1>2. PICK f : Chosen(made, list, kinds) = f[m] /\ Chooses(made, list, kinds, f, m)
  BY ChosenIsUpTo
<1>3. PICK g : Chosen(made, longer, kinds) = g[m + 1] /\ Chooses(made, longer, kinds, g, m + 1)
  BY <1>1, ChosenIsUpTo
<1>4. Chooses(made, longer, kinds, g, m)
  BY <1>3 DEF Chooses
<1>5. f[m] = g[m]
  BY <1>1, <1>2, <1>4, ChosenAgree
<1>6. g[m + 1] = IF made[e] \in kinds THEN Append(g[m], e) ELSE g[m]
  <2>1. m + 1 \in 1..m + 1 /\ (m + 1) - 1 = m
    OBVIOUS
  <2> QED BY <1>1, <1>3, <2>1 DEF Chooses
<1> QED BY <1>2, <1>3, <1>5, <1>6 DEF longer, ChoosesNext

SameKinds(made, other, list) == \A i \in 1..Len(list) : made[list[i]] = other[list[i]]
LEMMA ChosenOfOther ==
    ASSUME NEW made, NEW other, NEW list, IsList(list), NEW kinds, SameKinds(made, other, list)
    PROVE  Chosen(made, list, kinds) = Chosen(other, list, kinds)
<1> PICK m \in Nat : m = Len(list)
  BY DEF IsList
<1>1. PICK f : Chosen(made, list, kinds) = f[m] /\ Chooses(made, list, kinds, f, m)
  BY ChosenIsUpTo
<1>2. PICK g : Chosen(other, list, kinds) = g[m] /\ Chooses(other, list, kinds, g, m)
  BY ChosenIsUpTo
<1>3. f[m] = g[m]
  <2>1. \A i \in 1..m : list[i] = list[i] /\ made[list[i]] = other[list[i]]
    BY DEF SameKinds
  <2> QED BY <1>1, <1>2, <2>1, ChosenAgree
<1> QED BY <1>1, <1>2, <1>3

\* What is chosen from a longer and longer part of a list.
UpTo(made, list, kinds, k) == Chosen(made, SubSeq(list, 1, k), kinds)
ChosenFrom(made, list, kinds, k) ==
    LET upTo(i) == UpTo(made, list, kinds, i) IN
    /\ IsList(upTo(k)) /\ Len(upTo(k)) <= k
    /\ \A j \in 1..Len(upTo(k)) :
          \E i \in 1..k : made[list[i]] \in kinds /\ upTo(k)[j] = list[i] /\ Len(upTo(i)) = j
    /\ \A i \in 0..k : Len(upTo(i)) <= Len(upTo(k))
    /\ \A i \in 1..k : made[list[i]] \in kinds =>
          /\ Len(upTo(i)) \in 1..Len(upTo(k)) /\ upTo(k)[Len(upTo(i))] = list[i]
          /\ Len(upTo(i - 1)) = Len(upTo(i)) - 1

LEMMA ChosenUpTo ==
    ASSUME NEW made, NEW list, IsList(list), NEW kinds, NEW upto \in 0..Len(list)
    PROVE  ChosenFrom(made, list, kinds, upto)
<1> DEFINE C(k) == UpTo(made, list, kinds, k)
           P(k) == ChosenFrom(made, list, kinds, k)
           N == {k \in Nat : k <= Len(list) => P(k)}
<1> PICK m \in Nat : m = Len(list)
  BY DEF IsList
<1>1. C(0) = <<>>
  <2>1. SubSeq(list, 1, 0) = <<>>
    BY ListIsSequence
  <2> QED BY <2>1, ChosenNone DEF UpTo
<1>2. \A k \in 0..m - 1 :
         /\ made[list[k + 1]] \in kinds => C(k + 1) = Append(C(k), list[k + 1])
         /\ made[list[k + 1]] \notin kinds => C(k + 1) = C(k)
  <2> TAKE k \in 0..m - 1
  <2>0. k \in 0..Len(list) /\ k < Len(list)
    OBVIOUS
  <2>1. /\ SubSeq(list, 1, k + 1) = Append(SubSeq(list, 1, k), list[k + 1])
        /\ IsList(SubSeq(list, 1, k))
    BY <2>0, PrefixOfList
  <2> PICK l : l = SubSeq(list, 1, k) /\ IsList(l)
    BY <2>1
  <2> PICK e : e = list[k + 1]
    OBVIOUS
  <2>2. /\ made[e] \in kinds => Chosen(made, Append(l, e), kinds) = Append(Chosen(made, l, kinds), e)
        /\ made[e] \notin kinds => Chosen(made, Append(l, e), kinds) = Chosen(made, l, kinds)
    BY ChosenAppend DEF ChoosesNext
  <2>3. Chosen(made, SubSeq(list, 1, k + 1), kinds) = Chosen(made, Append(l, e), kinds)
    BY <2>1
  <2> QED BY <2>2, <2>3 DEF UpTo
<1> HIDE DEF C
<1>3. P(0)
  <2> USE DEF ChosenFrom, C
  <2>1. IsList(<<>>) /\ Len(<<>>) = 0
    BY DEF IsList
  <2>2. IsList(C(0)) /\ Len(C(0)) = 0
    BY <1>1, <2>1, Zenon
  <2> QED BY <2>2
<1> HIDE DEF P
<1>4. \A k \in N : k \in Nat => k + 1 \in N
  <2> SUFFICES ASSUME NEW k \in Nat, k + 1 <= m, P(k) PROVE P(k + 1)
    OBVIOUS
  <2>0. /\ IsList(C(k)) /\ Len(C(k)) <= k
        /\ \A j \in 1..Len(C(k)) :
              \E i \in 1..k : made[list[i]] \in kinds /\ C(k)[j] = list[i] /\ Len(C(i)) = j
        /\ \A i \in 0..k : Len(C(i)) <= Len(C(k))
        /\ \A i \in 1..k : made[list[i]] \in kinds =>
              /\ Len(C(i)) \in 1..Len(C(k)) /\ C(k)[Len(C(i))] = list[i]
              /\ Len(C(i - 1)) = Len(C(i)) - 1
    BY DEF P, ChosenFrom, C
  <2> SUFFICES /\ IsList(C(k + 1)) /\ Len(C(k + 1)) <= k + 1
               /\ \A j \in 1..Len(C(k + 1)) :
                     \E i \in 1..k + 1 : /\ made[list[i]] \in kinds
                                         /\ C(k + 1)[j] = list[i] /\ Len(C(i)) = j
               /\ \A i \in 0..k + 1 : Len(C(i)) <= Len(C(k + 1))
               /\ \A i \in 1..k + 1 : made[list[i]] \in kinds =>
                     /\ Len(C(i)) \in 1..Len(C(k + 1)) /\ C(k + 1)[Len(C(i))] = list[i]
                     /\ Len(C(i - 1)) = Len(C(i)) - 1
    BY DEF P, ChosenFrom, C
  <2> PICK e : e = list[k + 1]
    OBVIOUS
  <2>1. k \in 0..m - 1
    OBVIOUS
  <2>2. CASE made[e] \notin kinds
    <3>1. C(k + 1) = C(k)
      BY <1>2, <2>1, <2>2
    <3>2. \A i \in 1..k + 1 : made[list[i]] \in kinds => i \in 1..k
      BY <2>2
    <3>3. \A i \in 0..k + 1 : Len(C(i)) <= Len(C(k + 1))
      <4> SUFFICES ASSUME NEW i \in 0..k + 1, i # k + 1 PROVE Len(C(i)) <= Len(C(k + 1))
        BY <3>1 DEF IsList
      <4> QED BY <2>0, <3>1
    <3> QED BY <2>0, <3>1, <3>2, <3>3
  <2>3. CASE made[e] \in kinds
    <3> PICK c : c = C(k) /\ IsList(c)
      BY <2>0
    <3> PICK d : d = Append(c, e)
      OBVIOUS
    <3>1. C(k + 1) = d /\ IsList(d) /\ Len(d) = Len(c) + 1 /\ d[Len(c) + 1] = e
          /\ (\A j \in 1..Len(c) : d[j] = c[j]) /\ Len(c) \in Nat
      BY <1>2, <2>1, <2>3, AppendedList DEF IsList
    <3>2. \A j \in 1..Len(d) :
             \E i \in 1..k + 1 : made[list[i]] \in kinds /\ d[j] = list[i] /\ Len(C(i)) = j
      <4> SUFFICES ASSUME NEW j \in 1..Len(d)
                   PROVE  \E i \in 1..k + 1 : made[list[i]] \in kinds /\ d[j] = list[i]
                                              /\ Len(C(i)) = j
        OBVIOUS
      <4>1. CASE j = Len(c) + 1
        <5>1. k + 1 \in 1..k + 1 /\ made[list[k + 1]] \in kinds /\ d[j] = list[k + 1]
              /\ Len(C(k + 1)) = j
          BY <2>3, <3>1, <4>1
        <5> QED BY <5>1
      <4>2. CASE j \in 1..Len(c)
        <5>1. PICK i \in 1..k : made[list[i]] \in kinds /\ c[j] = list[i] /\ Len(C(i)) = j
          BY <2>0, <4>2
        <5> QED BY <3>1, <4>2, <5>1
      <4> QED BY <3>1, <4>1, <4>2
    <3>3. \A i \in 0..k + 1 : Len(C(i)) <= Len(d)
      <4> SUFFICES ASSUME NEW i \in 0..k + 1, i # k + 1 PROVE Len(C(i)) <= Len(d)
        BY <3>1
      <4>1. i \in 0..k
        OBVIOUS
      <4>2. Len(C(i)) <= Len(c)
        BY <2>0, <4>1
      <4> QED BY <3>1, <4>1, <4>2
    <3>4. ASSUME NEW i \in 1..k + 1, made[list[i]] \in kinds
          PROVE  /\ Len(C(i)) \in 1..Len(d) /\ d[Len(C(i))] = list[i]
                 /\ Len(C(i - 1)) = Len(C(i)) - 1
      <4>1. CASE i = k + 1
        BY <3>1, <4>1
      <4>2. CASE i \in 1..k
        <5>1. /\ Len(C(i)) \in 1..Len(c) /\ c[Len(C(i))] = list[i]
              /\ Len(C(i - 1)) = Len(C(i)) - 1
          BY <2>0, <3>4, <4>2
        <5> QED BY <3>1, <5>1
      <4>3. i = k + 1 \/ i \in 1..k
        OBVIOUS
      <4> QED BY <4>1, <4>2, <4>3, Zenon
    <3>5. Len(d) <= k + 1
      BY <2>0, <3>1
    <3> QED BY <3>1, <3>2, <3>3, <3>4, <3>5
  <2> QED BY <2>2, <2>3
<1> HIDE DEF N
<1>5. Nat \subseteq N
  <2>1. 0 \in N
    BY <1>3 DEF N
  <2> QED BY <1>4, <2>1, NatSetInduction
<1> QED BY <1>5 DEF N, P

LEMMA ChosenFromAll ==
    ASSUME NEW made, NEW list, IsList(list), NEW kinds
    PROVE  /\ UpTo(made, list, kinds, Len(list)) = Chosen(made, list, kinds)
           /\ ChosenFrom(made, list, kinds, Len(list)) /\ Len(list) \in Nat
<1> PICK m \in Nat : m = Len(list)
  BY DEF IsList
<1>1. SubSeq(list, 1, m) = list /\ m \in 0..Len(list)
  BY PrefixOfList
<1>2. ChosenFrom(made, list, kinds, m)
  BY <1>1, ChosenUpTo, Zenon
<1> QED BY <1>1, <1>2 DEF UpTo

\* The members of what is chosen, each with its place in the list.
Selects(made, list, kinds, q) ==
    LET place(i) == Len(UpTo(made, list, kinds, i)) IN
    /\ IsList(q) /\ Len(q) <= Len(list)
    /\ \A j \in 1..Len(q) :
          \E i \in 1..Len(list) : made[list[i]] \in kinds /\ q[j] = list[i] /\ place(i) = j
    /\ \A i \in 1..Len(list) : made[list[i]] \in kinds =>
          place(i) \in 1..Len(q) /\ q[place(i)] = list[i] /\ place(i - 1) = place(i) - 1
    /\ \A i, k \in 0..Len(list) : i <= k => place(i) <= place(k)
    /\ \A i \in 0..Len(list) : place(i) \in 0..Len(q)

LEMMA ChosenMembers ==
    ASSUME NEW made, NEW list, IsList(list), NEW kinds
    PROVE  Selects(made, list, kinds, Chosen(made, list, kinds))
<1> DEFINE q == Chosen(made, list, kinds)
           place(i) == Len(UpTo(made, list, kinds, i))
<1> PICK m \in Nat : m = Len(list)
  BY DEF IsList
<1>1. UpTo(made, list, kinds, m) = q /\ ChosenFrom(made, list, kinds, m) /\ place(m) = Len(q)
  BY ChosenFromAll
<1>2. /\ IsList(q) /\ Len(q) <= m
      /\ \A j \in 1..Len(q) :
            \E i \in 1..m : made[list[i]] \in kinds /\ q[j] = list[i] /\ place(i) = j
      /\ \A i \in 0..m : place(i) <= Len(q)
      /\ \A i \in 1..m : made[list[i]] \in kinds =>
            place(i) \in 1..Len(q) /\ q[place(i)] = list[i] /\ place(i - 1) = place(i) - 1
  BY <1>1, Zenon DEF ChosenFrom
<1>3. \A k \in 0..m : ChosenFrom(made, list, kinds, k)
  BY ChosenUpTo
<1>4. \A k \in 0..m : place(k) \in Nat /\ \A i \in 0..k : place(i) <= place(k)
  BY <1>3 DEF ChosenFrom, IsList
<1> HIDE DEF place, q
<1>5. \A i, k \in 0..m : i <= k => place(i) <= place(k)
  BY <1>4
<1>6. \A i \in 0..m : place(i) \in 0..Len(q)
  BY <1>2, <1>4 DEF IsList
<1> QED BY <1>2, <1>5, <1>6, Zenon DEF place, q, Selects

LEMMA QueueOfCalls ==
    ASSUME Len(calls) \in Nat
    PROVE  /\ Queue \in Seq(1..Len(calls)) /\ IsList(Queue) /\ Len(Queue) <= Len(calls)
           /\ \A j \in 1..Len(Queue) : Queue[j] \in 1..Len(calls) /\ calls[Queue[j]] \in QueuedKinds
           /\ \A i, j \in 1..Len(Queue) : i < j => Queue[i] < Queue[j]
           /\ \A n \in 1..Len(calls) : calls[n] \in QueuedKinds =>
                 \E j \in 1..Len(Queue) : Queue[j] = n
<1> PICK m \in Nat : m = Len(calls)
  OBVIOUS
<1> PICK all : all = [n \in 1..Len(calls) |-> n]
  OBVIOUS
<1>1. IsList(all) /\ Len(all) = m /\ \A i \in 1..m : all[i] = i
  BY DEF IsList
<1> DEFINE place(i) == Len(UpTo(calls, all, QueuedKinds, i))
<1> PICK q : q = Queue
  OBVIOUS
<1>2. q = Chosen(calls, all, QueuedKinds)
  BY DEF Queue
<1>3. /\ IsList(q) /\ Len(q) <= m
      /\ \A j \in 1..Len(q) :
            \E i \in 1..m : calls[all[i]] \in QueuedKinds /\ q[j] = all[i] /\ place(i) = j
      /\ \A i \in 1..m : calls[all[i]] \in QueuedKinds =>
            place(i) \in 1..Len(q) /\ q[place(i)] = all[i]
      /\ \A i, k \in 0..m : i <= k => place(i) <= place(k)
  <2>1. Selects(calls, all, QueuedKinds, q)
    BY <1>1, <1>2, ChosenMembers
  <2> QED BY <1>1, <2>1 DEF Selects
<1> HIDE DEF place
<1>4. \A j \in 1..Len(q) : q[j] \in 1..m /\ calls[q[j]] \in QueuedKinds /\ place(q[j]) = j
  BY <1>1, <1>3
<1>5. \A i, j \in 1..Len(q) : i < j => q[i] < q[j]
  <2> SUFFICES ASSUME NEW i \in 1..Len(q), NEW j \in 1..Len(q), i < j, ~(q[i] < q[j]) PROVE FALSE
    OBVIOUS
  <2>1. q[i] \in 1..m /\ q[j] \in 1..m /\ place(q[i]) = i /\ place(q[j]) = j
    BY <1>4
  <2>2. q[j] <= q[i] /\ q[i] \in 0..m /\ q[j] \in 0..m
    BY <2>1
  <2>3. place(q[j]) <= place(q[i])
    BY <1>3, <2>2
  <2> QED BY <2>1, <2>3
<1>6. \A n \in 1..m : calls[n] \in QueuedKinds => \E j \in 1..Len(q) : q[j] = n
  BY <1>1, <1>3
<1>7. q \in Seq(1..m)
  <2>1. q \in [1..Len(q) -> 1..m] /\ Len(q) \in Nat
    BY <1>3, <1>4 DEF IsList
  <2> QED BY <2>1, SeqDef
<1> QED BY <1>3, <1>4, <1>5, <1>6, <1>7

-----------------------------------------------------------------------------
(* Lists of lists.                                                          *)

LEMMA SequenceIsList ==
    ASSUME NEW S, NEW s \in Seq(S)
    PROVE  IsList(s)
BY DEF IsList

LEMMA ConcatOfLists ==
    ASSUME NEW s, IsList(s), NEW t, IsList(t)
    PROVE  /\ IsList(s \o t) /\ Len(s \o t) = Len(s) + Len(t)
           /\ \A i \in 1..Len(s) : (s \o t)[i] = s[i]
           /\ \A i \in 1..Len(t) : (s \o t)[Len(s) + i] = t[i]
           /\ t = <<>> => s \o t = s
           /\ s = <<>> => s \o t = t
<1> DEFINE S == {s[i] : i \in 1..Len(s)}
           T == {t[i] : i \in 1..Len(t)}
<1>1. s \in Seq(S) /\ t \in Seq(T)
  BY ListIsSequence
<1> HIDE DEF S, T
<1>2. s \in Seq(S \cup T) /\ t \in Seq(S \cup T)
  BY <1>1
<1> PICK c : c = s \o t
  OBVIOUS
<1>3. c \in Seq(S \cup T) /\ Len(c) = Len(s) + Len(t) /\ Len(c) \in Nat
  BY <1>2
<1>4. IsList(c)
  BY <1>3, SequenceIsList
<1>5. /\ \A i \in 1..Len(s) : c[i] = s[i]
      /\ \A i \in 1..Len(t) : c[Len(s) + i] = t[i]
  BY <1>2
<1>6. t = <<>> => c = s
  BY <1>2
<1>7. s = <<>> => c = t
  BY <1>2
<1> QED BY <1>3, <1>4, <1>5, <1>6, <1>7

Associates(r, s, t) == (r \o s) \o t = r \o (s \o t)
LEMMA ConcatAgain ==
    ASSUME NEW r, IsList(r), NEW s, IsList(s), NEW t, IsList(t)
    PROVE  Associates(r, s, t)
<1> DEFINE R == {r[i] : i \in 1..Len(r)}
           S == {s[i] : i \in 1..Len(s)}
           T == {t[i] : i \in 1..Len(t)}
           U == R \cup S \cup T
<1>1. r \in Seq(R) /\ s \in Seq(S) /\ t \in Seq(T)
  BY ListIsSequence
<1> HIDE DEF R, S, T
<1>2. r \in Seq(U) /\ s \in Seq(U) /\ t \in Seq(U)
  BY <1>1
<1> HIDE DEF U
<1> QED BY <1>2, ConcatAssociative DEF Associates

LEMMA AppendsOne ==
    ASSUME NEW s, IsList(s), NEW e
    PROVE  Append(s, e) = s \o <<e>>
<1> DEFINE T == {s[i] : i \in 1..Len(s)}
           S == T \cup {e}
<1>2. s \in Seq(T)
  BY ListIsSequence
<1> HIDE DEF T
<1>1. s \in Seq(S) /\ e \in S
  BY <1>2
<1> HIDE DEF S
<1> QED BY <1>1

\* The recursion in FlattenSeq.
IsFlattened(s, f, m) == f = [i \in 1..m |-> IF i = 1 THEN s[i] ELSE f[i - 1] \o s[i]]

LEMMA FlattenedExists ==
    ASSUME NEW s, NEW n \in Nat
    PROVE  \E f : IsFlattened(s, f, n)
<1> DEFINE E(f, i) == IF i = 1 THEN s[i] ELSE f[i - 1] \o s[i]
           S == {m \in Nat : \E f : IsFlattened(s, f, m)}
<1>1. 0 \in S
  <2>1. IsFlattened(s, [i \in 1..0 |-> <<>>], 0)
    BY DEF IsFlattened
  <2> QED BY <2>1
<1>2. ASSUME NEW m \in Nat, NEW f, IsFlattened(s, f, m)
      PROVE  \E g : IsFlattened(s, g, m + 1)
  <2> DEFINE g == [i \in 1..m + 1 |-> IF i = m + 1 THEN E(f, i) ELSE f[i]]
  <2>1. \A i \in 1..m : f[i] = E(f, i)
    BY <1>2 DEF IsFlattened
  <2>2. \A i \in 1..m : g[i] = f[i]
    OBVIOUS
  <2>3. g[m + 1] = E(f, m + 1)
    OBVIOUS
  <2>4. DOMAIN g = 1..m + 1 /\ g = [i \in 1..m + 1 |-> g[i]]
    OBVIOUS
  <2> HIDE DEF g
  <2>5. \A i \in 1..m + 1 : E(g, i) = E(f, i)
    <3> SUFFICES ASSUME NEW i \in 1..m + 1, i # 1 PROVE E(g, i) = E(f, i)
      OBVIOUS
    <3>1. i - 1 \in 1..m
      OBVIOUS
    <3> QED BY <2>2, <3>1
  <2>6. \A i \in 1..m + 1 : g[i] = E(g, i)
    <3> SUFFICES ASSUME NEW i \in 1..m + 1 PROVE g[i] = E(g, i)
      OBVIOUS
    <3>1. CASE i = m + 1
      BY <2>3, <2>5, <3>1
    <3>2. CASE i # m + 1
      <4>1. i \in 1..m
        BY <3>2
      <4> QED BY <2>1, <2>2, <2>5, <4>1
    <3> QED BY <3>1, <3>2
  <2>7. IsFlattened(s, g, m + 1)
    BY <2>4, <2>6 DEF IsFlattened
  <2> QED BY <2>7
<1>3. \A m \in S : m \in Nat => m + 1 \in S
  BY <1>2
<1> HIDE DEF S
<1>4. n \in S
  BY <1>1, <1>3, NatSetInduction
<1> QED BY <1>4 DEF S

Flattens(s, f, m) == \A i \in 1..m : f[i] = IF i = 1 THEN s[i] ELSE f[i - 1] \o s[i]

LEMMA FlattenIs ==
    ASSUME NEW s, NEW m \in Nat, m = Len(s), m > 0
    PROVE  \E f : FlattenSeq(s) = f[m] /\ Flattens(s, f, m)
<1> DEFINE q == CHOOSE f : IsFlattened(s, f, Len(s))
<1>1. IsFlattened(s, q, Len(s))
  <2>1. \E f : IsFlattened(s, f, Len(s))
    BY FlattenedExists
  <2> QED BY <2>1, Zenon
<1>2. FlattenSeq(s) = q[Len(s)]
  BY DEF FlattenSeq, IsFlattened
<1> HIDE DEF q
<1>3. Flattens(s, q, m)
  BY <1>1 DEF IsFlattened, Flattens
<1> QED BY <1>2, <1>3

LEMMA FlattenNone == FlattenSeq(<<>>) = <<>>
BY DEF FlattenSeq

SameUpTo(s, t, m) == \A i \in 1..m : s[i] = t[i]

LEMMA FlattenAgree ==
    ASSUME NEW s, NEW t, NEW f, NEW g, NEW m \in Nat, m > 0,
           Flattens(s, f, m), Flattens(t, g, m), SameUpTo(s, t, m)
    PROVE  f[m] = g[m]
<1> DEFINE S == {k \in Nat : k \in 1..m => f[k] = g[k]}
<1>1. 0 \in S
  OBVIOUS
<1>2. \A k \in S : k \in Nat => k + 1 \in S
  <2> SUFFICES ASSUME NEW k \in Nat, k + 1 \in 1..m, k \in 1..m => f[k] = g[k]
               PROVE  f[k + 1] = g[k + 1]
    OBVIOUS
  <2>1. /\ f[k + 1] = IF k + 1 = 1 THEN s[k + 1] ELSE f[(k + 1) - 1] \o s[k + 1]
        /\ g[k + 1] = IF k + 1 = 1 THEN t[k + 1] ELSE g[(k + 1) - 1] \o t[k + 1]
        /\ s[k + 1] = t[k + 1]
    BY DEF Flattens, SameUpTo
  <2>2. CASE k = 0
    BY <2>1, <2>2
  <2>3. CASE k # 0
    <3>1. (k + 1) - 1 = k /\ k + 1 # 1 /\ k \in 1..m
      BY <2>3
    <3> QED BY <2>1, <3>1
  <2> QED BY <2>2, <2>3
<1> HIDE DEF S
<1>3. m \in S
  BY <1>1, <1>2, NatSetInduction
<1> QED BY <1>3 DEF S

IsLists(s) == IsList(s) /\ \A i \in 1..Len(s) : IsList(s[i])

LEMMA FlattenAppend ==
    ASSUME NEW s, IsLists(s), NEW x, IsList(x)
    PROVE  FlattenSeq(Append(s, x)) = FlattenSeq(s) \o x
<1> PICK m \in Nat : m = Len(s)
  BY DEF IsLists, IsList
<1> PICK t : t = Append(s, x)
  OBVIOUS
<1>0. IsList(s)
  BY DEF IsLists
<1>1. Len(t) = m + 1 /\ t[m + 1] = x /\ \A i \in 1..m : t[i] = s[i]
  BY <1>0, AppendedList
<1>2. PICK g : FlattenSeq(t) = g[m + 1] /\ Flattens(t, g, m + 1)
  <2> PICK k \in Nat : k = m + 1 /\ k > 0 /\ k = Len(t)
    BY <1>1
  <2>1. \E g : FlattenSeq(t) = g[k] /\ Flattens(t, g, k)
    BY FlattenIs
  <2> QED BY <2>1
<1>3. CASE m = 0
  <2>0. s = <<>>
    <3>1. ~(Len(s) > 0)
      BY <1>3
    <3> QED BY <1>0, <3>1, EmptyList, Zenon
  <2>1. FlattenSeq(s) = <<>>
    BY <2>0, FlattenNone, Zenon
  <2>2. g[m + 1] = x
    BY <1>1, <1>2, <1>3 DEF Flattens
  <2>3. <<>> \o x = x
    <3>1. IsList(<<>>)
      BY DEF IsList
    <3> QED BY <3>1, ConcatOfLists
  <2> QED BY <1>2, <2>1, <2>2, <2>3, Zenon
<1>4. CASE m > 0
  <2>1. PICK f : FlattenSeq(s) = f[m] /\ Flattens(s, f, m)
    BY <1>4, FlattenIs
  <2>2. Flattens(t, g, m)
    BY <1>2 DEF Flattens
  <2>5. SameUpTo(s, t, m)
    BY <1>1 DEF SameUpTo
  <2>3. f[m] = g[m]
    BY <1>4, <2>1, <2>2, <2>5, FlattenAgree
  <2>4. g[m + 1] = g[m] \o x
    <3>1. m + 1 \in 1..m + 1 /\ (m + 1) - 1 = m /\ m + 1 # 1
      BY <1>4
    <3> QED BY <1>1, <1>2, <3>1 DEF Flattens
  <2> QED BY <1>2, <2>1, <2>3, <2>4
<1> QED BY <1>3, <1>4

-----------------------------------------------------------------------------
(* Shapes.                                                                  *)

SlotRecords ==
    /\ IsList(slot)
    /\ \A n \in DOMAIN slot : slot[n] = [f \in {"status", "copies", "pc"} |-> slot[n][f]]
MdbxRecord == mdbx = [f \in {"id", "frames"} |-> mdbx[f]] /\ IsList(mdbx.frames)
Records ==
    /\ calls \in Seq(QueuedKinds \cup SyncKinds)
    /\ SlotRecords /\ MdbxRecord /\ IsList(writeTxn)
    /\ start \in Nat
    /\ \A w \in Workers : worker[w].finished \in BOOLEAN /\ worker[w].at \in Nat \ {0}

CleanInv == HandoffInv /\ Records /\ ExchangeInv

\* What writing and ending do to the frames of a transaction.
LEMMA WrittenFrames ==
    ASSUME NEW frames, IsList(frames), NEW n
    PROVE  IsList(Written(frames, n)) /\ Len(Written(frames, n)) = Len(frames)
BY UpdatedList DEF Written

LEMMA EndedFrames ==
    ASSUME NEW frames, IsList(frames), Len(frames) > 1, NEW aborts
    PROVE  IsList(Ended(frames, aborts)) /\ Len(Ended(frames, aborts)) = Len(frames) - 1
<1>1. frames # <<>>
  BY EmptyList
<1>2. IsList(Front(frames)) /\ Len(Front(frames)) = Len(frames) - 1
  BY <1>1, FrontOfList
<1>3. IsList(Merged(frames)) /\ Len(Merged(frames)) = Len(frames) - 1
  BY <1>2, UpdatedList DEF Merged
<1> QED BY <1>2, <1>3 DEF Ended

\* A program that is not entangled does not call all three.
LEMMA NeverAllThree ==
    ASSUME \A p \in Programs : ~Entangled(p), Records, FromProgram,
           Made({"zput"}), Made(CallbackKinds), Made(InterruptingKinds)
    PROVE  FALSE
<1>1. program \in Seq(QueuedKinds \cup SyncKinds) /\ DOMAIN calls \subseteq DOMAIN program
  BY HandoffAssumption DEF FromProgram, Records
<1>2. \A n \in DOMAIN calls : calls[n] \in Range(program)
  BY <1>1 DEF FromProgram, Range
<1> QED BY <1>2 DEF FromProgram, Made, Entangled

-----------------------------------------------------------------------------
(* The steps of a worker.                                                   *)

\* Whoever is in the middle of a transaction is the current worker.
LEMMA WorkerOfTxn ==
    ASSUME CleanInv, NEW w \in Workers, InTxn(w), worker[w].pc # "commit"
    PROVE  /\ Active(w) /\ HasBegun(w) /\ w = current /\ start = 0 /\ mark # "delimiter"
           /\ \A v \in Workers : v # w => ~Active(v) /\ ~HasBegun(v) /\ ~InTxn(v)
<1>1. Active(w) /\ HasBegun(w)
  BY DEF Active, HasBegun, InTxn, TxnPcs
<1>2. \A v \in Workers : InTxn(v) => HasBegun(v)
  BY DEF HasBegun, InTxn, TxnPcs
<1> QED BY <1>1, <1>2 DEF CleanInv, ExchangeInv, OneWorker

\* A worker changes: what that means for the others.
LEMMA OneWorkerChanges ==
    ASSUME Shapes, NEW w \in Workers, NEW r, worker' = [worker EXCEPT ![w] = r]
    PROVE  /\ Workers' = Workers /\ worker'[w] = r
           /\ \A v \in Workers : v # w => worker'[v] = worker[v]
<1>1. DOMAIN worker' = DOMAIN worker /\ w \in DOMAIN worker
  BY DEF Workers, Shapes
<1> QED BY <1>1 DEF Workers, Shapes

\* The worker goes on in its transaction, writes in it, or waits in it.
LEMMA GoesOn ==
    ASSUME CleanInv, HandoffInv', NEW w \in Workers, NEW r, worker' = [worker EXCEPT ![w] = r],
           InTxn(w), worker[w].pc # "commit", worker[w].status # "INTERRUPT_BATCH",
           r.pc \in TxnPcs \ {"commit"}, r.txn = worker[w].txn,
           r.at \in Nat \ {0}, r.finished \in BOOLEAN, ~r.finished => Made(CallbackKinds),
           r.status # "INTERRUPT_BATCH",
           r.status = "ALLOW_COMMIT" => Made(CallbackKinds) /\ r.pc \in {"wait", "strictWait"},
           asleep' \subseteq asleep \cup {w}, w \in asleep' => r.pc \in WaitPcs,
           MdbxRecord', mdbx'.id = mdbx.id, Len(mdbx'.frames) = Len(mdbx.frames),
           mark' \in {mark, "waiting"}, SlotRecords', Compressions',
           ~JSHolds, UNCHANGED <<jsVars, current>>
    PROVE  CleanInv'
<1>1. /\ Workers' = Workers /\ worker'[w] = r
      /\ \A v \in Workers : v # w => worker'[v] = worker[v]
  BY OneWorkerChanges DEF CleanInv, HandoffInv
<1>2. /\ Active(w) /\ HasBegun(w) /\ w = current /\ start = 0 /\ mark # "delimiter"
      /\ \A v \in Workers : v # w => ~Active(v) /\ ~HasBegun(v) /\ ~InTxn(v)
  BY WorkerOfTxn
<1>3. UNCHANGED <<program, calls, ran, start, js, writeTxn, current>>
  BY DEF jsVars
<1>4. js.pc # "interrupt" /\ ~JSInTxn /\ js.pc # "begin" /\ js.pc # "join"
  <2>1. ~JSInTxn /\ js.pc # "begin" /\ js.pc # "join"
    BY DEF JSHolds, JSInTxn
  <2>2. ASSUME js.pc = "interrupt" PROVE FALSE
    <3>1. current = w /\ worker[w].pc # "paused"
      BY <1>2 DEF InTxn, TxnPcs
    <3> QED BY <2>2, <3>1 DEF CleanInv, ExchangeInv, Interruption
  <2> QED BY <2>1, <2>2
<1>5. Records'
  BY <1>1, <1>3 DEF CleanInv, Records
<1>6. FromProgram'
  BY <1>3 DEF CleanInv, ExchangeInv, FromProgram
<1>7. MayCommit'
  BY <1>1, <1>3 DEF CleanInv, ExchangeInv, MayCommit, Made
<1>8. InCall'
  BY <1>3 DEF CleanInv, ExchangeInv, InCall, Made, Kind
<1>9. InTxn(w)' /\ \A v \in Workers : v # w => (InTxn(v)' <=> InTxn(v))
  BY <1>1 DEF InTxn
<1>10. OneWorker'
  BY <1>1, <1>2, <1>3 DEF CleanInv, ExchangeInv, OneWorker, Active, HasBegun
<1>11. Asleep'
  <2>1. w # JS
    BY WorkersAreNumbers DEF CleanInv, HandoffInv
  <2>2. Asleep
    BY DEF CleanInv, ExchangeInv
  <2> QED BY <1>1, <1>3, <2>1, <2>2 DEF Asleep
<1>12. Interruption'
  BY <1>1, <1>3, <1>4 DEF CleanInv, ExchangeInv, Interruption
<1>13. WorkersTxn /\ WorkersTxn'
  BY <1>1, <1>9 DEF WorkersTxn
<1>14. ~JSInTxn' /\ js'.pc # "begin"
  BY <1>3, <1>4 DEF JSInTxn
<1>15. IsOpen'
  <2>1. Len(mdbx.frames) = 1
    BY <1>4, <1>13 DEF CleanInv, ExchangeInv, OpenTxn
  <2>2. Len(mdbx'.frames) > 0
    BY <2>1
  <2> QED BY <2>2, EmptyList DEF IsOpen, MdbxRecord
<1>16. OpenTxn'
  BY <1>1, <1>2, <1>4, <1>9, <1>13, <1>14, <1>15 DEF CleanInv, ExchangeInv, OpenTxn
<1>17. JSFrames'
  BY <1>3, <1>4, <1>14 DEF CleanInv, ExchangeInv, JSFrames
<1> QED BY <1>5, <1>6, <1>7, <1>8, <1>10, <1>11, <1>12, <1>16, <1>17
        DEF CleanInv, ExchangeInv, HandoffInv

\* A worker in the middle of its work has not been interrupted.
LEMMA Undisturbed ==
    ASSUME CleanInv, NEW w \in Workers, worker[w].pc \notin {"wait", "strictWait"}
    PROVE  worker[w].status # "INTERRUPT_BATCH"
BY DEF CleanInv, ExchangeInv, Interruption

LEMMA WorkersLock ==
    ASSUME CleanInv, NEW w \in Workers, WorkerHolds(w) \/ lock = Free
    PROVE  ~JSHolds
BY WorkersAreNumbers DEF CleanInv, HandoffInv, LockHolder, Free, JS

\* A slot changes; nothing begins in it.
LEMMA OneSlotChanges ==
    ASSUME SlotRecords, Compressions, NEW n, NEW s,
           n \in DOMAIN slot => /\ s = [f \in {"status", "copies", "pc"} |-> s[f]]
                                /\ s.pc # "done" => slot[n].pc # "done",
           slot' = [slot EXCEPT ![n] = s], UNCHANGED calls
    PROVE  SlotRecords' /\ Compressions'
<1>1. IsList(slot') /\ Len(slot') = Len(slot)
  BY UpdatedList DEF SlotRecords
<1>2. DOMAIN slot' = DOMAIN slot /\ \A m \in DOMAIN slot : slot'[m] = IF m = n THEN s ELSE slot[m]
  BY DEF SlotRecords, IsList
<1> QED BY <1>1, <1>2 DEF SlotRecords, Compressions

LEMMA SlotsStay ==
    ASSUME CleanInv, UNCHANGED <<slot, calls>>
    PROVE  SlotRecords' /\ Compressions'
BY DEF CleanInv, Records, ExchangeInv, SlotRecords, Compressions

\* The transaction is written in, or stays as it is.
LEMMA MdbxWritten ==
    ASSUME MdbxRecord, NEW n, mdbx' = [mdbx EXCEPT !.frames = Written(@, n)] \/ mdbx' = mdbx
    PROVE  MdbxRecord' /\ mdbx'.id = mdbx.id /\ Len(mdbx'.frames) = Len(mdbx.frames)
<1>1. CASE mdbx' = mdbx
  BY <1>1 DEF MdbxRecord
<1>2. CASE mdbx' = [mdbx EXCEPT !.frames = Written(@, n)]
  <2>1. mdbx' = [f \in {"id", "frames"} |-> mdbx'[f]] /\ mdbx'.id = mdbx.id
        /\ mdbx'.frames = Written(mdbx.frames, n)
    BY <1>2 DEF MdbxRecord
  <2>2. IsList(mdbx.frames)
    BY DEF MdbxRecord
  <2> QED BY <2>1, <2>2, WrittenFrames DEF MdbxRecord
<1> QED BY <1>1, <1>2

\* Steps of the worker with the lock in which it keeps it.
LEMMA InstructionsClean ==
    ASSUME CleanInv, NEW w \in Workers,
           Put(w) \/ PutRaw(w) \/ StartBlock(w) \/ EndBlock(w) \/ UserCallback(w)
    PROVE  CleanInv'
<1>1. HandoffInv' /\ IsWorker(worker[w])
  BY SteadySteps DEF CleanInv, HandoffInv, Shapes
<1>2. worker[w].pc = "run" /\ UNCHANGED <<workerOnly, asleep>>
  BY DEF Put, PutRaw, StartBlock, EndBlock, UserCallback, At
<1>3. PICK r :
        /\ worker' = [worker EXCEPT ![w] = r]
        /\ r.pc \in {"run", "exchange", "strict"} /\ r.txn = worker[w].txn
        /\ r.status = worker[w].status /\ r.at \in {worker[w].at, worker[w].at + 1}
        /\ r.finished = worker[w].finished \/ (r.finished = FALSE /\ UserCallback(w))
  <2>1. CASE Put(w)
    <3> DEFINE r == [worker[w] EXCEPT !.at = @ + 1, !.pc = "run"]
    <3>1. worker' = [worker EXCEPT ![w] = r]
      BY <2>1 DEF Put, PutStep
    <3>2. /\ r.pc = "run" /\ r.txn = worker[w].txn
          /\ r.status = worker[w].status /\ r.at \in {worker[w].at, worker[w].at + 1}
          /\ r.finished = worker[w].finished
      BY <1>1, <1>2 DEF IsWorker, Fields, AfterCallback
    <3> HIDE DEF r
    <3> QED BY <2>1, <3>1, <3>2
  <2>2. CASE PutRaw(w)
    <3> DEFINE r == [worker[w] EXCEPT !.pc = "exchange"]
    <3>1. worker' = [worker EXCEPT ![w] = r]
      BY <2>2 DEF PutRaw
    <3>2. /\ r.pc = "exchange" /\ r.txn = worker[w].txn
          /\ r.status = worker[w].status /\ r.at \in {worker[w].at, worker[w].at + 1}
          /\ r.finished = worker[w].finished
      BY <1>1, <1>2 DEF IsWorker, Fields, AfterCallback
    <3> HIDE DEF r
    <3> QED BY <2>2, <3>1, <3>2
  <2>3. CASE StartBlock(w)
    <3> DEFINE r == [worker[w] EXCEPT !.at = @ + 1, !.depth = @ + 1]
    <3>1. worker' = [worker EXCEPT ![w] = r]
      BY <2>3 DEF StartBlock
    <3>2. /\ r.pc = "run" /\ r.txn = worker[w].txn
          /\ r.status = worker[w].status /\ r.at \in {worker[w].at, worker[w].at + 1}
          /\ r.finished = worker[w].finished
      BY <1>1, <1>2 DEF IsWorker, Fields, AfterCallback
    <3> HIDE DEF r
    <3> QED BY <2>3, <3>1, <3>2
  <2>4. CASE EndBlock(w)
    <3> DEFINE r == [worker[w] EXCEPT !.at = @ + 1, !.depth = @ - 1]
    <3>1. worker' = [worker EXCEPT ![w] = r]
      BY <2>4 DEF EndBlock
    <3>2. /\ r.pc = "run" /\ r.txn = worker[w].txn
          /\ r.status = worker[w].status /\ r.at \in {worker[w].at, worker[w].at + 1}
          /\ r.finished = worker[w].finished
      BY <1>1, <1>2 DEF IsWorker, Fields, AfterCallback
    <3> HIDE DEF r
    <3> QED BY <2>4, <3>1, <3>2
  <2>5. CASE UserCallback(w)
    <3> DEFINE r == [worker[w] EXCEPT !.at = @ + 1, !.finished = FALSE, !.pc = AfterCallback(w)]
    <3>1. worker' = [worker EXCEPT ![w] = r]
      BY <2>5 DEF UserCallback
    <3>2. /\ r.pc \in {"run", "strict"} /\ r.txn = worker[w].txn
          /\ r.status = worker[w].status /\ r.at \in {worker[w].at, worker[w].at + 1}
          /\ r.finished = FALSE
      BY <1>1, <1>2 DEF IsWorker, Fields, AfterCallback
    <3> HIDE DEF r
    <3> QED BY <2>5, <3>1, <3>2
  <2> QED BY <2>1, <2>2, <2>3, <2>4, <2>5
<1>4. \E n : mdbx' = [mdbx EXCEPT !.frames = Written(@, n)] \/ mdbx' = mdbx
  BY DEF Put, PutStep, PutRaw, StartBlock, EndBlock, UserCallback, dbVars
<1>5. MdbxRecord' /\ mdbx'.id = mdbx.id /\ Len(mdbx'.frames) = Len(mdbx.frames)
  BY <1>4, MdbxWritten DEF CleanInv, Records
<1>6. UserCallback(w) => Made(CallbackKinds)
  <2> SUFFICES ASSUME UserCallback(w) PROVE Made(CallbackKinds)
    OBVIOUS
  <2>1. Instruction(w) \in CallbackKinds /\ "none" \notin CallbackKinds
    BY DEF UserCallback, At, CallbackKinds
  <2>2. ~(worker[w].at > Len(Queue)) /\ Instruction(w) = calls[Queue[worker[w].at]]
    BY <2>1 DEF Instruction
  <2>3. worker[w].at \in Nat \ {0}
    BY DEF CleanInv, Records
  <2>4. Queue \in Seq(1..Len(calls)) /\ Len(calls) \in Nat /\ DOMAIN calls = 1..Len(calls)
    BY QueueOfCalls DEF CleanInv, Records
  <2>5. Queue[worker[w].at] \in DOMAIN calls
    BY <2>2, <2>3, <2>4
  <2> QED BY <2>1, <2>2, <2>5 DEF Made
<1>7. UNCHANGED <<slot, calls>>
  BY <1>2 DEF workerOnly, jsVars
<1>8. SlotRecords' /\ Compressions'
  BY <1>7, SlotsStay
<1>9. ~JSHolds /\ worker[w].status # "INTERRUPT_BATCH"
  BY <1>2, WorkersLock, Undisturbed DEF WorkerHolds
<1>10. r.finished \in BOOLEAN /\ (~r.finished => Made(CallbackKinds))
       /\ r.status # "ALLOW_COMMIT" /\ r.at \in Nat \ {0}
  <2>1. worker[w].at \in Nat \ {0} /\ worker[w].finished \in BOOLEAN
    BY DEF CleanInv, Records
  <2>2. (~worker[w].finished => Made(CallbackKinds)) /\ worker[w].status # "ALLOW_COMMIT"
    BY <1>2 DEF CleanInv, ExchangeInv, MayCommit
  <2>3. r.at \in Nat \ {0}
    BY <1>3, <2>1
  <2> QED BY <1>3, <1>6, <2>1, <2>2, <2>3
<1>11. InTxn(w) /\ r.pc \in TxnPcs \ {"commit"} /\ w \notin asleep
  BY <1>2, <1>3 DEF InTxn, TxnPcs, CleanInv, ExchangeInv, Asleep, WaitPcs
<1> QED BY <1>1, <1>2, <1>3, <1>5, <1>8, <1>9, <1>10, <1>11, GoesOn DEF workerOnly

\* What does not change when a worker goes on, waits or stores a value.
AfterPut(w) == [worker[w] EXCEPT !.at = @ + 1, !.pc = "run"]
Moved(w, pc) == [worker[w] EXCEPT !.pc = pc]

Steady(w, r) ==
    /\ r.txn = worker[w].txn /\ r.status \notin {"ALLOW_COMMIT", "INTERRUPT_BATCH"}
    /\ r.at \in Nat \ {0} /\ r.finished \in BOOLEAN
    /\ ~r.finished => Made(CallbackKinds)

LEMMA PlainRecord ==
    ASSUME CleanInv, NEW w \in Workers, worker[w].pc \notin {"wait", "strictWait"}
    PROVE  /\ Steady(w, AfterPut(w)) /\ AfterPut(w).pc = "run"
           /\ \A pc : Steady(w, Moved(w, pc)) /\ Moved(w, pc).pc = pc
<1>1. IsWorker(worker[w])
  BY DEF CleanInv, HandoffInv, Shapes
<1>2. /\ worker[w].at \in Nat \ {0} /\ worker[w].finished \in BOOLEAN
      /\ ~worker[w].finished => Made(CallbackKinds)
      /\ worker[w].status \notin {"ALLOW_COMMIT", "INTERRUPT_BATCH"}
  BY DEF CleanInv, Records, ExchangeInv, MayCommit, Interruption
<1>3. ASSUME NEW r, r.txn = worker[w].txn, r.status = worker[w].status,
             r.at \in {worker[w].at, worker[w].at + 1}, r.finished = worker[w].finished
      PROVE  Steady(w, r)
  <2>1. r.at \in Nat \ {0}
    BY <1>2, <1>3
  <2> QED BY <1>2, <1>3, <2>1 DEF Steady
<1>4. AfterPut(w).pc = "run" /\ \A pc : Moved(w, pc).pc = pc
  BY <1>1 DEF IsWorker, Fields, AfterPut, Moved
<1>5. Steady(w, AfterPut(w))
  <2> DEFINE r == AfterPut(w)
  <2>1. /\ r.txn = worker[w].txn /\ r.status = worker[w].status
        /\ r.at = worker[w].at + 1 /\ r.finished = worker[w].finished
    BY <1>1 DEF IsWorker, Fields, AfterPut
  <2> QED BY <1>3, <2>1
<1>6. ASSUME NEW pc PROVE Steady(w, Moved(w, pc))
  <2> DEFINE r == Moved(w, pc)
  <2>1. /\ r.txn = worker[w].txn /\ r.status = worker[w].status
        /\ r.at = worker[w].at /\ r.finished = worker[w].finished
    BY <1>1 DEF IsWorker, Fields, Moved
  <2> QED BY <1>3, <2>1
<1> QED BY <1>4, <1>5, <1>6

\* The worker at a value that is to be compressed.
LEMMA CompressedClean ==
    ASSUME CleanInv, NEW w \in Workers,
           Exchange(w) \/ CompressSelf(w)
    PROVE  CleanInv'
<1>1. HandoffInv'
  BY SteadySteps, LockingSteps DEF CleanInv
<1> PICK n : n = Queue[worker[w].at]
  OBVIOUS
<1>2. worker[w].pc \in {"exchange", "compress"} /\ UNCHANGED <<jsVars, mark, current>>
  BY DEF Exchange, CompressSelf
<1>3. PICK r :
        /\ worker' = [worker EXCEPT ![w] = r]
        /\ r = AfterPut(w) \/ \E pc : r = Moved(w, pc)
        /\ \/ r.pc \in {"run", "compress"} /\ UNCHANGED asleep
           \/ r.pc = "zwait" /\ asleep' = asleep \cup {w}
  <2>1. AfterPut(w).pc = "run" /\ \A pc : Moved(w, pc).pc = pc
    BY <1>2, PlainRecord
  <2>2. CASE CompressSelf(w) \/ (PutStep(w) /\ UNCHANGED asleep)
    <3>1. worker' = [worker EXCEPT ![w] = AfterPut(w)] /\ UNCHANGED asleep
      BY <2>2 DEF CompressSelf, PutStep, AfterPut
    <3> QED BY <2>1, <3>1
  <2>3. CASE worker' = [worker EXCEPT ![w].pc = "compress"] /\ UNCHANGED asleep
    <3>1. worker' = [worker EXCEPT ![w] = Moved(w, "compress")]
      BY <2>3 DEF Moved
    <3> QED BY <2>1, <2>3, <3>1
  <2>4. CASE worker' = [worker EXCEPT ![w].pc = "zwait"] /\ asleep' = asleep \cup {w}
    <3>1. worker' = [worker EXCEPT ![w] = Moved(w, "zwait")]
      BY <2>4 DEF Moved
    <3> QED BY <2>1, <2>4, <3>1
  <2> QED BY <2>2, <2>3, <2>4 DEF Exchange
<1>4. /\ r.txn = worker[w].txn /\ r.status \notin {"ALLOW_COMMIT", "INTERRUPT_BATCH"}
      /\ r.at \in Nat \ {0} /\ r.finished \in BOOLEAN
      /\ ~r.finished => Made(CallbackKinds)
  <2>1. Steady(w, r)
    BY <1>2, <1>3, PlainRecord
  <2> QED BY <2>1 DEF Steady
<1>5. \E k : mdbx' = [mdbx EXCEPT !.frames = Written(@, k)] \/ mdbx' = mdbx
  <2>1. PutStep(w) \/ mdbx' = mdbx
    BY DEF Exchange, CompressSelf, dbVars
  <2>2. PutStep(w) => mdbx' = [mdbx EXCEPT !.frames = Written(@, n)]
    BY DEF PutStep
  <2> QED BY <2>1, <2>2
<1>6. MdbxRecord' /\ mdbx'.id = mdbx.id /\ Len(mdbx'.frames) = Len(mdbx.frames)
  BY <1>5, MdbxWritten DEF CleanInv, Records
<1>7. SlotRecords' /\ Compressions'
  <2>1. SlotRecords /\ Compressions /\ UNCHANGED calls
    BY <1>2 DEF CleanInv, Records, ExchangeInv, jsVars
  <2>2. n \in DOMAIN slot => slot[n] = [f \in {"status", "copies", "pc"} |-> slot[n][f]]
    BY <2>1 DEF SlotRecords
  <2>3. CASE Exchange(w)
    <3> DEFINE s == [slot[n] EXCEPT !.status = "1"]
    <3>1. slot' = [slot EXCEPT ![n] = s]
      BY <2>3 DEF Exchange
    <3>2. n \in DOMAIN slot => s = [f \in {"status", "copies", "pc"} |-> s[f]] /\ s.pc = slot[n].pc
      BY <2>2
    <3> HIDE DEF s
    <3> QED BY <2>1, <3>1, <3>2, OneSlotChanges
  <2>4. CASE CompressSelf(w)
    <3> PICK c : c = slot[n].copies + 1
      OBVIOUS
    <3> DEFINE s == [slot[n] EXCEPT !.status = "0", !.copies = c]
    <3>1. slot' = [slot EXCEPT ![n].status = "0", ![n].copies = c]
      BY <2>4 DEF CompressSelf
    <3>2. slot' = [slot EXCEPT ![n] = s]
      BY <3>1
    <3>3. n \in DOMAIN slot => s = [f \in {"status", "copies", "pc"} |-> s[f]] /\ s.pc = slot[n].pc
      BY <2>2
    <3> HIDE DEF s
    <3> QED BY <2>1, <3>2, <3>3, OneSlotChanges
  <2> QED BY <2>3, <2>4
<1>8. ~JSHolds /\ worker[w].status # "INTERRUPT_BATCH"
  BY <1>2, WorkersLock, Undisturbed DEF WorkerHolds
<1>9. InTxn(w) /\ worker[w].pc # "commit" /\ r.pc \in TxnPcs \ {"commit"} /\ w \notin asleep
  BY <1>2, <1>3 DEF InTxn, TxnPcs, CleanInv, ExchangeInv, Asleep, WaitPcs
<1>10. asleep' \subseteq asleep \cup {w} /\ (w \in asleep' => r.pc \in WaitPcs)
  BY <1>3, <1>9 DEF WaitPcs
<1> QED BY <1>1, <1>2, <1>3, <1>4, <1>6, <1>7, <1>8, <1>9, <1>10, GoesOn

\* A wait that goes on.
LEMMA SleepsAgain ==
    ASSUME CleanInv, NEW w \in Workers, worker[w].pc \in WaitPcs, asleep' = asleep \cup {w},
           worker[w].pc # "paused", UNCHANGED <<jsVars, slot, mark, current, worker, lock, mdbx>>
    PROVE  CleanInv'
<1>1. w # JS
  BY WorkersAreNumbers DEF CleanInv, HandoffInv
<1>2. UNCHANGED <<program, calls, ran, start, js, writeTxn, Workers>>
  BY DEF jsVars, Workers
<1>3. HandoffInv' /\ Records'
  BY <1>2 DEF CleanInv, HandoffInv, Shapes, LockHolder, WorkerHolds, JSHolds, Records,
              SlotRecords, MdbxRecord
<1>4. Asleep' /\ Interruption'
  BY <1>1, <1>2 DEF CleanInv, ExchangeInv, Asleep, Interruption
<1>5. FromProgram' /\ Compressions' /\ MayCommit' /\ InCall'
  BY <1>2 DEF CleanInv, ExchangeInv, FromProgram, Compressions, MayCommit, Made, InCall, Kind
<1>6. OneWorker'
  BY <1>2 DEF CleanInv, ExchangeInv, OneWorker, Active, HasBegun
<1>7. OpenTxn' /\ JSFrames'
  BY <1>2 DEF CleanInv, ExchangeInv, OpenTxn, JSFrames, WorkersTxn, InTxn, JSInTxn, Outer, IsOpen, Kind
<1> QED BY <1>3, <1>4, <1>5, <1>6, <1>7 DEF CleanInv, ExchangeInv, HandoffInv

LEMMA CompressionWaitClean ==
    ASSUME CleanInv, NEW w \in Workers, CompressionWait(w)
    PROVE  CleanInv'
<1>1. HandoffInv'
  BY LockingSteps DEF CleanInv
<1>2. worker[w].pc = "zwait" /\ w \notin asleep /\ lock = Free
      /\ UNCHANGED <<jsVars, slot, mark, current>>
  BY DEF CompressionWait, workerOnly
<1>3. CASE PutStep(w) /\ UNCHANGED asleep
  <2> DEFINE r == AfterPut(w)
  <2>1. worker' = [worker EXCEPT ![w] = r]
    BY <1>3 DEF PutStep, AfterPut
  <2>2. /\ r.txn = worker[w].txn /\ r.status \notin {"ALLOW_COMMIT", "INTERRUPT_BATCH"}
        /\ r.at \in Nat \ {0} /\ r.finished \in BOOLEAN
        /\ ~r.finished => Made(CallbackKinds)
    <3>1. Steady(w, r)
      BY <1>2, PlainRecord
    <3> QED BY <3>1 DEF Steady
  <2>3. r.pc = "run"
    BY <1>2, PlainRecord
  <2>4. \E k : mdbx' = [mdbx EXCEPT !.frames = Written(@, k)] \/ mdbx' = mdbx
    BY <1>3 DEF PutStep
  <2>5. MdbxRecord' /\ mdbx'.id = mdbx.id /\ Len(mdbx'.frames) = Len(mdbx.frames)
    BY <2>4, MdbxWritten DEF CleanInv, Records
  <2>6. UNCHANGED calls
    BY <1>2 DEF jsVars
  <2>7. SlotRecords' /\ Compressions'
    BY <1>2, <2>6, SlotsStay
  <2>8. ~JSHolds /\ worker[w].status # "INTERRUPT_BATCH"
    BY <1>2, WorkersLock, Undisturbed
  <2>9. InTxn(w) /\ r.pc \in TxnPcs \ {"commit"}
    BY <1>2, <2>3 DEF InTxn, TxnPcs
  <2> HIDE DEF r
  <2> QED BY <1>1, <1>2, <1>3, <2>1, <2>2, <2>5, <2>7, <2>8, <2>9, GoesOn
<1>4. CASE asleep' = asleep \cup {w} /\ UNCHANGED <<worker, lock, mdbx>>
  BY <1>2, <1>4, SleepsAgain DEF WaitPcs
<1> QED BY <1>3, <1>4 DEF CompressionWait

LEMMA WaitAgainClean ==
    ASSUME CleanInv, NEW w \in Workers, WaitAgain(w)
    PROVE  CleanInv'
<1>1. worker[w].pc = "wait" /\ asleep' = asleep \cup {w}
      /\ UNCHANGED <<jsVars, slot, mark, current, worker, lock, mdbx>>
  BY DEF WaitAgain, workerOnly, dbVars
<1> QED BY <1>1, SleepsAgain DEF WaitPcs

\* The worker waits for callbacks.
LEMMA WaitsForCallbacks ==
    ASSUME CleanInv, HandoffInv', NEW w \in Workers, NEW pc \in {"wait", "strictWait"},
           worker[w].pc \in {"run", "strict"}, WaitForCallbacks(w, pc),
           worker[w].depth = 0 => ~worker[w].finished, mark' \in {mark, "waiting"},
           UNCHANGED <<jsVars, slot, current, mdbx>>
    PROVE  CleanInv'
<1> DEFINE r == [worker[w] EXCEPT !.pc = pc, !.progress = @ \/ ~worker[w].finished,
                    !.status = IF worker[w].depth = 0 THEN "ALLOW_COMMIT" ELSE "none"]
<1>1. worker' = [worker EXCEPT ![w] = r]
  BY DEF WaitForCallbacks
<1>2. /\ r.pc = pc /\ r.txn = worker[w].txn /\ r.at = worker[w].at
      /\ r.finished = worker[w].finished
      /\ r.status = IF worker[w].depth = 0 THEN "ALLOW_COMMIT" ELSE "none"
  BY DEF CleanInv, HandoffInv, Shapes, IsWorker, Fields
<1> HIDE DEF r
<1>3. /\ r.at \in Nat \ {0} /\ r.finished \in BOOLEAN
      /\ ~r.finished => Made(CallbackKinds)
  BY <1>2 DEF CleanInv, Records, ExchangeInv, MayCommit
<1>4. r.status = "ALLOW_COMMIT" => Made(CallbackKinds)
  BY <1>2, <1>3
<1>5. asleep' \subseteq asleep \cup {w}
  BY DEF WaitForCallbacks, Signalled
<1>6. SlotRecords' /\ Compressions'
  BY SlotsStay DEF jsVars
<1>7. ~JSHolds /\ worker[w].status # "INTERRUPT_BATCH"
  BY WorkersLock, Undisturbed DEF WorkerHolds
<1>8. MdbxRecord' /\ mdbx'.id = mdbx.id /\ Len(mdbx'.frames) = Len(mdbx.frames)
  BY DEF CleanInv, Records, MdbxRecord
<1>9. InTxn(w) /\ worker[w].pc # "commit" /\ r.pc \in TxnPcs \ {"commit"} /\ r.pc \in WaitPcs
  BY <1>2 DEF InTxn, TxnPcs, WaitPcs
<1>10. r.status # "INTERRUPT_BATCH"
  BY <1>2
<1> QED BY <1>1, <1>2, <1>3, <1>4, <1>5, <1>6, <1>7, <1>8, <1>9, <1>10, GoesOn

LEMMA StrictClean ==
    ASSUME CleanInv, NEW w \in Workers, Strict(w)
    PROVE  CleanInv'
<1>1. HandoffInv'
  BY LockingSteps DEF CleanInv
<1>2. worker[w].pc = "strict" /\ UNCHANGED <<jsVars, slot, mark, current, mdbx>>
  BY DEF Strict, workerOnly, dbVars
<1>3. CASE worker' = [worker EXCEPT ![w].pc = "run"] /\ UNCHANGED asleep
  <2> DEFINE r == Moved(w, "run")
  <2>1. worker' = [worker EXCEPT ![w] = r]
    BY <1>3 DEF Moved
  <2>2. /\ r.txn = worker[w].txn /\ r.status \notin {"ALLOW_COMMIT", "INTERRUPT_BATCH"}
        /\ r.at \in Nat \ {0} /\ r.finished \in BOOLEAN
        /\ ~r.finished => Made(CallbackKinds)
    <3>1. Steady(w, r)
      BY <1>2, PlainRecord
    <3> QED BY <3>1 DEF Steady
  <2>3. r.pc = "run"
    BY <1>2, PlainRecord
  <2>4. MdbxRecord' /\ mdbx'.id = mdbx.id /\ Len(mdbx'.frames) = Len(mdbx.frames)
    BY <1>2 DEF CleanInv, Records, MdbxRecord
  <2>5. SlotRecords' /\ Compressions'
    BY <1>2, SlotsStay DEF jsVars
  <2>6. ~JSHolds /\ worker[w].status # "INTERRUPT_BATCH"
    BY <1>2, WorkersLock, Undisturbed DEF WorkerHolds
  <2>7. InTxn(w) /\ r.pc \in TxnPcs \ {"commit"} /\ w \notin asleep
    BY <1>2, <2>3 DEF InTxn, TxnPcs, CleanInv, ExchangeInv, Asleep, WaitPcs
  <2> HIDE DEF r
  <2> QED BY <1>1, <1>2, <1>3, <2>1, <2>2, <2>4, <2>5, <2>6, <2>7, GoesOn
<1>4. CASE ~worker[w].finished /\ WaitForCallbacks(w, "strictWait")
  BY <1>1, <1>2, <1>4, WaitsForCallbacks
<1> QED BY <1>3, <1>4 DEF Strict

LEMMA MarkWaitingClean ==
    ASSUME CleanInv, NEW w \in Workers, MarkWaiting(w)
    PROVE  CleanInv'
<1>1. HandoffInv'
  BY LockingSteps DEF CleanInv
<1>2. /\ worker[w].pc = "run" /\ WaitForCallbacks(w, "wait") /\ mark' = "waiting"
      /\ worker[w].depth = 0 => ~worker[w].finished
      /\ UNCHANGED <<jsVars, slot, current, mdbx>>
  BY DEF MarkWaiting, At, MayEnd, dbVars
<1> QED BY <1>1, <1>2, WaitsForCallbacks

LEMMA ResumeClean ==
    ASSUME CleanInv, NEW w \in Workers, Resume(w)
    PROVE  CleanInv'
<1>1. HandoffInv'
  BY LockingSteps DEF CleanInv
<1>2. /\ worker[w].pc \in {"wait", "strictWait"} /\ lock = Free
      /\ worker[w].status # "INTERRUPT_BATCH" /\ asleep' = asleep \ {w}
      /\ UNCHANGED <<jsVars, slot, mark, current, mdbx>>
  BY DEF Resume, Woken, workerOnly, dbVars
<1> DEFINE r == [worker[w] EXCEPT !.pc = Resumed(w), !.status = "none"]
<1>3. worker' = [worker EXCEPT ![w] = r]
  BY DEF Resume
<1>4. /\ r.pc \in {"run", "strict"} /\ r.txn = worker[w].txn /\ r.at = worker[w].at
      /\ r.finished = worker[w].finished /\ r.status = "none"
  BY DEF CleanInv, HandoffInv, Shapes, IsWorker, Fields, Resumed
<1> HIDE DEF r
<1>5. /\ r.at \in Nat \ {0} /\ r.finished \in BOOLEAN
      /\ ~r.finished => Made(CallbackKinds)
  BY <1>4 DEF CleanInv, Records, ExchangeInv, MayCommit
<1>6. SlotRecords' /\ Compressions'
  BY <1>2, SlotsStay DEF jsVars
<1>7. ~JSHolds
  BY <1>2, WorkersLock
<1>8. MdbxRecord' /\ mdbx'.id = mdbx.id /\ Len(mdbx'.frames) = Len(mdbx.frames)
  BY <1>2 DEF CleanInv, Records, MdbxRecord
<1>9. InTxn(w) /\ worker[w].pc # "commit" /\ r.pc \in TxnPcs \ {"commit"}
  BY <1>2, <1>4 DEF InTxn, TxnPcs
<1>10. /\ asleep' \subseteq asleep \cup {w} /\ w \notin asleep'
       /\ r.status \notin {"ALLOW_COMMIT", "INTERRUPT_BATCH"}
  BY <1>2, <1>4
<1> QED BY <1>1, <1>2, <1>3, <1>4, <1>5, <1>6, <1>7, <1>8, <1>9, <1>10, GoesOn

\* What a worker does not touch when it begins, ends or commits.
LEMMA WorkerProgram ==
    ASSUME CleanInv, HandoffInv', NEW w \in Workers, NEW r, worker' = [worker EXCEPT ![w] = r],
           r.at \in Nat \ {0}, r.finished \in BOOLEAN, ~r.finished => Made(CallbackKinds),
           r.status # "ALLOW_COMMIT", MdbxRecord', UNCHANGED <<jsVars, slot>>
    PROVE  /\ Workers' = Workers /\ worker'[w] = r
           /\ \A v \in Workers : v # w => worker'[v] = worker[v]
           /\ Records' /\ FromProgram' /\ Compressions' /\ MayCommit' /\ InCall'
<1>1. /\ Workers' = Workers /\ worker'[w] = r
      /\ \A v \in Workers : v # w => worker'[v] = worker[v]
  BY OneWorkerChanges DEF CleanInv, HandoffInv
<1>2. UNCHANGED <<program, calls, ran, start, js, writeTxn, slot>>
  BY DEF jsVars
<1>3. Records'
  BY <1>1, <1>2 DEF CleanInv, Records, SlotRecords
<1>4. FromProgram' /\ Compressions'
  BY <1>2 DEF CleanInv, ExchangeInv, FromProgram, Compressions
<1>5. MayCommit'
  BY <1>1, <1>2 DEF CleanInv, ExchangeInv, MayCommit, Made
<1>6. InCall'
  BY <1>2 DEF CleanInv, ExchangeInv, InCall, Made, Kind
<1> QED BY <1>1, <1>3, <1>4, <1>5, <1>6

LEMMA NotInterrupted ==
    ASSUME CleanInv, NEW w \in Workers, HasBegun(w) \/ Active(w),
           worker[w].pc \notin {"wait", "strictWait"}, ~(worker[w].pc = "paused" /\ w \in asleep)
    PROVE  js.pc # "interrupt"
<1> SUFFICES ASSUME js.pc = "interrupt" PROVE FALSE
  OBVIOUS
<1>1. /\ current \in Workers /\ worker[current].pc \in {"wait", "strictWait", "paused"}
      /\ worker[current].pc = "paused" => current \in asleep
  BY DEF CleanInv, ExchangeInv, Interruption
<1>2. HasBegun(current) /\ Active(current)
  BY <1>1 DEF HasBegun, Active
<1>3. w = current
  BY <1>1, <1>2 DEF CleanInv, ExchangeInv, OneWorker
<1> QED BY <1>1, <1>3

LEMMA LockClean ==
    ASSUME CleanInv, NEW w \in Workers, Lock(w)
    PROVE  CleanInv'
<1>1. HandoffInv'
  BY LockingSteps DEF CleanInv
<1> DEFINE r == Moved(w, "begin")
<1>2. /\ worker[w].pc \in {"lock", "paused"} /\ w \notin asleep /\ lock = Free
      /\ worker' = [worker EXCEPT ![w] = r]
      /\ UNCHANGED <<jsVars, slot, mark, current, asleep, mdbx>>
  BY DEF Lock, Moved, workerOnly, dbVars, CleanInv, ExchangeInv, Asleep, WaitPcs
<1>3. Steady(w, r) /\ r.pc = "begin"
  BY <1>2, PlainRecord
<1> HIDE DEF r
<1>4. MdbxRecord'
  BY <1>2 DEF CleanInv, Records, MdbxRecord
<1>5. /\ Workers' = Workers /\ worker'[w] = r
      /\ \A v \in Workers : v # w => worker'[v] = worker[v]
      /\ Records' /\ FromProgram' /\ Compressions' /\ MayCommit' /\ InCall'
  BY <1>1, <1>2, <1>3, <1>4, WorkerProgram DEF Steady
<1>6. Active(w) /\ js.pc # "interrupt" /\ UNCHANGED <<js, start, writeTxn, calls>>
  BY <1>2, NotInterrupted DEF Active, HasBegun, jsVars
<1>7. OneWorker'
  <2>1. \A v \in Workers : HasBegun(v) => v = w
    <3> SUFFICES ASSUME NEW v \in Workers, HasBegun(v), ~Active(v) PROVE FALSE
      BY <1>6 DEF CleanInv, ExchangeInv, OneWorker
    <3>1. worker[v].pc = "commit"
      BY DEF HasBegun, Active
    <3>2. lock = v
      BY <3>1 DEF CleanInv, HandoffInv, LockHolder, WorkerHolds
    <3> QED BY <1>2, <3>2, WorkersAreNumbers DEF CleanInv, HandoffInv
  <2> QED BY <1>2, <1>3, <1>5, <1>6, <2>1 DEF CleanInv, ExchangeInv, OneWorker, Active, HasBegun
<1>8. Asleep' /\ Interruption'
  BY <1>2, <1>3, <1>5, <1>6 DEF CleanInv, ExchangeInv, Asleep, Interruption, Steady
<1>9. \A v \in Workers : (InTxn(v)' <=> InTxn(v)) /\ worker'[v].txn = worker[v].txn
  BY <1>2, <1>3, <1>5 DEF InTxn, TxnPcs, Steady
<1>10. (WorkersTxn' <=> WorkersTxn) /\ (JSInTxn' <=> JSInTxn)
  BY <1>5, <1>6, <1>9 DEF WorkersTxn, JSInTxn
<1>11. OpenTxn'
  BY <1>2, <1>5, <1>6, <1>9, <1>10 DEF CleanInv, ExchangeInv, OpenTxn, IsOpen
<1>12. JSFrames'
  BY <1>2, <1>6, <1>10 DEF CleanInv, ExchangeInv, JSFrames, Outer, Kind
<1> QED BY <1>1, <1>5, <1>7, <1>8, <1>11, <1>12 DEF CleanInv, ExchangeInv, HandoffInv

LEMMA BeginClean ==
    ASSUME CleanInv, NEW w \in Workers, Begin(w)
    PROVE  CleanInv'
<1>1. HandoffInv'
  BY SteadySteps DEF CleanInv
<1>2. /\ worker[w].pc = "begin" /\ mdbx.frames = <<>>
      /\ mdbx' = [id |-> mdbx.id + 1, frames |-> << <<>> >>]
      /\ UNCHANGED <<jsVars, slot, mark, current, asleep>>
  BY DEF Begin, IsOpen, Begun, workerOnly
<1>3. /\ mdbx'.id \in Nat \ {0} /\ mdbx'.frames = << <<>> >> /\ IsList(mdbx'.frames)
      /\ MdbxRecord' /\ Len(mdbx'.frames) = 1 /\ IsOpen'
  BY <1>2 DEF CleanInv, ExchangeInv, OpenTxn, MdbxRecord, IsList, IsOpen
<1> PICK id : id = mdbx'.id
  OBVIOUS
<1> DEFINE r == [worker[w] EXCEPT !.pc = worker[w].resume, !.txn = id, !.status = "none"]
<1>4. worker' = [worker EXCEPT ![w] = r]
  BY DEF Begin
<1>5. /\ r.pc \in {"run", "strict"} /\ r.txn = id /\ r.status = "none"
      /\ r.at = worker[w].at /\ r.finished = worker[w].finished
  BY DEF CleanInv, HandoffInv, Shapes, IsWorker, Fields
<1> HIDE DEF r
<1>6. /\ r.at \in Nat \ {0} /\ r.finished \in BOOLEAN
      /\ ~r.finished => Made(CallbackKinds)
  BY <1>5 DEF CleanInv, Records, ExchangeInv, MayCommit
<1>7. /\ Workers' = Workers /\ worker'[w] = r
      /\ \A v \in Workers : v # w => worker'[v] = worker[v]
      /\ Records' /\ FromProgram' /\ Compressions' /\ MayCommit' /\ InCall'
  BY <1>1, <1>2, <1>3, <1>4, <1>5, <1>6, WorkerProgram
<1>8. /\ Active(w) /\ HasBegun(w) /\ js.pc # "interrupt" /\ ~JSHolds
      /\ UNCHANGED <<js, start, writeTxn, calls>>
  BY <1>2, NotInterrupted, WorkersLock DEF Active, HasBegun, jsVars, WorkerHolds
<1>9. OneWorker'
  BY <1>2, <1>5, <1>7, <1>8 DEF CleanInv, ExchangeInv, OneWorker, Active, HasBegun
<1>10. w \notin asleep
  BY <1>2 DEF CleanInv, ExchangeInv, Asleep, WaitPcs
<1>11. Asleep' /\ Interruption'
  BY <1>2, <1>5, <1>7, <1>8, <1>10 DEF CleanInv, ExchangeInv, Asleep, Interruption
<1>12. ~JSInTxn /\ js.pc # "begin" /\ js.pc # "join"
  BY <1>8 DEF JSInTxn, JSHolds
<1>13. ~WorkersTxn /\ InTxn(w)' /\ \A v \in Workers : v # w => (InTxn(v)' <=> InTxn(v))
  BY <1>2, <1>5, <1>7 DEF CleanInv, ExchangeInv, OpenTxn, IsOpen, InTxn, TxnPcs
<1>14. WorkersTxn' /\ ~JSInTxn' /\ \A v \in Workers : v # w => ~InTxn(v)'
  BY <1>7, <1>8, <1>12, <1>13 DEF WorkersTxn, JSInTxn
<1>15. \A v \in Workers : v # w => worker'[v].txn = 0
  BY <1>7, <1>13 DEF CleanInv, ExchangeInv, OpenTxn, WorkersTxn
<1>16. OpenTxn'
  BY <1>3, <1>5, <1>7, <1>8, <1>12, <1>13, <1>14, <1>15 DEF OpenTxn
<1>17. JSFrames'
  BY <1>8, <1>12, <1>14 DEF CleanInv, ExchangeInv, JSFrames
<1> QED BY <1>1, <1>7, <1>9, <1>11, <1>16, <1>17 DEF CleanInv, ExchangeInv, HandoffInv

LEMMA MarkDelimiterClean ==
    ASSUME CleanInv, NEW w \in Workers, MarkDelimiter(w)
    PROVE  CleanInv'
<1>1. HandoffInv'
  BY SteadySteps DEF CleanInv
<1> DEFINE r == Moved(w, "commit")
<1>2. /\ worker[w].pc = "run" /\ mark' = "delimiter"
      /\ worker' = [worker EXCEPT ![w] = r]
      /\ UNCHANGED <<jsVars, slot, current, asleep, mdbx>>
  BY DEF MarkDelimiter, At, Moved, dbVars
<1>3. Steady(w, r) /\ r.pc = "commit"
  BY <1>2, PlainRecord
<1> HIDE DEF r
<1>4. MdbxRecord'
  BY <1>2 DEF CleanInv, Records, MdbxRecord
<1>5. /\ Workers' = Workers /\ worker'[w] = r
      /\ \A v \in Workers : v # w => worker'[v] = worker[v]
      /\ Records' /\ FromProgram' /\ Compressions' /\ MayCommit' /\ InCall'
  BY <1>1, <1>2, <1>3, <1>4, WorkerProgram DEF Steady
<1>6. /\ InTxn(w) /\ Active(w) /\ HasBegun(w) /\ w = current /\ start = 0
      /\ \A v \in Workers : v # w => ~Active(v) /\ ~HasBegun(v) /\ ~InTxn(v)
  <2>1. InTxn(w)
    BY <1>2 DEF InTxn, TxnPcs
  <2> QED BY <1>2, <2>1, WorkerOfTxn
<1>7. js.pc # "interrupt" /\ UNCHANGED <<js, start, writeTxn, calls>> /\ w \notin asleep
  BY <1>2, <1>6, NotInterrupted DEF jsVars, CleanInv, ExchangeInv, Asleep, WaitPcs
<1>8. OneWorker'
  BY <1>2, <1>3, <1>5, <1>6, <1>7 DEF CleanInv, ExchangeInv, OneWorker, Active, HasBegun
<1>9. Asleep' /\ Interruption'
  BY <1>2, <1>3, <1>5, <1>7 DEF CleanInv, ExchangeInv, Asleep, Interruption, Steady
<1>10. \A v \in Workers : (InTxn(v)' <=> InTxn(v)) /\ worker'[v].txn = worker[v].txn
  BY <1>2, <1>3, <1>5 DEF InTxn, TxnPcs, Steady
<1>11. (WorkersTxn' <=> WorkersTxn) /\ (JSInTxn' <=> JSInTxn)
  BY <1>5, <1>7, <1>10 DEF WorkersTxn, JSInTxn
<1>12. OpenTxn'
  BY <1>2, <1>5, <1>7, <1>10, <1>11 DEF CleanInv, ExchangeInv, OpenTxn, IsOpen
<1>13. JSFrames'
  BY <1>2, <1>7, <1>11 DEF CleanInv, ExchangeInv, JSFrames, Outer, Kind
<1> QED BY <1>1, <1>5, <1>8, <1>9, <1>12, <1>13 DEF CleanInv, ExchangeInv, HandoffInv

\* The transaction of a worker is over.
LEMMA ClosedTxn ==
    ASSUME CleanInv, mdbx' = Closed
    PROVE  /\ MdbxRecord' /\ mdbx'.id = mdbx.id /\ ~IsOpen'
<1>1. mdbx' = [f \in {"id", "frames"} |-> mdbx'[f]] /\ mdbx'.id = mdbx.id /\ mdbx'.frames = <<>>
  BY DEF Closed, CleanInv, Records, MdbxRecord
<1>2. IsList(<<>>)
  BY DEF IsList
<1> QED BY <1>1, <1>2 DEF MdbxRecord, IsOpen

LEMMA InterruptClean ==
    ASSUME CleanInv, NEW w \in Workers, Interrupt(w)
    PROVE  CleanInv'
<1>1. HandoffInv'
  BY SteadySteps DEF CleanInv
<1>2. /\ worker[w].pc \in {"wait", "strictWait"} /\ worker[w].status = "INTERRUPT_BATCH"
      /\ mdbx' = Closed /\ UNCHANGED <<jsVars, slot, mark, current>>
  BY DEF Interrupt, Woken, workerOnly
<1>3. MdbxRecord' /\ mdbx'.id = mdbx.id /\ ~IsOpen'
  BY <1>2, ClosedTxn
<1> DEFINE r == [worker[w] EXCEPT !.pc = "paused", !.txn = 0,
                     !.status = "RESTART_WORKER_TXN", !.resume = Resumed(w)]
<1>4. worker' = [worker EXCEPT ![w] = r]
  BY DEF Interrupt
<1>5. /\ r.pc = "paused" /\ r.txn = 0 /\ r.status = "RESTART_WORKER_TXN"
      /\ r.at = worker[w].at /\ r.finished = worker[w].finished
  BY DEF CleanInv, HandoffInv, Shapes, IsWorker, Fields
<1> HIDE DEF r
<1>6. /\ r.at \in Nat \ {0} /\ r.finished \in BOOLEAN
      /\ ~r.finished => Made(CallbackKinds)
  BY <1>5 DEF CleanInv, Records, ExchangeInv, MayCommit
<1>7. /\ Workers' = Workers /\ worker'[w] = r
      /\ \A v \in Workers : v # w => worker'[v] = worker[v]
      /\ Records' /\ FromProgram' /\ Compressions' /\ MayCommit' /\ InCall'
  BY <1>1, <1>2, <1>3, <1>4, <1>5, <1>6, WorkerProgram
<1>8. /\ InTxn(w) /\ Active(w) /\ HasBegun(w) /\ w = current /\ start = 0
      /\ \A v \in Workers : v # w => ~Active(v) /\ ~HasBegun(v) /\ ~InTxn(v)
  <2>1. InTxn(w)
    BY <1>2 DEF InTxn, TxnPcs
  <2> QED BY <1>2, <2>1, WorkerOfTxn
<1>9. js.pc = "interrupt" /\ JS \in asleep /\ UNCHANGED <<js, start, writeTxn, calls>>
  BY <1>2 DEF jsVars, CleanInv, ExchangeInv, Interruption
<1>10. asleep \ {w} = {JS}
  <2>1. JS # w
    BY WorkersAreNumbers DEF CleanInv, HandoffInv
  <2>2. \A v \in Workers : v \in asleep => v = w
    BY <1>8 DEF CleanInv, ExchangeInv, Asleep, WaitPcs, Active
  <2> QED BY <1>9, <2>1, <2>2 DEF CleanInv, ExchangeInv, Asleep
<1>11. asleep' = {w} /\ JS # w
  <2>1. \A threads \in Signalled({JS}) : threads = {}
    BY DEF Signalled
  <2>2. JS # w
    BY WorkersAreNumbers DEF CleanInv, HandoffInv
  <2>3. \E threads \in Signalled({JS}) : asleep' = threads \cup {w}
    BY <1>10 DEF Interrupt
  <2> QED BY <2>1, <2>2, <2>3
<1>12. OneWorker'
  BY <1>2, <1>5, <1>7, <1>8, <1>9 DEF CleanInv, ExchangeInv, OneWorker, Active, HasBegun
<1>13. Asleep'
  BY <1>5, <1>7, <1>11 DEF Asleep, WaitPcs
<1>14. Interruption'
  <2>1. \A v \in Workers : v # w => worker[v].status # "INTERRUPT_BATCH"
    BY <1>8 DEF CleanInv, ExchangeInv, Interruption, Active
  <2>2. \A v \in Workers : worker'[v].status # "INTERRUPT_BATCH"
    BY <1>5, <1>7, <2>1
  <2>3. current' \in Workers' /\ worker'[current'].pc = "paused" /\ current' \in asleep'
    BY <1>2, <1>5, <1>7, <1>8, <1>11
  <2> QED BY <1>7, <1>11, <2>2, <2>3 DEF Interruption
<1>15. ~InTxn(w)' /\ \A v \in Workers : ~InTxn(v)'
  BY <1>5, <1>7, <1>8 DEF InTxn, TxnPcs
<1>16. ~WorkersTxn' /\ ~JSInTxn /\ ~JSInTxn'
  BY <1>7, <1>9, <1>15 DEF WorkersTxn, JSInTxn
<1>17. \A v \in Workers : worker'[v].txn = 0
  BY <1>5, <1>7, <1>8 DEF CleanInv, ExchangeInv, OpenTxn
<1>18. OpenTxn'
  BY <1>3, <1>7, <1>9, <1>15, <1>16, <1>17 DEF CleanInv, ExchangeInv, OpenTxn
<1>19. JSFrames'
  BY <1>9, <1>16 DEF CleanInv, ExchangeInv, JSFrames
<1> QED BY <1>1, <1>7, <1>12, <1>13, <1>14, <1>18, <1>19 DEF CleanInv, ExchangeInv, HandoffInv

LEMMA CommitClean ==
    ASSUME CleanInv, NEW w \in Workers, Commit(w)
    PROVE  CleanInv'
<1>1. HandoffInv'
  BY LockingSteps DEF CleanInv
<1>2. /\ worker[w].pc = "commit"
      /\ mdbx' = Closed /\ UNCHANGED <<jsVars, slot, mark, current, asleep>>
  BY DEF Commit, workerOnly
<1>3. MdbxRecord' /\ mdbx'.id = mdbx.id /\ ~IsOpen'
  BY <1>2, ClosedTxn
<1> DEFINE r == [worker[w] EXCEPT !.pc = "done", !.txn = 0]
<1>4. worker' = [worker EXCEPT ![w] = r]
  BY DEF Commit
<1>5. /\ r.pc = "done" /\ r.txn = 0 /\ r.status = worker[w].status
      /\ r.at = worker[w].at /\ r.finished = worker[w].finished
  BY DEF CleanInv, HandoffInv, Shapes, IsWorker, Fields
<1> HIDE DEF r
<1>6. /\ r.at \in Nat \ {0} /\ r.finished \in BOOLEAN
      /\ ~r.finished => Made(CallbackKinds)
      /\ r.status \notin {"ALLOW_COMMIT", "INTERRUPT_BATCH"}
  BY <1>2, <1>5 DEF CleanInv, Records, ExchangeInv, MayCommit, Interruption
<1>7. /\ Workers' = Workers /\ worker'[w] = r
      /\ \A v \in Workers : v # w => worker'[v] = worker[v]
      /\ Records' /\ FromProgram' /\ Compressions' /\ MayCommit' /\ InCall'
  BY <1>1, <1>2, <1>3, <1>4, <1>6, WorkerProgram
<1>8. /\ HasBegun(w) /\ js.pc # "interrupt" /\ w \notin asleep /\ ~JSHolds
      /\ UNCHANGED <<js, start, writeTxn, calls>>
  BY <1>2, NotInterrupted, WorkersLock
     DEF HasBegun, jsVars, CleanInv, ExchangeInv, Asleep, WaitPcs, WorkerHolds
<1>9. \A v \in Workers : v # w => ~HasBegun(v) /\ ~InTxn(v)
  BY <1>8 DEF CleanInv, ExchangeInv, OneWorker, HasBegun, InTxn, TxnPcs
<1>10. OneWorker'
  BY <1>2, <1>5, <1>7, <1>8, <1>9 DEF CleanInv, ExchangeInv, OneWorker, Active, HasBegun
<1>11. Asleep' /\ Interruption'
  BY <1>2, <1>5, <1>6, <1>7, <1>8 DEF CleanInv, ExchangeInv, Asleep, Interruption
<1>12. ~InTxn(w)' /\ \A v \in Workers : ~InTxn(v)'
  BY <1>5, <1>7, <1>9 DEF InTxn, TxnPcs
<1>13. ~WorkersTxn' /\ ~JSInTxn /\ ~JSInTxn' /\ js.pc # "begin" /\ js.pc # "join"
  BY <1>7, <1>8, <1>12 DEF WorkersTxn, JSInTxn, JSHolds
<1>14. \A v \in Workers : worker'[v].txn = 0
  BY <1>5, <1>7, <1>9 DEF CleanInv, ExchangeInv, OpenTxn
<1>15. OpenTxn'
  BY <1>3, <1>7, <1>8, <1>12, <1>13, <1>14 DEF CleanInv, ExchangeInv, OpenTxn
<1>16. JSFrames'
  BY <1>8, <1>13 DEF CleanInv, ExchangeInv, JSFrames
<1> QED BY <1>1, <1>7, <1>10, <1>11, <1>15, <1>16 DEF CleanInv, ExchangeInv, HandoffInv

LEMMA WorkersClean ==
    ASSUME CleanInv, NEW w \in Workers, WorkerStep(w)
    PROVE  CleanInv'
BY InstructionsClean, CompressedClean, CompressionWaitClean, WaitAgainClean, StrictClean, MarkWaitingClean,
   ResumeClean, LockClean, BeginClean, MarkDelimiterClean, InterruptClean, CommitClean DEF WorkerStep

-----------------------------------------------------------------------------
(* The steps of JavaScript.                                                 *)

\* JavaScript never moves a worker, nor what it has of the transaction.
WorkersStay ==
    /\ Workers' = Workers
    /\ \A w \in Workers :
          /\ worker'[w].pc = worker[w].pc /\ worker'[w].at = worker[w].at
          /\ worker'[w].txn = worker[w].txn
          /\ worker'[w].finished \in {worker[w].finished, TRUE}

LEMMA SameTxns ==
    ASSUME WorkersStay
    PROVE  /\ \A w \in Workers : /\ InTxn(w)' <=> InTxn(w)
                                 /\ Active(w)' <=> Active(w)
                                 /\ HasBegun(w)' <=> HasBegun(w)
           /\ WorkersTxn' <=> WorkersTxn
<1>1. \A w \in Workers : /\ InTxn(w)' <=> InTxn(w)
                         /\ Active(w)' <=> Active(w)
                         /\ HasBegun(w)' <=> HasBegun(w)
  BY DEF WorkersStay, InTxn, Active, HasBegun
<1> QED BY <1>1 DEF WorkersStay, WorkersTxn

LEMMA UpdatedWorker ==
    ASSUME CleanInv, NEW w, NEW r, worker' = [worker EXCEPT ![w] = r]
    PROVE  /\ Workers' = Workers
           /\ \A v \in Workers : worker'[v] = IF v = w THEN r ELSE worker[v]
<1>1. DOMAIN worker' = DOMAIN worker
  BY DEF Workers, CleanInv, HandoffInv, Shapes
<1> QED BY <1>1 DEF Workers, CleanInv, HandoffInv, Shapes

\* Only the status of the current worker changes, if anything.
LEMMA StatusOnly ==
    ASSUME CleanInv, NEW status,
           worker' = [worker EXCEPT ![current].status = status] \/ worker' = worker
    PROVE  /\ WorkersStay
           /\ \A w \in Workers :
                 \/ worker'[w].status = worker[w].status
                 \/ w = current /\ worker'[w].status = status
<1> DEFINE r == [worker[current] EXCEPT !.status = status]
<1>1. current \in Workers => /\ r.pc = worker[current].pc /\ r.at = worker[current].at
                             /\ r.txn = worker[current].txn /\ r.finished = worker[current].finished
                             /\ r.status = status
  BY DEF CleanInv, HandoffInv, Shapes, IsWorker, Fields
<1>2. CASE worker' = [worker EXCEPT ![current].status = status]
  <2>1. worker' = [worker EXCEPT ![current] = r]
    BY <1>2
  <2> HIDE DEF r
  <2>2. /\ Workers' = Workers
        /\ \A v \in Workers : worker'[v] = IF v = current THEN r ELSE worker[v]
    <3>1. DOMAIN worker' = DOMAIN worker
      BY <2>1 DEF CleanInv, HandoffInv, Shapes
    <3> QED BY <2>1, <3>1 DEF Workers, CleanInv, HandoffInv, Shapes
  <2> QED BY <1>1, <2>2 DEF WorkersStay
<1>3. CASE worker' = worker
  BY <1>3 DEF WorkersStay, Workers
<1> QED BY <1>2, <1>3

\* What the program has called, when it calls nothing.
LEMMA ProgramStays ==
    ASSUME CleanInv, WorkersStay, UNCHANGED <<program, calls, slot>>, start' \in Nat,
           MdbxRecord', IsList(writeTxn'),
           \A w \in Workers : worker'[w].status = "ALLOW_COMMIT" => worker[w].status = "ALLOW_COMMIT"
    PROVE  Records' /\ FromProgram' /\ Compressions' /\ MayCommit'
<1>1. Records'
  BY DEF CleanInv, Records, SlotRecords, WorkersStay
<1>2. FromProgram' /\ Compressions'
  BY DEF CleanInv, ExchangeInv, FromProgram, Compressions
<1>3. MayCommit'
  BY DEF CleanInv, ExchangeInv, MayCommit, WorkersStay, Made
<1> QED BY <1>1, <1>2, <1>3

\* Outside of synchronous transactions, JavaScript disturbs nobody.
Outside == js.pc \in {"idle", "notify", "progress", "acquire"}

LEMMA StaysOutside ==
    ASSUME CleanInv, HandoffInv', Outside, Outside', WorkersStay,
           \A w \in Workers : worker'[w].status = worker[w].status,
           Records', FromProgram', Compressions', MayCommit',
           js'.pc = "acquire" => js'.call \in DOMAIN calls' /\ Kind' \in SyncKinds,
           OneWorker', asleep' \subseteq asleep \cup {JS}, JS \in asleep' => js'.pc = "progress",
           mdbx'.id = mdbx.id, Len(mdbx'.frames) = Len(mdbx.frames), UNCHANGED writeTxn
    PROVE  CleanInv'
<1>1. InCall'
  BY DEF InCall, Outside
<1>2. Asleep'
  <2>1. JS \notin Workers
    BY WorkersAreNumbers DEF CleanInv, HandoffInv
  <2> QED BY <2>1 DEF CleanInv, ExchangeInv, Asleep, WorkersStay
<1>3. Interruption'
  BY DEF CleanInv, ExchangeInv, Interruption, WorkersStay, Outside
<1>4. ~JSInTxn /\ ~JSInTxn' /\ js'.pc # "begin" /\ js'.pc # "join"
  BY DEF JSInTxn, Outside
<1>5. IsOpen' <=> IsOpen
  <2>1. IsList(mdbx.frames) /\ IsList(mdbx'.frames)
    BY DEF CleanInv, Records, MdbxRecord
  <2> QED BY <2>1, EmptyList DEF IsOpen
<1>6. OpenTxn'
  BY <1>4, <1>5, SameTxns DEF CleanInv, ExchangeInv, OpenTxn, WorkersStay
<1>7. JSFrames'
  BY <1>4 DEF CleanInv, ExchangeInv, JSFrames
<1> QED BY <1>1, <1>2, <1>3, <1>6, <1>7 DEF CleanInv, ExchangeInv, HandoffInv

\* A call is made.
LEMMA CalledNext ==
    ASSUME CleanInv, NEW kind \in QueuedKinds \cup SyncKinds, Called(kind),
           UNCHANGED <<program, worker, writeTxn, mdbx>>, start' \in Nat
    PROVE  /\ Records' /\ FromProgram' /\ Compressions' /\ MayCommit'
           /\ Len(calls') = Len(calls) + 1 /\ Len(calls') \in DOMAIN calls'
           /\ calls'[Len(calls')] = kind
<1> PICK n \in Nat : n = Len(calls)
  BY DEF CleanInv, Records
<1>1. /\ calls \in Seq(QueuedKinds \cup SyncKinds) /\ calls' = Append(calls, kind)
      /\ n < Len(program) /\ kind = program[n + 1]
      /\ slot' = Append(slot, IF kind = "zput" THEN QueuedSlot ELSE NoSlot)
  BY DEF Called, CleanInv, Records
<1>2. /\ calls' \in Seq(QueuedKinds \cup SyncKinds) /\ Len(calls') = n + 1
      /\ DOMAIN calls' = 1..n + 1 /\ calls'[n + 1] = kind /\ DOMAIN calls = 1..n
      /\ \A i \in 1..n : calls'[i] = calls[i]
  BY <1>1
<1>3. Len(program) \in Nat
  BY HandoffAssumption DEF CleanInv, ExchangeInv, FromProgram
<1>4. FromProgram'
  <2>1. program' \in Programs /\ Len(calls') <= Len(program')
    BY <1>1, <1>2, <1>3 DEF CleanInv, ExchangeInv, FromProgram
  <2>2. \A i \in DOMAIN calls' : calls'[i] = program'[i]
    BY <1>1, <1>2 DEF CleanInv, ExchangeInv, FromProgram
  <2> QED BY <2>1, <2>2 DEF FromProgram
<1> PICK e : e = IF kind = "zput" THEN QueuedSlot ELSE NoSlot
  OBVIOUS
<1>5. /\ e = [f \in {"status", "copies", "pc"} |-> e[f]]
      /\ e.pc # "done" => kind = "zput"
  BY DEF QueuedSlot, NoSlot
<1>6. IsList(slot) /\ Len(slot) = n
  BY DEF CleanInv, Records, SlotRecords, ExchangeInv, Compressions
<1>7. IsList(slot') /\ Len(slot') = n + 1
      /\ slot'[n + 1] = e /\ \A i \in 1..n : slot'[i] = slot[i]
  BY <1>1, <1>6, AppendedList
<1>8. DOMAIN slot = 1..n /\ DOMAIN slot' = 1..n + 1
  BY <1>6, <1>7 DEF IsList
<1>9. SlotRecords'
  BY <1>5, <1>7, <1>8 DEF CleanInv, Records, SlotRecords
<1>10. Compressions'
  <2>1. \A i \in DOMAIN slot' : slot'[i].pc # "done" => calls'[i] = "zput"
    BY <1>2, <1>5, <1>7, <1>8 DEF CleanInv, ExchangeInv, Compressions
  <2> QED BY <1>2, <1>7, <2>1 DEF Compressions
<1>11. Records'
  BY <1>2, <1>9 DEF CleanInv, Records, MdbxRecord, Workers
<1>12. MayCommit'
  <2>1. Made(CallbackKinds) => Made(CallbackKinds)'
    BY <1>2 DEF Made
  <2> QED BY <2>1 DEF CleanInv, ExchangeInv, MayCommit, Workers
<1> QED BY <1>2, <1>4, <1>10, <1>11, <1>12

LEMMA SubmitClean ==
    ASSUME CleanInv, NEW kind, Submit(kind)
    PROVE  CleanInv'
<1>1. HandoffInv'
  <2>1. Call
    BY DEF Call, Submit
  <2> QED BY <2>1, CallStep DEF CleanInv
<1>2. /\ kind \in QueuedKinds \cup SyncKinds /\ Called(kind) /\ mark' = "none" /\ js.pc = "idle"
      /\ start' = IF mark = "delimiter" THEN Len(Queue) + 1 ELSE start
      /\ UNCHANGED <<program, writeTxn, worker, current, asleep, mdbx>>
  BY DEF Submit, Called, dbVars
<1>3. Len(Queue) \in Nat /\ start \in Nat
  <2>1. Queue \in Seq(1..Len(calls))
    BY QueueOfCalls DEF CleanInv, Records
  <2> QED BY <2>1 DEF CleanInv, Records
<1>4. start' \in Nat
  BY <1>2, <1>3
<1>5. Records' /\ FromProgram' /\ Compressions' /\ MayCommit'
  BY <1>2, <1>4, CalledNext
<1>6. js'.pc \in {"idle", "notify"}
  BY <1>2 DEF Submit, CleanInv, HandoffInv, Shapes, IsJS
<1>7. Outside /\ Outside' /\ js'.pc # "acquire"
  BY <1>2, <1>6 DEF Outside
<1>8. OneWorker'
  BY <1>2 DEF CleanInv, ExchangeInv, OneWorker, Workers, Active, HasBegun
<1>9. JS \notin asleep
  BY <1>2 DEF CleanInv, ExchangeInv, Asleep
<1>10. WorkersStay
  BY <1>2 DEF WorkersStay, Workers
<1> QED BY <1>1, <1>2, <1>5, <1>7, <1>8, <1>9, <1>10, StaysOutside

LEMMA CallSyncClean ==
    ASSUME CleanInv, NEW kind, CallSync(kind)
    PROVE  CleanInv'
<1>1. HandoffInv'
  <2>1. Call
    BY DEF Call, CallSync
  <2> QED BY <2>1, CallStep DEF CleanInv
<1>2. /\ kind \in SyncKinds /\ Called(kind) /\ js.pc = "idle"
      /\ js' = [pc |-> "acquire", call |-> Len(calls'), worker |-> 0]
      /\ UNCHANGED <<program, start, mark, writeTxn, worker, current, asleep, mdbx>>
  BY DEF CallSync, Called, dbVars
<1>3. start' \in Nat
  BY <1>2 DEF CleanInv, Records
<1>4. /\ Records' /\ FromProgram' /\ Compressions' /\ MayCommit'
      /\ Len(calls') \in DOMAIN calls' /\ calls'[Len(calls')] = kind
  BY <1>2, <1>3, CalledNext
<1>5. js'.pc = "acquire" /\ js'.call = Len(calls')
  BY <1>2
<1>6. js'.call \in DOMAIN calls' /\ Kind' \in SyncKinds
  BY <1>2, <1>4, <1>5 DEF Kind
<1>7. Outside /\ Outside'
  BY <1>2, <1>5 DEF Outside
<1>8. OneWorker'
  BY <1>2 DEF CleanInv, ExchangeInv, OneWorker, Workers, Active, HasBegun
<1>9. JS \notin asleep
  BY <1>2 DEF CleanInv, ExchangeInv, Asleep
<1>10. WorkersStay
  BY <1>2 DEF WorkersStay, Workers
<1> QED BY <1>1, <1>2, <1>4, <1>6, <1>7, <1>8, <1>9, <1>10, StaysOutside

\* Signals, and the wait for a transaction of the worker.
LEMMA SignalsClean ==
    ASSUME CleanInv, Notify \/ AwaitTxn
    PROVE  CleanInv'
<1>1. HandoffInv'
  BY NotifyStep, AwaitTxnStep DEF CleanInv
<1>2. UNCHANGED <<program, calls, slot, mark, start, writeTxn, worker, current, mdbx>>
  BY DEF Notify, AwaitTxn, jsVars, dbVars
<1>3. WorkersStay
  BY <1>2 DEF WorkersStay, Workers
<1>4. Records' /\ FromProgram' /\ Compressions' /\ MayCommit'
  <2>1. start' \in Nat /\ MdbxRecord' /\ IsList(writeTxn')
    BY <1>2 DEF CleanInv, Records, MdbxRecord
  <2> QED BY <1>2, <1>3, <2>1, ProgramStays
<1>5. /\ Outside /\ Outside' /\ js'.pc # "acquire"
      /\ asleep' \subseteq asleep \cup {JS} /\ (JS \in asleep' => js'.pc = "progress")
  <2>1. CASE Notify
    BY <2>1 DEF Notify, Outside, Idle, Signalled, CleanInv, ExchangeInv, Asleep
  <2>2. CASE AwaitTxn
    BY <2>2 DEF AwaitTxn, Outside, jsVars
  <2> QED BY <2>1, <2>2
<1>6. OneWorker'
  BY <1>2 DEF CleanInv, ExchangeInv, OneWorker, Workers, Active, HasBegun
<1> QED BY <1>1, <1>2, <1>3, <1>4, <1>5, <1>6, StaysOutside

LEMMA ProgressClean ==
    ASSUME CleanInv, NEW w \in Workers, Progress(w)
    PROVE  CleanInv'
<1>1. HandoffInv'
  BY CompletionStep DEF CleanInv
<1> DEFINE r == [worker[w] EXCEPT !.progress = FALSE]
<1>2. /\ worker' = [worker EXCEPT ![w] = r] /\ js.pc = "idle"
      /\ UNCHANGED <<program, calls, slot, mark, start, writeTxn, current, asleep, mdbx>>
  BY DEF Progress, dbVars
<1>3. /\ r.pc = worker[w].pc /\ r.at = worker[w].at /\ r.txn = worker[w].txn
      /\ r.finished = worker[w].finished /\ r.status = worker[w].status
  BY DEF CleanInv, HandoffInv, Shapes, IsWorker, Fields
<1> HIDE DEF r
<1>4. Workers' = Workers /\ \A v \in Workers : worker'[v] = IF v = w THEN r ELSE worker[v]
  BY <1>2, UpdatedWorker
<1>5. WorkersStay /\ \A v \in Workers : worker'[v].status = worker[v].status
  BY <1>3, <1>4 DEF WorkersStay
<1>6. Records' /\ FromProgram' /\ Compressions' /\ MayCommit'
  <2>1. start' \in Nat /\ MdbxRecord' /\ IsList(writeTxn')
    BY <1>2 DEF CleanInv, Records, MdbxRecord
  <2> QED BY <1>2, <1>5, <2>1, ProgramStays
<1>7. js'.pc \in {"idle", "progress"}
  BY <1>2 DEF Progress
<1>8. Outside /\ Outside' /\ js'.pc # "acquire" /\ JS \notin asleep
  BY <1>2, <1>7 DEF Outside, CleanInv, ExchangeInv, Asleep
<1>9. OneWorker'
  BY <1>2, <1>5, SameTxns DEF CleanInv, ExchangeInv, OneWorker, WorkersStay
<1> QED BY <1>1, <1>2, <1>5, <1>6, <1>8, <1>9, StaysOutside

LEMMA RunCallbacksClean ==
    ASSUME CleanInv, RunCallbacks
    PROVE  CleanInv'
<1>1. HandoffInv'
  BY RunCallbacksStep DEF CleanInv
<1> PICK w : w = js.worker
  OBVIOUS
<1> DEFINE r == [worker[w] EXCEPT !.finished = TRUE]
<1>2. /\ worker' = [worker EXCEPT ![w] = r] /\ js.pc = "progress" /\ js' = Idle
      /\ JS \notin asleep /\ asleep' \in Signalled(asleep)
      /\ UNCHANGED <<program, calls, slot, mark, start, writeTxn, current>>
  BY DEF RunCallbacks
<1>3. w \in Workers =>
        /\ r.pc = worker[w].pc /\ r.at = worker[w].at /\ r.txn = worker[w].txn
        /\ r.finished = TRUE /\ r.status = worker[w].status
  BY DEF CleanInv, HandoffInv, Shapes, IsWorker, Fields
<1> HIDE DEF r
<1>4. Workers' = Workers /\ \A v \in Workers : worker'[v] = IF v = w THEN r ELSE worker[v]
  <2>1. worker' = [worker EXCEPT ![w] = r]
    BY <1>2
  <2>2. DOMAIN worker' = DOMAIN worker
    BY <2>1 DEF CleanInv, HandoffInv, Shapes
  <2> QED BY <2>1, <2>2 DEF Workers, CleanInv, HandoffInv, Shapes
<1>5. WorkersStay /\ \A v \in Workers : worker'[v].status = worker[v].status
  BY <1>3, <1>4 DEF WorkersStay
<1>6. MdbxRecord' /\ mdbx'.id = mdbx.id /\ Len(mdbx'.frames) = Len(mdbx.frames)
  <2>1. \E k, e : mdbx' = [mdbx EXCEPT !.frames[k] = e]
    BY DEF RunCallbacks
  <2>2. PICK k, e : mdbx' = [mdbx EXCEPT !.frames[k] = e]
    BY <2>1
  <2>3. mdbx' = [f \in {"id", "frames"} |-> mdbx'[f]] /\ mdbx'.id = mdbx.id
        /\ mdbx'.frames = [mdbx.frames EXCEPT ![k] = e]
    BY <2>2 DEF CleanInv, Records, MdbxRecord
  <2>4. IsList(mdbx.frames)
    BY DEF CleanInv, Records, MdbxRecord
  <2>5. LET u == [mdbx.frames EXCEPT ![k] = e] IN IsList(u) /\ Len(u) = Len(mdbx.frames)
    BY <2>4, UpdatedList
  <2> QED BY <2>3, <2>5 DEF MdbxRecord
<1>7. Records' /\ FromProgram' /\ Compressions' /\ MayCommit'
  <2>1. start' \in Nat /\ IsList(writeTxn')
    BY <1>2 DEF CleanInv, Records
  <2> QED BY <1>2, <1>5, <1>6, <2>1, ProgramStays
<1>8. js'.pc = "idle" /\ asleep' \subseteq asleep
  BY <1>2 DEF Idle, Signalled
<1>9. Outside /\ Outside' /\ js'.pc # "acquire"
  BY <1>2, <1>8 DEF Outside
<1>10. OneWorker'
  BY <1>2, <1>5, SameTxns DEF CleanInv, ExchangeInv, OneWorker, WorkersStay
<1> QED BY <1>1, <1>2, <1>5, <1>6, <1>7, <1>8, <1>9, <1>10, StaysOutside

\* A worker is started, or has completed.
LEMMA StartWritingClean ==
    ASSUME CleanInv, StartWriting
    PROVE  CleanInv'
<1>1. HandoffInv'
  BY StartWritingStep DEF CleanInv
<1> PICK n \in Nat : n = Len(worker)
  BY DEF CleanInv, HandoffInv, Shapes
<1>2. /\ js.pc = "idle" /\ start # 0 /\ start' = 0
      /\ worker' = Append(worker, NewWorker(start)) /\ current' = Len(worker')
      /\ UNCHANGED <<program, calls, slot, mark, js, writeTxn, asleep, mdbx>>
  BY DEF StartWriting, dbVars
<1>3. worker' = [v \in 1..n + 1 |-> IF v = n + 1 THEN NewWorker(start) ELSE worker[v]]
  BY <1>2, AppendedTo DEF CleanInv, HandoffInv, Shapes
<1>4. Workers = 1..n /\ n + 1 \notin Workers
  BY WorkersAreNumbers DEF CleanInv, HandoffInv
<1>5. /\ Workers' = Workers \cup {n + 1} /\ current' = n + 1
      /\ worker'[n + 1] = NewWorker(start) /\ \A v \in Workers : worker'[v] = worker[v]
  BY <1>2, <1>3, <1>4 DEF Workers
<1>6. start \in Nat \ {0}
  BY <1>2 DEF CleanInv, Records
<1> PICK r : r = NewWorker(start)
  OBVIOUS
<1>10. /\ worker'[n + 1] = r /\ r.pc = "lock" /\ r.at = start /\ r.txn = 0
       /\ r.finished = TRUE /\ r.status = "none"
  BY <1>5 DEF NewWorker
<1>7. /\ js.pc = "idle" /\ start' = 0
      /\ UNCHANGED <<program, calls, slot, mark, js, writeTxn, asleep, mdbx>>
      /\ \A v \in Workers' : \/ v \in Workers /\ worker'[v] = worker[v]
                             \/ v = n + 1 /\ worker'[v] = r
  BY <1>2, <1>5, <1>10
<1>8. Records'
  <2>1. \A v \in Workers' : worker'[v].finished \in BOOLEAN /\ worker'[v].at \in Nat \ {0}
    BY <1>6, <1>7, <1>10 DEF CleanInv, Records
  <2> QED BY <1>7, <2>1 DEF CleanInv, Records, SlotRecords, MdbxRecord
<1>9. FromProgram' /\ Compressions' /\ InCall'
  BY <1>7 DEF CleanInv, ExchangeInv, FromProgram, Compressions, InCall
<1>11. MayCommit'
  <2>1. Made(CallbackKinds)' <=> Made(CallbackKinds)
    BY <1>7 DEF Made
  <2> QED BY <1>7, <1>10, <2>1 DEF CleanInv, ExchangeInv, MayCommit
<1>12. OneWorker'
  <2>1. mark' # "delimiter"
    BY <1>2 DEF CleanInv, ExchangeInv, OneWorker
  <2>2. \A v \in Workers : ~Active(v)' /\ (HasBegun(v)' <=> HasBegun(v))
    BY <1>2, <1>5 DEF CleanInv, ExchangeInv, OneWorker, Active, HasBegun
  <2>3. ~HasBegun(n + 1)'
    BY <1>10 DEF HasBegun
  <2> QED BY <1>5, <1>7, <2>1, <2>2, <2>3 DEF CleanInv, ExchangeInv, OneWorker
<1>13. Asleep'
  BY <1>4, <1>5, <1>7 DEF CleanInv, ExchangeInv, Asleep
<1>14. Interruption'
  <2>1. \A v \in Workers : worker[v].status # "INTERRUPT_BATCH"
    BY <1>7 DEF CleanInv, ExchangeInv, Interruption
  <2> QED BY <1>7, <1>10, <2>1 DEF Interruption
<1>15. ~InTxn(n + 1)' /\ \A v \in Workers : InTxn(v)' <=> InTxn(v)
  BY <1>5, <1>10 DEF InTxn, TxnPcs
<1>16. (WorkersTxn' <=> WorkersTxn) /\ ~JSInTxn /\ ~JSInTxn' /\ (IsOpen' <=> IsOpen)
  BY <1>5, <1>7, <1>15 DEF WorkersTxn, JSInTxn, IsOpen
<1>17. OpenTxn'
  <2>1. \A v \in Workers' : worker'[v].txn = IF InTxn(v)' THEN mdbx.id ELSE 0
    BY <1>7, <1>10, <1>15 DEF CleanInv, ExchangeInv, OpenTxn
  <2> QED BY <1>7, <1>16, <2>1 DEF CleanInv, ExchangeInv, OpenTxn
<1>18. JSFrames'
  BY <1>7, <1>16 DEF CleanInv, ExchangeInv, JSFrames
<1> QED BY <1>1, <1>8, <1>9, <1>11, <1>12, <1>13, <1>14, <1>17, <1>18
        DEF CleanInv, ExchangeInv, HandoffInv

LEMMA CompleteClean ==
    ASSUME CleanInv, NEW w \in Workers, Complete(w)
    PROVE  CleanInv'
<1>1. HandoffInv'
  BY CompletionStep DEF CleanInv
<1> DEFINE r == Moved(w, "gone")
<1>2. /\ js.pc = "idle" /\ worker[w].pc = "done" /\ worker' = [worker EXCEPT ![w] = r]
      /\ current' = IF current = w THEN 0 ELSE current
      /\ UNCHANGED <<jsVars, slot, mark, asleep, mdbx>>
  BY DEF Complete, Moved, dbVars
<1>3. Steady(w, r) /\ r.pc = "gone"
  BY <1>2, PlainRecord
<1> HIDE DEF r
<1>4. MdbxRecord'
  BY <1>2 DEF CleanInv, Records, MdbxRecord
<1>5. /\ Workers' = Workers /\ worker'[w] = r
      /\ \A v \in Workers : v # w => worker'[v] = worker[v]
      /\ Records' /\ FromProgram' /\ Compressions' /\ MayCommit' /\ InCall'
  BY <1>1, <1>2, <1>3, <1>4, WorkerProgram DEF Steady
<1>6. UNCHANGED <<js, start, writeTxn, calls>> /\ w \notin asleep /\ ~Active(w) /\ ~HasBegun(w)
  BY <1>2 DEF jsVars, CleanInv, ExchangeInv, Asleep, WaitPcs, Active, HasBegun
<1>7. OneWorker'
  <2>1. ~Active(w)' /\ ~HasBegun(w)'
    BY <1>3, <1>5 DEF Active, HasBegun
  <2>2. \A v \in Workers : v # w => (Active(v)' <=> Active(v)) /\ (HasBegun(v)' <=> HasBegun(v))
    BY <1>5 DEF Active, HasBegun
  <2>3. \A v \in Workers : Active(v)' => v = current' /\ start' = 0 /\ mark' # "delimiter"
    BY <1>2, <1>6, <2>1, <2>2 DEF CleanInv, ExchangeInv, OneWorker
  <2>4. \A u, v \in Workers : HasBegun(u)' /\ HasBegun(v)' => u = v
    BY <2>1, <2>2 DEF CleanInv, ExchangeInv, OneWorker
  <2>5. (start' # 0 => mark' # "delimiter") /\ (current' = 0 \/ current' \in Workers)
    BY <1>2, <1>6 DEF CleanInv, ExchangeInv, OneWorker
  <2> QED BY <1>5, <2>3, <2>4, <2>5 DEF OneWorker
<1>8. Asleep' /\ Interruption'
  BY <1>2, <1>3, <1>5, <1>6 DEF CleanInv, ExchangeInv, Asleep, Interruption, Steady
<1>9. \A v \in Workers : (InTxn(v)' <=> InTxn(v)) /\ worker'[v].txn = worker[v].txn
  BY <1>2, <1>3, <1>5 DEF InTxn, TxnPcs, Steady
<1>10. (WorkersTxn' <=> WorkersTxn) /\ ~JSInTxn /\ ~JSInTxn' /\ (IsOpen' <=> IsOpen)
  BY <1>2, <1>5, <1>6, <1>9 DEF WorkersTxn, JSInTxn, IsOpen
<1>11. OpenTxn'
  BY <1>2, <1>5, <1>6, <1>9, <1>10 DEF CleanInv, ExchangeInv, OpenTxn
<1>12. JSFrames'
  BY <1>6, <1>10 DEF CleanInv, ExchangeInv, JSFrames
<1> QED BY <1>1, <1>5, <1>7, <1>8, <1>11, <1>12 DEF CleanInv, ExchangeInv, HandoffInv

\* A worker that has a transaction while nobody has the lock is the current one.
LEMMA CurrentHasTxn ==
    ASSUME CleanInv, lock = Free, NEW w \in Workers, InTxn(w)
    PROVE  w = current /\ worker[w].txn # 0 /\ WorkerHasTxn
<1>1. ~WorkerHolds(w)
  BY WorkersAreNumbers DEF CleanInv, HandoffInv, LockHolder
<1>2. Active(w)
  BY <1>1 DEF InTxn, TxnPcs, WorkerHolds, Active
<1>3. w = current
  BY <1>2 DEF CleanInv, ExchangeInv, OneWorker
<1>4. worker[w].txn # 0
  BY DEF CleanInv, ExchangeInv, OpenTxn, WorkersTxn
<1>5. w # 0
  BY WorkersAreNumbers DEF CleanInv, HandoffInv, Free
<1> QED BY <1>3, <1>4, <1>5 DEF WorkerHasTxn

LEMMA AcquireClean ==
    ASSUME CleanInv, Acquire
    PROVE  CleanInv'
<1>1. HandoffInv'
  BY AcquireStep DEF CleanInv
<1> DEFINE allowed == current # 0 /\ worker[current].status = "ALLOW_COMMIT" /\ Kind # "putSync"
           status == IF allowed THEN "INTERRUPT_BATCH" ELSE "USER_HAS_LOCK"
<1>2. /\ js.pc = "acquire" /\ lock = Free
      /\ UNCHANGED <<program, calls, slot, mark, start, writeTxn, current, mdbx>>
  BY DEF Acquire, dbVars
<1>3. worker' = [worker EXCEPT ![current].status = status] \/ worker' = worker
  BY DEF Acquire
<1>4. status \in {"INTERRUPT_BATCH", "USER_HAS_LOCK"} /\ (allowed <=> status = "INTERRUPT_BATCH")
  OBVIOUS
<1> PICK s : s = status
  OBVIOUS
<1>5. /\ WorkersStay
      /\ \A w \in Workers : \/ worker'[w].status = worker[w].status
                            \/ w = current /\ worker'[w].status = s
  <2>1. worker' = [worker EXCEPT ![current].status = s] \/ worker' = worker
    BY <1>3
  <2> QED BY <2>1, StatusOnly
<1>6. Records' /\ FromProgram' /\ Compressions' /\ MayCommit'
  <2>1. start' \in Nat /\ MdbxRecord' /\ IsList(writeTxn')
    BY <1>2 DEF CleanInv, Records, MdbxRecord
  <2>2. \A w \in Workers : worker'[w].status = "ALLOW_COMMIT" => worker[w].status = "ALLOW_COMMIT"
    BY <1>4, <1>5
  <2> QED BY <1>2, <1>5, <2>1, <2>2, ProgramStays
<1>7. OneWorker'
  BY <1>2, <1>5, SameTxns DEF CleanInv, ExchangeInv, OneWorker, WorkersStay
<1>8. JS \notin asleep /\ \A w \in Workers : worker[w].status # "INTERRUPT_BATCH"
  BY <1>2 DEF CleanInv, ExchangeInv, Asleep, Interruption
<1>9. js.call \in DOMAIN calls /\ Kind \in SyncKinds
  BY <1>2 DEF CleanInv, ExchangeInv, InCall
<1>10. ~JSInTxn /\ js'.call = js.call /\ Kind' = Kind
       /\ js'.pc = IF allowed THEN "interrupt" ELSE IF WorkerHasTxn THEN "join" ELSE "begin"
  BY <1>2 DEF Acquire, JSInTxn, Kind, CleanInv, HandoffInv, Shapes, IsJS
<1>11. CASE allowed
  <2>1. /\ js'.pc = "interrupt" /\ worker' = [worker EXCEPT ![current].status = "INTERRUPT_BATCH"]
        /\ \E threads \in Signalled(asleep) : asleep' = threads \cup {JS}
    BY <1>10, <1>11 DEF Acquire
  <2>2. current \in Workers /\ worker[current].pc \in {"wait", "strictWait"} /\ Made(CallbackKinds)
    BY <1>11 DEF CleanInv, ExchangeInv, OneWorker, MayCommit
  <2>3. InCall'
    BY <1>2, <1>9, <1>10, <1>11, <2>1, <2>2 DEF InCall, Made
  <2>4. Asleep'
    <3>1. JS \notin Workers
      BY WorkersAreNumbers DEF CleanInv, HandoffInv
    <3>2. asleep' \subseteq asleep \cup {JS}
      BY <2>1 DEF Signalled
    <3> QED BY <1>5, <2>1, <3>1, <3>2 DEF CleanInv, ExchangeInv, Asleep, WorkersStay
  <2>5. Interruption'
    <3>1. worker'[current].status = "INTERRUPT_BATCH"
      <4> DEFINE r == [worker[current] EXCEPT !.status = "INTERRUPT_BATCH"]
      <4>1. r.status = "INTERRUPT_BATCH"
        BY <2>2 DEF CleanInv, HandoffInv, Shapes, IsWorker, Fields
      <4>2. worker' = [worker EXCEPT ![current] = r]
        BY <2>1
      <4> HIDE DEF r
      <4> QED BY <2>2, <4>1, <4>2, OneWorkerChanges DEF CleanInv, HandoffInv
    <3>2. JS \in asleep'
      BY <2>1
    <3> QED BY <1>2, <1>5, <1>8, <2>1, <2>2, <3>1, <3>2 DEF Interruption, WorkersStay
  <2>6. ~JSInTxn'
    BY <2>1 DEF JSInTxn
  <2>7. OpenTxn'
    BY <1>2, <1>5, <1>10, <2>1, <2>6, SameTxns DEF CleanInv, ExchangeInv, OpenTxn, WorkersStay, IsOpen
  <2>8. JSFrames'
    BY <1>2, <1>10, <2>6 DEF CleanInv, ExchangeInv, JSFrames
  <2> QED BY <1>1, <1>6, <1>7, <2>3, <2>4, <2>5, <2>7, <2>8 DEF CleanInv, ExchangeInv, HandoffInv
<1>12. CASE ~allowed
  <2>1. js'.pc = (IF WorkerHasTxn THEN "join" ELSE "begin") /\ UNCHANGED asleep
    BY <1>10, <1>12 DEF Acquire
  <2>2. InCall'
    BY <1>2, <1>9, <1>10, <2>1 DEF InCall
  <2>3. Asleep'
    BY <1>5, <1>8, <2>1 DEF CleanInv, ExchangeInv, Asleep, WorkersStay
  <2>4. Interruption'
    <3>1. \A w \in Workers : worker'[w].status # "INTERRUPT_BATCH"
      BY <1>5, <1>8, <1>12
    <3> QED BY <1>5, <2>1, <3>1 DEF Interruption, WorkersStay
  <2>5. ~JSInTxn'
    BY <2>1 DEF JSInTxn
  <2>6. js'.pc = "join" => WorkersTxn
    <3> SUFFICES ASSUME current # 0, worker[current].txn # 0 PROVE WorkersTxn
      BY <2>1 DEF WorkerHasTxn
    <3> QED BY DEF CleanInv, ExchangeInv, OneWorker, OpenTxn, WorkersTxn
  <2>7. js'.pc = "begin" => ~WorkersTxn
    BY <1>2, <2>1, CurrentHasTxn DEF WorkersTxn
  <2>8. OpenTxn'
    BY <1>2, <1>5, <1>10, <2>5, <2>6, <2>7, SameTxns DEF CleanInv, ExchangeInv, OpenTxn, WorkersStay, IsOpen
  <2>9. JSFrames'
    BY <1>2, <1>10, <2>5 DEF CleanInv, ExchangeInv, JSFrames
  <2> QED BY <1>1, <1>6, <1>7, <2>2, <2>3, <2>4, <2>8, <2>9 DEF CleanInv, ExchangeInv, HandoffInv
<1> QED BY <1>11, <1>12

\* With the lock: JavaScript has not interrupted anyone any more.
LEMMA InterruptedClean ==
    ASSUME CleanInv, Interrupted
    PROVE  CleanInv'
<1>1. HandoffInv'
  BY InterruptedStep DEF CleanInv
<1>2. /\ js.pc = "interrupt" /\ JS \notin asleep /\ lock = Free
      /\ js' = [js EXCEPT !.pc = "begin"]
      /\ UNCHANGED <<program, calls, slot, mark, start, writeTxn, worker, current, asleep, mdbx>>
  BY DEF Interrupted, dbVars
<1>3. js'.pc = "begin" /\ js'.call = js.call /\ Kind' = Kind
  BY <1>2 DEF CleanInv, HandoffInv, Shapes, IsJS, Kind
<1>4. WorkersStay
  BY <1>2 DEF WorkersStay, Workers
<1>5. Records' /\ FromProgram' /\ Compressions' /\ MayCommit'
  <2>1. start' \in Nat /\ MdbxRecord' /\ IsList(writeTxn')
    BY <1>2 DEF CleanInv, Records, MdbxRecord
  <2> QED BY <1>2, <1>4, <2>1, ProgramStays
<1>6. InCall'
  BY <1>2, <1>3 DEF CleanInv, ExchangeInv, InCall
<1>7. OneWorker'
  BY <1>2, <1>4, SameTxns DEF CleanInv, ExchangeInv, OneWorker, WorkersStay
<1>8. Asleep' /\ Interruption'
  BY <1>2, <1>3, <1>4 DEF CleanInv, ExchangeInv, Asleep, Interruption, WorkersStay
<1>9. ~WorkersTxn
  <2> SUFFICES ASSUME NEW w \in Workers, InTxn(w) PROVE FALSE
    BY DEF WorkersTxn
  <2>1. w = current
    BY <1>2, CurrentHasTxn
  <2>2. worker[current].pc = "paused"
    BY <1>2 DEF CleanInv, ExchangeInv, Interruption
  <2> QED BY <2>1, <2>2 DEF InTxn, TxnPcs
<1>10. ~JSInTxn /\ ~JSInTxn'
  BY <1>2, <1>3 DEF JSInTxn
<1>11. OpenTxn'
  BY <1>2, <1>3, <1>4, <1>9, <1>10, SameTxns DEF CleanInv, ExchangeInv, OpenTxn, WorkersStay, IsOpen
<1>12. JSFrames'
  BY <1>2, <1>10 DEF CleanInv, ExchangeInv, JSFrames
<1> QED BY <1>1, <1>5, <1>6, <1>7, <1>8, <1>11, <1>12 DEF CleanInv, ExchangeInv, HandoffInv

\* JavaScript goes on in its transaction.
LEMMA StaysInside ==
    ASSUME CleanInv, HandoffInv', js.pc \in {"begin", "join", "own", "nested"},
           NEW p \in {"own", "nested", "finish"}, js' = [js EXCEPT !.pc = p],
           UNCHANGED <<program, calls, slot, mark, start, worker, current, asleep>>,
           MdbxRecord', IsList(writeTxn'), mdbx'.id \in Nat, Len(mdbx'.frames) > 0,
           WorkersTxn => mdbx'.id = mdbx.id,
           js'.pc = p /\ Kind' = Kind /\ (WorkersTxn' <=> WorkersTxn) => JSFrames'
    PROVE  CleanInv'
<1>1. js'.pc = p /\ js'.call = js.call /\ Kind' = Kind
  BY DEF CleanInv, HandoffInv, Shapes, IsJS, Kind
<1>2. WorkersStay
  BY DEF WorkersStay, Workers
<1>3. Records' /\ FromProgram' /\ Compressions' /\ MayCommit'
  <2>1. start' \in Nat
    BY DEF CleanInv, Records
  <2> QED BY <1>2, <2>1, ProgramStays
<1>4. InCall'
  BY <1>1 DEF CleanInv, ExchangeInv, InCall
<1>5. OneWorker'
  BY <1>2, SameTxns DEF CleanInv, ExchangeInv, OneWorker, WorkersStay
<1>6. Asleep' /\ Interruption'
  BY <1>1, <1>2 DEF CleanInv, ExchangeInv, Asleep, Interruption, WorkersStay
<1>7. JSFrames'
  BY <1>1, <1>2, SameTxns
<1>8. IsOpen' /\ JSInTxn'
  BY <1>1, EmptyList DEF IsOpen, MdbxRecord, JSInTxn
<1>9. \A w \in Workers : worker'[w].txn = IF InTxn(w)' THEN mdbx'.id ELSE 0
  BY <1>2, SameTxns DEF CleanInv, ExchangeInv, OpenTxn, WorkersTxn
<1>10. OpenTxn'
  BY <1>1, <1>2, <1>8, <1>9, SameTxns DEF CleanInv, ExchangeInv, OpenTxn, WorkersStay
<1> QED BY <1>3, <1>4, <1>5, <1>6, <1>7, <1>10 DEF CleanInv, ExchangeInv, HandoffInv

LEMMA SingleList ==
    ASSUME NEW e
    PROVE  IsList(<<e>>) /\ Len(<<e>>) = 1 /\ <<e>>[1] = e /\ DOMAIN <<e>> = {1}
BY DEF IsList

\* The frames of JavaScript, with the level of its outermost transaction.
FramesFrom(outer, p) ==
    /\ Len(writeTxn) = IF p = "nested" THEN 2 ELSE 1
    /\ \A i \in 1..Len(writeTxn) : writeTxn[i].txn = mdbx.id /\ writeTxn[i].level = outer + i - 1
    /\ writeTxn[1].abortable <=> ~WorkersTxn \/ Kind # "putSync"
    /\ Len(mdbx.frames) = outer + Len(writeTxn) - 1
    /\ p = "nested" => Kind # "putSync"

LEMMA FramesAre ==
    ASSUME IsList(writeTxn), NEW p \in {"own", "nested", "finish"}, js.pc = p
    PROVE  JSFrames <=> FramesFrom(Outer, p)
<1>1. JSInTxn /\ DOMAIN writeTxn = 1..Len(writeTxn)
  BY DEF JSInTxn, IsList
<1> QED BY <1>1 DEF JSFrames, FramesFrom, Outer

LEMMA FramesWillBe ==
    ASSUME IsList(writeTxn'), NEW p \in {"own", "nested", "finish"}, js'.pc = p,
           Kind' = Kind, WorkersTxn' <=> WorkersTxn, FramesFrom(Outer, p)'
    PROVE  JSFrames'
<1>1. JSInTxn' /\ DOMAIN writeTxn' = 1..Len(writeTxn')
  BY DEF JSInTxn, IsList
<1> QED BY <1>1 DEF JSFrames, FramesFrom, Outer

LEMMA BeginOwnClean ==
    ASSUME CleanInv, BeginOwn
    PROVE  CleanInv'
<1>1. HandoffInv'
  BY WithinSyncStep DEF CleanInv
<1>2. /\ js.pc = "begin" /\ js' = [js EXCEPT !.pc = "own"]
      /\ mdbx' = [id |-> mdbx.id + 1, frames |-> << <<>> >>]
      /\ writeTxn' = <<[txn |-> mdbx'.id, level |-> Len(mdbx'.frames), abortable |-> TRUE]>>
      /\ UNCHANGED <<program, calls, slot, mark, start, worker, current, asleep>>
  BY DEF BeginOwn, Begun, Tracked
<1>3. ~WorkersTxn
  BY <1>2 DEF CleanInv, ExchangeInv, OpenTxn
<1>4. /\ MdbxRecord' /\ mdbx'.id \in Nat /\ Len(mdbx'.frames) = 1
  BY <1>2, SingleList DEF CleanInv, ExchangeInv, OpenTxn, MdbxRecord
<1> PICK e : e = [txn |-> mdbx'.id, level |-> 1, abortable |-> TRUE]
  OBVIOUS
<1>5. writeTxn' = <<e>> /\ e.txn = mdbx'.id /\ e.level = 1 /\ e.abortable = TRUE
  BY <1>2, <1>4
<1>6. IsList(writeTxn') /\ Len(writeTxn') = 1 /\ writeTxn'[1] = e /\ DOMAIN writeTxn' = {1}
  BY <1>5, SingleList
<1>7. ASSUME js'.pc = "own", Kind' = Kind, WorkersTxn' <=> WorkersTxn
      PROVE  JSFrames'
  <2>1. FramesFrom(Outer, "own")'
    BY <1>3, <1>4, <1>5, <1>6, <1>7 DEF FramesFrom, Outer
  <2> QED BY <1>6, <1>7, <2>1, FramesWillBe
<1>8. Len(mdbx'.frames) > 0
  BY <1>4
<1> QED BY <1>1, <1>2, <1>3, <1>4, <1>6, <1>7, <1>8, StaysInside

LEMMA JoinClean ==
    ASSUME CleanInv, Join
    PROVE  CleanInv'
<1>1. HandoffInv'
  BY WithinSyncStep DEF CleanInv
<1>2. /\ js.pc = "join" /\ js' = [js EXCEPT !.pc = "own"]
      /\ mdbx' = IF Kind = "putSync" THEN mdbx ELSE [mdbx EXCEPT !.frames = Append(@, <<>>)]
      /\ writeTxn' = <<[txn |-> mdbx'.id, level |-> Len(mdbx'.frames),
                        abortable |-> (Kind # "putSync")]>>
      /\ UNCHANGED <<program, calls, slot, mark, start, worker, current, asleep>>
  BY DEF Join, Child, Tracked
<1>3. WorkersTxn /\ Len(mdbx.frames) = 1 /\ IsList(mdbx.frames) /\ mdbx.id \in Nat
  BY <1>2 DEF CleanInv, ExchangeInv, OpenTxn, JSInTxn, Records, MdbxRecord
<1> PICK outer : outer = IF Kind = "putSync" THEN 1 ELSE 2
  OBVIOUS
<1>4. /\ MdbxRecord' /\ mdbx'.id = mdbx.id /\ Len(mdbx'.frames) = outer
  <2>1. IsList(Append(mdbx.frames, <<>>)) /\ Len(Append(mdbx.frames, <<>>)) = 2
    <3> PICK none : none = <<>>
      OBVIOUS
    <3>1. IsList(Append(mdbx.frames, none)) /\ Len(Append(mdbx.frames, none)) = Len(mdbx.frames) + 1
      BY <1>3, AppendedList
    <3> QED BY <1>3, <3>1
  <2>2. MdbxRecord
    BY DEF CleanInv, Records
  <2>3. CASE Kind = "putSync"
    BY <1>2, <1>3, <2>2, <2>3 DEF MdbxRecord
  <2>4. CASE Kind # "putSync"
    <3>1. /\ mdbx' = [f \in {"id", "frames"} |-> mdbx'[f]] /\ mdbx'.id = mdbx.id
          /\ mdbx'.frames = Append(mdbx.frames, <<>>)
      BY <1>2, <2>2, <2>4 DEF MdbxRecord
    <3> QED BY <2>1, <2>4, <3>1 DEF MdbxRecord
  <2> QED BY <2>3, <2>4
<1> PICK e : e = [txn |-> mdbx'.id, level |-> outer, abortable |-> (Kind # "putSync")]
  OBVIOUS
<1>5. writeTxn' = <<e>> /\ e.txn = mdbx'.id /\ e.level = outer /\ e.abortable = (Kind # "putSync")
  BY <1>2, <1>4
<1>6. IsList(writeTxn') /\ Len(writeTxn') = 1 /\ writeTxn'[1] = e /\ DOMAIN writeTxn' = {1}
  BY <1>5, SingleList
<1>7. ASSUME js'.pc = "own", Kind' = Kind, WorkersTxn' <=> WorkersTxn
      PROVE  JSFrames'
  <2>1. Outer' = outer /\ outer \in Nat
    BY <1>3, <1>7 DEF Outer
  <2>2. writeTxn'[1].abortable <=> (~WorkersTxn' \/ Kind' # "putSync")
    <3>1. e.abortable <=> Kind # "putSync"
      BY <1>5
    <3> QED BY <1>3, <1>6, <1>7, <3>1
  <2>3. \A i \in 1..Len(writeTxn') :
           writeTxn'[i].txn = mdbx'.id /\ writeTxn'[i].level = Outer' + i - 1
    BY <1>5, <1>6, <2>1
  <2>4. FramesFrom(Outer, "own")'
    BY <1>4, <1>6, <2>1, <2>2, <2>3 DEF FramesFrom
  <2> QED BY <1>6, <1>7, <2>4, FramesWillBe
<1>8. Len(mdbx'.frames) > 0
  BY <1>4
<1> QED BY <1>1, <1>2, <1>3, <1>4, <1>6, <1>7, <1>8, StaysInside

\* What JavaScript finds in the middle of its transaction.
LEMMA InsideFrames ==
    ASSUME CleanInv, NEW p \in {"own", "nested", "finish"}, js.pc = p
    PROVE  /\ FramesFrom(Outer, p) /\ Outer \in {1, 2}
           /\ IsList(writeTxn) /\ IsList(mdbx.frames) /\ MdbxRecord /\ mdbx.id \in Nat
           /\ Len(mdbx.frames) > 0
<1>1. /\ IsList(writeTxn) /\ MdbxRecord /\ IsList(mdbx.frames) /\ JSFrames /\ mdbx.id \in Nat
  BY DEF CleanInv, Records, MdbxRecord, ExchangeInv, OpenTxn
<1>2. FramesFrom(Outer, p)
  BY <1>1, FramesAre
<1>3. Outer \in {1, 2}
  BY DEF Outer
<1>4. Len(mdbx.frames) > 0
  BY <1>2, <1>3 DEF FramesFrom
<1> QED BY <1>1, <1>2, <1>3, <1>4

LEMMA WriteOwnClean ==
    ASSUME CleanInv, WriteOwn
    PROVE  CleanInv'
<1>1. HandoffInv'
  BY WithinSyncStep DEF CleanInv
<1> DEFINE p == IF Kind = "putSync" THEN "finish" ELSE "nested"
           written == [mdbx EXCEPT !.frames = Written(@, js.call)]
<1>2. /\ js.pc = "own" /\ js' = [js EXCEPT !.pc = p] /\ p \in {"own", "nested", "finish"}
      /\ mdbx' = IF Kind = "putSync" THEN written ELSE [written EXCEPT !.frames = Append(@, <<>>)]
      /\ writeTxn' = IF Kind = "putSync" THEN writeTxn
                     ELSE Append(writeTxn, [txn |-> mdbx'.id, level |-> Len(mdbx'.frames),
                                            abortable |-> TRUE])
      /\ UNCHANGED <<program, calls, slot, mark, start, worker, current, asleep>>
  BY DEF WriteOwn, Tracked
<1>3. /\ FramesFrom(Outer, "own") /\ Outer \in {1, 2}
      /\ IsList(writeTxn) /\ IsList(mdbx.frames) /\ MdbxRecord /\ mdbx.id \in Nat
  BY <1>2, InsideFrames
<1>4. /\ Len(writeTxn) = 1 /\ Len(mdbx.frames) = Outer
      /\ writeTxn[1].txn = mdbx.id /\ writeTxn[1].level = Outer
      /\ writeTxn[1].abortable <=> ~WorkersTxn \/ Kind # "putSync"
  BY <1>3 DEF FramesFrom
<1> PICK w : w = Written(mdbx.frames, js.call)
  OBVIOUS
<1>5. /\ written = [f \in {"id", "frames"} |-> written[f]] /\ written.id = mdbx.id
      /\ written.frames = w /\ IsList(w) /\ Len(w) = Outer
  BY <1>3, <1>4, WrittenFrames DEF MdbxRecord
<1> HIDE DEF written
<1>6. CASE Kind = "putSync"
  <2>1. mdbx' = written /\ writeTxn' = writeTxn /\ js' = [js EXCEPT !.pc = "finish"]
    BY <1>2, <1>6
  <2>2. MdbxRecord' /\ mdbx'.id = mdbx.id /\ Len(mdbx'.frames) = Outer
    BY <1>5, <2>1 DEF MdbxRecord
  <2>3. ASSUME js'.pc = "finish", Kind' = Kind, WorkersTxn' <=> WorkersTxn
        PROVE  JSFrames'
    <3>1. Outer' = Outer
      BY <2>3 DEF Outer
    <3>2. FramesFrom(Outer, "finish")'
      BY <1>3, <1>4, <2>1, <2>2, <2>3, <3>1 DEF FramesFrom
    <3> QED BY <1>3, <2>1, <2>3, <3>2, FramesWillBe
  <2>4. Len(mdbx'.frames) > 0 /\ IsList(writeTxn')
    BY <1>3, <2>1, <2>2
  <2> QED BY <1>1, <1>2, <1>3, <2>1, <2>2, <2>3, <2>4, StaysInside
<1>7. CASE Kind # "putSync"
  <2> PICK none : none = <<>>
    OBVIOUS
  <2>1. mdbx' = [written EXCEPT !.frames = Append(@, none)] /\ js' = [js EXCEPT !.pc = "nested"]
    BY <1>2, <1>7
  <2>2. IsList(Append(w, none)) /\ Len(Append(w, none)) = Len(w) + 1
    BY <1>5, AppendedList
  <2>3. MdbxRecord' /\ mdbx'.id = mdbx.id /\ Len(mdbx'.frames) = Outer + 1
    <3>1. /\ mdbx' = [f \in {"id", "frames"} |-> mdbx'[f]] /\ mdbx'.id = mdbx.id
          /\ mdbx'.frames = Append(w, none)
      BY <1>5, <2>1
    <3> QED BY <1>5, <2>2, <3>1 DEF MdbxRecord
  <2> PICK e : e = [txn |-> mdbx'.id, level |-> Len(mdbx'.frames), abortable |-> TRUE]
    OBVIOUS
  <2>4. writeTxn' = Append(writeTxn, e) /\ e.txn = mdbx.id /\ e.level = Outer + 1
    BY <1>2, <1>7, <2>3
  <2>5. /\ IsList(writeTxn') /\ Len(writeTxn') = 2
        /\ writeTxn'[1] = writeTxn[1] /\ writeTxn'[2] = e
    <3>1. /\ IsList(Append(writeTxn, e)) /\ Len(Append(writeTxn, e)) = Len(writeTxn) + 1
          /\ Append(writeTxn, e)[Len(writeTxn) + 1] = e
          /\ \A i \in 1..Len(writeTxn) : Append(writeTxn, e)[i] = writeTxn[i]
      BY <1>3, AppendedList
    <3> QED BY <1>4, <2>4, <3>1
  <2>6. ASSUME js'.pc = "nested", Kind' = Kind, WorkersTxn' <=> WorkersTxn
        PROVE  JSFrames'
    <3>1. Outer' = Outer /\ Outer \in Nat
      BY <1>3, <2>6 DEF Outer
    <3>2. writeTxn'[1].abortable <=> ~WorkersTxn' \/ Kind' # "putSync"
      BY <1>4, <2>5, <2>6
    <3>3. \A i \in 1..Len(writeTxn') :
             writeTxn'[i].txn = mdbx'.id /\ writeTxn'[i].level = Outer' + i - 1
      BY <1>4, <2>3, <2>4, <2>5, <3>1
    <3>4. FramesFrom(Outer, "nested")'
      BY <1>7, <2>3, <2>5, <2>6, <3>1, <3>2, <3>3 DEF FramesFrom
    <3> QED BY <2>5, <2>6, <3>4, FramesWillBe
  <2>7. Len(mdbx'.frames) > 0
    BY <1>3, <2>3
  <2> QED BY <1>1, <1>2, <1>3, <2>1, <2>3, <2>5, <2>6, <2>7, StaysInside
<1> QED BY <1>6, <1>7

LEMMA NestedClean ==
    ASSUME CleanInv, Nested
    PROVE  CleanInv'
<1>1. HandoffInv'
  BY WithinSyncStep DEF CleanInv
<1> PICK aborts : aborts = (Kind = "nestAbort")
  OBVIOUS
<1> PICK w : w = Written(mdbx.frames, -js.call)
  OBVIOUS
<1>2. /\ js.pc = "nested" /\ js' = [js EXCEPT !.pc = "finish"]
      /\ mdbx' = [mdbx EXCEPT !.frames = Ended(w, aborts)]
      /\ writeTxn' = Front(writeTxn)
      /\ UNCHANGED <<program, calls, slot, mark, start, worker, current, asleep>>
  BY DEF Nested
<1>3. /\ FramesFrom(Outer, "nested") /\ Outer \in {1, 2}
      /\ IsList(writeTxn) /\ IsList(mdbx.frames) /\ MdbxRecord /\ mdbx.id \in Nat
  BY <1>2, InsideFrames
<1>4. /\ Len(writeTxn) = 2 /\ Len(mdbx.frames) = Outer + 1
      /\ writeTxn[1].txn = mdbx.id /\ writeTxn[1].level = Outer
      /\ writeTxn[1].abortable <=> ~WorkersTxn \/ Kind # "putSync"
  BY <1>3 DEF FramesFrom
<1>5. IsList(w) /\ Len(w) = Outer + 1 /\ Len(w) > 1
  BY <1>3, <1>4, WrittenFrames
<1>6. IsList(Ended(w, aborts)) /\ Len(Ended(w, aborts)) = Outer
  BY <1>3, <1>5, EndedFrames
<1>7. MdbxRecord' /\ mdbx'.id = mdbx.id /\ Len(mdbx'.frames) = Outer
  <2>1. /\ mdbx' = [f \in {"id", "frames"} |-> mdbx'[f]] /\ mdbx'.id = mdbx.id
        /\ mdbx'.frames = Ended(w, aborts)
    BY <1>2, <1>3 DEF MdbxRecord
  <2> QED BY <1>6, <2>1 DEF MdbxRecord
<1>8. IsList(writeTxn') /\ Len(writeTxn') = 1 /\ writeTxn'[1] = writeTxn[1]
  <2>1. writeTxn # <<>>
    <3>1. Len(writeTxn) > 0
      BY <1>4
    <3> QED BY <1>3, <3>1, EmptyList
  <2>2. /\ IsList(Front(writeTxn)) /\ Len(Front(writeTxn)) = Len(writeTxn) - 1
        /\ \A i \in 1..Len(writeTxn) - 1 : Front(writeTxn)[i] = writeTxn[i]
    BY <1>3, <2>1, FrontOfList
  <2> QED BY <1>2, <1>4, <2>2
<1>9. ASSUME js'.pc = "finish", Kind' = Kind, WorkersTxn' <=> WorkersTxn
      PROVE  JSFrames'
  <2>1. Outer' = Outer /\ Outer \in Nat
    BY <1>3, <1>9 DEF Outer
  <2>2. writeTxn'[1].abortable <=> ~WorkersTxn' \/ Kind' # "putSync"
    BY <1>4, <1>8, <1>9
  <2>3. \A i \in 1..Len(writeTxn') :
           writeTxn'[i].txn = mdbx'.id /\ writeTxn'[i].level = Outer' + i - 1
    BY <1>4, <1>7, <1>8, <2>1
  <2>4. FramesFrom(Outer, "finish")'
    BY <1>7, <1>8, <1>9, <2>1, <2>2, <2>3 DEF FramesFrom
  <2> QED BY <1>8, <1>9, <2>4, FramesWillBe
<1>10. Len(mdbx'.frames) > 0
  BY <1>3, <1>7
<1> QED BY <1>1, <1>2, <1>3, <1>7, <1>8, <1>9, <1>10, StaysInside

LEMMA FinishClean ==
    ASSUME CleanInv, Finish
    PROVE  CleanInv'
<1>1. HandoffInv'
  BY FinishStep DEF CleanInv
<1> PICK aborts : aborts = (Kind = "syncAbort")
  OBVIOUS
<1>2. /\ js.pc = "finish" /\ js' = Idle /\ writeTxn' = Front(writeTxn)
      /\ worker' = [worker EXCEPT ![current].status = "none"] \/ worker' = worker
      /\ asleep' \subseteq asleep
      /\ UNCHANGED <<program, calls, slot, mark, start, current>>
  BY DEF Finish, Signalled
<1>3. /\ FramesFrom(Outer, "finish") /\ Outer \in {1, 2}
      /\ IsList(writeTxn) /\ IsList(mdbx.frames) /\ MdbxRecord /\ mdbx.id \in Nat
  BY <1>2, InsideFrames
<1>4. /\ Len(writeTxn) = 1 /\ Len(mdbx.frames) = Outer /\ writeTxn[1].level = Outer
      /\ writeTxn[1].abortable <=> ~WorkersTxn \/ Kind # "putSync"
  BY <1>3 DEF FramesFrom
<1>5. writeTxn' = <<>> /\ IsList(writeTxn')
  <2>1. writeTxn # <<>>
    <3>1. Len(writeTxn) > 0
      BY <1>4
    <3> QED BY <1>3, <3>1, EmptyList
  <2>2. IsList(Front(writeTxn)) /\ Len(Front(writeTxn)) = Len(writeTxn) - 1
    BY <1>3, <2>1, FrontOfList
  <2>3. IsList(writeTxn') /\ ~(Len(writeTxn') > 0)
    BY <1>2, <1>4, <2>2
  <2> QED BY <2>3, EmptyList
<1>6. Last(writeTxn) = writeTxn[1]
  BY <1>4 DEF Last
<1>7. /\ MdbxRecord' /\ mdbx'.id = mdbx.id
      /\ WorkersTxn => Len(mdbx'.frames) = 1 /\ IsOpen'
      /\ IsOpen' => WorkersTxn
  <2>1. CASE ~Last(writeTxn).abortable
    <3>1. mdbx' = mdbx
      BY <2>1 DEF Finish, dbVars
    <3>2. WorkersTxn /\ Outer = 1
      BY <1>4, <1>6, <2>1 DEF Outer
    <3>3. MdbxRecord' /\ Len(mdbx'.frames) = 1 /\ mdbx'.id = mdbx.id
      BY <1>3, <1>4, <3>1, <3>2 DEF MdbxRecord
    <3>4. IsOpen'
      BY <3>3, EmptyList DEF IsOpen, MdbxRecord
    <3> QED BY <3>2, <3>3, <3>4
  <2>2. CASE Last(writeTxn).abortable /\ Last(writeTxn).level > 1
    <3>1. mdbx' = [mdbx EXCEPT !.frames = Ended(@, aborts)]
      BY <2>2 DEF Finish
    <3>2. Outer = 2 /\ WorkersTxn
      BY <1>3, <1>4, <1>6, <2>2 DEF Outer
    <3> PICK ended : ended = Ended(mdbx.frames, aborts)
      OBVIOUS
    <3>3. IsList(ended) /\ Len(ended) = 1
      <4>1. Len(mdbx.frames) = 2 /\ Len(mdbx.frames) > 1
        BY <1>4, <3>2
      <4>2. IsList(ended) /\ Len(ended) = Len(mdbx.frames) - 1
        BY <1>3, <4>1, EndedFrames
      <4> QED BY <4>1, <4>2
    <3>4. /\ mdbx' = [f \in {"id", "frames"} |-> mdbx'[f]] /\ mdbx'.id = mdbx.id
          /\ mdbx'.frames = ended
      BY <1>3, <3>1 DEF MdbxRecord
    <3>5. MdbxRecord' /\ Len(mdbx'.frames) = 1
      BY <3>3, <3>4 DEF MdbxRecord
    <3>6. IsOpen'
      <4>1. Len(mdbx'.frames) > 0 /\ IsList(mdbx'.frames)
        BY <3>5 DEF MdbxRecord
      <4> QED BY <4>1, EmptyList DEF IsOpen
    <3> QED BY <3>2, <3>4, <3>5, <3>6
  <2>3. CASE Last(writeTxn).abortable /\ ~(Last(writeTxn).level > 1)
    <3>1. mdbx' = Closed
      BY <2>3 DEF Finish
    <3>2. ~WorkersTxn
      BY <1>3, <1>4, <1>6, <2>3 DEF Outer
    <3> QED BY <3>1, <3>2, ClosedTxn
  <2> QED BY <2>1, <2>2, <2>3
<1>8. /\ WorkersStay
      /\ \A w \in Workers : \/ worker'[w].status = worker[w].status
                            \/ w = current /\ worker'[w].status = "none"
  BY <1>2, StatusOnly
<1>9. Records' /\ FromProgram' /\ Compressions' /\ MayCommit'
  <2>1. start' \in Nat
    BY <1>2 DEF CleanInv, Records
  <2>2. \A w \in Workers : worker'[w].status = "ALLOW_COMMIT" => worker[w].status = "ALLOW_COMMIT"
    BY <1>8
  <2> QED BY <1>2, <1>5, <1>7, <1>8, <2>1, <2>2, ProgramStays
<1>10. js'.pc = "idle" /\ ~JSInTxn'
  BY <1>2 DEF Idle, JSInTxn
<1>11. InCall'
  BY <1>10 DEF InCall
<1>12. OneWorker'
  BY <1>2, <1>8, SameTxns DEF CleanInv, ExchangeInv, OneWorker, WorkersStay
<1>13. Asleep'
  BY <1>2, <1>8 DEF CleanInv, ExchangeInv, Asleep, WorkersStay
<1>14. Interruption'
  <2>1. \A w \in Workers : worker[w].status # "INTERRUPT_BATCH"
    BY <1>2 DEF CleanInv, ExchangeInv, Interruption
  <2>2. \A w \in Workers : worker'[w].status # "INTERRUPT_BATCH"
    BY <1>8, <2>1
  <2> QED BY <1>8, <1>10, <2>2 DEF Interruption, WorkersStay
<1>15. OpenTxn'
  BY <1>7, <1>8, <1>10, SameTxns DEF CleanInv, ExchangeInv, OpenTxn, WorkersStay
<1>16. JSFrames'
  BY <1>5, <1>10 DEF JSFrames
<1> QED BY <1>1, <1>9, <1>11, <1>12, <1>13, <1>14, <1>15, <1>16 DEF CleanInv, ExchangeInv, HandoffInv

-----------------------------------------------------------------------------
(* The compression workers, and the theorems.                               *)

\* While a compression is under way, JavaScript interrupts nobody.
LEMMA NoLateSignal ==
    ASSUME \A p \in Programs : ~Entangled(p), CleanInv, NEW n \in DOMAIN slot, slot[n].pc # "done"
    PROVE  js.pc # "interrupt"
<1> SUFFICES ASSUME js.pc = "interrupt" PROVE FALSE
  OBVIOUS
<1>1. DOMAIN slot = DOMAIN calls
  BY DEF CleanInv, Records, SlotRecords, IsList, ExchangeInv, Compressions
<1>2. Made({"zput"})
  BY <1>1 DEF CleanInv, ExchangeInv, Compressions, Made
<1>3. Made(CallbackKinds) /\ Made(InterruptingKinds)
  BY DEF CleanInv, ExchangeInv, InCall, Kind, Made, InterruptingKinds
<1>4. Records /\ FromProgram
  BY DEF CleanInv, ExchangeInv
<1> QED BY <1>2, <1>3, <1>4, NeverAllThree

LEMMA CompressionClean ==
    ASSUME \A p \in Programs : ~Entangled(p), CleanInv, NEW n \in DOMAIN slot, CompressionStep(n)
    PROVE  CleanInv'
<1>1. HandoffInv'
  BY CompressionSteps DEF CleanInv
<1>2. /\ slot[n].pc # "done" /\ asleep' \subseteq asleep
      /\ UNCHANGED <<program, calls, start, js, writeTxn, mark, worker, current, mdbx>>
  BY DEF CompressionStep, TakeSlot, CompressValue, PublishSlot, SignalWriter, compressorOnly,
         jsVars, dbVars, Signalled
<1>3. js.pc # "interrupt"
  BY <1>2, NoLateSignal
<1>4. SlotRecords' /\ Compressions'
  <2>1. SlotRecords /\ Compressions
    BY DEF CleanInv, Records, ExchangeInv
  <2>2. PICK s : /\ slot' = [slot EXCEPT ![n] = s]
                 /\ s = [f \in {"status", "copies", "pc"} |-> s[f]]
    <3>1. slot[n] = [f \in {"status", "copies", "pc"} |-> slot[n][f]]
      BY <2>1 DEF SlotRecords
    <3> DEFINE taken == [slot[n] EXCEPT !.status = "2", !.pc = Taken(n)]
               compressed == [slot[n] EXCEPT !.copies = @ + 1, !.pc = "publish"]
               published == [slot[n] EXCEPT !.status = "0",
                                !.pc = IF slot[n].status = "1" THEN "signal" ELSE "done"]
               done == [slot[n] EXCEPT !.pc = "done"]
    <3>2. \/ slot' = [slot EXCEPT ![n] = taken] \/ slot' = [slot EXCEPT ![n] = compressed]
          \/ slot' = [slot EXCEPT ![n] = published] \/ slot' = [slot EXCEPT ![n] = done]
      BY DEF CompressionStep, TakeSlot, CompressValue, PublishSlot, SignalWriter
    <3>3. /\ taken = [f \in {"status", "copies", "pc"} |-> taken[f]]
          /\ compressed = [f \in {"status", "copies", "pc"} |-> compressed[f]]
          /\ published = [f \in {"status", "copies", "pc"} |-> published[f]]
          /\ done = [f \in {"status", "copies", "pc"} |-> done[f]]
      BY <3>1
    <3> HIDE DEF taken, compressed, published, done
    <3> QED BY <3>2, <3>3
  <2>3. UNCHANGED calls
    BY <1>2
  <2> QED BY <1>2, <2>1, <2>2, <2>3, OneSlotChanges
<1>5. WorkersStay /\ Workers' = Workers
  BY <1>2 DEF WorkersStay, Workers
<1>6. Records' /\ FromProgram' /\ MayCommit' /\ InCall'
  BY <1>2, <1>4, <1>5 DEF CleanInv, Records, MdbxRecord, ExchangeInv, FromProgram, MayCommit, Made,
                          InCall, Kind
<1>7. OneWorker' /\ Asleep' /\ Interruption'
  BY <1>2, <1>3, <1>5, SameTxns
     DEF CleanInv, ExchangeInv, OneWorker, Asleep, Interruption, WorkersStay
<1>8. (JSInTxn' <=> JSInTxn) /\ Kind' = Kind
  BY <1>2 DEF JSInTxn, Kind
<1>9. OpenTxn'
  BY <1>2, <1>5, <1>8, SameTxns DEF CleanInv, ExchangeInv, OpenTxn, IsOpen
<1>10. JSFrames'
  BY <1>2, <1>5, <1>8, SameTxns DEF CleanInv, ExchangeInv, JSFrames, Outer
<1> QED BY <1>1, <1>4, <1>6, <1>7, <1>9, <1>10 DEF CleanInv, ExchangeInv, HandoffInv

LEMMA NothingHappens ==
    ASSUME CleanInv, UNCHANGED vars
    PROVE  CleanInv'
<1>1. WorkersStay
  BY DEF vars, WorkersStay, Workers
<1>2. HandoffInv'
  BY HandoffStep DEF CleanInv
<1>3. Records' /\ FromProgram' /\ Compressions' /\ MayCommit' /\ InCall'
  BY <1>1 DEF vars, CleanInv, Records, SlotRecords, MdbxRecord, ExchangeInv, FromProgram,
              Compressions, MayCommit, Made, InCall, Kind, Workers
<1>4. OneWorker' /\ Asleep' /\ Interruption'
  BY <1>1, SameTxns DEF vars, CleanInv, ExchangeInv, OneWorker, Asleep, Interruption, WorkersStay
<1>5. (JSInTxn' <=> JSInTxn) /\ Kind' = Kind
  BY DEF vars, JSInTxn, Kind
<1>6. OpenTxn'
  BY <1>1, <1>5, SameTxns DEF vars, CleanInv, ExchangeInv, OpenTxn, IsOpen, WorkersStay
<1>7. JSFrames'
  BY <1>1, <1>5, SameTxns DEF vars, CleanInv, ExchangeInv, JSFrames, Outer
<1> QED BY <1>2, <1>3, <1>4, <1>6, <1>7 DEF CleanInv, ExchangeInv, HandoffInv

LEMMA InitiallyClean == Init => CleanInv
<1> SUFFICES ASSUME Init PROVE CleanInv
  OBVIOUS
<1>1. /\ Workers = {} /\ js.pc = "idle" /\ calls = <<>> /\ slot = <<>> /\ writeTxn = <<>>
      /\ mdbx = [id |-> 0, frames |-> <<>>] /\ asleep = {} /\ start = 0 /\ current = 0
      /\ program \in Programs /\ mark = "delimiter"
  BY DEF Init, Workers, Idle
<1>2. HandoffInv
  BY InitiallyFree
<1>3. IsList(<<>>) /\ Len(<<>>) = 0 /\ DOMAIN <<>> = {}
  BY DEF IsList
<1>4. /\ MdbxRecord /\ ~IsOpen /\ mdbx.id = 0
  BY <1>1, <1>3 DEF MdbxRecord, IsOpen
<1>5. Records /\ Compressions
  BY <1>1, <1>3, <1>4 DEF Records, SlotRecords, Compressions
<1>6. FromProgram
  <2>1. Len(program) \in Nat
    BY <1>1, HandoffAssumption
  <2> QED BY <1>1, <1>3, <2>1 DEF FromProgram
<1>7. MayCommit /\ InCall /\ OneWorker /\ Asleep /\ Interruption
  BY <1>1 DEF MayCommit, InCall, OneWorker, Asleep, Interruption
<1>8. ~WorkersTxn /\ ~JSInTxn
  BY <1>1 DEF WorkersTxn, JSInTxn
<1>9. OpenTxn /\ JSFrames
  BY <1>1, <1>4, <1>8 DEF OpenTxn, JSFrames
<1> QED BY <1>2, <1>5, <1>6, <1>7, <1>9 DEF CleanInv, ExchangeInv, HandoffInv

LEMMA CleanStep ==
    ASSUME \A p \in Programs : ~Entangled(p), CleanInv, [Next]_vars
    PROVE  CleanInv'
<1>1. CASE UNCHANGED vars
  BY <1>1, NothingHappens
<1>2. CASE Call
  BY <1>2, SubmitClean, CallSyncClean DEF Call
<1>3. CASE EventLoop
  BY <1>3, SignalsClean, StartWritingClean, CompleteClean, ProgressClean, RunCallbacksClean,
     AcquireClean, InterruptedClean, BeginOwnClean, JoinClean, WriteOwnClean, NestedClean,
     FinishClean DEF EventLoop, SyncStep
<1>4. CASE \E w \in Workers : WorkerStep(w)
  BY <1>4, WorkersClean
<1>5. CASE \E n \in DOMAIN slot : CompressionStep(n)
  BY <1>5, CompressionClean
<1>6. CASE Quiescent
  BY <1>1, <1>6 DEF Quiescent
<1> QED BY <1>1, <1>2, <1>3, <1>4, <1>5, <1>6 DEF Next

\* What a transaction handle refers to, and who finds no transaction open.
LEMMA HandlesOfClean == CleanInv => HandlesAreLive
<1> SUFFICES ASSUME CleanInv PROVE HandlesAreLive
  OBVIOUS
<1>1. ASSUME NEW w \in Workers, worker[w].txn # 0
      PROVE  IsOpen /\ worker[w].txn = mdbx.id /\ (lock = w => Len(mdbx.frames) = 1)
  <2>1. InTxn(w)
    BY <1>1 DEF CleanInv, ExchangeInv, OpenTxn
  <2>2. WorkersTxn
    BY <2>1 DEF WorkersTxn
  <2>3. lock = w => ~JSInTxn
    BY WorkersAreNumbers DEF CleanInv, HandoffInv, LockHolder, JSHolds, JSInTxn
  <2> QED BY <2>1, <2>2, <2>3 DEF CleanInv, ExchangeInv, OpenTxn
<1>2. ASSUME NEW i \in DOMAIN writeTxn
      PROVE  /\ IsOpen /\ writeTxn[i].txn = mdbx.id
             /\ writeTxn[i].level <= Len(mdbx.frames)
             /\ i = Len(writeTxn) => writeTxn[i].level = Len(mdbx.frames)
  <2>1. JSInTxn
    BY <1>2 DEF CleanInv, ExchangeInv, JSFrames
  <2>2. PICK p \in {"own", "nested", "finish"} : js.pc = p
    BY <2>1 DEF JSInTxn
  <2>3. /\ FramesFrom(Outer, p) /\ Outer \in {1, 2}
        /\ IsList(writeTxn) /\ IsList(mdbx.frames) /\ Len(mdbx.frames) > 0
    BY <2>2, InsideFrames
  <2>4. i \in 1..Len(writeTxn)
    BY <1>2, <2>3 DEF IsList
  <2>5. /\ writeTxn[i].txn = mdbx.id /\ writeTxn[i].level = Outer + i - 1
        /\ Len(mdbx.frames) = Outer + Len(writeTxn) - 1 /\ Len(writeTxn) \in {1, 2}
    BY <2>3, <2>4 DEF FramesFrom
  <2>6. IsOpen
    BY <2>3, EmptyList DEF IsOpen
  <2>7. \A o \in {1, 2}, n \in {1, 2} : i \in 1..n =>
           o + i - 1 <= o + n - 1 /\ (i = n => o + i - 1 = o + n - 1)
    OBVIOUS
  <2>8. /\ writeTxn[i].level <= Len(mdbx.frames)
        /\ i = Len(writeTxn) => writeTxn[i].level = Len(mdbx.frames)
    BY <2>3, <2>4, <2>5, <2>7
  <2> QED BY <2>5, <2>6, <2>8
<1> QED BY <1>1, <1>2 DEF HandlesAreLive

LEMMA BeginsOfClean == CleanInv => BeginNeverBlocks
<1> SUFFICES ASSUME CleanInv PROVE BeginNeverBlocks
  OBVIOUS
<1>1. ASSUME NEW w \in Workers, worker[w].pc = "begin", IsOpen PROVE FALSE
  <2>1. ~JSInTxn
    BY <1>1, WorkersLock DEF WorkerHolds, JSHolds, JSInTxn
  <2>2. PICK v \in Workers : InTxn(v)
    BY <1>1, <2>1 DEF CleanInv, ExchangeInv, OpenTxn, WorkersTxn
  <2>3. HasBegun(v) /\ HasBegun(w) /\ v # w
    BY <1>1, <2>2 DEF InTxn, TxnPcs, HasBegun
  <2>4. WorkerHolds(w) /\ lock = w
    BY <1>1 DEF WorkerHolds, CleanInv, HandoffInv, LockHolder
  <2> QED BY <2>3 DEF CleanInv, ExchangeInv, OneWorker
<1>2. js.pc = "begin" => ~IsOpen
  BY DEF CleanInv, ExchangeInv, OpenTxn, JSInTxn
<1> QED BY <1>1, <1>2 DEF BeginNeverBlocks

\* The worker and JavaScript hand the transaction over cleanly: one owner at
\* a time, and whoever waits for the other in AcquireTxn or in the interrupted
\* batch is woken by it; in every program in which no compression worker can
\* signal while JavaScript waits for the commit.
THEOREM CleanExchange ==
    ASSUME \A p \in Programs : ~Entangled(p)
    PROVE  Spec => []ExchangeInv
<1>1. CleanInv /\ [Next]_vars => CleanInv'
  BY CleanStep
<1>2. CleanInv => ExchangeInv
  BY DEF CleanInv
<1> QED BY InitiallyClean, <1>1, <1>2, PTL DEF Spec

\* No handle outlives its transaction: what the worker, and every TxnTracked
\* of JavaScript, refers to is the open mdbx transaction, and whoever has the
\* lock finds its own frame innermost; in the same programs.
THEOREM HandlesLive ==
    ASSUME \A p \in Programs : ~Entangled(p)
    PROVE  Spec => []HandlesAreLive
<1>1. CleanInv /\ [Next]_vars => CleanInv'
  BY CleanStep
<1> QED BY InitiallyClean, HandlesOfClean, <1>1, PTL DEF Spec

\* mdbx_txn_begin in Write, after an interruption, or in beginTxn finds no
\* write transaction open, and does not block with writingLock held; in the
\* same programs.
THEOREM NeverBlocks ==
    ASSUME \A p \in Programs : ~Entangled(p)
    PROVE  Spec => []BeginNeverBlocks
<1>1. CleanInv /\ [Next]_vars => CleanInv'
  BY CleanStep
<1> QED BY InitiallyClean, BeginsOfClean, <1>1, PTL DEF Spec
=============================================================================
