----------------------------- MODULE TxnHandoff -----------------------------
(* Who may use the one mdbx write transaction, and when.                    *)
(*                                                                          *)
(* A write worker runs the submitted instructions inside its transaction    *)
(* and holds writingLock; it gives the lock up in pthread_cond_wait, with   *)
(* the transaction open, while it waits for instructions, for user          *)
(* callbacks or for a value to be compressed.  The JavaScript thread then   *)
(* takes the lock to run the callbacks in that transaction, or to run a     *)
(* synchronous transaction: inside the worker's transaction, or, when the   *)
(* worker allows it, after making the worker commit.  One condition         *)
(* variable serves all of this.                                             *)
(*                                                                          *)
(* A call of the program is known by its number.  A transaction is the      *)
(* sequence of the writes made in it: n is the write of call n, -n that of  *)
(* the transaction nested in call n.                                        *)
EXTENDS Integers, Sequences, SequencesExt, FiniteSets

CONSTANT
    Programs    \* sequences of kinds of calls; a behaviour makes those of one

\* Calls that append one instruction to the queue.  "cb": transaction();
\* "cbAbort": childTransaction() whose callback aborts; "strict":
\* transaction() with strictAsyncOrder; "zput": a value to be compressed.
QueuedKinds == {"put", "zput", "cb", "cbAbort", "strict", "block", "end"}

\* transactionSync and putSync.  In "sync" a nested transactionSync commits,
\* in "nestAbort" it aborts, in "syncAbort" the outer one aborts.
SyncKinds == {"sync", "syncAbort", "nestAbort", "putSync"}

CallbackKinds == {"cb", "cbAbort", "strict"}

ASSUME HandoffAssumption == Programs \subseteq Seq(QueuedKinds \cup SyncKinds)

VARIABLES
    program,   \* the calls JavaScript makes
    calls,     \* those it has made
    slot,      \* per call, the compression slot of its value
    ran,       \* how many of the queued callbacks have been called
    mark,      \* what the worker wrote into the empty word at the end
    start,     \* position JavaScript has to start a worker at, or 0
    js,        \* the JavaScript thread
    writeTxn,  \* ew->writeTxn: the stack of TxnTracked
    worker,    \* the write workers, by their order
    current,   \* ew->writeWorker, 0 for nullptr
    lock,      \* holder of writingLock
    asleep,    \* threads waiting on writingCond
    mdbx,      \* the open write transaction: frames of it and its children
    log        \* the committed transactions

vars == <<program, calls, slot, ran, mark, start, js, writeTxn, worker, current, lock,
          asleep, mdbx, log>>

jsVars == <<program, calls, ran, start, js, writeTxn>>
dbVars == <<mdbx, log>>

Free == 0
JS == -1

\* Those of a list of calls, by number, that are of some kinds.
Chosen(made, list, kinds) ==
    LET upTo[i \in 0..Len(list)] ==
            IF i = 0 THEN <<>>
            ELSE IF made[list[i]] \in kinds THEN Append(upTo[i - 1], list[i]) ELSE upTo[i - 1]
    IN upTo[Len(list)]

\* The instructions in the buffer, in order, as numbers of calls.
Queue == Chosen(calls, [n \in 1..Len(calls) |-> n], QueuedKinds)

OpenBlocks == Len(SelectSeq(calls, LAMBDA k : k = "block"))
            - Len(SelectSeq(calls, LAMBDA k : k = "end"))

\* status: the word shared by exchange, "pointer", 2 (a compression worker has
\* it), 1 (the write worker has looked) or 0; copies: how often the value was
\* compressed; pc: the compression worker.
NoSlot == [status |-> "0", copies |-> 0, pc |-> "done"]
QueuedSlot == [status |-> "pointer", copies |-> 0, pc |-> "queued"]

Idle == [pc |-> "idle", call |-> 0, worker |-> 0]

NewWorker(at) ==
    [pc |-> "lock", at |-> at, depth |-> 0, txn |-> 0, finished |-> TRUE,
     status |-> "none", progress |-> FALSE, resume |-> "run"]

Workers == DOMAIN worker

\* pthread_cond_signal: what the waiting threads may be afterwards.
WakesNobody(threads) == {threads}                                         \* mutant
Signalled(threads) ==
    IF threads = {} THEN {{}} ELSE {threads \ {t} : t \in threads}

IsOpen == mdbx.frames # <<>>

Begun == [id |-> mdbx.id + 1, frames |-> << <<>> >>]
Closed == [mdbx EXCEPT !.frames = <<>>]
Child == [mdbx EXCEPT !.frames = Append(@, <<>>)]

\* A write into the innermost of the frames; the end of a child.
Written(frames, n) == [frames EXCEPT ![Len(frames)] = Append(@, n)]
Merged(frames) ==
    [Front(frames) EXCEPT ![Len(frames) - 1] = @ \o Last(frames)]
EndedAnyway(frames, aborts) == Merged(frames)                             \* mutant
Ended(frames, aborts) == IF aborts THEN Front(frames) ELSE Merged(frames)

Init ==
    /\ program \in Programs
    /\ calls = <<>>
    /\ slot = <<>>
    /\ ran = 0
    /\ mark = "delimiter"
    /\ start = 0
    /\ js = Idle
    /\ writeTxn = <<>>
    /\ worker = <<>>
    /\ current = 0
    /\ lock = Free
    /\ asleep = {}
    /\ mdbx = [id |-> 0, frames |-> <<>>]
    /\ log = <<>>

-----------------------------------------------------------------------------
(* JavaScript: submitting instructions, starting and ending workers.        *)

Called(kind) ==
    /\ js.pc = "idle"
    /\ Len(calls) < Len(program) /\ kind = program[Len(calls) + 1]
    /\ calls' = Append(calls, kind)
    /\ slot' = Append(slot, IF kind = "zput" THEN QueuedSlot ELSE NoSlot)

\* writeInstructions and the closure it returns: the word is stored, and what
\* it held tells whether a worker waits there or ended its transaction.  A
\* value to be compressed is given to a compression worker first.
Submit(kind) ==
    /\ kind \in QueuedKinds
    /\ Called(kind)
    /\ mark' = "none"
    /\ start' = IF mark = "delimiter" THEN Len(Queue) + 1 ELSE start
    /\ js' = IF mark = "waiting" THEN [js EXCEPT !.pc = "notify"] ELSE js
    /\ UNCHANGED <<program, ran, writeTxn, worker, current, lock, asleep, dbVars>>

\* env.write(0): the signal, without the lock.
Notify ==
    /\ js.pc = "notify"
    /\ js' = Idle
    /\ IF current # 0 THEN asleep' \in Signalled(asleep) ELSE UNCHANGED asleep
    /\ UNCHANGED <<program, calls, slot, ran, mark, start, writeTxn, worker, current, lock, dbVars>>

\* env.startWriting: a worker is queued on the thread pool.
StartWriting ==
    /\ js.pc = "idle"
    /\ start # 0
    /\ worker' = Append(worker, NewWorker(start))
    /\ current' = Len(worker')
    /\ start' = 0
    /\ UNCHANGED <<program, calls, slot, ran, mark, js, writeTxn, lock, asleep, dbVars>>

\* The worker's completion on the event loop: HandleOKCallback, destructor.
Complete(w) ==
    /\ js.pc = "idle"
    /\ OpenBlocks = 0
    /\ worker[w].pc = "done"
    /\ worker' = [worker EXCEPT ![w].pc = "gone"]
    /\ current' = IF current = w THEN 0 ELSE current
    /\ UNCHANGED <<jsVars, slot, mark, lock, asleep, dbVars>>

-----------------------------------------------------------------------------
(* JavaScript: user callbacks.                                              *)

\* The event loop delivers what the worker sent: HandleProgressCallback.
Progress(w) ==
    /\ js.pc = "idle"
    /\ OpenBlocks = 0
    /\ worker[w].progress
    /\ worker' = [worker EXCEPT ![w].progress = FALSE]
    /\ js' = IF worker[w].finished THEN js ELSE [pc |-> "progress", call |-> 0, worker |-> w]
    /\ UNCHANGED <<program, calls, slot, ran, mark, start, writeTxn, current, lock, asleep, dbVars>>

\* The worker was interrupted and has no transaction: wait until it has.
AwaitTxn ==
    /\ js.pc = "progress"
    /\ lock = Free
    /\ JS \notin asleep
    /\ worker[js.worker].txn = 0
    /\ asleep' = asleep \cup {JS}
    /\ UNCHANGED <<jsVars, slot, mark, worker, current, lock, dbVars>>

CallbacksUpTo(position) ==
    Chosen(calls, SubSeq(Queue, 1, position), CallbackKinds)

\* The callbacks the worker has passed and nobody has called yet.
CallbacksDue(w) ==
    LET passed == CallbacksUpTo(worker[w].at - 1)
    IN SubSeq(passed, ran + 1, Len(passed))

\* HandleProgressCallback with the lock: the callbacks write in the worker's
\* transaction, a child that aborts leaves nothing; then the worker is woken.
RunCallbacks ==
    LET w == js.worker IN
    /\ js.pc = "progress"
    /\ lock = Free
    /\ JS \notin asleep
    /\ worker[w].txn # 0
    /\ mdbx' = [mdbx EXCEPT !.frames[Len(mdbx.frames)] =
                   @ \o Chosen(calls, CallbacksDue(w), CallbackKinds \ {"cbAbort"})]
    /\ ran' = ran + Len(CallbacksDue(w))
    /\ worker' = [worker EXCEPT ![w].finished = TRUE]
    /\ asleep' \in Signalled(asleep)
    /\ js' = Idle
    /\ UNCHANGED <<program, calls, slot, mark, start, writeTxn, current, lock, log>>

-----------------------------------------------------------------------------
(* JavaScript: synchronous transactions.                                    *)

\* transactionSync, putSync: nothing else runs on this thread until Finish.
CallSync(kind) ==
    /\ kind \in SyncKinds
    /\ Called(kind)
    /\ js' = [pc |-> "acquire", call |-> Len(calls'), worker |-> 0]
    /\ UNCHANGED <<program, ran, mark, start, writeTxn, worker, current, lock, asleep, dbVars>>

Kind == calls[js.call]

HasNoTxn == FALSE                                                         \* mutant
WorkerHasTxn == current # 0 /\ worker[current].txn # 0

\* AcquireTxn.  A worker that allows it is told to commit, and JavaScript
\* waits for the signal; otherwise the worker's transaction, if any, is used.
Acquire ==
    /\ js.pc = "acquire"
    /\ lock = Free
    /\ IF /\ current # 0
          /\ worker[current].status = "ALLOW_COMMIT"
          /\ Kind # "putSync"
       THEN /\ worker' = [worker EXCEPT ![current].status = "INTERRUPT_BATCH"]
            /\ js' = [js EXCEPT !.pc = "interrupt"]
            /\ \E threads \in Signalled(asleep) : asleep' = threads \cup {JS}
            /\ UNCHANGED lock
       ELSE /\ worker' = IF current = 0 THEN worker
                         ELSE [worker EXCEPT ![current].status = "USER_HAS_LOCK"]
            /\ js' = [js EXCEPT !.pc = IF WorkerHasTxn THEN "join" ELSE "begin"]
            /\ lock' = JS
            /\ UNCHANGED asleep
    /\ UNCHANGED <<program, calls, slot, ran, mark, start, writeTxn, current, dbVars>>

\* pthread_cond_wait returns in AcquireTxn.
Interrupted ==
    /\ js.pc = "interrupt"
    /\ JS \notin asleep
    /\ lock = Free
    /\ lock' = JS
    /\ js' = [js EXCEPT !.pc = "begin"]
    /\ UNCHANGED <<program, calls, slot, ran, mark, start, writeTxn, worker, current, asleep, dbVars>>

TrackedTooEarly(abortable) ==                                             \* mutant
    [txn |-> mdbx.id, level |-> Len(mdbx.frames), abortable |-> abortable]
Tracked(abortable) ==
    [txn |-> mdbx'.id, level |-> Len(mdbx'.frames), abortable |-> abortable]

\* beginTxn with no transaction to use: mdbx_txn_begin blocks while another
\* thread's write transaction is open.
BeginOwn ==
    /\ js.pc = "begin"
    /\ ~IsOpen
    /\ mdbx' = Begun
    /\ writeTxn' = <<Tracked(TRUE)>>
    /\ js' = [js EXCEPT !.pc = "own"]
    /\ UNCHANGED <<program, calls, slot, ran, mark, start, worker, current, lock, asleep, log>>

\* beginTxn inside the worker's transaction: in a child if it may be aborted.
Join ==
    /\ js.pc = "join"
    /\ mdbx' = IF Kind = "putSync" THEN mdbx ELSE Child
    /\ writeTxn' = <<Tracked(Kind # "putSync")>>
    /\ js' = [js EXCEPT !.pc = "own"]
    /\ UNCHANGED <<program, calls, slot, ran, mark, start, worker, current, lock, asleep, log>>

\* The callback writes, and calls transactionSync again: childTransaction.
WriteOwn ==
    /\ js.pc = "own"
    /\ LET written == [mdbx EXCEPT !.frames = Written(@, js.call)]
       IN IF Kind = "putSync"
          THEN /\ mdbx' = written
               /\ js' = [js EXCEPT !.pc = "finish"]
               /\ UNCHANGED writeTxn
          ELSE /\ mdbx' = [written EXCEPT !.frames = Append(@, <<>>)]
               /\ js' = [js EXCEPT !.pc = "nested"]
               /\ writeTxn' = Append(writeTxn, Tracked(TRUE))
    /\ UNCHANGED <<program, calls, slot, ran, mark, start, worker, current, lock, asleep, log>>

\* The nested transaction writes and ends: commitTxn or abortTxn of a child.
Nested ==
    /\ js.pc = "nested"
    /\ mdbx' = [mdbx EXCEPT !.frames =
                   Ended(Written(@, -js.call), Kind = "nestAbort")]
    /\ writeTxn' = Front(writeTxn)
    /\ js' = [js EXCEPT !.pc = "finish"]
    /\ UNCHANGED <<program, calls, slot, ran, mark, start, worker, current, lock, asleep, log>>

\* commitTxn or abortTxn of the outermost TxnTracked, and UnlockTxn.
Finish ==
    LET aborts == Kind = "syncAbort"
        txn == Last(writeTxn)
    IN
    /\ js.pc = "finish"
    /\ IF ~txn.abortable THEN UNCHANGED dbVars
       ELSE IF txn.level > 1
       THEN /\ mdbx' = [mdbx EXCEPT !.frames = Ended(@, aborts)]
            /\ UNCHANGED log
       ELSE /\ mdbx' = Closed
            /\ log' = IF aborts THEN log ELSE Append(log, mdbx.frames[1])
    /\ writeTxn' = Front(writeTxn)
    /\ IF current = 0 THEN UNCHANGED <<worker, asleep>>
       ELSE /\ worker' = [worker EXCEPT ![current].status = "none"]
            /\ asleep' \in Signalled(asleep)
    /\ lock' = Free
    /\ js' = Idle
    /\ UNCHANGED <<program, calls, slot, ran, mark, start, current>>

-----------------------------------------------------------------------------
(* The write worker: WriteWorker::Write and DoWrites.                       *)

workerOnly == <<jsVars, slot, mark, current>>

\* The worker takes the lock at the start, and after an interruption.
Lock(w) ==
    /\ worker[w].pc = "lock" \/ (worker[w].pc = "paused" /\ w \notin asleep)
    /\ lock = Free
    /\ lock' = w
    /\ worker' = [worker EXCEPT ![w].pc = "begin"]
    /\ UNCHANGED <<workerOnly, asleep, dbVars>>

Begin(w) ==
    /\ worker[w].pc = "begin"
    /\ ~IsOpen
    /\ mdbx' = Begun
    /\ worker' = [worker EXCEPT ![w].pc = worker[w].resume, ![w].txn = mdbx'.id, ![w].status = "none"]
    /\ UNCHANGED <<workerOnly, lock, asleep, log>>

\* The instruction at the worker's position.
Instruction(w) ==
    IF worker[w].at > Len(Queue) THEN "none" ELSE calls[Queue[worker[w].at]]

At(w, kind) == worker[w].pc = "run" /\ Instruction(w) = kind

\* mdbx_put of the value of the instruction, and on to the next one.
PutStep(w) ==
    /\ mdbx' = [mdbx EXCEPT !.frames = Written(@, Queue[worker[w].at])]
    /\ worker' = [worker EXCEPT ![w].at = @ + 1, ![w].pc = "run"]

Put(w) ==
    /\ At(w, "put") \/ (At(w, "zput") /\ slot[Queue[worker[w].at]].copies > 0)
    /\ PutStep(w)
    /\ UNCHANGED <<workerOnly, lock, asleep, log>>

\* The value is not compressed yet.
PutRaw(w) ==
    /\ At(w, "zput")
    /\ slot[Queue[worker[w].at]].copies = 0
    /\ worker' = [worker EXCEPT ![w].pc = "exchange"]
    /\ UNCHANGED <<workerOnly, lock, asleep, dbVars>>

\* The exchange tells who compresses: nobody has begun, a compression worker
\* is at it (wait, with the lock released), or it has just finished.
Exchange(w) ==
    LET n == Queue[worker[w].at] IN
    /\ worker[w].pc = "exchange"
    /\ slot' = [slot EXCEPT ![n].status = "1"]
    /\ \/ /\ slot[n].status = "pointer"
          /\ worker' = [worker EXCEPT ![w].pc = "compress"]
          /\ UNCHANGED <<lock, asleep, dbVars>>
       \/ /\ slot[n].status = "2"
          /\ worker' = [worker EXCEPT ![w].pc = "zwait"]
          /\ asleep' = asleep \cup {w}
          /\ lock' = Free
          /\ UNCHANGED dbVars
       \/ /\ slot[n].status = "0"
          /\ PutStep(w)
          /\ UNCHANGED <<lock, asleep, log>>
    /\ UNCHANGED <<jsVars, mark, current>>

\* compressInstruction on the write worker, then the put.
CompressSelf(w) ==
    LET n == Queue[worker[w].at] IN
    /\ worker[w].pc = "compress"
    /\ slot' = [slot EXCEPT ![n].status = "0", ![n].copies = @ + 1]
    /\ PutStep(w)
    /\ UNCHANGED <<jsVars, mark, current, lock, asleep, log>>

\* pthread_cond_wait returns: the value is compressed, or wait again.
CompressionWait(w) ==
    /\ worker[w].pc = "zwait"
    /\ w \notin asleep
    /\ lock = Free
    /\ IF slot[Queue[worker[w].at]].copies > 0
       THEN PutStep(w) /\ lock' = w /\ UNCHANGED asleep
       ELSE asleep' = asleep \cup {w} /\ UNCHANGED <<worker, lock, mdbx>>
    /\ UNCHANGED <<workerOnly, log>>

StartsNoBlock(w) ==                                                       \* mutant
    /\ At(w, "block")
    /\ worker' = [worker EXCEPT ![w].at = @ + 1]
    /\ UNCHANGED <<workerOnly, lock, asleep, dbVars>>
StartBlock(w) ==
    /\ At(w, "block")
    /\ worker' = [worker EXCEPT ![w].at = @ + 1, ![w].depth = @ + 1]
    /\ UNCHANGED <<workerOnly, lock, asleep, dbVars>>

EndBlock(w) ==
    /\ At(w, "end")
    /\ worker' = [worker EXCEPT ![w].at = @ + 1, ![w].depth = @ - 1]
    /\ UNCHANGED <<workerOnly, lock, asleep, dbVars>>

RunsOn(w) == "run"                                                        \* mutant
AfterCallback(w) == IF At(w, "strict") THEN "strict" ELSE "run"

\* USER_CALLBACK: with strict order the worker stays at it.
UserCallback(w) ==
    /\ \E kind \in CallbackKinds : At(w, kind)
    /\ worker' = [worker EXCEPT ![w].at = @ + 1, ![w].finished = FALSE,
                     ![w].pc = AfterCallback(w)]
    /\ UNCHANGED <<workerOnly, lock, asleep, dbVars>>

\* WaitForCallbacks up to the wait.
WaitForCallbacks(w, pc) ==
    /\ worker' = [worker EXCEPT ![w].pc = pc,
                     ![w].progress = @ \/ ~worker[w].finished,
                     ![w].status = IF worker[w].depth = 0 THEN "ALLOW_COMMIT" ELSE "none"]
    /\ \E threads \in Signalled(asleep) : asleep' = threads \cup {w}
    /\ lock' = Free

Strict(w) ==
    /\ worker[w].pc = "strict"
    /\ IF worker[w].finished
       THEN worker' = [worker EXCEPT ![w].pc = "run"] /\ UNCHANGED <<lock, asleep>>
       ELSE WaitForCallbacks(w, "strictWait")
    /\ UNCHANGED <<workerOnly, dbVars>>

EndsInBlock(w) == worker[w].finished                                      \* mutant
MayEnd(w) == worker[w].finished /\ worker[w].depth = 0

\* An empty word: wait there, or end the transaction there.
MarkWaiting(w) ==
    /\ At(w, "none")
    /\ ~MayEnd(w)
    /\ mark' = "waiting"
    /\ WaitForCallbacks(w, "wait")
    /\ UNCHANGED <<jsVars, slot, current, dbVars>>

MarkDelimiter(w) ==
    /\ At(w, "none")
    /\ MayEnd(w)
    /\ mark' = "delimiter"
    /\ worker' = [worker EXCEPT ![w].pc = "commit"]
    /\ UNCHANGED <<jsVars, slot, current, lock, asleep, dbVars>>

\* The condition under which the timed wait ends.
OverlooksJS(w) ==                                                         \* mutant
    worker[w].at <= Len(Queue) \/ (worker[w].depth = 0 /\ worker[w].finished)
WaitIsOver(w) ==
    \/ worker[w].at <= Len(Queue)
    \/ worker[w].depth = 0 /\ (worker[w].finished \/ worker[w].status = "INTERRUPT_BATCH")

\* A wait on writingCond is left, by a signal or, if it is timed, at any time.
WokenAnyway(w) ==                                                         \* mutant
    \/ worker[w].pc = "wait" /\ WaitIsOver(w)
    \/ worker[w].pc = "strictWait" /\ w \notin asleep
Woken(w) ==
    /\ lock = Free
    /\ \/ worker[w].pc = "wait" /\ WaitIsOver(w)
       \/ worker[w].pc = "strictWait" /\ w \notin asleep

WaitAgain(w) ==
    /\ worker[w].pc = "wait"
    /\ ~WaitIsOver(w)
    /\ w \notin asleep
    /\ lock = Free
    /\ asleep' = asleep \cup {w}
    /\ UNCHANGED <<workerOnly, worker, lock, dbVars>>

Resumed(w) == IF worker[w].pc = "wait" THEN "run" ELSE "strict"

ResumesUnlocked(w) ==                                                     \* mutant
    /\ Woken(w)
    /\ worker[w].status # "INTERRUPT_BATCH"
    /\ worker' = [worker EXCEPT ![w].pc = Resumed(w), ![w].status = "none"]
    /\ asleep' = asleep \ {w}
    /\ UNCHANGED <<workerOnly, lock, dbVars>>
Resume(w) ==
    /\ Woken(w)
    /\ worker[w].status # "INTERRUPT_BATCH"
    /\ worker' = [worker EXCEPT ![w].pc = Resumed(w), ![w].status = "none"]
    /\ asleep' = asleep \ {w}
    /\ lock' = w
    /\ UNCHANGED <<workerOnly, dbVars>>

\* The batch is interrupted: commit, tell JavaScript, and wait until its
\* transaction is over.
Interrupt(w) ==
    /\ Woken(w)
    /\ worker[w].status = "INTERRUPT_BATCH"
    /\ worker' = [worker EXCEPT ![w].pc = "paused", ![w].txn = 0,
                     ![w].status = "RESTART_WORKER_TXN", ![w].resume = Resumed(w)]
    /\ log' = Append(log, mdbx.frames[1])
    /\ mdbx' = Closed
    /\ \E threads \in Signalled(asleep \ {w}) : asleep' = threads \cup {w}
    /\ UNCHANGED <<workerOnly, lock>>

\* The end of Write: mdbx_txn_commit, and the lock is released.
Commit(w) ==
    /\ worker[w].pc = "commit"
    /\ log' = Append(log, mdbx.frames[1])
    /\ mdbx' = Closed
    /\ worker' = [worker EXCEPT ![w].pc = "done", ![w].txn = 0]
    /\ lock' = Free
    /\ UNCHANGED <<workerOnly, asleep>>

-----------------------------------------------------------------------------
(* Compression workers.                                                     *)

compressorOnly == <<jsVars, mark, worker, current, lock, dbVars>>

TakenAnyway(n) == "compress"                                              \* mutant
Taken(n) == IF slot[n].status = "pointer" THEN "compress" ELSE "done"

TakeSlot(n) ==
    /\ slot[n].pc = "queued"
    /\ slot' = [slot EXCEPT ![n].status = "2", ![n].pc = Taken(n)]
    /\ UNCHANGED <<compressorOnly, asleep>>

CompressValue(n) ==
    /\ slot[n].pc = "compress"
    /\ slot' = [slot EXCEPT ![n].copies = @ + 1, ![n].pc = "publish"]
    /\ UNCHANGED <<compressorOnly, asleep>>

PublishSlot(n) ==
    /\ slot[n].pc = "publish"
    /\ slot' = [slot EXCEPT ![n].status = "0",
                   ![n].pc = IF slot[n].status = "1" THEN "signal" ELSE "done"]
    /\ UNCHANGED <<compressorOnly, asleep>>

SignalWriter(n) ==
    /\ slot[n].pc = "signal"
    /\ lock = Free
    /\ asleep' \in Signalled(asleep)
    /\ slot' = [slot EXCEPT ![n].pc = "done"]
    /\ UNCHANGED compressorOnly

-----------------------------------------------------------------------------
Call == \E kind \in QueuedKinds \cup SyncKinds : Submit(kind) \/ CallSync(kind)

SyncStep == Acquire \/ Interrupted \/ BeginOwn \/ Join \/ WriteOwn \/ Nested \/ Finish

EventLoop ==
    \/ Notify \/ StartWriting \/ AwaitTxn \/ RunCallbacks \/ SyncStep
    \/ \E w \in Workers : Complete(w) \/ Progress(w)

WorkerStep(w) ==
    \/ Lock(w) \/ Begin(w) \/ Put(w) \/ PutRaw(w) \/ Exchange(w) \/ CompressSelf(w)
    \/ CompressionWait(w) \/ StartBlock(w) \/ EndBlock(w) \/ UserCallback(w)
    \/ Strict(w) \/ MarkWaiting(w) \/ MarkDelimiter(w) \/ WaitAgain(w)
    \/ Resume(w) \/ Interrupt(w) \/ Commit(w)

CompressionStep(n) == TakeSlot(n) \/ CompressValue(n) \/ PublishSlot(n) \/ SignalWriter(n)

\* Nothing is under way; the program may have stopped calling.
Quiescent ==
    /\ js.pc = "idle" /\ start = 0 /\ OpenBlocks = 0
    /\ \A w \in Workers : worker[w].pc = "gone"
    /\ \A n \in DOMAIN slot : slot[n].pc = "done"
    /\ UNCHANGED vars

Next ==
    \/ Call
    \/ EventLoop
    \/ \E w \in Workers : WorkerStep(w)
    \/ \E n \in DOMAIN slot : CompressionStep(n)
    \/ Quiescent

\* The event loop runs what is queued, the thread pools run their workers,
\* and the function given to a batch returns.
Fairness ==
    /\ WF_vars(EventLoop)
    /\ WF_vars(OpenBlocks > 0 /\ Call)
    /\ WF_vars(\E w \in Workers : WorkerStep(w))
    /\ WF_vars(\E n \in DOMAIN slot : CompressionStep(n))

Spec == Init /\ [][Next]_vars /\ Fairness

-----------------------------------------------------------------------------
(* Properties.                                                              *)

\* The types: positions stay in the queue, depths are never negative, and
\* only threads that exist hold the lock or wait.
TypeOK ==
    /\ program \in Programs
    /\ calls \in Seq(QueuedKinds \cup SyncKinds)
    /\ DOMAIN slot = DOMAIN calls
    /\ ran \in 0..Len(calls)
    /\ mark \in {"none", "waiting", "delimiter"}
    /\ start \in 0..Len(calls)
    /\ js.pc \in {"idle", "notify", "progress", "acquire", "interrupt", "begin", "join",
                  "own", "nested", "finish"}
    /\ current \in 0..Len(worker)
    /\ lock \in {Free, JS} \cup Workers
    /\ asleep \subseteq {JS} \cup Workers
    /\ \A w \in Workers : worker[w].depth >= 0 /\ worker[w].at \in 1..Len(calls) + 1

WorkerHolds(w) ==
    worker[w].pc \in {"begin", "run", "exchange", "compress", "strict", "commit"}
JSHolds == js.pc \in {"begin", "join", "own", "nested", "finish"}

\* writingLock has the holder the code believes it has: whoever is between a
\* lock and its unlock, worker or JavaScript, holds it, and nobody else.
LockHolder ==
    /\ \A w \in Workers : lock = w <=> WorkerHolds(w)
    /\ lock = JS <=> JSHolds

\* A transaction pointer that the worker or JavaScript (TxnTracked) still has
\* refers to the open mdbx transaction, never to one that was committed by
\* the other; and whoever holds the lock finds the frame it would write in
\* innermost: nobody writes in a parent while its child is open.
HandlesAreLive ==
    /\ \A w \in Workers : worker[w].txn # 0 =>
          /\ IsOpen /\ worker[w].txn = mdbx.id
          /\ lock = w => Len(mdbx.frames) = 1
    /\ \A i \in DOMAIN writeTxn :
          /\ IsOpen /\ writeTxn[i].txn = mdbx.id
          /\ writeTxn[i].level <= Len(mdbx.frames)
          /\ i = Len(writeTxn) => writeTxn[i].level = Len(mdbx.frames)

\* mdbx_txn_begin for a new transaction is called with no other one open; it
\* would block, with writingLock held, on a transaction whose owner needs it.
BeginNeverBlocks ==
    /\ \A w \in Workers : worker[w].pc = "begin" => ~IsOpen
    /\ js.pc = "begin" => ~IsOpen

Flat == FlattenSeq(log) \o FlattenSeq(mdbx.frames)
IndexOf(n) == CHOOSE i \in DOMAIN Flat : Flat[i] = n
IsStored(n) == \E i \in DOMAIN Flat : Flat[i] = n

\* What is written once is stored once, in spite of interruptions, joins and
\* children; and at the end of its transaction, nothing of an aborted
\* transaction is left.
StoredOnce ==
    /\ \A i, j \in DOMAIN Flat : Flat[i] = Flat[j] => i = j
    /\ \A t \in DOMAIN log, n \in DOMAIN calls :
          /\ calls[n] = "cbAbort" => n \notin Range(log[t])
          /\ calls[n] = "syncAbort" => {n, -n} \cap Range(log[t]) = {}
          /\ calls[n] = "nestAbort" => -n \notin Range(log[t])

\* A synchronous transaction is one unit: its two writes are committed in the
\* same transaction with nothing between them.
SyncIsAtomic ==
    \A t \in DOMAIN log : \A i \in DOMAIN log[t] :
        LET n == log[t][i] IN
        n > 0 /\ calls[n] = "sync" => i < Len(log[t]) /\ log[t][i + 1] = -n

\* Interruptions split the queue only between blocks.
BlocksAreWhole ==
    \A a, b \in DOMAIN Queue :
        /\ a < b /\ calls[Queue[a]] \in {"put", "zput"} /\ calls[Queue[b]] \in {"put", "zput"}
        /\ \E c \in 1..a : calls[Queue[c]] = "block"
                           /\ \A d \in c..b : calls[Queue[d]] # "end"
        => \A t \in DOMAIN log : Queue[a] \in Range(log[t]) <=> Queue[b] \in Range(log[t])

\* Writes and strict callbacks take effect in the order of the calls; a
\* callback without strict order comes after the writes called before it.
OrderIsKept ==
    \A a, b \in DOMAIN Queue :
        LET m == Queue[a]  n == Queue[b] IN
        /\ a < b /\ IsStored(n)
        /\ calls[m] \in {"put", "zput", "strict"}
        => IsStored(m) /\ IndexOf(m) < IndexOf(n)

\* A value is stored compressed, and compressed once: not again after it was
\* stored, when its memory has been released.
CompressedOnce ==
    \A n \in DOMAIN calls :
        calls[n] = "zput" => slot[n].copies <= 1 /\ (IsStored(n) => slot[n].copies = 1)

\* A synchronous call returns.  README.md:345, a synchronous transaction "must
\* interrupt and split the current asynchronous transaction batch, so the
\* synchronous transaction can be executed"; it "can not block to wait" as
\* "that would result in a deadlock".  It does when a compression worker
\* signals late: the worker's commit is not awaited, or not the other's end.
SyncReturns == js.call # 0 ~> js.call = 0

\* Every write and callback in the queue is executed and committed.
Settled(n) ==
    \/ calls[n] \in SyncKinds \cup {"block", "end", "cbAbort"}
    \/ \E t \in DOMAIN log : n \in Range(log[t])
QueueDrains == []<>(\A n \in DOMAIN calls : Settled(n))
=============================================================================
