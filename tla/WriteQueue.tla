----------------------------- MODULE WriteQueue -----------------------------
(***************************************************************************)
(* The asynchronous write path of lmdbx-js.                                *)
(*                                                                         *)
(* The JavaScript thread (write.js) appends instructions to a shared       *)
(* buffer of slots; a write worker on a libuv pool thread (writer.cpp)     *)
(* executes them inside one mdbx transaction, and the two talk through the *)
(* status word of each slot only: JavaScript stores the instruction into   *)
(* the word, the worker ORs FINISHED into it, and a worker that finds an   *)
(* empty word marks it WAITING (it will be back) or DELIMITER (its         *)
(* transaction ends before this slot).  When the commit returns, COMMITTED *)
(* or FAILED is ORed into the delimited word, and JavaScript settles the   *)
(* promises of the writes before it.                                       *)
(*                                                                         *)
(* A slot is named by its number in submission order; a worker is named by *)
(* the slot it starts at.  A JavaScript call is a list of small steps      *)
(* (`todo') because the workers run between them.  Synchronous             *)
(* transactions, and the condition variable that only shortens the timed   *)
(* waits, are left out here.                                               *)
(***************************************************************************)
EXTENDS Integers, Sequences, FiniteSets

CONSTANTS
  NSlots,             \* bound: slots of the instruction buffers
  MaxBuffers,         \* bound: times an instruction buffer fills up
  EventTurnBatching,  \* option eventTurnBatching
  TxnStartThreshold,  \* option txnStartThreshold
  BatchStartThreshold,\* option batchStartThreshold
  Calls,              \* the calls the program makes
  ResolveEvery,       \* 8 in the code: resolveWrites every so many writes
  CommitMayFail       \* TRUE: mdbx_txn_commit may return an error

ASSUME ConstantsAssumption ==
  /\ NSlots \in Nat \ {0}
  /\ MaxBuffers \in Nat
  /\ EventTurnBatching \in BOOLEAN
  /\ TxnStartThreshold \in Nat
  /\ BatchStartThreshold \in Nat
  /\ Calls \subseteq {"put", "putIf", "transaction", "batch", "ifVersion"}
  /\ ResolveEvery \in Nat \ {0}
  /\ CommitMayFail \in BOOLEAN

VARIABLES
  (* shared memory *)
  word,                  \* the status word of each slot, a set of bits
  lock,                  \* writingLock: 0, a worker, or JS
  (* JavaScript: where the next instruction goes *)
  position, kind, writtenBatchDepth, ownPromise, buffers,
  (* JavaScript: batching and the start of transactions *)
  batchDepth, blocks, turn, writeBatchStart, outstandingBatchCount,
  outstandingWriteCount, startAddress, enqueuedCommit,
  (* JavaScript: the list of resolutions *)
  resolutions, unwritten, uncommitted, txnResolution, nextTxn, isTxn, flag,
  callbacks, nextTxnCallbacks,
  (* JavaScript: promises *)
  commitPromise, hasResolver, promise, settled,
  todo,                  \* the rest of the JavaScript call being executed
  worker,                \* the write workers
  (* history *)
  group,                 \* the outermost block a slot was written in
  log,                   \* the slots whose instruction was processed, in order
  txnOf,                 \* the worker that processed a slot, 0 before
  ran,                   \* the worker whose transaction ran a user callback
  outcome                \* what became of each worker's transaction

shared == <<word, lock>>
placing == <<position, kind, writtenBatchDepth, ownPromise, buffers, group>>
batching == <<batchDepth, blocks, turn, writeBatchStart, outstandingBatchCount>>
starting == <<startAddress, enqueuedCommit>>
txnChain == <<txnResolution, nextTxn, isTxn>>
resolving == <<unwritten, uncommitted, flag>>
callbackVars == <<callbacks, nextTxnCallbacks, ran>>
promises == <<commitPromise, hasResolver, promise, settled>>
history == <<log, txnOf, outcome>>
writing == <<worker, history>>
vars == <<shared, placing, batching, starting, outstandingWriteCount, resolutions,
          txnChain, resolving, callbackVars, promises, todo, writing>>

-----------------------------------------------------------------------------
Slots == 1..NSlots
Positions == 1..NSlots + 1        \* the word after the last slot exists too
JS == NSlots + 2                  \* JavaScript as the holder of writingLock
Resolved == NSlots + 1            \* SYNC_PROMISE_SUCCESS among the promises

(* The bits of a status word.  INSTR stands for the instruction's own bits  *)
(* (flags & 0xf): what was written is kind[slot].                           *)
Bits == {"INSTR", "WAITING", "FINISHED", "FAILED_CONDITION",
         "DELIMITER", "COMMITTED", "TXN_FAILED"}
TxnDone == {"COMMITTED", "TXN_FAILED"}
Has(w, bit) == bit \in w

Kinds == {"none", "write", "callback", "start", "end", "pointer"}

(* What a worker reports of a write: the value its promise resolves to.     *)
Settlements == {"pending", "true", "false", "rejected"}

WorkerStates == {"none", "queued", "fetch", "mark", "empty", "wait",
                 "commit", "publish", "complete", "done"}

WorkerRecords ==
  [pc : WorkerStates, at : Positions, read : SUBSET Bits, failed : BOOLEAN,
   first : BOOLEAN, depth : Int, validated : Int, finishedProgress : BOOLEAN]
WorkerAt(state, s) ==
  [pc |-> state, at |-> s, read |-> {}, failed |-> FALSE, first |-> TRUE,
   depth |-> 0, validated |-> 0, finishedProgress |-> TRUE]

(* The JavaScript steps a call is made of.                                  *)
JSSteps ==
  [op : {"load", "store", "or", "seen", "promise", "callbacks"}, slot : Slots,
   status : SUBSET Bits]
  \cup [op : {"unwritten", "committed"}, slot : {0}, status : {{}}]
Step(op, s, st) == [op |-> op, slot |-> s, status |-> st]
Finish(s) == Step(IF writtenBatchDepth[s] > 0 THEN "load" ELSE "or", s, {})
Resolve == <<Step("unwritten", 0, {}), Step("committed", 0, {})>>

-----------------------------------------------------------------------------
Init ==
  /\ word = [s \in Positions |->
               IF s = 1 THEN {"DELIMITER", "COMMITTED"} ELSE {}]
  /\ lock = 0
  /\ position = 1 /\ buffers = 0
  /\ kind = [s \in Slots |-> "none"]
  /\ writtenBatchDepth = [s \in Slots |-> 0]
  /\ ownPromise = {}
  /\ group = [s \in Slots |-> 0]
  /\ batchDepth = 0 /\ blocks = <<>> /\ turn = 0
  /\ writeBatchStart = 0 /\ outstandingBatchCount = 0
  /\ outstandingWriteCount = 0 /\ startAddress = 0 /\ enqueuedCommit = FALSE
  /\ resolutions = <<>> /\ unwritten = 1 /\ uncommitted = 0
  /\ txnResolution = 0 /\ nextTxn = [s \in Positions |-> 0] /\ isTxn = {}
  /\ flag = [s \in Slots |-> FALSE]
  /\ callbacks = [s \in Slots |-> 0] /\ nextTxnCallbacks = {}
  /\ ran = [s \in Slots |-> 0]
  /\ commitPromise = 0 /\ hasResolver = {}
  /\ promise = [s \in Slots |-> 0]
  /\ settled = [s \in Slots |-> "pending"]
  /\ todo = <<>>
  /\ worker = [s \in Slots |-> WorkerAt("none", 1)]
  /\ log = <<>> /\ txnOf = [s \in Slots |-> 0]
  /\ outcome = [s \in Slots |-> "none"]

-----------------------------------------------------------------------------
(* JavaScript: calls made by the program.                                   *)

After(s, full) == IF full THEN s + 2 ELSE s + 1

(* Where writeInstructions puts an instruction.  The first write of an      *)
(* event turn reserves a start-block slot before its own; a buffer that is  *)
(* full (startFull, full) ends in a pointer to the next one.                *)
Place(startFull, full) ==
  LET opensTurn == EventTurnBatching /\ turn = 0 /\ batchDepth = 0
      slot == IF opensTurn THEN After(position, startFull) ELSE position
  IN [opensTurn |-> opensTurn, slot |-> slot, next |-> After(slot, full),
      depth |-> IF opensTurn THEN 1 ELSE batchDepth,
      pointers |-> (IF opensTurn /\ startFull THEN {position + 1} ELSE {})
                   \cup (IF full THEN {slot + 1} ELSE {})]

(* The end-block slots still to come fit behind the new instruction.        *)
Fits(place, newBlocks) ==
  /\ place.next + Len(blocks) + newBlocks
       + (IF place.opensTurn \/ turn # 0 THEN 1 ELSE 0) <= NSlots + 1
  /\ buffers + Cardinality(place.pointers) <= MaxBuffers

(* writeInstructions up to the closure it returns.                          *)
Reserve(k, own, place) ==
  LET outermost == IF place.opensTurn THEN position
                   ELSE IF turn # 0 THEN turn
                   ELSE IF blocks # <<>> THEN Head(blocks) ELSE place.slot
  IN /\ position' = place.next
     /\ buffers' = buffers + Cardinality(place.pointers)
     /\ kind' = [s \in Slots |->
                   CASE s = place.slot -> k
                     [] s = position /\ place.opensTurn -> "start"
                     [] s \in place.pointers -> "pointer"
                     [] OTHER -> kind[s]]
     /\ word' = [s \in Positions |->
                   IF s \in place.pointers THEN {"INSTR"} ELSE word[s]]
     /\ writtenBatchDepth' = [writtenBatchDepth EXCEPT ![place.slot] = place.depth]
     /\ ownPromise' = IF own THEN ownPromise \cup {place.slot} ELSE ownPromise
     /\ group' = [s \in Slots |->
                    IF s = place.slot \/ (s = position /\ place.opensTurn)
                    THEN outermost ELSE group[s]]
     /\ resolutions' = resolutions \o
          (IF place.opensTurn THEN <<position, place.slot>> ELSE <<place.slot>>)
     /\ turn' = IF place.opensTurn THEN position ELSE turn
     /\ commitPromise' = IF place.opensTurn THEN 0 ELSE commitPromise

(* put, remove and clearAsync (k = "write") and transactionAsync            *)
(* (k = "callback"), called outside a transaction.                          *)
Write(k, own) ==
  \E startFull, full \in BOOLEAN :
    LET place == Place(startFull, full) IN
    /\ todo = <<>>
    /\ startFull => place.opensTurn
    /\ Fits(place, 0)
    /\ Reserve(k, own, place)
    /\ batchDepth' = place.depth
    /\ writeBatchStart' = IF place.opensTurn THEN position ELSE writeBatchStart
    /\ outstandingBatchCount' = IF place.opensTurn THEN 0 ELSE outstandingBatchCount
    /\ callbacks' = IF k = "callback"
                    THEN [callbacks EXCEPT ![position] = place.slot]
                    ELSE callbacks
    /\ todo' = <<Step(IF place.depth > 0 THEN "load" ELSE "or", place.slot, {})>>
    /\ UNCHANGED <<lock, blocks, starting, outstandingWriteCount, txnChain,
                   resolving, nextTxnCallbacks, ran, hasResolver, promise,
                   settled, writing>>

(* ifVersion and batch, up to the call of the user's function.  Its start   *)
(* is held back in writeBatchStart unless an outer block is open.           *)
OpenBlock(own) ==
  \E startFull, full \in BOOLEAN :
    LET place == Place(startFull, full)
        nested == place.depth > 0
    IN
    /\ todo = <<>>
    /\ startFull => place.opensTurn
    /\ Fits(place, 1)
    /\ Reserve("start", own, place)
    /\ batchDepth' = place.depth + 2
    /\ blocks' = Append(blocks, place.slot)
    /\ writeBatchStart' = IF place.opensTurn THEN position
                          ELSE IF nested THEN writeBatchStart ELSE place.slot
    /\ outstandingBatchCount' = IF place.opensTurn \/ ~nested THEN 0
                                ELSE outstandingBatchCount
    /\ todo' = IF nested THEN <<Step("load", place.slot, {})>> ELSE <<>>
    /\ UNCHANGED <<lock, starting, outstandingWriteCount, txnChain, resolving,
                   callbackVars, hasResolver, promise, settled, writing>>

(* finishBatch: the end-block instruction takes the next slot and the       *)
(* placeholder resolution moves behind it.                                  *)
EndBlock ==
  /\ position' = position + 1
  /\ kind' = [kind EXCEPT ![position] = "end"]

(* The `finally' of ifVersion: a start that is still held back is released  *)
(* only after the end of the block has been written.                        *)
CloseBlock ==
  LET s == blocks[Len(blocks)]
      heldBack == writeBatchStart = s
      depth == batchDepth - 2
  IN
  /\ todo = <<>>
  /\ blocks # <<>>
  /\ EndBlock
  /\ batchDepth' = depth
  /\ blocks' = SubSeq(blocks, 1, Len(blocks) - 1)
  /\ writeBatchStart' = IF heldBack THEN 0 ELSE writeBatchStart
  /\ todo' = IF heldBack
             THEN <<Step("load", position, {}), Finish(s)>>
             ELSE <<Step(IF depth > 0 THEN "load" ELSE "or", position, {})>>
  /\ UNCHANGED <<shared, writtenBatchDepth, ownPromise, buffers, group, turn,
                 outstandingBatchCount, starting, outstandingWriteCount,
                 resolutions, txnChain, resolving, callbackVars, promises, writing>>

(* The setImmediate callback that ends an event turn: the block is closed   *)
(* and, unless it was released early, started.                              *)
EndTurn ==
  /\ todo = <<>> /\ blocks = <<>>
  /\ turn # 0
  /\ turn' = 0
  /\ batchDepth' = batchDepth - 1
  /\ EndBlock
  /\ todo' = <<Step(IF batchDepth > 1 THEN "load" ELSE "or", position, {})>> \o
             (IF writeBatchStart # 0 THEN <<Finish(writeBatchStart)>> ELSE <<>>)
  /\ UNCHANGED <<shared, writtenBatchDepth, ownPromise, buffers, group, blocks,
                 writeBatchStart, outstandingBatchCount, starting,
                 outstandingWriteCount, resolutions, txnChain, resolving,
                 callbackVars, promises, writing>>

-----------------------------------------------------------------------------
(* JavaScript: the steps of a call.                                         *)

Doing(op) == todo # <<>> /\ Head(todo).op = op

(* Inside a batch the status is read and the word overwritten, in two steps *)
(* a worker can come between.                                               *)
Load ==
  /\ Doing("load")
  /\ todo' = <<Step("store", Head(todo).slot, word[Head(todo).slot])>> \o Tail(todo)
  /\ UNCHANGED <<shared, placing, batching, starting, outstandingWriteCount,
                 resolutions, txnChain, resolving, callbackVars, promises, writing>>

(* What follows the store; an end block has no resolution and is done.      *)
EndsCountToo(s, status) == <<Step("seen", s, status)>>                \* mutant
AfterStore(s, status) ==
  IF kind[s] = "end" THEN <<>> ELSE <<Step("seen", s, status)>>

(* Enough writes were placed in the batch: its start is released early.     *)
Store ==
  LET s == Head(todo).slot
      status == Head(todo).status
      counts == kind[s] # "end" /\ writeBatchStart # 0 /\ status = {}
      release == counts /\ outstandingBatchCount + 1 > BatchStartThreshold
  IN
  /\ Doing("store")
  /\ word' = [word EXCEPT ![s] = {"INSTR"}]
  /\ outstandingBatchCount' = IF release THEN 0
                              ELSE IF counts THEN outstandingBatchCount + 1
                              ELSE outstandingBatchCount
  /\ writeBatchStart' = IF release THEN 0 ELSE writeBatchStart
  /\ todo' = (IF release THEN <<Finish(writeBatchStart)>> ELSE <<>>)
               \o AfterStore(s, status) \o Tail(todo)
  /\ UNCHANGED <<lock, placing, batchDepth, blocks, turn, starting,
                 outstandingWriteCount, resolutions, txnChain, resolving,
                 callbackVars, promises, writing>>

(* Outside a batch the store is one Atomics.or.                             *)
Or ==
  LET s == Head(todo).slot IN
  /\ Doing("or")
  /\ word' = [word EXCEPT ![s] = @ \cup {"INSTR"}]
  /\ todo' = AfterStore(s, word[s]) \o Tail(todo)
  /\ UNCHANGED <<lock, placing, batching, starting, outstandingWriteCount,
                 resolutions, txnChain, resolving, callbackVars, promises, writing>>

(* queueCommitResolution, for the slot s a transaction was seen to end at.  *)
QueueCommit(s) ==
  /\ isTxn' = isTxn \cup {s}
  /\ txnResolution' = IF s \notin isTxn /\ txnResolution = 0 THEN s ELSE txnResolution
  /\ nextTxn' = IF s \notin isTxn /\ txnResolution # 0
                THEN [nextTxn EXCEPT ![txnResolution] = s] ELSE nextTxn

StartWriting(s) == worker' = [worker EXCEPT ![s] = WorkerAt("queued", s)]

(* The closure of writeInstructions after its store: a delimiter means that *)
(* this write begins a transaction, which is started now or soon.           *)
Seen ==
  LET s == Head(todo).slot
      begins == Has(Head(todo).status, "DELIMITER")
      start == IF begins /\ startAddress = 0 THEN s ELSE startAddress
      count == outstandingWriteCount + 1
      startNow == start # 0 /\ (EventTurnBatching
                                \/ (enqueuedCommit /\ count > TxnStartThreshold))
  IN
  /\ Doing("seen")
  /\ outstandingWriteCount' = count
  /\ commitPromise' = IF begins THEN 0 ELSE commitPromise
  /\ IF begins THEN QueueCommit(s) ELSE UNCHANGED txnChain
  /\ startAddress' = IF startNow THEN 0 ELSE start
  /\ enqueuedCommit' = IF start = 0 THEN enqueuedCommit ELSE ~startNow
  /\ IF startNow THEN StartWriting(start) ELSE UNCHANGED worker
  /\ todo' = (IF count % ResolveEvery = 0 THEN Resolve ELSE <<>>)
               \o <<Step("promise", s, {})>> \o Tail(todo)
  /\ UNCHANGED <<shared, placing, batching, resolutions, resolving, callbackVars,
                 hasResolver, promise, settled, history>>

(* The last lines of the closure: the promise the caller gets.  A write     *)
(* without a condition of its own shares the promise of its transaction; a  *)
(* write inside a user's block gets one that is already resolved.           *)
ReturnPromise ==
  LET s == Head(todo).slot
      own == s \in ownPromise
      sync == ~own /\ writtenBatchDepth[s] > 1
      opens == own \/ (~sync /\ commitPromise = 0)
  IN
  /\ Doing("promise")
  /\ hasResolver' = IF opens THEN hasResolver \cup {s} ELSE hasResolver
  /\ commitPromise' = IF opens /\ ~own THEN s ELSE commitPromise
  /\ promise' = [promise EXCEPT ![s] = IF opens THEN s
                                       ELSE IF sync THEN Resolved ELSE commitPromise]
  /\ todo' = Tail(todo)
  /\ UNCHANGED <<shared, placing, batching, starting, outstandingWriteCount,
                 resolutions, txnChain, resolving, callbackVars, settled, writing>>

(* The setImmediate or setTimeout callback of an unbatched write.           *)
CommitTimerKeepsAddress ==                                            \* mutant
  /\ todo = <<>> /\ blocks = <<>>
  /\ enqueuedCommit
  /\ enqueuedCommit' = FALSE
  /\ StartWriting(startAddress)
  /\ UNCHANGED <<shared, placing, batching, startAddress, outstandingWriteCount,
                 resolutions, txnChain, resolving, callbackVars, promises, todo,
                 history>>
CommitTimer ==
  /\ todo = <<>> /\ blocks = <<>>
  /\ enqueuedCommit
  /\ enqueuedCommit' = FALSE
  /\ startAddress' = 0
  /\ StartWriting(startAddress)
  /\ UNCHANGED <<shared, placing, batching, outstandingWriteCount, resolutions,
                 txnChain, resolving, callbackVars, promises, todo, history>>

(* resolveWrites, first loop: pass the instructions the worker finished.    *)
AdvanceUnwritten ==
  LET s == resolutions[unwritten]
      finished == unwritten <= Len(resolutions) /\ Has(word[s], "FINISHED")
  IN
  /\ Doing("unwritten")
  /\ IF finished
     THEN /\ unwritten' = unwritten + 1
          /\ outstandingWriteCount' = outstandingWriteCount - 1
          /\ flag' = [flag EXCEPT ![s] = Has(word[s], "FAILED_CONDITION")]
          /\ nextTxnCallbacks' = IF callbacks[s] # 0
                                 THEN nextTxnCallbacks \cup {callbacks[s]}
                                 ELSE nextTxnCallbacks
          /\ callbacks' = [callbacks EXCEPT ![s] = 0]
          /\ todo' = todo
     ELSE /\ todo' = Tail(todo)
          /\ UNCHANGED <<unwritten, outstandingWriteCount, flag,
                         nextTxnCallbacks, callbacks>>
  /\ UNCHANGED <<shared, placing, batching, starting, resolutions, txnChain,
                 uncommitted, ran, promises, writing>>

(* The place of a transaction's end in the list of resolutions; the         *)
(* placeholder is behind the last.                                          *)
IndexBehind(s) ==                                                     \* mutant
  CHOOSE i \in 1..NSlots + 1 : i > Len(resolutions) \/ resolutions[i] > s
IndexOf(s) ==
  IF \E i \in DOMAIN resolutions : resolutions[i] = s
  THEN CHOOSE i \in DOMAIN resolutions : resolutions[i] = s
  ELSE Len(resolutions) + 1

(* The writes between the last settled one and the end of a transaction.    *)
Submitted(end) == {resolutions[i] : i \in 1..end - 1}                  \* mutant
Uncommitted(end) == {resolutions[i] : i \in (uncommitted..end - 1) \ {0}}

(* resolveWrites, second loop: resolveCommit or rejectCommit settles every  *)
(* promise before the end of the first queued transaction, when that ended. *)
SettleTxn ==
  LET done == txnResolution # 0 /\ word[txnResolution] \cap TxnDone # {}
      end == IndexOf(txnResolution)
      failed == Has(word[txnResolution], "TXN_FAILED")
  IN
  /\ Doing("committed")
  /\ IF done
     THEN /\ settled' = [s \in Slots |->
               IF s \notin Uncommitted(end) \cap hasResolver THEN settled[s]
               ELSE IF failed THEN "rejected"
               ELSE IF flag[s] THEN "false" ELSE "true"]
          /\ uncommitted' = end
          /\ txnResolution' = nextTxn[txnResolution]
          /\ todo' = todo
     ELSE /\ todo' = Tail(todo)
          /\ UNCHANGED <<settled, uncommitted, txnResolution>>
  /\ UNCHANGED <<shared, placing, batching, starting, outstandingWriteCount,
                 resolutions, nextTxn, isTxn, unwritten, flag, callbackVars,
                 commitPromise, hasResolver, promise, writing>>

(* The callback of startWriting, in HandleOKCallback or HandleErrorCallback:*)
(* look for the end of the worker's transaction in the next empty slot.     *)
ObserveTxn(following) ==
  /\ IF Has(word[position], "DELIMITER") THEN QueueCommit(position)
     ELSE UNCHANGED txnChain
  /\ todo' = Resolve \o following

Completion(w) ==
  /\ todo = <<>> /\ blocks = <<>>
  /\ worker[w].pc = "complete"
  /\ worker' = [worker EXCEPT ![w].pc = "done"]
  /\ ObserveTxn(<<>>)
  /\ UNCHANGED <<shared, placing, batching, starting, outstandingWriteCount,
                 resolutions, resolving, callbackVars, promises, history>>

(* HandleProgressCallback: with the worker waiting, JavaScript takes        *)
(* writingLock and runs the user callbacks inside the worker's transaction. *)
Progress(w) ==
  /\ todo = <<>> /\ blocks = <<>>
  /\ worker[w].pc = "wait" /\ ~worker[w].finishedProgress
  /\ lock = 0
  /\ lock' = JS
  /\ worker' = [worker EXCEPT ![w].finishedProgress = TRUE]
  /\ ObserveTxn(<<Step("callbacks", w, {})>>)
  /\ UNCHANGED <<word, placing, batching, starting, outstandingWriteCount,
                 resolutions, resolving, callbackVars, promises, history>>

(* executeTxnCallbacks, for callbacks that do not await.                    *)
RunCallbacksAgain ==                                                  \* mutant
  /\ Doing("callbacks")
  /\ ran' = [s \in Slots |-> IF s \in nextTxnCallbacks THEN Head(todo).slot ELSE ran[s]]
  /\ lock' = 0
  /\ todo' = Tail(todo)
  /\ UNCHANGED <<word, placing, batching, starting, outstandingWriteCount,
                 resolutions, txnChain, resolving, callbacks, nextTxnCallbacks,
                 promises, writing>>
RunCallbacks ==
  /\ Doing("callbacks")
  /\ ran' = [s \in Slots |-> IF s \in nextTxnCallbacks THEN Head(todo).slot ELSE ran[s]]
  /\ nextTxnCallbacks' = {}
  /\ lock' = 0
  /\ todo' = Tail(todo)
  /\ UNCHANGED <<word, placing, batching, starting, outstandingWriteCount,
                 resolutions, txnChain, resolving, callbacks, promises, writing>>

-----------------------------------------------------------------------------
(* The write worker: WriteWorker::Write and DoWrites.                       *)

JavaScriptVars == <<placing, batching, starting, outstandingWriteCount, resolutions,
                    txnChain, resolving, callbackVars, promises, todo>>

(* Take writingLock and begin a transaction.                                *)
Begin(w) ==
  /\ worker[w].pc = "queued"
  /\ lock = 0
  /\ lock' = w
  /\ worker' = [worker EXCEPT ![w].pc = "fetch"]
  /\ UNCHANGED <<word, history, JavaScriptVars>>

Fetching(w) == worker[w].pc = "fetch"
Instruction(w) ==                 \* the instruction found in the next slot
  IF Has(word[worker[w].at], "INSTR") THEN kind[worker[w].at] ELSE "none"

(* POINTER_NEXT: go on in the next buffer.                                  *)
FollowPointer(w) ==
  /\ Fetching(w) /\ Instruction(w) = "pointer"
  /\ worker' = [worker EXCEPT ![w].at = @ + 1]
  /\ UNCHANGED <<shared, history, JavaScriptVars>>

(* BLOCK_END; validatedDepth follows conditionDepth down.                   *)
LeaveBlock(w) ==
  LET depth == worker[w].depth - 1 IN
  /\ Fetching(w) /\ Instruction(w) = "end"
  /\ worker' = [worker EXCEPT ![w].at = @ + 1, ![w].depth = depth,
                  ![w].validated = IF @ > depth THEN @ - 1 ELSE @]
  /\ UNCHANGED <<shared, history, JavaScriptVars>>

(* An instruction that has a result.  It fails in a block whose condition   *)
(* failed; otherwise a write may fail (its version does not match, there is *)
(* nothing to remove) and the start of an ifVersion block may.  A start     *)
(* block is entered whether its condition holds or not.                     *)
Execute(w) ==
  LET s == worker[w].at
      validated == worker[w].depth = worker[w].validated
  IN \E failed \in BOOLEAN :
  /\ Fetching(w) /\ Instruction(w) \in {"write", "callback", "start"}
  /\ ~validated => failed
  /\ validated /\ failed => kind[s] = "write" \/ (kind[s] = "start" /\ s \in ownPromise)
  /\ worker' = [worker EXCEPT ![w].pc = "mark", ![w].read = word[s], ![w].failed = failed,
                  ![w].depth = IF kind[s] = "start" THEN @ + 1 ELSE @,
                  ![w].validated = IF kind[s] = "start" /\ ~failed THEN @ + 1 ELSE @,
                  ![w].finishedProgress = IF kind[s] = "callback" /\ ~failed THEN FALSE ELSE @]
  /\ log' = Append(log, s)
  /\ txnOf' = [txnOf EXCEPT ![s] = w]
  /\ UNCHANGED <<shared, outcome, JavaScriptVars>>

(* Report the result in the word: atomically for the worker's first         *)
(* instruction, whose word the previous worker may still mark, and with a   *)
(* plain read and write for the others.                                     *)
MarkPlainly(w) ==                                                     \* mutant
  LET me == worker[w] IN
  /\ me.pc = "mark"
  /\ word' = [word EXCEPT ![me.at] = me.read \cup {"FINISHED"}]
  /\ worker' = [worker EXCEPT ![w].pc = "fetch", ![w].at = @ + 1]
  /\ UNCHANGED <<lock, history, JavaScriptVars>>
Mark(w) ==
  LET me == worker[w]
      result == IF me.failed THEN {"FINISHED", "FAILED_CONDITION"} ELSE {"FINISHED"}
  IN
  /\ me.pc = "mark"
  /\ word' = [word EXCEPT ![me.at] = (IF me.first THEN @ ELSE me.read) \cup result]
  /\ worker' = [worker EXCEPT ![w].pc = "fetch", ![w].at = @ + 1, ![w].first = FALSE]
  /\ UNCHANGED <<lock, history, JavaScriptVars>>

(* No instruction yet: remember the word for the compare-and-swap.          *)
FetchEmpty(w) ==
  /\ Fetching(w) /\ Instruction(w) = "none"
  /\ worker' = [worker EXCEPT ![w].pc = "empty", ![w].read = word[worker[w].at]]
  /\ UNCHANGED <<shared, history, JavaScriptVars>>

Overwrites(w) == TRUE                                                 \* mutant
Unchanged(w) == word[worker[w].at] = worker[w].read     \* the CAS succeeds
StaysForCallbacks(w) == ~worker[w].finishedProgress                   \* mutant
StaysForBlocks(w) == worker[w].depth > 0                              \* mutant
MustStay(w) == ~worker[w].finishedProgress \/ worker[w].depth > 0

(* The word changed since it was read: fetch again.                         *)
Refetch(w) ==
  /\ worker[w].pc = "empty" /\ ~Unchanged(w)
  /\ worker' = [worker EXCEPT ![w].pc = "fetch"]
  /\ UNCHANGED <<shared, history, JavaScriptVars>>

(* Inside a block, or with user callbacks outstanding: mark the word and    *)
(* wait, which releases writingLock.                                        *)
StartWait(w) ==
  /\ worker[w].pc = "empty" /\ Unchanged(w) /\ MustStay(w)
  /\ word' = [word EXCEPT ![worker[w].at] = {"WAITING"}]
  /\ lock' = 0
  /\ worker' = [worker EXCEPT ![w].pc = "wait"]
  /\ UNCHANGED <<history, JavaScriptVars>>

(* WaitForCallbacks polls, so it sees the change even if no signal arrives. *)
WakeUnlocked(w) ==                                                    \* mutant
  /\ worker[w].pc = "wait"
  /\ \/ Has(word[worker[w].at], "INSTR")
     \/ worker[w].depth = 0 /\ worker[w].finishedProgress
  /\ lock' = w
  /\ worker' = [worker EXCEPT ![w].pc = "fetch"]
  /\ UNCHANGED <<word, history, JavaScriptVars>>
Wake(w) ==
  /\ worker[w].pc = "wait"
  /\ lock = 0
  /\ \/ Has(word[worker[w].at], "INSTR")
     \/ worker[w].depth = 0 /\ worker[w].finishedProgress
  /\ lock' = w
  /\ worker' = [worker EXCEPT ![w].pc = "fetch"]
  /\ UNCHANGED <<word, history, JavaScriptVars>>

(* Nothing left to do: end the transaction before this slot.                *)
DelimitAndUnlock(w) ==                                                \* mutant
  /\ worker[w].pc = "empty" /\ Unchanged(w) /\ ~MustStay(w)
  /\ word' = [word EXCEPT ![worker[w].at] = {"DELIMITER"}]
  /\ lock' = 0
  /\ worker' = [worker EXCEPT ![w].pc = "commit"]
  /\ UNCHANGED <<history, JavaScriptVars>>
Delimit(w) ==
  /\ worker[w].pc = "empty" /\ Unchanged(w) /\ ~MustStay(w)
  /\ word' = [word EXCEPT ![worker[w].at] = {"DELIMITER"}]
  /\ worker' = [worker EXCEPT ![w].pc = "commit"]
  /\ UNCHANGED <<lock, history, JavaScriptVars>>

(* mdbx_txn_commit, then release writingLock.                               *)
Commit(w) ==
  \E result \in {"committed", "failed"} :
  /\ worker[w].pc = "commit"
  /\ result = "failed" => CommitMayFail
  /\ outcome' = [outcome EXCEPT ![w] = result]
  /\ lock' = 0
  /\ worker' = [worker EXCEPT ![w].pc = "publish"]
  /\ UNCHANGED <<word, log, txnOf, JavaScriptVars>>

(* Tell JavaScript through the delimited word, after the lock is gone.      *)
Publish(w) ==
  LET bit == IF outcome[w] = "failed" THEN "TXN_FAILED" ELSE "COMMITTED" IN
  /\ worker[w].pc = "publish"
  /\ word' = [word EXCEPT ![worker[w].at] = @ \cup {bit}]
  /\ worker' = [worker EXCEPT ![w].pc = "complete"]
  /\ UNCHANGED <<lock, history, JavaScriptVars>>

-----------------------------------------------------------------------------
Call ==
  \/ "put" \in Calls /\ Write("write", FALSE)
  \/ "putIf" \in Calls /\ Write("write", TRUE)       \* with ifVersion or a callback
  \/ "transaction" \in Calls /\ Write("callback", FALSE)
  \/ "batch" \in Calls /\ OpenBlock(FALSE)
  \/ "ifVersion" \in Calls /\ OpenBlock(TRUE)

JavaScriptStep == \/ Load \/ Store \/ Or \/ Seen \/ ReturnPromise
                  \/ AdvanceUnwritten \/ SettleTxn \/ RunCallbacks

Event == CloseBlock \/ EndTurn \/ CommitTimer
         \/ \E w \in Slots : Completion(w) \/ Progress(w)

WorkerStep(w) == \/ Begin(w) \/ FollowPointer(w) \/ LeaveBlock(w) \/ Execute(w)
                 \/ Mark(w) \/ FetchEmpty(w) \/ Refetch(w) \/ StartWait(w)
                 \/ Wake(w) \/ Delimit(w) \/ Commit(w) \/ Publish(w)

(* Nothing is under way: only a new call of the program can change that.    *)
Quiescent ==
  /\ todo = <<>> /\ blocks = <<>> /\ turn = 0 /\ ~enqueuedCommit
  /\ \A w \in Slots : worker[w].pc \in {"none", "done"}
  /\ UNCHANGED vars

Next == \/ Call \/ Event \/ JavaScriptStep
        \/ (\E w \in Slots : WorkerStep(w))
        \/ Quiescent

(* The event loop runs what is queued and the workers are scheduled; the    *)
(* program need not call anything, but the function it passed to batch or   *)
(* ifVersion returns.                                                       *)
Fairness == /\ WF_vars(JavaScriptStep)
            /\ WF_vars(CloseBlock) /\ WF_vars(EndTurn) /\ WF_vars(CommitTimer)
            /\ \A w \in Slots : /\ WF_vars(Completion(w)) /\ WF_vars(Progress(w))
                                /\ WF_vars(WorkerStep(w))

Spec == Init /\ [][Next]_vars /\ Fairness

-----------------------------------------------------------------------------
(* Properties.                                                              *)

(* Every variable holds a value of its kind.                                *)
TypeShared == word \in [Positions -> SUBSET Bits] /\ lock \in {0, JS} \cup Slots
TypePlacing ==
  /\ position \in Positions /\ buffers \in 0..MaxBuffers
  /\ kind \in [Slots -> Kinds]
  /\ writtenBatchDepth \in [Slots -> Nat]
  /\ ownPromise \subseteq Slots
  /\ group \in [Slots -> {0} \cup Slots]
TypeBatching ==
  /\ batchDepth \in Nat /\ blocks \in Seq(Slots) /\ turn \in {0} \cup Slots
  /\ writeBatchStart \in {0} \cup Slots /\ outstandingBatchCount \in Nat
TypeStarting ==
  /\ startAddress \in {0} \cup Slots /\ enqueuedCommit \in BOOLEAN
  /\ outstandingWriteCount \in Int
TypeResolving ==
  /\ resolutions \in Seq(Slots) /\ unwritten \in Nat \ {0} /\ uncommitted \in Nat
  /\ flag \in [Slots -> BOOLEAN]
TypeTxnChain ==
  /\ txnResolution \in {0} \cup Positions
  /\ nextTxn \in [Positions -> {0} \cup Positions] /\ isTxn \subseteq Positions
TypeCallbacks ==
  /\ callbacks \in [Slots -> {0} \cup Slots] /\ nextTxnCallbacks \subseteq Slots
  /\ ran \in [Slots -> {0} \cup Slots]
TypePromises ==
  /\ commitPromise \in {0} \cup Slots /\ hasResolver \subseteq Slots
  /\ promise \in [Slots -> 0..Resolved]
  /\ settled \in [Slots -> Settlements]
TypeTodo == todo \in Seq(JSSteps)
TypeWorker == worker \in [Slots -> WorkerRecords]
TypeHistory ==
  /\ log \in Seq(Slots) /\ txnOf \in [Slots -> {0} \cup Slots]
  /\ outcome \in [Slots -> {"none", "committed", "failed"}]
TypeOK == /\ TypeShared /\ TypePlacing /\ TypeBatching /\ TypeStarting /\ TypeResolving
          /\ TypeTxnChain /\ TypeCallbacks /\ TypePromises /\ TypeTodo /\ TypeWorker
          /\ TypeHistory

(* What became of the transaction the write in slot s ran in.               *)
Outcome(s) == IF txnOf[s] = 0 THEN "none" ELSE outcome[txnOf[s]]
(* What the promise returned for the write in slot s says.                  *)
Answer(s) == IF promise[s] \in Slots THEN settled[promise[s]] ELSE "pending"

(* A mdbx transaction is not thread-safe: the workers, and the JavaScript   *)
(* thread that runs user callbacks in a worker's transaction, use the open  *)
(* one in turns, although a worker that waits gives up writingLock.         *)
InTxn(w) == worker[w].pc \in {"fetch", "mark", "empty", "commit"}
TxnUsedByOne ==
  /\ \A v, w \in Slots : InTxn(v) /\ InTxn(w) => v = w
  /\ Doing("callbacks") => ~\E w \in Slots : InTxn(w)

(* The worker processes the instructions in the order they were submitted,  *)
(* each exactly once, and leaves none out, whatever the races on the words. *)
(* (DoWrites against writeInstructions.)                                    *)
InOrder ==
  \A i \in DOMAIN log : i <= Len(resolutions) /\ log[i] = resolutions[i]

(* The writes of an event turn, and those of a user's batch or ifVersion    *)
(* block, are part of one transaction: no worker ends its transaction       *)
(* inside a block.  (README: eventTurnBatching, batch.)                     *)
BlocksAreAtomic ==
  \A r, s \in Slots :
    txnOf[r] # 0 /\ txnOf[s] # 0 /\ group[r] = group[s] => txnOf[r] = txnOf[s]

(* What a promise says of the commit is true of the transaction its write   *)
(* ran in: fulfilled only if it was committed, rejected only if it failed.  *)
SettlementIsTrue ==
  \A s \in Slots :
    /\ Answer(s) \in {"true", "false"} => Outcome(s) = "committed"
    /\ Answer(s) = "rejected" => Outcome(s) = "failed"

(* outstandingWriteCount, which drives backpressure and the start of        *)
(* transactions, counts the writes that were stored and not yet resolved.   *)
OutstandingIsExact ==
  LET Counted(s) == word[s] \cap {"INSTR"} # {} /\
        ~\E i \in DOMAIN todo : todo[i].slot = s /\ todo[i].op = "seen"
  IN outstandingWriteCount =
       Cardinality({i \in DOMAIN resolutions : Counted(resolutions[i])}) - (unwritten - 1)

(* A user callback runs in the transaction its own instruction is part of.  *)
CallbackInItsTxn == \A s \in Slots : ran[s] # 0 => txnOf[s] = ran[s]

(* When the promise of transaction() is fulfilled, its callback has run.    *)
(* (README: "will resolve once its transaction has been committed".)        *)
CallbackBeforeAnswer ==
  \A s \in Slots :
    kind[s] = "callback" /\ (Answer(s) \in {"true", "false"} \/ promise[s] = Resolved)
      => ran[s] # 0

(* A promise is fulfilled with the outcome of the write it was returned     *)
(* for.  (README: "`true` if the `put` was successful"; of remove: "a       *)
(* promise indicating the success of the operation".)                       *)
AnswersItsOwnWrite ==
  \A s \in Slots : Answer(s) = "true" => ~flag[s]

(* A settled promise stays as it is, and a commit is never undone.          *)
SettledOnce ==
  [][\A s \in Slots : /\ settled[s] # "pending" => settled'[s] = settled[s]
                      /\ outcome[s] # "none" => outcome'[s] = outcome[s]]_vars

(* Every promise the program gets for an asynchronous write settles.        *)
EventuallySettled ==
  \A s \in Slots : promise[s] \in Slots ~> Answer(s) # "pending"

(* What TypeOK and TxnUsedByOne rest on: the slots reserved for the ends of *)
(* the open blocks, what batchDepth counts, that no instruction is placed   *)
(* behind the last slot, and who holds writingLock.                         *)
RoomForEnds == position + Len(blocks) + (IF turn # 0 THEN 1 ELSE 0) <= NSlots + 1
DepthOfBlocks == batchDepth = 2 * Len(blocks) + (IF turn # 0 THEN 1 ELSE 0)
NothingPastEnd == /\ "INSTR" \notin word[NSlots + 1]
                  /\ \A w \in Slots : worker[w].pc = "mark" => worker[w].at \in Slots
LockHolder == /\ \A w \in Slots : InTxn(w) => lock = w
              /\ \A i \in DOMAIN todo :
                   todo[i].op = "callbacks" => lock = JS /\ i = Len(todo)
TypeInv == TypeOK /\ RoomForEnds /\ DepthOfBlocks /\ NothingPastEnd

(* The inductive invariant: a worker inside its transaction, or JavaScript  *)
(* about to run user callbacks, holds writingLock (Write, DoWrites,         *)
(* WaitForCallbacks, HandleProgressCallback), and the types.                *)
Inv == TypeInv /\ LockHolder

(* The write path implements CommitLog: to submit is to reserve a slot, the *)
(* event of a transaction is its commit.                                    *)
Log == INSTANCE CommitLog WITH
  Ops <- Slots,
  status <- [s \in Slots |->
               IF kind[s] \notin {"write", "callback", "start"} THEN "none"
               ELSE IF Outcome(s) = "none" THEN "queued" ELSE Outcome(s)],
  answered <- {s \in Slots : Answer(s) # "pending"}

(* Every step of the slot protocol is a step CommitLog allows, or none.     *)
ImplementsCommitLog == Log!Init /\ [][Log!Next]_(Log!vars)

=============================================================================
