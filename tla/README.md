# A TLA+ development of lmdbx-js

lmdbx-js is a key-value store for Node.js on top of libmdbx. Its own logic is
the part between the two: an asynchronous write path in which JavaScript and a
thread-pool worker share a buffer of instructions and synchronise through
status words, the hand-over of one write transaction between threads, and the
registry through which the threads of a process share an environment. These
modules state what that part promises, check it with TLC on small instances,
and prove some of it with TLAPS for every value of the constants.

## 1. The system

| Component | Code | State | Operations |
|---|---|---|---|
| Write path, JavaScript side | `write.js` | instruction buffers, `batchDepth`, `writeBatchStart`, `startAddress`, `enqueuedCommit`, the list of resolutions with its cursors (`unwritten-`, `uncommitted-`, `txnResolution`), `commitPromise`, `nextTxnCallbacks` | `put`, `remove`, `clearAsync`, `batch`, `ifVersion`, `transaction`; event-loop callbacks that end a turn, start and finish a transaction |
| Write worker | `src/writer.cpp` | the mdbx transaction, position in the buffer, `conditionDepth`, `validatedDepth`, `finishedProgress`, `interruptionStatus` | `Write`, `DoWrites`, `WaitForCallbacks`, `AcquireTxn`, `UnlockTxn`, `HandleProgressCallback`, `HandleOKCallback` |
| Synchronous transactions | `src/env.cpp` 500-634, `src/txn.cpp`, `write.js` 677-715 | `writeTxn` (a stack of `TxnTracked`), `currentWriteTxn`, `writingLock`, `writingCond` | `beginTxn`, `commitTxn`, `abortTxn`, `transactionSync`, `childTransaction` |
| Registry of environments | `src/env.cpp` 1-345 | `envs` with counts, `envsLock`, cleanup hooks | `open`, `close`, cleanup at thread exit |
| Conditional writes | `src/writer.cpp` 161-307 | keys and versions in the transaction | `put`/`remove` with `ifVersion`, `noOverwrite`, blocks with a condition |
| Read transactions, ranges | `read.js`, `src/env.cpp` 144-160 | `readTxn`, `renewId`, cursor counts, the spare cursor | `get`, `getRange`, `resetReadTxn`, `renewReadTxn` |
| Cursors | `src/cursor.cpp` | position, end key, flags | `position`, `iterate`, `renew` |
| Compression slot | `src/compression.cpp`, `writer.cpp` 168-187 | status word of a value | compress on a worker, or on the write worker |
| Caching store | `caching.js` | cache entries, pinned or not | `get`, `put`, `remove`, `aftercommit` |
| Keys | `keys.js`, `src/ordered-binary.cpp` | the save buffer | `saveKey`, `writeKey` |
| Opening stores, bindings, vendored code | `index.js`, `src/dbi.cpp`, `src/misc.cpp`, `dependencies/` | | configuration, glue, libmdbx, LZ4 |

How they interact. The JavaScript thread appends an instruction to a shared
buffer and stores its flags into the status word of its slot; that store is the
only message to the worker. A worker (a libuv task started by
`env.startWriting`) holds `writingLock` and an mdbx write transaction and runs
the instructions in order, ORing FINISHED and the result into each word. When
it finds an empty word it marks it by compare-and-swap: WAITING if it has to
stay (inside a block, or with user callbacks outstanding), DELIMITER if its
transaction ends here. After the commit it ORs COMMITTED or FAILED into the
delimited word. JavaScript learns of progress only by looking at the words
(`resolveWrites`), which it does every eighth write and whenever a worker calls
back. While a worker waits it gives up `writingLock`, and the JavaScript thread
may then use the open transaction to run user callbacks.

What is hard: both sides race on a status word, JavaScript sometimes with a
plain read and write; a transaction may end between any two writes; the report
of a commit comes after the lock is released, so the next transaction can be
ahead of it; blocks are nested and started late or early; promises are shared
between writes; buffers fill up anywhere. Every such place is listed with its
line in `PROJECT.json` under `hazards`, with the properties that cover it, or
the reason why none does.

What makes each component correct:

- *write path and worker*: instructions run once and in order; event turns and
  batches are atomic; the transaction is used by one thread at a time; a promise
  settles, once, after the transaction of its write is over, and tells the truth
  about it; a callback runs in its own transaction, before its promise is
  fulfilled;
- *synchronous transactions*: no deadlock, the lock is released by who took it,
  no operation runs in a transaction it does not belong to;
- *registry*: a path is open once per process, closed when its last user is gone
  and never before;
- *conditional writes*: blocks and conditions have the effect of the obvious
  sequential reading;
- *reads and cursors*: a snapshot iterator sees one snapshot, a range returns the
  keys of the range, read transactions are neither leaked nor aborted in use;
- *compression slot*: a value is compressed once and before it is stored;
- *caching*: once nothing is in flight, the cache agrees with the database.

## 2. Modules

| Module | What it is |
|---|---|
| `WriteQueue` | the write path: JavaScript, the workers and the shared words |
| `CommitLog` | what the write path promises: groups of writes, decided atomically and in order |
| `MCWriteQueue` | `WriteQueue` for TLC |
| `WriteQueueOrder` | why the workers process every instruction once and in order: the inductive invariant `OrderInv` |
| `WriteQueueSettlement` | why promises settle once and in their group: the inductive invariant `WritePathInv`, on top of `OrderInv` |
| `WriteQueueCallbacks` | why user callbacks run in their own transaction: the inductive invariant `CallbackInv`, on top of `OrderInv` |
| `WriteQueueAnswers` | when answers are true, and why callbacks run before them: the inductive invariants `AnswerInv` and `FlatDepth`, on top of the others |
| `WriteQueueProofs`, `WriteQueueSettlementProofs` | theorems and proofs |
| `EnvRegistry`, `MCEnvRegistry` | the registry of environments, and its instances for TLC |
| `EnvRegistryProofs` | theorems and proofs |
| `CachingStore`, `MCCachingStore` | the cache in front of the database, and what makes it right |
| `CachingStoreProofs` | theorems and proofs |
| `MCRegistryAndCache` | the registry and the caching store for TLC, side by side |
| `TxnHandoff`, `MCTxnHandoff` | the hand-over of the one write transaction between workers and JavaScript: lock, condition variable, interruption, compression slots; its programs for TLC |
| `TxnExchange` | why the worker and JavaScript hand the transaction over cleanly: the inductive invariant `ExchangeInv` |
| `TxnContents` | what the transactions contain, and why: the parts of an invariant beside it |
| `TxnHandoffProofs`, `TxnContentsProofs` | theorems and proofs: the exchange; what transactions contain |
| `ReadTxns`, `MCReadTxns` | read transactions, their reuse and the cursors of iterators |
| `ReadTxnsProofs` | theorems and proofs |
| `ConditionalWrites` | `DoWrites` on keys and versions |
| `ConditionLog` | what conditions and blocks promise |
| `LogProofs` | theorems and proofs about the two logs, `CommitLog` and `ConditionLog` |
| `CursorRange` | a range query on a cursor, against a definition of its result |
| `MCTransactions` | the four parts above for TLC, side by side |

### WriteQueue and the code

A slot is an instruction's place in the buffers, numbered in the order of
submission; slots stand for addresses, and `buffers` counts how often a buffer
ended in a pointer. `word[s]` is the status word as a set of bits, with `INSTR`
for "the flags have been stored". `resolutions` is the linked list of
resolutions as a sequence of slots; end-block and pointer instructions have
none. A worker is named by the slot it starts at.

A JavaScript call runs to its end before any other JavaScript, but the workers
run during it, so it is cut where the code touches shared memory: `todo` holds
the steps still to do (`load`, `store` or `or` of the word; `seen`, what follows
in the closure of `writeInstructions`; `promise`, its return; `unwritten` and
`committed`, the two loops of `resolveWrites`; `callbacks`). The worker's program
counter has a state between any two of its accesses to a word: `fetch`, `mark`,
`empty` (about to compare-and-swap), `wait`, `commit`, `publish`, `complete`.

| Action | Code |
|---|---|
| `Write`, `OpenBlock`, `CloseBlock`, `EndTurn` | `writeInstructions` up to the closure, `ifVersion`/`batch` before and after the user's function, the `setImmediate` callback of an event turn |
| `Load`, `Store`, `Or`, `Seen`, `ReturnPromise` | the closure that `writeInstructions` returns, and `atomicStatus` |
| `AdvanceUnwritten`, `SettleTxn` | one turn of each loop of `resolveWrites` (with `resolveCommit`, `rejectCommit`) |
| `CommitTimer` | the delayed `startWriting` of an unbatched write |
| `Completion`, `Progress`, `RunCallbacks` | `HandleOKCallback`/`HandleErrorCallback`, `HandleProgressCallback`, `executeTxnCallbacks` |
| `Begin` ... `Delimit` | `Write` up to and inside `DoWrites`, one action per case |
| `Commit`, `Publish` | the rest of `Write` |

History variables (`group`, `log`, `txnOf`, `ran`, `outcome`) record what
happened and no guard reads them, except that `Publish` reads in `outcome` what
the worker has in its local `rc`.

Abstractions. A write instruction succeeds or fails nondeterministically where
the code can let it fail (`Execute`), since keys and versions are left out.
`WaitForCallbacks` polls with growing delays, so signals, which only shorten the
wait, are left out: a waiting worker may look at any time. The values of one
write are below 4 KB, so each counts once against `batchStartThreshold`.
Callbacks do not await and are not child transactions. `transactionSync` and the
interruption it causes, strict order, and calls made inside a transaction are in
`TxnHandoff`. Left out altogether: flush promises, the sleep of the backpressure
(it changes nothing but time), `beforecommit`, a failing `mdbx_txn_begin`, error
codes that stop the worker, and garbage collection of buffers.

### CommitLog

The abstract specification has no slots, workers or locks: a write is submitted
as part of a group, a transaction decides all waiting writes up to some group,
and a write is answered once it is decided. `WriteQueue` implements it
(`ImplementsCommitLog`) under the mapping at the end of the module: a write is
*queued* when its slot is reserved and gets the outcome of the transaction it
ran in; the group is the outermost block it was written in.

### EnvRegistry and the code

`envs` is the vector of `env_path_t`; environments are numbers in the order of
`mdbx_env_create` (so the address of a closed one is never used again), `mdbx`
their state, `handle` the pointer in each `EnvWrap`, `hooks` the wrappers that
registered a cleanup hook. `OpenShared`, `OpenFirst`, `OpenFails` and
`MaxReadersFails` are the ways `open` can go (the last one returns with
`envsLock` locked, after which nobody can open or close), `CloseEnv` is
`closeEnv`, called by `Close` and, through the hook, by `Exit`. `open` is called
once per wrapper, as `index.js` does.

### TxnHandoff and the code

`WriteQueue` says what is written into the shared words and when a promise
settles; `TxnHandoff` says who is in the mdbx transaction. It has one empty word
at the end of the queue (`mark`) instead of a word per slot, and in exchange the
lock, the condition variable and the transactions in full. A behaviour makes the
calls of one of `Programs`; a call is known by its number and a transaction is
the sequence of the writes made in it, so that `log`, the committed transactions,
shows what was lost, doubled, torn or reordered.

`asleep` is the set of threads in `pthread_cond_wait` or `cond_timedwait`.
`Signalled` wakes any one of them; a woken thread goes on when `lock` is free. A
timed wait may end at any time. `mdbx.frames` is the open write transaction and
its children, innermost last; `mdbx.id` tells two transactions apart, so that the
pointers `worker[w].txn` and `writeTxn` can be compared with it.

| Action | Code |
|---|---|
| `Submit`, `Notify`, `StartWriting`, `Complete` | `writeInstructions` and its closure, `env.write(0)`, `env.startWriting`, `HandleOKCallback` |
| `Progress`, `AwaitTxn`, `RunCallbacks` | `HandleProgressCallback`: before the lock, its wait, and from there on |
| `CallSync`, `Acquire`, `Interrupted`, `BeginOwn`, `Join` | `transactionSync`, `putSync`; `beginTxn` with `AcquireTxn` up to its wait, after its wait, and the two ways on |
| `WriteOwn`, `Nested`, `Finish` | the callback and a nested `transactionSync`; `commitTxn`, `abortTxn`, `UnlockTxn` |
| `Lock`, `Begin`, `Commit` | `Write` |
| `Put` ... `EndBlock`, `UserCallback`, `Strict`, `MarkWaiting`, `MarkDelimiter` | the cases of `DoWrites` |
| `WaitForCallbacks`, `WaitAgain`, `Resume`, `Interrupt` | `WaitForCallbacks` |
| `PutRaw`, `Exchange`, `CompressSelf`, `CompressionWait` | the write worker at a value that is to be compressed |
| `TakeSlot` ... `SignalWriter` | `CompressionWorker::Execute`, `compressInstruction` |

JavaScript is cut where it touches the lock, the condition variable or the
transaction; what lies between runs in one action, which is sound because the
other threads share nothing else with it. A worker that runs holds the lock, so
its steps could be larger; they are one instruction each because JavaScript
appends to the queue without the lock. A block is written without a pause (the
function passed to `batch` runs to its end), so the event loop delivers nothing
while one is open; the worker and the compression do go on.

Left out: callbacks that await, errors of mdbx and of LZ4, writemap mode,
spurious wake-ups of condition variables, and the delayed start of a worker
(`StartWriting` may happen at any time after the call).

### ReadTxns and the code

`reader` holds what `read.js` keeps (`readTxn`, `readTxnRenewed` as `renewed`,
the counts on each transaction, `availableCursor`, `cursorTxn`), what `env.cpp`
keeps (`currentReadTxn`, its own `readTxnRenewed` as `nativeRenewed`) and mdbx's
side: the snapshot of each transaction and the transaction and position of each
cursor. The helpers carry the names of the functions they model (`Renewed`,
`GetReadTxn`, `TakeCursor` for `resetCursor`, `FinishCursor`, `ResetReadTxn`) and
are functions of `reader`, because JavaScript calls several in one step.
`Settle` is `resolveCommit`, `Reset` the `setImmediate` of `renewReadTxn`. A
cursor that read an entry in another snapshot than its iterator's first one
leaves `stale` in the iterator; no guard reads it.

Left out: reads inside a write transaction (they use that transaction), `next()`
after the end of an iterator (it gives its cursor back twice), several databases
of one environment, each with a kept cursor of its own, and `close()`.

### ConditionalWrites, ConditionLog and the code

An action is one turn of the loop of `DoWrites`; `conditionDepth` and
`validatedDepth` are its variables, `db` maps a key to the version of its entry,
and `opened` is a history of the conditions of the open blocks. `ConditionLog`
has no counters: it keeps one truth value per open block, and an instruction has
effect when all of them and its own conditions hold. An entry is its version;
the bytes are left out (section 5).

### CursorRange and the code

`query` is the options of one call of `getRange` or one of its relatives, and
the entries are the pairs of a key and a value, ordered as in a dupSort database
(a database without it is the case of one value per key). `Position` is
`doPosition` up to its loops, `SkipOne` a turn of the loop over the offset,
`CountOne` of the loop that counts, `ReturnOne` a call of `next()`. The operators
over the entries are what `mdbx_cursor_get` does. The result is compared with
`Asked`, which says in terms of sets what the query asks for.

### CachingStore and the code

The part of `caching.js` that can go wrong is the order of things: the cache
changes at the call, the database when a worker commits, and the callback that
puts the two together runs when JavaScript learns of it. The module therefore
has the worker (`Execute`, `EndTxn`), the read transaction (`snapshot`) and the
resolution of writes (`ResolveLater`, and inside `Queue`) as far as they bear on
entries. `writes` is the list of resolutions, `executed` is where
`unwrittenResolution` stands when a resolution looks, `Uncommitted` is
`uncommittedResolution`, `resolved` counts the transactions that are settled.

| Action | Code |
|---|---|
| `Put`, `RemoveAsync`, `PutSync`, `RemoveSync`, `Get` | the methods of `CachingStore` with what they call |
| `ClearAsync`, `ClearSync` | the methods of the store, which `CachingStore` does not override |
| `Sync`, in the synchronous calls | `beginTxn(0)` to `commitTxn` (`env.cpp:535-612`) |
| `PutAborted` | a put in a `transactionSync` that returns `ABORT`: in a transaction of its own, or a child of the worker's |
| `ResolveLater`, `Reset` | `resolveWrites(true)` with the `aftercommit` callback (`AfterCommit`); `resetReadTxn` from a timer or microtask |
| `Evict` | the package `weak-lru-cache`, external: what is not pinned may go |

A synchronous call has two ways. `putSync`, `removeSync` and `clearSync` pass
`{ abortable: false }` where `transactionSync` takes flags, so `beginTxn` gets 0:
`AcquireTxn` does not interrupt a worker that waits with its transaction open, but
returns that transaction (`writer.cpp:80-86`), the write becomes part of it, and
`commitTxn` commits nothing (`env.cpp:600`). `Sync` then changes `working` but not
`db`, and `joined` collects the keys until the worker's transaction ends. With no
transaction open, or one in which nothing was done (`NothingDone`), the call may
also have a transaction of its own, which commits at once. `transaction()` is left
out: the worker commits for a synchronous transaction only where it waits for a
callback (`writer.cpp:223-226`, `277`), so nothing here is interrupted.

`spoilt` is a history variable: the keys whose entry one of the exceptions of
section 5 left wrong; a key leaves it when its entry is replaced. Instructions
without a key are left out: they only decide which write is the eighth (so
`Queue` may resolve at any) and whether one of them comes before the first write
that is not executed (`used`). A call is one step; with event-turn batching, the
default, the transaction of a write cannot end within its own call. Values are
objects, as `get` caches nothing else. Every end of a transaction is known in
order; that one can be lost (`LostTxn`) is left to `WriteQueue`.

### MCTransactions

`TxnHandoff`, `ReadTxns`, `ConditionalWrites` and `CursorRange` share no state:
a commit is one step for `ReadTxns`, whoever made it, and a cursor walks in one
snapshot. The instance therefore runs one of them in each behaviour, chosen by
`component`; the others stay in an initial state. A component's properties
depend only on its own variables. `MCRegistryAndCache` does the same with
`EnvRegistry` and `CachingStore`.

## 3. Runs

| Run | Instance | What it shows |
|---|---|---|
| `Batched` | 7 slots, a buffer that may fill up once, event-turn batching, early start, `put` and `ifVersion`, commits may fail | `WritePathInv`, `OutstandingIsExact`, `SettledOnce`, `ImplementsCommitLog` |
| `Unbatched` | 4 slots, no batching, `put` and `batch`, early start, commits succeed | `InOrder`, `BlocksAreAtomic`, `SettlementIsTrue`, `EventuallySettled` |
| `Callbacks` | 6 slots, batching, conditional `put` and `transaction`, commits may fail | `TxnUsedByOne`, `CallbackInItsTxn`, `CallbackBeforeAnswer`, `SettlementIsTrue`, `EventuallySettled` |
| `RegistryAndCache` | registry: 3 wrappers, 2 paths, failing opens; cache: 2 keys, every kind of call, 3 calls, commits may fail; symmetry | `TypeOK`, `RegisteredAreOpen`, `NothingLeftOpen`, `ClosedForGood`; `CachingTypeOK`, `CacheAgreesUnlessSpoilt`, `PinnedIsInFlight` |
| `Transactions` | hand-over: all balanced programs of 3 calls and 8 longer ones; reads: 2 commits, 3 iterators; conditions: 2 keys, 2 versions, 5 instructions; ranges: every query over 3 keys with up to 2 values | `TypeOK`, `ExchangeInv`, `HandlesAreLive`, `BeginNeverBlocks`, `StoredOnce`, `SyncIsAtomic`, `BlocksAreWhole`, `OrderIsKept`, `CompressedOnce`, `SyncReturns`, `QueueDrains`; `ReadsTypeOK`, `CountsAreExact`, `NoReaderLeaked`, `InUseIsOpen`, `CursorsAreOwn`, `ReadsAreCurrent`; `CondInv`, `ImplementsConditionLog`; `RangeIsExact` |
| `LateSignal` | one program: `transaction()`, a compressed `put`, `transactionSync()` | violates `SyncReturns`, section 5 |
| `SnapshotIterator` | 2 commits, 2 iterators | violates `SnapshotIsStable`, section 5 |
| `PutAgain` | 2 keys, 3 puts | violates `PinnedUntilCommitted`, section 5 |
| `LostTxn`, `OwnOutcome`, `CallbackInBlock`, `EnvShared` | | each violates the one property it checks, see section 5 |

Bounds. `NSlots` bounds the instructions, the end-blocks and pointers included.
Races on a word involve the worker that leaves a slot, the worker that starts at
it and JavaScript, so two transactions that touch and a third write behind them
show them; with batching a turn takes three slots (start, write, end), so 6 or 7
slots hold two turns and a nested block or a pointer, without batching 4 slots
hold four transactions, or a block and a write before or behind it. `MaxBuffers` is the number of times a buffer may fill up;
it fills at any write, so one is enough to meet every place. `ResolveEvery` is 8
in the code (`outstandingWriteCount & 7`); the passing runs lower it so that
`resolveWrites` also runs in the middle of a call, `LostTxn`, `OwnOutcome` and
`CallbackInBlock` keep 8. The thresholds are lowered so that they are reached.
The code replaces a threshold of 0 by its default (55-56); `BatchStartThreshold
= 0` in the instances is a write whose value counts more than the threshold.

`SettlementIsTrue` is checked where at most two transactions can be waiting for
JavaScript (`Callbacks`) or none fails (`Unbatched`): with more the code breaks
it (`LostTxn`). Deadlock is checked in every `WriteQueue` run: `Quiescent`
stutters only when nothing is under way, so a state in which promises are
pending and nobody can move is an error. The registry simply stops when every
thread has exited, a caching store when the calls are used up.

What `ImplementsCommitLog` gives in `Batched`, that groups are atomic and that no
promise settles before its transaction is over, are theorems of `CommitLog` and
no invariants of the run. A buffer that fills up is met in `Batched` only
(`MaxBuffers` is 0 in the other runs), by `WritePathInv`, which contains `InOrder`,
and by `ImplementsCommitLog`; that promises then settle at last is not checked.
A block whose start is stored late, with writes in it, is met in `Callbacks` and
in the proofs. `WritePathInv` contains `Inv`, `InOrder` and the
inductive invariants of section 4; a run that checks it shows that what the proofs
rest on holds on the instance.

Bounds of the cache. What is cached of one key depends on the others only through
the walk of the callback, which needs two: the one that is resolved and the one
it reaches too far. A wrong entry needs a write that is resolved, one that
overtakes, joins or follows it, and a read between them, so three writes; reads,
evictions and resolutions are not bounded. The theorems of section 4 hold without
bounds.

Bounds of `Transactions`. A hand-over involves what the worker waits for (a
block, a callback, a compression), what takes the transaction (a callback, a
synchronous call) and a call behind it, hence three calls; the longer programs
have two synchronous calls after each other, callbacks of two kinds around one,
and a synchronous call inside, before and after a block. `Entangled` programs,
with a compressed value, a callback and a synchronous transaction, are left to
`LateSignal`: the code fails there. Two compressed values with a synchronous
call and a compressed value and a callback in a block remain. For reads, one
commit after the first separates old from new, and three iterators are the two
that share a transaction and one that takes the cursor they left. Five
instructions open two blocks, write in the inner one, end it and write in the
outer one. Three keys put a start or an end before, at, between and behind the
entries; two values per key separate keys from entries.

`RangeIsExact` names in `ExceptedRange` and `ExceptedCount` the queries of
databases with several values per key that the code answers differently
(section 5); without these names the invariant is false.

Fairness. The event loop runs the tasks that are queued (`EndTurn`,
`CommitTimer`, `Completion`, `Progress`) and JavaScript goes on with the call it
is in; the thread pool schedules every worker, and `WaitForCallbacks` wakes up
by itself (`WorkerStep`); the function passed to `batch` or `ifVersion` returns
(`CloseBlock`). Weak fairness is enough for each: a worker that waits for
`writingLock` could be overtaken, but only by another worker with work of its
own, and there are finitely many. Nothing is assumed of the program's calls.
`TxnHandoff` assumes the same of the event loop (`EventLoop`), of the workers
and of the compression workers (one weak fairness for each pool), and that a
block that was begun is ended. A thread that waits for the lock competes only
with threads that have finitely much to do, and a timed wait ends by itself;
nothing is assumed of signals, which go to any one waiting thread.

## 4. Proofs

`LogProofs` proves of `CommitLog`, for every set of writes, that groups are atomic and
decided in order and answers follow decisions (`LogIsSafe`, by an inductive
invariant that adds that groups are numbered in the order of submission), and
that decisions are final (`LogIsFinal`).

`WriteQueueProofs` proves, from `ConstantsAssumption` only (positive `NSlots`
and `ResolveEvery`, natural thresholds, any set of calls):

- `TypeCorrect`, `Spec => []TypeInv`. The types alone are not inductive. That
  `position` stays within the slots needs the room reserved for the ends of open
  blocks (`RoomForEnds`); that `batchDepth` stays natural needs what it counts
  (`DepthOfBlocks`); that a worker stays within the slots needs that no
  instruction lies behind the last one (`NothingPastEnd`).
- `InvCorrect`, `Spec => []Inv`, where `Inv` adds `LockHolder`: a worker inside
  its transaction holds `writingLock`, and so does JavaScript when user
  callbacks are the last step of its call.
- `TxnUsedByOneThread`, `Spec => []TxnUsedByOne`, which follows from `Inv`
  because the lock has one holder.

- `OrderCorrect`, `Spec => []OrderInv`, and from it `InstructionsInOrder`
  (`InOrder`) and `BlocksAtomic` (`BlocksAreAtomic`).

`OrderInv` says where the one token of the write path is. The right to go on is
in one place at a time (`OneToken`): in the DELIMITER of a word that holds no
instruction, in the status with that DELIMITER that JavaScript just read, in
`startAddress`, or with a worker from its launch to the end of its transaction.
Wherever it is, the instructions before that slot are the ones that were
processed (`AtFrontier`, `WorkersKnow`), which gives the order. It needs that
every slot is written once (`FreshSlots`, `StepsOK`) and that an end never falls
inside a block (`Delimiters`), and that needs the placement of blocks: what is open
(`OpenBlocks`, `Nested`), and that the start of an outermost block is held back
until the block is written (`HeldBack`), so a worker that meets the start meets
no empty word at depth 0 before the end. Blocks are atomic because transactions
start where no block is open (`InTxns`) and the slots of a group have an open
block between them and its start (`Nested`).

`WriteQueueSettlementProofs` proves, from the same assumption:

- `SettleCorrect`, `Spec => []WritePathInv`;
- `SettlesOnce`, `Spec => SettledOnce`;
- `OutstandingCorrect`, `Spec => []OutstandingIsExact`;
- `CommitLogImplemented`, `Spec => ImplementsCommitLog` under `EventTurnBatching`,
  which is the default;
- `CallbacksInTheirTxn`, `Spec => []CallbackInItsTxn` when no call is an
  `ifVersion` block;
- `CallbacksBeforeAnswers`, `Spec => []CallbackBeforeAnswer` under
  `EventTurnBatching` when no call is a user block (`NoUserBlocks`);
- `SettlementsAreTrue`, `Spec /\ [][EndsAreKept]_vars => []SettlementIsTrue` under
  `EventTurnBatching`: as long as `queueCommitResolution` forgets no end.

A word says COMMITTED or FAILED only when every transaction before it is decided
(`OverWhenDone`; the next transaction cannot be ahead, because `Commit` decides
in the order of the token and `Publish` only reports, `Launches`, `EndsOutside`).
JavaScript queues the ends it sees in the order of the token (`Chain`: no queued
end is past the token, and each is outside of blocks). What was settled is what lies
before some queued end `c` whose transactions are decided, and `uncommitted` is
where `c` is in the list of resolutions (`SettledInOrder`). The next settlement
starts there, so no promise is settled twice, although `queueCommitResolution`
may have forgotten an end in between (`LostTxn`): that makes an answer false, not
double. `SettlesOnce` follows.

`OutstandingCorrect` needs no stronger invariant than this one: the slots that
are counted (`Taking`) gain one at each report of a stored word (`Seen`) and none
elsewhere, since no worker drops an instruction from a word (`WorkerWrites`), a
call takes empty slots (`CallTakesNothing`), and each store is followed by
exactly one report (`Promised`).

For the refinement, `TurnInv` adds what event turns give: the call under way, the
promise being shared and the instruction of every promise are in the group of the
turn that is open (`InTurn`). A call then submits its slot, with the start of the
turn if it opens one, to the last group (`CallSubmits`); a commit decides every
group before the end of its transaction, and splits none since it ends outside of
blocks (`CommitDecides`); every other step places and decides nothing, and what
becomes answered was decided (`StepImplementsLog`). The mapping is proved with
event-turn batching only. Without it a promise is shared by the writes of several
groups, and that it is not answered before the last of them is decided needs that
they are in one transaction, which the invariant does not say; TLC finds no
violation on instances of 4 slots.

For `CallbacksInTheirTxn`, `CallbackInv` follows a user callback from the call to
the moment it runs. It is in one of three places (`NoneLost`): kept with the
resolution of its instruction, or of the start of the event turn that the
instruction opened, which JavaScript did not pass yet (`Kept`); queued in
`nextTxnCallbacks` behind an instruction that was processed (`Queued`); or it
ran. A worker that meets the instruction of a callback waits before the end of
its transaction, until JavaScript ran what was queued (`Awaited`), and a worker
that waits has processed every callback JavaScript could run (`WaitsBehind`): such
a callback lies behind a processed instruction with no empty slot in between
(`Filled`), since what a call places is written before JavaScript does anything
else (`WrittenSoon`), so the worker went past it before it waited. JavaScript
runs callbacks only after it passed everything the worker processed
(`CaughtUp`), so it leaves none behind for a later transaction. The hypothesis is needed: in an
`ifVersion` block whose condition fails the worker skips the callback and does
not wait for it (section 5), and `Unconditional` says that there is no such
block. `Callbacks` checks the property for the calls the theorem is about.

`CallbacksBeforeAnswers` follows from it. What was answered was decided; a worker
whose transaction has a callback that did not run waits (`Awaited`), so it has not
decided (`AnsweredRan`). The other way to a fulfilled promise is one that is
returned already resolved, as the writes of a user block are; `FlatDepth` says
that without such blocks there is none. `CallbackInBlock` (section 5) is why the
hypothesis is needed.

`SettlementsAreTrue` compares what JavaScript settles with what the worker did. A
transaction has the instructions from its start to its end (`Spans`), and
JavaScript learns of each end before the next transaction can start (`EndsSeen`).
COMMITTED or FAILED in a word is the outcome of the transaction that ended there
(`Verdicts`). What JavaScript knows of is settled or is one of the two ends it
has queued (`KeptQueue`), so there is no end between the one it settles with and
the one it settled with last, and all it settles is of that transaction. A promise
that is shared is shared by writes of one event turn, and they are in one
transaction (`BlocksAreAtomic`). `AnswerInv` is the conjunction of these, with
`Truthful`, the same of the writes that were settled. Only
`KeptQueue` needs the hypothesis: the step that overwrites `nextTxn`, which
`LostTxn` shows, breaks it, and `EndsAreKept` excludes that step and no other. The theorem so says that the
forgotten end is the only cause of a false answer. (`EndsAreKept` is a hypothesis
of the theorem, not of the specification: every run has the step.)

TLC checks `WritePathInv` as an invariant in `Batched`. One lemma per action and
part of the invariant carries the induction; the temporal theorems combine them.

`EnvRegistryProofs` proves, from `RegistryAssumption` only (finitely many
wrappers, any set of paths):

- `RegistryTyped`, `Spec => []TypeOK`, and `RegistryCorrect`, `Spec => []RegisteredAreOpen`;
- `NoneLeftOpen`, `Spec => []NothingLeftOpen`;
- `ClosedOnce`, `Spec => ClosedForGood`.

The inductive invariant `RegInv` adds to the types that a handle refers to an
environment that was created (`HandlesExist`), and that every registered
environment has an owner (`Owned`): a running thread with a cleanup hook whose
handle refers to it, with a count of 1. `Owned` is why no environment outlives
its threads although a thread that joined has no hook. It rests on the count
never growing, so it would not survive a count that is incremented (section 5).

`LogProofs` proves of `ConditionalWrites`, from `ConditionalAssumption` only (natural
versions, any keys, any number of instructions):

- `DepthsCorrect`, `CondSpec => []CondInv`. `CondInv` is inductive: the types and
  `DepthsAreExact`, that `validatedDepth` counts the outermost blocks that hold
  before the first that does not.
- `DoWritesImplements`, `CondSpec => ImplementsConditionLog`. Under `CondInv` the
  test of `DoWrites`, that the two counts are equal, is the test of
  `ConditionLog`, that every open block holds (`InEffectIsValidated`); each action
  then maps to the action of the same name.

`TxnHandoffProofs` proves, from `HandoffAssumption` only (any programs of the
kinds of calls there are), `LockCorrect`, `Spec => []LockHolder`. The inductive
invariant `HandoffInv` adds the shape of the records of workers and of `js` and
that a lock is held by a thread that exists; then each of the actions moves
`lock` and the program counter it depends on together, one lemma per action.

The rest of it, and `TxnContentsProofs` (from `SyncAtomic` on), are about the
programs that are not `Entangled`, that is, do not combine a compressed value, a
callback and a synchronous transaction that interrupts; in the others the
hand-over fails (`LateSignal`, section 5):

- `CleanExchange`, `Spec => []ExchangeInv`;
- `HandlesLive`, `Spec => []HandlesAreLive`;
- `NeverBlocks`, `Spec => []BeginNeverBlocks`;
- `SyncAtomic`, `Spec => []SyncIsAtomic`;
- `WritesOnce`, `Spec => []StoredOnce`;
- `OrderKept`, `Spec => []OrderIsKept`;
- `CompressesOnce`, `Spec => []CompressedOnce`;
- of the programs in which also every end closes a block (`EndsCloseBlocks`),
  `BlocksWhole`, `Spec => []BlocksAreWhole`, `ContentsCorrect`,
  `Spec => []ContentsInv`, and `HandoffTyped`, `Spec => []TypeOK`.

`EndsCloseBlocks` is what the code does in every program: `ifVersion`, and `batch`
with it, begins a block, calls the function it was given and writes the end when
that has returned (`write.js:565-593`); the turn of the event loop writes its end
after it began (`write.js:99-118`). Nothing else writes one.

`ExchangeInv` says who may do what. One worker has begun and not ended, it is
`ew->writeWorker`, and the next one takes over after its commit (`OneWorker`).
While JavaScript is in `AcquireTxn` behind an interruption, either it sleeps and
the worker was told to commit, or it was woken and the worker sleeps behind its
commit (`Interruption`); so the one signal that ends each wait must be the
other's. Three kinds of threads sleep on that variable (`Asleep`); the only
signal that could reach the wrong one is that of a compression worker, and a
program in which it exists together with an interruption is `Entangled`, because
an interruption needs a worker that waits for a callback (`MayCommit`, `InCall`,
`Compressions`; lemmas `NeverAllThree` and `NoLateSignal`). From this follows
whose the open transaction is (`OpenTxn`), and how many frames are JavaScript's
and at which levels (`JSFrames`), which gives `HandlesLive` and `NeverBlocks`.

`SyncAtomic` is about what is in the frames (`TxnContents`). The frame of a
synchronous call holds what the call has written so far (`JSContents`), and every
other list of writes is made of whole transactions (`Whole`, `WholeLists`); these
can be put together and cut anywhere but in the middle of a pair. That a worker
only adds a put or callbacks to its transaction needs what its position means:
one position of the queue is the next one (`Frontier`), workers that ended lie
before it (`Positions`), a worker that waits for a compression is at a value
(`AtValue`), and the callbacks JavaScript calls are those between the last it
called and that position (`Callbacks`). `WholeInv` is the conjunction. The queue
and the callbacks in it are a recursive function (`Chosen`), the frames are
flattened by another; what they return is proved by induction over a set of
numbers (`NatSetInduction`).

`WritesOnce` and `OrderKept` need to know exactly what is stored. Of the queue it
is what lies before `Frontier`, except for callbacks that were not called yet
(`Done`, `Exactly`); of the synchronous call it is what JavaScript has written so
far (`NotYet`). A step that writes therefore writes something that is not there
(`Distinct`), and that is last in the order of the calls (`Ordered`): a worker
writes at its position, and a callback is called at or behind its own, behind
nothing that was queued later unless it is not strict. `StrictLast` is the one
exception to "what was passed is done": a strict callback that was not called is
the last thing a worker passed, and the worker is waiting for it. The steps that
commit, abort, nest and split move and cut whole lists, so they are lemmas about
the lists end to end (`Flat`). `StoreInv` is `WholeInv` with these.

`CompressesOnce` adds to `StoreInv` the state of every value's slot (`Slots`):
nobody has touched it if it lies behind `Frontier`, it is claimed by the worker
that compresses it at `Frontier`, and it is compressed once before (`Fits`). The
exchanges of the worker and of the compression worker are atomic, so one lemma
about them (`ExchangeIs`, `CompressionIs`) decides every race. `StorageInv` is
the conjunction.

`BlocksWhole` needs to know that the worker commits at the outermost level only.
Its depth is a counter that it keeps itself, so `Depths` says that it is the
number of blocks open at its position, and zero where the worker begins, allows
an interruption or was interrupted; the lemmas about `OpenAt` count the calls
that begin and end a block along the queue. Of the writes of a block that is open
at the position of the worker none is committed then (`Unsplit`), and two writes
of one block that was closed have the same transaction (`Together`). `BlockInv`
is the conjunction of these with `StorageInv`; `ContentsInv` follows from it, and
with the ranges of `mark`, `start` and JavaScript's program counter (`Domains`)
the types, which depend on all of it.

`ReadTxnsProofs` proves, from `ReadsAssumption` only (any number of commits and
iterators), the invariants of `ReadTxns`: `ReadsTyped`, `CountsCorrect`,
`ReadersNotLeaked`, `ReadersInUseOpen`, `CursorsNotShared` and
`ReadsStayCurrent`. None is inductive alone: a transaction is aborted by the
counts, so what an iterator relies on (`Used`) needs that they are exact
(`Counted`), exactness needs that iterators are on transactions that were not
aborted, that no reader leaks needs that every retired transaction is marked for
its iterators (`Retired`), and a kept cursor can be taken as it is because it is
bound to the transaction noted for it (`Spare`). `ReadsInv` is their conjunction,
stated of any reader and iterators (`Consistent`), because one step applies
several helpers of `read.js`: there is a lemma that each helper keeps
`Consistent` (`RenewedKeeps`, `GetReadTxnKeeps`, `TakeCursorKeeps`,
`FinishCursorKeeps`, `ResetKeeps`, `PositionedKeeps`), and the actions compose
them. The proof also shows that `finishCursor` never meets an aborted transaction
(`Used` before it).

`CachingStoreProofs` proves, from `CachingAssumption` only (any keys, calls and
number of calls), `CachingTyped`, `CacheIsRight` (`CacheAgreesUnlessSpoilt`) and
`PinsEnd` (`PinnedIsInFlight`). An entry can become wrong by a commit of a
transaction that is not resolved or by a read of an old snapshot, so the
inductive invariant `CachingInv` speaks of the transaction of the worker, which
every write goes through: an entry with no queued write is what that transaction
contains (`CacheIsAhead`), and the transaction differs from the database only by
its own writes and those of the calls that joined it (`WorkingIsAhead`), so with
neither the entry is the one in the database. A transaction that fails takes back
queued writes and joined ones, and the entries of the latter are spoilt. A
snapshot that differs from the database lacks a commit JavaScript will still learn
of, or is about to be reset (`SnapshotIsBehind`). The callback then cleans what the
commit changed, because no put or remove of a resolved transaction survives its
walk (`AfterCommitKeeps`, `ResolvedAgrees`, `ResolvedPinned`); the reset follows
because transactions that fail change nothing (`ResolvedSnapshot`).

Only model-checked: `RangeIsExact`, whose reference is a definition of the
result, so that a proof would be an induction over the entries.
`SettlementIsTrue` and `CallbackBeforeAnswer` are proved under the hypotheses
above and not of every instance, as the code breaks them without (section 5);
without event-turn batching `SettlementIsTrue` is only model-checked (`Unbatched`).
Liveness under fairness is beyond the prover, and so is what depends on it.

## 5. Where the code and what is said of it disagree

- `LostTxn`: `queueCommitResolution` (`write.js:353`) links the end of a
  transaction behind the first queued one and forgets the one that was linked
  there. When three transactions end before JavaScript looks, the writes of the
  second are settled with the third: `true` for a commit that failed.
- `OwnOutcome`: writes without a condition share the promise of their
  transaction, which carries the result of the first of them (`write.js:306`);
  a `remove` of a missing key is answered `true`.
- `CallbackInBlock`: `transaction()` inside a `batch()` is answered before its
  callback has run (`write.js:297`).
- `EnvShared`: the count of users of a shared environment is incremented on a
  copy (`env.cpp:194-197`), so the first `close` closes it for all. Counting
  correctly would not be enough: a thread that joined has no cleanup hook
  (`env.cpp:266`), and `NothingLeftOpen` holds today only because of the count.
- `LateSignal`: `AcquireTxn` (`writer.cpp:77`) and the interrupted worker
  (`writer.cpp:127`) wait once, without looking at a condition, on the variable
  that everything else signals too. A compression worker that saw the write
  worker waiting signals after it has published (`compression.cpp:107-111`), and
  by then the write worker may have been woken otherwise and be waiting for
  callbacks. The late signal then ends the wait of JavaScript or of the worker;
  it calls `mdbx_txn_begin` with `writingLock` held while the other's transaction
  is open, and neither can go on. Rather than avoid the deadlock, as
  `README.md:345` has it, the interruption causes one.
- `SnapshotIterator`: `TxnWrap::renew` (`txn.cpp:170`) does not set the native
  `readTxnRenewed`. An iterator that takes the kept cursor of the same
  transaction does not pass `getReadTxn`; the next `get` does, and renews the
  transaction the iterator is in.

- `PutAgain`: the `aftercommit` callback deletes the keys of the writes that were
  resolved, whatever was put since, and walks on into the next transaction
  (`caching.js:10-23`). A key that is put again before JavaScript has resolved its
  first put loses the entry of the second, and `get` answers an older value than
  the one that was put.

Seen while modelling, in the caching store (the first five are the exceptions
that `spoilt` records; without any one of them `CacheAgreesUnlessSpoilt` is false):

- `clearSync` and `clearAsync` leave the cache, which only the deprecated `clear`
  empties (`caching.js:100`), so `get` goes on answering what was cleared;
- a put in a transaction that is aborted, and a `putSync` whose condition fails,
  stay in the cache (`caching.js:73`, `83`);
- a `get` between a `put` that resolves a commit and the microtask that resets the
  read transaction (`write.js:391`) caches the entry from before the commit;
- a `putSync` that joins the open transaction of the worker is not committed when
  it returns, although `README.md:150` says so. If that transaction fails, the
  entry stays in the cache;
- a `get` of a key that such a call changed (a `removeSync`, or a `putSync` whose
  entry was evicted) caches the committed entry from before it, while the worker's
  transaction is open or when the read transaction is from before its commit. The
  callback walks asynchronous writes only (`caching.js:23`), so the entry stays;
- `next.flag & 1` (`caching.js:13`) tests a bit of the operation that every put
  and remove has, so every resolved put leaves the cache and the object identity
  of `README.md:328` ends with it; but that is also what takes failed puts out, as
  the mutant `IfFailed` shows;
- without event-turn batching a write can be committed within its own call, when
  its resolution has the key of the write before it (`write.js:217`, `283`); its
  entry then stays pinned.

Seen while modelling, in parts that are left out or excepted:

- dupSort ranges: a reverse range begins at the first value of its start key
  (`cursor.cpp:196`); a count skips `offset` entries but then counts whole keys
  (205-239); `getValuesCount` without bounds ignores its offset (186-192). These
  are `ExceptedRange` and `ExceptedCount`. Counts ignore `limit`.
- a conditional put stores the bytes that were there: `mdbx_get`
  (`writer.cpp:197`) replaces the value to be written;
- the kept cursor can be bound to a transaction that was aborted since; taking it
  then throws (`OpenThrows`), once, and drops it;
- `put` with `{ ifVersion }` throws a ReferenceError (`write.js:517`,
  `versionsOrOptions`);
- `ifNoExists` inside a transaction never calls its callback: `doesExist(key,
  null)` compares the version with `null` (`read.js:116-118`);
- a failing `mdbx_txn_begin` leaves `writingLock` held (`writer.cpp:325`), and a
  commit that fails in an interruption (134) goes unnoticed in `DoWrites`, which
  goes on with the ended transaction;
- the callback of a `transaction()` in an `ifVersion` block whose condition fails
  is not asked for by the worker that skips it, but stays in `nextTxnCallbacks`
  (`write.js:366-368`) and is called with the callbacks of a later transaction;
  TLC finds `CallbackInItsTxn` violated when the calls are these two, so
  `Callbacks` has no `ifVersion`, and neither has the theorem;
- `HandleProgressCallback` deletes `writeTxn` while a callback that awaits still
  needs it (375).

## 6. What is left

Not modelled, and why:

- the byte arithmetic of instruction buffers, keys and timed waits: sequential,
  without interaction with the parts above, which fill a buffer and end a timed
  wait at any place;
- failures of mdbx (out of memory, a full map), LZ4, and the data of values;
- `index.js`, `dbi.cpp`, the bindings, and the vendored libraries, which make up
  nine tenths of the source lines of the repository and appear here only as what
  the code uses of them: one write transaction at a time, nested transactions,
  snapshots, an ordered map with cursors.

Worth proving next: for `WriteQueue`, the refinement of `CommitLog` and
`SettlementIsTrue` without event-turn batching.
