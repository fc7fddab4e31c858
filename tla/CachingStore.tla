---------------------------- MODULE CachingStore ----------------------------
(* The store of caching.js: a cache of entries in front of the database.    *)
(*                                                                          *)
(* put and remove change the cache at once and the database later, on a     *)
(* worker.  When JavaScript learns that a transaction is over, the          *)
(* "aftercommit" callback walks the writes that were resolved and adapts    *)
(* the cache.  get fills it from the read transaction of the event turn.    *)
(*                                                                          *)
(* An entry is the version that was put, 0 if there is none.  The cache,    *)
(* weak-lru-cache, is external: an entry stays while it is pinned, and may  *)
(* be gone at any time when it is not.  Instructions without a key (the     *)
(* starts and ends of event turns) are left out, and so is transaction():   *)
(* only a worker that waits for its callback is interrupted by a            *)
(* synchronous transaction; one that waits elsewhere shares its own.        *)
EXTENDS Integers, Sequences

CONSTANTS
    Keys,
    Calls,          \* what the application calls, of CallNames
    MaxCalls        \* bound on the calls that write

CallNames == {"put", "conditional", "nested", "remove", "clearAsync",
              "putSync", "removeSync", "clearSync", "abort"}

ASSUME CachingAssumption == Calls \subseteq CallNames /\ MaxCalls \in Nat

VARIABLES
    db,         \* the committed entries
    working,    \* the entries in the transaction of the worker
    writes,     \* the writes that were queued: op, key, version, expects
    executed,   \* the number of writes that the worker has executed
    joined,     \* keys that synchronous calls changed in that transaction
    ends,       \* the transactions that are over: last write, committed, joined
    resolved,   \* the number of transactions that JavaScript has resolved
    resetDue,   \* the microtask is queued that resets the read transaction
    snapshot,   \* what the read transaction sees, or None when it is reset
    cache,      \* per key the entry in the cache
    called,     \* the calls so far: the version a call puts
    spoilt      \* history: keys whose entry in the cache may be wrong for good

cachingVars == <<db, working, writes, executed, joined, ends, resolved, resetDue, snapshot, cache,
                 called, spoilt>>

None == <<>>
NoCondition == -1
Empty == [k \in Keys |-> 0]
NoEntry == [version |-> 0, pinned |-> FALSE]
Cached(k) == cache[k].version # 0

Seen == IF snapshot = None THEN db ELSE snapshot

\* The last write of transaction e, and uncommittedResolution as a number.
LastOf(e) == IF e = 0 THEN 0 ELSE ends[e].last
LastEnd == LastOf(Len(ends))
Uncommitted == LastOf(resolved) + 1

CachingInit ==
    /\ db = Empty /\ working = Empty
    /\ writes = <<>> /\ executed = 0 /\ joined = {} /\ ends = <<>>
    /\ resolved = 0 /\ resetDue = FALSE
    /\ snapshot = None
    /\ cache = [k \in Keys |-> NoEntry]
    /\ called = 0
    /\ spoilt = {}

-----------------------------------------------------------------------------
(* The worker.                                                              *)

Holds(entries, k, expects) == expects = NoCondition \/ entries[k] = expects

Written(entries, w) ==
    IF w.op = "clear" THEN Empty
    ELSE IF Holds(entries, w.key, w.expects) THEN [entries EXCEPT ![w.key] = w.version]
    ELSE entries

Execute ==
    /\ executed < Len(writes)
    /\ working' = Written(working, writes[executed + 1])
    /\ executed' = executed + 1
    /\ UNCHANGED <<db, writes, joined, ends, resolved, resetDue, snapshot, cache, called, spoilt>>

StillCached(c, keys) == {k \in keys : c[k].version # 0}

\* The worker's transaction holds nothing: it may not have begun.
NothingDone == executed = LastEnd /\ joined = {}

\* What synchronous calls wrote in a transaction that fails stays in the cache.
EndAnyTxn(committed) ==                                                    \* mutant
    /\ ends' = Append(ends, [last |-> executed, committed |-> committed, joined |-> joined])
    /\ db' = IF committed THEN working ELSE db
    /\ working' = db' /\ joined' = {}
    /\ spoilt' = IF committed THEN spoilt ELSE StillCached(cache, spoilt \cup joined)
    /\ UNCHANGED <<writes, executed, resolved, resetDue, snapshot, cache, called>>

EndTxn(committed) ==
    /\ ~NothingDone
    /\ ends' = Append(ends, [last |-> executed, committed |-> committed, joined |-> joined])
    /\ db' = IF committed THEN working ELSE db
    /\ working' = db' /\ joined' = {}
    /\ spoilt' = IF committed THEN spoilt ELSE StillCached(cache, spoilt \cup joined)
    /\ UNCHANGED <<writes, executed, resolved, resetDue, snapshot, cache, called>>

-----------------------------------------------------------------------------
(* resolveWrites and the "aftercommit" callback.                            *)

\* next.flag & 1: the flag is the whole word of the instruction, and 1 is a bit
\* of the operations put (15) and remove (13), not of clearAsync (12).
IfFailed(w) == w.expects # NoCondition                                    \* mutant
Odd(w) == w.op # "clear"

\* The writes from the first that is uncommitted up to those that are executed
\* leave the cache.  The next one, whose flag is still 0, is taken in and given
\* to the LRFU ("used"), unless an instruction without a key precedes it.
WithoutUsed(first, used) == cache                                         \* mutant
AfterCommit(first, used) ==
    [k \in Keys |->
        IF \E i \in first..executed : Odd(writes[i]) /\ writes[i].key = k THEN NoEntry
        ELSE IF used /\ executed < Len(writes) /\ writes[executed + 1].key = k
        THEN [cache[k] EXCEPT !.pinned = FALSE]
        ELSE cache[k]]

\* What JavaScript can learn: the ends of transactions in their order.
Known == (resolved + 1)..Len(ends)
Commits(upTo) == \E e \in (resolved + 1)..upTo : ends[e].committed

\* Entries that outlive a clear are wrong for good.
Cleared(upTo) ==
    IF \E i \in Uncommitted..LastOf(upTo) : writes[i].op = "clear" THEN Keys ELSE {}

\* The completion callback of startWriting; other callbacks run after the
\* microtasks of the one before.
ResolveLater ==
    \E upTo \in Known, used \in BOOLEAN :
        /\ ~resetDue
        /\ resolved' = upTo
        /\ snapshot' = IF Commits(upTo) THEN None ELSE snapshot
        /\ cache' = AfterCommit(Uncommitted, used)
        /\ spoilt' = StillCached(cache', spoilt \cup Cleared(upTo))
        /\ UNCHANGED <<db, working, writes, executed, joined, ends, resetDue, called>>

\* queueMicrotask(resetReadTxn), or the setImmediate of renewReadTxn.
Reset ==
    /\ resetDue \/ snapshot # None
    /\ resetDue' = FALSE
    /\ snapshot' = None
    /\ UNCHANGED <<db, working, writes, executed, joined, ends, resolved, cache, called, spoilt>>

-----------------------------------------------------------------------------
(* The calls of the application.                                            *)

Call(name) == name \in Calls /\ called < MaxCalls /\ called' = called + 1

\* A write is queued, and its entry replaces what the cache has.  Every eighth
\* outstanding instruction resolves what is known, before the cache is changed.
Queue(w, entry) ==
    /\ writes' = Append(writes, w)
    /\ \/ /\ cache' = [k \in Keys |-> IF k = w.key THEN entry ELSE cache[k]]
          /\ spoilt' = StillCached(cache', spoilt \ {w.key})
          /\ UNCHANGED <<resolved, resetDue>>
       \/ \E upTo \in Known, used \in BOOLEAN :
          /\ resolved' = upTo
          /\ resetDue' = (resetDue \/ Commits(upTo))
          /\ cache' = [k \in Keys |-> IF k = w.key THEN entry ELSE AfterCommit(Uncommitted, used)[k]]
          /\ spoilt' = StillCached(cache', (spoilt \cup Cleared(upTo)) \ {w.key})
    /\ UNCHANGED <<db, working, executed, joined, ends, snapshot>>

NewEntry(pinned) == [version |-> called + 1, pinned |-> pinned]

\* What a caller can expect: no entry, or the version that it can see.
Visible(k) == IF Cached(k) THEN cache[k].version ELSE Seen[k]

QueuePut(k, expects, pinned) ==
    Queue([op |-> "put", key |-> k, version |-> called + 1, expects |-> expects], NewEntry(pinned))

\* In a batch() inside the batch of the event turn put returns a promise with
\* isSync, although it is queued.
Put(k) ==
    \/ Call("put") /\ QueuePut(k, NoCondition, TRUE)
    \/ Call("conditional") /\ \E expects \in {0, Visible(k)} : QueuePut(k, expects, TRUE)
    \/ Call("nested") /\ QueuePut(k, NoCondition, FALSE)

RemoveAsync(k) ==
    /\ Call("remove")
    /\ \E expects \in {NoCondition, Visible(k)} :
           Queue([op |-> "remove", key |-> k, version |-> 0, expects |-> expects], NoEntry)

ClearAsync ==
    /\ Call("clearAsync")
    /\ Queue([op |-> "clear", key |-> None, version |-> 0, expects |-> NoCondition], NoEntry)

\* A synchronous call changed the key in a transaction that is over and that
\* JavaScript did not learn of yet.
JoinedUnresolved(k) == \E e \in Known : k \in ends[e].joined

\* The read lacks a commit whose callback does not correct the entry.
ReadsBefore(k) ==
    \/ k \in joined
    \/ snapshot # None /\ (resetDue \/ JoinedUnresolved(k))

Get(k) ==
    /\ ~Cached(k)
    /\ snapshot' = Seen
    /\ cache' = [cache EXCEPT ![k] = [version |-> Seen[k], pinned |-> FALSE]]
    /\ spoilt' = IF ReadsBefore(k) THEN StillCached(cache', spoilt \cup {k}) ELSE spoilt
    /\ UNCHANGED <<db, working, writes, executed, joined, ends, resolved, resetDue, called>>

\* The keys whose entries in the cache a synchronous write does not make right:
\* a put whose condition fails is in the cache, and a clear does not empty it.
Unwritten(w) ==
    IF w.op = "clear" THEN Keys
    ELSE IF Holds(working, w.key, w.expects) THEN {} ELSE {w.key}

\* beginTxn(0) to commitTxn.  When the worker has its transaction open, and waits,
\* the write becomes part of it and nothing is committed; else it is a
\* transaction of its own.
Sync(w, c) ==
    /\ working' = Written(working, w)
    /\ \/ /\ joined' = joined \cup {k \in Keys : working'[k] # working[k]}
          /\ UNCHANGED db
       \/ NothingDone /\ db' = working' /\ UNCHANGED joined
    /\ snapshot' = None
    /\ cache' = c
    /\ spoilt' = StillCached(c, (spoilt \ {k \in Keys : c[k] # cache[k]}) \cup Unwritten(w))
    /\ UNCHANGED <<writes, executed, ends, resolved, resetDue>>

Putting(k) == [cache EXCEPT ![k] = NewEntry(FALSE)]

PutSync(k) ==
    /\ Call("putSync")
    /\ \E expects \in {NoCondition, 0, Visible(k)} :
        Sync([op |-> "put", key |-> k, version |-> called + 1, expects |-> expects], Putting(k))

RemoveSync(k) ==
    /\ Call("removeSync")
    /\ \E expects \in {NoCondition, Visible(k)} :
        Sync([op |-> "remove", key |-> k, version |-> 0, expects |-> expects],
             [cache EXCEPT ![k] = NoEntry])

ClearSync ==
    /\ Call("clearSync")
    /\ Sync([op |-> "clear", key |-> None, version |-> 0, expects |-> NoCondition], cache)

\* transactionSync(() => { put(k); return ABORT; }): a transaction of its own, or
\* a child of the worker's; nothing of it stays but the entry in the cache.
PutAborted(k) ==
    /\ Call("abort")
    /\ cache' = Putting(k)
    /\ spoilt' = spoilt \cup {k}
    /\ UNCHANGED <<db, working, writes, executed, joined, ends, resolved, resetDue, snapshot>>

\* External: an entry that is not pinned expires and its value is collected.
Evict(k) ==
    /\ Cached(k) /\ ~cache[k].pinned
    /\ cache' = [cache EXCEPT ![k] = NoEntry]
    /\ spoilt' = spoilt \ {k}
    /\ UNCHANGED <<db, working, writes, executed, joined, ends, resolved, resetDue, snapshot, called>>

CachingNext ==
    \/ Execute
    \/ \E committed \in BOOLEAN : EndTxn(committed)
    \/ ResolveLater \/ Reset \/ ClearAsync \/ ClearSync
    \/ \E k \in Keys : Put(k) \/ RemoveAsync(k) \/ Get(k) \/ PutSync(k) \/ RemoveSync(k)
                       \/ PutAborted(k) \/ Evict(k)

CachingSpec == CachingInit /\ [][CachingNext]_cachingVars

-----------------------------------------------------------------------------
(* Properties.                                                              *)

Touches(w, k) == w.op = "clear" \/ w.key = k

\* A write of the key is not resolved yet, or it was changed by a synchronous
\* call in the transaction that the worker has open.
Queued(k) == \E i \in Uncommitted..Len(writes) : Touches(writes[i], k)
InFlight(k) == Queued(k) \/ k \in joined

WriteRecords ==
    [op : {"put", "remove", "clear"}, key : Keys \cup {None}, version : Nat, expects : Nat \cup {NoCondition}]

\* Types, and the order of the positions: transactions end one behind the other,
\* at writes that are executed, and JavaScript resolves them in order.
CachingTypeOK ==
    /\ db \in [Keys -> Nat] /\ working \in [Keys -> Nat]
    /\ snapshot = None \/ snapshot \in [Keys -> Nat]
    /\ cache \in [Keys -> [version : Nat, pinned : BOOLEAN]]
    /\ writes \in Seq({w \in WriteRecords : w.op # "clear" => w.key \in Keys})
    /\ joined \subseteq Keys
    /\ ends \in Seq([last : Nat, committed : BOOLEAN, joined : SUBSET Keys])
    /\ spoilt \subseteq {k \in Keys : Cached(k)}
    /\ resetDue \in BOOLEAN /\ called \in 0..MaxCalls
    /\ \A e \in 1..Len(ends), d \in 0..Len(ends) : d < e =>
           LastOf(d) < LastOf(e) \/ (LastOf(d) = LastOf(e) /\ ends[e].joined # {})
    /\ LastEnd <= executed /\ executed \in 0..Len(writes)
    /\ resolved \in 0..Len(ends)

\* With nothing in flight, what get() finds in the cache is in the database.  It
\* holds through failing commits and conditions, overtaking synchronous writes
\* and reads of old snapshots, up to the entries in spoilt: those that a clear
\* does not reach; that an aborted transaction, a synchronous put with a failing
\* condition, or one in the worker's transaction when that fails, leaves; that
\* get reads before the commit of a synchronous write in the worker's
\* transaction; or that it reads between a commit that put or remove resolved
\* and the microtask that resets the read transaction.
CacheAgreesUnlessSpoilt ==
    \A k \in Keys : Cached(k) /\ ~InFlight(k) /\ k \notin spoilt => cache[k].version = db[k]

\* An entry is not kept in memory beyond the put it is pinned for.
PinnedIsInFlight ==
    \A k \in Keys : cache[k].pinned =>
        \E i \in Uncommitted..Len(writes) : writes[i].op = "put" /\ writes[i].key = k

\* README.md:330, "asynchronous put operations immediately go in the cache (and
\* are pinned in the cache until committed)".  It is false: the callback takes
\* the keys of resolved writes out of the cache, whatever was put since, and it
\* takes in writes of the next transaction.
PinnedUntilCommitted ==
    \A i \in Uncommitted..Len(writes) :
        writes[i].op = "put" /\ (\A j \in (i + 1)..Len(writes) : writes[j].key # writes[i].key)
            => cache[writes[i].key] = [version |-> writes[i].version, pinned |-> TRUE]
=============================================================================
