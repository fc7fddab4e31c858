------------------------- MODULE CachingStoreProofs --------------------------
(* What keeps the cache of caching.js right, for any keys and calls.        *)
EXTENDS CachingStore, SequenceTheorems, TLAPS

\* The transaction of the worker differs from the database by its own writes and
\* by those of the synchronous calls that joined it.
WorkingIsAhead ==
    \A k \in Keys : working[k] # db[k] =>
        k \in joined \/ \E i \in (LastEnd + 1)..executed : Touches(writes[i], k)

\* Transaction e is committed and wrote the key.
Changed(e, k) ==
    /\ ends[e].committed
    /\ \/ k \in ends[e].joined
       \/ \E i \in (LastOf(e - 1) + 1)..LastOf(e) : Touches(writes[i], k)

\* The read transaction lacks commits that JavaScript will learn of, or it is
\* about to be reset.
SnapshotIsBehind ==
    \A k \in Keys : snapshot # None /\ snapshot[k] # db[k] =>
        resetDue \/ \E e \in Known : Changed(e, k)

\* An entry with no queued write is what the worker's transaction contains.
CacheIsAhead ==
    \A k \in Keys : Cached(k) /\ ~Queued(k) /\ k \notin spoilt => cache[k].version = working[k]

CachingInv ==
    /\ CachingTypeOK
    /\ WorkingIsAhead
    /\ SnapshotIsBehind
    /\ CacheIsAhead
    /\ PinnedIsInFlight

-----------------------------------------------------------------------------
(* Helpers.                                                                 *)

Writes == {w \in WriteRecords : w.op # "clear" => w.key \in Keys}
Entries == [version : Nat, pinned : BOOLEAN]

\* Transactions end in order, at writes that are executed.
LEMMA EndsInOrder ==
    CachingTypeOK =>
        /\ \A e \in 0..Len(ends) : LastOf(e) \in Nat /\ LastOf(e) <= executed
        /\ \A d, e \in 0..Len(ends) : d <= e => LastOf(d) <= LastOf(e)
        /\ LastEnd = LastOf(Len(ends))
        /\ Uncommitted = LastOf(resolved) + 1 /\ Uncommitted <= LastEnd + 1
        /\ LastEnd \in Nat /\ LastEnd <= executed /\ Uncommitted \in Nat
        /\ Len(writes) \in Nat /\ Len(ends) \in Nat
        /\ executed \in 0..Len(writes) /\ resolved \in 0..Len(ends)
<1> SUFFICES ASSUME CachingTypeOK
             PROVE  /\ \A e \in 0..Len(ends) : LastOf(e) \in Nat /\ LastOf(e) <= executed
                    /\ \A d, e \in 0..Len(ends) : d <= e => LastOf(d) <= LastOf(e)
                    /\ LastEnd = LastOf(Len(ends))
                    /\ Uncommitted = LastOf(resolved) + 1 /\ Uncommitted <= LastEnd + 1
                    /\ LastEnd \in Nat /\ LastEnd <= executed /\ Uncommitted \in Nat
                    /\ Len(writes) \in Nat /\ Len(ends) \in Nat
                    /\ executed \in 0..Len(writes) /\ resolved \in 0..Len(ends)
  OBVIOUS
<1>1. Len(writes) \in Nat /\ Len(ends) \in Nat /\ executed \in 0..Len(writes) /\ resolved \in 0..Len(ends)
  BY DEF CachingTypeOK
<1>2. \A e \in 0..Len(ends) : LastOf(e) \in Nat
  <2>1. \A e \in 1..Len(ends) : ends[e] \in [last : Nat, committed : BOOLEAN, joined : SUBSET Keys]
    BY ElementOfSeq DEF CachingTypeOK
  <2> QED
    BY <1>1, <2>1 DEF LastOf
<1>3. \A e \in 1..Len(ends), d \in 0..Len(ends) : d < e => LastOf(d) < LastOf(e) \/ LastOf(d) = LastOf(e)
  BY DEF CachingTypeOK
<1>4. \A d, e \in 0..Len(ends) : d <= e => LastOf(d) <= LastOf(e)
  BY <1>1, <1>2, <1>3
<1>5. LastEnd = LastOf(Len(ends)) /\ LastEnd <= executed
  BY DEF CachingTypeOK, LastEnd
<1>6. \A e \in 0..Len(ends) : LastOf(e) <= executed
  BY <1>1, <1>2, <1>4, <1>5
<1> QED
  BY ONLY <1>1, <1>2, <1>4, <1>5, <1>6 DEF Uncommitted

\* A write that is not part of a transaction that is over is not resolved.
LEMMA UnresolvedTail ==
    ASSUME CachingTypeOK
    PROVE  \A i \in (LastEnd + 1)..executed : i \in Uncommitted..Len(writes)
<1>1. /\ Uncommitted \in Nat /\ LastEnd \in Nat /\ Uncommitted <= LastEnd + 1
      /\ Len(writes) \in Nat /\ executed \in 0..Len(writes)
  BY ONLY CachingTypeOK, EndsInOrder
<1> QED
  BY ONLY <1>1

\* The same of a transaction that JavaScript can learn of.
LEMMA KnownInOrder ==
    ASSUME CachingTypeOK, NEW upTo \in Known
    PROVE  /\ upTo \in 0..Len(ends) /\ LastOf(upTo) \in Nat /\ LastOf(upTo) <= executed
           /\ Len(writes) \in Nat /\ executed \in 0..Len(writes) /\ Uncommitted \in Nat
<1>1. /\ \A e \in 0..Len(ends) : LastOf(e) \in Nat /\ LastOf(e) <= executed
      /\ Uncommitted = LastOf(resolved) + 1 /\ Len(ends) \in Nat
  BY ONLY CachingTypeOK, EndsInOrder
<1>2. resolved \in 0..Len(ends) /\ executed \in 0..Len(writes) /\ Len(writes) \in Nat
  BY DEF CachingTypeOK
<1>3. upTo \in 0..Len(ends)
  BY ONLY <1>1, <1>2, upTo \in Known DEF Known
<1> QED
  BY ONLY <1>1, <1>2, <1>3

\* A key whose entry survives the callback has no put or remove among the writes
\* that were executed, and its entry does not become pinned.
LEMMA AfterCommitKeeps ==
    ASSUME CachingTypeOK, NEW first, NEW used \in BOOLEAN
    PROVE  /\ AfterCommit(first, used) \in [Keys -> Entries]
           /\ \A k \in Keys :
                 \/ AfterCommit(first, used)[k] = NoEntry
                 \/ /\ AfterCommit(first, used)[k].version = cache[k].version
                    /\ AfterCommit(first, used)[k].pinned => cache[k].pinned
                    /\ \A i \in first..executed : Odd(writes[i]) => writes[i].key # k
<1> DEFINE after == AfterCommit(first, used)
<1>1. \A k \in Keys : cache[k] \in Entries
  BY DEF CachingTypeOK, Entries
<1>2. ASSUME NEW k \in Keys
      PROVE  /\ after[k] \in Entries
             /\ \/ after[k] = NoEntry
                \/ /\ after[k].version = cache[k].version
                   /\ after[k].pinned => cache[k].pinned
                   /\ \A i \in first..executed : Odd(writes[i]) => writes[i].key # k
  <2>1. CASE \E i \in first..executed : Odd(writes[i]) /\ writes[i].key = k
    BY <2>1 DEF AfterCommit, NoEntry, Entries
  <2>2. CASE ~\E i \in first..executed : Odd(writes[i]) /\ writes[i].key = k
    <3>1. after[k] = cache[k] \/ after[k] = [cache[k] EXCEPT !.pinned = FALSE]
      BY <2>2 DEF AfterCommit
    <3> QED
      BY <1>1, <2>2, <3>1 DEF Entries
  <2> QED
    BY <2>1, <2>2
<1>3. after = [k \in Keys |-> after[k]]
  BY DEF AfterCommit
<1> QED
  BY <1>2, <1>3

\* What the properties say of the cache does not depend on the worker and the
\* read transaction as long as the transaction of the worker and the writes stay.
LEMMA CacheUntouched ==
    /\ CacheIsAhead /\ PinnedIsInFlight
    /\ UNCHANGED <<working, writes, ends, resolved, cache, spoilt>>
    => CacheIsAhead' /\ PinnedIsInFlight'
BY DEF CacheIsAhead, PinnedIsInFlight, Cached, Queued, Touches, Uncommitted, LastOf

-----------------------------------------------------------------------------
(* The steps.                                                               *)

LEMMA InitEstablishes == CachingInit => CachingInv
<1> SUFFICES ASSUME CachingInit PROVE CachingInv
  OBVIOUS
<1> USE CachingAssumption DEF CachingInit
<1>1. Len(writes) = 0 /\ Len(ends) = 0 /\ LastEnd = 0 /\ Uncommitted = 1
  BY DEF LastEnd, LastOf, Uncommitted
<1>2. CachingTypeOK
  <2>1. cache \in [Keys -> Entries] /\ db \in [Keys -> Nat] /\ working \in [Keys -> Nat]
    BY DEF Empty, NoEntry, Entries
  <2>2. writes \in Seq(Writes) /\ ends \in Seq([last : Nat, committed : BOOLEAN, joined : SUBSET Keys])
    OBVIOUS
  <2>3. LastEnd <= executed /\ executed \in 0..Len(writes) /\ resolved \in 0..Len(ends)
    BY <1>1
  <2>4. resetDue \in BOOLEAN
    BY Zenon
  <2>8. called \in 0..MaxCalls
    BY DEF CachingAssumption
  <2>7. spoilt \subseteq {k \in Keys : Cached(k)}
    OBVIOUS
  <2>5. /\ \A e \in 1..Len(ends), d \in 0..Len(ends) : d < e =>
               LastOf(d) < LastOf(e) \/ (LastOf(d) = LastOf(e) /\ ends[e].joined # {})
        /\ joined \subseteq Keys
    BY <1>1
  <2>6. snapshot = None
    OBVIOUS
  <2> HIDE DEF CachingInit
  <2> QED
    BY <2>1, <2>2, <2>3, <2>4, <2>5, <2>6, <2>7, <2>8 DEF CachingTypeOK, Entries, Writes
<1>3. WorkingIsAhead /\ SnapshotIsBehind
  BY DEF WorkingIsAhead, SnapshotIsBehind
<1>4. CacheIsAhead /\ PinnedIsInFlight
  BY DEF CacheIsAhead, PinnedIsInFlight, Cached, NoEntry
<1> QED
  BY <1>2, <1>3, <1>4 DEF CachingInv

LEMMA ExecuteKeeps == CachingInv /\ Execute => CachingInv'
<1> SUFFICES ASSUME CachingInv, Execute PROVE CachingInv'
  OBVIOUS
<1> USE DEF CachingInv
<1>0. /\ Len(writes) \in Nat /\ executed \in 0..Len(writes) /\ LastEnd \in Nat /\ LastEnd <= executed
      /\ Uncommitted \in Nat /\ Uncommitted <= LastEnd + 1
  BY ONLY CachingInv, EndsInOrder DEF CachingInv
<1> DEFINE w == writes[executed + 1]
<1>1. executed + 1 \in 1..Len(writes) /\ executed' = executed + 1 /\ working' = Written(working, w)
  BY <1>0 DEF Execute
<1>2. w \in Writes
  BY <1>1 DEF CachingTypeOK, Writes
<1>3. working' \in [Keys -> Nat] /\ \A k \in Keys : working'[k] = working[k] \/ Touches(w, k)
  BY <1>1, <1>2 DEF CachingTypeOK, Written, Writes, WriteRecords, Touches, Empty
<1>4. UNCHANGED <<db, writes, joined, ends, resolved, resetDue, snapshot, cache, called, spoilt>>
  BY DEF Execute
<1>5. CachingTypeOK'
  <2>1. /\ \A e : LastOf(e)' = LastOf(e)
        /\ LastEnd' = LastEnd
    BY <1>4 DEF LastEnd, LastOf
  <2>2. executed' \in 0..Len(writes') /\ LastEnd' <= executed'
    BY <1>0, <1>1, <1>4, <2>1
  <2> QED
    BY <1>3, <1>4, <2>1, <2>2 DEF CachingTypeOK, Cached
<1>6. WorkingIsAhead'
  BY <1>0, <1>1, <1>3, <1>4 DEF WorkingIsAhead, LastEnd, LastOf, Touches
<1>7. SnapshotIsBehind'
  BY <1>4 DEF SnapshotIsBehind, Changed, Known, LastOf, Touches
\* The write that is executed is not resolved yet.
<1>8. CacheIsAhead'
  <2> SUFFICES ASSUME NEW k \in Keys, Cached(k)', ~Queued(k)', k \notin spoilt'
               PROVE  cache'[k].version = working'[k]
    BY DEF CacheIsAhead
  <2>1. ~Queued(k)
    BY <1>4 DEF Queued, Uncommitted, LastOf, Touches
  <2>2. ~Touches(w, k)
    BY <1>0, <1>1, <2>1 DEF Queued
  <2> QED
    BY <1>3, <1>4, <2>1, <2>2 DEF CacheIsAhead, Cached
<1>9. PinnedIsInFlight'
  BY <1>4 DEF PinnedIsInFlight, Uncommitted, LastOf
<1> QED
  BY <1>5, <1>6, <1>7, <1>8, <1>9

LEMMA EndTxnKeeps == ASSUME NEW committed \in BOOLEAN PROVE CachingInv /\ EndTxn(committed) => CachingInv'
<1> SUFFICES ASSUME CachingInv, EndTxn(committed) PROVE CachingInv'
  OBVIOUS
<1> USE DEF CachingInv
<1> PICK n : n = Len(ends) + 1
  OBVIOUS
<1>1. /\ UNCHANGED <<writes, executed, resolved, resetDue, snapshot, cache, called>>
      /\ joined' = {}
  BY DEF EndTxn
<1>2. /\ Len(writes) \in Nat /\ Len(ends) \in Nat /\ executed \in 0..Len(writes)
      /\ resolved \in 0..Len(ends) /\ LastEnd \in Nat /\ LastEnd <= executed
      /\ LastEnd < executed \/ joined # {}
      /\ LastEnd = LastOf(Len(ends)) /\ Uncommitted \in Nat /\ Uncommitted <= LastEnd + 1
  <2>1. CachingTypeOK /\ LastEnd <= executed /\ (LastEnd # executed \/ joined # {})
    BY DEF EndTxn, NothingDone, CachingTypeOK
  <2>2. executed \in 0..Len(writes) /\ resolved \in 0..Len(ends)
    BY DEF CachingTypeOK
  <2>3. /\ \A e \in 0..Len(ends) : LastOf(e) \in Nat
        /\ LastEnd = LastOf(Len(ends)) /\ Uncommitted = LastOf(resolved) + 1
        /\ Uncommitted <= LastEnd + 1 /\ Len(writes) \in Nat /\ Len(ends) \in Nat
    BY ONLY <2>1, EndsInOrder
  <2>4. LastEnd \in Nat /\ Uncommitted \in Nat
    BY ONLY <2>2, <2>3
  <2> QED
    BY ONLY <2>1, <2>2, <2>3, <2>4
<1>3. /\ Len(ends') = n /\ ends'[n] = [last |-> executed, committed |-> committed, joined |-> joined]
      /\ \A e \in 1..Len(ends) : ends'[e] = ends[e]
      /\ ends' \in Seq([last : Nat, committed : BOOLEAN, joined : SUBSET Keys])
  BY <1>2 DEF EndTxn, CachingTypeOK
<1>4. /\ \A e \in 0..Len(ends) : LastOf(e)' = LastOf(e)
      /\ LastOf(n)' = executed /\ LastEnd' = executed
      /\ Uncommitted' = Uncommitted
  <2>1. \A e \in 0..Len(ends) : LastOf(e)' = LastOf(e)
    BY <1>2, <1>3 DEF LastOf
  <2>2. LastOf(n)' = executed
    BY <1>2, <1>3 DEF LastOf
  <2> QED
    BY <1>1, <1>2, <1>3, <2>1, <2>2 DEF LastEnd, Uncommitted, LastOf
<1>5. working' = db' /\ db' \in [Keys -> Nat]
  BY DEF EndTxn, CachingTypeOK
<1>6. \A e \in 1..n, d \in 0..n : d < e =>
          LastOf(d)' < LastOf(e)' \/ (LastOf(d)' = LastOf(e)' /\ ends'[e].joined # {})
  <2> SUFFICES ASSUME NEW e \in 1..n, NEW d \in 0..n, d < e
               PROVE  LastOf(d)' < LastOf(e)' \/ (LastOf(d)' = LastOf(e)' /\ ends'[e].joined # {})
    OBVIOUS
  <2>1. CASE e = n
    <3>1. d \in 0..Len(ends) /\ LastOf(d) \in Nat /\ LastOf(d) <= LastEnd
      BY <1>2, <2>1, EndsInOrder
    <3> QED
      BY <1>2, <1>3, <1>4, <2>1, <3>1
  <2>2. CASE e # n
    <3>1. e \in 1..Len(ends) /\ d \in 0..Len(ends)
      BY <1>2, <2>2
    <3>2. LastOf(d) < LastOf(e) \/ (LastOf(d) = LastOf(e) /\ ends[e].joined # {})
      BY <3>1 DEF CachingTypeOK
    <3>3. LastOf(d)' = LastOf(d) /\ LastOf(e)' = LastOf(e) /\ ends'[e] = ends[e]
      BY <1>2, <1>3, <1>4, <3>1
    <3> QED
      BY <3>2, <3>3
  <2> QED
    BY <2>1, <2>2
<1>7. CachingTypeOK'
  <2>1. spoilt' \subseteq {k \in Keys : Cached(k)'}
    BY <1>1 DEF CachingTypeOK, Cached, EndTxn, StillCached
  <2>2. \A e \in 1..Len(ends'), d \in 0..Len(ends') : d < e =>
            LastOf(d)' < LastOf(e)' \/ (LastOf(d)' = LastOf(e)' /\ ends'[e].joined # {})
    BY <1>3, <1>6
  <2>3. LastEnd' <= executed' /\ executed' \in 0..Len(writes') /\ resolved' \in 0..Len(ends')
    BY <1>1, <1>2, <1>3, <1>4
  <2> QED
    BY <1>1, <1>3, <1>5, <2>1, <2>2, <2>3 DEF CachingTypeOK
<1>8. WorkingIsAhead'
  BY <1>5 DEF WorkingIsAhead
\* A key that the commit changes was written in the transaction.
<1>9. ASSUME NEW k \in Keys, db'[k] # db[k] PROVE Changed(n, k)'
  <2>1. committed /\ working[k] # db[k]
    BY <1>9 DEF EndTxn
  <2>2. k \in joined \/ \E i \in (LastEnd + 1)..executed : Touches(writes[i], k)
    BY <2>1 DEF WorkingIsAhead
  <2>3. LastOf(n - 1)' = LastEnd
    BY <1>2, <1>4
  <2> QED
    BY <1>1, <1>3, <1>4, <2>1, <2>2, <2>3 DEF Changed, Touches
<1>10. n \in Known' /\ \A e \in Known : e \in Known' /\ e \in 1..Len(ends)
  BY <1>1, <1>2, <1>3 DEF Known
<1>11. \A e \in Known, k \in Keys : Changed(e, k) => Changed(e, k)'
  <2> SUFFICES ASSUME NEW e \in Known, NEW k \in Keys, Changed(e, k) PROVE Changed(e, k)'
    OBVIOUS
  <2>1. e \in 1..Len(ends) /\ e - 1 \in 0..Len(ends)
    BY <1>2, <1>10
  <2>2. LastOf(e - 1)' = LastOf(e - 1) /\ LastOf(e)' = LastOf(e) /\ ends'[e] = ends[e]
    BY <1>2, <1>3, <1>4, <2>1
  <2> QED
    BY <1>1, <2>2 DEF Changed, Touches
<1>12. SnapshotIsBehind'
  BY <1>1, <1>9, <1>10, <1>11 DEF SnapshotIsBehind
<1>13. \A k \in Keys : Queued(k)' = Queued(k)
  BY <1>1, <1>4 DEF Queued, Touches
\* What a transaction that fails takes back was written by a call that joined it,
\* or is queued.
<1>14. ASSUME NEW k \in Keys, working'[k] # working[k], ~Queued(k) PROVE ~committed /\ k \in joined
  <2>1. ~committed /\ working[k] # db[k]
    BY <1>14 DEF EndTxn
  <2>2. ASSUME NEW i \in (LastEnd + 1)..executed, Touches(writes[i], k) PROVE FALSE
    <3>1. i \in Uncommitted..Len(writes)
      BY <1>2
    <3> QED
      BY <1>14, <2>2, <3>1 DEF Queued
  <2> QED
    BY <2>1, <2>2 DEF WorkingIsAhead
<1>15. CacheIsAhead'
  <2> SUFFICES ASSUME NEW k \in Keys, Cached(k)', ~Queued(k)', k \notin spoilt'
               PROVE  cache'[k].version = working'[k]
    BY DEF CacheIsAhead
  <2>1. /\ cache' = cache /\ Cached(k) /\ ~Queued(k)
        /\ spoilt' = IF committed THEN spoilt ELSE StillCached(cache, spoilt \cup joined)
    BY <1>1, <1>13 DEF Cached, EndTxn
  <2>2. k \notin spoilt /\ (committed \/ k \notin joined)
    BY <2>1 DEF StillCached, Cached
  <2> QED
    BY <1>14, <2>1, <2>2 DEF CacheIsAhead
<1>16. PinnedIsInFlight'
  BY <1>1, <1>4 DEF PinnedIsInFlight
<1> QED
  BY <1>7, <1>8, <1>12, <1>15, <1>16

\* What the callback leaves is what the worker's transaction contains, unless a write of the key
\* is still in flight or the entry is spoilt.
LEMMA ResolvedAgrees ==
    ASSUME CachingInv, NEW upTo \in Known, NEW used \in BOOLEAN, NEW k \in Keys,
           AfterCommit(Uncommitted, used)[k].version # 0,
           k \notin spoilt, k \notin Cleared(upTo),
           ~\E i \in (LastOf(upTo) + 1)..Len(writes) : Touches(writes[i], k)
    PROVE  AfterCommit(Uncommitted, used)[k].version = working[k]
<1> USE DEF CachingInv
<1>1. /\ upTo \in 0..Len(ends) /\ LastOf(upTo) \in Nat /\ LastOf(upTo) <= executed
      /\ Len(writes) \in Nat /\ executed \in 0..Len(writes) /\ Uncommitted \in Nat
  BY KnownInOrder
<1>2. /\ AfterCommit(Uncommitted, used)[k].version = cache[k].version
      /\ \A i \in Uncommitted..executed : Odd(writes[i]) => writes[i].key # k
  BY AfterCommitKeeps DEF NoEntry
<1>3. ~Queued(k)
  <2> SUFFICES ASSUME NEW i \in Uncommitted..Len(writes), Touches(writes[i], k) PROVE FALSE
    BY DEF Queued
  <2>1. i \in Uncommitted..LastOf(upTo) /\ i \in Uncommitted..executed
    BY <1>1
  <2>2. writes[i].op # "clear"
    BY <2>1 DEF Cleared
  <2> QED
    BY <1>2, <2>1, <2>2 DEF Touches, Odd
<1> QED
  BY <1>2, <1>3 DEF CacheIsAhead, Cached

\* What the callback leaves pinned belongs to a put that is not resolved.
LEMMA ResolvedPinned ==
    ASSUME CachingInv, NEW upTo \in Known, NEW used \in BOOLEAN, NEW k \in Keys,
           AfterCommit(Uncommitted, used)[k].pinned
    PROVE  \E i \in (LastOf(upTo) + 1)..Len(writes) : writes[i].op = "put" /\ writes[i].key = k
<1> USE DEF CachingInv
<1>1. /\ upTo \in 0..Len(ends) /\ LastOf(upTo) \in Nat /\ LastOf(upTo) <= executed
      /\ Len(writes) \in Nat /\ executed \in 0..Len(writes) /\ Uncommitted \in Nat
  BY KnownInOrder
<1>2. /\ cache[k].pinned
      /\ \A i \in Uncommitted..executed : Odd(writes[i]) => writes[i].key # k
  BY AfterCommitKeeps DEF NoEntry
<1>3. PICK i \in Uncommitted..Len(writes) : writes[i].op = "put" /\ writes[i].key = k
  BY <1>2 DEF PinnedIsInFlight
<1>4. i \notin Uncommitted..executed
  BY <1>2, <1>3 DEF Odd
<1> QED
  BY <1>1, <1>3, <1>4

\* Transactions that fail do not make the snapshot old.
LEMMA ResolvedSnapshot ==
    ASSUME CachingInv, NEW upTo \in Known, ~Commits(upTo), NEW k \in Keys,
           snapshot # None, snapshot[k] # db[k], ~resetDue
    PROVE  \E e \in (upTo + 1)..Len(ends) : Changed(e, k)
<1> USE DEF CachingInv
<1>1. PICK e \in Known : Changed(e, k)
  BY DEF SnapshotIsBehind
<1>2. e \notin (resolved + 1)..upTo
  BY <1>1 DEF Commits, Changed
<1> QED
  BY <1>1, <1>2 DEF Known, CachingTypeOK

LEMMA ResolveLaterKeeps == CachingInv /\ ResolveLater => CachingInv'
<1> SUFFICES ASSUME CachingInv, ResolveLater PROVE CachingInv'
  OBVIOUS
<1> USE DEF CachingInv
<1>1. PICK upTo \in Known, used \in BOOLEAN :
          /\ resolved' = upTo
          /\ snapshot' = IF Commits(upTo) THEN None ELSE snapshot
          /\ cache' = AfterCommit(Uncommitted, used)
          /\ spoilt' = StillCached(cache', spoilt \cup Cleared(upTo))
          /\ UNCHANGED <<db, working, writes, executed, joined, ends, resetDue, called>>
          /\ ~resetDue
  BY DEF ResolveLater
<1>2. cache' \in [Keys -> Entries]
  BY <1>1, AfterCommitKeeps
<1>3. Uncommitted' = LastOf(upTo) + 1 /\ Known' = (upTo + 1)..Len(ends) /\ upTo \in 0..Len(ends)
  BY <1>1 DEF Uncommitted, LastOf, Known, CachingTypeOK
<1>4. CachingTypeOK'
  <2>1. spoilt' \subseteq {k \in Keys : Cached(k)'}
    BY <1>1 DEF CachingTypeOK, StillCached, Cleared, Cached
  <2> QED
    BY <1>1, <1>2, <1>3, <2>1 DEF CachingTypeOK, Entries, LastEnd, LastOf
<1>5. WorkingIsAhead'
  BY <1>1 DEF WorkingIsAhead, LastEnd, LastOf, Touches
<1>6. SnapshotIsBehind'
  <2> SUFFICES ASSUME NEW k \in Keys, snapshot' # None, snapshot'[k] # db'[k]
               PROVE  \E e \in Known' : Changed(e, k)'
    BY DEF SnapshotIsBehind
  <2>1. ~Commits(upTo) /\ snapshot # None /\ snapshot[k] # db[k] /\ ~resetDue
    BY <1>1
  <2>2. PICK e \in (upTo + 1)..Len(ends) : Changed(e, k)
    BY <2>1, ResolvedSnapshot
  <2>3. Changed(e, k)'
    BY <1>1, <2>2 DEF Changed, LastOf, Touches
  <2> QED
    BY <1>3, <2>3
<1>7. CacheIsAhead'
  <2> SUFFICES ASSUME NEW k \in Keys, Cached(k)', ~Queued(k)', k \notin spoilt'
               PROVE  cache'[k].version = working'[k]
    BY DEF CacheIsAhead
  <2>1. AfterCommit(Uncommitted, used)[k].version # 0
    BY <1>1 DEF Cached
  <2>2. k \notin spoilt /\ k \notin Cleared(upTo)
    BY <1>1, <2>1 DEF StillCached
  <2>3. ~\E i \in (LastOf(upTo) + 1)..Len(writes) : Touches(writes[i], k)
    BY <1>1, <1>3 DEF Queued, Touches
  <2> QED
    BY <1>1, <2>1, <2>2, <2>3, ResolvedAgrees
<1>8. PinnedIsInFlight'
  BY <1>1, <1>3, ResolvedPinned DEF PinnedIsInFlight
<1> QED
  BY <1>4, <1>5, <1>6, <1>7, <1>8

LEMMA ResetKeeps == CachingInv /\ Reset => CachingInv'
<1> SUFFICES ASSUME CachingInv, Reset PROVE CachingInv'
  OBVIOUS
<1> USE DEF CachingInv
<1>1. /\ resetDue' = FALSE /\ snapshot' = None
      /\ UNCHANGED <<db, working, writes, executed, joined, ends, resolved, cache, called, spoilt>>
  BY DEF Reset
<1>2. CachingTypeOK'
  BY <1>1 DEF CachingTypeOK, LastEnd, LastOf, Cached
<1>3. WorkingIsAhead'
  BY <1>1 DEF WorkingIsAhead, LastEnd, LastOf, Touches
<1>4. SnapshotIsBehind'
  BY <1>1 DEF SnapshotIsBehind
<1> QED
  BY <1>1, <1>2, <1>3, <1>4, CacheUntouched

LEMMA GetKeeps == ASSUME NEW k \in Keys PROVE CachingInv /\ Get(k) => CachingInv'
<1> SUFFICES ASSUME CachingInv, Get(k) PROVE CachingInv'
  OBVIOUS
<1> USE DEF CachingInv
<1>1. /\ ~Cached(k) /\ snapshot' = Seen
      /\ cache' = [cache EXCEPT ![k] = [version |-> Seen[k], pinned |-> FALSE]]
      /\ spoilt' = IF ReadsBefore(k) THEN StillCached(cache', spoilt \cup {k}) ELSE spoilt
      /\ UNCHANGED <<db, working, writes, executed, joined, ends, resolved, resetDue, called>>
  BY DEF Get
<1>2. Seen \in [Keys -> Nat] /\ cache \in [Keys -> Entries]
  BY DEF Seen, CachingTypeOK, Entries
<1>3. /\ cache' \in [Keys -> Entries] /\ cache'[k] = [version |-> Seen[k], pinned |-> FALSE]
      /\ \A j \in Keys \ {k} : cache'[j] = cache[j]
  BY <1>1, <1>2 DEF Entries
<1>4. CachingTypeOK'
  <2>1. spoilt' \subseteq {j \in Keys : Cached(j)'}
    BY <1>1, <1>3 DEF CachingTypeOK, Cached, StillCached
  <2> QED
    BY <1>1, <1>2, <1>3, <2>1 DEF CachingTypeOK, Entries, LastEnd, LastOf
<1>5. WorkingIsAhead'
  BY <1>1 DEF WorkingIsAhead, LastEnd, LastOf, Touches
<1>6. \A j \in Keys : Seen[j] # db[j] =>
          snapshot # None /\ (resetDue \/ \E e \in Known : Changed(e, j))
  BY DEF SnapshotIsBehind, Seen
<1>7. SnapshotIsBehind'
  BY <1>1, <1>6 DEF SnapshotIsBehind, Known, Changed, LastOf, Touches
\* A key that changed since the snapshot is queued or joined.
<1>8. ASSUME NEW j \in Keys, NEW e \in Known, Changed(e, j), ~JoinedUnresolved(j) PROVE Queued(j)
  <2>1. e \in 1..Len(ends) /\ resolved \in 0..(e - 1) /\ e - 1 \in 0..Len(ends)
    BY DEF Known, CachingTypeOK
  <2>2. PICK i \in (LastOf(e - 1) + 1)..LastOf(e) : Touches(writes[i], j)
    BY <1>8 DEF Changed, JoinedUnresolved
  <2>3. /\ LastOf(resolved) \in Nat /\ LastOf(e - 1) \in Nat /\ LastOf(e) \in Nat
        /\ LastOf(resolved) <= LastOf(e - 1) /\ LastOf(e) <= executed
    BY <2>1, EndsInOrder
  <2>4. executed \in 0..Len(writes) /\ Len(writes) \in Nat /\ Uncommitted = LastOf(resolved) + 1
    BY EndsInOrder DEF CachingTypeOK
  <2>5. i \in Uncommitted..Len(writes)
    BY <2>2, <2>3, <2>4
  <2> QED
    BY <2>2, <2>5 DEF Queued
<1>9. \A j \in Keys : Queued(j)' = Queued(j)
  BY <1>1 DEF Queued, Uncommitted, LastOf, Touches
<1>10. CacheIsAhead'
  <2> SUFFICES ASSUME NEW j \in Keys, Cached(j)', ~Queued(j)', j \notin spoilt'
               PROVE  cache'[j].version = working'[j]
    BY DEF CacheIsAhead
  <2>1. CASE j = k
    <3>1. cache'[k].version = Seen[k] /\ ~Queued(k) /\ ~ReadsBefore(k)
      BY <1>1, <1>3, <1>9, <2>1 DEF Cached, StillCached
    <3>2. k \notin joined /\ Seen[k] = db[k]
      BY <1>6, <1>8, <3>1 DEF ReadsBefore
    <3>3. working[k] = db[k]
      <4>1. ASSUME NEW i \in (LastEnd + 1)..executed, Touches(writes[i], k) PROVE FALSE
        <5>1. i \in Uncommitted..Len(writes)
          BY UnresolvedTail
        <5> QED
          BY <3>1, <4>1, <5>1 DEF Queued
      <4> QED
        BY <3>2, <4>1 DEF WorkingIsAhead
    <3> QED
      BY <1>1, <2>1, <3>1, <3>2, <3>3
  <2>2. CASE j # k
    <3>1. cache'[j] = cache[j] /\ Cached(j) /\ ~Queued(j) /\ working' = working
      BY <1>1, <1>3, <1>9, <2>2 DEF Cached
    <3>2. j \notin spoilt
      BY <1>1, <2>2, <3>1 DEF StillCached, Cached
    <3> QED
      BY <3>1, <3>2 DEF CacheIsAhead
  <2> QED
    BY <2>1, <2>2
<1>11. PinnedIsInFlight'
  BY <1>1, <1>3 DEF PinnedIsInFlight, Uncommitted, LastOf
<1> QED
  BY <1>4, <1>5, <1>7, <1>10, <1>11

\* A write that is queued, with the entry that replaces what the cache has for
\* its key: a pinned one only for a put.
Queueable(w, entry) ==
    /\ w \in Writes /\ entry \in Entries
    /\ entry.pinned => w.op = "put"

LEMMA QueueKeeps ==
    ASSUME NEW w, NEW entry, Queueable(w, entry), CachingInv, Queue(w, entry),
           called' \in 0..MaxCalls
    PROVE  CachingInv'
<1> USE DEF CachingInv
<1> DEFINE n == Len(writes) + 1
<1>1. writes' = Append(writes, w) /\ UNCHANGED <<db, working, executed, joined, ends, snapshot>>
  BY DEF Queue
<1>2. /\ Len(writes) \in Nat /\ Len(ends) \in Nat /\ executed \in 0..Len(writes)
      /\ resolved \in 0..Len(ends) /\ LastEnd \in Nat /\ LastEnd <= executed
      /\ \A e \in 0..Len(ends) : LastOf(e) \in Nat /\ LastOf(e) <= executed
  BY ONLY CachingInv, EndsInOrder DEF CachingInv
<1>3. /\ writes' \in Seq(Writes) /\ Len(writes') = Len(writes) + 1 /\ writes'[Len(writes) + 1] = w
      /\ \A i \in 1..Len(writes) : writes'[i] = writes[i]
  BY <1>1, <1>2 DEF CachingTypeOK, Writes, Queueable
<1>4. \A e : LastOf(e)' = LastOf(e)
  BY <1>1 DEF LastOf
<1>5. WorkingIsAhead'
  <2> SUFFICES ASSUME NEW k \in Keys, working[k] # db[k]
               PROVE  k \in joined \/ \E i \in (LastEnd + 1)..executed : Touches(writes'[i], k)
    BY <1>1, <1>4 DEF WorkingIsAhead, LastEnd, Touches
  <2>0. SUFFICES ASSUME k \notin joined
                 PROVE  \E i \in (LastEnd + 1)..executed : Touches(writes'[i], k)
    OBVIOUS
  <2>1. PICK i \in (LastEnd + 1)..executed : Touches(writes[i], k)
    BY <2>0 DEF WorkingIsAhead
  <2>2. i \in 1..Len(writes)
    BY <1>2
  <2> QED
    BY <1>3, <2>1, <2>2
<1>6. ASSUME NEW e \in 1..Len(ends), NEW k, Changed(e, k) PROVE Changed(e, k)'
  <2>0. CASE k \in ends[e].joined
    BY <1>1, <1>6, <2>0 DEF Changed
  <2>9. SUFFICES ASSUME k \notin ends[e].joined PROVE Changed(e, k)'
    BY <2>0
  <2>1. PICK i \in (LastOf(e - 1) + 1)..LastOf(e) : Touches(writes[i], k)
    BY <1>6, <2>9 DEF Changed
  <2>2. i \in 1..Len(writes)
    BY <1>2
  <2>3. Touches(writes[i], k)'
    BY <1>3, <2>1, <2>2 DEF Touches
  <2> QED
    BY <1>1, <1>4, <1>6, <2>1, <2>3 DEF Changed
<1>7. /\ \A e \in 1..Len(ends'), d \in 0..Len(ends') : d < e =>
             LastOf(d)' < LastOf(e)' \/ (LastOf(d)' = LastOf(e)' /\ ends'[e].joined # {})
      /\ LastEnd' <= executed' /\ executed' \in 0..Len(writes')
      /\ writes' \in Seq({v \in WriteRecords : v.op # "clear" => v.key \in Keys})
  <2>1. \A e \in 1..Len(ends), d \in 0..Len(ends) : d < e =>
            LastOf(d) < LastOf(e) \/ (LastOf(d) = LastOf(e) /\ ends[e].joined # {})
    BY DEF CachingTypeOK
  <2>2. \A e \in 1..Len(ends'), d \in 0..Len(ends') : d < e =>
            LastOf(d)' < LastOf(e)' \/ (LastOf(d)' = LastOf(e)' /\ ends'[e].joined # {})
    BY ONLY <1>1, <1>4, <2>1
  <2>3. LastEnd' = LastEnd
    BY <1>1, <1>4 DEF LastEnd
  <2>4. LastEnd' <= executed' /\ executed' \in 0..Len(writes')
    BY ONLY <1>1, <1>2, <1>3, <2>3
  <2> QED
    BY <1>3, <2>2, <2>4 DEF Writes
\* Without and with a resolution.
<1>8. CASE /\ cache' = [k \in Keys |-> IF k = w.key THEN entry ELSE cache[k]]
           /\ spoilt' = StillCached(cache', spoilt \ {w.key})
           /\ UNCHANGED <<resolved, resetDue>>
  <2>1. cache' \in [Keys -> Entries]
    BY <1>8 DEF CachingTypeOK, Entries, Queueable
  <2>2. CachingTypeOK'
    <3>1. spoilt' \subseteq {k \in Keys : Cached(k)'}
      BY <1>8 DEF CachingTypeOK, StillCached, Cached
    <3> QED
      BY <1>1, <1>8, <1>7, <2>1, <3>1 DEF CachingTypeOK, Entries
  <2>3. SnapshotIsBehind'
    BY <1>1, <1>2, <1>6, <1>8 DEF SnapshotIsBehind, Known
  <2>4. Uncommitted' = Uncommitted /\ Uncommitted \in 1..n
    BY <1>2, <1>4, <1>8 DEF Uncommitted
  <2>5. CacheIsAhead'
    <3> SUFFICES ASSUME NEW k \in Keys, Cached(k)', ~Queued(k)', k \notin spoilt'
                 PROVE  cache'[k].version = working'[k]
      BY DEF CacheIsAhead
    <3>1. k # w.key
      <4>1. Len(writes) + 1 \in Uncommitted'..Len(writes')
        BY <1>2, <1>3, <2>4
      <4> QED
        BY <1>3, <4>1 DEF Queued, Touches
    <3>2. cache'[k] = cache[k] /\ k \notin spoilt
      BY <1>8, <3>1 DEF StillCached, Cached
    <3>3. ASSUME NEW i \in Uncommitted..Len(writes), Touches(writes[i], k) PROVE FALSE
      <4>1. i \in 1..Len(writes) /\ i \in Uncommitted'..Len(writes')
        BY <1>2, <1>3, <2>4
      <4>2. writes'[i] = writes[i]
        BY <1>3, <4>1
      <4> QED
        BY <3>3, <4>1, <4>2 DEF Queued, Touches
    <3> QED
      BY <1>1, <3>2, <3>3 DEF CacheIsAhead, Cached, Queued
  <2>6. PinnedIsInFlight'
    <3> SUFFICES ASSUME NEW k \in Keys, cache'[k].pinned
                 PROVE  \E i \in Uncommitted'..Len(writes') : writes'[i].op = "put" /\ writes'[i].key = k
      BY DEF PinnedIsInFlight
    <3>1. CASE k = w.key
      BY <1>2, <1>3, <1>8, <2>4, <3>1 DEF Queueable
    <3>2. CASE k # w.key
      <4>1. PICK i \in Uncommitted..Len(writes) : writes[i].op = "put" /\ writes[i].key = k
        BY <1>8, <3>2 DEF PinnedIsInFlight
      <4> QED
        BY <1>2, <1>3, <2>4, <4>1
    <3> QED
      BY <3>1, <3>2
  <2> QED
    BY <1>5, <2>2, <2>3, <2>5, <2>6
<1>9. CASE \E upTo \in Known, used \in BOOLEAN :
           /\ resolved' = upTo
           /\ resetDue' = (resetDue \/ Commits(upTo))
           /\ cache' = [k \in Keys |-> IF k = w.key THEN entry ELSE AfterCommit(Uncommitted, used)[k]]
           /\ spoilt' = StillCached(cache', (spoilt \cup Cleared(upTo)) \ {w.key})
  <2>1. PICK upTo \in Known, used \in BOOLEAN :
           /\ resolved' = upTo
           /\ resetDue' = (resetDue \/ Commits(upTo))
           /\ cache' = [k \in Keys |-> IF k = w.key THEN entry ELSE AfterCommit(Uncommitted, used)[k]]
           /\ spoilt' = StillCached(cache', (spoilt \cup Cleared(upTo)) \ {w.key})
    BY <1>9
  <2>2. cache' \in [Keys -> Entries]
    BY <2>1, AfterCommitKeeps DEF Queueable
  <2>3. upTo \in 0..Len(ends) /\ Known' = (upTo + 1)..Len(ends) /\ resetDue' \in BOOLEAN
    BY <1>1, <1>2, <2>1 DEF Known, CachingTypeOK, Commits
  <2>4. Uncommitted' = LastOf(upTo) + 1 /\ Uncommitted' \in 1..n
    BY <1>2, <1>4, <2>1, <2>3 DEF Uncommitted
  <2>5. CachingTypeOK'
    <3>1. spoilt' \subseteq {k \in Keys : Cached(k)'}
      BY <2>1 DEF CachingTypeOK, StillCached, Cleared, Cached
    <3> QED
      BY <1>1, <1>7, <2>1, <2>2, <2>3, <3>1 DEF CachingTypeOK, Entries
  <2>6. SnapshotIsBehind'
    <3> SUFFICES ASSUME NEW k \in Keys, snapshot # None, snapshot[k] # db[k], ~resetDue'
                 PROVE  \E e \in Known' : Changed(e, k)'
      BY <1>1 DEF SnapshotIsBehind
    <3>1. ~Commits(upTo) /\ ~resetDue
      BY <2>1
    <3>2. PICK e \in (upTo + 1)..Len(ends) : Changed(e, k)
      BY <3>1, ResolvedSnapshot
    <3> QED
      BY <1>6, <2>3, <3>2
  <2>7. CacheIsAhead'
    <3> SUFFICES ASSUME NEW k \in Keys, Cached(k)', ~Queued(k)', k \notin spoilt'
                 PROVE  cache'[k].version = working'[k]
      BY DEF CacheIsAhead
    <3>1. k # w.key
      <4>1. Len(writes) + 1 \in Uncommitted'..Len(writes')
        BY <1>2, <1>3, <2>4
      <4> QED
        BY <1>3, <4>1 DEF Queued, Touches
    <3>2. /\ cache'[k] = AfterCommit(Uncommitted, used)[k] /\ cache'[k].version # 0
          /\ k \notin spoilt /\ k \notin Cleared(upTo)
      BY <2>1, <3>1 DEF StillCached, Cached
    <3>3. ASSUME NEW i \in (LastOf(upTo) + 1)..Len(writes), Touches(writes[i], k) PROVE FALSE
      <4>1. i \in 1..Len(writes) /\ i \in Uncommitted'..Len(writes')
        BY <1>2, <1>3, <2>3, <2>4
      <4>2. writes'[i] = writes[i]
        BY <1>3, <4>1
      <4> QED
        BY <3>3, <4>1, <4>2 DEF Queued, Touches
    <3> QED
      BY <1>1, <3>2, <3>3, ResolvedAgrees
  <2>8. PinnedIsInFlight'
    <3> SUFFICES ASSUME NEW k \in Keys, cache'[k].pinned
                 PROVE  \E i \in Uncommitted'..Len(writes') : writes'[i].op = "put" /\ writes'[i].key = k
      BY DEF PinnedIsInFlight
    <3>1. CASE k = w.key
      BY <1>2, <1>3, <2>1, <2>4, <3>1 DEF Queueable
    <3>2. CASE k # w.key
      <4>1. PICK i \in (LastOf(upTo) + 1)..Len(writes) : writes[i].op = "put" /\ writes[i].key = k
        BY <2>1, <3>2, ResolvedPinned
      <4> QED
        BY <1>2, <1>3, <2>3, <2>4, <4>1
    <3> QED
      BY <3>1, <3>2
  <2> QED
    BY <1>5, <2>5, <2>6, <2>7, <2>8
<1> QED
  BY <1>8, <1>9 DEF Queue

LEMMA QueueingCallsKeep ==
    ASSUME NEW k \in Keys, CachingInv, Put(k) \/ RemoveAsync(k)
    PROVE  CachingInv'
<1>1. MaxCalls \in Nat /\ called \in 0..MaxCalls
  BY CachingAssumption DEF CachingInv, CachingTypeOK
<1>2. Visible(k) \in Nat
  BY DEF Visible, Cached, Seen, CachingInv, CachingTypeOK
<1>3. \A name : Call(name) => called' \in 0..MaxCalls
  BY <1>1 DEF Call
<1>4. ASSUME NEW expects \in Nat \cup {NoCondition}, NEW pinned \in BOOLEAN,
             QueuePut(k, expects, pinned), called' \in 0..MaxCalls
      PROVE  CachingInv'
  <2> DEFINE w == [op |-> "put", key |-> k, version |-> called + 1, expects |-> expects]
  <2>1. Queueable(w, NewEntry(pinned))
    BY <1>1 DEF Queueable, Writes, WriteRecords, NewEntry, Entries
  <2> QED
    BY <1>4, <2>1, QueueKeeps DEF QueuePut
<1>5. CASE Put(k)
  BY <1>2, <1>3, <1>4, <1>5 DEF Put
<1>6. CASE RemoveAsync(k)
  <2>1. PICK expects \in {NoCondition, Visible(k)} :
            Queue([op |-> "remove", key |-> k, version |-> 0, expects |-> expects], NoEntry)
    BY <1>6 DEF RemoveAsync
  <2>2. Queueable([op |-> "remove", key |-> k, version |-> 0, expects |-> expects], NoEntry)
    BY <1>2 DEF Queueable, Writes, WriteRecords, NoEntry, Entries
  <2> QED
    BY <1>3, <1>6, <2>1, <2>2, QueueKeeps DEF RemoveAsync
<1> QED
  BY <1>5, <1>6

LEMMA ClearAsyncKeeps == CachingInv /\ ClearAsync => CachingInv'
<1> SUFFICES ASSUME CachingInv, ClearAsync PROVE CachingInv'
  OBVIOUS
<1>1. called' \in 0..MaxCalls
  BY CachingAssumption DEF CachingInv, CachingTypeOK, ClearAsync, Call
<1>2. Queueable([op |-> "clear", key |-> None, version |-> 0, expects |-> NoCondition], NoEntry)
  BY DEF Queueable, Writes, WriteRecords, NoEntry, Entries
<1> QED
  BY <1>1, <1>2, QueueKeeps DEF ClearAsync

\* A synchronous write keeps the invariant when each entry that the cache then
\* has is left as it was with its key, or is written.
LEMMA SyncKeeps ==
    ASSUME CachingInv, NEW w \in Writes, NEW c \in [Keys -> Entries], Sync(w, c),
           called' \in 0..MaxCalls,
           \A k \in Keys : c[k].pinned => c[k] = cache[k],
           \A k \in Keys : c[k].version # 0 =>
               \/ k \in Unwritten(w)
               \/ c[k].version = working'[k]
               \/ c[k] = cache[k] /\ working'[k] = working[k]
    PROVE  CachingInv'
<1> USE DEF CachingInv
<1>1. /\ working' = Written(working, w) /\ cache' = c /\ snapshot' = None
      /\ spoilt' = StillCached(c, (spoilt \ {k \in Keys : c[k] # cache[k]}) \cup Unwritten(w))
      /\ UNCHANGED <<writes, executed, ends, resolved, resetDue>>
  BY DEF Sync
<1>2. working' \in [Keys -> Nat]
  BY <1>1 DEF CachingTypeOK, Written, Writes, WriteRecords, Empty
<1>3. /\ db' \in [Keys -> Nat] /\ joined' \subseteq Keys
      /\ \/ /\ joined' = joined \cup {k \in Keys : working'[k] # working[k]}
            /\ db' = db
         \/ db' = working'
  BY <1>2 DEF Sync, CachingTypeOK
<1>4. CachingTypeOK'
  <2>1. spoilt' \subseteq {k \in Keys : Cached(k)'}
    BY <1>1 DEF CachingTypeOK, StillCached, Cached, Unwritten, Writes
  <2> QED
    BY <1>1, <1>2, <1>3, <2>1 DEF CachingTypeOK, Entries, LastEnd, LastOf
<1>5. WorkingIsAhead'
  BY <1>1, <1>3 DEF WorkingIsAhead, LastEnd, LastOf, Touches
<1>6. SnapshotIsBehind'
  BY <1>1 DEF SnapshotIsBehind
<1>7. \A k \in Keys : Queued(k)' = Queued(k)
  BY <1>1 DEF Queued, Uncommitted, LastOf, Touches
<1>8. CacheIsAhead'
  <2> SUFFICES ASSUME NEW k \in Keys, Cached(k)', ~Queued(k)', k \notin spoilt'
               PROVE  cache'[k].version = working'[k]
    BY DEF CacheIsAhead
  <2>1. /\ c[k].version # 0 /\ k \notin Unwritten(w)
        /\ c[k] = cache[k] => k \notin spoilt
    BY <1>1 DEF StillCached, Cached
  <2>2. CASE c[k].version = working'[k]
    BY <1>1, <2>2
  <2>3. CASE c[k] = cache[k] /\ working'[k] = working[k]
    BY <1>1, <1>7, <2>1, <2>3 DEF CacheIsAhead, Cached
  <2> QED
    BY <2>1, <2>2, <2>3
<1>9. PinnedIsInFlight'
  BY <1>1 DEF PinnedIsInFlight, Uncommitted, LastOf
<1> QED
  BY <1>4, <1>5, <1>6, <1>8, <1>9

LEMMA SynchronousCallsKeep ==
    ASSUME NEW k \in Keys, CachingInv, PutSync(k) \/ RemoveSync(k)
    PROVE  CachingInv'
<1>1. /\ working \in [Keys -> Nat] /\ cache \in [Keys -> Entries] /\ called \in Nat
      /\ Visible(k) \in Nat /\ called' \in 0..MaxCalls
  BY CachingAssumption DEF CachingInv, CachingTypeOK, Entries, Visible, Cached, Seen,
                           PutSync, RemoveSync, Call
<1>2. ASSUME NEW w \in Writes, w.op # "clear", w.key = k, NEW entry \in Entries, ~entry.pinned,
             entry.version \in {0, w.version}, Sync(w, [cache EXCEPT ![k] = entry])
      PROVE  CachingInv'
  <2> DEFINE c == [cache EXCEPT ![k] = entry]
  <2>1. c \in [Keys -> Entries] /\ c[k] = entry /\ \A j \in Keys \ {k} : c[j] = cache[j]
    BY <1>1
  <2>2. /\ k \in Unwritten(w) \/ working'[k] = w.version
        /\ \A j \in Keys \ {k} : working'[j] = working[j]
    BY <1>1, <1>2 DEF Sync, Written, Unwritten
  <2>3. Sync(w, c)
    BY <1>2
  <2> HIDE DEF c
  <2>4. \A j \in Keys : c[j].pinned => c[j] = cache[j]
    BY <1>2, <2>1
  <2>5. ASSUME NEW j \in Keys, c[j].version # 0
        PROVE  \/ j \in Unwritten(w)
               \/ c[j].version = working'[j]
               \/ c[j] = cache[j] /\ working'[j] = working[j]
    BY <1>2, <2>1, <2>2, <2>5
  <2> QED
    BY <1>1, <2>1, <2>3, <2>4, <2>5, SyncKeeps
<1>3. CASE PutSync(k)
  <2>1. PICK expects \in {NoCondition, 0, Visible(k)} :
            Sync([op |-> "put", key |-> k, version |-> called + 1, expects |-> expects], Putting(k))
    BY <1>3 DEF PutSync
  <2> DEFINE w == [op |-> "put", key |-> k, version |-> called + 1, expects |-> expects]
  <2>2. w \in Writes /\ w.op # "clear" /\ w.key = k /\ w.version = called + 1
    BY <1>1 DEF Writes, WriteRecords
  <2>3. NewEntry(FALSE) \in Entries /\ ~NewEntry(FALSE).pinned /\ NewEntry(FALSE).version = called + 1
    BY <1>1 DEF NewEntry, Entries
  <2>4. Sync(w, [cache EXCEPT ![k] = NewEntry(FALSE)])
    BY <2>1 DEF Putting
  <2> HIDE DEF w
  <2> QED
    BY <1>2, <2>2, <2>3, <2>4
<1>4. CASE RemoveSync(k)
  <2>1. PICK expects \in {NoCondition, Visible(k)} :
            Sync([op |-> "remove", key |-> k, version |-> 0, expects |-> expects],
                 [cache EXCEPT ![k] = NoEntry])
    BY <1>4 DEF RemoveSync
  <2> DEFINE w == [op |-> "remove", key |-> k, version |-> 0, expects |-> expects]
  <2>2. w \in Writes /\ w.op # "clear" /\ w.key = k /\ w.version = 0
    BY <1>1 DEF Writes, WriteRecords
  <2>3. NoEntry \in Entries /\ ~NoEntry.pinned /\ NoEntry.version = 0
    BY DEF NoEntry, Entries
  <2>4. Sync(w, [cache EXCEPT ![k] = NoEntry])
    BY <2>1
  <2> HIDE DEF w
  <2> QED
    BY <1>2, <2>2, <2>3, <2>4
<1> QED
  BY <1>3, <1>4

LEMMA ClearSyncKeeps == CachingInv /\ ClearSync => CachingInv'
<1> SUFFICES ASSUME CachingInv, ClearSync PROVE CachingInv'
  OBVIOUS
<1> DEFINE w == [op |-> "clear", key |-> None, version |-> 0, expects |-> NoCondition]
<1>1. cache \in [Keys -> Entries] /\ called' \in 0..MaxCalls
  BY CachingAssumption DEF CachingInv, CachingTypeOK, Entries, ClearSync, Call
<1>2. w \in Writes /\ Unwritten(w) = Keys
  BY DEF Writes, WriteRecords, Unwritten
<1>3. Sync(w, cache)
  BY DEF ClearSync
<1> HIDE DEF w
<1> QED
  BY <1>1, <1>2, <1>3, SyncKeeps

LEMMA PutAbortedKeeps == ASSUME NEW k \in Keys PROVE CachingInv /\ PutAborted(k) => CachingInv'
<1> SUFFICES ASSUME CachingInv, PutAborted(k) PROVE CachingInv'
  OBVIOUS
<1> USE DEF CachingInv
<1>1. /\ cache' = [cache EXCEPT ![k] = NewEntry(FALSE)] /\ spoilt' = spoilt \cup {k}
      /\ UNCHANGED <<db, working, writes, executed, joined, ends, resolved, resetDue, snapshot>>
      /\ called \in Nat /\ called' \in 0..MaxCalls
  BY CachingAssumption DEF PutAborted, Putting, Call, CachingTypeOK
<1>2. /\ cache' \in [Keys -> Entries] /\ cache'[k] = [version |-> called + 1, pinned |-> FALSE]
      /\ \A j \in Keys \ {k} : cache'[j] = cache[j]
  BY <1>1 DEF CachingTypeOK, Entries, NewEntry
<1>3. CachingTypeOK'
  <2>1. spoilt' \subseteq {j \in Keys : Cached(j)'}
    <3>1. \A j \in spoilt : j \in Keys /\ Cached(j)
      BY DEF CachingTypeOK
    <3>2. called + 1 # 0 /\ cache'[k].version = called + 1
      <4>1. called \in Nat
        BY <1>1
      <4>2. cache'[k] = [version |-> called + 1, pinned |-> FALSE]
        BY <1>2
      <4> QED
        BY ONLY <4>1, <4>2
    <3>3. Cached(k)'
      BY <3>2 DEF Cached
    <3>4. \A j \in Keys \ {k} : Cached(j) => Cached(j)'
      BY <1>2 DEF Cached
    <3> QED
      BY <1>1, <3>1, <3>3, <3>4
  <2> QED
    BY <1>1, <1>2, <2>1 DEF CachingTypeOK, Entries, LastEnd, LastOf
<1>4. WorkingIsAhead'
  BY <1>1 DEF WorkingIsAhead, LastEnd, LastOf, Touches
<1>5. SnapshotIsBehind'
  BY <1>1 DEF SnapshotIsBehind, Known, Changed, LastOf, Touches
<1>6. \A j \in Keys : Queued(j)' = Queued(j)
  BY <1>1 DEF Queued, Uncommitted, LastOf, Touches
<1>7. CacheIsAhead'
  BY <1>1, <1>2, <1>6 DEF CacheIsAhead, Cached
<1>8. PinnedIsInFlight'
  <2>1. \A j \in Keys : cache'[j].pinned => cache[j].pinned
    BY <1>2
  <2>2. Uncommitted' = Uncommitted /\ writes' = writes
    BY <1>1 DEF Uncommitted, LastOf
  <2> QED
    BY <2>1, <2>2 DEF PinnedIsInFlight
<1> QED
  BY <1>3, <1>4, <1>5, <1>7, <1>8

LEMMA EvictKeeps == ASSUME NEW k \in Keys PROVE CachingInv /\ Evict(k) => CachingInv'
<1> SUFFICES ASSUME CachingInv, Evict(k) PROVE CachingInv'
  OBVIOUS
<1> USE DEF CachingInv
<1>1. /\ cache' = [cache EXCEPT ![k] = NoEntry] /\ spoilt' = spoilt \ {k}
      /\ UNCHANGED <<db, working, writes, executed, joined, ends, resolved, resetDue, snapshot, called>>
  BY DEF Evict
<1>2. /\ cache' \in [Keys -> Entries] /\ cache'[k] = NoEntry
      /\ \A j \in Keys \ {k} : cache'[j] = cache[j]
  BY <1>1 DEF CachingTypeOK, Entries, NoEntry
<1>3. CachingTypeOK'
  <2>1. spoilt' \subseteq {j \in Keys : Cached(j)'}
    BY <1>1, <1>2 DEF CachingTypeOK, Cached
  <2> QED
    BY <1>1, <1>2, <2>1 DEF CachingTypeOK, Entries, LastEnd, LastOf
<1>4. WorkingIsAhead'
  BY <1>1 DEF WorkingIsAhead, LastEnd, LastOf, Touches
<1>5. SnapshotIsBehind'
  BY <1>1 DEF SnapshotIsBehind, Known, Changed, LastOf, Touches
<1>6. \A j \in Keys : Queued(j)' = Queued(j)
  BY <1>1 DEF Queued, Uncommitted, LastOf, Touches
<1>7. CacheIsAhead'
  BY <1>1, <1>2, <1>6 DEF CacheIsAhead, Cached, NoEntry
<1>8. PinnedIsInFlight'
  BY <1>1, <1>2 DEF PinnedIsInFlight, Uncommitted, LastOf, NoEntry
<1> QED
  BY <1>3, <1>4, <1>5, <1>7, <1>8

LEMMA StutterKeeps == CachingInv /\ UNCHANGED cachingVars => CachingInv'
<1> SUFFICES ASSUME CachingInv, UNCHANGED cachingVars PROVE CachingInv'
  OBVIOUS
<1> USE DEF CachingInv, cachingVars
<1>1. CachingTypeOK'
  BY DEF CachingTypeOK, LastEnd, LastOf, Cached
<1>2. WorkingIsAhead' /\ SnapshotIsBehind'
  BY DEF WorkingIsAhead, SnapshotIsBehind, Known, Changed, LastEnd, LastOf, Touches
<1> QED
  BY <1>1, <1>2, CacheUntouched

-----------------------------------------------------------------------------
(* The theorems.                                                            *)

LEMMA CachingInvHolds == CachingSpec => []CachingInv
<1>1. CachingInv /\ [CachingNext]_cachingVars => CachingInv'
  <2> SUFFICES ASSUME CachingInv, [CachingNext]_cachingVars PROVE CachingInv'
    OBVIOUS
  <2>1. CASE Execute
    BY <2>1, ExecuteKeeps
  <2>2. CASE \E committed \in BOOLEAN : EndTxn(committed)
    BY <2>2, EndTxnKeeps
  <2>3. CASE ResolveLater \/ Reset
    BY <2>3, ResolveLaterKeeps, ResetKeeps
  <2>4. CASE ClearAsync \/ ClearSync
    BY <2>4, ClearAsyncKeeps, ClearSyncKeeps
  <2>5. ASSUME NEW k \in Keys, Put(k) \/ RemoveAsync(k)
        PROVE  CachingInv'
    BY <2>5, QueueingCallsKeep
  <2>6. ASSUME NEW k \in Keys, PutSync(k) \/ RemoveSync(k) \/ PutAborted(k)
        PROVE  CachingInv'
    BY <2>6, SynchronousCallsKeep, PutAbortedKeeps
  <2>7. ASSUME NEW k \in Keys, Get(k) \/ Evict(k)
        PROVE  CachingInv'
    BY <2>7, GetKeeps, EvictKeeps
  <2>8. CASE UNCHANGED cachingVars
    BY <2>8, StutterKeeps
  <2> QED
    BY <2>1, <2>2, <2>3, <2>4, <2>5, <2>6, <2>7, <2>8 DEF CachingNext
<1> QED
  BY <1>1, InitEstablishes, PTL DEF CachingSpec

\* The types, and that transactions end in order at executed writes.
THEOREM CachingTyped == CachingSpec => []CachingTypeOK
<1>1. CachingInv => CachingTypeOK
  BY DEF CachingInv
<1> QED
  BY <1>1, CachingInvHolds, PTL

\* With no write of a key in flight get() answers from the cache what is in the
\* database, but for the entries that the calls named in spoilt leave.
THEOREM CacheIsRight == CachingSpec => []CacheAgreesUnlessSpoilt
<1>1. CachingInv => CacheAgreesUnlessSpoilt
  <2> SUFFICES ASSUME CachingInv, NEW k \in Keys, Cached(k), ~InFlight(k), k \notin spoilt
               PROVE  cache[k].version = db[k]
    BY DEF CacheAgreesUnlessSpoilt
  <2>1. cache[k].version = working[k] /\ ~Queued(k) /\ k \notin joined
    BY DEF InFlight, CachingInv, CacheIsAhead
  <2>2. ASSUME NEW i \in (LastEnd + 1)..executed, Touches(writes[i], k) PROVE FALSE
    <3>1. i \in Uncommitted..Len(writes)
      BY UnresolvedTail DEF CachingInv
    <3> QED
      BY <2>1, <2>2, <3>1 DEF Queued
  <2> QED
    BY <2>1, <2>2 DEF CachingInv, WorkingIsAhead
<1> QED
  BY <1>1, CachingInvHolds, PTL

\* No entry stays pinned after its put: the cache does not leak.
THEOREM PinsEnd == CachingSpec => []PinnedIsInFlight
<1>1. CachingInv => PinnedIsInFlight
  BY DEF CachingInv
<1> QED
  BY <1>1, CachingInvHolds, PTL

=============================================================================
