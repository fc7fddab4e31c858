--------------------------- MODULE ReadTxnsProofs ---------------------------
(* The invariants of read transactions and iterators, for any number of     *)
(* commits and iterators.                                                   *)
EXTENDS ReadTxns, SequenceTheorems, FiniteSetTheorems, TLAPS

ReadTxnRecords == [snapshot : Nat, cursorCount : Int, renewing : Int,
                   onlyCursor : BOOLEAN, isAborted : BOOLEAN]
CursorRecords == [txn : Nat, open : BOOLEAN, at : Nat]
Readers == [txns : Seq(ReadTxnRecords), readTxn : Nat, renewed : BOOLEAN,
            currentReadTxn : Nat, nativeRenewed : BOOLEAN,
            cursors : Seq(CursorRecords), available : Nat, cursorTxn : Nat]
Iterators == [pc : {"open", "done"}, snapshot : BOOLEAN, current : BOOLEAN,
              started : BOOLEAN, txn : Nat, cursor : Nat, since : Nat, stale : BOOLEAN]

\* The iterators on a transaction, and those of them without a snapshot.
OpenIn(rs, t) == {i \in DOMAIN rs : rs[i].pc = "open" /\ rs[i].txn = t}
RenewingIn(rs, t) == {i \in OpenIn(rs, t) : ~rs[i].snapshot}

Typed(r, rs) ==
    /\ r \in Readers
    /\ rs \in Seq(Iterators)
    /\ r.readTxn \in 0..Len(r.txns)
    /\ r.currentReadTxn \in 0..Len(r.txns)
    /\ r.available \in 0..Len(r.cursors)
    /\ r.cursorTxn \in 0..Len(r.txns)
    /\ \A t \in DOMAIN r.txns : r.txns[t].snapshot \in 0..head
    /\ \A c \in DOMAIN r.cursors : r.cursors[c].txn \in DOMAIN r.txns

\* The shared transaction, as JavaScript and C++ see it.
Shared(r) ==
    /\ r.readTxn # 0 =>
          /\ r.currentReadTxn = r.readTxn
          /\ ~r.txns[r.readTxn].isAborted
          /\ ~r.txns[r.readTxn].onlyCursor
    /\ r.renewed =>
          /\ r.readTxn # 0
          /\ r.txns[r.readTxn].snapshot # 0
          /\ r.txns[r.readTxn].snapshot >= settled

\* Another transaction is left to the iterators that use it, or aborted.
Retired(r, rs) ==
    \A t \in DOMAIN r.txns : t # r.readTxn =>
        \/ r.txns[t].isAborted /\ r.txns[t].snapshot = 0
        \/ r.txns[t].onlyCursor /\ OpenIn(rs, t) # {}

Counted(r, rs) ==
    \A t \in DOMAIN r.txns : ~r.txns[t].isAborted =>
        /\ r.txns[t].cursorCount = Cardinality(OpenIn(rs, t))
        /\ r.txns[t].renewing = Cardinality(RenewingIn(rs, t))

\* What an iterator relies on.
Uses(r, it) ==
    it.pc = "open" =>
        /\ it.txn \in DOMAIN r.txns
        /\ ~r.txns[it.txn].isAborted
        /\ it.snapshot \/ it.current => r.txns[it.txn].snapshot # 0
        /\ it.cursor \in DOMAIN r.cursors
        /\ it.cursor # r.available
        /\ r.cursors[it.cursor].open
        /\ r.cursors[it.cursor].txn = it.txn

Used(r, rs) == \A i \in DOMAIN rs : Uses(r, rs[i])

Own(rs) ==
    \A i, j \in DOMAIN rs :
        rs[i].pc = "open" /\ rs[j].pc = "open" /\ i # j => rs[i].cursor # rs[j].cursor

Spare(r) ==
    r.available # 0 =>
        r.cursors[r.available].open /\ r.cursors[r.available].txn = r.cursorTxn

\* The inductive invariant, of any reader and iterators: helpers of read.js
\* are applied one after the other within a step.
Consistent(r, rs) ==
    /\ Typed(r, rs)
    /\ Shared(r)
    /\ Retired(r, rs)
    /\ Counted(r, rs)
    /\ Used(r, rs)
    /\ Own(rs)
    /\ Spare(r)

Bounds == head \in 1..MaxCommits /\ settled \in 1..head /\ Len(ranges) <= MaxRanges

ReadsInv == Bounds /\ Consistent(reader, ranges)

-----------------------------------------------------------------------------
(* Sequences and counts.                                                    *)

LEMMA Replaced ==
    ASSUME NEW S, NEW s \in Seq(S), NEW i \in DOMAIN s, NEW e \in S
    PROVE  /\ [s EXCEPT ![i] = e] \in Seq(S)
           /\ Len([s EXCEPT ![i] = e]) = Len(s)
           /\ DOMAIN [s EXCEPT ![i] = e] = DOMAIN s
BY ExceptSeq

LEMMA Appended ==
    ASSUME NEW S, NEW s \in Seq(S), NEW e \in S
    PROVE  /\ Append(s, e) \in Seq(S)
           /\ Len(Append(s, e)) = Len(s) + 1
           /\ DOMAIN Append(s, e) = DOMAIN s \cup {Len(s) + 1}
           /\ \A i \in DOMAIN s : Append(s, e)[i] = s[i]
           /\ Append(s, e)[Len(s) + 1] = e
           /\ Len(s) + 1 \notin DOMAIN s
BY AppendProperties

\* The sets that are counted are finite.
LEMMA FiniteOpen ==
    ASSUME NEW rs \in Seq(Iterators), NEW t
    PROVE  /\ IsFiniteSet(OpenIn(rs, t))
           /\ IsFiniteSet(RenewingIn(rs, t))
           /\ Cardinality(OpenIn(rs, t)) \in Nat
           /\ Cardinality(RenewingIn(rs, t)) \in Nat
<1>1. DOMAIN rs = 1..Len(rs) /\ Len(rs) \in Nat
  BY LenProperties
<1>2. IsFiniteSet(1..Len(rs))
  BY <1>1, FS_Interval
<1>3. IsFiniteSet(OpenIn(rs, t))
  BY <1>1, <1>2, FS_Subset DEF OpenIn
<1>4. IsFiniteSet(RenewingIn(rs, t))
  BY <1>3, FS_Subset DEF RenewingIn
<1> QED
  BY <1>3, <1>4, FS_CardinalityType

\* No iterator without a snapshot, or only such iterators, by the counts.
LEMMA OnlyRenewing ==
    ASSUME NEW rs \in Seq(Iterators), NEW t,
           ~(Cardinality(OpenIn(rs, t)) - Cardinality(RenewingIn(rs, t)) > 0)
    PROVE  \A i \in OpenIn(rs, t) : ~rs[i].snapshot
<1>1. RenewingIn(rs, t) \subseteq OpenIn(rs, t)
  BY DEF RenewingIn
<1>2. Cardinality(RenewingIn(rs, t)) <= Cardinality(OpenIn(rs, t))
  BY <1>1, FiniteOpen, FS_Subset
<1>3. Cardinality(RenewingIn(rs, t)) = Cardinality(OpenIn(rs, t))
  BY <1>2, FiniteOpen
<1>4. RenewingIn(rs, t) = OpenIn(rs, t)
  BY <1>1, <1>3, FiniteOpen, FS_Subset
<1> QED
  BY <1>4 DEF RenewingIn

LEMMA NoneOpen == ASSUME NEW rs, NEW t, OpenIn(rs, t) = {}
    PROVE Cardinality(OpenIn(rs, t)) = 0 /\ Cardinality(RenewingIn(rs, t)) = 0
BY FS_EmptySet DEF RenewingIn

-----------------------------------------------------------------------------
(* The shared transaction is renewed.                                       *)

\* What the helpers are applied under.
Applied(r, rs) == Consistent(r, rs) /\ head \in Nat \ {0} /\ settled \in 1..head

\* A new snapshot of the shared transaction.
LEMMA SnapshotTaken ==
    ASSUME NEW r, NEW rs, NEW n, NEW b \in BOOLEAN, NEW c \in BOOLEAN,
           Applied(r, rs), r.readTxn # 0,
           n = [r EXCEPT !.renewed = b, !.nativeRenewed = c,
                         !.txns[r.readTxn].snapshot = head]
    PROVE  /\ Consistent(n, rs)
           /\ \A t \in DOMAIN r.txns : n.txns[t].isAborted = r.txns[t].isAborted
<1> DEFINE t0 == r.readTxn
           txn == [r.txns[t0] EXCEPT !.snapshot = head]
<1>1. /\ r \in Readers /\ rs \in Seq(Iterators) /\ t0 \in DOMAIN r.txns
      /\ r.txns \in Seq(ReadTxnRecords) /\ r.txns[t0] \in ReadTxnRecords
  <2>1. r \in Readers /\ rs \in Seq(Iterators) /\ t0 \in 1..Len(r.txns)
    BY DEF Applied, Consistent, Typed, Readers
  <2>2. r.txns \in Seq(ReadTxnRecords)
    BY <2>1 DEF Readers
  <2> QED
    BY <2>1, <2>2, LenProperties, ElementOfSeq
<1>2. txn \in ReadTxnRecords /\ txn.snapshot = head
      /\ txn.cursorCount = r.txns[t0].cursorCount /\ txn.renewing = r.txns[t0].renewing
      /\ txn.onlyCursor = r.txns[t0].onlyCursor /\ txn.isAborted = r.txns[t0].isAborted
  BY <1>1 DEF ReadTxnRecords, Applied
<1>3. n.txns = [r.txns EXCEPT ![t0] = txn] /\ n.renewed = b /\ n.nativeRenewed = c
      /\ n.readTxn = t0 /\ n.currentReadTxn = r.currentReadTxn /\ n.cursors = r.cursors
      /\ n.available = r.available /\ n.cursorTxn = r.cursorTxn
  BY <1>1 DEF Readers
<1>4. n.txns \in Seq(ReadTxnRecords) /\ Len(n.txns) = Len(r.txns)
      /\ DOMAIN n.txns = DOMAIN r.txns
  BY <1>1, <1>2, <1>3, Replaced
<1>5. /\ n.txns[t0] = txn
      /\ \A t \in DOMAIN r.txns : t # t0 => n.txns[t] = r.txns[t]
  BY <1>1, <1>3
<1>6. n \in Readers
  BY <1>1, <1>4 DEF Readers
<1>7. Typed(n, rs)
  BY <1>1, <1>2, <1>3, <1>4, <1>5, <1>6 DEF Applied, Consistent, Typed
<1>8. Shared(n)
  <2>1. n.txns[n.readTxn] = txn /\ n.readTxn # 0
    BY <1>3, <1>5, <1>1
  <2>2. /\ n.currentReadTxn = n.readTxn
        /\ ~n.txns[n.readTxn].isAborted /\ ~n.txns[n.readTxn].onlyCursor
    BY <1>2, <1>3, <2>1 DEF Applied, Consistent, Shared
  <2>3. head # 0 /\ head >= settled
    BY DEF Applied
  <2>4. n.txns[n.readTxn].snapshot = head
    BY <1>2, <2>1, Zenon
  <2> QED
    BY <2>1, <2>2, <2>3, <2>4 DEF Shared
<1>9. Retired(n, rs)
  BY <1>3, <1>4, <1>5 DEF Applied, Consistent, Retired
<1>10. Counted(n, rs)
  BY <1>1, <1>2, <1>4, <1>5 DEF Applied, Consistent, Counted
<1>11. Used(n, rs)
  BY <1>1, <1>2, <1>3, <1>4, <1>5 DEF Applied, Consistent, Used, Uses
<1> QED
  BY <1>2, <1>3, <1>4, <1>5, <1>7, <1>8, <1>9, <1>10, <1>11 DEF Applied, Consistent, Spare

\* A transaction is begun when there is none to share.
LEMMA TxnBegun ==
    ASSUME NEW r, NEW rs, NEW n, Applied(r, rs), r.readTxn = 0,
           n = [r EXCEPT !.renewed = TRUE, !.txns = Append(@, NewTxn),
                         !.readTxn = Len(r.txns) + 1, !.currentReadTxn = Len(r.txns) + 1]
    PROVE  Consistent(n, rs)
<1> DEFINE t0 == Len(r.txns) + 1
<1>1. /\ r \in Readers /\ rs \in Seq(Iterators)
      /\ r.txns \in Seq(ReadTxnRecords) /\ NewTxn \in ReadTxnRecords
      /\ DOMAIN r.txns = 1..Len(r.txns) /\ Len(r.txns) \in Nat
  <2>1. r \in Readers /\ rs \in Seq(Iterators)
    BY DEF Applied, Consistent, Typed
  <2>2. r.txns \in Seq(ReadTxnRecords)
    BY <2>1 DEF Readers
  <2>3. NewTxn \in ReadTxnRecords
    BY DEF Applied, NewTxn, ReadTxnRecords
  <2> QED
    BY <2>1, <2>2, <2>3, LenProperties
<1>2. n.txns = Append(r.txns, NewTxn) /\ n.renewed = TRUE /\ n.nativeRenewed = r.nativeRenewed
      /\ n.readTxn = t0 /\ n.currentReadTxn = t0 /\ n.cursors = r.cursors
      /\ n.available = r.available /\ n.cursorTxn = r.cursorTxn
  BY <1>1 DEF Readers
<1>3. /\ n.txns \in Seq(ReadTxnRecords) /\ Len(n.txns) = t0
      /\ DOMAIN n.txns = DOMAIN r.txns \cup {t0} /\ t0 \notin DOMAIN r.txns
      /\ \A t \in DOMAIN r.txns : n.txns[t] = r.txns[t]
      /\ n.txns[t0] = NewTxn
  BY <1>1, <1>2, Appended
<1>4. n \in Readers
  <2>1. t0 \in Nat /\ Append(r.txns, NewTxn) \in Seq(ReadTxnRecords)
    BY <1>1, <1>2, <1>3
  <2>2. n = [r EXCEPT !.renewed = TRUE, !.txns = Append(r.txns, NewTxn),
                      !.readTxn = t0, !.currentReadTxn = t0]
    BY <1>1 DEF Readers
  <2> HIDE DEF t0
  <2> QED
    BY <1>1, <2>1, <2>2 DEF Readers
<1>5. Typed(n, rs)
  <2>1. \A t \in DOMAIN n.txns : n.txns[t].snapshot \in 0..head
    BY <1>3 DEF Applied, Consistent, Typed, NewTxn
  <2> QED
    BY <1>1, <1>2, <1>3, <1>4, <2>1 DEF Applied, Consistent, Typed
<1>6. Shared(n)
  BY <1>1, <1>2, <1>3 DEF Applied, Shared, NewTxn
<1>7. Retired(n, rs)
  BY <1>1, <1>2, <1>3 DEF Applied, Consistent, Retired
<1>8. OpenIn(rs, t0) = {}
  BY <1>3 DEF Applied, Consistent, Used, Uses, OpenIn
<1>9. Counted(n, rs)
  BY <1>3, <1>8, NoneOpen DEF Applied, Consistent, Counted, NewTxn
<1>10. Used(n, rs)
  BY <1>2, <1>3 DEF Applied, Consistent, Used, Uses
<1> QED
  BY <1>2, <1>5, <1>6, <1>7, <1>9, <1>10 DEF Applied, Consistent, Spare

\* renewReadTxn, or the transaction that is renewed already.
LEMMA RenewedKeeps ==
    ASSUME NEW r, NEW rs, Applied(r, rs)
    PROVE  /\ Consistent(Renewed(r), rs)
           /\ Renewed(r).renewed
           /\ Renewed(r).cursors = r.cursors
           /\ Renewed(r).available = r.available
           /\ Renewed(r).cursorTxn = r.cursorTxn
<1>0. r \in Readers
  BY DEF Applied, Consistent, Typed
<1>1. CASE r.renewed
  BY <1>0, <1>1 DEF Applied, Renewed
<1>2. CASE ~r.renewed /\ r.readTxn # 0
  <2> DEFINE n == [r EXCEPT !.renewed = TRUE, !.txns[r.readTxn].snapshot = head]
  <2>1. Renewed(r) = n
    BY <1>2 DEF Renewed
  <2>2. n = [r EXCEPT !.renewed = TRUE, !.nativeRenewed = r.nativeRenewed,
                      !.txns[r.readTxn].snapshot = head]
    BY <1>0 DEF Readers
  <2>3. r.nativeRenewed \in BOOLEAN
    BY <1>0 DEF Readers
  <2>4. Consistent(n, rs)
    BY <1>2, <2>2, <2>3, SnapshotTaken
  <2>5. n.renewed /\ n.cursors = r.cursors /\ n.available = r.available
        /\ n.cursorTxn = r.cursorTxn
    BY <1>0 DEF Readers
  <2> QED
    BY <2>1, <2>4, <2>5
<1>3. CASE ~r.renewed /\ r.readTxn = 0
  <2> DEFINE n == [r EXCEPT !.renewed = TRUE, !.txns = Append(@, NewTxn),
                            !.readTxn = Len(r.txns) + 1, !.currentReadTxn = Len(r.txns) + 1]
  <2>1. Renewed(r) = n
    BY <1>3 DEF Renewed
  <2>2. Consistent(n, rs)
    BY <1>3, TxnBegun
  <2>3. n.renewed /\ n.cursors = r.cursors /\ n.available = r.available
        /\ n.cursorTxn = r.cursorTxn
    BY <1>0 DEF Readers
  <2> QED
    BY <2>1, <2>2, <2>3
<1> QED
  BY <1>1, <1>2, <1>3

\* EnvWrap::getReadTxn after it.
LEMMA GetReadTxnKeeps ==
    ASSUME NEW r, NEW rs, Applied(r, rs), r.renewed
    PROVE  /\ Consistent(GetReadTxn(r), rs)
           /\ GetReadTxn(r).renewed
           /\ GetReadTxn(r).readTxn = r.readTxn
           /\ GetReadTxn(r).currentReadTxn = r.readTxn
           /\ GetReadTxn(r).cursors = r.cursors
           /\ GetReadTxn(r).available = r.available
           /\ GetReadTxn(r).cursorTxn = r.cursorTxn
<1>0. r \in Readers /\ r.readTxn # 0 /\ r.currentReadTxn = r.readTxn
  BY DEF Applied, Consistent, Typed, Shared
<1>1. CASE r.nativeRenewed
  BY <1>0, <1>1 DEF Applied, GetReadTxn
<1>2. CASE ~r.nativeRenewed
  <2> DEFINE n == [r EXCEPT !.nativeRenewed = TRUE, !.txns[r.currentReadTxn].snapshot = head]
  <2>1. GetReadTxn(r) = n
    BY <1>2 DEF GetReadTxn
  <2>2. n = [r EXCEPT !.renewed = r.renewed, !.nativeRenewed = TRUE,
                      !.txns[r.readTxn].snapshot = head]
    BY <1>0 DEF Readers
  <2>3. r.renewed \in BOOLEAN
    BY <1>0 DEF Readers
  <2>4. Consistent(n, rs)
    BY <1>0, <2>2, <2>3, SnapshotTaken
  <2>5. n.renewed /\ n.cursors = r.cursors /\ n.available = r.available
        /\ n.readTxn = r.readTxn /\ n.currentReadTxn = r.readTxn /\ n.cursorTxn = r.cursorTxn
    BY <1>0 DEF Readers
  <2> QED
    BY <2>1, <2>4, <2>5
<1> QED
  BY <1>1, <1>2

-----------------------------------------------------------------------------
(* A cursor is taken.                                                       *)

\* Cursor c is bound to the shared transaction and belongs to nobody yet.
Ready(r, rs, c) ==
    /\ r.renewed
    /\ c \in DOMAIN r.cursors
    /\ c # r.available
    /\ r.cursors[c].open
    /\ r.cursors[c].txn = r.readTxn
    /\ \A i \in DOMAIN rs : rs[i].pc = "open" => rs[i].cursor # c

\* A new one.
LEMMA CursorMade ==
    ASSUME NEW r, NEW rs, NEW n, Applied(r, rs), r.renewed, r.available = 0,
           n = [r EXCEPT !.cursors = Append(r.cursors, NewCursor(r.readTxn))]
    PROVE  Consistent(n, rs) /\ n.readTxn = r.readTxn /\ Ready(n, rs, Len(r.cursors) + 1)
<1> DEFINE c0 == Len(r.cursors) + 1
           cursor == NewCursor(r.readTxn)
<1>1. /\ r \in Readers /\ rs \in Seq(Iterators) /\ r.cursors \in Seq(CursorRecords)
      /\ r.txns \in Seq(ReadTxnRecords) /\ r.readTxn \in DOMAIN r.txns
      /\ Len(r.cursors) \in Nat /\ DOMAIN r.cursors = 1..Len(r.cursors)
  <2>1. r \in Readers /\ rs \in Seq(Iterators) /\ r.readTxn \in 1..Len(r.txns)
    BY DEF Applied, Consistent, Typed, Shared
  <2>2. r.txns \in Seq(ReadTxnRecords) /\ r.cursors \in Seq(CursorRecords)
    BY <2>1 DEF Readers
  <2> QED
    BY <2>1, <2>2, LenProperties
<1>2. cursor \in CursorRecords /\ cursor.open /\ cursor.txn = r.readTxn
  <2>1. r.readTxn \in Nat
    BY <1>1 DEF Readers
  <2> QED
    BY <2>1 DEF NewCursor, CursorRecords
<1> HIDE DEF cursor
<1>3. /\ n.cursors = Append(r.cursors, cursor)
      /\ n.txns = r.txns /\ n.renewed = r.renewed /\ n.readTxn = r.readTxn
      /\ n.currentReadTxn = r.currentReadTxn /\ n.available = r.available
      /\ n.cursorTxn = r.cursorTxn /\ n.nativeRenewed = r.nativeRenewed
  BY <1>1 DEF Readers, cursor
<1>4. /\ n.cursors \in Seq(CursorRecords) /\ Len(n.cursors) = c0
      /\ DOMAIN n.cursors = DOMAIN r.cursors \cup {c0} /\ c0 \notin DOMAIN r.cursors
      /\ \A c \in DOMAIN r.cursors : n.cursors[c] = r.cursors[c]
      /\ n.cursors[c0] = cursor
  BY <1>1, <1>2, <1>3, Appended
<1>5. n \in Readers
  BY <1>1, <1>3, <1>4 DEF Readers
<1>6. Typed(n, rs)
  BY <1>1, <1>2, <1>3, <1>4, <1>5 DEF Applied, Consistent, Typed
<1>7. Used(n, rs)
  BY <1>3, <1>4 DEF Applied, Consistent, Used, Uses
<1>8. Shared(n) /\ Retired(n, rs) /\ Counted(n, rs) /\ Own(rs) /\ Spare(n)
  BY <1>3 DEF Applied, Consistent, Shared, Retired, Counted, Spare
<1>9. Ready(n, rs, c0)
  <2>1. \A i \in DOMAIN rs : rs[i].pc = "open" => rs[i].cursor # c0
    BY <1>4 DEF Applied, Consistent, Used, Uses
  <2>2. c0 # 0
    BY <1>1
  <2> QED
    BY <1>2, <1>3, <1>4, <2>1, <2>2 DEF Ready
<1> QED
  BY <1>3, <1>6, <1>7, <1>8, <1>9 DEF Consistent

\* The one that was kept changes and is kept no longer.
SpareReplaced(r, cursor) ==
    [r EXCEPT !.cursors = [r.cursors EXCEPT ![r.available] = cursor], !.available = 0]

LEMMA SpareGone ==
    ASSUME NEW r, NEW rs, NEW n, NEW cursor \in CursorRecords,
           Applied(r, rs), r.available # 0, cursor.txn \in DOMAIN r.txns,
           n = SpareReplaced(r, cursor)
    PROVE  /\ Consistent(n, rs)
           /\ n.readTxn = r.readTxn /\ n.renewed = r.renewed /\ n.available = 0
           /\ r.available \in DOMAIN n.cursors /\ n.cursors[r.available] = cursor
           /\ \A i \in DOMAIN rs : rs[i].pc = "open" => rs[i].cursor # r.available
<1> DEFINE c0 == r.available
<1>1. /\ r \in Readers /\ rs \in Seq(Iterators) /\ r.cursors \in Seq(CursorRecords)
      /\ r.txns \in Seq(ReadTxnRecords)
      /\ c0 \in DOMAIN r.cursors
  <2>1. r \in Readers /\ rs \in Seq(Iterators) /\ c0 \in 1..Len(r.cursors)
    BY DEF Applied, Consistent, Typed
  <2>2. r.txns \in Seq(ReadTxnRecords) /\ r.cursors \in Seq(CursorRecords)
    BY <2>1 DEF Readers
  <2> QED
    BY <2>1, <2>2, LenProperties
<1>3. /\ n.cursors = [r.cursors EXCEPT ![c0] = cursor]
      /\ n.txns = r.txns /\ n.renewed = r.renewed /\ n.readTxn = r.readTxn
      /\ n.currentReadTxn = r.currentReadTxn /\ n.available = 0
      /\ n.cursorTxn = r.cursorTxn /\ n.nativeRenewed = r.nativeRenewed
  BY <1>1 DEF Readers, SpareReplaced
<1>4. /\ n.cursors \in Seq(CursorRecords) /\ Len(n.cursors) = Len(r.cursors)
      /\ DOMAIN n.cursors = DOMAIN r.cursors
      /\ \A c \in DOMAIN r.cursors : c # c0 => n.cursors[c] = r.cursors[c]
      /\ n.cursors[c0] = cursor
  BY <1>1, <1>3, Replaced
<1>5. n \in Readers
  BY <1>1, <1>3, <1>4 DEF Readers, SpareReplaced
<1>6. Typed(n, rs)
  <2>1. \A c \in DOMAIN n.cursors : n.cursors[c].txn \in DOMAIN n.txns
    BY <1>1, <1>3, <1>4 DEF Applied, Consistent, Typed
  <2>2. n.available \in 0..Len(n.cursors)
    BY <1>1, <1>3, <1>4, LenProperties
  <2> QED
    BY <1>1, <1>3, <1>5, <2>1, <2>2 DEF Applied, Consistent, Typed
<1>7. \A i \in DOMAIN rs : rs[i].pc = "open" => rs[i].cursor # c0
  BY DEF Applied, Consistent, Used, Uses
<1>8. Used(n, rs)
  <2> SUFFICES ASSUME NEW i \in DOMAIN rs, rs[i].pc = "open"
               PROVE  Uses(n, rs[i])
    BY DEF Used, Uses
  <2>1. Uses(r, rs[i]) /\ rs[i].cursor # c0
    BY <1>7 DEF Applied, Consistent, Used
  <2>2. rs[i].cursor # 0
    <3>1. 0 \notin DOMAIN r.cursors
      BY <1>1, LenProperties
    <3> QED
      BY <2>1, <3>1 DEF Uses
  <2> QED
    BY <1>3, <1>4, <2>1, <2>2 DEF Uses
<1>9. Shared(n) /\ Retired(n, rs) /\ Counted(n, rs) /\ Own(rs) /\ Spare(n)
  BY <1>3 DEF Applied, Consistent, Shared, Retired, Counted, Spare
<1> QED
  BY <1>1, <1>3, <1>4, <1>6, <1>7, <1>8, <1>9 DEF Consistent

\* It is taken as it is, or renewed.
LEMMA CursorReused ==
    ASSUME NEW r, NEW rs, NEW n, NEW cursor \in CursorRecords,
           Applied(r, rs), r.renewed, r.available # 0,
           cursor.open, cursor.txn = r.readTxn,
           n = [r EXCEPT !.cursors = [r.cursors EXCEPT ![r.available] = cursor],
                         !.available = 0]
    PROVE  Consistent(n, rs) /\ n.readTxn = r.readTxn /\ Ready(n, rs, r.available)
<1>1. r.readTxn \in DOMAIN r.txns
  <2>1. r \in Readers /\ r.readTxn \in 1..Len(r.txns)
    BY DEF Applied, Consistent, Typed, Shared
  <2>2. r.txns \in Seq(ReadTxnRecords)
    BY <2>1 DEF Readers
  <2> QED
    BY <2>1, <2>2, LenProperties
<1>2. /\ Consistent(n, rs)
      /\ n.readTxn = r.readTxn /\ n.renewed = r.renewed /\ n.available = 0
      /\ r.available \in DOMAIN n.cursors /\ n.cursors[r.available] = cursor
      /\ \A i \in DOMAIN rs : rs[i].pc = "open" => rs[i].cursor # r.available
  <2>1. cursor.txn \in DOMAIN r.txns
    BY ONLY <1>1, cursor.txn = r.readTxn
  <2>2. n = SpareReplaced(r, cursor)
    BY Zenon DEF SpareReplaced
  <2> QED
    BY <2>1, <2>2, SpareGone, Zenon
<1> QED
  BY <1>2 DEF Ready

-----------------------------------------------------------------------------
(* An iterator begins or ceases to use a transaction.                       *)

\* Iterator i, which is not open in rs, is open in rs1.
Joins(rs, rs1, i) ==
    /\ rs \in Seq(Iterators) /\ rs1 \in Seq(Iterators)
    /\ DOMAIN rs1 = DOMAIN rs \cup {i}
    /\ i \in DOMAIN rs => rs[i].pc # "open"
    /\ \A j \in DOMAIN rs : j # i => rs1[j] = rs[j]
    /\ rs1[i].pc = "open"

LEMMA JoinedCounts ==
    ASSUME NEW rs, NEW rs1, NEW i, Joins(rs, rs1, i)
    PROVE  LET t0 == rs1[i].txn
           IN /\ \A t : t # t0 => /\ OpenIn(rs1, t) = OpenIn(rs, t)
                                 /\ RenewingIn(rs1, t) = RenewingIn(rs, t)
              /\ OpenIn(rs1, t0) = OpenIn(rs, t0) \cup {i}
              /\ Cardinality(OpenIn(rs1, t0)) = Cardinality(OpenIn(rs, t0)) + 1
              /\ Cardinality(RenewingIn(rs1, t0)) =
                     Cardinality(RenewingIn(rs, t0)) + (IF rs1[i].snapshot THEN 0 ELSE 1)
<1> DEFINE t0 == rs1[i].txn
<1>1. \A t : t # t0 => /\ OpenIn(rs1, t) = OpenIn(rs, t)
                      /\ RenewingIn(rs1, t) = RenewingIn(rs, t)
  <2> SUFFICES ASSUME NEW t, t # t0
               PROVE  /\ OpenIn(rs1, t) = OpenIn(rs, t)
                      /\ RenewingIn(rs1, t) = RenewingIn(rs, t)
    OBVIOUS
  <2>1. OpenIn(rs1, t) = OpenIn(rs, t) /\ i \notin OpenIn(rs, t)
    BY DEF Joins, OpenIn
  <2>2. \A j \in OpenIn(rs, t) : rs1[j] = rs[j]
    BY <2>1 DEF Joins, OpenIn
  <2> QED
    BY <2>1, <2>2 DEF RenewingIn
<1>2. OpenIn(rs1, t0) = OpenIn(rs, t0) \cup {i} /\ i \notin OpenIn(rs, t0)
  BY DEF Joins, OpenIn
<1>3. \A j \in OpenIn(rs, t0) : rs1[j] = rs[j]
  BY <1>2 DEF Joins, OpenIn
<1>4. /\ rs1[i].snapshot => RenewingIn(rs1, t0) = RenewingIn(rs, t0)
      /\ ~rs1[i].snapshot => RenewingIn(rs1, t0) = RenewingIn(rs, t0) \cup {i}
      /\ i \notin RenewingIn(rs, t0)
  BY <1>2, <1>3 DEF RenewingIn
<1>5. IsFiniteSet(OpenIn(rs, t0)) /\ IsFiniteSet(RenewingIn(rs, t0))
      /\ Cardinality(RenewingIn(rs, t0)) \in Nat
  BY FiniteOpen DEF Joins
<1>6. Cardinality(OpenIn(rs1, t0)) = Cardinality(OpenIn(rs, t0)) + 1
  BY <1>2, <1>5, FS_AddElement
<1>7. ~rs1[i].snapshot =>
         Cardinality(RenewingIn(rs1, t0)) = Cardinality(RenewingIn(rs, t0)) + 1
  BY <1>4, <1>5, FS_AddElement
<1> HIDE DEF t0
<1>8. Cardinality(RenewingIn(rs1, t0)) =
          Cardinality(RenewingIn(rs, t0)) + (IF rs1[i].snapshot THEN 0 ELSE 1)
  BY <1>4, <1>5, <1>7
<1> QED
  BY <1>1, <1>2, <1>6, <1>8 DEF t0

\* The iterator counts itself in, with the cursor it took.
LEMMA CursorTaken ==
    ASSUME NEW r, NEW rs, NEW rs1, NEW i, NEW n, Applied(r, rs), Joins(rs, rs1, i),
           rs1[i].txn = r.readTxn, Ready(r, rs, rs1[i].cursor),
           n = [r EXCEPT !.txns[r.readTxn].cursorCount = @ + 1,
                         !.txns[r.readTxn].renewing = IF rs1[i].snapshot THEN @ ELSE @ + 1]
    PROVE  Consistent(n, rs1)
<1> DEFINE t0 == r.readTxn
           k == IF rs1[i].snapshot THEN 0 ELSE 1
           txn == [r.txns[t0] EXCEPT !.cursorCount = r.txns[t0].cursorCount + 1,
                                     !.renewing = r.txns[t0].renewing + k]
<1>1. /\ r \in Readers /\ rs \in Seq(Iterators) /\ rs1 \in Seq(Iterators)
      /\ r.txns \in Seq(ReadTxnRecords) /\ t0 \in DOMAIN r.txns
      /\ r.txns[t0] \in ReadTxnRecords /\ r.renewed /\ k \in Int
  <2>1. r \in Readers /\ t0 \in 1..Len(r.txns) /\ r.renewed
    BY DEF Applied, Consistent, Typed, Shared, Ready
  <2>2. r.txns \in Seq(ReadTxnRecords)
    BY <2>1 DEF Readers
  <2> QED
    BY <2>1, <2>2, LenProperties, ElementOfSeq DEF Joins
<1>2. txn \in ReadTxnRecords /\ txn.snapshot = r.txns[t0].snapshot
      /\ txn.cursorCount = r.txns[t0].cursorCount + 1
      /\ txn.renewing = r.txns[t0].renewing + k
      /\ txn.onlyCursor = r.txns[t0].onlyCursor /\ txn.isAborted = r.txns[t0].isAborted
  <2> DEFINE old == r.txns[t0]
  <2>1. old.cursorCount + 1 \in Int /\ old.renewing + k \in Int /\ old \in ReadTxnRecords
    BY <1>1 DEF ReadTxnRecords
  <2> HIDE DEF k, old
  <2>2. txn = [old EXCEPT !.cursorCount = old.cursorCount + 1, !.renewing = old.renewing + k]
    BY DEF old
  <2> HIDE DEF txn
  <2>3. txn \in ReadTxnRecords /\ txn.snapshot = old.snapshot
        /\ txn.cursorCount = old.cursorCount + 1 /\ txn.renewing = old.renewing + k
        /\ txn.onlyCursor = old.onlyCursor /\ txn.isAborted = old.isAborted
    BY <2>1, <2>2 DEF ReadTxnRecords
  <2> QED
    BY <2>3 DEF old
<1>3. n.txns = [r.txns EXCEPT ![t0] = txn] /\ n.renewed = r.renewed
      /\ n.nativeRenewed = r.nativeRenewed
      /\ n.readTxn = t0 /\ n.currentReadTxn = r.currentReadTxn /\ n.cursors = r.cursors
      /\ n.available = r.available /\ n.cursorTxn = r.cursorTxn
  <2>1. r.txns[t0].renewing \in Int
    BY <1>1 DEF ReadTxnRecords
  <2>2. (IF rs1[i].snapshot THEN r.txns[t0].renewing ELSE r.txns[t0].renewing + 1)
           = r.txns[t0].renewing + k
    BY <2>1
  <2> HIDE DEF k
  <2> QED
    BY <1>1, <2>1, <2>2 DEF Readers, ReadTxnRecords
<1> HIDE DEF k, txn
<1>4. n.txns \in Seq(ReadTxnRecords) /\ Len(n.txns) = Len(r.txns)
      /\ DOMAIN n.txns = DOMAIN r.txns
  <2> DEFINE txns == [r.txns EXCEPT ![t0] = txn]
  <2>1. txns \in Seq(ReadTxnRecords) /\ Len(txns) = Len(r.txns)
        /\ DOMAIN txns = DOMAIN r.txns
    BY <1>1, <1>2, Replaced
  <2>2. n.txns = txns
    BY <1>3
  <2> HIDE DEF txns
  <2> QED
    BY <2>1, <2>2, Zenon
<1>5. /\ n.txns[t0] = txn
      /\ \A t \in DOMAIN r.txns : t # t0 => n.txns[t] = r.txns[t]
  BY <1>1, <1>3
<1>6. n \in Readers
  BY <1>1, <1>3, <1>4 DEF Readers
<1>7. Typed(n, rs1)
  BY <1>1, <1>2, <1>3, <1>4, <1>5, <1>6 DEF Applied, Consistent, Typed
<1>8. Shared(n)
  BY <1>1, <1>2, <1>3, <1>5, Zenon DEF Applied, Consistent, Shared
<1>9. /\ \A t : t # t0 => /\ OpenIn(rs1, t) = OpenIn(rs, t)
                          /\ RenewingIn(rs1, t) = RenewingIn(rs, t)
      /\ Cardinality(OpenIn(rs1, t0)) = Cardinality(OpenIn(rs, t0)) + 1
      /\ Cardinality(RenewingIn(rs1, t0)) = Cardinality(RenewingIn(rs, t0)) + k
  BY JoinedCounts DEF k
<1>10. Retired(n, rs1)
  <2> SUFFICES ASSUME NEW t \in DOMAIN r.txns, t # t0
               PROVE  \/ n.txns[t].isAborted /\ n.txns[t].snapshot = 0
                      \/ n.txns[t].onlyCursor /\ OpenIn(rs1, t) # {}
    BY <1>3, <1>4 DEF Retired
  <2>1. n.txns[t] = r.txns[t] /\ OpenIn(rs1, t) = OpenIn(rs, t)
    BY ONLY <1>5, <1>9, t \in DOMAIN r.txns, t # t0
  <2>2. \/ r.txns[t].isAborted /\ r.txns[t].snapshot = 0
        \/ r.txns[t].onlyCursor /\ OpenIn(rs, t) # {}
    BY DEF Applied, Consistent, Retired
  <2> QED
    BY ONLY <2>1, <2>2
<1>11. Counted(n, rs1)
  <2> SUFFICES ASSUME NEW t \in DOMAIN r.txns, ~n.txns[t].isAborted
               PROVE  /\ n.txns[t].cursorCount = Cardinality(OpenIn(rs1, t))
                      /\ n.txns[t].renewing = Cardinality(RenewingIn(rs1, t))
    BY <1>4 DEF Counted
  <2>1. CASE t = t0
    BY <1>2, <1>5, <1>9, <2>1 DEF Applied, Consistent, Counted
  <2>2. CASE t # t0
    BY <1>5, <1>9, <2>2 DEF Applied, Consistent, Counted
  <2> QED
    BY <2>1, <2>2
<1>12. Uses(n, rs1[i])
  <2>1. rs1[i].txn = t0 /\ t0 \in DOMAIN n.txns
    BY ONLY <1>1, <1>4, rs1[i].txn = r.readTxn, t0 = r.readTxn
  <2>2. ~r.txns[t0].isAborted /\ r.txns[t0].snapshot # 0
    BY <1>1 DEF Applied, Consistent, Shared
  <2>3. ~n.txns[t0].isAborted /\ n.txns[t0].snapshot # 0
    BY ONLY <1>2, <1>5, <2>2
  <2>4. /\ rs1[i].cursor \in DOMAIN r.cursors /\ rs1[i].cursor # r.available
        /\ r.cursors[rs1[i].cursor].open /\ r.cursors[rs1[i].cursor].txn = t0
    BY DEF Ready
  <2>5. n.cursors = r.cursors /\ n.available = r.available
    BY <1>3
  <2> QED
    BY ONLY <2>1, <2>3, <2>4, <2>5 DEF Uses
<1>13. Used(n, rs1)
  <2> SUFFICES ASSUME NEW j \in DOMAIN rs1, j # i
               PROVE  Uses(n, rs1[j])
    BY <1>12 DEF Used
  <2>1. j \in DOMAIN rs /\ rs1[j] = rs[j]
    BY DEF Joins
  <2>2. Uses(r, rs[j])
    BY <2>1 DEF Applied, Consistent, Used
  <2>3. \A t \in DOMAIN r.txns : /\ n.txns[t].isAborted = r.txns[t].isAborted
                                 /\ n.txns[t].snapshot = r.txns[t].snapshot
    BY <1>2, <1>5
  <2>4. DOMAIN n.txns = DOMAIN r.txns /\ n.cursors = r.cursors /\ n.available = r.available
    BY <1>3, <1>4
  <2>5. Uses(n, rs[j])
    BY ONLY <2>2, <2>3, <2>4 DEF Uses
  <2> QED
    BY ONLY <2>1, <2>5
<1>14. Own(rs1)
  BY DEF Applied, Consistent, Own, Joins, Ready
<1> QED
  BY <1>3, <1>7, <1>8, <1>10, <1>11, <1>13, <1>14 DEF Applied, Consistent, Spare

\* resetCursor from "txn =" on.
LEMMA TakeCursorKeeps ==
    ASSUME NEW r0, NEW rs, NEW rs1, NEW i, NEW snapshot \in BOOLEAN,
           Applied(r0, rs), Joins(rs, rs1, i), rs1[i].snapshot = snapshot,
           rs1[i].txn = TakeCursor(r0, snapshot).readTxn,
           rs1[i].cursor = TakenCursor(r0)
    PROVE  Consistent(TakeCursor(r0, snapshot), rs1)
<1> DEFINE r == Renewed(r0)
           n == GetReadTxn(r)
           taken == IF r.available = 0
                    THEN [n EXCEPT !.cursors = Append(@, NewCursor(n.currentReadTxn))]
                    ELSE IF MustRenew(r)
                    THEN [n EXCEPT !.cursors[r.available] = NewCursor(n.currentReadTxn),
                                   !.available = 0]
                    ELSE [r EXCEPT !.cursors[r.available].at = 0, !.available = 0]
           c == TakenCursor(r0)
<1>1. /\ Applied(r, rs) /\ r.renewed /\ r.cursors = r0.cursors
      /\ r.available = r0.available
  BY RenewedKeeps DEF Applied
<1>2. TakenCursor(r0) = IF r.available = 0 THEN Len(r.cursors) + 1 ELSE r.available
  BY <1>1, Zenon DEF TakenCursor
<1>3. TakeCursor(r0, snapshot) =
          [taken EXCEPT !.txns[r.readTxn].cursorCount = @ + 1,
                        !.txns[r.readTxn].renewing = IF snapshot THEN @ ELSE @ + 1]
  BY Zenon DEF TakeCursor
<1> HIDE DEF r
<1>4. /\ Applied(n, rs) /\ n.renewed /\ n.readTxn = r.readTxn
      /\ n.currentReadTxn = r.readTxn /\ n.cursors = r.cursors
      /\ n.available = r.available
  BY <1>1, GetReadTxnKeeps DEF Applied
<1> HIDE DEF n
<1>5. r \in Readers /\ n \in Readers
  BY <1>1, <1>4 DEF Applied, Consistent, Typed
<1>6. Consistent(taken, rs) /\ taken.readTxn = r.readTxn /\ Ready(taken, rs, c)
  <2>1. CASE r.available = 0
    <3>1. taken = [n EXCEPT !.cursors = Append(n.cursors, NewCursor(n.readTxn))]
      BY <1>4, <1>5, <2>1 DEF Readers
    <3>2. c = Len(n.cursors) + 1 /\ n.available = 0
      BY <1>2, <1>4, <2>1
    <3> HIDE DEF taken, c
    <3> QED
      BY <1>4, <3>1, <3>2, CursorMade
  <2>2. CASE r.available # 0 /\ MustRenew(r)
    <3> DEFINE cursor == NewCursor(n.readTxn)
    <3>1. taken = [n EXCEPT !.cursors = [n.cursors EXCEPT ![n.available] = cursor],
                            !.available = 0]
      BY <1>4, <1>5, <2>2 DEF Readers
    <3>2. c = n.available /\ n.available # 0
      BY <1>2, <1>4, <2>2
    <3>3. cursor \in CursorRecords /\ cursor.open /\ cursor.txn = n.readTxn
      <4>1. n.readTxn \in Nat
        BY <1>5 DEF Readers
      <4> QED
        BY <4>1 DEF NewCursor, CursorRecords
    <3> HIDE DEF taken, c, cursor
    <3> QED
      BY <1>4, <3>1, <3>2, <3>3, CursorReused
  <2>3. CASE r.available # 0 /\ ~MustRenew(r)
    <3> DEFINE cursor == [r.cursors[r.available] EXCEPT !.at = 0]
    <3>1. taken = [r EXCEPT !.cursors = [r.cursors EXCEPT ![r.available] = cursor],
                            !.available = 0]
      BY <1>5, <2>3 DEF Readers
    <3>2. c = r.available /\ r.available # 0
      BY <1>2, <2>3
    <3>3. r.cursors[r.available] \in CursorRecords
      <4>1. r.available \in 1..Len(r.cursors) /\ r.cursors \in Seq(CursorRecords)
        BY <1>1, <1>5, <3>2 DEF Applied, Consistent, Typed, Readers
      <4> QED
        BY <4>1, ElementOfSeq
    <3>4. r.cursors[r.available].open /\ r.cursors[r.available].txn = r.readTxn
      BY <1>1, <2>3 DEF Applied, Consistent, Spare, MustRenew
    <3>5. cursor \in CursorRecords /\ cursor.open /\ cursor.txn = r.readTxn
      BY <3>3, <3>4 DEF CursorRecords
    <3> HIDE DEF taken, c, cursor
    <3> QED
      BY <1>1, <3>1, <3>2, <3>5, CursorReused
  <2> QED
    BY <2>1, <2>2, <2>3
<1> HIDE DEF taken, c
<1>7. Applied(taken, rs)
  BY <1>1, <1>6 DEF Applied
<1>8. taken \in Readers
  BY <1>6 DEF Consistent, Typed
<1>9. TakeCursor(r0, snapshot).readTxn = taken.readTxn
  BY <1>3, <1>8 DEF Readers
<1>10. rs1[i].txn = taken.readTxn /\ rs1[i].cursor = c
  BY <1>9 DEF c
<1>11. TakeCursor(r0, snapshot) =
          [taken EXCEPT !.txns[taken.readTxn].cursorCount = @ + 1,
                        !.txns[taken.readTxn].renewing = IF rs1[i].snapshot THEN @ ELSE @ + 1]
  BY <1>3, <1>6, Zenon
<1> QED
  BY <1>6, <1>7, <1>10, <1>11, CursorTaken

\* The iterator i counts itself out: its transaction becomes txn, its cursor
\* becomes cursor, and the cursor may be kept.
Leaves(r, n, rs1, i, txn, cursor) ==
    LET it == rs1[i]
        old == r.txns[it.txn]
    IN
    /\ n \in Readers /\ txn \in ReadTxnRecords /\ cursor \in CursorRecords
    /\ n.txns = [r.txns EXCEPT ![it.txn] = txn]
    /\ n.cursors = [r.cursors EXCEPT ![it.cursor] = cursor]
    /\ n.readTxn = r.readTxn /\ n.renewed = r.renewed /\ n.currentReadTxn = r.currentReadTxn
    /\ txn.cursorCount = old.cursorCount - 1
    /\ txn.renewing = old.renewing - (IF it.snapshot THEN 0 ELSE 1)
    /\ txn.onlyCursor = old.onlyCursor
    /\ IF LastUser(txn) THEN txn.isAborted /\ txn.snapshot = 0
                        ELSE ~txn.isAborted /\ txn.snapshot = old.snapshot
    /\ cursor.txn = it.txn
    /\ \/ n.available = r.available /\ n.cursorTxn = r.cursorTxn
       \/ n.available = it.cursor /\ n.cursorTxn = it.txn /\ cursor.open

LEMMA CursorLeft ==
    ASSUME NEW r, NEW rs, NEW rs1, NEW i, NEW n, NEW txn, NEW cursor,
           Applied(r, rs1), Joins(rs, rs1, i), Leaves(r, n, rs1, i, txn, cursor)
    PROVE  Consistent(n, rs)
<1> DEFINE t0 == rs1[i].txn
           c0 == rs1[i].cursor
           k == IF rs1[i].snapshot THEN 0 ELSE 1
           old == r.txns[t0]
<1>1. /\ n \in Readers /\ txn \in ReadTxnRecords /\ cursor \in CursorRecords
      /\ n.txns = [r.txns EXCEPT ![t0] = txn]
      /\ n.cursors = [r.cursors EXCEPT ![c0] = cursor]
      /\ n.readTxn = r.readTxn /\ n.renewed = r.renewed /\ n.currentReadTxn = r.currentReadTxn
      /\ txn.cursorCount = old.cursorCount - 1 /\ txn.renewing = old.renewing - k
      /\ txn.onlyCursor = old.onlyCursor
      /\ LastUser(txn) => txn.isAborted /\ txn.snapshot = 0
      /\ ~LastUser(txn) => ~txn.isAborted /\ txn.snapshot = old.snapshot
      /\ cursor.txn = t0
      /\ \/ n.available = r.available /\ n.cursorTxn = r.cursorTxn
         \/ n.available = c0 /\ n.cursorTxn = t0 /\ cursor.open
  BY DEF Leaves
<1>2. Uses(r, rs1[i]) /\ rs1[i].pc = "open" /\ i \in DOMAIN rs1
  BY DEF Applied, Consistent, Used, Joins
<1>3. /\ t0 \in DOMAIN r.txns /\ ~old.isAborted /\ c0 \in DOMAIN r.cursors
      /\ c0 # r.available
  BY <1>2 DEF Uses
<1>4. /\ r \in Readers /\ rs \in Seq(Iterators) /\ rs1 \in Seq(Iterators)
      /\ r.txns \in Seq(ReadTxnRecords) /\ r.cursors \in Seq(CursorRecords)
      /\ old \in ReadTxnRecords
  <2>1. r \in Readers
    BY DEF Applied, Consistent, Typed
  <2>2. r.txns \in Seq(ReadTxnRecords) /\ r.cursors \in Seq(CursorRecords)
    BY <2>1 DEF Readers
  <2> QED
    BY <1>3, <2>1, <2>2, LenProperties, ElementOfSeq DEF Joins
<1>5. /\ \A t : t # t0 => /\ OpenIn(rs1, t) = OpenIn(rs, t)
                          /\ RenewingIn(rs1, t) = RenewingIn(rs, t)
      /\ Cardinality(OpenIn(rs1, t0)) = Cardinality(OpenIn(rs, t0)) + 1
      /\ Cardinality(RenewingIn(rs1, t0)) = Cardinality(RenewingIn(rs, t0)) + k
  BY JoinedCounts DEF Joins
<1>6. k \in Int
  OBVIOUS
<1> HIDE DEF t0, c0, k, old
<1>7. Len(n.txns) = Len(r.txns) /\ DOMAIN n.txns = DOMAIN r.txns
      /\ Len(n.cursors) = Len(r.cursors) /\ DOMAIN n.cursors = DOMAIN r.cursors
  BY <1>1, <1>3, <1>4, Replaced
<1>8. /\ n.txns[t0] = txn /\ n.cursors[c0] = cursor
      /\ \A t \in DOMAIN r.txns : t # t0 => n.txns[t] = r.txns[t]
      /\ \A c \in DOMAIN r.cursors : c # c0 => n.cursors[c] = r.cursors[c]
  BY <1>1, <1>3
\* What is left on the transaction.
<1>9. /\ txn.cursorCount = Cardinality(OpenIn(rs, t0))
      /\ txn.renewing = Cardinality(RenewingIn(rs, t0))
  <2>1. /\ old.cursorCount = Cardinality(OpenIn(rs1, t0))
        /\ old.renewing = Cardinality(RenewingIn(rs1, t0))
    BY <1>3 DEF Applied, Consistent, Counted, old
  <2>2. Cardinality(OpenIn(rs, t0)) \in Nat /\ Cardinality(RenewingIn(rs, t0)) \in Nat
    BY <1>4, FiniteOpen
  <2> QED
    BY <1>1, <1>5, <1>6, <2>1, <2>2
<1>10. LastUser(txn) <=> OpenIn(rs, t0) = {} /\ old.onlyCursor
  <2>1. IsFiniteSet(OpenIn(rs, t0)) /\ Cardinality(OpenIn(rs, t0)) \in Nat
    BY <1>4, FiniteOpen
  <2>2. txn.cursorCount <= 0 <=> OpenIn(rs, t0) = {}
    BY <1>9, <2>1, FS_EmptySet
  <2> QED
    BY <1>1, <2>2 DEF LastUser
<1>11. Typed(n, rs)
  <2>1. \A t \in DOMAIN n.txns : n.txns[t].snapshot \in 0..head
    <3>1. \A t \in DOMAIN r.txns : r.txns[t].snapshot \in 0..head
      BY DEF Applied, Consistent, Typed
    <3>2. txn.snapshot \in 0..head
      <4>1. txn.snapshot = 0 \/ txn.snapshot = old.snapshot
        BY <1>1
      <4> QED
        BY <1>3, <3>1, <4>1 DEF Applied, old
    <3> QED
      BY <1>7, <1>8, <3>1, <3>2
  <2>2. \A c \in DOMAIN n.cursors : n.cursors[c].txn \in DOMAIN n.txns
    BY <1>1, <1>3, <1>7, <1>8 DEF Applied, Consistent, Typed
  <2>3. n.available \in 0..Len(n.cursors) /\ n.cursorTxn \in 0..Len(n.txns)
    <3>1. c0 \in 1..Len(r.cursors) /\ t0 \in 1..Len(r.txns)
      BY <1>3, <1>4, LenProperties
    <3> QED
      BY <1>1, <1>7, <3>1 DEF Applied, Consistent, Typed
  <2>4. n.readTxn \in 0..Len(n.txns) /\ n.currentReadTxn \in 0..Len(n.txns)
    BY <1>1, <1>7 DEF Applied, Consistent, Typed
  <2> QED
    BY <1>1, <1>4, <2>1, <2>2, <2>3, <2>4 DEF Typed
<1>12. Shared(n)
  <2>1. Shared(r)
    BY DEF Applied, Consistent
  <2>2. r.readTxn # 0 => r.readTxn \in DOMAIN r.txns
    <3>1. r.readTxn \in 0..Len(r.txns)
      BY DEF Applied, Consistent, Typed
    <3> QED
      BY <1>4, <3>1, LenProperties
  <2>3. r.readTxn # 0 =>
           /\ n.txns[r.readTxn].snapshot = r.txns[r.readTxn].snapshot
           /\ n.txns[r.readTxn].onlyCursor = r.txns[r.readTxn].onlyCursor
           /\ ~n.txns[r.readTxn].isAborted
    <3>1. CASE r.readTxn = t0
      BY <1>1, <1>8, <1>10, <2>1, <3>1 DEF Shared, old
    <3>2. CASE r.readTxn # t0
      BY <1>8, <2>1, <2>2, <3>2 DEF Shared
    <3> QED
      BY <3>1, <3>2
  <2> QED
    BY <1>1, <2>1, <2>3 DEF Shared
<1>13. Retired(n, rs)
  <2> SUFFICES ASSUME NEW t \in DOMAIN r.txns, t # r.readTxn
               PROVE  \/ n.txns[t].isAborted /\ n.txns[t].snapshot = 0
                      \/ n.txns[t].onlyCursor /\ OpenIn(rs, t) # {}
    BY <1>1, <1>7 DEF Retired
  <2>1. \/ r.txns[t].isAborted /\ r.txns[t].snapshot = 0
        \/ r.txns[t].onlyCursor /\ OpenIn(rs1, t) # {}
    BY DEF Applied, Consistent, Retired
  <2>2. CASE t = t0
    BY <1>1, <1>3, <1>8, <1>10, <2>1, <2>2 DEF old
  <2>3. CASE t # t0
    BY <1>5, <1>8, <2>1, <2>3
  <2> QED
    BY <2>2, <2>3
<1>14. Counted(n, rs)
  <2> SUFFICES ASSUME NEW t \in DOMAIN r.txns, ~n.txns[t].isAborted
               PROVE  /\ n.txns[t].cursorCount = Cardinality(OpenIn(rs, t))
                      /\ n.txns[t].renewing = Cardinality(RenewingIn(rs, t))
    BY <1>7 DEF Counted
  <2>1. CASE t = t0
    BY <1>8, <1>9, <2>1
  <2>2. CASE t # t0
    BY <1>5, <1>8, <2>2 DEF Applied, Consistent, Counted
  <2> QED
    BY <2>1, <2>2
<1>15. Used(n, rs)
  <2> SUFFICES ASSUME NEW j \in DOMAIN rs, rs[j].pc = "open"
               PROVE  Uses(n, rs[j])
    BY DEF Used, Uses
  <2>1. j # i /\ j \in DOMAIN rs1 /\ rs1[j] = rs[j]
    BY DEF Joins
  <2>2. Uses(r, rs[j]) /\ rs[j].cursor # c0
    BY <1>2, <2>1 DEF Applied, Consistent, Used, Own, c0
  <2>3. ~n.txns[rs[j].txn].isAborted
        /\ n.txns[rs[j].txn].snapshot = r.txns[rs[j].txn].snapshot
    <3>1. CASE rs[j].txn = t0
      <4>1. OpenIn(rs, t0) # {}
        BY <3>1 DEF OpenIn
      <4> QED
        BY <1>1, <1>8, <1>10, <3>1, <4>1 DEF old
    <3>2. CASE rs[j].txn # t0
      BY <1>8, <2>2, <3>2 DEF Uses
    <3> QED
      BY <3>1, <3>2
  <2> QED
    BY <1>1, <1>7, <1>8, <2>2, <2>3 DEF Uses
<1>16. Own(rs)
  BY DEF Applied, Consistent, Own, Joins
<1>17. Spare(n)
  <2>1. r.available # 0 => r.available \in DOMAIN r.cursors
    <3>1. r.available \in 0..Len(r.cursors)
      BY DEF Applied, Consistent, Typed
    <3> QED
      BY <1>4, <3>1, LenProperties
  <2> QED
    BY <1>1, <1>3, <1>8, <2>1 DEF Applied, Consistent, Spare
<1> QED
  BY <1>11, <1>12, <1>13, <1>14, <1>15, <1>16, <1>17 DEF Consistent

\* finishCursor; that the transaction is aborted already does not happen.
LEMMA FinishCursorKeeps ==
    ASSUME NEW r0, NEW rs, NEW rs1, NEW i, NEW it,
           Applied(r0, rs1), Joins(rs, rs1, i),
           it.txn = rs1[i].txn, it.cursor = rs1[i].cursor, it.snapshot = rs1[i].snapshot
    PROVE  Consistent(FinishCursor(r0, it), rs)
<1> DEFINE t == it.txn
           c == it.cursor
           k == IF it.snapshot THEN 0 ELSE 1
           old == r0.txns[t]
           kept == r0.cursors[c]
           counted == [old EXCEPT !.cursorCount = old.cursorCount - 1,
                                  !.renewing = old.renewing - k]
           aborted == [counted EXCEPT !.isAborted = TRUE, !.snapshot = 0]
           shut == [kept EXCEPT !.open = FALSE]
           r == Uncounted(r0, it)
           closed == [r EXCEPT !.cursors[c].open = FALSE]
           n == FinishCursor(r0, it)
<1>1. Uses(r0, rs1[i]) /\ rs1[i].pc = "open"
  BY DEF Applied, Consistent, Used, Joins
<1>2. t \in DOMAIN r0.txns /\ ~old.isAborted /\ c \in DOMAIN r0.cursors
      /\ c # r0.available /\ kept.open /\ kept.txn = t
  BY <1>1 DEF Uses
<1>3. /\ r0 \in Readers /\ r0.txns \in Seq(ReadTxnRecords)
      /\ r0.cursors \in Seq(CursorRecords)
      /\ old \in ReadTxnRecords /\ kept \in CursorRecords
      /\ t \in Nat /\ c \in Nat
  <2>1. r0 \in Readers
    BY DEF Applied, Consistent, Typed
  <2>2. r0.txns \in Seq(ReadTxnRecords) /\ r0.cursors \in Seq(CursorRecords)
    BY <2>1 DEF Readers
  <2> QED
    BY <1>2, <2>1, <2>2, LenProperties, ElementOfSeq
<1>4. old.cursorCount - 1 \in Int /\ old.renewing - k \in Int /\ old.renewing \in Int
  <2>1. k \in Int
    OBVIOUS
  <2> HIDE DEF k, old
  <2> QED
    BY <1>3, <2>1 DEF ReadTxnRecords
<1> HIDE DEF k, old, kept
<1>5. /\ counted \in ReadTxnRecords /\ counted.snapshot = old.snapshot
      /\ counted.cursorCount = old.cursorCount - 1 /\ counted.renewing = old.renewing - k
      /\ counted.onlyCursor = old.onlyCursor /\ ~counted.isAborted
  BY <1>2, <1>3, <1>4 DEF ReadTxnRecords
<1>6. r = [r0 EXCEPT !.txns = [r0.txns EXCEPT ![t] = counted]]
  <2>1. (IF it.snapshot THEN old.renewing ELSE old.renewing - 1) = old.renewing - k
    BY <1>4 DEF k
  <2>2. r = [r0 EXCEPT !.txns = [r0.txns EXCEPT ![t] =
                [old EXCEPT !.cursorCount = old.cursorCount - 1,
                            !.renewing = IF it.snapshot THEN old.renewing ELSE old.renewing - 1]]]
    BY <1>2, <1>3 DEF Uncounted, Readers, ReadTxnRecords, old
  <2> QED
    BY <2>1, <2>2, Zenon
<1> HIDE DEF counted
<1>7. /\ aborted \in ReadTxnRecords /\ aborted.snapshot = 0 /\ aborted.isAborted
      /\ aborted.cursorCount = counted.cursorCount /\ aborted.renewing = counted.renewing
      /\ aborted.onlyCursor = counted.onlyCursor
  BY <1>5 DEF ReadTxnRecords
<1>8. shut \in CursorRecords /\ shut.txn = t
  BY <1>2, <1>3 DEF CursorRecords
<1>9. (LastUser(aborted) <=> LastUser(counted))
  BY <1>7 DEF LastUser
<1> HIDE DEF aborted, shut, r
<1>10. /\ r.txns = [r0.txns EXCEPT ![t] = counted] /\ r.cursors = r0.cursors
       /\ r.readTxn = r0.readTxn /\ r.available = r0.available
       /\ r.txns[t] = counted
       /\ r.renewed = r0.renewed /\ r.currentReadTxn = r0.currentReadTxn
       /\ r.cursorTxn = r0.cursorTxn /\ r.nativeRenewed = r0.nativeRenewed
  BY <1>2, <1>3, <1>6 DEF Readers
<1>11. r \in Readers
  <2>1. [r0.txns EXCEPT ![t] = counted] \in Seq(ReadTxnRecords)
    BY <1>2, <1>3, <1>5, Replaced
  <2> QED
    BY <1>3, <1>6, <2>1 DEF Readers
<1>12. closed = [r EXCEPT !.cursors = [r0.cursors EXCEPT ![c] = shut]]
  BY <1>2, <1>10, <1>11 DEF Readers, shut, kept
<1>13. [r0.cursors EXCEPT ![c] = shut] \in Seq(CursorRecords)
  BY <1>2, <1>3, <1>8, Replaced
<1> HIDE DEF closed
<1>14. /\ closed \in Readers /\ closed.txns = r.txns
       /\ closed.cursors = [r0.cursors EXCEPT ![c] = shut]
       /\ closed.readTxn = r.readTxn /\ closed.available = r.available
       /\ closed.renewed = r.renewed /\ closed.currentReadTxn = r.currentReadTxn
       /\ closed.cursorTxn = r.cursorTxn
  BY <1>11, <1>12, <1>13 DEF Readers
<1>15. n = IF LastUser(counted)
           THEN [closed EXCEPT !.txns[t].isAborted = TRUE, !.txns[t].snapshot = 0]
           ELSE IF r.available # 0 \/ t # r.readTxn THEN closed
           ELSE [r EXCEPT !.available = c, !.cursorTxn = t]
  <2>1. ~r0.txns[t].isAborted
    BY <1>2 DEF old
  <2>2. n = IF r0.txns[t].isAborted THEN r0
            ELSE IF LastUser(r.txns[t])
            THEN [closed EXCEPT !.txns[t].isAborted = TRUE, !.txns[t].snapshot = 0]
            ELSE IF r.available # 0 \/ t # r.readTxn THEN closed
            ELSE [r EXCEPT !.available = c, !.cursorTxn = t]
    BY Zenon DEF FinishCursor, r, closed
  <2> HIDE DEF n
  <2>3. LastUser(r.txns[t]) <=> LastUser(counted)
    BY <1>10, Zenon
  <2> QED
    BY <2>1, <2>2, <2>3, Zenon
<1> HIDE DEF n
<1>16. /\ k = (IF rs1[i].snapshot THEN 0 ELSE 1)
       /\ t = rs1[i].txn /\ c = rs1[i].cursor
  BY DEF k
<1>17. CASE LastUser(counted)
  <2>1. n = [closed EXCEPT !.txns = [r0.txns EXCEPT ![t] = aborted]]
    <3>1. n = [closed EXCEPT !.txns[t].isAborted = TRUE, !.txns[t].snapshot = 0]
      BY <1>15, <1>17, Zenon
    <3>2. n = [closed EXCEPT !.txns = [closed.txns EXCEPT ![t] =
                  [closed.txns[t] EXCEPT !.isAborted = TRUE, !.snapshot = 0]]]
      <4>1. closed \in Readers /\ t \in DOMAIN closed.txns /\ closed.txns[t] \in ReadTxnRecords
        BY <1>2, <1>3, <1>5, <1>10, <1>14
      <4> QED
        BY <3>1, <4>1 DEF Readers, ReadTxnRecords
    <3>3. closed.txns[t] = counted
      BY <1>10, <1>14
    <3>4. [closed.txns EXCEPT ![t] = aborted] = [r0.txns EXCEPT ![t] = aborted]
      BY <1>2, <1>3, <1>10, <1>14
    <3> QED
      BY <3>2, <3>3, <3>4, Zenon DEF aborted
  <2>2. [r0.txns EXCEPT ![t] = aborted] \in Seq(ReadTxnRecords)
    BY <1>2, <1>3, <1>7, Replaced
  <2>3. /\ n \in Readers /\ n.txns = [r0.txns EXCEPT ![t] = aborted]
        /\ n.cursors = [r0.cursors EXCEPT ![c] = shut]
        /\ n.readTxn = r0.readTxn /\ n.available = r0.available
        /\ n.renewed = r0.renewed /\ n.currentReadTxn = r0.currentReadTxn
        /\ n.cursorTxn = r0.cursorTxn
    BY <1>10, <1>14, <2>1, <2>2 DEF Readers
  <2>4. Leaves(r0, n, rs1, i, aborted, shut)
    BY <1>5, <1>7, <1>8, <1>9, <1>16, <1>17, <2>3 DEF Leaves, k, old
  <2> QED
    BY <2>4, CursorLeft DEF n
<1>18. CASE ~LastUser(counted) /\ (r.available # 0 \/ t # r.readTxn)
  <2>1. n = closed
    BY <1>15, <1>18
  <2>2. Leaves(r0, n, rs1, i, counted, shut)
    BY <1>5, <1>8, <1>10, <1>14, <1>16, <1>18, <2>1 DEF Leaves, k, old
  <2> QED
    BY <2>2, CursorLeft DEF n
<1>19. CASE ~LastUser(counted) /\ ~(r.available # 0 \/ t # r.readTxn)
  <2>1. n = [r EXCEPT !.available = c, !.cursorTxn = t]
    BY <1>15, <1>19
  <2>2. /\ n \in Readers /\ n.txns = r.txns /\ n.cursors = r0.cursors
        /\ n.readTxn = r0.readTxn /\ n.available = c /\ n.cursorTxn = t
        /\ n.renewed = r0.renewed /\ n.currentReadTxn = r0.currentReadTxn
    BY <1>3, <1>10, <1>11, <2>1 DEF Readers
  <2>3. n.cursors = [r0.cursors EXCEPT ![c] = kept]
    BY <1>2, <1>3, <2>2, LenProperties DEF kept
  <2>4. Leaves(r0, n, rs1, i, counted, kept)
    BY <1>2, <1>3, <1>5, <1>10, <1>16, <1>19, <2>2, <2>3 DEF Leaves, k, old
  <2> QED
    BY <2>4, CursorLeft DEF n
<1> QED
  BY <1>17, <1>18, <1>19

-----------------------------------------------------------------------------
(* Iterators change what the transactions do not depend on.                 *)

\* Only fields that nothing depends on change, or current is taken away.
Relabelled(rs, rs2) ==
    /\ rs2 \in Seq(Iterators)
    /\ DOMAIN rs2 = DOMAIN rs
    /\ \A i \in DOMAIN rs :
          /\ rs2[i].pc = rs[i].pc /\ rs2[i].txn = rs[i].txn
          /\ rs2[i].cursor = rs[i].cursor /\ rs2[i].snapshot = rs[i].snapshot
          /\ rs2[i].current => rs[i].current

LEMMA SameOpen ==
    ASSUME NEW rs, NEW rs2, Relabelled(rs, rs2)
    PROVE  \A t : OpenIn(rs2, t) = OpenIn(rs, t) /\ RenewingIn(rs2, t) = RenewingIn(rs, t)
<1> SUFFICES ASSUME NEW t
             PROVE  OpenIn(rs2, t) = OpenIn(rs, t) /\ RenewingIn(rs2, t) = RenewingIn(rs, t)
  OBVIOUS
<1>1. OpenIn(rs2, t) = OpenIn(rs, t)
  BY DEF Relabelled, OpenIn
<1>2. \A i \in OpenIn(rs, t) : rs2[i].snapshot = rs[i].snapshot
  BY DEF Relabelled, OpenIn
<1> QED
  BY <1>1, <1>2 DEF RenewingIn

LEMMA RelabelledKeeps ==
    ASSUME NEW r, NEW rs, NEW rs2, Applied(r, rs), Relabelled(rs, rs2)
    PROVE  Consistent(r, rs2)
<1>1. Typed(r, rs2) /\ Shared(r) /\ Spare(r)
  BY DEF Applied, Consistent, Typed, Relabelled
<1>2. Retired(r, rs2) /\ Counted(r, rs2)
  BY SameOpen DEF Applied, Consistent, Retired, Counted
<1>3. Used(r, rs2)
  BY DEF Applied, Consistent, Used, Uses, Relabelled
<1>4. Own(rs2)
  BY DEF Applied, Consistent, Own, Relabelled
<1> QED
  BY <1>1, <1>2, <1>3, <1>4 DEF Consistent

\* resetReadTxn, after which every iterator without a snapshot has to renew.
LEMMA ResetKeeps ==
    ASSUME NEW r, NEW rs, NEW rs2, Applied(r, rs), Relabelled(rs, rs2),
           r.renewed => \A i \in DOMAIN rs : ~rs2[i].current
    PROVE  Consistent(ResetReadTxn(r), rs2) /\ ~ResetReadTxn(r).renewed
<1> DEFINE t0 == r.readTxn
           old == r.txns[t0]
           left == [old EXCEPT !.onlyCursor = TRUE]
           idle == [old EXCEPT !.snapshot = 0]
           n == ResetReadTxn(r)
<1>1. Consistent(r, rs2) /\ Applied(r, rs2)
  BY RelabelledKeeps DEF Applied
<1>2. /\ r \in Readers /\ rs2 \in Seq(Iterators) /\ r.txns \in Seq(ReadTxnRecords)
  <2>1. r \in Readers /\ rs2 \in Seq(Iterators)
    BY <1>1 DEF Consistent, Typed
  <2> QED
    BY <2>1 DEF Readers
<1>3. CASE ~r.renewed
  BY <1>1, <1>3 DEF ResetReadTxn
<1>4. CASE r.renewed
  <2>1. t0 \in DOMAIN r.txns /\ old \in ReadTxnRecords /\ ~old.isAborted
    <3>1. t0 \in 1..Len(r.txns) /\ ~old.isAborted
      BY <1>1, <1>2, <1>4 DEF Consistent, Typed, Shared, Readers
    <3> QED
      BY <1>2, <3>1, LenProperties, ElementOfSeq
  <2> HIDE DEF old
  <2>2. /\ left \in ReadTxnRecords /\ left.snapshot = old.snapshot /\ left.onlyCursor
        /\ left.cursorCount = old.cursorCount /\ left.renewing = old.renewing
        /\ ~left.isAborted
    BY <2>1 DEF ReadTxnRecords
  <2>3. /\ idle \in ReadTxnRecords /\ idle.snapshot = 0 /\ idle.onlyCursor = old.onlyCursor
        /\ idle.cursorCount = old.cursorCount /\ idle.renewing = old.renewing
        /\ ~idle.isAborted
    BY <2>1 DEF ReadTxnRecords
  <2>4. /\ old.cursorCount = Cardinality(OpenIn(rs2, t0))
        /\ old.renewing = Cardinality(RenewingIn(rs2, t0))
    BY <1>1, <2>1 DEF Consistent, Counted, old
  <2>5. CASE InUse(old)
    <3>1. n = [r EXCEPT !.renewed = FALSE, !.txns = [r.txns EXCEPT ![t0] = left], !.readTxn = 0]
      <4>1. n = [[r EXCEPT !.renewed = FALSE] EXCEPT !.txns[t0].onlyCursor = TRUE, !.readTxn = 0]
        BY <1>4, <2>5, Zenon DEF ResetReadTxn, old
      <4> HIDE DEF n
      <4> QED
        BY <1>2, <2>1, <4>1 DEF Readers, left, old
    <3> HIDE DEF left, n
    <3>2. [r.txns EXCEPT ![t0] = left] \in Seq(ReadTxnRecords)
          /\ Len([r.txns EXCEPT ![t0] = left]) = Len(r.txns)
          /\ DOMAIN [r.txns EXCEPT ![t0] = left] = DOMAIN r.txns
      BY <1>2, <2>1, <2>2, Replaced
    <3>3. /\ n \in Readers /\ n.txns = [r.txns EXCEPT ![t0] = left]
          /\ n.renewed = FALSE /\ n.readTxn = 0 /\ n.currentReadTxn = r.currentReadTxn
          /\ n.cursors = r.cursors /\ n.available = r.available /\ n.cursorTxn = r.cursorTxn
      BY <1>2, <3>1, <3>2 DEF Readers
    <3>4. /\ Len(n.txns) = Len(r.txns) /\ DOMAIN n.txns = DOMAIN r.txns
          /\ n.txns[t0] = left
          /\ \A t \in DOMAIN r.txns : t # t0 => n.txns[t] = r.txns[t]
      BY <2>1, <3>2, <3>3
    <3>5. OpenIn(rs2, t0) # {}
      <4>1. Cardinality(OpenIn(rs2, t0)) \in Nat /\ Cardinality(RenewingIn(rs2, t0)) \in Nat
        BY <1>2, FiniteOpen
      <4>2. Cardinality(OpenIn(rs2, t0)) # 0
        BY <2>4, <2>5, <4>1 DEF InUse
      <4> QED
        BY <4>2, NoneOpen
    <3>6. Typed(n, rs2)
      <4>1. \A t \in DOMAIN n.txns : n.txns[t].snapshot \in 0..head
        BY <1>1, <2>1, <2>2, <3>4 DEF Consistent, Typed, old
      <4> QED
        BY <1>1, <3>3, <3>4, <4>1 DEF Consistent, Typed
    <3>7. Shared(n)
      BY <3>3 DEF Shared
    <3>8. Retired(n, rs2)
      BY <1>1, <2>2, <3>3, <3>4, <3>5 DEF Consistent, Retired
    <3>9. Counted(n, rs2)
      BY <1>1, <2>2, <2>4, <3>4 DEF Consistent, Counted
    <3>10. Used(n, rs2)
      <4>1. \A t \in DOMAIN r.txns : /\ n.txns[t].isAborted => r.txns[t].isAborted
                                     /\ n.txns[t].snapshot = r.txns[t].snapshot
        BY <2>1, <2>2, <3>4 DEF old
      <4> QED
        BY <1>1, <3>3, <3>4, <4>1 DEF Consistent, Used, Uses
    <3> QED
      BY <1>1, <3>3, <3>6, <3>7, <3>8, <3>9, <3>10 DEF Consistent, Spare, n
  <2>6. CASE ~InUse(old)
    <3>1. n = [r EXCEPT !.renewed = FALSE, !.txns = [r.txns EXCEPT ![t0] = idle],
                        !.nativeRenewed = FALSE]
      <4>1. n = [[r EXCEPT !.renewed = FALSE] EXCEPT !.txns[t0].snapshot = 0,
                                                    !.nativeRenewed = FALSE]
        BY <1>4, <2>6, Zenon DEF ResetReadTxn, old
      <4> HIDE DEF n
      <4> QED
        BY <1>2, <2>1, <4>1 DEF Readers, idle, old
    <3> HIDE DEF idle, n
    <3>2. [r.txns EXCEPT ![t0] = idle] \in Seq(ReadTxnRecords)
          /\ Len([r.txns EXCEPT ![t0] = idle]) = Len(r.txns)
          /\ DOMAIN [r.txns EXCEPT ![t0] = idle] = DOMAIN r.txns
      BY <1>2, <2>1, <2>3, Replaced
    <3>3. /\ n \in Readers /\ n.txns = [r.txns EXCEPT ![t0] = idle]
          /\ n.renewed = FALSE /\ n.readTxn = t0 /\ n.currentReadTxn = r.currentReadTxn
          /\ n.cursors = r.cursors /\ n.available = r.available /\ n.cursorTxn = r.cursorTxn
      BY <1>2, <3>1, <3>2 DEF Readers
    <3>4. /\ Len(n.txns) = Len(r.txns) /\ DOMAIN n.txns = DOMAIN r.txns
          /\ n.txns[t0] = idle
          /\ \A t \in DOMAIN r.txns : t # t0 => n.txns[t] = r.txns[t]
      BY <2>1, <3>2, <3>3
    <3>5. \A i \in OpenIn(rs2, t0) : ~rs2[i].snapshot
      BY <1>2, <2>4, <2>6, OnlyRenewing DEF InUse
    <3>6. Typed(n, rs2)
      <4>1. \A t \in DOMAIN n.txns : n.txns[t].snapshot \in 0..head
        <5>1. 0 \in 0..head /\ \A t \in DOMAIN r.txns : r.txns[t].snapshot \in 0..head
          BY <1>1 DEF Applied, Consistent, Typed
        <5> QED
          BY <2>3, <3>4, <5>1
      <4> QED
        BY <1>1, <3>3, <3>4, <4>1 DEF Consistent, Typed
    <3>7. Shared(n)
      <4>1. t0 # 0 => r.currentReadTxn = t0 /\ ~old.isAborted /\ ~old.onlyCursor
        BY <1>1 DEF Consistent, Shared, old
      <4> QED
        BY <2>3, <3>3, <3>4, <4>1 DEF Shared
    <3>8. Retired(n, rs2)
      BY <1>1, <3>3, <3>4 DEF Consistent, Retired
    <3>9. Counted(n, rs2)
      BY <1>1, <2>3, <2>4, <3>4 DEF Consistent, Counted
    <3>10. Used(n, rs2)
      <4> SUFFICES ASSUME NEW j \in DOMAIN rs2, rs2[j].pc = "open"
                   PROVE  Uses(n, rs2[j])
        BY DEF Used, Uses
      <4>1. Uses(r, rs2[j]) /\ ~rs2[j].current
        BY <1>1, <1>4 DEF Consistent, Used, Relabelled
      <4>2. CASE rs2[j].txn = t0
        <5>1. ~rs2[j].snapshot
          BY <3>5, <4>2 DEF OpenIn
        <5> QED
          BY <2>3, <3>3, <3>4, <4>1, <4>2, <5>1 DEF Uses
      <4>3. CASE rs2[j].txn # t0
        BY <3>3, <3>4, <4>1, <4>3 DEF Uses
      <4> QED
        BY <4>2, <4>3
    <3> QED
      BY <1>1, <3>3, <3>6, <3>7, <3>8, <3>9, <3>10 DEF Consistent, Spare, n
  <2> QED
    BY <2>5, <2>6
<1> QED
  BY <1>3, <1>4

-----------------------------------------------------------------------------
(* An entry is read.                                                        *)

\* A cursor is positioned.
LEMMA PositionedKeeps ==
    ASSUME NEW r, NEW rs, NEW c \in DOMAIN r.cursors, NEW at \in Nat, Applied(r, rs)
    PROVE  Consistent([r EXCEPT !.cursors[c].at = at], rs)
<1> DEFINE cursor == [r.cursors[c] EXCEPT !.at = at]
           n == [r EXCEPT !.cursors[c].at = at]
<1>1. /\ r \in Readers /\ r.cursors \in Seq(CursorRecords) /\ r.cursors[c] \in CursorRecords
  <2>1. r \in Readers
    BY DEF Applied, Consistent, Typed
  <2>2. r.cursors \in Seq(CursorRecords)
    BY <2>1 DEF Readers
  <2> QED
    BY <2>1, <2>2, ElementOfSeq, LenProperties
<1>2. cursor \in CursorRecords /\ cursor.txn = r.cursors[c].txn /\ cursor.open = r.cursors[c].open
  BY <1>1 DEF CursorRecords
<1>3. n = [r EXCEPT !.cursors = [r.cursors EXCEPT ![c] = cursor]]
  BY <1>1 DEF Readers
<1> HIDE DEF cursor, n
<1>4. [r.cursors EXCEPT ![c] = cursor] \in Seq(CursorRecords)
      /\ Len([r.cursors EXCEPT ![c] = cursor]) = Len(r.cursors)
      /\ DOMAIN [r.cursors EXCEPT ![c] = cursor] = DOMAIN r.cursors
  BY <1>1, <1>2, Replaced
<1>5. /\ n \in Readers /\ n.cursors = [r.cursors EXCEPT ![c] = cursor]
      /\ n.txns = r.txns /\ n.renewed = r.renewed /\ n.readTxn = r.readTxn
      /\ n.currentReadTxn = r.currentReadTxn /\ n.available = r.available
      /\ n.cursorTxn = r.cursorTxn
  BY <1>1, <1>3, <1>4 DEF Readers
<1>6. /\ DOMAIN n.cursors = DOMAIN r.cursors /\ Len(n.cursors) = Len(r.cursors)
      /\ \A d \in DOMAIN r.cursors : /\ n.cursors[d].txn = r.cursors[d].txn
                                     /\ n.cursors[d].open = r.cursors[d].open
  BY <1>2, <1>4, <1>5
<1>7. Typed(n, rs)
  BY <1>5, <1>6 DEF Applied, Consistent, Typed
<1>8. Shared(n) /\ Retired(n, rs) /\ Counted(n, rs) /\ Own(rs)
  BY <1>5 DEF Applied, Consistent, Shared, Retired, Counted
<1>9. Used(n, rs)
  BY <1>5, <1>6 DEF Applied, Consistent, Used, Uses
<1>10. Spare(n)
  <2>1. r.available # 0 => r.available \in DOMAIN r.cursors
    <3>1. r.available \in 0..Len(r.cursors)
      BY DEF Applied, Consistent, Typed
    <3> QED
      BY <1>1, <3>1, LenProperties
  <2> QED
    BY <1>5, <1>6, <2>1 DEF Applied, Consistent, Spare
<1> QED
  BY <1>7, <1>8, <1>9, <1>10 DEF Consistent, n

\* An iterator that is over and one that was not, in the same place.
LEMMA OverJoins ==
    ASSUME NEW rs \in Seq(Iterators), NEW i \in DOMAIN rs, NEW it \in Iterators,
           NEW over \in Iterators, it.pc = "open"
    PROVE  Joins([rs EXCEPT ![i] = Over(over)], [rs EXCEPT ![i] = it], i)
<1>1. Over(over) \in Iterators /\ Over(over).pc = "done"
  BY DEF Over, Iterators
<1> DEFINE done == Over(over)
<1> HIDE DEF done
<1>2. /\ [rs EXCEPT ![i] = done] \in Seq(Iterators)
      /\ DOMAIN [rs EXCEPT ![i] = done] = DOMAIN rs
      /\ [rs EXCEPT ![i] = it] \in Seq(Iterators)
      /\ DOMAIN [rs EXCEPT ![i] = it] = DOMAIN rs
  BY <1>1, Replaced DEF done
<1> QED
  BY <1>1, <1>2 DEF Joins, done

LEMMA ReadKeeps ==
    ASSUME NEW i \in DOMAIN ranges, NEW it \in Iterators, NEW r, NEW positions \in BOOLEAN,
           ranges \in Seq(Iterators), it.pc = "open",
           Applied(r, [ranges EXCEPT ![i] = it]), Read(i, it, r, positions)
    PROVE  Consistent(reader', ranges') /\ Len(ranges') = Len(ranges)
<1> DEFINE rs == [ranges EXCEPT ![i] = it]
           at == SnapshotOf(r, it.cursor)
           positioned == IF positions THEN [r EXCEPT !.cursors[it.cursor].at = at] ELSE r
           since == IF it.started THEN it.since ELSE at
           next == [it EXCEPT !.started = TRUE, !.since = IF it.snapshot THEN since ELSE 0,
                              !.stale = it.snapshot /\ (@ \/ at # since
                                            \/ positioned.cursors[it.cursor].at # at)]
<1>1. rs \in Seq(Iterators) /\ DOMAIN rs = DOMAIN ranges /\ rs[i] = it
  BY Replaced
<1>2. Uses(r, it) /\ r \in Readers
  BY <1>1 DEF Applied, Consistent, Used, Typed
<1>3. it.cursor \in DOMAIN r.cursors /\ at \in Nat
  <2>1. it.cursor \in DOMAIN r.cursors /\ it.txn \in DOMAIN r.txns
        /\ r.cursors[it.cursor].txn = it.txn
    BY <1>2 DEF Uses
  <2>2. r.txns[it.txn].snapshot \in 0..head /\ head \in Nat
    BY <2>1 DEF Applied, Consistent, Typed
  <2> QED
    BY <2>1, <2>2 DEF SnapshotOf
<1> HIDE DEF at
<1>4. Consistent(positioned, rs)
  <2>1. CASE positions
    BY <1>3, <2>1, PositionedKeeps
  <2>2. CASE ~positions
    BY <2>2 DEF Applied
  <2> QED
    BY <2>1, <2>2
<1> HIDE DEF positioned
<1>5. /\ next \in Iterators /\ next.pc = "open" /\ next.snapshot = it.snapshot
      /\ next.current = it.current /\ next.txn = it.txn /\ next.cursor = it.cursor
  <2>1. (IF it.snapshot THEN since ELSE 0) \in Nat
    BY <1>3 DEF Iterators
  <2> HIDE DEF since
  <2> QED
    BY <2>1 DEF Iterators
<1>6. \/ reader' = positioned /\ ranges' = [ranges EXCEPT ![i] = next]
      \/ /\ reader' = FinishCursor(positioned, it)
         /\ ranges' = [ranges EXCEPT ![i] = Over(next)]
  BY DEF Read, at, positioned
<1> HIDE DEF next
<1>7. CASE reader' = positioned /\ ranges' = [ranges EXCEPT ![i] = next]
  <2>1. ranges' \in Seq(Iterators) /\ Len(ranges') = Len(ranges) /\ DOMAIN ranges' = DOMAIN ranges
    BY <1>5, <1>7, Replaced
  <2>2. Relabelled(rs, ranges')
    BY <1>1, <1>5, <1>7, <2>1 DEF Relabelled
  <2>3. Applied(positioned, rs)
    BY <1>4 DEF Applied
  <2> HIDE DEF rs
  <2> QED
    BY <1>7, <2>1, <2>2, <2>3, RelabelledKeeps
<1>8. CASE /\ reader' = FinishCursor(positioned, it)
           /\ ranges' = [ranges EXCEPT ![i] = Over(next)]
  <2>1. Joins(ranges', rs, i)
    BY <1>5, <1>8, OverJoins
  <2>2. Over(next) \in Iterators
    BY <1>5 DEF Over, Iterators
  <2>3. Len(ranges') = Len(ranges)
    BY <1>8, <2>2, Replaced
  <2>4. Applied(positioned, rs)
    BY <1>4 DEF Applied
  <2> HIDE DEF rs
  <2> QED
    BY <1>1, <1>8, <2>1, <2>3, <2>4, FinishCursorKeeps
<1> QED
  BY <1>6, <1>7, <1>8

-----------------------------------------------------------------------------
(* The actions.                                                             *)

LEMMA InvApplied == ASSUME ReadsInv PROVE Applied(reader, ranges)
BY DEF ReadsInv, Bounds, Applied

LEMMA InvKept ==
    ASSUME ReadsInv, UNCHANGED <<head, settled>>, Consistent(reader', ranges'),
           Len(ranges') <= MaxRanges
    PROVE  ReadsInv'
<1>1. Bounds'
  BY DEF ReadsInv, Bounds
<1>2. Typed(reader, ranges)' /\ Shared(reader)'
  BY DEF Consistent, Typed, Shared
<1>3. /\ Retired(reader, ranges)' /\ Counted(reader, ranges)' /\ Used(reader, ranges)'
      /\ Own(ranges)' /\ Spare(reader)'
  BY DEF Consistent
<1> QED
  BY <1>1, <1>2, <1>3 DEF ReadsInv, Consistent

LEMMA CommitHappensKeeps == ReadsInv /\ CommitHappens => ReadsInv'
<1> SUFFICES ASSUME ReadsInv, CommitHappens
             PROVE  ReadsInv'
  OBVIOUS
<1>1. Bounds' /\ head' \in Nat /\ head \in Nat /\ head' = head + 1
  BY ReadsAssumption DEF ReadsInv, Bounds, CommitHappens
<1>2. Typed(reader, ranges)'
  BY <1>1 DEF ReadsInv, Consistent, Typed, CommitHappens
<1> QED
  BY <1>1, <1>2 DEF ReadsInv, Consistent, Shared, CommitHappens

\* Every iterator without a snapshot is outdated with the transaction.
LEMMA OutdatedIs ==
    ASSUME ReadsInv
    PROVE  /\ Relabelled(ranges, Outdated)
           /\ reader.renewed => \A i \in DOMAIN ranges : ~Outdated[i].current
           /\ Len(Outdated) = Len(ranges)
<1>1. ranges \in Seq(Iterators)
  BY DEF ReadsInv, Consistent, Typed
<1>2. CASE ~reader.renewed
  BY <1>1, <1>2 DEF Outdated, Relabelled
<1>3. CASE reader.renewed
  <2> DEFINE rs == [i \in DOMAIN ranges |-> [ranges[i] EXCEPT !.current = FALSE]]
  <2>1. Outdated = rs
    BY <1>3 DEF Outdated
  <2>2. \A i \in DOMAIN ranges :
           /\ rs[i] \in Iterators /\ rs[i].current = FALSE
           /\ rs[i].pc = ranges[i].pc /\ rs[i].txn = ranges[i].txn
           /\ rs[i].cursor = ranges[i].cursor /\ rs[i].snapshot = ranges[i].snapshot
    <3> SUFFICES ASSUME NEW i \in DOMAIN ranges
                 PROVE  /\ rs[i] \in Iterators /\ rs[i].current = FALSE
                        /\ rs[i].pc = ranges[i].pc /\ rs[i].txn = ranges[i].txn
                        /\ rs[i].cursor = ranges[i].cursor
                        /\ rs[i].snapshot = ranges[i].snapshot
      OBVIOUS
    <3>1. ranges[i] \in Iterators
      BY <1>1, ElementOfSeq, LenProperties
    <3>2. rs[i] = [ranges[i] EXCEPT !.current = FALSE]
      OBVIOUS
    <3> HIDE DEF rs
    <3> QED
      BY <3>1, <3>2 DEF Iterators
  <2>3. DOMAIN rs = DOMAIN ranges
    OBVIOUS
  <2> HIDE DEF rs
  <2>4. DOMAIN rs = 1..Len(ranges) /\ Len(ranges) \in Nat
    BY <1>1, <2>3, LenProperties
  <2>5. rs \in [1..Len(ranges) -> Iterators]
    <3>1. rs = [i \in 1..Len(ranges) |-> rs[i]]
      BY <2>4 DEF rs
    <3> QED
      BY <2>2, <2>3, <2>4, <3>1
  <2>6. rs \in Seq(Iterators) /\ Len(rs) = Len(ranges)
    BY <2>4, <2>5, SeqDef, LenProperties
  <2> QED
    BY <2>1, <2>2, <2>3, <2>6 DEF Relabelled
<1> QED
  BY <1>2, <1>3

LEMMA ResetStepKeeps == ReadsInv /\ Reset => ReadsInv'
<1> SUFFICES ASSUME ReadsInv, Reset
             PROVE  ReadsInv'
  OBVIOUS
<1>1. Consistent(reader', ranges')
  BY InvApplied, OutdatedIs, ResetKeeps DEF Reset
<1>2. Len(ranges') <= MaxRanges
  BY OutdatedIs DEF Reset, ReadsInv, Bounds
<1> QED
  BY <1>1, <1>2, InvKept DEF Reset

LEMMA SettleKeeps == ReadsInv /\ Settle => ReadsInv'
<1> SUFFICES ASSUME ReadsInv, Settle
             PROVE  ReadsInv'
  OBVIOUS
<1>1. Consistent(reader', ranges') /\ ~reader'.renewed
  BY InvApplied, OutdatedIs, ResetKeeps DEF Settle
<1>2. Len(ranges') <= MaxRanges
  BY OutdatedIs DEF Settle, ReadsInv, Bounds
<1>3. Bounds'
  BY <1>2, ReadsAssumption DEF Settle, ReadsInv, Bounds
<1>4. Typed(reader, ranges)'
  BY <1>1 DEF Settle, Consistent, Typed
<1>5. Shared(reader)'
  BY <1>1 DEF Consistent, Shared
<1> QED
  BY <1>1, <1>3, <1>4, <1>5 DEF ReadsInv, Consistent

LEMMA GetKeeps == ReadsInv /\ Get => ReadsInv'
<1> SUFFICES ASSUME ReadsInv, Get
             PROVE  ReadsInv'
  OBVIOUS
<1>1. Applied(Renewed(reader), ranges) /\ Renewed(reader).renewed
  BY InvApplied, RenewedKeeps DEF Applied
<1>2. Consistent(reader', ranges')
  BY <1>1, GetReadTxnKeeps DEF Get
<1> QED
  BY <1>2, InvKept DEF Get, ReadsInv, Bounds

LEMMA ReturnKeeps ==
    ASSUME ReadsInv, NEW i \in DOMAIN ranges, Return(i)
    PROVE  ReadsInv'
<1>1. ranges \in Seq(Iterators) /\ ranges[i] \in Iterators /\ ranges[i].pc = "open"
      /\ [ranges EXCEPT ![i] = ranges[i]] = ranges
  BY ElementOfSeq, LenProperties DEF ReadsInv, Consistent, Typed, Return
<1>2. ranges' = [ranges EXCEPT ![i] = Over(ranges[i])]
  BY DEF Return
<1>3. Joins(ranges', ranges, i)
  BY <1>1, <1>2, OverJoins
<1>4. Consistent(reader', ranges')
  BY <1>3, InvApplied, FinishCursorKeeps DEF Return
<1>5. Over(ranges[i]) \in Iterators
  BY <1>1 DEF Over, Iterators
<1>6. Len(ranges') <= MaxRanges
  BY <1>1, <1>2, <1>5, Replaced DEF ReadsInv, Bounds
<1> QED
  BY <1>4, <1>6, InvKept DEF Return

LEMMA NextKeeps ==
    ASSUME ReadsInv, NEW i \in DOMAIN ranges, Next_(i)
    PROVE  ReadsInv'
<1>1. ranges \in Seq(Iterators) /\ ranges[i] \in Iterators /\ ranges[i].pc = "open"
      /\ [ranges EXCEPT ![i] = ranges[i]] = ranges
  BY ElementOfSeq, LenProperties DEF ReadsInv, Consistent, Typed, Next_
<1>2. Read(i, ranges[i], reader, ~ranges[i].started) /\ UNCHANGED <<head, settled>>
  BY DEF Next_
<1>3. (~ranges[i].started) \in BOOLEAN
  BY <1>1 DEF Iterators
<1>4. Applied(reader, [ranges EXCEPT ![i] = ranges[i]])
  BY <1>1, InvApplied
<1>5. Consistent(reader', ranges') /\ Len(ranges') = Len(ranges)
  BY <1>1, <1>2, <1>3, <1>4, ReadKeeps
<1> QED
  BY <1>2, <1>5, InvKept DEF ReadsInv, Bounds

\* What the iterator notes down of the cursor that it takes.
LEMMA TakenTyped ==
    ASSUME NEW r0, NEW rs, NEW snapshot \in BOOLEAN, Applied(r0, rs)
    PROVE  TakeCursor(r0, snapshot).readTxn \in Nat /\ TakenCursor(r0) \in Nat
<1> DEFINE r == Renewed(r0)
           n == GetReadTxn(r)
           taken == IF r.available = 0
                    THEN [n EXCEPT !.cursors = Append(@, NewCursor(n.currentReadTxn))]
                    ELSE IF MustRenew(r)
                    THEN [n EXCEPT !.cursors[r.available] = NewCursor(n.currentReadTxn),
                                   !.available = 0]
                    ELSE [r EXCEPT !.cursors[r.available].at = 0, !.available = 0]
<1>1. Applied(r, rs) /\ r.renewed
  BY RenewedKeeps DEF Applied
<1>2. TakeCursor(r0, snapshot) =
          [taken EXCEPT !.txns[r.readTxn].cursorCount = @ + 1,
                        !.txns[r.readTxn].renewing = IF snapshot THEN @ ELSE @ + 1]
  BY Zenon DEF TakeCursor
<1> HIDE DEF r
<1>3. Applied(n, rs)
  BY <1>1, GetReadTxnKeeps DEF Applied
<1> HIDE DEF n
<1>4. r \in Readers /\ n \in Readers
  BY <1>1, <1>3 DEF Applied, Consistent, Typed
<1>5. taken.readTxn \in Nat /\ DOMAIN taken = DOMAIN r
  BY <1>4 DEF Readers
<1> HIDE DEF taken
<1>6. TakeCursor(r0, snapshot).readTxn \in Nat
  BY <1>2, <1>4, <1>5 DEF Readers
<1>7. TakenCursor(r0) \in Nat
  <2>1. r0 \in Readers
    BY DEF Applied, Consistent, Typed
  <2>2. r0.available \in Nat /\ r0.cursors \in Seq(CursorRecords)
    BY <2>1 DEF Readers
  <2> QED
    BY <2>2, LenProperties DEF TakenCursor
<1> QED
  BY <1>6, <1>7

LEMMA OpenRangeKeeps ==
    ASSUME ReadsInv, NEW snapshot \in BOOLEAN, OpenRange(snapshot)
    PROVE  ReadsInv'
<1> DEFINE it == [pc |-> "open", snapshot |-> snapshot, current |-> TRUE, started |-> FALSE,
                  txn |-> TakeCursor(reader, snapshot).readTxn,
                  cursor |-> TakenCursor(reader), since |-> 0, stale |-> FALSE]
<1>1. Applied(reader, ranges) /\ ranges \in Seq(Iterators)
  BY InvApplied DEF ReadsInv, Consistent, Typed
<1>2. reader' = TakeCursor(reader, snapshot) /\ ranges' = Append(ranges, it)
      /\ Len(ranges) < MaxRanges
  BY Zenon DEF OpenRange
<1>3. it \in Iterators
  <2>1. TakeCursor(reader, snapshot).readTxn \in Nat /\ TakenCursor(reader) \in Nat
    BY <1>1, TakenTyped
  <2> QED
    BY <2>1 DEF Iterators
<1>4. it.pc = "open" /\ it.snapshot = snapshot
      /\ it.txn = TakeCursor(reader, snapshot).readTxn /\ it.cursor = TakenCursor(reader)
  OBVIOUS
<1> HIDE DEF it
<1>5. /\ ranges' \in Seq(Iterators) /\ Len(ranges') = Len(ranges) + 1
      /\ DOMAIN ranges' = DOMAIN ranges \cup {Len(ranges) + 1}
      /\ \A i \in DOMAIN ranges : ranges'[i] = ranges[i]
      /\ ranges'[Len(ranges) + 1] = it
      /\ Len(ranges) + 1 \notin DOMAIN ranges
  BY <1>1, <1>2, <1>3, Appended
<1>6. Joins(ranges, ranges', Len(ranges) + 1)
  BY <1>1, <1>4, <1>5 DEF Joins
<1>7. Consistent(reader', ranges')
  BY <1>1, <1>2, <1>4, <1>5, <1>6, TakeCursorKeeps
<1>8. Len(ranges') <= MaxRanges
  <2>1. Len(ranges) \in Nat
    BY <1>1, LenProperties
  <2> QED
    BY <1>2, <1>5, <2>1, ReadsAssumption
<1> QED
  BY <1>7, <1>8, InvKept DEF OpenRange

LEMMA NextRenewsKeeps ==
    ASSUME ReadsInv, NEW i \in DOMAIN ranges, NextRenews(i)
    PROVE  ReadsInv'
<1> DEFINE finished == FinishCursor(reader, ranges[i])
           r == TakeCursor(finished, FALSE)
           it == [ranges[i] EXCEPT !.current = TRUE, !.txn = r.readTxn,
                                   !.cursor = TakenCursor(finished)]
           rs == [ranges EXCEPT ![i] = Over(ranges[i])]
           rs1 == [ranges EXCEPT ![i] = it]
<1>1. ranges \in Seq(Iterators) /\ ranges[i] \in Iterators /\ ranges[i].pc = "open"
      /\ ~ranges[i].snapshot /\ [ranges EXCEPT ![i] = ranges[i]] = ranges
  BY ElementOfSeq, LenProperties DEF ReadsInv, Consistent, Typed, NextRenews
<1>2. Read(i, it, r, TRUE) /\ UNCHANGED <<head, settled>>
  BY Zenon DEF NextRenews
<1>3. Applied(finished, rs)
  <2>1. Joins(rs, ranges, i)
    BY <1>1, OverJoins
  <2> QED
    BY <2>1, InvApplied, FinishCursorKeeps DEF Applied
<1> HIDE DEF finished
<1>4. r.readTxn \in Nat /\ TakenCursor(finished) \in Nat
  BY <1>3, TakenTyped
<1> HIDE DEF r
<1>5. it \in Iterators /\ it.pc = "open" /\ it.snapshot = FALSE /\ it.txn = r.readTxn
      /\ it.cursor = TakenCursor(finished)
  BY <1>1, <1>4 DEF Iterators
<1> HIDE DEF it
<1>6. Joins(rs, rs1, i) /\ rs1[i] = it
  BY <1>1, <1>5, OverJoins
<1> HIDE DEF rs
<1>7. Consistent(r, rs1)
  BY <1>3, <1>5, <1>6, TakeCursorKeeps DEF r
<1>8. Applied(r, rs1)
  BY <1>7, InvApplied DEF Applied
<1>9. Consistent(reader', ranges') /\ Len(ranges') = Len(ranges)
  BY <1>1, <1>2, <1>5, <1>8, ReadKeeps
<1> QED
  BY <1>2, <1>9, InvKept DEF ReadsInv, Bounds

LEMMA OpenThrowsKeeps == ReadsInv /\ OpenThrows => ReadsInv'
<1> SUFFICES ASSUME ReadsInv, OpenThrows
             PROVE  ReadsInv'
  OBVIOUS
<1> DEFINE r == GetReadTxn(Renewed(reader))
           a == reader.available
           cursor == [r.cursors[a] EXCEPT !.open = FALSE]
<1>1. Applied(Renewed(reader), ranges) /\ Renewed(reader).renewed
      /\ Renewed(reader).available = a
  BY InvApplied, RenewedKeeps DEF Applied
<1>2. Applied(r, ranges) /\ r.available = a
  BY <1>1, GetReadTxnKeeps DEF Applied
<1>3. a # 0
  BY <1>1 DEF OpenThrows, RenewThrows, MustRenew
<1>4. reader' = [r EXCEPT !.cursors[a].open = FALSE, !.available = 0]
      /\ UNCHANGED <<head, settled, ranges>>
  BY Zenon DEF OpenThrows
<1> HIDE DEF r, a
<1>5. r \in Readers /\ a \in DOMAIN r.cursors /\ r.cursors \in Seq(CursorRecords)
  <2>1. r \in Readers /\ a \in 1..Len(r.cursors)
    BY <1>2, <1>3 DEF Applied, Consistent, Typed
  <2>2. r.cursors \in Seq(CursorRecords)
    BY <2>1 DEF Readers
  <2> QED
    BY <2>1, <2>2, LenProperties
<1>6. reader' = SpareReplaced(r, cursor)
  BY <1>2, <1>4, <1>5 DEF Readers, SpareReplaced
<1>7. cursor \in CursorRecords /\ cursor.txn \in DOMAIN r.txns
  <2>1. r.cursors[a] \in CursorRecords
    BY <1>5, ElementOfSeq, LenProperties
  <2>2. r.cursors[a].txn \in DOMAIN r.txns
    BY <1>2, <1>5 DEF Applied, Consistent, Typed
  <2> QED
    BY <2>1, <2>2 DEF CursorRecords
<1> HIDE DEF cursor
<1>8. Consistent(reader', ranges)
  BY <1>2, <1>3, <1>6, <1>7, SpareGone
<1> QED
  BY <1>4, <1>8, InvKept DEF ReadsInv, Bounds

-----------------------------------------------------------------------------
(* The invariant holds.                                                     *)

LEMMA ReadsInitHolds == ReadsInit => ReadsInv
<1> SUFFICES ASSUME ReadsInit
             PROVE  ReadsInv
  OBVIOUS
<1>1. head = 1 /\ settled = 1 /\ ranges = <<>>
      /\ reader = [txns |-> <<>>, readTxn |-> 0, renewed |-> FALSE,
                   currentReadTxn |-> 0, nativeRenewed |-> FALSE,
                   cursors |-> <<>>, available |-> 0, cursorTxn |-> 0]
  BY DEF ReadsInit
<1>2. Bounds
  BY <1>1, ReadsAssumption DEF Bounds
<1>3. reader \in Readers /\ ranges \in Seq(Iterators)
  BY <1>1 DEF Readers
<1>4. reader.txns = <<>> /\ reader.cursors = <<>> /\ reader.readTxn = 0 /\ ~reader.renewed
      /\ reader.currentReadTxn = 0 /\ reader.available = 0 /\ reader.cursorTxn = 0
  BY <1>1
<1>5. Typed(reader, ranges)
  BY <1>3, <1>4 DEF Typed
<1>6. Shared(reader) /\ Spare(reader)
  BY <1>4 DEF Shared, Spare
<1>7. Retired(reader, ranges) /\ Counted(reader, ranges) /\ Used(reader, ranges) /\ Own(ranges)
  BY <1>1, <1>4 DEF Retired, Counted, Used, Own
<1> QED
  BY <1>2, <1>5, <1>6, <1>7 DEF ReadsInv, Consistent

LEMMA ReadsStepHolds == ReadsInv /\ [ReadsNext]_readsVars => ReadsInv'
<1> SUFFICES ASSUME ReadsInv, [ReadsNext]_readsVars
             PROVE  ReadsInv'
  OBVIOUS
<1>1. CASE CommitHappens
  BY <1>1, CommitHappensKeeps
<1>2. CASE Settle
  BY <1>2, SettleKeeps
<1>3. CASE Reset
  BY <1>3, ResetStepKeeps
<1>4. CASE Get
  BY <1>4, GetKeeps
<1>5. CASE OpenThrows
  BY <1>5, OpenThrowsKeeps
<1>6. CASE \E snapshot \in BOOLEAN : OpenRange(snapshot)
  BY <1>6, OpenRangeKeeps
<1>7. CASE \E i \in DOMAIN ranges : Next_(i)
  BY <1>7, NextKeeps
<1>8. CASE \E i \in DOMAIN ranges : NextRenews(i)
  BY <1>8, NextRenewsKeeps
<1>9. CASE \E i \in DOMAIN ranges : Return(i)
  BY <1>9, ReturnKeeps
<1>10. CASE UNCHANGED readsVars
  <2>1. head' = head /\ settled' = settled /\ reader' = reader /\ ranges' = ranges
    BY <1>10 DEF readsVars
  <2>2. Consistent(reader', ranges') /\ Len(ranges') <= MaxRanges
    BY <2>1 DEF ReadsInv, Bounds
  <2> QED
    BY <2>1, <2>2, InvKept
<1> QED
  BY <1>1, <1>2, <1>3, <1>4, <1>5, <1>6, <1>7, <1>8, <1>9, <1>10 DEF ReadsNext

LEMMA ReadsInvHolds == ReadsSpec => []ReadsInv
BY ReadsInitHolds, ReadsStepHolds, PTL DEF ReadsSpec

\* Transactions, cursors and iterators refer to one another within bounds.
THEOREM ReadsTyped == ReadsSpec => []ReadsTypeOK
<1>1. ReadsInv => ReadsTypeOK
  BY DEF ReadsInv, Bounds, Consistent, Typed, ReadsTypeOK, Txns
<1> QED
  BY <1>1, ReadsInvHolds, PTL

\* cursorCount and renewingCursorCount of a transaction that was not aborted
\* are the numbers of open iterators on it, through every finish and renewal.
THEOREM CountsCorrect == ReadsSpec => []CountsAreExact
<1>1. \A t : OpenOn(t) = OpenIn(ranges, t)
  BY DEF OpenOn, OpenIn
<1>2. \A t : {i \in OpenOn(t) : ~ranges[i].snapshot} = RenewingIn(ranges, t)
  BY <1>1 DEF RenewingIn
<1>3. ReadsInv => CountsAreExact
  BY <1>1, <1>2 DEF ReadsInv, Consistent, Counted, CountsAreExact, Txns
<1> QED
  BY <1>3, ReadsInvHolds, PTL

\* Only the shared transaction is open without an iterator that uses it: what
\* finishCursor leaves behind holds no snapshot.
THEOREM ReadersNotLeaked == ReadsSpec => []NoReaderLeaked
<1>1. \A t : OpenOn(t) = OpenIn(ranges, t)
  BY DEF OpenOn, OpenIn
<1>2. ReadsInv => NoReaderLeaked
  BY <1>1 DEF ReadsInv, Consistent, Retired, NoReaderLeaked, Txns
<1> QED
  BY <1>2, ReadsInvHolds, PTL

\* The transaction and the cursor of an iterator stay open while it reads them.
THEOREM ReadersInUseOpen == ReadsSpec => []InUseIsOpen
<1>1. ReadsInv => InUseIsOpen
  BY DEF ReadsInv, Consistent, Used, Uses, InUseIsOpen
<1> QED
  BY <1>1, ReadsInvHolds, PTL

\* Two iterators never move the same cursor, though one is kept for reuse.
THEOREM CursorsNotShared == ReadsSpec => []CursorsAreOwn
<1>1. ReadsInv => CursorsAreOwn
  BY DEF ReadsInv, Consistent, Used, Uses, Own, CursorsAreOwn
<1> QED
  BY <1>1, ReadsInvHolds, PTL

\* A renewed read transaction is the one C++ uses and has every settled commit.
THEOREM ReadsStayCurrent == ReadsSpec => []ReadsAreCurrent
<1>1. ReadsInv => ReadsAreCurrent
  BY DEF ReadsInv, Consistent, Shared, ReadsAreCurrent
<1> QED
  BY <1>1, ReadsInvHolds, PTL

=============================================================================
