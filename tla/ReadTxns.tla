------------------------------ MODULE ReadTxns ------------------------------
(* Read transactions and the cursors of range iterators.                    *)
(*                                                                          *)
(* All reads of an event turn share one read transaction, which is reset at *)
(* the end of the turn or after a commit and renewed by the next read.  A   *)
(* transaction that still has iterators which need their snapshot is left   *)
(* to them, and the last of them aborts it.  One cursor is kept for reuse.  *)
(* JavaScript (readTxn, readTxnRenewed) and C++ (currentReadTxn, its own    *)
(* readTxnRenewed) both keep track of whether the transaction is renewed.   *)
(*                                                                          *)
(* Every action is a JavaScript call, which nothing but a commit on the     *)
(* worker's thread can interrupt; a snapshot is the number of its commit.   *)
EXTENDS Integers, Sequences, FiniteSets

CONSTANTS
    MaxCommits,   \* bound on the commits
    MaxRanges     \* bound on the iterators that are made

ASSUME ReadsAssumption == MaxCommits \in Nat \ {0} /\ MaxRanges \in Nat

VARIABLES
    head,      \* the latest commit
    settled,   \* the latest commit whose promises are settled
    reader,    \* the transactions and cursors of the environment
    ranges     \* the iterators, in the order they were made

readsVars == <<head, settled, reader, ranges>>

\* reader.txns: per transaction its snapshot (0: reset or aborted) and the
\* fields that read.js keeps on it; reader.cursors: the transaction a cursor is
\* bound to and the snapshot it was positioned in; available, cursorTxn: the
\* cursor kept for reuse and the transaction it was used with, 0 for none.
NewTxn == [snapshot |-> head, cursorCount |-> 0, renewing |-> 0,
           onlyCursor |-> FALSE, isAborted |-> FALSE]

CursorTooEarly(t) == [txn |-> reader.currentReadTxn, open |-> TRUE, at |-> 0]   \* mutant
NewCursor(t) == [txn |-> t, open |-> TRUE, at |-> 0]

ReadsInit ==
    /\ head = 1
    /\ settled = 1
    /\ reader = [txns |-> <<>>, readTxn |-> 0, renewed |-> FALSE,
                 currentReadTxn |-> 0, nativeRenewed |-> FALSE,
                 cursors |-> <<>>, available |-> 0, cursorTxn |-> 0]
    /\ ranges = <<>>

-----------------------------------------------------------------------------
(* The helpers of read.js and env.cpp, as functions of the reader.          *)

\* readTxnRenewed ? readTxn : renewReadTxn()
Renewed(r) ==
    IF r.renewed THEN r
    ELSE IF r.readTxn # 0
    THEN [r EXCEPT !.renewed = TRUE, !.txns[r.readTxn].snapshot = head]
    ELSE LET t == Len(r.txns) + 1
         IN [r EXCEPT !.renewed = TRUE, !.txns = Append(@, NewTxn),
                      !.readTxn = t, !.currentReadTxn = t]

\* EnvWrap::getReadTxn: mdbx_txn_renew gives an open transaction up first.
GetReadTxn(r) ==
    IF r.nativeRenewed THEN r
    ELSE [r EXCEPT !.nativeRenewed = TRUE, !.txns[r.currentReadTxn].snapshot = head]

\* resetCursor from "txn =" on, for an iterator with or without a snapshot:
\* the reader with its cursor, which is the kept one or a new one.
MustRenew(r) == r.available # 0 /\ r.cursorTxn # r.readTxn

TakeCursor(r0, snapshot) ==
    LET r == Renewed(r0)
        n == GetReadTxn(r)
        taken ==
            IF r.available = 0
            THEN [n EXCEPT !.cursors = Append(@, NewCursor(n.currentReadTxn))]
            ELSE IF MustRenew(r)
            THEN [n EXCEPT !.cursors[r.available] = NewCursor(n.currentReadTxn), !.available = 0]
            ELSE [r EXCEPT !.cursors[r.available].at = 0, !.available = 0]
    IN [taken EXCEPT !.txns[r.readTxn].cursorCount = @ + 1,
                     !.txns[r.readTxn].renewing = IF snapshot THEN @ ELSE @ + 1]

TakenCursor(r) == IF r.available = 0 THEN Len(r.cursors) + 1 ELSE r.available

\* cursor.renew() on a cursor whose transaction was aborted: it throws, and
\* resetCursor closes the cursor.
RenewThrows(r0) ==
    LET r == Renewed(r0)
    IN MustRenew(r) /\ r.txns[r.cursors[r.available].txn].isAborted

\* txn.cursorCount and txn.renewingCursorCount without the iterator.
UncountedHalf(r, it) == [r EXCEPT !.txns[it.txn].cursorCount = @ - 1]     \* mutant
Uncounted(r, it) ==
    [r EXCEPT !.txns[it.txn].cursorCount = @ - 1,
              !.txns[it.txn].renewing = IF it.snapshot THEN @ ELSE @ - 1]

NotYetLast(txn) == txn.cursorCount < 0 /\ txn.onlyCursor                  \* mutant
LastUser(txn) == txn.cursorCount <= 0 /\ txn.onlyCursor

\* finishCursor of an iterator.
FinishCursor(r0, it) ==
    LET t == it.txn
        r == Uncounted(r0, it)
        closed == [r EXCEPT !.cursors[it.cursor].open = FALSE]
    IN IF r0.txns[t].isAborted THEN r0
       ELSE IF LastUser(r.txns[t])
       THEN [closed EXCEPT !.txns[t].isAborted = TRUE, !.txns[t].snapshot = 0]
       ELSE IF r.available # 0 \/ t # r.readTxn THEN closed
       ELSE [r EXCEPT !.available = it.cursor, !.cursorTxn = t]

NeverInUse(txn) == FALSE                                                  \* mutant
InUse(txn) == txn.cursorCount - txn.renewing > 0

\* resetReadTxn
ResetReadTxn(r) ==
    LET t == r.readTxn
        idle == [r EXCEPT !.renewed = FALSE]
    IN IF ~r.renewed THEN r
       ELSE IF InUse(r.txns[t])
       THEN [idle EXCEPT !.txns[t].onlyCursor = TRUE, !.readTxn = 0]
       ELSE [idle EXCEPT !.txns[t].snapshot = 0, !.nativeRenewed = FALSE]

\* renewId++: every iterator without a snapshot has to renew.
Outdated == IF reader.renewed
            THEN [i \in DOMAIN ranges |-> [ranges[i] EXCEPT !.current = FALSE]]
            ELSE ranges

SnapshotOf(r, c) == r.txns[r.cursors[c].txn].snapshot

-----------------------------------------------------------------------------
(* Actions.                                                                 *)

\* A write transaction is committed on the worker's thread.
CommitHappens ==
    /\ head < MaxCommits
    /\ head' = head + 1
    /\ UNCHANGED <<settled, reader, ranges>>

\* resolveCommit: the read transaction is reset before anything that waits
\* for the promises of the commit runs.
SettlesOnly ==                                                            \* mutant
    settled < head /\ settled' = head /\ UNCHANGED <<head, reader, ranges>>
Settle ==
    /\ settled < head
    /\ settled' = head
    /\ reader' = ResetReadTxn(reader)
    /\ ranges' = Outdated
    /\ UNCHANGED head

\* The setImmediate callback of renewReadTxn, or store.resetReadTxn().
Reset ==
    /\ reader.renewed
    /\ reader' = ResetReadTxn(reader)
    /\ ranges' = Outdated
    /\ UNCHANGED <<head, settled>>

\* get() and its relatives.
Get ==
    /\ reader' = GetReadTxn(Renewed(reader))
    /\ UNCHANGED <<head, settled, ranges>>

\* getRange(...)[Symbol.iterator](): resetCursor.
OpenRange(snapshot) ==
    /\ Len(ranges) < MaxRanges
    /\ ~RenewThrows(reader)
    /\ reader' = TakeCursor(reader, snapshot)
    /\ ranges' = Append(ranges,
           [pc |-> "open", snapshot |-> snapshot, current |-> TRUE, started |-> FALSE,
            txn |-> reader'.readTxn, cursor |-> TakenCursor(reader), since |-> 0, stale |-> FALSE])
    /\ UNCHANGED <<head, settled>>

OpenThrows ==
    /\ RenewThrows(reader)
    /\ reader' = [GetReadTxn(Renewed(reader)) EXCEPT
                     !.cursors[reader.available].open = FALSE, !.available = 0]
    /\ UNCHANGED <<head, settled, ranges>>

\* An iterator that is over; stale is kept.
OverButOpen(it) == [it EXCEPT !.since = 0]                                \* mutant
Over(it) == [pc |-> "done", snapshot |-> it.snapshot, current |-> FALSE, started |-> FALSE,
             txn |-> 0, cursor |-> 0, since |-> 0, stale |-> it.stale]

\* An entry is read with the iterator's cursor: at a new position, or at the
\* next one.  In the end it is the last one, and the cursor is finished.
\* History: the snapshot of the first entry, and whether a later one was read
\* in another, or with a cursor that was positioned in another.
Read(i, it, r, positions) ==
    LET at == SnapshotOf(r, it.cursor)
        positioned == IF positions THEN [r EXCEPT !.cursors[it.cursor].at = at] ELSE r
        since == IF it.started THEN it.since ELSE at
        next == [it EXCEPT !.started = TRUE, !.since = IF it.snapshot THEN since ELSE 0,
                           !.stale = it.snapshot /\ (@ \/ at # since
                                                       \/ positioned.cursors[it.cursor].at # at)]
    IN \/ reader' = positioned /\ ranges' = [ranges EXCEPT ![i] = next]
       \/ /\ reader' = FinishCursor(positioned, it)
          /\ ranges' = [ranges EXCEPT ![i] = Over(next)]

\* next()
Next_(i) ==
    /\ ranges[i].pc = "open"
    /\ ranges[i].snapshot \/ ranges[i].current
    /\ Read(i, ranges[i], reader, ~ranges[i].started)
    /\ UNCHANGED <<head, settled>>

\* next() of an iterator without a snapshot after the read transaction was
\* reset: it finishes its cursor, takes one again and positions it.
NextRenews(i) ==
    LET finished == FinishCursor(reader, ranges[i])
        r == TakeCursor(finished, FALSE)
        it == [ranges[i] EXCEPT !.current = TRUE, !.txn = r.readTxn,
                                !.cursor = TakenCursor(finished)]
    IN
    /\ ranges[i].pc = "open"
    /\ ~ranges[i].snapshot /\ ~ranges[i].current
    /\ ~RenewThrows(finished)
    /\ Read(i, it, r, TRUE)
    /\ UNCHANGED <<head, settled>>

\* return() or throw(): the loop over the iterator is left.
Return(i) ==
    /\ ranges[i].pc = "open"
    /\ reader' = FinishCursor(reader, ranges[i])
    /\ ranges' = [ranges EXCEPT ![i] = Over(@)]
    /\ UNCHANGED <<head, settled>>

ReadsNext ==
    \/ CommitHappens \/ Settle \/ Reset \/ Get \/ OpenThrows
    \/ \E snapshot \in BOOLEAN : OpenRange(snapshot)
    \/ \E i \in DOMAIN ranges : Next_(i) \/ NextRenews(i) \/ Return(i)

ReadsSpec == ReadsInit /\ [][ReadsNext]_readsVars

-----------------------------------------------------------------------------
(* Properties.                                                              *)

Txns == DOMAIN reader.txns
OpenOn(t) == {i \in DOMAIN ranges : ranges[i].pc = "open" /\ ranges[i].txn = t}

ReadsTypeOK ==
    /\ head \in 1..MaxCommits /\ settled \in 1..head
    /\ reader.readTxn \in 0..Len(reader.txns)
    /\ reader.currentReadTxn \in 0..Len(reader.txns)
    /\ reader.available \in 0..Len(reader.cursors)
    /\ reader.cursorTxn \in 0..Len(reader.txns)
    /\ \A t \in Txns : reader.txns[t].snapshot \in 0..head
    /\ \A c \in DOMAIN reader.cursors : reader.cursors[c].txn \in Txns
    /\ Len(ranges) <= MaxRanges

\* The counts kept on a transaction are those of the iterators that use it:
\* they decide whether it is reset, left to its iterators, or aborted.
CountsAreExact ==
    \A t \in Txns : ~reader.txns[t].isAborted =>
        /\ reader.txns[t].cursorCount = Cardinality(OpenOn(t))
        /\ reader.txns[t].renewing = Cardinality({i \in OpenOn(t) : ~ranges[i].snapshot})

\* A transaction that is no longer the shared one is open only while an
\* iterator still uses it: no reader is leaked, which would keep pages of the
\* database from being reused for ever.
NoReaderLeaked ==
    \A t \in Txns : reader.txns[t].snapshot # 0 /\ t # reader.readTxn => OpenOn(t) # {}

\* No transaction is reset or aborted while an iterator relies on it.
InUseIsOpen ==
    \A i \in DOMAIN ranges :
        ranges[i].pc = "open" /\ (ranges[i].snapshot \/ ranges[i].current) =>
            /\ reader.txns[ranges[i].txn].snapshot # 0
            /\ reader.cursors[ranges[i].cursor].open
            /\ reader.cursors[ranges[i].cursor].txn = ranges[i].txn

\* Iterators do not share a cursor, and the kept one is nobody's.
CursorsAreOwn ==
    \A i, j \in DOMAIN ranges :
        ranges[i].pc = "open" /\ ranges[j].pc = "open" =>
            /\ i # j => ranges[i].cursor # ranges[j].cursor
            /\ ranges[i].cursor # reader.available

\* Once the promise of a write is settled, every read sees the write.
ReadsAreCurrent ==
    reader.renewed =>
        /\ reader.currentReadTxn = reader.readTxn
        /\ ~reader.txns[reader.readTxn].isAborted
        /\ reader.txns[reader.readTxn].snapshot >= settled

\* README.md:193, "a range iterator will use a database snapshot, using a
\* single read transaction that remains open and gives a consistent view of
\* the database at the time it was started".  It is false: the iterator renews
\* the transaction for JavaScript only, and a get() renews it once more.
SnapshotIsStable == \A i \in DOMAIN ranges : ~ranges[i].stale
=============================================================================
