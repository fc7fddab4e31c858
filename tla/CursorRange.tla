---------------------------- MODULE CursorRange -----------------------------
(* A range: what getRange, getKeys, getValues and their counts return, as   *)
(* the cursor walks through one snapshot.                                   *)
(*                                                                          *)
(* An entry is a number, 10 * key + value, which puts the entries in the    *)
(* order of a dupSort database.  A query is the options of the call; 0      *)
(* stands for a start or an end that is not given, and for MDBX_NOTFOUND.   *)
EXTENDS Integers, Sequences, SequencesExt, FiniteSetsExt

CONSTANTS
    EntryKeys,     \* keys of entries, and starts and ends among them
    EntryValues,   \* values under one key
    Offsets,
    Limits

ASSUME RangeAssumption ==
    /\ EntryKeys \subseteq 1..9 /\ EntryValues \subseteq 1..9
    /\ Offsets \subseteq Nat /\ Limits \subseteq Nat

VARIABLES
    entries,   \* the snapshot
    query,     \* the call
    cursor,    \* the entry it is at
    skip,      \* what is left of the offset
    returned,  \* what next() has returned
    count,     \* what has been counted
    pc         \* "position", "walk", "done"

rangeVars == <<entries, query, cursor, skip, returned, count, pc>>

KeyOf(e) == e \div 10
ValueOf(e) == e % 10

\* valuesOf: the key of getValues, or 0.  exact: doesExist, which counts the
\* values that equal its start.
Queries ==
    {q \in [valuesOf : {0} \cup EntryKeys, start : {0} \cup EntryKeys \cup EntryValues,
            end : {0} \cup EntryKeys \cup EntryValues, reverse : BOOLEAN, values : BOOLEAN,
            onlyCount : BOOLEAN, exact : BOOLEAN, offset : Offsets, limit : Limits] :
        /\ q.valuesOf # 0 => q.values
        /\ q.exact => q.valuesOf # 0 /\ q.start # 0 /\ q.end = 0
                      /\ q.onlyCount /\ ~q.reverse /\ q.offset = 0}

RangeInit ==
    /\ entries \in SUBSET {10 * k + v : k \in EntryKeys, v \in EntryValues}
    /\ query \in Queries
    /\ cursor = 0
    /\ skip = query.offset
    /\ returned = <<>>
    /\ count = 0
    /\ pc = "position"

-----------------------------------------------------------------------------
(* mdbx_cursor_get.                                                         *)

Lowest(s) == IF s = {} THEN 0 ELSE Min(s)
Highest(s) == IF s = {} THEN 0 ELSE Max(s)

Dups(key) == {e \in entries : KeyOf(e) = key}

\* iteratingOp: MDBX_NEXT_DUP, MDBX_NEXT_NODUP, MDBX_NEXT, or PREV.
Advance(e, reverse, among) ==
    IF reverse THEN Highest({x \in among : x < e}) ELSE Lowest({x \in among : x > e})

Stepped(e, byKey) ==
    Advance(e, query.reverse,
            IF query.valuesOf # 0 THEN Dups(KeyOf(e))
            ELSE IF byKey THEN entries \ Dups(KeyOf(e)) ELSE entries)

\* doPosition up to the loop over the offset, with a key to start from.
PositionsBehind(start) ==                                                 \* mutant
    LET found == Lowest({e \in entries : KeyOf(e) >= start}) IN
    IF query.reverse /\ found = 0 THEN Highest(entries) ELSE found
PositionAtKey(start) ==
    LET found == Lowest({e \in entries : KeyOf(e) >= start}) IN
    IF ~query.reverse THEN found
    ELSE IF found = 0 THEN Highest(entries)
    ELSE IF KeyOf(found) # start THEN Advance(found, TRUE, entries)
    ELSE found

\* The same among the values of a key.
PositionAtValue(dups, start) ==
    LET found == Lowest({e \in dups : ValueOf(e) >= start}) IN
    IF query.exact THEN (IF found # 0 /\ ValueOf(found) = start THEN found ELSE 0)
    ELSE IF ~query.reverse THEN found
    ELSE IF found = 0 \/ start = 0 THEN Highest(dups)
    ELSE IF ValueOf(found) # start THEN Advance(found, TRUE, dups)
    ELSE found

Position ==
    /\ pc = "position"
    /\ IF query.valuesOf # 0
       THEN cursor' = PositionAtValue(Dups(query.valuesOf), query.start)
       ELSE cursor' = IF query.start # 0 THEN PositionAtKey(query.start)
                      ELSE IF query.reverse THEN Highest(entries) ELSE Lowest(entries)
    \* the values of a key are counted by mdbx
    /\ IF /\ cursor' # 0 /\ query.onlyCount /\ query.valuesOf # 0
          /\ (query.start = 0 /\ query.end = 0) \/ query.exact
       THEN pc' = "done" /\ count' = Cardinality(Dups(query.valuesOf))
       ELSE pc' = "walk" /\ UNCHANGED count
    /\ UNCHANGED <<entries, query, skip, returned>>

\* The loop over the offset.
SkipOne ==
    /\ pc = "walk"
    /\ skip > 0 /\ cursor # 0
    /\ cursor' = Stepped(cursor, ~query.values)
    /\ skip' = skip - 1
    /\ UNCHANGED <<entries, query, returned, count, pc>>

\* The end of the range, in returnEntry and in the loop that counts.
PastEnd ==
    LET at == IF query.valuesOf # 0 THEN ValueOf(cursor) ELSE KeyOf(cursor) IN
    \/ cursor = 0
    \/ query.end # 0 /\ (IF query.reverse THEN query.end >= at ELSE query.end <= at)

WalkEnds ==
    /\ pc = "walk" /\ (skip = 0 \/ cursor = 0)
    /\ PastEnd \/ (~query.onlyCount /\ Len(returned) >= query.limit)
    /\ pc' = "done"
    /\ UNCHANGED <<entries, query, cursor, skip, returned, count>>

\* next() returns an entry, and the one after it moves the cursor.
ReturnOne ==
    /\ pc = "walk" /\ skip = 0
    /\ ~query.onlyCount /\ ~PastEnd /\ Len(returned) < query.limit
    /\ returned' = Append(returned, IF query.values THEN cursor ELSE KeyOf(cursor))
    /\ cursor' = Stepped(cursor, ~query.values)
    /\ UNCHANGED <<entries, query, skip, count, pc>>

\* The loop that counts: the values of a key at once.
CountOne ==
    /\ pc = "walk" /\ skip = 0
    /\ query.onlyCount /\ ~PastEnd
    /\ count' = count + (IF query.valuesOf = 0 /\ query.values
                         THEN Cardinality(Dups(KeyOf(cursor))) ELSE 1)
    /\ cursor' = Stepped(cursor, TRUE)
    /\ UNCHANGED <<entries, query, skip, returned, pc>>

RangeDone == pc = "done" /\ UNCHANGED rangeVars

RangeNext == Position \/ SkipOne \/ WalkEnds \/ ReturnOne \/ CountOne \/ RangeDone

RangeSpec == RangeInit /\ [][RangeNext]_rangeVars

-----------------------------------------------------------------------------
(* Properties.                                                              *)

\* The rows a query asks for, in the order it asks for them.
Asked ==
    LET At(e) == IF query.valuesOf # 0 THEN ValueOf(e) ELSE KeyOf(e)
        inside == {e \in entries :
            /\ query.valuesOf # 0 => KeyOf(e) = query.valuesOf
            /\ query.start # 0 => IF query.reverse THEN At(e) <= query.start
                                                   ELSE At(e) >= query.start
            /\ query.end # 0 => IF query.reverse THEN At(e) > query.end
                                                 ELSE At(e) < query.end}
        rows == IF query.values THEN inside ELSE {KeyOf(e) : e \in inside}
        sorted == SetToSortSeq(rows, LAMBDA a, b : IF query.reverse THEN a > b ELSE a < b)
    IN SubSeq(sorted, query.offset + 1, Len(sorted))

\* Where the code does something else, with several values per key: a reverse
\* range begins at the first value of its start, not the last; an offset counts
\* entries although the loop that counts takes a key at once; getValuesCount
\* without bounds ignores its offset.
ExceptedRange ==
    /\ query.valuesOf = 0 /\ query.values
    /\ IF query.onlyCount
       THEN query.offset > 0 /\ \E key \in EntryKeys : Cardinality(Dups(key)) > 1
       ELSE query.reverse /\ Cardinality(Dups(query.start)) > 1
ExceptedCount ==
    query.valuesOf # 0 /\ query.onlyCount /\ query.offset > 0 /\ query.start = 0 /\ query.end = 0

\* A range returns exactly the entries between start (included) and end (not
\* included) in its direction, after its offset and up to its limit; a count
\* is their number, and doesExist is true for the values that are there.
RangeIsExact ==
    pc = "done" /\ ~ExceptedRange /\ ~ExceptedCount =>
        IF query.exact
        THEN count > 0 <=> 10 * query.valuesOf + query.start \in entries
        ELSE IF query.onlyCount THEN count = Len(Asked)
        ELSE returned = SubSeq(Asked, 1, IF query.limit < Len(Asked) THEN query.limit
                                                                    ELSE Len(Asked))
=============================================================================
