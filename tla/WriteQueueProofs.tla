--------------------------- MODULE WriteQueueProofs --------------------------
(***************************************************************************)
(* Proofs about WriteQueue: its types, that the open mdbx transaction is   *)
(* used by one thread at a time, that the workers process the instructions *)
(* in their order, and that a block is part of one transaction.            *)
(*                                                                         *)
(* TxnUsedByOne follows from LockHolder: whoever uses the transaction      *)
(* holds writingLock, and the lock has one holder.  The types need the     *)
(* three facts TypeInv adds to TypeOK: slots are kept free for the ends of *)
(* the open blocks, batchDepth counts the open blocks, and no instruction  *)
(* lies behind the last slot.  InOrder and BlocksAreAtomic follow from the *)
(* token and the places of the slots (WriteQueueOrder).  Every step of     *)
(* Next has a lemma of its own for each of the three.                      *)
(***************************************************************************)
EXTENDS WriteQueueOrder, FiniteSetTheorems, SequenceTheorems, TLAPS

USE ConstantsAssumption

LEMMA SlotFacts == /\ Slots \subseteq Nat \ {0} /\ Slots \subseteq Positions
                   /\ NSlots + 1 \in Positions /\ 1 \in Slots
                   /\ \A p \in Positions : p # NSlots + 1 => p \in Slots /\ p + 1 \in Positions
                   /\ \A p \in Positions : p <= NSlots => p \in Slots
                   /\ 0 \notin Slots /\ 0 \notin Positions
                   /\ JS \notin Slots /\ JS # 0
  BY DEF Slots, Positions, JS

LEMMA InitTypeInv == Init => TypeInv
  <1> SUFFICES ASSUME Init PROVE TypeInv
    OBVIOUS
  <1> USE SlotFacts DEF Init
  <1>1. TypeShared /\ TypePlacing
    BY DEF TypeShared, TypePlacing, Bits, Kinds, Slots, Positions
  <1>2. TypeBatching /\ TypeStarting
    <2>1. enqueuedCommit \in BOOLEAN
      BY Zenon
    <2>2. blocks \in Seq(Slots) /\ outstandingWriteCount \in Int
      OBVIOUS
    <2> QED BY <2>1, <2>2 DEF TypeBatching, TypeStarting
  <1>3. TypeResolving /\ TypeTxnChain
    BY DEF TypeResolving, TypeTxnChain
  <1>4. TypeCallbacks
    BY DEF TypeCallbacks
  <1>5. TypePromises
    BY DEF TypePromises, Resolved, Settlements
  <1>6. TypeTodo /\ TypeHistory
    BY DEF TypeTodo, TypeHistory
  <1>7. TypeWorker
    BY DEF TypeWorker, WorkerRecords, WorkerStates, WorkerAt, Positions
  <1>8. RoomForEnds /\ DepthOfBlocks
    BY DEF RoomForEnds, DepthOfBlocks
  <1>9. NothingPastEnd
    BY DEF NothingPastEnd, WorkerAt, Positions
  <1> QED BY <1>1, <1>2, <1>3, <1>4, <1>5, <1>6, <1>7, <1>8, <1>9 DEF TypeInv, TypeOK

(* The parts of the invariant that a step leaves alone.                     *)
LEMMA UnchangedTypes ==
  /\ TypeShared /\ UNCHANGED shared => TypeShared'
  /\ TypePlacing /\ UNCHANGED placing => TypePlacing'
  /\ TypeBatching /\ UNCHANGED batching => TypeBatching'
  /\ TypeStarting /\ UNCHANGED <<starting, outstandingWriteCount>> => TypeStarting'
  /\ TypeResolving /\ UNCHANGED <<resolutions, resolving>> => TypeResolving'
  /\ TypeTxnChain /\ UNCHANGED txnChain => TypeTxnChain'
  /\ TypeCallbacks /\ UNCHANGED callbackVars => TypeCallbacks'
  /\ TypePromises /\ UNCHANGED promises => TypePromises'
  /\ TypeTodo /\ UNCHANGED todo => TypeTodo'
  /\ TypeWorker /\ UNCHANGED worker => TypeWorker'
  /\ TypeHistory /\ UNCHANGED history => TypeHistory'
  /\ RoomForEnds /\ UNCHANGED <<placing, batching>> => RoomForEnds'
  /\ DepthOfBlocks /\ UNCHANGED batching => DepthOfBlocks'
  /\ NothingPastEnd /\ UNCHANGED <<shared, worker>> => NothingPastEnd'
  <1>1. TypeShared /\ UNCHANGED shared => TypeShared'
    BY DEF TypeShared, shared
  <1>2. TypePlacing /\ UNCHANGED placing => TypePlacing'
    BY DEF TypePlacing, placing
  <1>3. TypeBatching /\ UNCHANGED batching => TypeBatching'
    BY DEF TypeBatching, batching
  <1>4. TypeStarting /\ UNCHANGED <<starting, outstandingWriteCount>> => TypeStarting'
    BY DEF TypeStarting, starting
  <1>5. TypeResolving /\ UNCHANGED <<resolutions, resolving>> => TypeResolving'
    BY DEF TypeResolving, resolving
  <1>6. TypeTxnChain /\ UNCHANGED txnChain => TypeTxnChain'
    BY DEF TypeTxnChain, txnChain
  <1>7. TypeCallbacks /\ UNCHANGED callbackVars => TypeCallbacks'
    BY DEF TypeCallbacks, callbackVars
  <1>8. TypePromises /\ UNCHANGED promises => TypePromises'
    BY DEF TypePromises, promises
  <1>9. TypeTodo /\ UNCHANGED todo => TypeTodo'
    BY DEF TypeTodo
  <1>10. TypeWorker /\ UNCHANGED worker => TypeWorker'
    BY DEF TypeWorker
  <1>11. TypeHistory /\ UNCHANGED history => TypeHistory'
    BY DEF TypeHistory, history
  <1>12. RoomForEnds /\ UNCHANGED <<placing, batching>> => RoomForEnds'
    BY DEF RoomForEnds, placing, batching
  <1>13. DepthOfBlocks /\ UNCHANGED batching => DepthOfBlocks'
    BY DEF DepthOfBlocks, batching
  <1>14. NothingPastEnd /\ UNCHANGED <<shared, worker>> => NothingPastEnd'
    BY DEF NothingPastEnd, shared
  <1> QED BY <1>1, <1>2, <1>3, <1>4, <1>5, <1>6, <1>7, <1>8, <1>9, <1>10, <1>11,
             <1>12, <1>13, <1>14

(* Every step a JavaScript call is made of is well formed.                  *)
LEMMA StepTypes ==
  /\ \A op \in {"load", "store", "or", "seen", "promise", "callbacks"}, s \in Slots,
        st \in SUBSET Bits : Step(op, s, st) \in JSSteps
  /\ Resolve \in Seq(JSSteps)
  /\ \A s \in Slots : Finish(s) \in JSSteps
  /\ \A s \in Slots, st \in SUBSET Bits : AfterStore(s, st) \in Seq(JSSteps)
  <1>1. \A op \in {"load", "store", "or", "seen", "promise", "callbacks"}, s \in Slots,
           st \in SUBSET Bits : Step(op, s, st) \in JSSteps
    BY DEF Step, JSSteps
  <1>2. Step("unwritten", 0, {}) \in JSSteps /\ Step("committed", 0, {}) \in JSSteps
    BY DEF Step, JSSteps
  <1>3. Resolve \in Seq(JSSteps)
    BY <1>2 DEF Resolve
  <1>4. \A s \in Slots : Finish(s) \in JSSteps
    BY DEF Finish, Step, JSSteps
  <1>5. \A s \in Slots, st \in SUBSET Bits : AfterStore(s, st) \in Seq(JSSteps)
    BY <1>1 DEF AfterStore
  <1> QED BY <1>1, <1>3, <1>4, <1>5

LEMMA Concat == ASSUME NEW S, NEW a \in Seq(S), NEW b \in Seq(S)
                PROVE  a \o b \in Seq(S)
  OBVIOUS

LEMMA FrontOfSeq ==
  ASSUME NEW S, NEW q \in Seq(S), q # <<>>
  PROVE  /\ SubSeq(q, 1, Len(q) - 1) \in Seq(S)
         /\ Len(SubSeq(q, 1, Len(q) - 1)) = Len(q) - 1
  <1>1. Len(q) \in Nat \ {0} /\ \A i \in 1..Len(q) : q[i] \in S
    OBVIOUS
  <1> DEFINE n == Len(q) - 1
  <1>2. n \in Nat /\ \A i \in 1..n : q[i] \in S
    BY <1>1
  <1> HIDE DEF n
  <1>3. 1 \in Int /\ n \in Int
    BY <1>2
  <1>4. /\ SubSeq(q, 1, n) \in Seq(S)
        /\ Len(SubSeq(q, 1, n)) = IF 1 <= n THEN n - 1 + 1 ELSE 0
    BY <1>2, <1>3, SubSeqProperties
  <1>5. SubSeq(q, 1, n) \in Seq(S) /\ Len(SubSeq(q, 1, n)) = n
    BY <1>2, <1>4
  <1> QED BY <1>5, Zenon DEF n

LEMMA HeadOfTodo ==
  ASSUME TypeTodo, todo # <<>>
  PROVE  /\ Head(todo) \in JSSteps /\ Tail(todo) \in Seq(JSSteps)
         /\ Head(todo).op \notin {"unwritten", "committed"} =>
              Head(todo).slot \in Slots /\ Head(todo).status \in SUBSET Bits
  <1>1. Head(todo) \in JSSteps /\ Tail(todo) \in Seq(JSSteps)
    BY DEF TypeTodo
  <1> QED BY <1>1 DEF JSSteps

-----------------------------------------------------------------------------
(* The steps of a JavaScript call keep the type invariant.                  *)

LEMMA LoadTypeInv == TypeInv /\ Load => TypeInv'
  <1> SUFFICES ASSUME TypeInv, Load PROVE TypeInv'
    OBVIOUS
  <1>1. TypeTodo'
    <2>1. Head(todo).slot \in Slots /\ Tail(todo) \in Seq(JSSteps)
      BY HeadOfTodo DEF TypeInv, TypeOK, Load, Doing
    <2>2. Step("store", Head(todo).slot, word[Head(todo).slot]) \in JSSteps
      BY <2>1, SlotFacts, StepTypes DEF TypeInv, TypeOK, TypeShared
    <2> QED BY <2>1, <2>2 DEF Load, TypeTodo
  <1> QED BY <1>1, UnchangedTypes DEF TypeInv, TypeOK, Load, writing

LEMMA StoreTypeInv == TypeInv /\ Store => TypeInv'
  <1> SUFFICES ASSUME TypeInv, Store PROVE TypeInv'
    OBVIOUS
  <1> DEFINE s == Head(todo).slot
             st == Head(todo).status
  <1>1. s \in Slots /\ st \in SUBSET Bits /\ Tail(todo) \in Seq(JSSteps)
    BY HeadOfTodo DEF TypeInv, TypeOK, Store, Doing
  <1>2. TypeShared'
    BY <1>1, SlotFacts DEF TypeInv, TypeOK, TypeShared, Store, Bits
  <1>3. TypeBatching' /\ RoomForEnds' /\ DepthOfBlocks'
    BY SlotFacts DEF TypeInv, TypeOK, TypeBatching, Store, RoomForEnds, DepthOfBlocks, placing
  <1>4. TypeTodo'
    <2> DEFINE counts == kind[s] # "end" /\ writeBatchStart # 0 /\ st = {}
               release == counts /\ outstandingBatchCount + 1 > BatchStartThreshold
               early == IF release THEN <<Finish(writeBatchStart)>> ELSE <<>>
    <2>1. early \in Seq(JSSteps)
      BY StepTypes DEF TypeInv, TypeOK, TypeBatching
    <2>2. AfterStore(s, st) \in Seq(JSSteps)
      BY <1>1, StepTypes
    <2>3. (early \o AfterStore(s, st)) \o Tail(todo) \in Seq(JSSteps)
      <3> HIDE DEF early
      <3> QED BY <1>1, <2>1, <2>2, Concat
    <2>4. todo' = (early \o AfterStore(s, st)) \o Tail(todo)
      BY DEF Store
    <2> QED BY <2>3, <2>4 DEF TypeTodo
  <1>5. NothingPastEnd'
    BY <1>1, SlotFacts DEF TypeInv, TypeOK, TypeShared, NothingPastEnd, Store, writing, Slots, Positions
  <1> QED BY <1>2, <1>3, <1>4, <1>5, UnchangedTypes DEF TypeInv, TypeOK, Store, writing

LEMMA OrTypeInv == TypeInv /\ Or => TypeInv'
  <1> SUFFICES ASSUME TypeInv, Or PROVE TypeInv'
    OBVIOUS
  <1> DEFINE s == Head(todo).slot
  <1>1. s \in Slots /\ Tail(todo) \in Seq(JSSteps)
    BY HeadOfTodo DEF TypeInv, TypeOK, Or, Doing
  <1>2. TypeShared'
    BY <1>1, SlotFacts DEF TypeInv, TypeOK, TypeShared, Or, Bits
  <1>3. TypeTodo'
    <2>1. AfterStore(s, word[s]) \in Seq(JSSteps)
      BY <1>1, SlotFacts, StepTypes DEF TypeInv, TypeOK, TypeShared
    <2> QED BY <1>1, <2>1, Concat DEF Or, TypeTodo
  <1>4. NothingPastEnd'
    BY <1>1, SlotFacts DEF TypeInv, TypeOK, TypeShared, NothingPastEnd, Or, writing, Slots, Positions
  <1> QED BY <1>2, <1>3, <1>4, UnchangedTypes DEF TypeInv, TypeOK, Or, writing

(* Queueing the end of a transaction and launching a worker keep the types. *)
LEMMA QueueCommitTypes ==
  ASSUME TypeTxnChain, NEW s \in Positions, QueueCommit(s)
  PROVE  TypeTxnChain'
  BY DEF TypeTxnChain, QueueCommit

LEMMA StartWritingTypes ==
  ASSUME TypeWorker, NEW s \in {0} \cup Slots, StartWriting(s)
  PROVE  /\ TypeWorker'
         /\ \A w \in Slots : worker'[w].pc = "mark" =>
              worker[w].pc = "mark" /\ worker'[w].at = worker[w].at
  <1>1. WorkerAt("queued", s).pc = "queued"
    BY DEF WorkerAt
  <1>2. s \in Slots => WorkerAt("queued", s) \in WorkerRecords
    BY SlotFacts DEF WorkerAt, WorkerRecords, WorkerStates
  <1>3. CASE s = 0
    <2>1. worker' = worker
      BY <1>3, SlotFacts DEF StartWriting, TypeWorker
    <2> QED BY <2>1 DEF TypeWorker
  <1>4. CASE s \in Slots
    BY <1>1, <1>2, <1>4 DEF StartWriting, TypeWorker
  <1> QED BY <1>3, <1>4

LEMMA SeenTypeInv == TypeInv /\ Seen => TypeInv'
  <1> SUFFICES ASSUME TypeInv, Seen PROVE TypeInv'
    OBVIOUS
  <1> DEFINE s == Head(todo).slot
             begins == Has(Head(todo).status, "DELIMITER")
             start == IF begins /\ startAddress = 0 THEN s ELSE startAddress
             count == outstandingWriteCount + 1
             startNow == start # 0 /\ (EventTurnBatching
                                       \/ (enqueuedCommit /\ count > TxnStartThreshold))
  <1>1. s \in Slots /\ Tail(todo) \in Seq(JSSteps)
    BY HeadOfTodo DEF TypeInv, TypeOK, Seen, Doing
  <1>2. start \in {0} \cup Slots
    BY <1>1 DEF TypeInv, TypeOK, TypeStarting
  <1>3. TypeStarting'
    <2>1. startAddress' \in {0} \cup Slots /\ outstandingWriteCount' \in Int
      BY <1>2 DEF Seen, TypeInv, TypeOK, TypeStarting
    <2>2. enqueuedCommit' \in BOOLEAN
      <3>1. enqueuedCommit' = IF start = 0 THEN enqueuedCommit ELSE ~startNow
        BY DEF Seen
      <3>2. enqueuedCommit \in BOOLEAN
        BY DEF TypeInv, TypeOK, TypeStarting
      <3> HIDE DEF start, startNow
      <3>3. start # 0 => enqueuedCommit' \in {TRUE, FALSE}
        BY <3>1
      <3> QED BY <3>1, <3>2, <3>3
    <2> QED BY <2>1, <2>2 DEF TypeStarting
  <1>4. TypeTxnChain'
    <2>1. CASE begins
      <3>1. QueueCommit(s)
        BY <2>1 DEF Seen
      <3> QED BY <3>1, <1>1, SlotFacts, QueueCommitTypes DEF TypeInv, TypeOK
    <2>2. CASE ~begins
      BY <2>2, UnchangedTypes DEF Seen, TypeInv, TypeOK
    <2> QED BY <2>1, <2>2
  <1>5. TypeWorker' /\ NothingPastEnd'
    <2>1. CASE startNow
      <3>1. StartWriting(start)
        BY <2>1 DEF Seen
      <3> HIDE DEF start
      <3> QED BY <3>1, <1>2, StartWritingTypes
              DEF TypeInv, TypeOK, NothingPastEnd, Seen, shared
    <2>2. CASE ~startNow
      BY <2>2, UnchangedTypes DEF Seen, TypeInv, TypeOK
    <2> QED BY <2>1, <2>2
  <1>6. TypeTodo'
    <2> DEFINE loops == IF count % ResolveEvery = 0 THEN Resolve ELSE <<>>
    <2>1. loops \in Seq(JSSteps) /\ <<Step("promise", s, {})>> \in Seq(JSSteps)
      BY <1>1, StepTypes
    <2>2. (loops \o <<Step("promise", s, {})>>) \o Tail(todo) \in Seq(JSSteps)
      <3> HIDE DEF loops
      <3> QED BY <1>1, <2>1, Concat
    <2>3. todo' = (loops \o <<Step("promise", s, {})>>) \o Tail(todo)
      BY DEF Seen
    <2> QED BY <2>2, <2>3 DEF TypeTodo
  <1>7. TypePromises'
    BY DEF Seen, TypeInv, TypeOK, TypePromises
  <1> QED BY <1>3, <1>4, <1>5, <1>6, <1>7, UnchangedTypes DEF TypeInv, TypeOK, Seen

LEMMA ReturnPromiseTypeInv == TypeInv /\ ReturnPromise => TypeInv'
  <1> SUFFICES ASSUME TypeInv, ReturnPromise PROVE TypeInv'
    OBVIOUS
  <1>1. Head(todo).slot \in Slots /\ Tail(todo) \in Seq(JSSteps)
    BY HeadOfTodo DEF TypeInv, TypeOK, ReturnPromise, Doing
  <1>2. TypePromises'
    <2>1. 0 \in 0..Resolved /\ Resolved \in 0..Resolved /\ Slots \subseteq 0..Resolved
      BY DEF Resolved, Slots
    <2>2. UNCHANGED settled
      BY DEF ReturnPromise
    <2> QED BY <1>1, <2>1, <2>2 DEF TypeInv, TypeOK, TypePromises, ReturnPromise
  <1>3. TypeTodo'
    BY <1>1 DEF ReturnPromise, TypeTodo
  <1> QED BY <1>2, <1>3, UnchangedTypes DEF TypeInv, TypeOK, ReturnPromise, writing

LEMMA AdvanceUnwrittenTypeInv == TypeInv /\ AdvanceUnwritten => TypeInv'
  <1> SUFFICES ASSUME TypeInv, AdvanceUnwritten PROVE TypeInv'
    OBVIOUS
  <1> DEFINE s == resolutions[unwritten]
             finished == unwritten <= Len(resolutions) /\ Has(word[s], "FINISHED")
  <1>1. Tail(todo) \in Seq(JSSteps)
    BY HeadOfTodo DEF TypeInv, TypeOK, AdvanceUnwritten, Doing
  <1>2. finished => s \in Slots
    BY DEF TypeInv, TypeOK, TypeResolving
  <1>3. TypeTodo'
    BY <1>1 DEF AdvanceUnwritten, TypeInv, TypeOK, TypeTodo
  <1>4. TypeStarting'
    <2>1. outstandingWriteCount' \in Int
      BY DEF AdvanceUnwritten, TypeInv, TypeOK, TypeStarting
    <2>2. UNCHANGED starting
      BY DEF AdvanceUnwritten
    <2> QED BY <2>1, <2>2 DEF TypeInv, TypeOK, TypeStarting, starting
  <1>5. TypeResolving' /\ TypeCallbacks'
    <2>1. CASE finished
      <3>1. unwritten' \in Nat \ {0} /\ uncommitted' \in Nat /\ resolutions' \in Seq(Slots)
        BY <2>1 DEF AdvanceUnwritten, TypeInv, TypeOK, TypeResolving
      <3>2. flag' \in [Slots -> BOOLEAN]
        <4>1. Has(word[s], "FAILED_CONDITION") \in BOOLEAN
          BY DEF Has
        <4>2. flag' = [flag EXCEPT ![s] = Has(word[s], "FAILED_CONDITION")]
          BY <2>1 DEF AdvanceUnwritten
        <4>3. flag \in [Slots -> BOOLEAN]
          BY DEF TypeInv, TypeOK, TypeResolving
        <4> QED BY <4>1, <4>2, <4>3, Zenon
      <3>3. TypeCallbacks'
        BY <1>2, <2>1 DEF AdvanceUnwritten, TypeInv, TypeOK, TypeCallbacks
      <3> QED BY <3>1, <3>2, <3>3 DEF TypeResolving
    <2>2. CASE ~finished
      BY <2>2 DEF AdvanceUnwritten, TypeInv, TypeOK, TypeResolving, TypeCallbacks
    <2> QED BY <2>1, <2>2
  <1> QED BY <1>3, <1>4, <1>5, UnchangedTypes DEF TypeInv, TypeOK, AdvanceUnwritten, writing

LEMMA SettleTxnTypeInv == TypeInv /\ SettleTxn => TypeInv'
  <1> SUFFICES ASSUME TypeInv, SettleTxn PROVE TypeInv'
    OBVIOUS
  <1> DEFINE done == txnResolution # 0 /\ word[txnResolution] \cap TxnDone # {}
  <1>1. Tail(todo) \in Seq(JSSteps)
    BY HeadOfTodo DEF TypeInv, TypeOK, SettleTxn, Doing
  <1>2. TypeTodo'
    BY <1>1 DEF SettleTxn, TypeInv, TypeOK, TypeTodo
  <1>3. TypeTxnChain'
    BY DEF SettleTxn, TypeInv, TypeOK, TypeTxnChain
  <1>4. TypeResolving'
    <2>1. IndexOf(txnResolution) \in Nat
      <3>1. DOMAIN resolutions \subseteq Nat /\ Len(resolutions) \in Nat
        BY DEF TypeInv, TypeOK, TypeResolving
      <3> QED BY <3>1 DEF IndexOf
    <2> QED BY <2>1 DEF SettleTxn, TypeInv, TypeOK, TypeResolving
  <1>5. TypePromises'
    <2>1. CASE done
      BY <2>1 DEF SettleTxn, TypeInv, TypeOK, TypePromises, Settlements
    <2>2. CASE ~done
      BY <2>2 DEF SettleTxn, TypeInv, TypeOK, TypePromises
    <2> QED BY <2>1, <2>2
  <1> QED BY <1>2, <1>3, <1>4, <1>5, UnchangedTypes DEF TypeInv, TypeOK, SettleTxn, writing

LEMMA RunCallbacksTypeInv == TypeInv /\ RunCallbacks => TypeInv'
  <1> SUFFICES ASSUME TypeInv, RunCallbacks PROVE TypeInv'
    OBVIOUS
  <1>1. Head(todo).slot \in Slots /\ Tail(todo) \in Seq(JSSteps)
    BY HeadOfTodo DEF TypeInv, TypeOK, RunCallbacks, Doing
  <1>2. TypeTodo' /\ TypeShared'
    BY <1>1 DEF RunCallbacks, TypeTodo, TypeShared, TypeInv, TypeOK
  <1>3. TypeCallbacks'
    BY <1>1 DEF RunCallbacks, TypeCallbacks, TypeInv, TypeOK
  <1>4. NothingPastEnd'
    BY DEF RunCallbacks, NothingPastEnd, TypeInv, writing
  <1> QED BY <1>2, <1>3, <1>4, UnchangedTypes DEF TypeInv, TypeOK, RunCallbacks, writing

-----------------------------------------------------------------------------
(* The calls of the program and the event loop keep the type invariant.     *)

(* Where writeInstructions may place an instruction.                        *)
LEMMA PlaceFacts ==
  ASSUME TypeInv, NEW startFull \in BOOLEAN, NEW full \in BOOLEAN, NEW more \in Nat,
         Fits(Place(startFull, full), more)
  PROVE  LET place == Place(startFull, full) IN
         /\ place.slot \in Slots /\ place.next \in Positions /\ place.slot < place.next
         /\ place.depth \in Nat /\ place.pointers \in SUBSET Slots
         /\ place.opensTurn \in BOOLEAN
         /\ place.opensTurn => position \in Slots /\ turn = 0 /\ batchDepth = 0
         /\ place.depth = IF place.opensTurn THEN 1 ELSE batchDepth
         /\ place.next + Len(blocks) + more
              + (IF place.opensTurn \/ turn # 0 THEN 1 ELSE 0) <= NSlots + 1
         /\ buffers + Cardinality(place.pointers) \in 0..MaxBuffers
  <1> DEFINE place == Place(startFull, full)
             opensTurn == EventTurnBatching /\ turn = 0 /\ batchDepth = 0
             slot == IF opensTurn THEN After(position, startFull) ELSE position
             pointers == (IF opensTurn /\ startFull THEN {position + 1} ELSE {})
                         \cup (IF full THEN {slot + 1} ELSE {})
  <1>1. place = [opensTurn |-> opensTurn, slot |-> slot, next |-> After(slot, full),
                 depth |-> IF opensTurn THEN 1 ELSE batchDepth, pointers |-> pointers]
    BY DEF Place
  <1>2. /\ place.opensTurn = opensTurn /\ place.slot = slot
        /\ place.next = After(slot, full) /\ place.pointers = pointers
        /\ place.depth = IF opensTurn THEN 1 ELSE batchDepth
    <2> HIDE DEF opensTurn, slot, pointers, place
    <2> QED BY <1>1
  <1>3. position \in Nat \ {0} /\ buffers \in Nat /\ batchDepth \in Nat /\ Len(blocks) \in Nat
    BY DEF TypeInv, TypeOK, TypePlacing, TypeBatching, Positions
  <1>4. slot \in Nat \ {0} /\ position <= slot /\ After(slot, full) \in Nat
        /\ slot < After(slot, full) /\ (opensTurn => position < slot)
    BY <1>3 DEF After
  <1>5. place.next + Len(blocks) + more
          + (IF place.opensTurn \/ turn # 0 THEN 1 ELSE 0) <= NSlots + 1
        /\ buffers + Cardinality(place.pointers) <= MaxBuffers
    BY DEF Fits
  <1>6. After(slot, full) <= NSlots + 1
    <2>1. place.next <= NSlots + 1
      <3> HIDE DEF place
      <3> QED BY <1>2, <1>3, <1>4, <1>5
    <2> QED BY <2>1, <1>2
  <1>7. slot \in Slots /\ After(slot, full) \in Positions
        /\ (opensTurn => position \in Slots)
    BY <1>3, <1>4, <1>6 DEF Slots, Positions
  <1>8. pointers \in SUBSET Slots /\ Cardinality(pointers) \in Nat
    <2>1. pointers \in SUBSET Slots
      BY <1>3, <1>4, <1>6 DEF Slots, After
    <2>2. pointers \subseteq {position + 1, slot + 1}
      OBVIOUS
    <2>3. IsFiniteSet({position + 1, slot + 1})
      <3>1. IsFiniteSet({position + 1})
        BY FS_Singleton
      <3>2. {position + 1, slot + 1} = {position + 1} \cup {slot + 1}
        OBVIOUS
      <3> QED BY <3>1, <3>2, FS_AddElement
    <2> QED BY <2>1, <2>2, <2>3, FS_Subset, FS_CardinalityType
  <1>9. opensTurn \in BOOLEAN
    OBVIOUS
  <1> HIDE DEF opensTurn, slot, pointers, place
  <1>10. place.opensTurn => turn = 0 /\ batchDepth = 0
    BY <1>2 DEF opensTurn
  <1> QED BY <1>2, <1>3, <1>4, <1>5, <1>7, <1>8, <1>9, <1>10 DEF place

LEMMA ReserveTypes ==
  ASSUME TypeInv, NEW k \in {"write", "callback", "start"}, NEW own \in BOOLEAN,
         NEW startFull \in BOOLEAN, NEW full \in BOOLEAN, NEW more \in Nat,
         Fits(Place(startFull, full), more),
         Reserve(k, own, Place(startFull, full)), UNCHANGED <<lock, worker>>
  PROVE  /\ TypePlacing' /\ TypeShared' /\ NothingPastEnd'
         /\ turn' \in {0} \cup Slots
         /\ resolutions' \in Seq(Slots)
         /\ commitPromise' \in {0} \cup Slots
  <1> DEFINE place == Place(startFull, full)
             outermost == IF place.opensTurn THEN position
                          ELSE IF turn # 0 THEN turn
                          ELSE IF blocks # <<>> THEN Head(blocks) ELSE place.slot
  <1>1. /\ place.slot \in Slots /\ place.next \in Positions /\ place.slot < place.next
        /\ place.depth \in Nat /\ place.pointers \in SUBSET Slots
        /\ place.opensTurn => position \in Slots
        /\ buffers + Cardinality(place.pointers) \in 0..MaxBuffers
    BY PlaceFacts
  <1>2. outermost \in Slots
    BY <1>1 DEF TypeInv, TypeOK, TypeBatching
  <1> HIDE DEF place, outermost
  <1>3. Reserve(k, own, place)
    BY DEF place
  <1>4. TypePlacing'
    <2>1. position' \in Positions /\ buffers' \in 0..MaxBuffers
      BY <1>1, <1>3 DEF Reserve
    <2>2. kind' \in [Slots -> Kinds]
      BY <1>3 DEF Reserve, TypeInv, TypeOK, TypePlacing, Kinds
    <2>3. writtenBatchDepth' \in [Slots -> Nat] /\ ownPromise' \subseteq Slots
      BY <1>1, <1>3 DEF Reserve, TypeInv, TypeOK, TypePlacing
    <2>4. group' \in [Slots -> {0} \cup Slots]
      <3>1. group' = [s \in Slots |->
                        IF s = place.slot \/ (s = position /\ place.opensTurn)
                        THEN outermost ELSE group[s]]
        BY <1>3 DEF Reserve, outermost
      <3> QED BY <1>2, <3>1 DEF TypeInv, TypeOK, TypePlacing
    <2> QED BY <2>1, <2>2, <2>3, <2>4 DEF TypePlacing
  <1>5. TypeShared' /\ NothingPastEnd'
    <2>1. word' = [s \in Positions |->
                     IF s \in place.pointers THEN {"INSTR"} ELSE word[s]]
      BY <1>3 DEF Reserve
    <2>2. TypeShared'
      BY <2>1 DEF TypeInv, TypeOK, TypeShared, Bits
    <2>3. NSlots + 1 \notin place.pointers
      BY <1>1 DEF Slots
    <2>4. NothingPastEnd'
      BY <2>1, <2>3, SlotFacts DEF TypeInv, TypeOK, NothingPastEnd
    <2> QED BY <2>2, <2>4
  <1>6. turn' \in {0} \cup Slots /\ commitPromise' \in {0} \cup Slots
    BY <1>1, <1>3 DEF Reserve, TypeInv, TypeOK, TypeBatching, TypePromises
  <1>7. resolutions' \in Seq(Slots)
    <2>1. (IF place.opensTurn THEN <<position, place.slot>> ELSE <<place.slot>>)
            \in Seq(Slots)
      BY <1>1
    <2>2. resolutions' = resolutions \o
            (IF place.opensTurn THEN <<position, place.slot>> ELSE <<place.slot>>)
      BY <1>3 DEF Reserve
    <2> QED BY <2>1, <2>2, Concat DEF TypeInv, TypeOK, TypeResolving
  <1> QED BY <1>4, <1>5, <1>6, <1>7

LEMMA WriteTypeInv ==
  ASSUME TypeInv, NEW k \in {"write", "callback"}, NEW own \in BOOLEAN, Write(k, own)
  PROVE  TypeInv'
  <1>1. PICK startFull \in BOOLEAN, full \in BOOLEAN :
          LET place == Place(startFull, full) IN
          /\ Fits(place, 0)
          /\ Reserve(k, own, place)
          /\ batchDepth' = place.depth
          /\ writeBatchStart' = IF place.opensTurn THEN position ELSE writeBatchStart
          /\ outstandingBatchCount' = IF place.opensTurn THEN 0 ELSE outstandingBatchCount
          /\ callbacks' = IF k = "callback"
                          THEN [callbacks EXCEPT ![position] = place.slot]
                          ELSE callbacks
          /\ todo' = <<Step(IF place.depth > 0 THEN "load" ELSE "or", place.slot, {})>>
          /\ UNCHANGED <<lock, blocks, starting, outstandingWriteCount, txnChain,
                         resolving, nextTxnCallbacks, ran, hasResolver, promise,
                         settled, writing>>
    BY DEF Write
  <1> DEFINE place == Place(startFull, full)
  <1>2. /\ place.slot \in Slots /\ place.depth \in Nat
        /\ place.opensTurn => position \in Slots /\ turn = 0 /\ batchDepth = 0
        /\ place.depth = IF place.opensTurn THEN 1 ELSE batchDepth
        /\ place.next + Len(blocks)
              + (IF place.opensTurn \/ turn # 0 THEN 1 ELSE 0) <= NSlots + 1
        /\ place.next \in Nat
    <2>1. place.next + Len(blocks) + 0
              + (IF place.opensTurn \/ turn # 0 THEN 1 ELSE 0) <= NSlots + 1
          /\ place.next \in Nat
      BY <1>1, PlaceFacts, SlotFacts DEF Positions
    <2>2. Len(blocks) \in Nat
      BY DEF TypeInv, TypeOK, TypeBatching
    <2>3. place.next + Len(blocks) + 0 = place.next + Len(blocks)
      BY <2>1, <2>2
    <2> QED BY <1>1, <2>1, <2>3, PlaceFacts
  <1>3. /\ TypePlacing' /\ TypeShared' /\ NothingPastEnd' /\ turn' \in {0} \cup Slots
        /\ resolutions' \in Seq(Slots) /\ commitPromise' \in {0} \cup Slots
    BY <1>1, ReserveTypes DEF writing
  <1>4. position' = place.next /\ turn' = IF place.opensTurn THEN position ELSE turn
    BY <1>1 DEF Reserve
  <1> HIDE DEF place
  <1>5. TypeBatching'
    BY <1>1, <1>2, <1>3 DEF place, TypeInv, TypeOK, TypeBatching
  <1>6. RoomForEnds' /\ DepthOfBlocks'
    <2>1. batchDepth' = place.depth /\ blocks' = blocks
      BY <1>1 DEF place
    <2>2. place.opensTurn => turn' # 0
      BY <1>2, <1>4, SlotFacts
    <2>3. Len(blocks) \in Nat
      BY DEF TypeInv, TypeOK, TypeBatching
    <2> QED BY <1>2, <1>4, <2>1, <2>2, <2>3 DEF RoomForEnds, DepthOfBlocks, TypeInv
  <1>7. TypeTodo'
    <2>1. Step(IF place.depth > 0 THEN "load" ELSE "or", place.slot, {}) \in JSSteps
      BY <1>2, StepTypes
    <2> QED BY <1>1, <2>1 DEF place, TypeTodo
  <1>8. TypeCallbacks'
    BY <1>1, <1>2 DEF place, TypeInv, TypeOK, TypeCallbacks
  <1>9. TypePromises' /\ TypeResolving'
    BY <1>1, <1>3 DEF TypeInv, TypeOK, TypePromises, TypeResolving, resolving
  <1> QED BY <1>1, <1>3, <1>5, <1>6, <1>7, <1>8, <1>9, UnchangedTypes
          DEF TypeInv, TypeOK, writing

LEMMA OpenBlockTypeInv ==
  ASSUME TypeInv, NEW own \in BOOLEAN, OpenBlock(own)
  PROVE  TypeInv'
  <1>1. PICK startFull \in BOOLEAN, full \in BOOLEAN :
          LET place == Place(startFull, full)
              nested == place.depth > 0
          IN
          /\ Fits(place, 1)
          /\ Reserve("start", own, place)
          /\ batchDepth' = place.depth + 2
          /\ blocks' = Append(blocks, place.slot)
          /\ writeBatchStart' = IF place.opensTurn THEN position
                                ELSE IF nested THEN writeBatchStart ELSE place.slot
          /\ outstandingBatchCount' = IF place.opensTurn \/ ~nested THEN 0
                                      ELSE outstandingBatchCount
          /\ todo' = IF nested THEN <<Step("load", place.slot, {})>> ELSE <<>>
          /\ UNCHANGED <<lock, starting, outstandingWriteCount, txnChain, resolving,
                         callbackVars, hasResolver, promise, settled, writing>>
    BY DEF OpenBlock
  <1> DEFINE place == Place(startFull, full)
  <1>2. /\ place.slot \in Slots /\ place.depth \in Nat /\ place.next \in Nat
        /\ place.opensTurn => position \in Slots /\ turn = 0 /\ batchDepth = 0
        /\ place.depth = IF place.opensTurn THEN 1 ELSE batchDepth
        /\ place.next + Len(blocks) + 1
              + (IF place.opensTurn \/ turn # 0 THEN 1 ELSE 0) <= NSlots + 1
    BY <1>1, PlaceFacts, SlotFacts DEF Positions
  <1>3. /\ TypePlacing' /\ TypeShared' /\ NothingPastEnd' /\ turn' \in {0} \cup Slots
        /\ resolutions' \in Seq(Slots) /\ commitPromise' \in {0} \cup Slots
    BY <1>1, ReserveTypes DEF writing
  <1>4. position' = place.next /\ turn' = IF place.opensTurn THEN position ELSE turn
    BY <1>1 DEF Reserve
  <1> HIDE DEF place
  <1>5. blocks' \in Seq(Slots) /\ Len(blocks') = Len(blocks) + 1 /\ Len(blocks) \in Nat
    BY <1>1, <1>2 DEF place, TypeInv, TypeOK, TypeBatching
  <1>6. TypeBatching'
    BY <1>1, <1>2, <1>3, <1>5 DEF place, TypeInv, TypeOK, TypeBatching
  <1>7. RoomForEnds' /\ DepthOfBlocks'
    <2>1. batchDepth' = place.depth + 2
      BY <1>1 DEF place
    <2>2. place.opensTurn => turn' # 0
      BY <1>2, <1>4, SlotFacts
    <2>3. (turn' # 0) <=> (place.opensTurn \/ turn # 0)
      BY <1>4, <2>2
    <2>4. RoomForEnds'
      BY <1>2, <1>4, <1>5, <2>3 DEF RoomForEnds
    <2>5. place.depth = 2 * Len(blocks) + (IF place.opensTurn \/ turn # 0 THEN 1 ELSE 0)
      <3>1. place.opensTurn => Len(blocks) = 0
        BY <1>2, <1>5 DEF DepthOfBlocks, TypeInv
      <3> QED BY <1>2, <1>5, <3>1 DEF DepthOfBlocks, TypeInv
    <2>6. DepthOfBlocks'
      BY <1>2, <1>5, <2>1, <2>3, <2>5 DEF DepthOfBlocks
    <2> QED BY <2>4, <2>6
  <1>8. TypeTodo'
    <2>1. Step("load", place.slot, {}) \in JSSteps
      BY <1>2, StepTypes
    <2> QED BY <1>1, <2>1 DEF place, TypeTodo
  <1>9. TypePromises' /\ TypeResolving'
    BY <1>1, <1>3 DEF TypeInv, TypeOK, TypePromises, TypeResolving, resolving
  <1> QED BY <1>1, <1>3, <1>6, <1>7, <1>8, <1>9, UnchangedTypes
          DEF TypeInv, TypeOK, writing

LEMMA EndBlockTypes ==
  ASSUME TypeInv, EndBlock, position <= NSlots,
         UNCHANGED <<writtenBatchDepth, ownPromise, buffers, group>>
  PROVE  TypePlacing' /\ position \in Slots /\ position' = position + 1
  BY SlotFacts DEF EndBlock, TypeInv, TypeOK, TypePlacing, Kinds

LEMMA CloseBlockTypeInv == TypeInv /\ CloseBlock => TypeInv'
  <1> SUFFICES ASSUME TypeInv, CloseBlock PROVE TypeInv'
    OBVIOUS
  <1> DEFINE s == blocks[Len(blocks)]
  <1>1. /\ blocks \in Seq(Slots) /\ blocks # <<>> /\ Len(blocks) \in Nat \ {0}
        /\ position \in Nat /\ batchDepth \in Nat
    BY DEF TypeInv, TypeOK, TypeBatching, TypePlacing, Positions, CloseBlock
  <1>2. s \in Slots /\ blocks' \in Seq(Slots) /\ Len(blocks') = Len(blocks) - 1
    <2>1. s \in Slots
      BY <1>1
    <2>2. blocks' = SubSeq(blocks, 1, Len(blocks) - 1)
      BY DEF CloseBlock
    <2> QED BY <1>1, <2>1, <2>2, FrontOfSeq
  <1>3. position <= NSlots
    BY <1>1 DEF TypeInv, RoomForEnds
  <1>4. TypePlacing' /\ position \in Slots /\ position' = position + 1
    BY <1>3, EndBlockTypes DEF CloseBlock
  <1>5. TypeBatching' /\ RoomForEnds' /\ DepthOfBlocks'
    <2>1. batchDepth' = batchDepth - 2 /\ UNCHANGED turn
      BY DEF CloseBlock
    <2>2. batchDepth' \in Nat /\ DepthOfBlocks'
      BY <1>1, <1>2, <2>1 DEF TypeInv, DepthOfBlocks
    <2>3. RoomForEnds'
      BY <1>1, <1>2, <1>4, <2>1 DEF TypeInv, RoomForEnds
    <2>4. TypeBatching'
      BY <1>2, <2>1, <2>2 DEF CloseBlock, TypeInv, TypeOK, TypeBatching
    <2> QED BY <2>2, <2>3, <2>4
  <1>6. TypeTodo'
    <2>1. /\ Step("load", position, {}) \in JSSteps /\ Finish(s) \in JSSteps
          /\ Step("or", position, {}) \in JSSteps
      BY <1>2, <1>4, StepTypes
    <2> QED BY <2>1 DEF CloseBlock, TypeTodo
  <1> QED BY <1>4, <1>5, <1>6, UnchangedTypes DEF TypeInv, TypeOK, CloseBlock, resolving, writing

LEMMA EndTurnTypeInv == TypeInv /\ EndTurn => TypeInv'
  <1> SUFFICES ASSUME TypeInv, EndTurn PROVE TypeInv'
    OBVIOUS
  <1>1. /\ turn # 0 /\ turn' = 0 /\ blocks = <<>> /\ blocks' = <<>> /\ Len(blocks) = 0
        /\ position \in Nat /\ batchDepth \in Nat
    BY DEF TypeInv, TypeOK, TypeBatching, TypePlacing, Positions, EndTurn
  <1>2. position <= NSlots
    BY <1>1 DEF TypeInv, RoomForEnds
  <1>3. TypePlacing' /\ position \in Slots /\ position' = position + 1
    BY <1>2, EndBlockTypes DEF EndTurn
  <1>4. TypeBatching' /\ RoomForEnds' /\ DepthOfBlocks'
    <2>1. batchDepth' = batchDepth - 1
      BY DEF EndTurn
    <2>2. batchDepth' \in Nat /\ DepthOfBlocks'
      BY <1>1, <2>1 DEF TypeInv, DepthOfBlocks
    <2>3. RoomForEnds'
      BY <1>1, <1>3 DEF TypeInv, RoomForEnds
    <2>4. TypeBatching'
      BY <1>1, <2>2 DEF EndTurn, TypeInv, TypeOK, TypeBatching
    <2> QED BY <2>2, <2>3, <2>4
  <1>5. TypeTodo'
    <2> DEFINE op == IF batchDepth > 1 THEN "load" ELSE "or"
               start == IF writeBatchStart # 0 THEN <<Finish(writeBatchStart)>> ELSE <<>>
    <2>1. <<Step(op, position, {})>> \in Seq(JSSteps)
      BY <1>3, StepTypes
    <2>2. start \in Seq(JSSteps)
      BY StepTypes DEF TypeInv, TypeOK, TypeBatching
    <2>3. todo' = <<Step(op, position, {})>> \o start
      BY DEF EndTurn
    <2> HIDE DEF op, start
    <2> QED BY <2>1, <2>2, <2>3, Concat DEF TypeTodo
  <1> QED BY <1>3, <1>4, <1>5, UnchangedTypes DEF TypeInv, TypeOK, EndTurn, resolving, writing

LEMMA CommitTimerTypeInv == TypeInv /\ CommitTimer => TypeInv'
  <1> SUFFICES ASSUME TypeInv, CommitTimer PROVE TypeInv'
    OBVIOUS
  <1>1. TypeWorker' /\ NothingPastEnd'
    BY StartWritingTypes DEF TypeInv, TypeOK, TypeStarting, CommitTimer, NothingPastEnd, shared
  <1>2. TypeStarting'
    BY Zenon DEF TypeInv, TypeOK, TypeStarting, CommitTimer
  <1> QED BY <1>1, <1>2, UnchangedTypes DEF TypeInv, TypeOK, CommitTimer

LEMMA ObserveTxnTypes ==
  ASSUME TypeInv, NEW following \in Seq(JSSteps), ObserveTxn(following)
  PROVE  TypeTxnChain' /\ TypeTodo'
  <1>1. TypeTodo'
    <2>1. Resolve \o following \in Seq(JSSteps)
      BY StepTypes, Concat
    <2> QED BY <2>1 DEF ObserveTxn, TypeTodo
  <1>2. TypeTxnChain'
    <2>1. position \in Positions
      BY DEF TypeInv, TypeOK, TypePlacing
    <2>2. CASE Has(word[position], "DELIMITER")
      <3>1. QueueCommit(position)
        BY <2>2 DEF ObserveTxn
      <3> QED BY <2>1, <3>1, QueueCommitTypes DEF TypeInv, TypeOK
    <2>3. CASE ~Has(word[position], "DELIMITER")
      BY <2>3, UnchangedTypes DEF ObserveTxn, TypeInv, TypeOK
    <2> QED BY <2>2, <2>3
  <1> QED BY <1>1, <1>2

LEMMA CompletionTypeInv ==
  ASSUME TypeInv, NEW w \in Slots, Completion(w)
  PROVE  TypeInv'
  <1>1. TypeTxnChain' /\ TypeTodo'
    <2>1. <<>> \in Seq(JSSteps)
      OBVIOUS
    <2> QED BY <2>1, ObserveTxnTypes DEF Completion
  <1>2. TypeWorker' /\ NothingPastEnd'
    <2> DEFINE r == [worker[w] EXCEPT !.pc = "done"]
    <2>1. worker \in [Slots -> WorkerRecords]
      BY DEF TypeInv, TypeOK, TypeWorker
    <2>2. r \in WorkerRecords /\ r.pc = "done"
      BY <2>1 DEF WorkerRecords, WorkerStates
    <2>3. worker' = [worker EXCEPT ![w] = r] /\ word' = word
      BY <2>1 DEF Completion, shared
    <2> HIDE DEF r
    <2>4. TypeWorker'
      BY <2>1, <2>2, <2>3 DEF TypeWorker
    <2>5. NothingPastEnd'
      BY <2>1, <2>2, <2>3 DEF TypeInv, NothingPastEnd
    <2> QED BY <2>4, <2>5
  <1> QED BY <1>1, <1>2, UnchangedTypes DEF TypeInv, TypeOK, Completion, resolving

LEMMA ProgressTypeInv ==
  ASSUME TypeInv, NEW w \in Slots, Progress(w)
  PROVE  TypeInv'
  <1>1. <<Step("callbacks", w, {})>> \in Seq(JSSteps)
    BY StepTypes
  <1>2. TypeTxnChain' /\ TypeTodo'
    BY <1>1, ObserveTxnTypes DEF Progress
  <1>3. TypeWorker' /\ NothingPastEnd'
    <2> DEFINE r == [worker[w] EXCEPT !.finishedProgress = TRUE]
    <2>1. worker \in [Slots -> WorkerRecords]
      BY DEF TypeInv, TypeOK, TypeWorker
    <2>2. r \in WorkerRecords /\ r.pc = worker[w].pc /\ r.at = worker[w].at
      BY <2>1 DEF WorkerRecords
    <2>3. worker' = [worker EXCEPT ![w] = r] /\ word' = word
      BY <2>1 DEF Progress
    <2> HIDE DEF r
    <2>4. TypeWorker'
      BY <2>1, <2>2, <2>3 DEF TypeWorker
    <2>5. NothingPastEnd'
      BY <2>1, <2>2, <2>3 DEF TypeInv, NothingPastEnd
    <2> QED BY <2>4, <2>5
  <1>4. TypeShared'
    BY DEF Progress, TypeInv, TypeOK, TypeShared
  <1> QED BY <1>2, <1>3, <1>4, UnchangedTypes DEF TypeInv, TypeOK, Progress, resolving
-----------------------------------------------------------------------------
(* The steps of a worker keep the type invariant.                           *)

(* A worker that found an instruction found it in a slot.                   *)
LEMMA InstructionInSlot ==
  ASSUME TypeInv, NEW w \in Slots, Instruction(w) # "none"
  PROVE  worker[w].at \in Slots /\ worker[w].at + 1 \in Positions
  <1>1. Has(word[worker[w].at], "INSTR")
    BY DEF Instruction
  <1>2. worker[w].at \in Positions
    BY DEF TypeInv, TypeOK, TypeWorker, WorkerRecords
  <1>3. worker[w].at # NSlots + 1
    BY <1>1 DEF TypeInv, NothingPastEnd, Has
  <1> QED BY <1>2, <1>3, SlotFacts

(* What a worker step has to keep: JavaScript's variables it leaves alone.  *)
LEMMA WorkerStepKeeps ==
  ASSUME TypeInv, UNCHANGED JavaScriptVars,
         TypeShared', TypeWorker', TypeHistory', NothingPastEnd'
  PROVE  TypeInv'
  BY UnchangedTypes DEF TypeInv, TypeOK, JavaScriptVars, resolving

(* A step in which worker w changes nothing but its own record.             *)
LEMMA OwnRecordTypes ==
  ASSUME TypeInv, NEW w \in Slots, NEW r \in WorkerRecords,
         worker' = [worker EXCEPT ![w] = r], r.pc = "mark" => r.at \in Slots
  PROVE  /\ TypeWorker'
         /\ \A v \in Slots : worker'[v].pc = "mark" => worker'[v].at \in Slots
  BY DEF TypeInv, TypeOK, TypeWorker, NothingPastEnd

LEMMA SilentStepTypeInv ==
  ASSUME TypeInv, NEW w \in Slots, NEW r \in WorkerRecords,
         worker' = [worker EXCEPT ![w] = r], r.pc = "mark" => r.at \in Slots,
         UNCHANGED <<word, JavaScriptVars>>, TypeHistory', lock' \in {0, JS} \cup Slots
  PROVE  TypeInv'
  <1>1. TypeShared'
    BY DEF TypeInv, TypeOK, TypeShared
  <1>2. TypeWorker' /\ NothingPastEnd'
    BY OwnRecordTypes DEF NothingPastEnd, TypeInv
  <1> QED BY <1>1, <1>2, WorkerStepKeeps

LEMMA RecordFields ==
  ASSUME TypeInv, NEW w \in Slots
  PROVE  /\ worker[w] \in WorkerRecords /\ worker \in [Slots -> WorkerRecords]
         /\ worker[w].at \in Positions /\ word[worker[w].at] \in SUBSET Bits
         /\ worker[w].read \in SUBSET Bits
         /\ worker[w].depth \in Int /\ worker[w].validated \in Int
         /\ worker[w].finishedProgress \in BOOLEAN
         /\ lock \in {0, JS} \cup Slots
  BY DEF TypeInv, TypeOK, TypeWorker, TypeShared, WorkerRecords

LEMMA NamedStates ==
  {"queued", "fetch", "mark", "empty", "wait", "commit", "publish", "complete", "done"}
    \subseteq WorkerStates
  BY DEF WorkerStates

(* The four steps that only move a worker on.                               *)
LEMMA MoveTypeInv ==
  ASSUME TypeInv, NEW w \in Slots, NEW pc \in WorkerStates, pc # "mark",
         worker' = [worker EXCEPT ![w].pc = pc],
         UNCHANGED <<word, JavaScriptVars>>, TypeHistory', lock' \in {0, JS} \cup Slots
  PROVE  TypeInv'
  <1> DEFINE r == [worker[w] EXCEPT !.pc = pc]
  <1>1. worker' = [worker EXCEPT ![w] = r]
    BY RecordFields
  <1>2. r \in WorkerRecords /\ r.pc = pc
    BY RecordFields DEF WorkerRecords
  <1> HIDE DEF r
  <1> QED BY <1>1, <1>2, SilentStepTypeInv

LEMMA BeginTypeInv == ASSUME TypeInv, NEW w \in Slots, Begin(w) PROVE TypeInv'
  <1>1. TypeHistory' /\ lock' \in {0, JS} \cup Slots
    BY UnchangedTypes DEF Begin, TypeInv, TypeOK
  <1> QED BY <1>1, NamedStates, MoveTypeInv DEF Begin

LEMMA RefetchTypeInv == ASSUME TypeInv, NEW w \in Slots, Refetch(w) PROVE TypeInv'
  <1>1. TypeHistory' /\ lock' \in {0, JS} \cup Slots
    BY UnchangedTypes, RecordFields DEF Refetch, TypeInv, TypeOK, shared
  <1> QED BY <1>1, NamedStates, MoveTypeInv DEF Refetch, shared

LEMMA WakeTypeInv == ASSUME TypeInv, NEW w \in Slots, Wake(w) PROVE TypeInv'
  <1>1. TypeHistory' /\ lock' \in {0, JS} \cup Slots
    BY UnchangedTypes DEF Wake, TypeInv, TypeOK
  <1> QED BY <1>1, NamedStates, MoveTypeInv DEF Wake

LEMMA CommitTypeInv == ASSUME TypeInv, NEW w \in Slots, Commit(w) PROVE TypeInv'
  <1>1. TypeHistory' /\ lock' \in {0, JS} \cup Slots
    BY DEF Commit, TypeInv, TypeOK, TypeHistory
  <1> QED BY <1>1, NamedStates, MoveTypeInv DEF Commit

LEMMA FollowPointerTypeInv ==
  ASSUME TypeInv, NEW w \in Slots, FollowPointer(w) PROVE TypeInv'
  <1> DEFINE r == [worker[w] EXCEPT !.at = @ + 1]
  <1>1. worker' = [worker EXCEPT ![w] = r] /\ worker[w].pc = "fetch"
    BY RecordFields DEF FollowPointer, Fetching
  <1>2. r \in WorkerRecords /\ r.pc = worker[w].pc
    <2>1. worker[w].at + 1 \in Positions
      BY InstructionInSlot DEF FollowPointer
    <2> QED BY <2>1, RecordFields DEF WorkerRecords
  <1>3. TypeHistory' /\ lock' \in {0, JS} \cup Slots
    BY UnchangedTypes, RecordFields DEF FollowPointer, TypeInv, TypeOK, shared
  <1> HIDE DEF r
  <1> QED BY <1>1, <1>2, <1>3, SilentStepTypeInv DEF FollowPointer, shared

LEMMA LeaveBlockTypeInv ==
  ASSUME TypeInv, NEW w \in Slots, LeaveBlock(w) PROVE TypeInv'
  <1> DEFINE depth == worker[w].depth - 1
             validated == IF worker[w].validated > depth THEN worker[w].validated - 1
                          ELSE worker[w].validated
             r == [worker[w] EXCEPT !.at = @ + 1, !.depth = depth, !.validated = validated]
  <1>1. worker' = [worker EXCEPT ![w] = r] /\ worker[w].pc = "fetch"
    BY RecordFields DEF LeaveBlock, Fetching, WorkerRecords
  <1>2. r \in WorkerRecords /\ r.pc = worker[w].pc
    <2>1. worker[w].at + 1 \in Positions
      BY InstructionInSlot DEF LeaveBlock
    <2>2. depth \in Int /\ validated \in Int
      BY RecordFields
    <2> HIDE DEF depth, validated
    <2> QED BY <2>1, <2>2, RecordFields DEF WorkerRecords
  <1>3. TypeHistory' /\ lock' \in {0, JS} \cup Slots
    BY UnchangedTypes, RecordFields DEF LeaveBlock, TypeInv, TypeOK, shared
  <1> HIDE DEF r
  <1> QED BY <1>1, <1>2, <1>3, SilentStepTypeInv DEF LeaveBlock, shared

LEMMA ExecuteTypeInv == ASSUME TypeInv, NEW w \in Slots, Execute(w) PROVE TypeInv'
  <1> DEFINE s == worker[w].at
  <1>1. PICK failed \in BOOLEAN :
          /\ worker' = [worker EXCEPT ![w].pc = "mark", ![w].read = word[s],
               ![w].failed = failed,
               ![w].depth = IF kind[s] = "start" THEN @ + 1 ELSE @,
               ![w].validated = IF kind[s] = "start" /\ ~failed THEN @ + 1 ELSE @,
               ![w].finishedProgress =
                  IF kind[s] = "callback" /\ ~failed THEN FALSE ELSE @]
          /\ log' = Append(log, s)
          /\ txnOf' = [txnOf EXCEPT ![s] = w]
    BY DEF Execute
  <1>2. UNCHANGED <<shared, outcome, JavaScriptVars>> /\ Instruction(w) # "none"
    BY DEF Execute
  <1>3. s \in Slots
    BY <1>2, InstructionInSlot
  <1> DEFINE depth == IF kind[s] = "start" THEN worker[w].depth + 1 ELSE worker[w].depth
             validated == IF kind[s] = "start" /\ ~failed
                          THEN worker[w].validated + 1 ELSE worker[w].validated
             finished == IF kind[s] = "callback" /\ ~failed
                         THEN FALSE ELSE worker[w].finishedProgress
             r == [worker[w] EXCEPT !.pc = "mark", !.read = word[s], !.failed = failed,
                     !.depth = depth, !.validated = validated,
                     !.finishedProgress = finished]
  <1>4. worker' = [worker EXCEPT ![w] = r]
    BY <1>1, RecordFields DEF WorkerRecords
  <1>5. r \in WorkerRecords /\ r.at = s
    <2>1. depth \in Int /\ validated \in Int
      BY RecordFields
    <2>2. finished \in BOOLEAN
      <3>1. worker[w].finishedProgress \in BOOLEAN
        BY RecordFields
      <3>2. CASE kind[s] = "callback" /\ ~failed
        BY <3>2, Zenon
      <3>3. CASE ~(kind[s] = "callback" /\ ~failed)
        BY <3>1, <3>3, Zenon
      <3> QED BY <3>2, <3>3
    <2> HIDE DEF depth, validated, finished
    <2> QED BY <2>1, <2>2, NamedStates, RecordFields DEF WorkerRecords
  <1>6. TypeHistory'
    BY <1>1, <1>2, <1>3 DEF TypeInv, TypeOK, TypeHistory
  <1> HIDE DEF r
  <1> QED BY <1>2, <1>3, <1>4, <1>5, <1>6, SilentStepTypeInv, RecordFields DEF shared

LEMMA MarkTypeInv == ASSUME TypeInv, NEW w \in Slots, Mark(w) PROVE TypeInv'
  <1> DEFINE me == worker[w]
             result == IF me.failed THEN {"FINISHED", "FAILED_CONDITION"} ELSE {"FINISHED"}
             mark == (IF me.first THEN word[me.at] ELSE me.read) \cup result
             r == [me EXCEPT !.pc = "fetch", !.at = @ + 1, !.first = FALSE]
  <1>1. me.at \in Slots /\ me.at + 1 \in Positions
    <2>1. me.at \in Slots
      BY DEF TypeInv, NothingPastEnd, Mark
    <2>2. me.at \in Positions /\ me.at # NSlots + 1
      BY <2>1 DEF Slots, Positions
    <2> QED BY <2>1, <2>2, SlotFacts
  <1>2. mark \in SUBSET Bits
    BY RecordFields DEF WorkerRecords, Bits
  <1>3. r \in WorkerRecords /\ r.pc = "fetch"
    BY <1>1, NamedStates, RecordFields DEF WorkerRecords
  <1>4. worker' = [worker EXCEPT ![w] = r]
    BY RecordFields DEF Mark, WorkerRecords
  <1>5. word' = [word EXCEPT ![me.at] = mark]
    BY DEF Mark
  <1> HIDE DEF r, mark
  <1>6. TypeShared'
    BY <1>1, <1>2, <1>5, SlotFacts DEF Mark, TypeInv, TypeOK, TypeShared
  <1>7. TypeWorker' /\ NothingPastEnd'
    <2>1. NSlots + 1 # me.at
      BY <1>1 DEF Slots
    <2>2. word'[NSlots + 1] = word[NSlots + 1]
      BY <1>5, <2>1 DEF TypeInv, TypeOK, TypeShared
    <2> QED BY <1>3, <1>4, <2>2, OwnRecordTypes DEF TypeInv, NothingPastEnd
  <1> QED BY <1>6, <1>7, WorkerStepKeeps, UnchangedTypes DEF Mark, TypeInv, TypeOK

LEMMA FetchEmptyTypeInv ==
  ASSUME TypeInv, NEW w \in Slots, FetchEmpty(w) PROVE TypeInv'
  <1> DEFINE r == [worker[w] EXCEPT !.pc = "empty", !.read = word[worker[w].at]]
  <1>1. worker' = [worker EXCEPT ![w] = r]
    BY RecordFields DEF FetchEmpty
  <1>2. r \in WorkerRecords /\ r.pc = "empty"
    BY NamedStates, RecordFields DEF WorkerRecords
  <1>3. TypeHistory' /\ lock' \in {0, JS} \cup Slots
    BY UnchangedTypes, RecordFields DEF FetchEmpty, TypeInv, TypeOK, shared
  <1> HIDE DEF r
  <1> QED BY <1>1, <1>2, <1>3, SilentStepTypeInv DEF FetchEmpty, shared

(* The three steps that mark the empty word a worker stopped at.            *)
LEMMA MarkEmptyTypeInv ==
  ASSUME TypeInv, NEW w \in Slots, NEW bits \in SUBSET Bits, NEW pc \in WorkerStates,
         pc # "mark", "INSTR" \in bits => "INSTR" \in word[worker[w].at],
         word' = [word EXCEPT ![worker[w].at] = bits],
         worker' = [worker EXCEPT ![w].pc = pc], lock' \in {0, JS} \cup Slots,
         UNCHANGED <<history, JavaScriptVars>>
  PROVE  TypeInv'
  <1> DEFINE r == [worker[w] EXCEPT !.pc = pc]
  <1>1. worker' = [worker EXCEPT ![w] = r]
    BY RecordFields
  <1>2. r \in WorkerRecords /\ r.pc = pc
    BY RecordFields DEF WorkerRecords
  <1>3. TypeShared'
    BY RecordFields DEF TypeInv, TypeOK, TypeShared
  <1>4. "INSTR" \notin word'[NSlots + 1]
    BY RecordFields, SlotFacts DEF TypeInv, TypeOK, TypeShared, NothingPastEnd
  <1> HIDE DEF r
  <1>5. TypeWorker' /\ NothingPastEnd'
    BY <1>1, <1>2, <1>4, OwnRecordTypes DEF NothingPastEnd
  <1> QED BY <1>3, <1>5, WorkerStepKeeps, UnchangedTypes DEF TypeInv, TypeOK

LEMMA StartWaitTypeInv == ASSUME TypeInv, NEW w \in Slots, StartWait(w) PROVE TypeInv'
  BY MarkEmptyTypeInv, RecordFields DEF StartWait, WorkerStates, Bits

LEMMA DelimitTypeInv == ASSUME TypeInv, NEW w \in Slots, Delimit(w) PROVE TypeInv'
  BY MarkEmptyTypeInv, RecordFields DEF Delimit, WorkerStates, Bits

LEMMA PublishTypeInv == ASSUME TypeInv, NEW w \in Slots, Publish(w) PROVE TypeInv'
  <1> DEFINE bit == IF outcome[w] = "failed" THEN "TXN_FAILED" ELSE "COMMITTED"
             bits == word[worker[w].at] \cup {bit}
  <1>1. bits \in SUBSET Bits /\ ("INSTR" \in bits => "INSTR" \in word[worker[w].at])
    BY RecordFields DEF Bits
  <1>2. word' = [word EXCEPT ![worker[w].at] = bits]
    BY DEF Publish
  <1> HIDE DEF bits
  <1> QED BY <1>1, <1>2, MarkEmptyTypeInv, RecordFields DEF Publish, WorkerStates

-----------------------------------------------------------------------------
(* The type invariant of the specification.                                 *)

LEMMA NextTypeInv == TypeInv /\ [Next]_vars => TypeInv'
  <1> SUFFICES ASSUME TypeInv, [Next]_vars PROVE TypeInv'
    OBVIOUS
  <1>1. CASE Call
    BY <1>1, WriteTypeInv, OpenBlockTypeInv DEF Call
  <1>2. CASE Event
    BY <1>2, CloseBlockTypeInv, EndTurnTypeInv, CommitTimerTypeInv, CompletionTypeInv,
       ProgressTypeInv DEF Event
  <1>3. CASE JavaScriptStep
    BY <1>3, LoadTypeInv, StoreTypeInv, OrTypeInv, SeenTypeInv, ReturnPromiseTypeInv,
       AdvanceUnwrittenTypeInv, SettleTxnTypeInv, RunCallbacksTypeInv DEF JavaScriptStep
  <1>4. ASSUME NEW w \in Slots, WorkerStep(w) PROVE TypeInv'
    BY <1>4, BeginTypeInv, FollowPointerTypeInv, LeaveBlockTypeInv, ExecuteTypeInv,
       MarkTypeInv, FetchEmptyTypeInv, RefetchTypeInv, StartWaitTypeInv, WakeTypeInv,
       DelimitTypeInv, CommitTypeInv, PublishTypeInv DEF WorkerStep
  <1>5. CASE UNCHANGED vars
    BY <1>5, UnchangedTypes DEF vars, TypeInv, TypeOK, writing
  <1> QED BY <1>1, <1>2, <1>3, <1>4, <1>5 DEF Next, Quiescent

(* Every variable of the write path keeps to its type, and no instruction   *)
(* is placed in or executed from a slot that does not exist: the reserved   *)
(* room for block ends always suffices (writeInstructions, DoWrites).       *)
THEOREM TypeCorrect == Spec => []TypeInv
  BY InitTypeInv, NextTypeInv, PTL DEF Spec
-----------------------------------------------------------------------------
(* Who holds writingLock: a worker while its transaction is open and it is  *)
(* not waiting, JavaScript while user callbacks are the last thing it does. *)

(* Steps of JavaScript that do not run user callbacks.                      *)
Calm(q) == q \in Seq(JSSteps) /\ \A i \in DOMAIN q : q[i].op # "callbacks"

LEMMA CalmConcat ==
  ASSUME NEW a, NEW b, Calm(a), Calm(b)
  PROVE  Calm(a \o b)
  <1>1. a \in Seq(JSSteps) /\ b \in Seq(JSSteps)
    BY DEF Calm
  <1>2. ASSUME NEW i \in DOMAIN (a \o b) PROVE (a \o b)[i].op # "callbacks"
    <2>1. i \in 1..Len(a) + Len(b)
      BY <1>1, <1>2
    <2>2. (a \o b)[i] = IF i <= Len(a) THEN a[i] ELSE b[i - Len(a)]
      BY <1>1, <2>1
    <2>3. CASE i <= Len(a)
      BY <1>1, <2>1, <2>2, <2>3 DEF Calm
    <2>4. CASE i > Len(a)
      BY <1>1, <2>1, <2>2, <2>4 DEF Calm
    <2> QED BY <1>1, <2>1, <2>3, <2>4
  <1> QED BY <1>1, <1>2, Concat DEF Calm

LEMMA CalmSteps ==
  /\ Calm(<<>>) /\ Calm(Resolve)
  /\ \A op \in {"load", "store", "or", "seen", "promise"}, s \in Slots, st \in SUBSET Bits :
       Calm(<<Step(op, s, st)>>)
  /\ \A s \in Slots : Calm(<<Finish(s)>>)
  /\ \A s \in Slots, st \in SUBSET Bits : Calm(AfterStore(s, st))
  <1>1. Calm(<<>>)
    BY DEF Calm
  <1>2. ASSUME NEW op \in {"load", "store", "or", "seen", "promise"}, NEW s \in Slots,
               NEW st \in SUBSET Bits
        PROVE  Calm(<<Step(op, s, st)>>)
    <2>1. Step(op, s, st) \in JSSteps /\ Step(op, s, st).op # "callbacks"
      BY StepTypes DEF Step
    <2> QED BY <2>1 DEF Calm
  <1>3. ASSUME NEW s \in Slots PROVE Calm(<<Finish(s)>>)
    BY <1>2 DEF Finish
  <1>4. ASSUME NEW s \in Slots, NEW st \in SUBSET Bits PROVE Calm(AfterStore(s, st))
    BY <1>1, <1>2 DEF AfterStore
  <1>5. Calm(Resolve)
    <2>1. /\ Step("unwritten", 0, {}).op # "callbacks"
          /\ Step("committed", 0, {}).op # "callbacks"
      BY DEF Step
    <2> QED BY <2>1, StepTypes DEF Calm, Resolve
  <1> QED BY <1>1, <1>2, <1>3, <1>4, <1>5

(* A JavaScript step that replaces the head of todo by calm steps.          *)
LEMMA CalmStepKeepsLock ==
  ASSUME TypeInv, LockHolder, todo # <<>>, NEW a, Calm(a), todo' = a \o Tail(todo),
         lock' = lock, \A w \in Slots : InTxn(w)' => InTxn(w)
  PROVE  LockHolder'
  <1>1. todo \in Seq(JSSteps) /\ a \in Seq(JSSteps) /\ Tail(todo) \in Seq(JSSteps)
    BY DEF TypeInv, TypeOK, TypeTodo, Calm
  <1>2. Len(Tail(todo)) = Len(todo) - 1 /\ Len(todo) \in Nat \ {0} /\ Len(a) \in Nat
        /\ \A j \in 1..Len(todo) - 1 : Tail(todo)[j] = todo[j + 1]
    BY <1>1
  <1>3. Len(todo') = Len(a) + Len(todo) - 1 /\ DOMAIN todo' = 1..Len(todo')
    BY <1>1, <1>2
  <1>4. ASSUME NEW i \in DOMAIN todo', todo'[i].op = "callbacks"
        PROVE  lock = JS /\ i = Len(todo')
    <2>1. i \in 1..Len(a) + Len(todo) - 1
      BY <1>1, <1>2, <1>3
    <2>2. todo'[i] = IF i <= Len(a) THEN a[i] ELSE Tail(todo)[i - Len(a)]
      BY <1>1, <1>2, <2>1
    <2>3. i > Len(a)
      BY <1>1, <1>2, <1>4, <2>1, <2>2 DEF Calm
    <2>4. todo'[i] = todo[i - Len(a) + 1] /\ i - Len(a) + 1 \in 1..Len(todo)
      BY <1>2, <2>1, <2>2, <2>3
    <2> DEFINE j == i - Len(a) + 1
    <2>5. j \in DOMAIN todo /\ todo[j].op = "callbacks"
      <3>1. todo[j].op = "callbacks"
        BY <1>4, <2>4, Zenon
      <3>2. j \in 1..Len(todo)
        BY <2>4
      <3> HIDE DEF j
      <3> QED BY <1>1, <3>1, <3>2
    <2> HIDE DEF j
    <2>6. lock = JS /\ j = Len(todo)
      BY <2>5 DEF LockHolder
    <2> QED BY <1>2, <1>3, <2>1, <2>6 DEF j
  <1> QED BY <1>4 DEF LockHolder

(* A step that makes a call, between calls, or none of JavaScript's.        *)
LEMMA CalmCallKeepsLock ==
  ASSUME LockHolder, Calm(todo'), lock' = lock, \A w \in Slots : InTxn(w)' => InTxn(w)
  PROVE  LockHolder'
  BY DEF LockHolder, Calm

LEMMA SameWorkers == worker' = worker => \A w \in Slots : InTxn(w)' => InTxn(w)
  BY DEF InTxn

LEMMA LaunchInTxn ==
  ASSUME TypeInv, NEW s \in {0} \cup Slots, StartWriting(s)
  PROVE  \A w \in Slots : InTxn(w)' => InTxn(w)
  BY SlotFacts DEF StartWriting, WorkerAt, InTxn, TypeInv, TypeOK, TypeWorker

LEMMA JavaScriptStepKeepsLock ==
  ASSUME TypeInv, LockHolder, JavaScriptStep
  PROVE  LockHolder'
  <1> DEFINE s == Head(todo).slot
             st == Head(todo).status
  <1>1. CASE Load
    <2>1. s \in Slots /\ todo # <<>>
      BY <1>1, HeadOfTodo DEF TypeInv, TypeOK, Load, Doing
    <2>2. Calm(<<Step("store", s, word[s])>>)
      BY <2>1, SlotFacts, CalmSteps DEF TypeInv, TypeOK, TypeShared
    <2> QED BY <1>1, <2>1, <2>2, CalmStepKeepsLock, SameWorkers DEF Load, shared, writing
  <1>2. CASE Store
    <2> DEFINE counts == kind[s] # "end" /\ writeBatchStart # 0 /\ st = {}
               release == counts /\ outstandingBatchCount + 1 > BatchStartThreshold
               early == IF release THEN <<Finish(writeBatchStart)>> ELSE <<>>
    <2>1. s \in Slots /\ st \in SUBSET Bits /\ todo # <<>>
      BY <1>2, HeadOfTodo DEF TypeInv, TypeOK, Store, Doing
    <2>2. Calm(early)
      BY CalmSteps DEF TypeInv, TypeOK, TypeBatching
    <2>3. todo' = (early \o AfterStore(s, st)) \o Tail(todo)
      BY <1>2 DEF Store
    <2> HIDE DEF early
    <2>4. Calm(early \o AfterStore(s, st))
      BY <2>1, <2>2, CalmConcat, CalmSteps
    <2> QED BY <1>2, <2>1, <2>3, <2>4, CalmStepKeepsLock, SameWorkers DEF Store, writing
  <1>3. CASE Or
    <2>1. s \in Slots /\ todo # <<>>
      BY <1>3, HeadOfTodo DEF TypeInv, TypeOK, Or, Doing
    <2>2. Calm(AfterStore(s, word[s]))
      BY <2>1, SlotFacts, CalmSteps DEF TypeInv, TypeOK, TypeShared
    <2> QED BY <1>3, <2>1, <2>2, CalmStepKeepsLock, SameWorkers DEF Or, writing
  <1>4. CASE Seen
    <2> DEFINE begins == Has(st, "DELIMITER")
               start == IF begins /\ startAddress = 0 THEN s ELSE startAddress
               count == outstandingWriteCount + 1
               startNow == start # 0 /\ (EventTurnBatching
                                         \/ (enqueuedCommit /\ count > TxnStartThreshold))
               loops == IF count % ResolveEvery = 0 THEN Resolve ELSE <<>>
    <2>1. s \in Slots /\ todo # <<>>
      BY <1>4, HeadOfTodo DEF TypeInv, TypeOK, Seen, Doing
    <2>2. Calm(loops) /\ Calm(<<Step("promise", s, {})>>)
      BY <2>1, CalmSteps
    <2>3. todo' = (loops \o <<Step("promise", s, {})>>) \o Tail(todo) /\ lock' = lock
      BY <1>4 DEF Seen, shared
    <2>4. \A w \in Slots : InTxn(w)' => InTxn(w)
      <3>1. IF startNow THEN StartWriting(start) ELSE UNCHANGED worker
        BY <1>4 DEF Seen
      <3>2. start \in {0} \cup Slots
        BY <2>1 DEF TypeInv, TypeOK, TypeStarting
      <3> HIDE DEF start, startNow
      <3> QED BY <3>1, <3>2, LaunchInTxn, SameWorkers
    <2> HIDE DEF loops
    <2>5. Calm(loops \o <<Step("promise", s, {})>>)
      BY <2>2, CalmConcat
    <2> QED BY <2>1, <2>3, <2>4, <2>5, CalmStepKeepsLock
  <1>5. ASSUME todo # <<>>, todo' = Tail(todo), lock' = lock, worker' = worker
        PROVE  LockHolder'
    <2>1. Tail(todo) = <<>> \o Tail(todo)
      BY <1>5 DEF TypeInv, TypeOK, TypeTodo
    <2> QED BY <1>5, <2>1, CalmSteps, CalmStepKeepsLock, SameWorkers
  <1>6. CASE ReturnPromise
    BY <1>5, <1>6 DEF ReturnPromise, Doing, shared, writing
  <1>7. ASSUME todo' = todo, lock' = lock, worker' = worker PROVE LockHolder'
    BY <1>7 DEF LockHolder, InTxn
  <1>8. CASE AdvanceUnwritten
    <2>1. todo # <<>> /\ lock' = lock /\ worker' = worker
          /\ (todo' = todo \/ todo' = Tail(todo))
      BY <1>8 DEF AdvanceUnwritten, Doing, shared, writing
    <2> QED BY <1>5, <1>7, <2>1
  <1>9. CASE SettleTxn
    <2>1. todo # <<>> /\ lock' = lock /\ worker' = worker
          /\ (todo' = todo \/ todo' = Tail(todo))
      BY <1>9 DEF SettleTxn, Doing, shared, writing
    <2> QED BY <1>5, <1>7, <2>1
  <1>10. CASE RunCallbacks
    <2>1. /\ todo \in Seq(JSSteps) /\ todo # <<>> /\ Head(todo).op = "callbacks"
          /\ todo' = Tail(todo) /\ lock' = 0 /\ worker' = worker
      BY <1>10 DEF RunCallbacks, Doing, writing, TypeInv, TypeOK, TypeTodo
    <2>2. lock = JS /\ Len(todo) = 1
      <3>1. 1 \in DOMAIN todo /\ todo[1].op = "callbacks"
        BY <2>1
      <3> QED BY <3>1 DEF LockHolder
    <2>3. Len(todo') = 0 /\ DOMAIN todo' = {}
      BY <2>1, <2>2
    <2>4. \A w \in Slots : ~InTxn(w)'
      BY <2>1, <2>2, SlotFacts DEF LockHolder, InTxn
    <2> QED BY <2>3, <2>4 DEF LockHolder
  <1> QED BY <1>1, <1>2, <1>3, <1>4, <1>6, <1>8, <1>9, <1>10 DEF JavaScriptStep

LEMMA CallKeepsLock == ASSUME TypeInv, LockHolder, Call PROVE LockHolder'
  <1>1. ASSUME NEW k \in {"write", "callback"}, NEW own \in BOOLEAN, Write(k, own)
        PROVE  LockHolder'
    <2>1. PICK startFull \in BOOLEAN, full \in BOOLEAN :
            LET place == Place(startFull, full) IN
            /\ Fits(place, 0)
            /\ todo' = <<Step(IF place.depth > 0 THEN "load" ELSE "or", place.slot, {})>>
            /\ UNCHANGED <<lock, writing>>
      BY <1>1 DEF Write
    <2>2. Place(startFull, full).slot \in Slots
      BY <2>1, PlaceFacts
    <2>3. Calm(todo')
      BY <2>1, <2>2, CalmSteps
    <2> QED BY <2>1, <2>3, CalmCallKeepsLock, SameWorkers DEF writing
  <1>2. ASSUME NEW own \in BOOLEAN, OpenBlock(own) PROVE LockHolder'
    <2>1. PICK startFull \in BOOLEAN, full \in BOOLEAN :
            LET place == Place(startFull, full) IN
            /\ Fits(place, 1)
            /\ todo' = IF place.depth > 0 THEN <<Step("load", place.slot, {})>> ELSE <<>>
            /\ UNCHANGED <<lock, writing>>
      BY <1>2 DEF OpenBlock
    <2>2. Place(startFull, full).slot \in Slots
      BY <2>1, PlaceFacts
    <2>3. Calm(todo')
      BY <2>1, <2>2, CalmSteps
    <2> QED BY <2>1, <2>3, CalmCallKeepsLock, SameWorkers DEF writing
  <1> QED BY <1>1, <1>2 DEF Call

LEMMA EventKeepsLock == ASSUME TypeInv, LockHolder, Event PROVE LockHolder'
  <1>1. CASE CloseBlock
    <2> DEFINE s == blocks[Len(blocks)]
    <2>1. s \in Slots
      BY <1>1 DEF TypeInv, TypeOK, TypeBatching, CloseBlock
    <2>2. position \in Slots
      <3>1. position <= NSlots
        BY <1>1 DEF TypeInv, TypeOK, TypeBatching, TypePlacing, Positions, RoomForEnds,
                    CloseBlock
      <3> QED BY <3>1, SlotFacts DEF TypeInv, TypeOK, TypePlacing
    <2>3. Calm(<<Step("load", position, {})>>) /\ Calm(<<Step("or", position, {})>>)
          /\ Calm(<<Finish(s)>>)
      BY <2>1, <2>2, CalmSteps
    <2>4. \/ todo' = <<Step("load", position, {}), Finish(s)>>
          \/ todo' = <<Step("load", position, {})>> \/ todo' = <<Step("or", position, {})>>
      BY <1>1 DEF CloseBlock
    <2>5. Calm(<<Step("load", position, {}), Finish(s)>>)
      <3>1. <<Step("load", position, {}), Finish(s)>>
              = <<Step("load", position, {})>> \o <<Finish(s)>>
        OBVIOUS
      <3> QED BY <2>3, <3>1, CalmConcat
    <2>6. Calm(todo')
      BY <2>3, <2>4, <2>5
    <2> QED BY <1>1, <2>6, CalmCallKeepsLock, SameWorkers DEF CloseBlock, shared, writing
  <1>2. CASE EndTurn
    <2> DEFINE op == IF batchDepth > 1 THEN "load" ELSE "or"
               start == IF writeBatchStart # 0 THEN <<Finish(writeBatchStart)>> ELSE <<>>
    <2>1. position \in Slots
      <3>1. position <= NSlots
        BY <1>2 DEF TypeInv, TypeOK, TypeBatching, TypePlacing, Positions, RoomForEnds,
                    EndTurn
      <3> QED BY <3>1, SlotFacts DEF TypeInv, TypeOK, TypePlacing
    <2>2. Calm(<<Step(op, position, {})>>)
      BY <2>1, CalmSteps
    <2>3. Calm(start)
      BY CalmSteps DEF TypeInv, TypeOK, TypeBatching
    <2>4. todo' = <<Step(op, position, {})>> \o start
      BY <1>2 DEF EndTurn
    <2> HIDE DEF op, start
    <2>5. Calm(todo')
      BY <2>2, <2>3, <2>4, CalmConcat
    <2> QED BY <1>2, <2>5, CalmCallKeepsLock, SameWorkers DEF EndTurn, shared, writing
  <1>3. CASE CommitTimer
    <2>1. \A w \in Slots : InTxn(w)' => InTxn(w)
      BY <1>3, LaunchInTxn DEF CommitTimer, TypeInv, TypeOK, TypeStarting
    <2> QED BY <1>3, <2>1, CalmSteps, CalmCallKeepsLock DEF CommitTimer, shared
  <1>4. ASSUME NEW w \in Slots, Completion(w) PROVE LockHolder'
    <2>1. Calm(todo') /\ lock' = lock
      BY <1>4, CalmSteps, CalmConcat DEF Completion, ObserveTxn, shared
    <2>2. \A v \in Slots : InTxn(v)' => InTxn(v)
      BY <1>4 DEF Completion, InTxn, TypeInv, TypeOK, TypeWorker
    <2> QED BY <2>1, <2>2, CalmCallKeepsLock
  <1>5. ASSUME NEW w \in Slots, Progress(w) PROVE LockHolder'
    <2>1. lock = 0 /\ lock' = JS /\ todo' = Resolve \o <<Step("callbacks", w, {})>>
      BY <1>5 DEF Progress, ObserveTxn
    <2>2. \A v \in Slots : ~InTxn(v)'
      BY <1>5, <2>1, SlotFacts DEF LockHolder, Progress, InTxn, TypeInv, TypeOK, TypeWorker
    <2>3. ASSUME NEW i \in DOMAIN todo', todo'[i].op = "callbacks" PROVE i = Len(todo')
      <3> DEFINE last == <<Step("callbacks", w, {})>>
      <3>1. last \in Seq(JSSteps) /\ Len(last) = 1
        BY StepTypes
      <3>2. Resolve \in Seq(JSSteps) /\ Len(Resolve) \in Nat
        BY StepTypes
      <3> HIDE DEF last
      <3>3. todo' = Resolve \o last
        BY <2>1 DEF last
      <3>4. Len(todo') = Len(Resolve) + 1 /\ i \in 1..Len(Resolve) + 1
            /\ (i <= Len(Resolve) => todo'[i] = Resolve[i])
        <4>1. ASSUME NEW a \in Seq(JSSteps), NEW b \in Seq(JSSteps), Len(b) = 1,
                     NEW j \in DOMAIN (a \o b)
              PROVE  /\ Len(a \o b) = Len(a) + 1 /\ j \in 1..Len(a) + 1
                     /\ j <= Len(a) => (a \o b)[j] = a[j]
          <5>1. j \in 1..Len(a) + Len(b) /\ Len(a \o b) = Len(a) + Len(b)
            OBVIOUS
          <5>2. (a \o b)[j] = IF j <= Len(a) THEN a[j] ELSE b[j - Len(a)]
            BY <5>1
          <5> QED BY <4>1, <5>1, <5>2
        <4> QED BY <3>1, <3>2, <3>3, <4>1
      <3>5. ~(i <= Len(Resolve))
        BY <2>3, <3>2, <3>4, CalmSteps DEF Calm
      <3> QED BY <3>2, <3>4, <3>5
    <2> QED BY <2>1, <2>2, <2>3 DEF LockHolder
  <1> QED BY <1>1, <1>2, <1>3, <1>4, <1>5 DEF Event

(* A worker goes on in its transaction, takes the lock, or gives it up.     *)
LEMMA StaysInTxn ==
  ASSUME LockHolder, NEW w \in Slots, InTxn(w)' => InTxn(w), lock' = lock, todo' = todo,
         \A v \in Slots : v # w => worker'[v] = worker[v]
  PROVE  LockHolder'
  BY DEF LockHolder, InTxn

LEMMA TakesLock ==
  ASSUME LockHolder, NEW w \in Slots, lock = 0, lock' = w, todo' = todo,
         \A v \in Slots : v # w => worker'[v] = worker[v]
  PROVE  LockHolder'
  BY SlotFacts DEF LockHolder, InTxn

LEMMA GivesLock ==
  ASSUME LockHolder, NEW w \in Slots, InTxn(w), ~InTxn(w)', lock' = 0, todo' = todo,
         \A v \in Slots : v # w => worker'[v] = worker[v]
  PROVE  LockHolder'
  BY SlotFacts DEF LockHolder, InTxn

LEMMA WorkerStepKeepsLock ==
  ASSUME TypeInv, LockHolder, NEW w \in Slots, WorkerStep(w)
  PROVE  LockHolder'
  <1> USE DEF JavaScriptVars, InTxn
  <1>0. worker \in [Slots -> WorkerRecords]
    BY DEF TypeInv, TypeOK, TypeWorker
  <1>1. CASE Begin(w)
    BY <1>0, <1>1, TakesLock DEF Begin
  <1>2. CASE FollowPointer(w)
    BY <1>0, <1>2, StaysInTxn DEF FollowPointer, Fetching, shared
  <1>3. CASE LeaveBlock(w)
    BY <1>0, <1>3, StaysInTxn DEF LeaveBlock, Fetching, shared
  <1>4. CASE Execute(w)
    <2>1. /\ InTxn(w) /\ lock' = lock /\ todo' = todo
          /\ \A v \in Slots : v # w => worker'[v] = worker[v]
      BY <1>0, <1>4 DEF Execute, Fetching, shared
    <2> QED BY <2>1, StaysInTxn
  <1>5. CASE Mark(w)
    BY <1>0, <1>5, StaysInTxn DEF Mark
  <1>6. CASE FetchEmpty(w)
    BY <1>0, <1>6, StaysInTxn DEF FetchEmpty, Fetching, shared
  <1>7. CASE Refetch(w)
    BY <1>0, <1>7, StaysInTxn DEF Refetch, shared
  <1>8. CASE StartWait(w)
    BY <1>0, <1>8, GivesLock DEF StartWait, WorkerRecords
  <1>9. CASE Wake(w)
    BY <1>0, <1>9, TakesLock DEF Wake
  <1>10. CASE Delimit(w)
    BY <1>0, <1>10, StaysInTxn DEF Delimit
  <1>11. CASE Commit(w)
    BY <1>0, <1>11, GivesLock DEF Commit, WorkerRecords
  <1>12. CASE Publish(w)
    BY <1>0, <1>12, StaysInTxn DEF Publish, WorkerRecords
  <1> QED BY <1>1, <1>2, <1>3, <1>4, <1>5, <1>6, <1>7, <1>8, <1>9, <1>10, <1>11, <1>12
          DEF WorkerStep

LEMMA InitInv == Init => Inv
  <1> SUFFICES ASSUME Init PROVE LockHolder
    BY InitTypeInv DEF Inv
  <1> QED BY DEF Init, LockHolder, InTxn, WorkerAt

LEMMA NextInv == Inv /\ [Next]_vars => Inv'
  <1> SUFFICES ASSUME Inv, [Next]_vars PROVE LockHolder'
    BY NextTypeInv DEF Inv
  <1>1. CASE UNCHANGED vars
    BY <1>1 DEF vars, shared, writing, Inv, LockHolder, InTxn
  <1> QED BY <1>1, CallKeepsLock, EventKeepsLock, JavaScriptStepKeepsLock,
             WorkerStepKeepsLock DEF Next, Quiescent, Inv

(* Locking is right: a worker with an open transaction it works in holds    *)
(* writingLock, and so does JavaScript when it runs user callbacks.         *)
THEOREM InvCorrect == Spec => []Inv
  BY InitInv, NextInv, PTL DEF Spec

LEMMA InvTxnUsedByOne == Inv => TxnUsedByOne
  <1> SUFFICES ASSUME Inv PROVE TxnUsedByOne
    OBVIOUS
  <1>1. \A v, w \in Slots : InTxn(v) /\ InTxn(w) => v = w
    BY DEF Inv, LockHolder
  <1>2. ASSUME Doing("callbacks") PROVE ~\E w \in Slots : InTxn(w)
    <2>1. todo \in Seq(JSSteps) /\ todo # <<>> /\ todo[1].op = "callbacks"
          /\ 1 \in DOMAIN todo
      BY <1>2 DEF Doing, Inv, TypeInv, TypeOK, TypeTodo
    <2>2. lock = JS
      BY <2>1 DEF Inv, LockHolder
    <2> QED BY <2>2, SlotFacts DEF Inv, LockHolder
  <1> QED BY <1>1, <1>2 DEF TxnUsedByOne

(* No two threads ever use the open mdbx transaction at the same time: not  *)
(* two write workers, nor a worker and the JavaScript thread running user   *)
(* callbacks in it (WaitForCallbacks, HandleProgressCallback).              *)
THEOREM TxnUsedByOneThread == Spec => []TxnUsedByOne
  BY InvCorrect, InvTxnUsedByOne, PTL

-----------------------------------------------------------------------------
(* Counting blocks.                                                         *)

LEMMA FiniteBlocks ==
  ASSUME NEW p
  PROVE  /\ IsFiniteSet(Starts(p)) /\ IsFiniteSet(Ends(p))
         /\ Cardinality(Starts(p)) \in Nat /\ Cardinality(Ends(p)) \in Nat
         /\ Nest(p) \in Int
  <1>1. IsFiniteSet(Slots)
    BY FS_Interval DEF Slots
  <1>2. Starts(p) \subseteq Slots /\ Ends(p) \subseteq Slots
    BY DEF Starts, Ends
  <1>3. IsFiniteSet(Starts(p)) /\ IsFiniteSet(Ends(p))
    BY <1>1, <1>2, FS_Subset
  <1>4. Cardinality(Starts(p)) \in Nat /\ Cardinality(Ends(p)) \in Nat
    BY <1>3, FS_CardinalityType
  <1> QED BY <1>3, <1>4 DEF Nest

(* The nesting at p depends on what lies before p only.                     *)
LEMMA NestStays ==
  ASSUME NEW p, \A s \in Slots : s < p => kind'[s] = kind[s]
  PROVE  Nest(p)' = Nest(p)
  <1>1. Starts(p)' = Starts(p) /\ Ends(p)' = Ends(p)
    BY DEF Starts, Ends
  <1> QED BY <1>1 DEF Nest

(* What the instruction in slot s changes.                                  *)
LEMMA NestNext ==
  ASSUME NEW s \in Slots
  PROVE  /\ kind[s] = "start" => Nest(s + 1) = Nest(s) + 1
         /\ kind[s] = "end" => Nest(s + 1) = Nest(s) - 1
         /\ kind[s] \notin {"start", "end"} => Nest(s + 1) = Nest(s)
  <1>1. s \in Nat /\ Slots \subseteq Nat
    BY SlotFacts
  <1>2. s \notin Starts(s) /\ s \notin Ends(s)
    BY <1>1 DEF Starts, Ends
  <1>3. \A r \in Slots : r < s + 1 <=> (r < s \/ r = s)
    BY <1>1
  <1>4. ASSUME kind[s] = "start" PROVE Nest(s + 1) = Nest(s) + 1
    <2>1. Starts(s + 1) = Starts(s) \cup {s} /\ Ends(s + 1) = Ends(s)
      BY <1>3, <1>4 DEF Starts, Ends
    <2>2. Cardinality(Starts(s + 1)) = Cardinality(Starts(s)) + 1
      BY <1>2, <2>1, FiniteBlocks, FS_AddElement
    <2>3. Cardinality(Starts(s)) \in Nat /\ Cardinality(Ends(s)) \in Nat
      BY FiniteBlocks
    <2> QED BY <2>1, <2>2, <2>3 DEF Nest
  <1>5. ASSUME kind[s] = "end" PROVE Nest(s + 1) = Nest(s) - 1
    <2>1. Ends(s + 1) = Ends(s) \cup {s} /\ Starts(s + 1) = Starts(s)
      BY <1>3, <1>5 DEF Starts, Ends
    <2>2. Cardinality(Ends(s + 1)) = Cardinality(Ends(s)) + 1
      BY <1>2, <2>1, FiniteBlocks, FS_AddElement
    <2>3. Cardinality(Starts(s)) \in Nat /\ Cardinality(Ends(s)) \in Nat
      BY FiniteBlocks
    <2> QED BY <2>1, <2>2, <2>3 DEF Nest
  <1>6. ASSUME kind[s] \notin {"start", "end"} PROVE Nest(s + 1) = Nest(s)
    <2>1. Ends(s + 1) = Ends(s) /\ Starts(s + 1) = Starts(s)
      BY <1>3, <1>6 DEF Starts, Ends
    <2> QED BY <2>1 DEF Nest
  <1> QED BY <1>4, <1>5, <1>6

(* With the same instructions placed, the nesting is the same everywhere.   *)
LEMMA SameNest == UNCHANGED kind => \A p : Nest(p)' = Nest(p)
  BY NestStays

LEMMA OrderTypes ==
  ASSUME Inv
  PROVE  /\ TypeInv
         /\ position \in Positions /\ position \in Nat
         /\ Slots \subseteq Nat /\ Positions \subseteq Nat /\ Slots \subseteq Positions
         /\ kind \in [Slots -> Kinds] /\ word \in [Positions -> SUBSET Bits]
         /\ txnOf \in [Slots -> {0} \cup Slots] /\ log \in Seq(Slots)
         /\ resolutions \in Seq(Slots) /\ worker \in [Slots -> WorkerRecords]
         /\ todo \in Seq(JSSteps) /\ startAddress \in {0} \cup Slots
         /\ \A w \in Slots : worker[w].at \in Positions /\ worker[w].depth \in Int
                             /\ worker[w].pc \in WorkerStates
  <1> USE DEF Inv, TypeInv, TypeOK
  <1>1. /\ TypeInv
        /\ position \in Positions /\ kind \in [Slots -> Kinds]
        /\ word \in [Positions -> SUBSET Bits]
        /\ txnOf \in [Slots -> {0} \cup Slots] /\ log \in Seq(Slots)
        /\ resolutions \in Seq(Slots) /\ worker \in [Slots -> WorkerRecords]
        /\ todo \in Seq(JSSteps) /\ startAddress \in {0} \cup Slots
    BY DEF TypeShared, TypePlacing, TypeStarting, TypeResolving, TypeTodo, TypeWorker, TypeHistory
  <1>2. Slots \subseteq Nat /\ Positions \subseteq Nat /\ Slots \subseteq Positions
    BY DEF Slots, Positions
  <1>3. \A w \in Slots : worker[w].at \in Positions /\ worker[w].depth \in Int
                          /\ worker[w].pc \in WorkerStates
    BY <1>1 DEF WorkerRecords
  <1> QED BY ONLY <1>1, <1>2, <1>3

(* An instruction was written in a slot that was placed.                    *)
LEMMA WrittenIsPlaced ==
  ASSUME Inv, FreshSlots, NEW p \in Positions, Written(p)
  PROVE  p \in Slots /\ kind[p] # "none" /\ p < position /\ p + 1 <= position
  <1>1. p \in Nat /\ position \in Nat
    BY OrderTypes
  <1>2. p \in Slots
    BY SlotFacts DEF Inv, TypeInv, NothingPastEnd, Written
  <1>3. kind[p] # "none" /\ ~(position <= p)
    BY <1>2 DEF FreshSlots
  <1> QED BY <1>1, <1>2, <1>3

-----------------------------------------------------------------------------
(* The steps of a worker.                                                   *)

(* What JavaScript has placed does not depend on the workers.               *)
LEMMA PlacementStays ==
  ASSUME Placement, UNCHANGED JavaScriptVars,
         \A p \in Positions : Written(p)' = Written(p), Inv
  PROVE  Placement'
  <1> USE DEF Placement
  <1>1. UNCHANGED <<position, kind, resolutions, todo, writeBatchStart, batchDepth, turn,
                    blocks, writtenBatchDepth, group>>
    BY DEF JavaScriptVars, placing, batching
  <1>2. \A p : Nest(p)' = Nest(p)
    BY <1>1, SameNest
  <1>3. FreshSlots' /\ ListInOrder'
    BY <1>1, SlotFacts DEF FreshSlots, ListInOrder
  <1>4. \A i \in DOMAIN todo : todo[i].op \in Placings \cup {"seen"} => todo[i].slot \in Positions
    <2> SUFFICES ASSUME NEW i \in DOMAIN todo, todo[i].op \in Placings \cup {"seen"}
                 PROVE  todo[i].slot \in Positions
      OBVIOUS
    <2>1. todo[i] \in JSSteps
      BY OrderTypes
    <2>2. todo[i].slot \in Slots
      BY <2>1 DEF JSSteps, Placings
    <2> QED BY <2>2, SlotFacts
  <1>5. StepsOK(todo)'
    <2>1. ASSUME NEW i \in DOMAIN todo PROVE StepOK(todo[i])'
      BY <1>1, <1>2, <1>4, <2>1 DEF StepsOK, StepOK, Placings
    <2> QED BY <1>1, <2>1 DEF StepsOK
  <1>6. HeldBack'
    <2>1. writeBatchStart # 0 => writeBatchStart \in Positions
      BY SlotFacts DEF Inv, TypeInv, TypeOK, TypeBatching
    <2> QED BY <1>1, <2>1 DEF HeldBack, Outermost
  <1>7. OpenBlocks' /\ Nested'
    BY <1>1, <1>2 DEF OpenBlocks, Nested, Outermost
  <1> QED BY <1>3, <1>5, <1>6, <1>7

-----------------------------------------------------------------------------
(* The token: what a step that does not pass it on leaves alone.            *)

LEMMA OneTokenStays ==
  ASSUME OneToken, startAddress' = startAddress, SeenToken' => SeenToken,
         \A w \in Slots : Launched(w)' => Launched(w),
         \A p \in Positions : Free(p)' => Free(p)
  PROVE  OneToken'
  BY DEF OneToken

LEMMA FrontierStays ==
  ASSUME UNCHANGED <<kind, position, txnOf>>, NEW p
  PROVE  Frontier(p)' <=> Frontier(p)
  BY DEF Frontier

LEMMA HistoryStays ==
  ASSUME Logged, InTxns, UNCHANGED <<kind, resolutions, txnOf, log>>,
         \A w \in Slots : Launched(w)' => Launched(w)
  PROVE  Logged' /\ InTxns'
  <1>1. \A p : Nest(p)' = Nest(p)
    BY SameNest
  <1>2. Logged'
    BY DEF Logged, InOrder
  <1>3. InTxns'
    BY <1>1 DEF InTxns
  <1> QED BY <1>2, <1>3

(* A worker that was launched is the only one that knows something.         *)
LEMMA IdleKnows ==
  ASSUME NEW w, ~Launched(w)
  PROVE  Knows(w)
  BY DEF Launched, Knows

LEMMA KnowsStays ==
  ASSUME NEW w \in Slots, Knows(w), worker'[w] = worker[w],
         UNCHANGED <<kind, position, txnOf>>,
         \A p \in Positions : Written(p) => Written(p)',
         \A p \in Positions : "DELIMITER" \in word[p] => "DELIMITER" \in word'[p],
         worker[w].at \in Positions
  PROVE  Knows(w)'
  <1>1. \A p : Nest(p)' = Nest(p)
    BY SameNest
  <1>2. FrontOf(w)' = FrontOf(w) /\ (Launched(w)' <=> Launched(w))
    BY DEF FrontOf, Launched
  <1>3. Frontier(FrontOf(w))' <=> Frontier(FrontOf(w))
    BY <1>2 DEF Frontier
  <1> QED BY <1>1, <1>2, <1>3 DEF Knows

(* A step of worker w that ends no transaction and has no result.           *)
LEMMA WorkerMoves ==
  ASSUME OrderInv, NEW w \in Slots, UNCHANGED JavaScriptVars, UNCHANGED <<txnOf, log>>,
         \A v \in Slots : v # w => worker'[v] = worker[v],
         \A p \in Positions : Written(p)' = Written(p),
         \A p \in Positions : "DELIMITER" \in word'[p] => "DELIMITER" \in word[p],
         Launched(w) \/ \A p \in Positions : "DELIMITER" \in word[p] => "DELIMITER" \in word'[p],
         Launched(w)' => Launched(w), Knows(w)'
  PROVE  Placement' /\ Token'
  <1>1. Inv /\ Placement /\ OneToken /\ AtFrontier /\ Delimiters /\ WorkersKnow /\ Logged /\ InTxns
    BY DEF OrderInv, Token
  <1>2. UNCHANGED <<position, kind, resolutions, todo, startAddress>>
    BY DEF JavaScriptVars, placing, starting
  <1>3. \A v \in Slots : Launched(v)' => Launched(v)
    BY DEF Launched
  <1>4. \A p \in Positions : Free(p)' => Free(p)
    BY DEF Free
  <1>5. SeenToken' <=> SeenToken
    BY <1>2 DEF SeenToken, Doing
  <1>6. \A p : Nest(p)' = Nest(p) /\ (Frontier(p)' <=> Frontier(p))
    BY <1>2, SameNest, FrontierStays
  <1>7. Placement'
    BY <1>1, PlacementStays
  <1>8. OneToken'
    BY ONLY <1>1, <1>2, <1>3, <1>4, <1>5, OneTokenStays
  <1>9. AtFrontier' /\ Delimiters'
    BY <1>1, <1>2, <1>4, <1>5, <1>6 DEF AtFrontier, Delimiters
  <1>10. WorkersKnow'
    <2> SUFFICES ASSUME NEW v \in Slots PROVE Knows(v)'
      BY DEF WorkersKnow
    <2>1. CASE v = w
      BY <2>1
    <2>2. CASE v # w /\ Launched(w)
      <3>1. ~Launched(v)
        BY <1>1, <2>2 DEF OneToken
      <3> QED BY <1>3, <3>1 DEF Launched, Knows
    <2>3. CASE v # w /\ ~Launched(w)
      <3>1. worker[v].at \in Positions
        BY <1>1, OrderTypes
      <3>2. Knows(v) /\ worker'[v] = worker[v]
        BY <1>1, <2>3 DEF WorkersKnow
      <3> QED BY <1>2, <2>3, <3>1, <3>2, KnowsStays
    <2> QED BY <2>1, <2>2, <2>3
  <1>11. Logged' /\ InTxns'
    BY <1>1, <1>2, <1>3, HistoryStays
  <1> QED BY <1>7, <1>8, <1>9, <1>10, <1>11 DEF Token

(* What holds of a worker that found an instruction in its next slot.       *)
LEMMA Found ==
  ASSUME OrderInv, NEW w \in Slots, Fetching(w), Instruction(w) # "none"
  PROVE  /\ worker[w].at \in Slots /\ Written(worker[w].at)
         /\ kind[worker[w].at] = Instruction(w)
         /\ worker[w].at + 1 \in Positions /\ worker[w].at + 1 <= position
         /\ Launched(w) /\ w <= worker[w].at /\ Nest(w) = 0
         /\ Frontier(worker[w].at) /\ worker[w].depth = Nest(worker[w].at)
  <1> DEFINE s == worker[w].at
  <1>1. Inv /\ FreshSlots /\ Knows(w)
    BY DEF OrderInv, Placement, Token, WorkersKnow
  <1>2. s \in Positions /\ position \in Nat /\ Positions \subseteq Nat
    BY <1>1, OrderTypes
  <1>3. Written(s) /\ kind[s] = Instruction(w)
    BY DEF Instruction, Has, Written
  <1>4. s \in Slots /\ s + 1 \in Positions
    BY <1>1, <1>2, <1>3, SlotFacts DEF Inv, TypeInv, NothingPastEnd, Written
  <1>5. s < position /\ s + 1 <= position
    BY <1>1, <1>2, <1>3, WrittenIsPlaced
  <1>6. Launched(w) /\ FrontOf(w) = s
    BY DEF Fetching, Launched, FrontOf
  <1>7. /\ w <= s /\ Nest(w) = 0
        /\ Frontier(FrontOf(w)) /\ worker[w].depth = Nest(FrontOf(w))
    BY <1>1, <1>6 DEF Knows
  <1>8. Frontier(s) /\ worker[w].depth = Nest(s)
    BY ONLY <1>6, <1>7, Zenon
  <1> QED BY ONLY <1>3, <1>4, <1>5, <1>6, <1>7, <1>8

(* The frontier passes a slot whose instruction has no result.              *)
LEMMA FrontierPasses ==
  ASSUME Inv, NEW s \in Slots, Frontier(s), kind[s] \notin Listed, s + 1 <= position
  PROVE  Frontier(s + 1)
  <1>1. s \in Nat /\ Slots \subseteq Nat
    BY SlotFacts
  <1> QED BY <1>1 DEF Frontier

LEMMA FollowPointerOrder ==
  ASSUME OrderInv, NEW w \in Slots, FollowPointer(w)
  PROVE  Placement' /\ Token'
  <1> DEFINE s == worker[w].at
  <1>1. Inv /\ worker \in [Slots -> WorkerRecords]
    BY OrderTypes DEF OrderInv
  <1>2. /\ s \in Slots /\ kind[s] = "pointer" /\ s + 1 <= position /\ Launched(w)
        /\ w <= s /\ Nest(w) = 0 /\ Frontier(s) /\ worker[w].depth = Nest(s)
    BY Found DEF FollowPointer
  <1>3. /\ UNCHANGED JavaScriptVars /\ UNCHANGED <<txnOf, log, word>>
        /\ \A v \in Slots : v # w => worker'[v] = worker[v]
        /\ worker'[w].pc = "fetch" /\ worker'[w].at = s + 1
        /\ worker'[w].depth = worker[w].depth
    BY <1>1 DEF FollowPointer, Fetching, shared, history, WorkerRecords
  <1>4. Frontier(s + 1) /\ Nest(s + 1) = Nest(s)
    BY <1>1, <1>2, FrontierPasses, NestNext DEF Listed
  <1>5. /\ \A p : Nest(p)' = Nest(p)
        /\ \A p : Frontier(p)' <=> Frontier(p)
    BY <1>3, SameNest, FrontierStays DEF JavaScriptVars, placing
  <1>6. w \in Nat /\ s \in Nat
    BY <1>2, SlotFacts
  <1>7. Knows(w)'
    <2>1. FrontOf(w)' = s + 1
      BY <1>3 DEF FrontOf
    <2> QED BY <1>2, <1>3, <1>4, <1>5, <1>6, <2>1 DEF Knows
  <1> QED BY <1>2, <1>3, <1>7, WorkerMoves DEF Written

LEMMA LeaveBlockOrder ==
  ASSUME OrderInv, NEW w \in Slots, LeaveBlock(w)
  PROVE  Placement' /\ Token'
  <1> DEFINE s == worker[w].at
  <1>1. Inv /\ worker \in [Slots -> WorkerRecords]
    BY OrderTypes DEF OrderInv
  <1>2. /\ s \in Slots /\ kind[s] = "end" /\ s + 1 <= position /\ Launched(w)
        /\ w <= s /\ Nest(w) = 0 /\ Frontier(s) /\ worker[w].depth = Nest(s)
    BY Found DEF LeaveBlock
  <1>3. /\ UNCHANGED JavaScriptVars /\ UNCHANGED <<txnOf, log, word>>
        /\ \A v \in Slots : v # w => worker'[v] = worker[v]
        /\ worker'[w].pc = "fetch" /\ worker'[w].at = s + 1
        /\ worker'[w].depth = worker[w].depth - 1
    BY <1>1 DEF LeaveBlock, Fetching, shared, history, WorkerRecords
  <1>4. Frontier(s + 1) /\ Nest(s + 1) = Nest(s) - 1
    BY <1>1, <1>2, FrontierPasses, NestNext DEF Listed
  <1>5. /\ \A p : Nest(p)' = Nest(p)
        /\ \A p : Frontier(p)' <=> Frontier(p)
    BY <1>3, SameNest, FrontierStays DEF JavaScriptVars, placing
  <1>6. w \in Nat /\ s \in Nat
    BY <1>2, SlotFacts
  <1>7. Knows(w)'
    <2>1. FrontOf(w)' = s + 1
      BY <1>3 DEF FrontOf
    <2> QED BY <1>2, <1>3, <1>4, <1>5, <1>6, <2>1 DEF Knows
  <1> QED BY <1>2, <1>3, <1>7, WorkerMoves DEF Written

(* A worker that only changes how it waits or ends.                         *)
LEMMA WorkerPauses ==
  ASSUME OrderInv, NEW w \in Slots, UNCHANGED JavaScriptVars, UNCHANGED <<txnOf, log>>,
         \A v \in Slots : v # w => worker'[v] = worker[v],
         \A p \in Positions : Written(p)' = Written(p),
         \A p \in Positions : "DELIMITER" \in word'[p] => "DELIMITER" \in word[p],
         worker[w].pc # "mark", Launched(w),
         worker'[w].pc \in {"fetch", "wait"},
         worker'[w].at = worker[w].at, worker'[w].depth = worker[w].depth
  PROVE  Placement' /\ Token'
  <1>1. UNCHANGED <<kind, position, txnOf>>
    BY DEF JavaScriptVars, placing
  <1>2. Launched(w) /\ Knows(w)
    BY DEF OrderInv, Token, WorkersKnow
  <1>3. FrontOf(w) = worker[w].at /\ FrontOf(w)' = worker[w].at
    BY DEF FrontOf
  <1>4. \A p : Nest(p)' = Nest(p) /\ (Frontier(p)' <=> Frontier(p))
    BY <1>1, SameNest, FrontierStays
  <1>5. Frontier(worker[w].at) /\ worker[w].depth = Nest(worker[w].at)
    <2>1. Frontier(FrontOf(w)) /\ worker[w].depth = Nest(FrontOf(w))
      BY <1>2 DEF Knows
    <2> QED BY ONLY <1>3, <2>1, Zenon
  <1>6. Knows(w)'
    <2>1. w <= worker[w].at /\ Nest(w) = 0
      BY <1>2 DEF Knows
    <2>2. Frontier(FrontOf(w))'
      BY <1>3, <1>4, <1>5
    <2> QED BY <1>2, <1>3, <1>4, <1>5, <2>1, <2>2 DEF Knows
  <1> QED BY <1>2, <1>6, WorkerMoves

LEMMA BeginOrder ==
  ASSUME OrderInv, NEW w \in Slots, Begin(w)
  PROVE  Placement' /\ Token'
  <1>1. worker \in [Slots -> WorkerRecords]
    BY OrderTypes DEF OrderInv
  <1>2. /\ UNCHANGED JavaScriptVars /\ UNCHANGED <<txnOf, log, word>>
        /\ \A v \in Slots : v # w => worker'[v] = worker[v]
        /\ worker'[w].pc = "fetch" /\ worker'[w].at = worker[w].at
        /\ worker'[w].depth = worker[w].depth /\ Launched(w) /\ worker[w].pc # "mark"
    BY <1>1 DEF Begin, history, WorkerRecords, Launched
  <1> QED BY <1>2, WorkerPauses DEF Written

LEMMA RefetchOrder ==
  ASSUME OrderInv, NEW w \in Slots, Refetch(w)
  PROVE  Placement' /\ Token'
  <1>1. worker \in [Slots -> WorkerRecords]
    BY OrderTypes DEF OrderInv
  <1>2. /\ UNCHANGED JavaScriptVars /\ UNCHANGED <<txnOf, log, word>>
        /\ \A v \in Slots : v # w => worker'[v] = worker[v]
        /\ worker'[w].pc = "fetch" /\ worker'[w].at = worker[w].at
        /\ worker'[w].depth = worker[w].depth /\ Launched(w) /\ worker[w].pc # "mark"
    BY <1>1 DEF Refetch, shared, history, WorkerRecords, Launched
  <1> QED BY <1>2, WorkerPauses DEF Written

LEMMA WakeOrder ==
  ASSUME OrderInv, NEW w \in Slots, Wake(w)
  PROVE  Placement' /\ Token'
  <1>1. worker \in [Slots -> WorkerRecords]
    BY OrderTypes DEF OrderInv
  <1>2. /\ UNCHANGED JavaScriptVars /\ UNCHANGED <<txnOf, log, word>>
        /\ \A v \in Slots : v # w => worker'[v] = worker[v]
        /\ worker'[w].pc = "fetch" /\ worker'[w].at = worker[w].at
        /\ worker'[w].depth = worker[w].depth /\ Launched(w) /\ worker[w].pc # "mark"
    BY <1>1 DEF Wake, history, WorkerRecords, Launched
  <1> QED BY <1>2, WorkerPauses DEF Written

(* A worker about to mark a word knows that it holds no instruction.        *)
LEMMA FoundEmpty ==
  ASSUME OrderInv, NEW w \in Slots, worker[w].pc = "empty", Unchanged(w)
  PROVE  worker[w].at \in Positions /\ ~Written(worker[w].at) /\ Launched(w)
  <1>1. Knows(w) /\ worker[w].at \in Positions
    BY OrderTypes DEF OrderInv, Token, WorkersKnow
  <1> QED BY <1>1 DEF Knows, Unchanged, Written, Launched

LEMMA StartWaitOrder ==
  ASSUME OrderInv, NEW w \in Slots, StartWait(w)
  PROVE  Placement' /\ Token'
  <1>1. worker \in [Slots -> WorkerRecords] /\ word \in [Positions -> SUBSET Bits]
    BY OrderTypes DEF OrderInv
  <1>2. worker[w].at \in Positions /\ ~Written(worker[w].at) /\ Launched(w)
    BY FoundEmpty DEF StartWait
  <1>3. /\ UNCHANGED JavaScriptVars /\ UNCHANGED <<txnOf, log>>
        /\ \A v \in Slots : v # w => worker'[v] = worker[v]
        /\ worker'[w].pc = "wait" /\ worker'[w].at = worker[w].at
        /\ worker'[w].depth = worker[w].depth /\ worker[w].pc # "mark"
    BY <1>1 DEF StartWait, history, WorkerRecords
  <1>4. \A p \in Positions : word'[p] = IF p = worker[w].at THEN {"WAITING"} ELSE word[p]
    BY <1>1 DEF StartWait
  <1>5. \A p \in Positions : /\ Written(p)' = Written(p)
                             /\ "DELIMITER" \in word'[p] => "DELIMITER" \in word[p]
    BY <1>2, <1>4 DEF Written
  <1> QED BY <1>2, <1>3, <1>5, WorkerPauses

LEMMA FetchEmptyOrder ==
  ASSUME OrderInv, NEW w \in Slots, FetchEmpty(w)
  PROVE  Placement' /\ Token'
  <1> DEFINE s == worker[w].at
  <1>1. /\ worker \in [Slots -> WorkerRecords] /\ s \in Positions
        /\ kind \in [Slots -> Kinds] /\ Inv
    BY OrderTypes DEF OrderInv
  <1>2. /\ UNCHANGED JavaScriptVars /\ UNCHANGED <<txnOf, log, word>>
        /\ \A v \in Slots : v # w => worker'[v] = worker[v]
        /\ worker'[w].pc = "empty" /\ worker'[w].at = s /\ worker'[w].read = word[s]
        /\ worker'[w].depth = worker[w].depth /\ Launched(w) /\ worker[w].pc = "fetch"
    BY <1>1 DEF FetchEmpty, Fetching, shared, history, WorkerRecords, Launched
  <1>3. "INSTR" \notin word[s]
    <2> SUFFICES ASSUME "INSTR" \in word[s] PROVE FALSE
      OBVIOUS
    <2>1. kind[s] = "none"
      BY DEF FetchEmpty, Instruction, Has
    <2>2. FreshSlots
      BY DEF OrderInv, Placement
    <2>3. kind[s] # "none"
      BY <1>1, <2>2, WrittenIsPlaced DEF Written
    <2> QED BY <2>1, <2>3
  <1>4. \A p : Nest(p)' = Nest(p) /\ (Frontier(p)' <=> Frontier(p))
    BY <1>2, SameNest, FrontierStays DEF JavaScriptVars, placing
  <1>5. FrontOf(w) = s /\ FrontOf(w)' = s
    BY <1>2 DEF FrontOf
  <1>6. Knows(w)'
    <2>1. Knows(w)
      BY DEF OrderInv, Token, WorkersKnow
    <2>2. w <= s /\ Nest(w) = 0 /\ Frontier(FrontOf(w)) /\ worker[w].depth = Nest(FrontOf(w))
      BY <1>2, <2>1 DEF Knows
    <2>3. Frontier(s) /\ worker[w].depth = Nest(s)
      BY ONLY <1>5, <2>2, Zenon
    <2> QED BY <1>2, <1>3, <1>4, <1>5, <2>2, <2>3 DEF Knows
  <1> QED BY <1>2, <1>6, WorkerMoves DEF Written

LEMMA MarkOrder ==
  ASSUME OrderInv, NEW w \in Slots, Mark(w)
  PROVE  Placement' /\ Token'
  <1> DEFINE s == worker[w].at
             old == IF worker[w].first THEN word[s] ELSE worker[w].read
             result == IF worker[w].failed THEN {"FINISHED", "FAILED_CONDITION"}
                       ELSE {"FINISHED"}
  <1>1. /\ worker \in [Slots -> WorkerRecords] /\ s \in Positions
        /\ word \in [Positions -> SUBSET Bits] /\ Inv
    BY OrderTypes DEF OrderInv
  <1>2. /\ UNCHANGED JavaScriptVars /\ UNCHANGED <<txnOf, log>>
        /\ \A v \in Slots : v # w => worker'[v] = worker[v]
        /\ worker'[w].pc = "fetch" /\ worker'[w].at = s + 1
        /\ worker'[w].depth = worker[w].depth /\ worker[w].pc = "mark"
    BY <1>1 DEF Mark, history, WorkerRecords
  <1>3. \A p \in Positions : word'[p] = IF p = s THEN old \cup result ELSE word[p]
    BY <1>1 DEF Mark
  <1>4. Knows(w) /\ Launched(w)
    BY <1>2 DEF OrderInv, Token, WorkersKnow, Launched
  <1>5. /\ "INSTR" \in worker[w].read /\ Written(s)
        /\ "DELIMITER" \in worker[w].read => "DELIMITER" \in word[s]
    BY <1>2, <1>4 DEF Knows
  <1>6. "INSTR" \in old \cup result /\ "INSTR" \in word[s]
    BY <1>5 DEF Written
  <1>7. "DELIMITER" \in old \cup result => "DELIMITER" \in word[s]
    BY <1>5
  <1>8. \A p \in Positions : /\ Written(p)' = Written(p)
                             /\ "DELIMITER" \in word'[p] => "DELIMITER" \in word[p]
    <2> HIDE DEF old, result
    <2> QED BY <1>3, <1>6, <1>7 DEF Written
  <1>9. \A p : Nest(p)' = Nest(p) /\ (Frontier(p)' <=> Frontier(p))
    BY <1>2, SameNest, FrontierStays DEF JavaScriptVars, placing
  <1>10. Knows(w)'
    <2>1. FrontOf(w) = s + 1 /\ FrontOf(w)' = s + 1
      BY <1>2 DEF FrontOf
    <2>2. w <= s /\ Nest(w) = 0 /\ Frontier(FrontOf(w)) /\ worker[w].depth = Nest(FrontOf(w))
      BY <1>4 DEF Knows
    <2>3. Frontier(s + 1) /\ worker[w].depth = Nest(s + 1)
      BY ONLY <2>1, <2>2, Zenon
    <2> HIDE DEF s
    <2>4. w <= s + 1
      <3>1. w \in Nat /\ s \in Nat
        BY <1>1, OrderTypes
      <3> QED BY <2>2, <3>1
    <2> QED BY <1>2, <1>9, <2>1, <2>2, <2>3, <2>4 DEF Knows
  <1> QED BY ONLY OrderInv, w \in Slots, <1>2, <1>4, <1>8, <1>10, WorkerMoves

LEMMA CommitOrder ==
  ASSUME OrderInv, NEW w \in Slots, Commit(w)
  PROVE  Placement' /\ Token'
  <1>1. worker \in [Slots -> WorkerRecords]
    BY OrderTypes DEF OrderInv
  <1>2. /\ UNCHANGED JavaScriptVars /\ UNCHANGED <<txnOf, log, word>>
        /\ \A v \in Slots : v # w => worker'[v] = worker[v]
        /\ worker'[w].pc = "publish"
    BY <1>1 DEF Commit, WorkerRecords
  <1>3. ~Launched(w)' /\ Knows(w)'
    BY <1>2 DEF Launched, Knows
  <1> QED BY <1>2, <1>3, WorkerMoves DEF Written

LEMMA PublishOrder ==
  ASSUME OrderInv, NEW w \in Slots, Publish(w)
  PROVE  Placement' /\ Token'
  <1>1. worker \in [Slots -> WorkerRecords] /\ word \in [Positions -> SUBSET Bits]
    BY OrderTypes DEF OrderInv
  <1>2. /\ UNCHANGED JavaScriptVars /\ UNCHANGED <<txnOf, log>>
        /\ \A v \in Slots : v # w => worker'[v] = worker[v]
        /\ worker'[w].pc = "complete"
    BY <1>1 DEF Publish, WorkerRecords, history
  <1>3. ~Launched(w)' /\ Knows(w)'
    BY <1>2 DEF Launched, Knows
  <1>4. \A p \in Positions : /\ Written(p)' = Written(p)
                             /\ "DELIMITER" \in word'[p] <=> "DELIMITER" \in word[p]
    BY <1>1 DEF Publish, Written
  <1> QED BY <1>2, <1>3, <1>4, WorkerMoves

(* The worker passes the token on to the slot its transaction ends before.  *)
LEMMA DelimitOrder ==
  ASSUME OrderInv, NEW w \in Slots, Delimit(w)
  PROVE  Placement' /\ Token'
  <1> DEFINE s == worker[w].at
  <1>1. /\ worker \in [Slots -> WorkerRecords] /\ s \in Positions
        /\ word \in [Positions -> SUBSET Bits] /\ Inv /\ Nested /\ Knows(w)
        /\ OneToken /\ AtFrontier /\ Delimiters /\ Logged /\ InTxns /\ Placement
    BY OrderTypes DEF OrderInv, Placement, Token, WorkersKnow
  <1>2. ~Written(s) /\ Launched(w)
    BY FoundEmpty DEF Delimit
  <1>3. /\ UNCHANGED JavaScriptVars /\ UNCHANGED <<txnOf, log>>
        /\ \A v \in Slots : v # w => worker'[v] = worker[v]
        /\ worker'[w].pc = "commit" /\ worker[w].pc = "empty" /\ ~(worker[w].depth > 0)
    BY <1>1 DEF Delimit, MustStay, history, WorkerRecords
  <1>4. UNCHANGED <<position, kind, resolutions, todo, startAddress>>
    BY <1>3 DEF JavaScriptVars, placing, starting
  <1>5. \A p \in Positions : word'[p] = IF p = s THEN {"DELIMITER"} ELSE word[p]
    BY <1>1 DEF Delimit
  <1>6. \A p \in Positions : Written(p)' = Written(p)
    BY <1>2, <1>5 DEF Written
  <1>7. \A p : Nest(p)' = Nest(p) /\ (Frontier(p)' <=> Frontier(p))
    BY <1>3, <1>4, SameNest, FrontierStays
  <1>8. Frontier(s) /\ s <= position /\ Nest(s) = 0
    <2>1. FrontOf(w) = s
      BY <1>3 DEF FrontOf
    <2>2. Frontier(FrontOf(w)) /\ worker[w].depth = Nest(FrontOf(w))
      BY <1>1, <1>2 DEF Knows
    <2>3. Frontier(s) /\ worker[w].depth = Nest(s)
      BY ONLY <2>1, <2>2, Zenon
    <2>4. s <= position
      BY <2>3 DEF Frontier
    <2>5. Nest(s) >= 0
      BY <1>1, <2>4 DEF Nested
    <2>6. Nest(s) \in Int
      BY FiniteBlocks
    <2> QED BY <1>3, <2>3, <2>4, <2>5, <2>6
  <1>9. Placement'
    BY <1>1, <1>3, <1>6, PlacementStays
  <1>10. \A v \in Slots : ~Launched(v)'
    <2>1. \A v \in Slots : v # w => ~Launched(v)
      BY <1>1, <1>2 DEF OneToken
    <2> QED BY <1>3, <2>1 DEF Launched
  <1>11. \A p \in Positions : Free(p)' <=> p = s
    <2>1. \A p \in Positions : ~Free(p)
      BY <1>1, <1>2 DEF OneToken
    <2> QED BY <1>2, <1>5, <1>6, <2>1 DEF Free
  <1>12. ~SeenToken' /\ startAddress' = 0
    <2>1. ~SeenToken /\ startAddress = 0
      BY <1>1, <1>2 DEF OneToken
    <2> QED BY <1>4, <2>1 DEF SeenToken, Doing
  <1>13. OneToken' /\ AtFrontier'
    BY <1>7, <1>8, <1>10, <1>11, <1>12 DEF OneToken, AtFrontier
  <1>14. Delimiters'
    BY <1>1, <1>4, <1>5, <1>7, <1>8 DEF Delimiters
  <1>15. WorkersKnow'
    BY <1>10 DEF WorkersKnow, Knows, Launched
  <1>16. Logged' /\ InTxns'
    BY <1>1, <1>3, <1>4, <1>10, HistoryStays
  <1> QED BY <1>9, <1>13, <1>14, <1>15, <1>16 DEF Token

(* The instruction at the frontier is the first that was not processed.     *)
LEMMA NextInLog ==
  ASSUME Inv, ListInOrder, Logged, NEW s \in Slots, Frontier(s), kind[s] \in Listed
  PROVE  /\ Len(log) + 1 \in DOMAIN resolutions /\ resolutions[Len(log) + 1] = s
         /\ Len(log) \in Nat /\ txnOf[s] = 0
  <1>1. /\ resolutions \in Seq(Slots) /\ log \in Seq(Slots) /\ Slots \subseteq Nat
        /\ s \in Nat
    BY OrderTypes
  <1>2. Len(log) \in Nat /\ DOMAIN log = 1..Len(log) /\ Len(resolutions) \in Nat
        /\ DOMAIN resolutions = 1..Len(resolutions)
    BY <1>1
  <1>3. txnOf[s] = 0
    BY <1>1 DEF Frontier
  <1>4. PICK i \in DOMAIN resolutions : resolutions[i] = s
    BY DEF ListInOrder
  <1>5. i > Len(log)
    BY <1>2, <1>3, <1>4 DEF Logged
  <1>6. CASE i = Len(log) + 1
    BY <1>2, <1>3, <1>4, <1>6
  <1>7. CASE i > Len(log) + 1
    <2> DEFINE j == Len(log) + 1
    <2>1. j \in DOMAIN resolutions /\ j < i /\ ~(j <= Len(log))
      BY <1>2, <1>7
    <2> HIDE DEF j
    <2>2. resolutions[j] < s
      BY <1>4, <2>1 DEF ListInOrder
    <2>3. resolutions[j] \in Slots
      BY <1>1, <2>1
    <2>4. kind[resolutions[j]] \in Listed
      BY <2>1, <2>3 DEF ListInOrder
    <2>5. txnOf[resolutions[j]] # 0
      BY <2>2, <2>3, <2>4 DEF Frontier
    <2> QED BY <2>1, <2>5 DEF Logged
  <1> QED BY <1>2, <1>5, <1>6, <1>7

(* A worker processes the next instruction: it becomes part of the          *)
(* transaction, and the frontier passes it.                                 *)
LEMMA ExecuteOrder ==
  ASSUME OrderInv, NEW w \in Slots, Execute(w)
  PROVE  Placement' /\ Token'
  <1>1. /\ worker \in [Slots -> WorkerRecords] /\ txnOf \in [Slots -> {0} \cup Slots]
        /\ log \in Seq(Slots) /\ resolutions \in Seq(Slots) /\ Slots \subseteq Nat /\ 0 \notin Slots
        /\ OneToken /\ AtFrontier /\ Delimiters /\ Logged /\ InTxns /\ Placement /\ Inv
        /\ ListInOrder /\ WorkersKnow
    BY OrderTypes, SlotFacts DEF OrderInv, Placement, Token
  <1>2. PICK s \in Slots :
          /\ worker[w].at = s /\ kind[s] \in Listed /\ s + 1 <= position /\ Launched(w)
          /\ Written(s) /\ w <= s /\ Nest(w) = 0 /\ Frontier(s) /\ worker[w].depth = Nest(s)
    BY Found DEF Execute, Listed
  <1>3. /\ UNCHANGED JavaScriptVars /\ UNCHANGED word
        /\ \A v \in Slots : v # w => worker'[v] = worker[v]
        /\ worker'[w].pc = "mark" /\ worker'[w].at = s /\ worker'[w].read = word[s]
        /\ worker'[w].depth = IF kind[s] = "start" THEN worker[w].depth + 1 ELSE worker[w].depth
        /\ log' = Append(log, s) /\ txnOf' = [txnOf EXCEPT ![s] = w]
    BY <1>1, <1>2 DEF Execute, shared, WorkerRecords
  <1>0. s \in Nat /\ w \in Nat /\ s \in Slots /\ w # 0 /\ Slots \subseteq Nat
    BY <1>1, <1>2
  <1>4. UNCHANGED <<position, kind, resolutions, todo, startAddress>>
    BY <1>3 DEF JavaScriptVars, placing, starting
  <1>5. \A v \in Slots : Launched(v) => v = w
    BY <1>1, <1>2 DEF OneToken
  <1>6. \A v \in Slots : Launched(v)' <=> v = w
    BY <1>2, <1>3, <1>5 DEF Launched
  <1>7. /\ \A p \in Positions : ~Free(p) /\ ~Free(p)'
        /\ ~SeenToken' /\ startAddress' = 0
    BY <1>1, <1>2, <1>3, <1>4 DEF OneToken, SeenToken, Doing, Free, Written
  <1>8. OneToken' /\ AtFrontier'
    BY <1>6, <1>7 DEF OneToken, AtFrontier
  <1>9. \A p : Nest(p)' = Nest(p)
    BY <1>4, SameNest
  <1>10. Delimiters'
    BY <1>1, <1>3, <1>4, <1>9 DEF Delimiters
  <1>11. Placement'
    BY <1>1, <1>3, PlacementStays DEF Written
  <1>12. /\ Len(log) + 1 \in DOMAIN resolutions /\ resolutions[Len(log) + 1] = s
         /\ Len(log) \in Nat /\ txnOf[s] = 0
    BY <1>1, <1>2, NextInLog
  <1>13. \A r \in Slots : txnOf'[r] = IF r = s THEN w ELSE txnOf[r]
    BY <1>1, <1>3
  <1>14. Frontier(s + 1)'
    <2>1. \A r \in Slots : r < s + 1 <=> (r < s \/ r = s)
      BY <1>0
    <2>2. \A r \in Slots : kind[r] \in Listed => (r < s <=> txnOf[r] # 0)
      BY <1>2 DEF Frontier
    <2>3. ASSUME NEW r \in Slots, kind[r] \in Listed PROVE r < s + 1 <=> txnOf'[r] # 0
      BY ONLY <1>0, <1>13, <2>1, <2>2, <2>3
    <2> QED BY <1>2, <1>4, <2>3 DEF Frontier
  <1>15. WorkersKnow'
    <2>1. Knows(w)'
      <3>1. FrontOf(w)' = s + 1
        BY <1>3 DEF FrontOf
      <3>2. worker'[w].depth = Nest(s + 1)
        BY <1>2, <1>3, NestNext DEF Listed
      <3>3. Frontier(FrontOf(w))' /\ worker'[w].depth = Nest(FrontOf(w))'
        <4>1. Nest(s + 1)' = Nest(s + 1)
          BY <1>9
        <4> QED BY <1>14, <3>1, <3>2, <4>1
      <3>4. w <= worker'[w].at /\ Nest(w)' = 0
        BY <1>2, <1>3, <1>9
      <3>5. "INSTR" \in worker'[w].read /\ Written(worker[w].at)'
            /\ worker'[w].read = word'[worker'[w].at]
        BY <1>2, <1>3 DEF Written
      <3> QED BY ONLY <1>3, <3>3, <3>4, <3>5 DEF Knows
    <2>2. \A v \in Slots : v # w => Knows(v)'
      BY <1>6 DEF Knows, Launched
    <2> QED BY <2>1, <2>2 DEF WorkersKnow
  <1>16. Logged'
    <2>1. /\ Len(log') = Len(log) + 1 /\ DOMAIN log' = 1..Len(log) + 1
          /\ log'[Len(log) + 1] = s /\ \A i \in 1..Len(log) : log'[i] = log[i]
          /\ DOMAIN log = 1..Len(log) /\ DOMAIN resolutions = 1..Len(resolutions)
          /\ Len(resolutions) \in Nat
      BY <1>1, <1>2, <1>3
    <2>2. InOrder'
      <3>1. InOrder
        BY <1>1 DEF Logged
      <3>2. ASSUME NEW i \in DOMAIN log'
            PROVE  i <= Len(resolutions) /\ log'[i] = resolutions[i]
        <4>1. CASE i = Len(log) + 1
          BY <1>12, <2>1, <4>1
        <4>2. CASE i # Len(log) + 1
          BY <1>12, <2>1, <3>1, <4>2 DEF InOrder
        <4> QED BY <4>1, <4>2
      <3> QED BY <1>4, <3>2 DEF InOrder
    <2>3. ASSUME NEW i \in DOMAIN resolutions
          PROVE  txnOf'[resolutions[i]] # 0 <=> i <= Len(log) + 1
      <3>1. resolutions[i] \in Slots /\ i \in Nat
        BY <1>1
      <3>2. \A j \in DOMAIN resolutions : resolutions[j] = s => j = Len(log) + 1
        <4> SUFFICES ASSUME NEW j \in DOMAIN resolutions, j # Len(log) + 1
                     PROVE  resolutions[j] # s
          OBVIOUS
        <4>1. j \in Nat /\ Len(log) + 1 \in Nat
          BY <1>12, <2>1
        <4>2. j < Len(log) + 1 \/ Len(log) + 1 < j
          BY <4>1
        <4>3. resolutions[j] < s \/ s < resolutions[j]
          BY <1>1, <1>12, <4>2 DEF ListInOrder
        <4> QED BY <1>0, <4>3
      <3>3. CASE i = Len(log) + 1
        <4>1. txnOf'[resolutions[i]] = w
          BY <1>12, <1>13, <3>1, <3>3
        <4> QED BY ONLY <1>0, <1>12, <3>3, <4>1
      <3>4. CASE i # Len(log) + 1
        <4>1. txnOf'[resolutions[i]] = txnOf[resolutions[i]]
          BY <1>13, <3>1, <3>2, <3>4
        <4>2. txnOf[resolutions[i]] # 0 <=> i <= Len(log)
          BY <1>1 DEF Logged
        <4> QED BY ONLY <1>12, <3>1, <3>4, <4>1, <4>2
      <3> QED BY <3>3, <3>4
    <2>4. \A r \in Slots : txnOf'[r] # 0 => kind[r] \in Listed
      BY <1>1, <1>2, <1>13 DEF Logged
    <2> QED BY <1>4, <2>1, <2>2, <2>3, <2>4 DEF Logged
  <1>17. InTxns'
    <2>0. /\ \A r \in Slots : txnOf[r] # 0 => txnOf[r] <= r /\ Nest(txnOf[r]) = 0
          /\ \A r \in Slots : txnOf[r] # 0 => (txnOf[r] = w <=> w <= r)
          /\ \A r, q \in Slots : txnOf[r] # 0 /\ txnOf[q] # 0 /\ txnOf[q] <= r /\ r <= q =>
               txnOf[r] = txnOf[q]
      BY <1>1, <1>2 DEF InTxns
    <2>1. \A r \in Slots : txnOf[r] # 0 => r < s
      BY <1>1, <1>2 DEF Logged, Frontier
    <2>2. ASSUME NEW r \in Slots, txnOf'[r] # 0
          PROVE  txnOf'[r] <= r /\ Nest(txnOf[r])' = 0
      <3>1. PICK u : u = txnOf'[r]
        OBVIOUS
      <3>2. u <= r /\ Nest(u) = 0
        BY <1>2, <1>13, <2>0, <2>2, <3>1
      <3> QED BY <1>9, <3>1, <3>2
    <2>3. ASSUME NEW r \in Slots, NEW q \in Slots, txnOf'[r] # 0, txnOf'[q] # 0,
                 txnOf'[q] <= r, r <= q
          PROVE  txnOf'[r] = txnOf'[q]
      <3>1. q \in Nat /\ r \in Nat
        BY <1>0
      <3>2. CASE q # s
        <4>1. q < s
          BY <1>13, <2>1, <2>3, <3>2
        <4>2. r # s
          BY ONLY <1>0, <2>3, <3>1, <4>1
        <4> QED BY ONLY <1>13, <2>0, <2>3, <3>2, <4>2
      <3>3. CASE q = s /\ r # s
        <4>1. w <= r
          BY <1>13, <2>3, <3>3
        <4>2. txnOf[r] = w
          BY <1>13, <2>0, <2>3, <3>3, <4>1
        <4> QED BY <1>13, <3>3, <4>2
      <3>4. CASE q = s /\ r = s
        BY <3>4
      <3> QED BY <3>2, <3>3, <3>4
    <2>4. ASSUME NEW r \in Slots, txnOf'[r] # 0 PROVE txnOf'[r] = w <=> w <= r
      BY <1>2, <1>13, <2>0, <2>4
    <2> QED BY <1>6, <2>2, <2>3, <2>4 DEF InTxns
  <1> QED BY <1>8, <1>10, <1>11, <1>15, <1>16, <1>17 DEF Token

LEMMA WorkerStepOrder ==
  ASSUME OrderInv, NEW w \in Slots, WorkerStep(w)
  PROVE  Placement' /\ Token'
  BY BeginOrder, FollowPointerOrder, LeaveBlockOrder, ExecuteOrder, MarkOrder,
     FetchEmptyOrder, RefetchOrder, StartWaitOrder, WakeOrder, DelimitOrder,
     CommitOrder, PublishOrder DEF WorkerStep

-----------------------------------------------------------------------------
(* The steps of a JavaScript call.                                          *)

(* The steps a replaces the first of the call's steps q.                    *)
LEMMA ReplaceHead ==
  ASSUME NEW S, NEW a \in Seq(S), NEW q \in Seq(S), q # <<>>,
         NEW b, b = a \o Tail(q)
  PROVE  /\ DOMAIN a = 1..Len(a) /\ Len(a) \in Nat /\ DOMAIN q = 1..Len(q) /\ 1 \in DOMAIN q
         /\ Len(q) \in Nat /\ q[1] = Head(q)
         /\ b \in Seq(S) /\ DOMAIN b = 1..Len(a) + Len(q) - 1
         /\ \A i \in DOMAIN b : i \in DOMAIN a => b[i] = a[i]
         /\ \A i \in DOMAIN b : i \notin DOMAIN a =>
              /\ i - Len(a) + 1 \in DOMAIN q /\ i - Len(a) + 1 # 1
              /\ b[i] = q[i - Len(a) + 1]
  <1>1. /\ DOMAIN a = 1..Len(a) /\ Len(a) \in Nat /\ DOMAIN q = 1..Len(q) /\ 1 \in DOMAIN q
        /\ Len(q) \in Nat \ {0} /\ q[1] = Head(q) /\ Tail(q) \in Seq(S)
        /\ Len(Tail(q)) = Len(q) - 1
    OBVIOUS
  <1>2. b \in Seq(S) /\ Len(b) = Len(a) + Len(Tail(q))
    BY <1>1
  <1>3. DOMAIN b = 1..Len(a) + Len(q) - 1
    BY <1>1, <1>2
  <1>4. ASSUME NEW i \in DOMAIN b, i \in DOMAIN a PROVE b[i] = a[i]
    BY <1>1, <1>2, <1>4
  <1>5. ASSUME NEW i \in DOMAIN b, i \notin DOMAIN a
        PROVE  /\ i - Len(a) + 1 \in DOMAIN q /\ i - Len(a) + 1 # 1
               /\ b[i] = q[i - Len(a) + 1]
    <2>1. i \in Nat /\ i > Len(a) /\ i - Len(a) \in 1..Len(q) - 1
      BY <1>1, <1>3, <1>5
    <2>2. b[i] = Tail(q)[i - Len(a)]
      BY <1>1, <1>2, <2>1
    <2>3. b[i] = q[i - Len(a) + 1]
      BY <1>1, <2>1, <2>2
    <2> QED BY <1>1, <2>1, <2>3
  <1> QED BY <1>1, <1>2, <1>3, <1>4, <1>5

(* The steps of a call after the first one go on being in order when that   *)
(* is done, and so do those that replace it.                                *)
LEMMA StepsGoOn ==
  ASSUME OrderInv, NEW a \in Seq(JSSteps), todo # <<>>, todo' = a \o Tail(todo),
         UNCHANGED <<kind, position>>,
         \A p \in Positions : Written(p) => Written(p)',
         \A p \in Positions : Written(p)' =>
           Written(p) \/ (Head(todo).op \in Placings /\ p = Head(todo).slot),
         \A i \in DOMAIN a : StepOK(a[i])',
         \A i, j \in DOMAIN a :
           a[i].op \in Placings /\ a[j].op \in Placings /\ a[i].slot = a[j].slot => i = j,
         \A i \in DOMAIN a : a[i].op = "seen" /\ "DELIMITER" \in a[i].status => i = 1,
         \A i \in DOMAIN a, j \in DOMAIN todo :
           a[i].op \in Placings /\ todo[j].op \in Placings /\ j # 1
             => a[i].slot # todo[j].slot
  PROVE  /\ StepsOK(todo)'
         /\ SeenToken' => 1 \in DOMAIN a /\ a[1].op = "seen" /\ "DELIMITER" \in a[1].status
  <1>1. todo \in Seq(JSSteps) /\ StepsOK(todo)
    BY OrderTypes DEF OrderInv, Placement
  <1>2. PICK b : b = todo'
    OBVIOUS
  <1>3. /\ DOMAIN a = 1..Len(a) /\ Len(a) \in Nat /\ DOMAIN todo = 1..Len(todo)
        /\ 1 \in DOMAIN todo /\ Len(todo) \in Nat /\ todo[1] = Head(todo)
        /\ b \in Seq(JSSteps) /\ DOMAIN b = 1..Len(a) + Len(todo) - 1
        /\ \A i \in DOMAIN b : i \in DOMAIN a => b[i] = a[i]
        /\ \A i \in DOMAIN b : i \notin DOMAIN a =>
             /\ i - Len(a) + 1 \in DOMAIN todo /\ i - Len(a) + 1 # 1
             /\ b[i] = todo[i - Len(a) + 1]
    BY <1>1, <1>2, ReplaceHead
  <1>4. \A p : Nest(p)' = Nest(p)
    BY SameNest
  <1>5. ASSUME NEW j \in DOMAIN todo, j # 1, NEW t, t = todo[j] PROVE StepOK(t)'
    <2>1. StepOK(todo[j])
      BY <1>1 DEF StepsOK
    <2>2. t = todo[j]
      BY <1>5
    <2>3. todo[j] \in JSSteps
      BY <1>1
    <2>4. t.op \in Placings \cup {"seen"} => t.slot \in Positions
      BY <2>2, <2>3, SlotFacts DEF JSSteps, Placings
    <2>5. t.op \in Placings => ~(Head(todo).op \in Placings /\ t.slot = Head(todo).slot)
      BY <1>1, <1>3, <1>5, <2>2 DEF StepsOK
    <2>6. StepOK(t)
      BY <2>1, <2>2
    <2> QED BY <1>4, <2>4, <2>5, <2>6 DEF StepOK
  <1>6. ASSUME NEW i \in DOMAIN b PROVE StepOK(b[i])'
    <2>1. CASE i \in DOMAIN a
      BY <1>3, <2>1
    <2>2. CASE i \notin DOMAIN a
      BY <1>3, <1>5, <2>2
    <2> QED BY <2>1, <2>2
  <1>7. ASSUME NEW i \in DOMAIN b, NEW j \in DOMAIN b, b[i].op \in Placings,
               b[j].op \in Placings, b[i].slot = b[j].slot
        PROVE  i = j
    <2>1. CASE i \in DOMAIN a /\ j \in DOMAIN a
      BY <1>3, <1>7, <2>1
    <2>2. CASE i \in DOMAIN a /\ j \notin DOMAIN a
      BY <1>3, <1>7, <2>2
    <2>3. CASE i \notin DOMAIN a /\ j \in DOMAIN a
      BY <1>3, <1>7, <2>3
    <2>4. CASE i \notin DOMAIN a /\ j \notin DOMAIN a
      <3>1. i - Len(a) + 1 = j - Len(a) + 1
        BY <1>1, <1>3, <1>7, <2>4 DEF StepsOK
      <3> QED BY <1>3, <3>1
    <2> QED BY <2>1, <2>2, <2>3, <2>4
  <1>8. ASSUME NEW i \in DOMAIN b, b[i].op = "seen", "DELIMITER" \in b[i].status
        PROVE  i = 1 /\ i \in DOMAIN a
    <2>1. i \in DOMAIN a
      BY <1>1, <1>3, <1>8 DEF StepsOK
    <2> QED BY <1>3, <1>8, <2>1
  <1>9. StepsOK(todo)'
    BY <1>2, <1>6, <1>7, <1>8 DEF StepsOK
  <1>10. ASSUME SeenToken'
         PROVE  1 \in DOMAIN a /\ a[1].op = "seen" /\ "DELIMITER" \in a[1].status
    <2>1. b # <<>> /\ Head(b).op = "seen" /\ "DELIMITER" \in Head(b).status
      BY <1>2, <1>10 DEF SeenToken, Doing
    <2>2. 1 \in DOMAIN b /\ b[1] = Head(b)
      BY <1>3, <2>1
    <2> QED BY <1>3, <1>8, <2>1, <2>2
  <1> QED BY <1>9, <1>10

(* A start that is held back stays so while other instructions are written. *)
LEMMA HeldBackStays ==
  ASSUME OrderInv, NEW a \in Seq(JSSteps), todo # <<>>, todo' = a \o Tail(todo),
         writeBatchStart' \in {0, writeBatchStart}, UNCHANGED <<batchDepth, turn, blocks>>,
         \A p \in Positions : Written(p)' =>
           Written(p) \/ (Head(todo).op \in Placings /\ p = Head(todo).slot),
         writeBatchStart' # 0 => \A i \in DOMAIN a : a[i].op \in Placings =>
           /\ Head(todo).op \in Placings /\ a[i].slot = Head(todo).slot
           /\ a[i].op \in {"load", "store"} => Head(todo).op \in {"load", "store"}
  PROVE  HeldBack'
  <1> SUFFICES ASSUME writeBatchStart' # 0 PROVE HeldBack'
    BY DEF HeldBack
  <1>1. todo \in Seq(JSSteps) /\ HeldBack /\ writeBatchStart \in Positions
        /\ writeBatchStart # 0 /\ writeBatchStart' = writeBatchStart
    BY OrderTypes, SlotFacts DEF OrderInv, Placement, Inv, TypeInv, TypeOK, TypeBatching
  <1>2. PICK b : b = todo'
    OBVIOUS
  <1>3. /\ DOMAIN a = 1..Len(a) /\ 1 \in DOMAIN todo /\ todo[1] = Head(todo)
        /\ \A i \in DOMAIN b : i \in DOMAIN a => b[i] = a[i]
        /\ \A i \in DOMAIN b : i \notin DOMAIN a =>
             /\ i - Len(a) + 1 \in DOMAIN todo
             /\ b[i] = todo[i - Len(a) + 1]
    BY <1>1, <1>2, ReplaceHead
  <1>4. CASE batchDepth > 0
    <2>1. /\ writeBatchStart = Outermost /\ ~Written(writeBatchStart)
          /\ \A i \in DOMAIN todo :
               todo[i].op \in Placings => todo[i].slot # writeBatchStart
      BY <1>1, <1>4 DEF HeldBack
    <2>2. Outermost' = Outermost
      BY DEF Outermost
    <2>3. PICK s : s = writeBatchStart
      OBVIOUS
    <2>4. ~Written(s)'
      BY <1>1, <1>3, <2>1, <2>3
    <2>5. ASSUME NEW i \in DOMAIN b, b[i].op \in Placings PROVE b[i].slot # s
      <3>1. CASE i \in DOMAIN a
        BY <1>1, <1>3, <2>1, <2>3, <2>5, <3>1
      <3>2. CASE i \notin DOMAIN a
        BY <1>3, <2>1, <2>3, <2>5, <3>2
      <3> QED BY <3>1, <3>2
    <2> QED BY <1>1, <1>2, <1>4, <2>1, <2>2, <2>3, <2>4, <2>5 DEF HeldBack
  <1>5. CASE ~(batchDepth > 0)
    <2>1. \A i \in DOMAIN todo : todo[i].op \notin {"load", "store"}
      BY <1>1, <1>5 DEF HeldBack
    <2>2. ASSUME NEW i \in DOMAIN b PROVE b[i].op \notin {"load", "store"}
      <3>1. CASE i \in DOMAIN a
        BY <1>1, <1>3, <2>1, <3>1 DEF Placings
      <3>2. CASE i \notin DOMAIN a
        BY <1>3, <2>1, <3>2
      <3> QED BY <3>1, <3>2
    <2> QED BY <1>2, <1>5, <2>2 DEF HeldBack
  <1> QED BY <1>4, <1>5

LEMMA PlacementGoesOn ==
  ASSUME OrderInv, StepsOK(todo)', HeldBack',
         UNCHANGED <<position, kind, resolutions, batchDepth, blocks, turn,
                     writtenBatchDepth, group>>,
         \A s \in Slots : Written(s)' => Written(s) \/ kind[s] # "none"
  PROVE  Placement'
  <1>1. FreshSlots /\ ListInOrder /\ OpenBlocks /\ Nested
    BY DEF OrderInv, Placement
  <1>2. \A p : Nest(p)' = Nest(p)
    BY SameNest
  <1>3. FreshSlots' /\ ListInOrder'
    BY <1>1 DEF FreshSlots, ListInOrder
  <1>4. OpenBlocks' /\ Nested'
    BY <1>1, <1>2 DEF OpenBlocks, Nested, Outermost
  <1> QED BY <1>3, <1>4 DEF Placement

(* A step of JavaScript that may write an instruction, but leaves the       *)
(* delimiters and what the workers do alone.                                *)
LEMMA JavaScriptOnly ==
  ASSUME OrderInv, UNCHANGED <<position, kind, resolutions, log, txnOf, startAddress>>,
         ~SeenToken', Placement',
         \A p \in Positions : Written(p) => Written(p)',
         \A p \in Positions : "DELIMITER" \in word'[p] <=> "DELIMITER" \in word[p],
         \A w \in Slots : /\ worker'[w].at = worker[w].at /\ worker'[w].pc = worker[w].pc
                             /\ worker'[w].depth = worker[w].depth
                             /\ worker'[w].read = worker[w].read
                          \/ ~Launched(w)'
  PROVE  Token'
  <1>1. /\ OneToken /\ AtFrontier /\ Delimiters /\ WorkersKnow /\ Logged /\ InTxns /\ Inv
    BY DEF OrderInv, Token
  <1>2. \A w \in Slots : Launched(w)' => Launched(w)
    BY DEF Launched
  <1>3. \A p \in Positions : Free(p)' => Free(p)
    BY DEF Free
  <1>4. \A p : Nest(p)' = Nest(p) /\ (Frontier(p)' <=> Frontier(p))
    BY SameNest, FrontierStays
  <1>5. OneToken'
    BY ONLY <1>1, <1>2, <1>3, ~SeenToken', startAddress' = startAddress, OneTokenStays
  <1>6. AtFrontier' /\ Delimiters'
    BY <1>1, <1>3, <1>4 DEF AtFrontier, Delimiters
  <1>7. WorkersKnow'
    <2> SUFFICES ASSUME NEW w \in Slots PROVE Knows(w)'
      BY DEF WorkersKnow
    <2>1. CASE ~Launched(w)'
      BY <2>1 DEF Launched, Knows
    <2>2. CASE Launched(w)'
      <3>1. /\ worker'[w].at = worker[w].at /\ worker'[w].pc = worker[w].pc
            /\ worker'[w].depth = worker[w].depth /\ worker'[w].read = worker[w].read
        BY <2>2
      <3>2. Knows(w) /\ worker[w].at \in Positions /\ Launched(w)
        BY <1>1, <1>2, <2>2, OrderTypes DEF WorkersKnow
      <3>3. PICK f : f = FrontOf(w)
        OBVIOUS
      <3>4. FrontOf(w)' = f
        BY <3>1, <3>3 DEF FrontOf
      <3>5. Frontier(f) /\ worker[w].depth = Nest(f) /\ w <= worker[w].at /\ Nest(w) = 0
        BY <3>2, <3>3 DEF Knows
      <3>6. Frontier(FrontOf(w))' /\ worker'[w].depth = Nest(FrontOf(w))'
        BY <1>4, <3>1, <3>4, <3>5
      <3>7. worker'[w].pc = "mark" =>
              /\ "INSTR" \in worker'[w].read /\ Written(worker[w].at)'
              /\ "DELIMITER" \in worker'[w].read => "DELIMITER" \in word'[worker'[w].at]
        BY <3>1, <3>2 DEF Knows, Written
      <3>8. worker'[w].pc = "empty" => "INSTR" \notin worker'[w].read
        BY <3>1, <3>2 DEF Knows
      <3>9. w <= worker'[w].at /\ Nest(w)' = 0
        BY <1>4, <3>1, <3>5
      <3> QED BY ONLY <3>6, <3>7, <3>8, <3>9 DEF Knows
    <2> QED BY <2>1, <2>2
  <1>8. Logged' /\ InTxns'
    BY <1>1, <1>2, HistoryStays
  <1> QED BY <1>5, <1>6, <1>7, <1>8 DEF Token

(* The end of a step, or one that is repeated, changes nothing else.        *)
LEMMA StepEnds ==
  ASSUME OrderInv, todo # <<>>, todo' = Tail(todo),
         UNCHANGED <<word, placing, batching, resolutions, startAddress, log, txnOf, worker>>
  PROVE  Placement' /\ Token'
  <1>1. Tail(todo) = <<>> \o Tail(todo) /\ <<>> \in Seq(JSSteps) /\ DOMAIN <<>> = {}
    BY OrderTypes DEF OrderInv
  <1>2. UNCHANGED <<position, kind, resolutions, batchDepth, blocks, turn, writtenBatchDepth,
                    group, writeBatchStart>> /\ UNCHANGED <<word, worker>>
    BY DEF placing, batching
  <1>3. StepsOK(todo)' /\ ~SeenToken'
    BY <1>1, <1>2, StepsGoOn DEF Written
  <1>4. HeldBack'
    BY <1>1, <1>2, HeldBackStays DEF Written
  <1>5. Placement'
    BY <1>2, <1>3, <1>4, PlacementGoesOn DEF Written
  <1> QED BY <1>2, <1>3, <1>5, JavaScriptOnly DEF Written

LEMMA StepRepeats ==
  ASSUME OrderInv, todo # <<>>, todo' = todo, Head(todo).op # "seen",
         UNCHANGED <<word, placing, batching, resolutions, startAddress, log, txnOf, worker>>
  PROVE  Placement' /\ Token'
  <1>2. UNCHANGED <<position, kind, resolutions, batchDepth, blocks, turn, writtenBatchDepth,
                    group, writeBatchStart>> /\ UNCHANGED <<word, worker, todo>>
    BY DEF placing, batching
  <1>3. ~SeenToken'
    BY <1>2 DEF SeenToken, Doing
  <1>4. StepsOK(todo)' /\ HeldBack'
    <2>1. StepsOK(todo) /\ HeldBack
      BY DEF OrderInv, Placement
    <2>2. \A p : Nest(p)' = Nest(p)
      BY <1>2, SameNest
    <2>3. HeldBack'
      BY <1>2, <2>1 DEF HeldBack, Outermost, Written
    <2>4. StepsOK(todo)'
      BY <1>2, <2>1, <2>2 DEF StepsOK, StepOK, Written
    <2> QED BY <2>3, <2>4
  <1>5. Placement'
    BY <1>2, <1>3, <1>4, PlacementGoesOn DEF Written
  <1> QED BY <1>2, <1>3, <1>5, JavaScriptOnly DEF Written

(* What the step being done knows of its slot.                              *)
LEMMA HeadStep ==
  ASSUME OrderInv, todo # <<>>
  PROVE  /\ StepOK(Head(todo)) /\ Head(todo) = todo[1] /\ 1 \in DOMAIN todo
         /\ Head(todo) \in JSSteps
         /\ Head(todo).op \in Placings \cup {"seen", "promise"} =>
              Head(todo).slot \in Slots /\ Head(todo).status \in SUBSET Bits
         /\ \A j \in DOMAIN todo : Head(todo).op \in Placings /\ todo[j].op \in Placings /\ j # 1
              => todo[j].slot # Head(todo).slot
  <1>1. todo \in Seq(JSSteps) /\ StepsOK(todo)
    BY OrderTypes DEF OrderInv, Placement
  <1>2. Head(todo) = todo[1] /\ 1 \in DOMAIN todo /\ Head(todo) \in JSSteps
    BY <1>1
  <1>3. Head(todo).op \in Placings \cup {"seen", "promise"} =>
              Head(todo).slot \in Slots /\ Head(todo).status \in SUBSET Bits
    BY <1>2 DEF JSSteps, Placings
  <1> QED BY <1>1, <1>2, <1>3 DEF StepsOK

LEMMA LoadOrder ==
  ASSUME OrderInv, Load
  PROVE  Placement' /\ Token'
  <1>1. /\ todo # <<>> /\ Head(todo).op = "load"
        /\ todo' = <<Step("store", Head(todo).slot, word[Head(todo).slot])>> \o Tail(todo)
        /\ UNCHANGED <<position, kind, resolutions, batchDepth, blocks, turn, writtenBatchDepth,
                    group, writeBatchStart>> /\ UNCHANGED <<word, worker, startAddress, log, txnOf>>
    BY DEF Load, Doing, placing, batching, writing, history, shared, starting
  <1>2. PICK s \in Slots : s = Head(todo).slot
    BY <1>1, HeadStep DEF Placings
  <1>3. PICK a : a = <<Step("store", s, word[s])>>
    OBVIOUS
  <1>4. word[s] \in SUBSET Bits /\ Delimiters /\ s \in Positions
    BY OrderTypes, SlotFacts DEF OrderInv, Token
  <1>5. /\ a \in Seq(JSSteps) /\ DOMAIN a = {1} /\ a[1] = Step("store", s, word[s])
    BY <1>3, <1>4, StepTypes
  <1>6. a[1].op = "store" /\ a[1].slot = s /\ a[1].status = word[s]
    BY <1>5 DEF Step
  <1>7. /\ s < position /\ ~Written(s) /\ kind[s] \in Listed \cup {"end"} /\ Nest(s) > 0
    BY <1>1, <1>2, HeadStep DEF StepOK, Placings
  <1>8. "DELIMITER" \notin word[s]
    BY <1>4, <1>7 DEF Delimiters
  <1>9. StepOK(a[1])'
    <2>1. Nest(s)' = Nest(s)
      BY <1>1, SameNest
    <2>2. PICK t : t = a[1]
      OBVIOUS
    <2> QED BY <1>1, <1>6, <1>7, <1>8, <2>1, <2>2 DEF StepOK, Written
  <1>10. todo' = a \o Tail(todo)
    BY <1>1, <1>2, <1>3
  <1>11. StepsOK(todo)' /\ ~SeenToken'
    BY <1>1, <1>2, <1>5, <1>6, <1>9, <1>10, HeadStep, StepsGoOn DEF Written, Placings
  <1>12. HeldBack'
    BY <1>1, <1>2, <1>5, <1>6, <1>10, HeldBackStays DEF Written, Placings
  <1>13. Placement'
    BY <1>1, <1>11, <1>12, PlacementGoesOn DEF Written
  <1> QED BY <1>1, <1>11, <1>13, JavaScriptOnly DEF Written

(* The outermost block that is open, and its start if it is held back.      *)
LEMMA OutermostBlock ==
  ASSUME OrderInv, batchDepth > 0
  PROVE  /\ Outermost \in Slots /\ Outermost < position /\ kind[Outermost] = "start"
         /\ writtenBatchDepth[Outermost] = 0
         /\ turn = 0 => blocks # <<>> /\ 1 \in DOMAIN blocks /\ Outermost = blocks[1]
  <1>1. /\ blocks \in Seq(Slots) /\ turn \in {0} \cup Slots /\ DepthOfBlocks /\ OpenBlocks
        /\ batchDepth \in Nat
    BY DEF OrderInv, Placement, Inv, TypeInv, TypeOK, TypeBatching
  <1>2. CASE turn # 0
    BY <1>1, <1>2 DEF Outermost, OpenBlocks
  <1>3. CASE turn = 0
    <2>1. batchDepth = 2 * Len(blocks) /\ Len(blocks) \in Nat
      BY <1>1, <1>3 DEF DepthOfBlocks
    <2>2. Len(blocks) > 0
      BY <1>1, <2>1
    <2>3. blocks # <<>> /\ 1 \in DOMAIN blocks /\ Head(blocks) = blocks[1] /\ blocks[1] \in Slots
      BY <1>1, <2>2
    <2> QED BY <1>1, <1>3, <2>3 DEF Outermost, OpenBlocks
  <1> QED BY <1>2, <1>3

LEMMA StartHeldBack ==
  ASSUME OrderInv, batchDepth > 0, writeBatchStart # 0
  PROVE  /\ writeBatchStart = Outermost /\ writeBatchStart \in Slots
         /\ writeBatchStart < position /\ kind[writeBatchStart] = "start"
         /\ ~Written(writeBatchStart)
         /\ Finish(writeBatchStart) = Step("or", writeBatchStart, {})
         /\ \A i \in DOMAIN todo : todo[i].op \in Placings => todo[i].slot # writeBatchStart
  <1>1. /\ writeBatchStart = Outermost /\ ~Written(writeBatchStart)
        /\ \A i \in DOMAIN todo : todo[i].op \in Placings => todo[i].slot # writeBatchStart
    BY DEF OrderInv, Placement, HeldBack
  <1>2. /\ Outermost \in Slots /\ Outermost < position /\ kind[Outermost] = "start"
        /\ writtenBatchDepth[Outermost] = 0
    BY OutermostBlock
  <1>3. Finish(writeBatchStart) = Step("or", writeBatchStart, {})
    BY <1>1, <1>2 DEF Finish
  <1> QED BY <1>1, <1>2, <1>3

(* What follows a store or an or.                                           *)
LEMMA SeenFollows ==
  ASSUME NEW s \in Slots, NEW st \in SUBSET Bits
  PROVE  /\ AfterStore(s, st) \in Seq(JSSteps)
         /\ kind[s] = "end" => AfterStore(s, st) = <<>>
         /\ kind[s] # "end" => /\ AfterStore(s, st) = <<Step("seen", s, st)>>
                               /\ DOMAIN AfterStore(s, st) = {1}
                               /\ AfterStore(s, st)[1].op = "seen"
                               /\ AfterStore(s, st)[1].slot = s
                               /\ AfterStore(s, st)[1].status = st
  BY StepTypes DEF AfterStore, Step

(* One step before others.                                                  *)
LEMMA StepBefore ==
  ASSUME NEW x \in JSSteps, NEW next \in Seq(JSSteps), NEW a, a = <<x>> \o next
  PROVE  /\ a \in Seq(JSSteps) /\ a[1] = x /\ DOMAIN a = 1..Len(next) + 1
         /\ Len(next) \in Nat /\ DOMAIN next = 1..Len(next)
         /\ \A i \in DOMAIN a : i # 1 => i - 1 \in DOMAIN next /\ a[i] = next[i - 1]
  <1>1. a \in Seq(JSSteps) /\ Len(next) \in Nat /\ DOMAIN next = 1..Len(next)
        /\ Len(a) = Len(next) + 1
    OBVIOUS
  <1>2. DOMAIN a = 1..Len(next) + 1
    BY <1>1
  <1>3. a[1] = x
    BY <1>1
  <1>4. ASSUME NEW i \in DOMAIN a, i # 1 PROVE i - 1 \in DOMAIN next /\ a[i] = next[i - 1]
    BY <1>1, <1>2, <1>4
  <1> QED BY <1>1, <1>2, <1>3, <1>4

LEMMA StoreOrder ==
  ASSUME OrderInv, Store
  PROVE  Placement' /\ Token'
  <1> DEFINE counts == kind[Head(todo).slot] # "end" /\ writeBatchStart # 0
                       /\ Head(todo).status = {}
             release == counts /\ outstandingBatchCount + 1 > BatchStartThreshold
             early == IF release THEN <<Finish(writeBatchStart)>> ELSE <<>>
  <1>1. /\ todo # <<>> /\ Head(todo).op = "store"
        /\ todo' = early \o AfterStore(Head(todo).slot, Head(todo).status) \o Tail(todo)
        /\ word' = [word EXCEPT ![Head(todo).slot] = {"INSTR"}]
        /\ writeBatchStart' = IF release THEN 0 ELSE writeBatchStart
        /\ UNCHANGED <<position, kind, resolutions, batchDepth, blocks, turn, writtenBatchDepth,
                       group>> /\ UNCHANGED <<worker, startAddress, log, txnOf>>
    BY DEF Store, Doing, placing, writing, history, starting
  <1>2. PICK s \in Slots : s = Head(todo).slot
    BY <1>1, HeadStep DEF Placings
  <1>3. PICK st \in SUBSET Bits : st = Head(todo).status
    BY <1>1, HeadStep DEF Placings
  <1>4. /\ s < position /\ ~Written(s) /\ kind[s] \in Listed \cup {"end"} /\ Nest(s) > 0
        /\ "DELIMITER" \notin st
    BY <1>1, <1>2, <1>3, HeadStep DEF StepOK, Placings
  <1>5. /\ word \in [Positions -> SUBSET Bits] /\ Delimiters /\ s \in Positions
        /\ HeldBack /\ todo \in Seq(JSSteps)
    BY OrderTypes, SlotFacts DEF OrderInv, Token, Placement
  <1>6. \A p \in Positions : word'[p] = IF p = s THEN {"INSTR"} ELSE word[p]
    BY <1>1, <1>2, <1>5
  <1>7. /\ \A p \in Positions : Written(p)' <=> Written(p) \/ p = s
        /\ \A p \in Positions : "DELIMITER" \in word'[p] <=> "DELIMITER" \in word[p]
    BY <1>4, <1>5, <1>6 DEF Written, Delimiters
  <1>8. PICK next : next = AfterStore(s, st)
    OBVIOUS
  <1>9. /\ next \in Seq(JSSteps)
        /\ kind[s] = "end" => next = <<>>
        /\ kind[s] # "end" => /\ DOMAIN next = {1} /\ next[1].op = "seen"
                              /\ next[1].slot = s /\ next[1].status = st
    BY <1>8, SeenFollows
  <1>10. \A p : Nest(p)' = Nest(p)
    BY <1>1, SameNest
  <1>11. \A i \in DOMAIN next : next[i].op = "seen" /\ StepOK(next[i])'
    <2> SUFFICES ASSUME NEW i \in DOMAIN next PROVE next[i].op = "seen" /\ StepOK(next[i])'
      OBVIOUS
    <2>1. kind[s] # "end" /\ i = 1
      BY <1>9
    <2>2. kind[s] \in Listed
      BY <1>4, <2>1
    <2> QED BY <1>1, <1>4, <1>5, <1>7, <1>9, <2>1, <2>2 DEF StepOK, Placings

  <1>12. ASSUME release
         PROVE  /\ StepsOK(todo)' /\ ~SeenToken'
                /\ HeldBack'
    <2>1. batchDepth > 0 /\ writeBatchStart # 0
      <3>1. 1 \in DOMAIN todo /\ todo[1].op = "store"
        BY <1>1, HeadStep
      <3> QED BY <1>5, <1>12, <3>1 DEF HeldBack
    <2>2. PICK b \in Slots :
            /\ b = writeBatchStart /\ b < position /\ kind[b] = "start" /\ ~Written(b)
            /\ Finish(writeBatchStart) = Step("or", b, {})
            /\ \A i \in DOMAIN todo : todo[i].op \in Placings => todo[i].slot # b
      BY <2>1, StartHeldBack
    <2>3. PICK x \in JSSteps : x = Step("or", b, {})
      BY StepTypes
    <2>4. x.op = "or" /\ x.slot = b
      BY <2>3 DEF Step
    <2>5. PICK a : a = <<x>> \o next
      OBVIOUS
    <2>6. /\ a \in Seq(JSSteps) /\ a[1] = x
          /\ \A i \in DOMAIN a : i # 1 => i - 1 \in DOMAIN next /\ a[i] = next[i - 1]
      BY <1>9, <2>5, StepBefore
    <2>7. todo' = a \o Tail(todo)
      BY <1>1, <1>2, <1>3, <1>8, <1>12, <2>2, <2>3, <2>5
    <2>8. StepOK(x)'
      <3>1. ~Written(b)'
        <4>1. b # s
          BY <1>1, <1>2, <2>2, HeadStep DEF Placings
        <4> QED BY <1>7, <2>2, <4>1, SlotFacts
      <3> QED BY <1>1, <2>2, <2>4, <3>1 DEF StepOK, Placings, Listed
    <2>9. \A i \in DOMAIN a : StepOK(a[i])' /\ (i # 1 => a[i].op = "seen" /\ "DELIMITER" \notin a[i].status)
      <3> SUFFICES ASSUME NEW i \in DOMAIN a
                   PROVE  StepOK(a[i])' /\ (i # 1 => a[i].op = "seen" /\ "DELIMITER" \notin a[i].status)
        OBVIOUS
      <3>1. CASE i = 1
        BY <2>6, <2>8, <3>1
      <3>2. CASE i # 1
        BY <1>4, <1>9, <1>11, <2>6, <3>2
      <3> QED BY <3>1, <3>2
    <2>10. a[1].op = "or" /\ a[1].slot = b
      BY <2>4, <2>6
    <2>11. StepsOK(todo)' /\ ~SeenToken'
      <3>1. \A i \in DOMAIN a : a[i].op \in Placings => i = 1 /\ a[i].slot = b
        BY <2>9, <2>10 DEF Placings
      <3>2. \A i \in DOMAIN a : ~(a[i].op = "seen" /\ "DELIMITER" \in a[i].status)
        BY <2>9, <2>10
      <3>3. /\ \A i, j \in DOMAIN a :
                 a[i].op \in Placings /\ a[j].op \in Placings /\ a[i].slot = a[j].slot => i = j
            /\ \A i \in DOMAIN a, j \in DOMAIN todo :
                 a[i].op \in Placings /\ todo[j].op \in Placings /\ j # 1
                   => a[i].slot # todo[j].slot
        BY <2>2, <3>1
      <3>4. /\ \A p \in Positions : Written(p) => Written(p)'
            /\ \A p \in Positions : Written(p)' =>
                 Written(p) \/ (Head(todo).op \in Placings /\ p = Head(todo).slot)
        BY <1>1, <1>2, <1>7 DEF Placings
      <3>5. todo # <<>> /\ UNCHANGED <<kind, position>> /\ \A i \in DOMAIN a : StepOK(a[i])'
        BY <1>1, <2>9
      <3> QED BY ONLY OrderInv, <2>6, <2>7, <3>2, <3>3, <3>4, <3>5, StepsGoOn
    <2>12. HeldBack'
      BY <1>1, <1>12 DEF HeldBack
    <2> QED BY <2>11, <2>12
  <1>13. ASSUME ~release
         PROVE  /\ StepsOK(todo)' /\ ~SeenToken'
                /\ HeldBack'
    <2>1. todo' = next \o Tail(todo) /\ writeBatchStart' = writeBatchStart
      <3>1. next \o Tail(todo) = <<>> \o next \o Tail(todo)
        BY <1>9
      <3> QED BY <1>1, <1>2, <1>3, <1>8, <1>13, <3>1
    <2>2. \A i \in DOMAIN next : i = 1 /\ "DELIMITER" \notin next[i].status
      BY <1>4, <1>9
    <2>3. StepsOK(todo)' /\ ~SeenToken'
      BY <1>1, <1>2, <1>7, <1>9, <1>11, <2>1, <2>2, StepsGoOn DEF Placings
    <2>4. HeldBack'
      BY <1>1, <1>2, <1>7, <1>9, <1>11, <2>1, HeldBackStays DEF Placings
    <2> QED BY <2>3, <2>4
  <1>14. StepsOK(todo)' /\ ~SeenToken' /\ HeldBack'
    BY <1>12, <1>13
  <1>15. Placement'
    <2>1. kind[s] # "none"
      BY <1>4 DEF Listed
    <2>2. \A r \in Slots : Written(r)' => Written(r) \/ kind[r] # "none"
      BY <1>7, <2>1, SlotFacts
    <2> QED BY <1>1, <1>14, <2>2, PlacementGoesOn
  <1> QED BY <1>1, <1>7, <1>14, <1>15, JavaScriptOnly

(* Steps that write no instruction and carry no status.                     *)
Plain(a) == \A i \in DOMAIN a : a[i].op \notin Placings \cup {"seen"}

LEMMA PlainConcat ==
  ASSUME NEW a \in Seq(JSSteps), NEW b \in Seq(JSSteps), Plain(a), Plain(b)
  PROVE  Plain(a \o b)
  <1> SUFFICES ASSUME NEW i \in DOMAIN (a \o b)
               PROVE  (a \o b)[i].op \notin Placings \cup {"seen"}
    BY DEF Plain
  <1>1. Len(a) \in Nat /\ Len(b) \in Nat /\ i \in 1..Len(a) + Len(b)
        /\ DOMAIN a = 1..Len(a) /\ DOMAIN b = 1..Len(b)
    OBVIOUS
  <1>2. CASE i <= Len(a)
    <2>1. (a \o b)[i] = a[i] /\ i \in DOMAIN a
      BY <1>1, <1>2
    <2> QED BY <2>1 DEF Plain
  <1>3. CASE i > Len(a)
    <2>1. (a \o b)[i] = b[i - Len(a)] /\ i - Len(a) \in DOMAIN b
      BY <1>1, <1>3
    <2> QED BY <2>1 DEF Plain
  <1> QED BY <1>1, <1>2, <1>3

LEMMA PlainSteps ==
  ASSUME OrderInv, NEW a \in Seq(JSSteps), Plain(a), todo # <<>>, todo' = a \o Tail(todo),
         UNCHANGED <<word, placing, batching, resolutions>>
  PROVE  Placement' /\ ~SeenToken'
  <1>1. UNCHANGED <<position, kind, resolutions, batchDepth, blocks, turn, writtenBatchDepth,
                    group, writeBatchStart>> /\ UNCHANGED word
    BY DEF placing, batching
  <1>2. \A i \in DOMAIN a : /\ a[i].op \notin Placings /\ a[i].op # "seen"
                            /\ a[i].op \notin {"load", "store"}
    BY DEF Plain, Placings
  <1>3. \A i \in DOMAIN a : StepOK(a[i])'
    <2> SUFFICES ASSUME NEW i \in DOMAIN a PROVE StepOK(a[i])'
      OBVIOUS
    <2> QED BY <1>2 DEF StepOK
  <1>4. StepsOK(todo)' /\ ~SeenToken'
    BY <1>1, <1>2, <1>3, StepsGoOn DEF Written
  <1>5. HeldBack'
    BY <1>1, <1>2, HeldBackStays DEF Written
  <1> QED BY <1>1, <1>4, <1>5, PlacementGoesOn DEF Written

(* The token goes to startAddress, or to the worker launched there.         *)
LEMMA TokenTo ==
  ASSUME OrderInv, UNCHANGED <<word, position, kind, resolutions, log, txnOf>>,
         Placement', ~SeenToken', NEW start \in {0} \cup Slots,
         start # 0 => /\ Frontier(start) /\ Nest(start) = 0
                      /\ \A w \in Slots : ~Launched(w)
                      /\ \A p \in Positions : ~Free(p),
         \/ startAddress' = start /\ worker' = worker
         \/ startAddress' = 0 /\ StartWriting(start)
  PROVE  Token'
  <1>1. /\ OneToken /\ AtFrontier /\ Delimiters /\ WorkersKnow /\ Logged /\ InTxns /\ Inv
        /\ worker \in [Slots -> WorkerRecords] /\ 0 \notin Slots /\ Slots \subseteq Nat
    BY OrderTypes, SlotFacts DEF OrderInv, Token
  <1>2. \A p : Nest(p)' = Nest(p) /\ (Frontier(p)' <=> Frontier(p))
    BY SameNest, FrontierStays
  <1>3. \A p \in Positions : Free(p)' <=> Free(p)
    BY DEF Free, Written
  <1>4. Delimiters'
    BY <1>1, <1>2 DEF Delimiters
  <1>5. CASE worker' = worker /\ startAddress' \in {0, start}
    <2>1. \A w \in Slots : Launched(w)' <=> Launched(w)
      BY <1>5 DEF Launched
    <2>2. OneToken' /\ AtFrontier'
      BY <1>1, <1>2, <1>3, <1>5, <2>1 DEF OneToken, AtFrontier
    <2>3. WorkersKnow'
      <3> SUFFICES ASSUME NEW w \in Slots PROVE Knows(w)'
        BY DEF WorkersKnow
      <3>1. Knows(w) /\ worker[w].at \in Positions
        BY <1>1, OrderTypes DEF WorkersKnow
      <3> QED BY <1>5, <3>1, KnowsStays DEF Written
    <2>4. Logged' /\ InTxns'
      BY <1>1, <2>1, HistoryStays
    <2> QED BY <1>4, <2>2, <2>3, <2>4 DEF Token
  <1>6. CASE start # 0 /\ startAddress' = 0 /\ StartWriting(start)
    <2>1. /\ worker'[start] = WorkerAt("queued", start) /\ start \in Slots
          /\ \A w \in Slots : w # start => worker'[w] = worker[w]
      BY <1>1, <1>6 DEF StartWriting
    <2>2. worker'[start].pc = "queued" /\ worker'[start].at = start /\ worker'[start].depth = 0
      BY <2>1 DEF WorkerAt
    <2>3. /\ Frontier(start) /\ Nest(start) = 0 /\ \A w \in Slots : ~Launched(w)
          /\ \A p \in Positions : ~Free(p)
      BY <1>6
    <2>4. \A w \in Slots : Launched(w)' <=> w = start
      BY <2>1, <2>2, <2>3 DEF Launched
    <2>5. OneToken' /\ AtFrontier'
      BY <1>3, <1>6, <2>3, <2>4 DEF OneToken, AtFrontier
    <2>6. WorkersKnow'
      <3>1. ASSUME NEW w \in Slots, w # start PROVE Knows(w)'
        BY <2>4, <3>1 DEF Knows, Launched
      <3>2. Knows(start)'
        <4>1. FrontOf(start)' = start
          BY <2>2 DEF FrontOf
        <4>2. Frontier(FrontOf(start))' /\ Nest(FrontOf(start))' = 0 /\ Nest(start)' = 0
          BY <1>2, <2>3, <4>1
        <4>3. start <= worker'[start].at
          BY <1>1, <2>1, <2>2
        <4> QED BY ONLY <2>2, <4>2, <4>3 DEF Knows
      <3> QED BY <3>1, <3>2 DEF WorkersKnow
    <2>7. Logged'
      BY <1>1 DEF Logged, InOrder
    <2>8. InTxns'
      <3>1. /\ \A s \in Slots : txnOf[s] # 0 => txnOf[s] <= s /\ Nest(txnOf[s]) = 0
            /\ \A r, s \in Slots : txnOf[r] # 0 /\ txnOf[s] # 0 /\ txnOf[s] <= r /\ r <= s =>
                 txnOf[r] = txnOf[s]
        BY <1>1 DEF InTxns
      <3>2. ASSUME NEW s \in Slots, txnOf[s] # 0 PROVE ~(start <= s) /\ txnOf[s] # start
        <4>1. s < start
          BY <1>1, <2>3, <3>2 DEF Logged, Frontier
        <4>2. txnOf[s] \in Slots /\ txnOf[s] <= s
          BY <1>1, <3>1, <3>2, OrderTypes
        <4>3. s \in Nat /\ start \in Nat /\ txnOf[s] \in Nat
          BY <1>1, <2>1, <4>2
        <4> QED BY ONLY <4>1, <4>2, <4>3
      <3> QED BY <1>2, <2>4, <3>1, <3>2 DEF InTxns
    <2> QED BY <1>4, <2>5, <2>6, <2>7, <2>8 DEF Token
  <1>7. CASE start = 0 /\ startAddress' = 0 /\ StartWriting(start)
    <2>1. worker' = worker
      BY <1>1, <1>7 DEF StartWriting
    <2> QED BY <1>5, <1>7, <2>1
  <1> QED BY <1>5, <1>6, <1>7

(* An or that finds the DELIMITER in the word takes the token.              *)
LEMMA OrOrder ==
  ASSUME OrderInv, Or
  PROVE  Placement' /\ Token'
  <1>1. /\ todo # <<>> /\ Head(todo).op = "or"
        /\ todo' = AfterStore(Head(todo).slot, word[Head(todo).slot]) \o Tail(todo)
        /\ word' = [word EXCEPT ![Head(todo).slot] = @ \cup {"INSTR"}]
        /\ UNCHANGED <<position, kind, resolutions, batchDepth, blocks, turn, writtenBatchDepth,
                       group, writeBatchStart>>
        /\ UNCHANGED <<worker, startAddress, log, txnOf>>
    BY DEF Or, Doing, placing, batching, writing, history, starting
  <1>2. PICK s \in Slots : s = Head(todo).slot
    BY <1>1, HeadStep DEF Placings
  <1>3. /\ word \in [Positions -> SUBSET Bits] /\ Delimiters /\ s \in Positions
        /\ OneToken /\ AtFrontier /\ WorkersKnow /\ Logged /\ InTxns /\ Nested
    BY OrderTypes, SlotFacts DEF OrderInv, Token, Placement
  <1>4. PICK st \in SUBSET Bits : st = word[s]
    BY <1>3
  <1>5. /\ s < position /\ ~Written(s) /\ kind[s] \in Listed \cup {"end"}
    BY <1>1, <1>2, HeadStep DEF StepOK, Placings
  <1>6. \A p \in Positions : word'[p] = IF p = s THEN st \cup {"INSTR"} ELSE word[p]
    BY <1>1, <1>2, <1>3, <1>4
  <1>7. /\ \A p \in Positions : Written(p)' <=> Written(p) \/ p = s
        /\ \A p \in Positions : "DELIMITER" \in word'[p] <=> "DELIMITER" \in word[p]
    BY <1>4, <1>5, <1>6 DEF Written
  <1>8. "DELIMITER" \in st => Nest(s) = 0 /\ kind[s] # "end" /\ Free(s)
    <2> SUFFICES ASSUME "DELIMITER" \in st PROVE Nest(s) = 0 /\ kind[s] # "end" /\ Free(s)
      OBVIOUS
    <2>1. Nest(s) = 0 /\ Free(s)
      BY <1>3, <1>4, <1>5 DEF Delimiters, Free
    <2> QED BY <1>3, <2>1 DEF Nested
  <1>9. PICK next : next = AfterStore(s, st)
    OBVIOUS
  <1>10. /\ next \in Seq(JSSteps)
         /\ kind[s] = "end" => next = <<>>
         /\ kind[s] # "end" => /\ DOMAIN next = {1} /\ next[1].op = "seen"
                               /\ next[1].slot = s /\ next[1].status = st
    BY <1>9, SeenFollows
  <1>11. \A p : Nest(p)' = Nest(p) /\ (Frontier(p)' <=> Frontier(p))
    BY <1>1, SameNest, FrontierStays
  <1>12. \A i \in DOMAIN next : /\ i = 1 /\ next[i].op = "seen" /\ StepOK(next[i])'
                                /\ next[i].slot = s /\ next[i].status = st
    <2> SUFFICES ASSUME NEW i \in DOMAIN next
                 PROVE  /\ i = 1 /\ next[i].op = "seen" /\ StepOK(next[i])'
                        /\ next[i].slot = s /\ next[i].status = st
      OBVIOUS
    <2>1. kind[s] # "end" /\ i = 1
      BY <1>10
    <2>2. kind[s] \in Listed
      BY <1>5, <2>1
    <2> QED BY <1>1, <1>3, <1>7, <1>8, <1>10, <1>11, <2>1, <2>2 DEF StepOK, Placings
  <1>13. todo' = next \o Tail(todo)
    BY <1>1, <1>2, <1>4, <1>9
  <1>14. /\ StepsOK(todo)'
         /\ SeenToken' => 1 \in DOMAIN next /\ "DELIMITER" \in next[1].status
    BY <1>1, <1>2, <1>7, <1>10, <1>12, <1>13, StepsGoOn DEF Placings
  <1>15. HeldBack'
    BY <1>1, <1>2, <1>7, <1>10, <1>12, <1>13, HeldBackStays DEF Placings
  <1>16. Placement'
    <2>1. kind[s] # "none"
      BY <1>5 DEF Listed
    <2>2. \A r \in Slots : Written(r)' => Written(r) \/ kind[r] # "none"
      BY <1>7, <2>1, SlotFacts
    <2> QED BY <1>1, <1>14, <1>15, <2>2, PlacementGoesOn
  <1>17. CASE ~SeenToken'
    BY <1>1, <1>7, <1>16, <1>17, JavaScriptOnly
  <1>18. CASE SeenToken'
    <2>1. "DELIMITER" \in st /\ 1 \in DOMAIN next
      BY <1>12, <1>14, <1>18
    <2>2. Free(s) /\ Nest(s) = 0
      BY <1>8, <2>1
    <2>3. /\ \A w \in Slots : ~Launched(w)
          /\ \A p \in Positions : Free(p) => p = s
          /\ startAddress = 0
      BY <1>3, <2>2 DEF OneToken
    <2>4. /\ \A w \in Slots : ~Launched(w)' /\ Knows(w)'
          /\ \A p \in Positions : ~Free(p)'
          /\ startAddress' = 0
      BY <1>1, <1>7, <2>3 DEF Launched, Free, Knows
    <2>5. Head(todo').slot = s
      <3>1. PICK b : b = todo'
        OBVIOUS
      <3>2. b \in Seq(JSSteps) /\ b # <<>>
        <4>1. b # <<>>
          BY <1>18, <3>1 DEF SeenToken, Doing
        <4>2. Tail(todo) \in Seq(JSSteps)
          BY <1>1, OrderTypes DEF OrderInv
        <4> QED BY <1>10, <1>13, <3>1, <4>1, <4>2, Concat
      <3>3. b[1] = next[1] /\ Head(b) = b[1]
        <4>1. todo \in Seq(JSSteps)
          BY OrderTypes DEF OrderInv
        <4>2. 1 \in DOMAIN b /\ Head(b) = b[1]
          BY <3>2
        <4> QED BY <1>1, <1>10, <1>13, <2>1, <3>1, <4>1, <4>2, ReplaceHead
      <3> QED BY <1>12, <2>1, <3>1, <3>3
    <2>6. Frontier(s)'
      BY <1>3, <1>11, <2>2 DEF AtFrontier
    <2>7. OneToken' /\ AtFrontier'
      <3>1. Frontier(Head(todo).slot)'
        BY <2>5, <2>6
      <3> QED BY <2>4, <3>1 DEF OneToken, AtFrontier
    <2>8. Delimiters'
      BY <1>1, <1>3, <1>7, <1>11 DEF Delimiters
    <2>9. WorkersKnow'
      BY <2>4 DEF WorkersKnow
    <2>10. Logged' /\ InTxns'
      BY <1>1, <1>3, <2>4, HistoryStays
    <2> QED BY <1>16, <2>7, <2>8, <2>9, <2>10 DEF Token
  <1> QED BY <1>16, <1>17, <1>18

(* The closure of writeInstructions passes the token on to startAddress or  *)
(* to the worker it launches.                                               *)
LEMMA SeenOrder ==
  ASSUME OrderInv, Seen
  PROVE  Placement' /\ Token'
  <1> DEFINE begins == Has(Head(todo).status, "DELIMITER")
             start == IF begins /\ startAddress = 0 THEN Head(todo).slot ELSE startAddress
             count == outstandingWriteCount + 1
             startNow == start # 0 /\ (EventTurnBatching
                                       \/ (enqueuedCommit /\ count > TxnStartThreshold))
             loops == IF count % ResolveEvery = 0 THEN Resolve ELSE <<>>
  <1>1. /\ todo # <<>> /\ Head(todo).op = "seen"
        /\ todo' = loops \o <<Step("promise", Head(todo).slot, {})>> \o Tail(todo)
        /\ UNCHANGED <<word, placing, batching, resolutions>>
        /\ UNCHANGED <<position, kind, log, txnOf>>
        /\ startAddress' = IF startNow THEN 0 ELSE start
        /\ IF startNow THEN StartWriting(start) ELSE UNCHANGED worker
    BY DEF Seen, Doing, placing, history, shared
  <1>2. PICK s \in Slots : s = Head(todo).slot
    BY <1>1, HeadStep DEF Placings
  <1>3. OneToken /\ AtFrontier /\ startAddress \in {0} \cup Slots /\ Slots \subseteq Positions
    BY OrderTypes DEF OrderInv, Token
  <1>4. PICK from \in {0} \cup Slots : from = start
    BY <1>2, <1>3
  <1>5. from # 0 => /\ Frontier(from) /\ Nest(from) = 0
                    /\ \A w \in Slots : ~Launched(w)
                    /\ \A p \in Positions : ~Free(p)
    <2>1. CASE begins
      <3>1. SeenToken
        BY <1>1, <2>1 DEF SeenToken, Doing, Has
      <3>2. startAddress = 0 /\ (\A w \in Slots : ~Launched(w)) /\ \A p \in Positions : ~Free(p)
        BY <1>3, <3>1 DEF OneToken
      <3>3. from = s /\ Frontier(s)
        BY <1>2, <1>3, <1>4, <2>1, <3>1, <3>2 DEF AtFrontier
      <3>4. Nest(s) = 0
        BY <1>1, <1>2, <2>1, HeadStep DEF StepOK, Has
      <3> QED BY <3>2, <3>3, <3>4
    <2>2. CASE ~begins
      <3>1. from = startAddress
        BY <1>4, <2>2
      <3> QED BY <1>3, <3>1 DEF OneToken, AtFrontier
    <2> QED BY <2>1, <2>2
  <1>6. PICK x \in Seq(JSSteps) : x = loops
    <2>1. loops \in Seq(JSSteps)
      BY StepTypes
    <2> QED BY <2>1
  <1>7. PICK y \in Seq(JSSteps) : y = <<Step("promise", s, {})>>
    <2>1. Step("promise", s, {}) \in JSSteps
      BY StepTypes
    <2>2. <<Step("promise", s, {})>> \in Seq(JSSteps)
      BY <2>1
    <2> QED BY ONLY <2>2, Zenon
  <1>8. Plain(x) /\ Plain(y)
    <2>1. Plain(<<>>)
      BY DEF Plain
    <2>2. Plain(Resolve)
      BY DEF Plain, Resolve, Step, Placings
    <2>3. DOMAIN y = {1} /\ y[1].op = "promise"
      BY <1>7 DEF Step
    <2>4. Plain(y)
      BY <2>3 DEF Plain, Placings
    <2>5. Plain(x)
      BY <1>6, <2>1, <2>2
    <2> QED BY <2>4, <2>5
  <1>9. PICK a \in Seq(JSSteps) : a = x \o y
    BY Concat
  <1>10. Plain(a)
    BY <1>8, <1>9, PlainConcat
  <1>11. todo' = a \o Tail(todo)
    BY <1>1, <1>2, <1>6, <1>7, <1>9
  <1>12. Placement' /\ ~SeenToken'
    BY <1>1, <1>10, <1>11, PlainSteps
  <1>13. \/ startAddress' = from /\ worker' = worker
         \/ startAddress' = 0 /\ StartWriting(from)
    <2>1. startAddress' = IF startNow THEN 0 ELSE from
      BY <1>1, <1>4
    <2>2. IF startNow THEN StartWriting(from) ELSE worker' = worker
      BY <1>1, <1>4
    <2> HIDE DEF startNow
    <2> QED BY <2>1, <2>2
  <1> QED BY ONLY OrderInv, <1>1, <1>5, <1>12, <1>13, TokenTo

LEMMA JavaScriptStepOrder ==
  ASSUME OrderInv, JavaScriptStep
  PROVE  Placement' /\ Token'
  <1>1. CASE ReturnPromise
    BY <1>1, StepEnds DEF ReturnPromise, Doing, shared, starting, writing, history
  <1>2. ASSUME AdvanceUnwritten \/ SettleTxn PROVE Placement' /\ Token'
    <2>1. /\ todo # <<>> /\ Head(todo).op # "seen"
          /\ todo' = todo \/ todo' = Tail(todo)
          /\ UNCHANGED <<word, placing, batching, resolutions, startAddress, log, txnOf, worker>>
      BY <1>2 DEF AdvanceUnwritten, SettleTxn, Doing, shared, starting, writing, history
    <2> QED BY <2>1, StepEnds, StepRepeats
  <1>3. CASE RunCallbacks
    BY <1>3, StepEnds DEF RunCallbacks, Doing, starting, writing, history
  <1> QED BY <1>1, <1>2, <1>3, LoadOrder, StoreOrder, OrOrder, SeenOrder DEF JavaScriptStep

-----------------------------------------------------------------------------
(* The events.                                                              *)

(* A call that begins without writing an instruction.                       *)
LEMMA PlainCall ==
  ASSUME OrderInv, NEW b \in Seq(JSSteps), todo' = b, Plain(b),
         UNCHANGED <<word, placing, batching, resolutions>>
  PROVE  Placement' /\ ~SeenToken'
  <1>1. UNCHANGED <<position, kind, resolutions, batchDepth, blocks, turn, writtenBatchDepth,
                    group, writeBatchStart>> /\ UNCHANGED word
    BY DEF placing, batching
  <1>2. \A i \in DOMAIN b : /\ b[i].op \notin Placings /\ b[i].op # "seen"
                            /\ b[i].op \notin {"load", "store"}
    BY DEF Plain, Placings
  <1>3. \A i \in DOMAIN b : StepOK(b[i])'
    <2> SUFFICES ASSUME NEW i \in DOMAIN b PROVE StepOK(b[i])'
      OBVIOUS
    <2> QED BY <1>2 DEF StepOK
  <1>4. StepsOK(todo)'
    BY <1>2, <1>3 DEF StepsOK
  <1>5. HeldBack'
    <2>1. HeldBack /\ (writeBatchStart = 0 \/ writeBatchStart \in Positions)
      BY SlotFacts DEF OrderInv, Placement, Inv, TypeInv, TypeOK, TypeBatching
    <2>2. Outermost' = Outermost
      BY <1>1 DEF Outermost
    <2> QED BY <1>1, <1>2, <2>1, <2>2 DEF HeldBack, Written
  <1>6. ~SeenToken'
    <2> SUFFICES ASSUME b # <<>>, Head(b).op = "seen" PROVE FALSE
      BY DEF SeenToken, Doing
    <2>1. 1 \in DOMAIN b /\ b[1] = Head(b)
      OBVIOUS
    <2> QED BY <1>2, <2>1
  <1> QED BY <1>1, <1>4, <1>5, <1>6, PlacementGoesOn DEF Written

LEMMA PlainResolve ==
  /\ Plain(<<>>) /\ Plain(Resolve)
  /\ \A w \in Slots : Plain(<<Step("callbacks", w, {})>>)
  <1>1. Plain(<<>>)
    BY DEF Plain
  <1>2. Plain(Resolve)
    BY DEF Plain, Resolve, Step, Placings
  <1>3. ASSUME NEW w \in Slots PROVE Plain(<<Step("callbacks", w, {})>>)
    BY DEF Plain, Step, Placings
  <1> QED BY <1>1, <1>2, <1>3

LEMMA CommitTimerOrder ==
  ASSUME OrderInv, CommitTimer
  PROVE  Placement' /\ Token'
  <1>1. /\ todo' = <<>> /\ startAddress' = 0 /\ StartWriting(startAddress)
        /\ UNCHANGED <<word, placing, batching, resolutions>>
        /\ UNCHANGED <<position, kind, log, txnOf>>
    BY DEF CommitTimer, shared, placing, history
  <1>2. Placement' /\ ~SeenToken'
    <2>1. PICK b \in Seq(JSSteps) : b = <<>>
      <3>1. <<>> \in Seq(JSSteps)
        OBVIOUS
      <3> QED BY ONLY <3>1, Zenon
    <2>2. Plain(b) /\ todo' = b
      BY <1>1, <2>1, PlainResolve
    <2> QED BY <1>1, <2>2, PlainCall
  <1>3. PICK start \in {0} \cup Slots : start = startAddress
    BY OrderTypes DEF OrderInv
  <1>4. start # 0 => /\ Frontier(start) /\ Nest(start) = 0
                     /\ \A w \in Slots : ~Launched(w)
                     /\ \A p \in Positions : ~Free(p)
    BY <1>3 DEF OrderInv, Token, OneToken, AtFrontier
  <1>5. StartWriting(start)
    BY <1>1, <1>3
  <1> QED BY ONLY OrderInv, <1>1, <1>2, <1>4, <1>5, TokenTo

LEMMA CompletionOrder ==
  ASSUME OrderInv, NEW w \in Slots, Completion(w)
  PROVE  Placement' /\ Token'
  <1>1. worker \in [Slots -> WorkerRecords]
    BY OrderTypes DEF OrderInv
  <1>2. /\ UNCHANGED <<word, placing, batching, resolutions>>
        /\ UNCHANGED <<position, kind, startAddress, log, txnOf>>
        /\ todo' = Resolve \o <<>>
        /\ worker' = [worker EXCEPT ![w].pc = "done"]
    BY DEF Completion, ObserveTxn, shared, placing, starting, history
  <1>3. PICK b \in Seq(JSSteps) : b = Resolve
    BY StepTypes
  <1>4. todo' = b /\ Plain(b)
    BY <1>2, <1>3, PlainResolve
  <1>5. Placement' /\ ~SeenToken'
    BY <1>2, <1>4, PlainCall
  <1>6. worker'[w].pc = "done" /\ \A v \in Slots : v # w => worker'[v] = worker[v]
    BY <1>1, <1>2 DEF WorkerRecords
  <1>7. \A v \in Slots : \/ /\ worker'[v].at = worker[v].at /\ worker'[v].pc = worker[v].pc
                            /\ worker'[v].depth = worker[v].depth
                            /\ worker'[v].read = worker[v].read
                         \/ ~Launched(v)'
    BY <1>6 DEF Launched
  <1> QED BY <1>2, <1>5, <1>7, JavaScriptOnly DEF Written

LEMMA ProgressOrder ==
  ASSUME OrderInv, NEW w \in Slots, Progress(w)
  PROVE  Placement' /\ Token'
  <1>1. worker \in [Slots -> WorkerRecords]
    BY OrderTypes DEF OrderInv
  <1>2. /\ UNCHANGED <<word, placing, batching, resolutions>>
        /\ UNCHANGED <<position, kind, startAddress, log, txnOf>>
        /\ todo' = Resolve \o <<Step("callbacks", w, {})>>
        /\ worker' = [worker EXCEPT ![w].finishedProgress = TRUE]
    BY DEF Progress, ObserveTxn, placing, starting, history
  <1>3. PICK c \in Seq(JSSteps) : c = <<Step("callbacks", w, {})>>
    <2>1. Step("callbacks", w, {}) \in JSSteps
      BY StepTypes
    <2>2. <<Step("callbacks", w, {})>> \in Seq(JSSteps)
      BY <2>1
    <2> QED BY ONLY <2>2, Zenon
  <1>4. PICK r \in Seq(JSSteps) : r = Resolve
    BY StepTypes
  <1>5. PICK b \in Seq(JSSteps) : b = r \o c
    BY Concat
  <1>6. Plain(b)
    BY <1>3, <1>4, <1>5, PlainResolve, PlainConcat
  <1>7. Placement' /\ ~SeenToken'
    BY <1>2, <1>3, <1>4, <1>5, <1>6, PlainCall
  <1>8. \A v \in Slots : /\ worker'[v].at = worker[v].at /\ worker'[v].pc = worker[v].pc
                         /\ worker'[v].depth = worker[v].depth
                         /\ worker'[v].read = worker[v].read
    BY <1>1, <1>2 DEF WorkerRecords
  <1> QED BY <1>2, <1>7, <1>8, JavaScriptOnly DEF Written

-----------------------------------------------------------------------------
(* The calls that place instructions.                                       *)

(* New slots lie behind the token, and behind what was processed.           *)
LEMMA NewSlots ==
  ASSUME OrderInv, position' \in Nat, position <= position',
         \A s \in Slots : s < position => kind'[s] = kind[s],
         \A p \in Positions : \/ word'[p] = word[p]
                              \/ position < p /\ word'[p] = {"INSTR"},
         UNCHANGED <<log, txnOf, worker, startAddress>>, ~SeenToken',
         NEW list \in Seq(Slots), resolutions' = list, Len(resolutions) <= Len(list),
         \A i \in DOMAIN resolutions : list[i] = resolutions[i],
         \A i \in DOMAIN list : i > Len(resolutions) => position <= list[i]
  PROVE  Token'
  <1>1. /\ OneToken /\ AtFrontier /\ Delimiters /\ WorkersKnow /\ Logged /\ InTxns
        /\ Inv /\ FreshSlots
    BY DEF OrderInv, Token, Placement
  <1>2. /\ position \in Nat /\ Slots \subseteq Nat /\ Positions \subseteq Nat
        /\ Slots \subseteq Positions /\ txnOf \in [Slots -> {0} \cup Slots]
        /\ resolutions \in Seq(Slots) /\ log \in Seq(Slots) /\ startAddress \in {0} \cup Slots
    BY <1>1, OrderTypes
  <1>3. \A p \in Nat : p <= position => Nest(p)' = Nest(p)
    <2> SUFFICES ASSUME NEW p \in Nat, p <= position PROVE Nest(p)' = Nest(p)
      OBVIOUS
    <2>1. \A s \in Slots : s < p => kind'[s] = kind[s]
      BY <1>2
    <2> QED BY <2>1, NestStays
  <1>4. \A s \in Slots : position <= s => kind[s] = "none" /\ txnOf[s] = 0
    BY <1>1 DEF FreshSlots, Logged, Listed
  <1>5. ASSUME NEW p \in Positions, Frontier(p) PROVE Frontier(p)'
    <2>1. p <= position /\ p \in Nat
      BY <1>2, <1>5 DEF Frontier
    <2>2. ASSUME NEW s \in Slots, kind'[s] \in Listed PROVE s < p <=> txnOf[s] # 0
      <3>1. CASE s < position
        BY <1>5, <2>2, <3>1 DEF Frontier
      <3>2. CASE ~(s < position)
        <4>1. position <= s /\ ~(s < p)
          BY <1>2, <2>1, <3>2
        <4> QED BY <1>4, <4>1
      <3> QED BY <3>1, <3>2
    <2> QED BY <1>2, <2>1, <2>2 DEF Frontier

  <1>6. /\ \A w \in Slots : Launched(w)' <=> Launched(w)
        /\ \A p \in Positions : Free(p)' => Free(p)
    BY DEF Launched, Free, Written
  <1>7. OneToken'
    BY ONLY <1>1, <1>6, ~SeenToken', startAddress' = startAddress, OneTokenStays
  <1>8. AtFrontier'
    <2>1. \A p \in Positions : Free(p)' => Frontier(p)'
      BY <1>1, <1>5, <1>6 DEF AtFrontier
    <2>2. PICK s \in {0} \cup Slots : s = startAddress
      BY <1>2
    <2>3. s # 0 => Frontier(s) /\ Nest(s) = 0 /\ s \in Positions /\ s \in Nat
      BY <1>1, <1>2, <2>2 DEF AtFrontier
    <2>4. s # 0 => Frontier(s)' /\ Nest(s)' = 0
      <3>1. s # 0 => s <= position
        BY <2>3 DEF Frontier
      <3> QED BY <1>3, <1>5, <2>3, <3>1
    <2> QED BY <2>1, <2>2, <2>4 DEF AtFrontier
  <1>9. Delimiters'
    <2> SUFFICES ASSUME NEW p \in Positions, "DELIMITER" \in word'[p]
                 PROVE  p <= position' /\ Nest(p)' = 0
      BY DEF Delimiters
    <2>1. "DELIMITER" \in word[p] /\ p \in Nat
      BY <1>2
    <2>2. p <= position /\ Nest(p) = 0
      BY <1>1, <2>1 DEF Delimiters
    <2> QED BY <1>2, <1>3, <2>1, <2>2
  <1>10. WorkersKnow'
    <2> SUFFICES ASSUME NEW w \in Slots, Launched(w) PROVE Knows(w)'
      BY <1>6 DEF WorkersKnow, Knows, Launched
    <2>1. Knows(w) /\ worker[w].at \in Positions
      BY <1>1, OrderTypes DEF WorkersKnow
    <2>2. PICK f : f = FrontOf(w)
      OBVIOUS
    <2>3. FrontOf(w)' = f
      BY <2>2 DEF FrontOf
    <2>4. Frontier(f) /\ worker[w].depth = Nest(f) /\ w <= worker[w].at /\ Nest(w) = 0
      BY <2>1, <2>2 DEF Knows
    <2>5. f <= position
      BY <2>4 DEF Frontier
    <2>6. worker[w].at <= f /\ worker[w].at \in Nat
      BY <1>2, <2>1, <2>2 DEF FrontOf
    <2>7. f \in Nat /\ w \in Nat
      <3>1. f = worker[w].at \/ f = worker[w].at + 1
        BY <2>2 DEF FrontOf
      <3> QED BY <1>2, <2>6, <3>1
    <2>8. w <= position /\ Nest(w)' = 0 /\ Nest(f)' = Nest(f)
      <3>1. w <= position
        BY ONLY <1>2, <2>4, <2>5, <2>6, <2>7
      <3> QED BY <1>3, <2>4, <2>5, <2>7, <3>1
    <2>9. worker[w].pc = "mark" =>
            /\ "INSTR" \in worker'[w].read /\ Written(worker[w].at)'
            /\ "DELIMITER" \in worker'[w].read => "DELIMITER" \in word'[worker'[w].at]
      <3> SUFFICES ASSUME worker[w].pc = "mark"
                   PROVE  /\ "INSTR" \in worker'[w].read /\ Written(worker[w].at)'
                          /\ "DELIMITER" \in worker'[w].read => "DELIMITER" \in word'[worker'[w].at]
        OBVIOUS
      <3>1. Written(worker[w].at)
        BY <2>1 DEF Knows
      <3>2. worker[w].at < position
        BY <1>1, <2>1, <3>1, WrittenIsPlaced
      <3>3. word'[worker[w].at] = word[worker[w].at]
        BY <1>2, <2>1, <2>6, <3>2
      <3> QED BY <2>1, <3>1, <3>3 DEF Knows, Written
    <2>10. worker'[w].pc = "empty" => "INSTR" \notin worker'[w].read
      BY <2>1 DEF Knows
    <2>11. Frontier(f)'
      <3>1. f \in Positions
        BY <1>2, <2>1, <2>2, <2>5, SlotFacts, OrderTypes, <1>1 DEF FrontOf, Positions
      <3> QED BY <1>5, <2>4, <3>1
    <2>12. Frontier(FrontOf(w))' /\ worker'[w].depth = Nest(FrontOf(w))'
      BY <2>3, <2>4, <2>8, <2>11
    <2>13. w <= worker'[w].at /\ worker'[w].pc = worker[w].pc
      BY <2>4
    <2> QED BY ONLY <2>8, <2>9, <2>10, <2>12, <2>13 DEF Knows
  <1>11. Len(log) <= Len(resolutions) /\ Len(log) \in Nat /\ Len(resolutions) \in Nat
         /\ DOMAIN log = 1..Len(log) /\ DOMAIN resolutions = 1..Len(resolutions)
         /\ DOMAIN list = 1..Len(list) /\ Len(list) \in Nat
    BY <1>1, <1>2 DEF Logged, InOrder
  <1>12. Logged'
    <2>1. InOrder'
      BY <1>1, <1>11 DEF Logged, InOrder
    <2>2. ASSUME NEW i \in DOMAIN list PROVE txnOf[list[i]] # 0 <=> i <= Len(log)
      <3>1. CASE i <= Len(resolutions)
        BY <1>1, <1>11, <3>1 DEF Logged
      <3>2. CASE ~(i <= Len(resolutions))
        <4>1. position <= list[i] /\ list[i] \in Slots /\ ~(i <= Len(log))
          BY <1>11, <3>2
        <4> QED BY <1>4, <4>1
      <3> QED BY <3>1, <3>2
    <2>3. \A s \in Slots : txnOf[s] # 0 => kind'[s] \in Listed
      <3> SUFFICES ASSUME NEW s \in Slots, txnOf[s] # 0 PROVE kind'[s] \in Listed
        OBVIOUS
      <3>1. ~(position <= s) /\ kind[s] \in Listed
        BY <1>1, <1>4 DEF Logged
      <3>2. s < position
        BY <1>2, <3>1
      <3> QED BY <3>1, <3>2
    <2> QED BY <2>1, <2>2, <2>3 DEF Logged
  <1>13. InTxns'
    <2>1. ASSUME NEW s \in Slots, txnOf[s] # 0 PROVE txnOf[s] <= s /\ Nest(txnOf[s])' = 0
      <3>1. PICK t \in Slots : t = txnOf[s]
        BY <1>2, <2>1
      <3>2. t <= s /\ Nest(t) = 0
        BY <1>1, <2>1, <3>1 DEF InTxns
      <3>3. ~(position <= s) /\ s \in Nat /\ t \in Nat
        BY <1>2, <1>4, <2>1
      <3>4. Nest(t)' = 0
        <4>1. t <= position
          BY ONLY <1>2, <3>2, <3>3
        <4> QED BY <1>3, <3>2, <3>3, <4>1
      <3> QED BY <3>1, <3>2, <3>4
    <2> QED BY <1>1, <1>6, <2>1 DEF InTxns
  <1> QED BY <1>7, <1>8, <1>9, <1>10, <1>12, <1>13 DEF Token

(* What writeInstructions places: the instruction in slot s, the start of   *)
(* the event turn in the next slot if it opens one, and pointers.           *)
Places(k, s, opens, pointers) ==
  /\ s \in Slots /\ opens \in BOOLEAN /\ position <= s /\ s < position' /\ position' \in Positions
  /\ IF opens THEN position \in Slots /\ position < s /\ turn = 0 /\ batchDepth = 0
     ELSE s = position
  /\ \A q \in pointers : position < q /\ q # s /\ q < position'
  /\ \A q \in Slots : kind'[q] = IF q = s THEN k
                                 ELSE IF opens /\ q = position THEN "start"
                                 ELSE IF q \in pointers THEN "pointer" ELSE kind[q]
  /\ \A q \in Positions : word'[q] = IF q \in pointers THEN {"INSTR"} ELSE word[q]
  /\ \A q \in Slots : writtenBatchDepth'[q] =
       IF q = s THEN (IF opens THEN 1 ELSE batchDepth) ELSE writtenBatchDepth[q]
  /\ \A q \in Slots : group'[q] =
       IF q = s \/ (opens /\ q = position)
       THEN IF opens THEN position ELSE IF batchDepth > 0 THEN Outermost ELSE s
       ELSE group[q]
  /\ resolutions' = resolutions \o (IF opens THEN <<position, s>> ELSE <<s>>)
  /\ turn' = IF opens THEN position ELSE turn

LEMMA ReservePlaces ==
  ASSUME OrderInv, NEW k \in {"write", "callback", "start"}, NEW own \in BOOLEAN,
         NEW startFull \in BOOLEAN, NEW full \in BOOLEAN, NEW more \in Nat,
         Fits(Place(startFull, full), more), Reserve(k, own, Place(startFull, full))
  PROVE  LET place == Place(startFull, full)
         IN Places(k, place.slot, place.opensTurn, place.pointers)
  <1> DEFINE place == Place(startFull, full)
             opensTurn == EventTurnBatching /\ turn = 0 /\ batchDepth = 0
             slot == IF opensTurn THEN After(position, startFull) ELSE position
             pointers == (IF opensTurn /\ startFull THEN {position + 1} ELSE {})
                         \cup (IF full THEN {slot + 1} ELSE {})
  <1>1. place = [opensTurn |-> opensTurn, slot |-> slot, next |-> After(slot, full),
                 depth |-> IF opensTurn THEN 1 ELSE batchDepth, pointers |-> pointers]
    BY DEF Place
  <1>2. /\ place.opensTurn = opensTurn /\ place.slot = slot
        /\ place.next = After(slot, full) /\ place.pointers = pointers
        /\ place.depth = IF opensTurn THEN 1 ELSE batchDepth
    <2> HIDE DEF opensTurn, slot, pointers, place
    <2> QED BY <1>1
  <1>3. /\ position \in Nat \ {0} /\ TypeInv /\ Inv /\ blocks \in Seq(Slots)
        /\ turn \in {0} \cup Slots /\ batchDepth \in Nat /\ DepthOfBlocks
        /\ writtenBatchDepth \in [Slots -> Nat]
    BY OrderTypes, SlotFacts DEF OrderInv, Inv, TypeInv, TypeOK, TypeBatching, TypePlacing
  <1>4. /\ place.slot \in Slots /\ place.next \in Positions /\ place.slot < place.next
        /\ place.opensTurn \in BOOLEAN
        /\ place.opensTurn => position \in Slots /\ turn = 0 /\ batchDepth = 0
        /\ place.depth = IF place.opensTurn THEN 1 ELSE batchDepth
    BY <1>3, PlaceFacts
  <1>5. /\ IF place.opensTurn THEN position < place.slot ELSE place.slot = position
        /\ \A q \in place.pointers : position < q /\ q # place.slot /\ q < place.next
    <2>1. /\ IF opensTurn THEN position < slot ELSE slot = position
          /\ \A q \in pointers : position < q /\ q # slot /\ q < After(slot, full)
      BY <1>3 DEF After
    <2> HIDE DEF opensTurn, slot, pointers, place
    <2> QED BY <1>2, <2>1
  <1>6. Reserve(k, own, place)
    OBVIOUS
  <1> HIDE DEF place, opensTurn, slot, pointers
  <1> DEFINE s == place.slot
             opens == place.opensTurn
             next == place.next
             pts == place.pointers
             outermost == IF opens THEN position
                          ELSE IF turn # 0 THEN turn
                          ELSE IF blocks # <<>> THEN Head(blocks) ELSE s
  <1>7. /\ position' = next
        /\ kind' = [q \in Slots |->
                      CASE q = s -> k
                        [] q = position /\ opens -> "start"
                        [] q \in pts -> "pointer"
                        [] OTHER -> kind[q]]
        /\ word' = [q \in Positions |-> IF q \in pts THEN {"INSTR"} ELSE word[q]]
        /\ writtenBatchDepth' = [writtenBatchDepth EXCEPT ![s] = place.depth]
        /\ group' = [q \in Slots |-> IF q = s \/ (q = position /\ opens)
                                     THEN outermost ELSE group[q]]
        /\ resolutions' = resolutions \o (IF opens THEN <<position, s>> ELSE <<s>>)
        /\ turn' = IF opens THEN position ELSE turn
    BY ONLY <1>6 DEF Reserve
  <1>8. /\ s \in Slots /\ opens \in BOOLEAN /\ next \in Positions /\ s < next
        /\ opens => position \in Slots /\ turn = 0 /\ batchDepth = 0
        /\ IF opens THEN position < s ELSE s = position
        /\ \A q \in pts : position < q /\ q # s /\ q < next
        /\ place.depth = IF opens THEN 1 ELSE batchDepth
    BY <1>4, <1>5
  <1> HIDE DEF s, opens, next, pts
  <1>9. ~opens => outermost = IF batchDepth > 0 THEN Outermost ELSE s
    <2> SUFFICES ASSUME ~opens PROVE outermost = IF batchDepth > 0 THEN Outermost ELSE s
      OBVIOUS
    <2>1. batchDepth = 2 * Len(blocks) + (IF turn # 0 THEN 1 ELSE 0) /\ Len(blocks) \in Nat
      BY <1>3 DEF DepthOfBlocks
    <2>2. blocks = <<>> <=> Len(blocks) = 0
      BY <1>3
    <2>3. batchDepth > 0 <=> turn # 0 \/ blocks # <<>>
      BY <2>1, <2>2
    <2> QED BY <2>3 DEF Outermost
  <1>10. position <= s
    BY <1>3, <1>8, SlotFacts
  <1>11. \A q \in Slots : kind'[q] = IF q = s THEN k
                                 ELSE IF opens /\ q = position THEN "start"
                                 ELSE IF q \in pts THEN "pointer" ELSE kind[q]
    <2> SUFFICES ASSUME NEW q \in Slots
                 PROVE  kind'[q] = IF q = s THEN k
                                   ELSE IF opens /\ q = position THEN "start"
                                   ELSE IF q \in pts THEN "pointer" ELSE kind[q]
      OBVIOUS
    <2>1. q \in pts => q # s /\ q # position
      BY <1>3, <1>8
    <2>2. kind'[q] = CASE q = s -> k
                       [] q = position /\ opens -> "start"
                       [] q \in pts -> "pointer"
                       [] OTHER -> kind[q]
      BY <1>7
    <2>3. opens => s # position
      BY <1>3, <1>8
    <2> QED BY ONLY <2>1, <2>2, <2>3, <1>8
  <1>12. \A q \in Slots : group'[q] =
       IF q = s \/ (opens /\ q = position)
       THEN IF opens THEN position ELSE IF batchDepth > 0 THEN Outermost ELSE s
       ELSE group[q]
    <2> HIDE DEF outermost
    <2>1. \A q \in Slots : group'[q] = IF q = s \/ (q = position /\ opens)
                                       THEN outermost ELSE group[q]
      BY <1>7
    <2>2. outermost = IF opens THEN position ELSE IF batchDepth > 0 THEN Outermost ELSE s
      BY <1>9 DEF outermost
    <2> QED BY <2>1, <2>2
  <1>13. \A q \in Slots : writtenBatchDepth'[q] =
       IF q = s THEN (IF opens THEN 1 ELSE batchDepth) ELSE writtenBatchDepth[q]
    BY <1>3, <1>7, <1>8
  <1>14. Places(k, s, opens, pts)
    BY <1>7, <1>8, <1>10, <1>11, <1>12, <1>13 DEF Places
  <1>15. Places(k, place.slot, place.opensTurn, place.pointers)
    BY <1>14 DEF s, opens, pts
  <1> QED BY <1>15 DEF place

(* The nesting once instructions were placed: a block is entered behind the *)
(* start of an event turn, and behind the instruction if that is a start.   *)
LEMMA NestPlaces ==
  ASSUME Inv, FreshSlots, NEW k \in Listed, NEW s, NEW opens, NEW pointers,
         Places(k, s, opens, pointers)
  PROVE  /\ \A p \in Nat : p <= position => Nest(p)' = Nest(p)
         /\ \A p \in Nat : position < p =>
              Nest(p)' = Nest(position) + (IF opens THEN 1 ELSE 0)
                           + (IF s < p /\ k = "start" THEN 1 ELSE 0)
  <1>1. /\ position \in Nat /\ Slots \subseteq Nat /\ s \in Nat /\ s \in Slots
        /\ position <= s /\ opens \in BOOLEAN
        /\ opens => position \in Slots /\ position < s
        /\ \A q \in pointers : position < q /\ q # s
        /\ k # "end"
    BY OrderTypes DEF Places, Listed
  <1>2. \A q \in Slots : kind'[q] = IF q = s THEN k
                                 ELSE IF opens /\ q = position THEN "start"
                                 ELSE IF q \in pointers THEN "pointer" ELSE kind[q]
    BY DEF Places
  <1>3. \A q \in Slots : position <= q => kind[q] = "none"
    BY DEF FreshSlots
  <1>4. ASSUME NEW q \in Slots
        PROVE  /\ kind'[q] = "end" <=> q < position /\ kind[q] = "end"
               /\ kind'[q] = "start" <=> \/ q < position /\ kind[q] = "start"
                                         \/ opens /\ q = position
                                         \/ k = "start" /\ q = s
    <2>1. q \in Nat /\ (q < position \/ position <= q)
      BY <1>1
    <2>2. q < position => q # s /\ q # position /\ q \notin pointers
      BY <1>1, <2>1
    <2>3. q \in pointers => q # s /\ q # position
      BY <1>1, <2>1
    <2>4. kind'[q] = IF q = s THEN k
                     ELSE IF opens /\ q = position THEN "start"
                     ELSE IF q \in pointers THEN "pointer" ELSE kind[q]
      BY <1>2
    <2>5. position <= q => kind[q] = "none" /\ ~(q < position)
      BY <1>1, <1>3, <2>1
    <2>6. opens => position # s
      BY <1>1
    <2> QED BY ONLY <2>1, <2>2, <2>3, <2>4, <2>5, <2>6, <1>1
  <1>5. ASSUME NEW p \in Nat, p <= position PROVE Nest(p)' = Nest(p)
    <2>1. \A q \in Slots : q < p => kind'[q] = kind[q]
      <3> SUFFICES ASSUME NEW q \in Slots, q < p PROVE kind'[q] = kind[q]
        OBVIOUS
      <3>1. q < position /\ q # s /\ q # position /\ q \notin pointers
        BY <1>1, <1>5
      <3> QED BY <1>2, <3>1
    <2> QED BY <2>1, NestStays
  <1>6. ASSUME NEW p \in Nat, position < p
        PROVE  Nest(p)' = Nest(position) + (IF opens THEN 1 ELSE 0)
                           + (IF s < p /\ k = "start" THEN 1 ELSE 0)
    <2> DEFINE turns == IF opens THEN {position} ELSE {}
               own == IF s < p /\ k = "start" THEN {s} ELSE {}
    <2>1. Ends(p)' = Ends(position)
      <3>1. \A q \in Slots : q < position => q < p
        BY <1>1, <1>6
      <3>2. \A q \in Slots : (q < p /\ kind'[q] = "end") <=> (q < position /\ kind[q] = "end")
        BY <1>4, <3>1
      <3> QED BY ONLY <3>2 DEF Ends
    <2>2. Starts(p)' = (Starts(position) \cup turns) \cup own
      <3>1. ASSUME NEW q \in Slots
            PROVE  q \in Starts(p)' <=> q \in (Starts(position) \cup turns) \cup own
        <4>1. q \in Starts(p)' <=> q < p /\ kind'[q] = "start"
          BY DEF Starts
        <4>2. q \in Starts(position) <=> q < position /\ kind[q] = "start"
          BY DEF Starts
        <4>3. q < position => q < p
          BY <1>1, <1>6
        <4>4. q = position => q < p
          BY <1>6
        <4>5. kind'[q] = "start" <=> \/ (q < position /\ kind[q] = "start")
                                     \/ (opens /\ q = position)
                                     \/ (k = "start" /\ q = s)
          BY <1>4
        <4>6. opens => position < s
          BY <1>1
        <4>7. ~opens => s = position
          BY DEF Places
        <4> QED BY ONLY <4>1, <4>2, <4>3, <4>4, <4>5, <4>6, <4>7
      <3>2. Starts(p)' \subseteq Slots
        BY DEF Starts
      <3>3. (Starts(position) \cup turns) \cup own \subseteq Slots
        BY <1>1 DEF Starts
      <3> QED BY ONLY <3>1, <3>2, <3>3
    <2>3. position \notin Starts(position) /\ (opens => s \notin Starts(position) \cup turns)
          /\ (~opens => s \notin Starts(position))
      BY <1>1 DEF Starts
    <2>4. IsFiniteSet(Starts(position)) /\ Cardinality(Starts(position)) \in Nat
          /\ Cardinality(Ends(position)) \in Nat
      BY FiniteBlocks
    <2>5. /\ IsFiniteSet(Starts(position) \cup turns)
          /\ Cardinality(Starts(position) \cup turns)
               = Cardinality(Starts(position)) + (IF opens THEN 1 ELSE 0)
      <3>1. CASE opens
        BY <2>3, <2>4, <3>1, FS_AddElement
      <3>2. CASE ~opens
        <4>1. Starts(position) \cup turns = Starts(position)
          BY <3>2
        <4> QED BY <2>4, <3>2, <4>1
      <3> QED BY <3>1, <3>2
    <2>6. Cardinality((Starts(position) \cup turns) \cup own)
            = Cardinality(Starts(position) \cup turns)
                + (IF s < p /\ k = "start" THEN 1 ELSE 0)
      <3>1. s \notin Starts(position) \cup turns
        BY <2>3
      <3> DEFINE before == Starts(position) \cup turns
      <3> HIDE DEF before
      <3>2. CASE s < p /\ k = "start"
        <4>1. own = {s}
          BY <3>2
        <4>2. Cardinality(before \cup {s}) = Cardinality(before) + 1
          BY <2>5, <3>1, FS_AddElement DEF before
        <4> QED BY <3>2, <4>1, <4>2 DEF before
      <3>3. CASE ~(s < p /\ k = "start")
        <4>1. own = {} /\ before \cup {} = before
          BY <3>3
        <4>2. Cardinality(before) \in Nat
          BY <2>5, FS_CardinalityType DEF before
        <4> QED BY <3>3, <4>1, <4>2 DEF before
      <3> QED BY <3>2, <3>3
    <2>7. Nest(p)' = Cardinality((Starts(position) \cup turns) \cup own)
                       - Cardinality(Ends(position))
      BY <2>1, <2>2 DEF Nest
    <2>8. Nest(position) = Cardinality(Starts(position)) - Cardinality(Ends(position))
      BY DEF Nest
    <2> HIDE DEF turns, own
    <2> QED BY ONLY <2>4, <2>5, <2>6, <2>7, <2>8
  <1> QED BY <1>5, <1>6

(* What was not placed has no instruction; what was placed before stays.    *)
LEMMA PlacesBefore ==
  ASSUME Inv, FreshSlots, NEW k \in Listed, NEW s, NEW opens, NEW pointers,
         Places(k, s, opens, pointers)
  PROVE  /\ s \in Slots /\ opens \in BOOLEAN /\ position <= s /\ position \in Nat
         /\ s < position' /\ position' \in Positions /\ position' \in Nat /\ s + 1 <= position'
         /\ opens => position \in Slots /\ position < s /\ turn = 0 /\ batchDepth = 0
         /\ ~opens => s = position
         /\ kind'[s] = k /\ kind'[s] \in Listed
         /\ opens => kind'[position] = "start" /\ writtenBatchDepth'[position] = 0
         /\ \A q \in Slots : q < position =>
              /\ kind'[q] = kind[q] /\ word'[q] = word[q]
              /\ group'[q] = group[q] /\ writtenBatchDepth'[q] = writtenBatchDepth[q]
         /\ \A q \in Slots : position <= q /\ q # s /\ ~(opens /\ q = position) =>
              kind'[q] \notin Listed \cup {"end"}
         /\ "INSTR" \notin word'[s] /\ (opens => "INSTR" \notin word'[position])
  <1>1. /\ position \in Nat /\ Slots \subseteq Nat /\ s \in Slots /\ opens \in BOOLEAN
        /\ position <= s /\ s < position' /\ position' \in Positions
        /\ Positions \subseteq Nat /\ Slots \subseteq Positions
        /\ opens => position \in Slots /\ position < s /\ turn = 0 /\ batchDepth = 0
        /\ ~opens => s = position
        /\ \A q \in pointers : position < q /\ q # s
    BY OrderTypes DEF Places
  <1>2. \A q \in Slots :
          /\ kind'[q] = IF q = s THEN k ELSE IF opens /\ q = position THEN "start"
                        ELSE IF q \in pointers THEN "pointer" ELSE kind[q]
          /\ writtenBatchDepth'[q] = IF q = s THEN (IF opens THEN 1 ELSE batchDepth)
                                     ELSE writtenBatchDepth[q]
          /\ word'[q] = IF q \in pointers THEN {"INSTR"} ELSE word[q]
          /\ group'[q] = IF q = s \/ (opens /\ q = position)
               THEN IF opens THEN position ELSE IF batchDepth > 0 THEN Outermost ELSE s
               ELSE group[q]
    BY <1>1 DEF Places
  <1>3. \A q \in Slots : position <= q =>
          kind[q] = "none" /\ writtenBatchDepth[q] = 0 /\ ~Written(q)
    BY DEF FreshSlots
  <1>4. position' \in Nat /\ s \in Nat /\ s + 1 <= position' /\ position <= position
    BY <1>1
  <1>5. \A q \in Slots : q < position => q # s /\ ~(opens /\ q = position) /\ q \notin pointers
    BY <1>1
  <1>6. \A q \in Slots : q < position =>
              /\ kind'[q] = kind[q] /\ word'[q] = word[q]
              /\ group'[q] = group[q] /\ writtenBatchDepth'[q] = writtenBatchDepth[q]
    BY ONLY <1>2, <1>5
  <1>7. kind'[s] = k /\ s \notin pointers
    BY <1>1, <1>2
  <1>8. opens => position # s /\ position \notin pointers
    BY <1>1
  <1>9. opens => kind'[position] = "start" /\ writtenBatchDepth'[position] = 0
    BY <1>1, <1>2, <1>3, <1>4, <1>8
  <1>10. \A q \in Slots : position <= q /\ q # s /\ ~(opens /\ q = position) =>
              kind'[q] \notin Listed \cup {"end"}
    BY <1>2, <1>3 DEF Listed
  <1>11. "INSTR" \notin word'[s] /\ (opens => "INSTR" \notin word'[position])
    <2>1. "INSTR" \notin word[s] /\ (opens => "INSTR" \notin word[position])
      BY <1>1, <1>3, <1>4 DEF Written
    <2> QED BY ONLY <1>1, <1>2, <1>7, <1>8, <2>1
  <1> QED BY ONLY <1>1, <1>4, <1>6, <1>7, <1>9, <1>10, <1>11, k \in Listed

LEMMA PlacesFresh ==
  ASSUME OrderInv, NEW k \in Listed, NEW s, NEW opens, NEW pointers,
         Places(k, s, opens, pointers)
  PROVE  /\ FreshSlots' /\ ListInOrder'
         /\ \E list \in Seq(Slots) :
              /\ resolutions' = list /\ Len(resolutions) <= Len(list)
              /\ \A i \in DOMAIN resolutions : list[i] = resolutions[i]
              /\ \A i \in DOMAIN list : i > Len(resolutions) => position <= list[i]
  <1>1. /\ Inv /\ FreshSlots /\ ListInOrder /\ position \in Nat /\ Slots \subseteq Nat
        /\ resolutions \in Seq(Slots)
    BY OrderTypes DEF OrderInv, Placement
  <1>2. /\ s \in Slots /\ opens \in BOOLEAN /\ position <= s
        /\ s < position' /\ position' \in Nat
        /\ opens => position \in Slots /\ position < s
        /\ ~opens => s = position
        /\ kind'[s] \in Listed /\ (opens => kind'[position] = "start")
        /\ \A q \in Slots : q < position => kind'[q] = kind[q] /\ word'[q] = word[q]
        /\ \A q \in Slots : position <= q /\ q # s /\ ~(opens /\ q = position) =>
              kind'[q] \notin Listed \cup {"end"}
    BY <1>1, PlacesBefore
  <1>3. \A q \in Slots : position <= q =>
          kind[q] = "none" /\ writtenBatchDepth[q] = 0 /\ ~Written(q)
    BY <1>1 DEF FreshSlots
  <1>4. FreshSlots'
    <2>1. ASSUME NEW q \in Slots, Written(q)' PROVE kind'[q] # "none"
      <3>1. CASE q \in pointers
        <4>1. kind'[q] = IF q = s THEN k ELSE IF opens /\ q = position THEN "start"
                         ELSE "pointer"
          BY <3>1 DEF Places
        <4> QED BY <4>1 DEF Listed
      <3>2. CASE q \notin pointers
        <4>1. word'[q] = word[q]
          BY <3>2, SlotFacts DEF Places
        <4>2. Written(q)
          BY <2>1, <4>1 DEF Written
        <4>3. q < position /\ kind[q] # "none"
          BY <1>1, <1>3, <4>2 DEF FreshSlots
        <4> QED BY <1>2, <4>3
      <3> QED BY <3>1, <3>2
    <2>2. ASSUME NEW q \in Slots, position' <= q
          PROVE  kind'[q] = "none" /\ writtenBatchDepth'[q] = 0
      <3>1. position <= q /\ q # s /\ q # position
        <4>1. position \in Nat /\ s \in Nat /\ position' \in Nat /\ q \in Nat
              /\ position <= s /\ s < position'
          BY <1>1, <1>2
        <4> QED BY ONLY <2>2, <4>1
      <3>2. q \notin pointers
        BY <1>1, <1>2, <2>2 DEF Places
      <3>3. kind'[q] = kind[q] /\ writtenBatchDepth'[q] = writtenBatchDepth[q]
        BY <3>1, <3>2 DEF Places
      <3> QED BY <1>3, <3>1, <3>3
    <2> QED BY <2>1, <2>2 DEF FreshSlots
  <1>5. PICK more \in Seq(Slots) : more = IF opens THEN <<position, s>> ELSE <<s>>
    <2>1. (IF opens THEN <<position, s>> ELSE <<s>>) \in Seq(Slots)
      BY <1>2
    <2> QED BY ONLY <2>1, Zenon
  <1>6. PICK list \in Seq(Slots) : list = resolutions \o more
    BY <1>1, Concat
  <1>7. resolutions' = list
    BY <1>5, <1>6 DEF Places
  <1>8. /\ DOMAIN more = 1..Len(more) /\ Len(more) \in {1, 2}
        /\ opens => Len(more) = 2 /\ more[1] = position /\ more[2] = s
        /\ ~opens => Len(more) = 1 /\ more[1] = s
    <2>1. CASE opens
      <3>1. more = <<position, s>>
        BY <1>5, <2>1
      <3> QED BY ONLY <2>1, <3>1
    <2>2. CASE ~opens
      <3>1. more = <<s>>
        BY <1>5, <2>2
      <3> QED BY ONLY <2>2, <3>1
    <2> QED BY <2>1, <2>2
  <1>9. /\ DOMAIN list = 1..Len(list) /\ DOMAIN resolutions = 1..Len(resolutions)
        /\ Len(list) = Len(resolutions) + Len(more) /\ Len(resolutions) \in Nat
        /\ \A i \in 1..Len(resolutions) : list[i] = resolutions[i]
        /\ \A i \in 1..Len(more) : list[Len(resolutions) + i] = more[i]
    BY <1>1, <1>6
  <1>10. \A i \in DOMAIN list : i > Len(resolutions) =>
           /\ i - Len(resolutions) \in 1..Len(more)
           /\ list[i] = more[i - Len(resolutions)]
    <2> SUFFICES ASSUME NEW i \in DOMAIN list, i > Len(resolutions)
                 PROVE  /\ i - Len(resolutions) \in 1..Len(more)
                        /\ list[i] = more[i - Len(resolutions)]
      OBVIOUS
    <2>1. i - Len(resolutions) \in 1..Len(more)
      BY ONLY <1>8, <1>9, i \in DOMAIN list, i > Len(resolutions)
    <2>2. Len(resolutions) + (i - Len(resolutions)) = i
      BY ONLY <1>8, <1>9, i \in DOMAIN list
    <2> QED BY ONLY <1>9, <2>1, <2>2
  <1>11. \A i \in 1..Len(more) : position <= more[i]
    <2>1. \A i \in 1..Len(more) : (i = 1 \/ i = 2) /\ (Len(more) = 1 => i = 1)
      BY <1>8
    <2>2. position <= position /\ position <= s
      BY <1>1, <1>2
    <2> QED BY ONLY <1>2, <1>8, <2>1, <2>2
  <1>12. \A i \in DOMAIN list : i > Len(resolutions) => position <= list[i]
    BY <1>10, <1>11
  <1>13. ASSUME NEW i \in DOMAIN list, NEW j \in DOMAIN list, i < j PROVE list[i] < list[j]
    <2>1. CASE j <= Len(resolutions)
      <3>1. i \in DOMAIN resolutions /\ j \in DOMAIN resolutions
        BY <1>9, <1>13, <2>1
      <3> QED BY <1>1, <1>9, <1>13, <3>1 DEF ListInOrder
    <2>2. CASE i <= Len(resolutions) /\ j > Len(resolutions)
      <3>1. i \in DOMAIN resolutions /\ list[i] = resolutions[i]
        BY <1>9, <2>2
      <3>2. PICK a \in Slots : a = list[i]
        OBVIOUS
      <3>3. PICK b \in Slots : b = list[j]
        OBVIOUS
      <3>4. kind[a] \in Listed
        BY <1>1, <3>1, <3>2 DEF ListInOrder
      <3>5. ~(position <= a) /\ a \in Nat /\ b \in Nat
        BY <1>1, <1>3, <3>4 DEF Listed
      <3>6. position <= b
        BY <1>12, <2>2, <3>3
      <3>7. a < b
        BY ONLY <1>1, <3>5, <3>6
      <3> QED BY <3>2, <3>3, <3>7
    <2>3. CASE i > Len(resolutions)
      <3>1. j > Len(resolutions)
        BY <1>9, <1>13, <2>3
      <3>2. i - Len(resolutions) = 1 /\ j - Len(resolutions) = 2 /\ Len(more) = 2
        BY <1>8, <1>9, <1>10, <1>13, <2>3, <3>1
      <3>3. opens
        BY <1>8, <3>2
      <3> QED BY <1>2, <1>8, <1>10, <2>3, <3>1, <3>2, <3>3
    <2> QED BY <1>9, <2>1, <2>2, <2>3
  <1>14. ASSUME NEW q \in Slots
         PROVE  kind'[q] \in Listed <=> \E i \in DOMAIN list : list[i] = q
    <2>1. CASE q < position
      <3>1. kind'[q] \in Listed <=> \E i \in DOMAIN resolutions : resolutions[i] = q
        BY <1>1, <1>2, <2>1 DEF ListInOrder
      <3>2. \A i \in DOMAIN list : list[i] = q => i \in DOMAIN resolutions
        BY <1>1, <1>9, <1>12, <2>1
      <3>3. DOMAIN resolutions \subseteq DOMAIN list
        BY <1>8, <1>9
      <3> QED BY <1>9, <3>1, <3>2, <3>3
    <2>2. CASE q = s \/ (opens /\ q = position)
      <3>1. kind'[q] \in Listed
        BY <1>2, <2>2 DEF Listed
      <3>2. PICK i \in 1..Len(more) : more[i] = q
        BY <1>2, <1>8, <2>2
      <3>3. Len(resolutions) + i \in DOMAIN list
        BY <1>8, <1>9
      <3> QED BY <1>9, <3>1, <3>2, <3>3
    <2>3. CASE position <= q /\ q # s /\ ~(opens /\ q = position)
      <3>1. kind'[q] \notin Listed /\ kind[q] \notin Listed
        BY <1>2, <1>3, <2>3 DEF Listed
      <3>2. ASSUME NEW i \in DOMAIN list, list[i] = q PROVE FALSE
        <4>1. CASE i <= Len(resolutions)
          BY <1>1, <1>9, <3>1, <3>2, <4>1 DEF ListInOrder
        <4>2. CASE i > Len(resolutions)
          <5>1. PICK m \in 1..Len(more) : more[m] = q
            BY <1>10, <3>2, <4>2
          <5>2. m = 1 \/ m = 2
            BY <1>8
          <5> QED BY <1>2, <1>8, <2>3, <5>1, <5>2
        <4> QED BY <1>9, <4>1, <4>2
      <3> QED BY <3>1, <3>2
    <2> QED BY <1>1, <2>1, <2>2, <2>3
  <1>15. ListInOrder'
    BY <1>7, <1>13, <1>14 DEF ListInOrder
  <1>16. Len(resolutions) <= Len(list)
    BY <1>8, <1>9
  <1> QED BY <1>4, <1>7, <1>9, <1>12, <1>15, <1>16

(* How many blocks are open is what batchDepth says.                        *)
LEMMA OpenCount ==
  ASSUME OrderInv
  PROVE  /\ Nest(position) = Len(blocks) + (IF turn # 0 THEN 1 ELSE 0)
         /\ batchDepth = 2 * Len(blocks) + (IF turn # 0 THEN 1 ELSE 0)
         /\ Len(blocks) \in Nat /\ batchDepth \in Nat /\ blocks \in Seq(Slots)
         /\ turn \in {0} \cup Slots
         /\ batchDepth > 0 <=> Nest(position) > 0
         /\ batchDepth = 0 => turn = 0 /\ blocks = <<>> /\ Nest(position) = 0
         /\ Nest(position) \in Nat
  <1>1. /\ DepthOfBlocks /\ blocks \in Seq(Slots) /\ turn \in {0} \cup Slots
        /\ batchDepth \in Nat /\ OpenBlocks
    BY DEF OrderInv, Placement, Inv, TypeInv, TypeOK, TypeBatching
  <1>2. /\ Nest(position) = Len(blocks) + (IF turn # 0 THEN 1 ELSE 0)
        /\ batchDepth = 2 * Len(blocks) + (IF turn # 0 THEN 1 ELSE 0)
        /\ Len(blocks) \in Nat
    BY <1>1 DEF DepthOfBlocks, OpenBlocks
  <1>3. Len(blocks) = 0 => blocks = <<>>
    BY <1>1
  <1> QED BY ONLY <1>1, <1>2, <1>3

(* What was placed is nested as before, and the new instruction is part of  *)
(* the outermost block.                                                     *)
LEMMA PlacesNested ==
  ASSUME OrderInv, NEW k \in Listed, NEW s, NEW opens, NEW pointers,
         Places(k, s, opens, pointers)
  PROVE  Nested'
  <1>1. /\ Inv /\ FreshSlots /\ Nested /\ OpenBlocks /\ position \in Nat
        /\ Slots \subseteq Nat /\ Positions \subseteq Nat /\ position \in Positions
    BY OrderTypes DEF OrderInv, Placement
  <1>2. /\ s \in Slots /\ opens \in BOOLEAN /\ position <= s
        /\ s < position' /\ position' \in Nat
        /\ opens => position \in Slots /\ position < s /\ turn = 0 /\ batchDepth = 0
        /\ ~opens => s = position
        /\ kind'[s] \in Listed /\ (opens => kind'[position] = "start")
        /\ opens => writtenBatchDepth'[position] = 0
        /\ \A q \in Slots : position <= q /\ q # s /\ ~(opens /\ q = position) =>
              kind'[q] \notin Listed \cup {"end"}
    BY <1>1, PlacesBefore
  <1>3. \A q \in Slots : q < position =>
              /\ kind'[q] = kind[q] /\ group'[q] = group[q]
              /\ writtenBatchDepth'[q] = writtenBatchDepth[q]
    BY <1>1, PlacesBefore
  <1>4. /\ \A p \in Nat : p <= position => Nest(p)' = Nest(p)
        /\ \A p \in Nat : position < p =>
              Nest(p)' = Nest(position) + (IF opens THEN 1 ELSE 0)
                           + (IF s < p /\ k = "start" THEN 1 ELSE 0)
    BY <1>1, NestPlaces
  <1>5. /\ Nest(position) \in Nat /\ (batchDepth > 0 <=> Nest(position) > 0)
        /\ batchDepth \in Nat
    BY OpenCount
  <1>6. \A p \in Nat : position < p =>
          /\ Nest(p)' >= Nest(position) /\ Nest(p)' \in Int
          /\ opens => Nest(p)' > 0
    BY ONLY <1>4, <1>5
  <1>7. ASSUME NEW p \in Positions, p <= position' PROVE Nest(p)' >= 0
    <2>1. p \in Nat /\ (p <= position \/ position < p)
      BY <1>1
    <2>2. CASE p <= position
      BY <1>1, <1>4, <2>1, <2>2 DEF Nested
    <2>3. CASE position < p
      <3>1. Nest(p)' >= Nest(position) /\ Nest(p)' \in Int
        BY <1>6, <2>1, <2>3
      <3> QED BY ONLY <1>5, <3>1
    <2> QED BY <2>1, <2>2, <2>3
  <1>8. ASSUME NEW q \in Slots, kind'[q] = "end" PROVE Nest(q)' > 0
    <2>1. q \in Nat /\ q < position
      <3>1. ~(position <= q) \/ q = s \/ (opens /\ q = position)
        BY <1>2, <1>8
      <3>2. q # s /\ ~(opens /\ q = position)
        BY <1>2, <1>8 DEF Listed
      <3>3. ~(position <= q) /\ q \in Nat
        BY <1>1, <3>1, <3>2
      <3> QED BY ONLY <1>1, <3>3
    <2>2. Nest(q) > 0
      BY <1>1, <1>3, <1>8, <2>1 DEF Nested
    <2>3. q <= position
      BY <1>1, <2>1
    <2> QED BY <1>4, <2>1, <2>2, <2>3
  <1>9. ASSUME NEW q \in Slots, kind'[q] \in Listed
        PROVE  /\ writtenBatchDepth'[q] > 0 => Nest(q)' > 0
               /\ group'[q] \in Slots /\ group'[q] <= q
               /\ \A p \in Positions : group'[q] < p /\ p <= q => Nest(p)' > 0
    <2>1. q \in Nat /\ (q < position \/ position <= q)
      BY <1>1
    <2>2. CASE q < position
      <3>1. kind[q] \in Listed /\ group'[q] = group[q]
            /\ writtenBatchDepth'[q] = writtenBatchDepth[q]
        BY <1>3, <1>9, <2>2
      <3>2. /\ writtenBatchDepth[q] > 0 => Nest(q) > 0
            /\ group[q] \in Slots /\ group[q] <= q
            /\ \A p \in Positions : group[q] < p /\ p <= q => Nest(p) > 0
        BY <1>1, <3>1 DEF Nested
      <3>3. q <= position /\ \A p \in Positions : p <= q => p \in Nat /\ p <= position
        BY <1>1, <2>1, <2>2
      <3> QED BY <1>4, <2>1, <3>1, <3>2, <3>3
    <2>3. CASE opens /\ q = position
      <3>1. group'[q] = position /\ ~(q = s)
        BY <1>2, <2>3 DEF Places
      <3>2. \A p \in Positions : ~(position < p /\ p <= q)
        BY <1>1, <2>3
      <3>3. position <= position
        BY <1>1
      <3>4. ~(writtenBatchDepth'[q] > 0)
        BY <1>2, <2>3
      <3> QED BY <1>2, <2>3, <3>1, <3>2, <3>3, <3>4
    <2>4. CASE q = s
      <3>1. /\ group'[s] = IF opens THEN position ELSE IF batchDepth > 0 THEN Outermost ELSE s
            /\ writtenBatchDepth'[s] = IF opens THEN 1 ELSE batchDepth
        BY <1>2 DEF Places
      <3>2. CASE opens
        <4>1. \A p \in Positions : position < p => Nest(p)' > 0
          BY <1>1, <1>6, <3>2
        <4>2. s \in Positions
          BY <1>2, SlotFacts
        <4> QED BY <1>2, <2>4, <3>1, <3>2, <4>1, <4>2
      <3>3. CASE ~opens /\ batchDepth > 0
        <4>1. /\ Outermost \in Slots /\ Outermost < position
              /\ \A p \in Positions : Outermost < p /\ p <= position => Nest(p) > 0
          BY <1>1, <3>3, OutermostBlock DEF OpenBlocks
        <4>2. Outermost <= position
          BY <1>1, <4>1
        <4>4. s = position /\ group'[s] = Outermost
          BY <1>2, <3>1, <3>3
        <4>5. \A p \in Positions : Outermost < p /\ p <= s => Nest(p)' > 0
          BY <1>1, <1>4, <4>1, <4>4
        <4>6. Nest(s)' > 0
          BY <4>1, <4>4, <4>5, <1>1
        <4> QED BY <2>4, <4>1, <4>2, <4>4, <4>5, <4>6
      <3>4. CASE ~opens /\ ~(batchDepth > 0)
        <4>1. group'[s] = s /\ ~(writtenBatchDepth'[s] > 0)
          BY <3>1, <3>4
        <4>2. \A p \in Positions : ~(s < p /\ p <= s)
          BY <1>1, <1>2
        <4>3. s <= s
          BY <1>2, SlotFacts
        <4> QED BY <1>2, <2>4, <4>1, <4>2, <4>3
      <3> QED BY <1>2, <3>2, <3>3, <3>4
    <2> QED BY <1>2, <1>9, <2>1, <2>2, <2>3, <2>4
  <1> QED BY <1>7, <1>8, <1>9 DEF Nested

(* The blocks that are open afterwards: the event turn, and the block whose *)
(* start was placed.                                                        *)
LEMMA PlacesOpen ==
  ASSUME OrderInv, NEW k \in Listed, NEW s, NEW opens, NEW pointers,
         Places(k, s, opens, pointers),
         blocks' = IF k = "start" THEN Append(blocks, s) ELSE blocks,
         batchDepth' = (IF opens THEN 1 ELSE batchDepth) + (IF k = "start" THEN 2 ELSE 0)
  PROVE  OpenBlocks'
  <1>1. /\ Inv /\ FreshSlots /\ Nested /\ OpenBlocks /\ position \in Nat
        /\ Slots \subseteq Nat /\ Positions \subseteq Nat /\ position \in Positions
        /\ Slots \subseteq Positions /\ position # 0 /\ 0 \notin Slots
    BY OrderTypes, SlotFacts DEF OrderInv, Placement
  <1>2. /\ s \in Slots /\ opens \in BOOLEAN /\ position <= s
        /\ s < position' /\ position' \in Nat
        /\ opens => position \in Slots /\ position < s /\ turn = 0 /\ batchDepth = 0
        /\ ~opens => s = position
        /\ kind'[s] = k /\ (opens => kind'[position] = "start")
        /\ opens => writtenBatchDepth'[position] = 0
    BY <1>1, PlacesBefore
  <1>3. \A q \in Slots : q < position =>
          kind'[q] = kind[q] /\ writtenBatchDepth'[q] = writtenBatchDepth[q]
    BY <1>1, PlacesBefore
  <1>4. /\ \A p \in Nat : p <= position => Nest(p)' = Nest(p)
        /\ \A p \in Nat : position < p =>
              Nest(p)' = Nest(position) + (IF opens THEN 1 ELSE 0)
                           + (IF s < p /\ k = "start" THEN 1 ELSE 0)
    BY <1>1, NestPlaces
  <1>5. /\ Nest(position) = Len(blocks) + (IF turn # 0 THEN 1 ELSE 0)
        /\ Len(blocks) \in Nat /\ batchDepth \in Nat /\ blocks \in Seq(Slots)
        /\ turn \in {0} \cup Slots
        /\ batchDepth > 0 <=> Nest(position) > 0
        /\ batchDepth = 0 => turn = 0 /\ blocks = <<>>
        /\ Nest(position) \in Nat
    BY OpenCount
  <1>5a. PICK d \in Nat : d = Nest(position)
    BY <1>5
  <1>5b. PICK m \in Nat : m = Len(blocks)
    BY <1>5
  <1>5c. \A p \in Nat : position < p =>
              Nest(p)' = d + (IF opens THEN 1 ELSE 0)
                           + (IF s < p /\ k = "start" THEN 1 ELSE 0)
    BY <1>4, <1>5a
  <1>5d. /\ d = m + (IF turn # 0 THEN 1 ELSE 0) /\ (batchDepth > 0 <=> d > 0)
    BY <1>5, <1>5a, <1>5b
  <1>6. turn' = IF opens THEN position ELSE turn
    BY DEF Places
  <1>7. s \in Nat /\ s # 0 /\ turn \in Nat /\ position < position' /\ position <= position
    <2>1. s \in Nat /\ s # 0 /\ turn \in Nat
      BY <1>1, <1>2, <1>5
    <2> QED BY ONLY <1>1, <1>2, <2>1
  <1>8. PICK b : b = blocks'
    OBVIOUS
  <1>9. /\ DOMAIN blocks = 1..m /\ b \in Seq(Slots)
        /\ DOMAIN b = 1..m + (IF k = "start" THEN 1 ELSE 0)
        /\ Len(b) = m + (IF k = "start" THEN 1 ELSE 0)
        /\ \A i \in 1..m : b[i] = blocks[i] /\ b[i] \in Slots
        /\ k = "start" => b[m + 1] = s
    <2>1. CASE k = "start"
      <3>1. b = Append(blocks, s)
        BY <1>8, <2>1
      <3> QED BY ONLY <1>2, <1>5, <1>5b, <2>1, <3>1
    <2>2. CASE k # "start"
      <3>1. b = blocks
        BY <1>8, <2>2
      <3> QED BY ONLY <1>5, <1>5b, <2>2, <3>1
    <2> QED BY <2>1, <2>2
  <1>10. ASSUME NEW i \in DOMAIN b
         PROVE  \/ i \in DOMAIN blocks /\ b[i] = blocks[i] /\ b[i] \in Slots
                \/ i = m + 1 /\ k = "start" /\ b[i] = s
    <2>1. i \in 1..m \/ (i = m + 1 /\ k = "start")
      BY ONLY <1>9, i \in DOMAIN b, m \in Nat
    <2> QED BY ONLY <1>9, <2>1
  <1>11. \A i \in DOMAIN blocks : /\ turn < blocks[i] /\ blocks[i] < position
                                  /\ kind[blocks[i]] = "start"
                                  /\ blocks[i] \in Slots
    BY <1>1, <1>5 DEF OpenBlocks
  <1>12. turn # 0 => turn < position /\ kind[turn] = "start" /\ turn \in Slots
    BY <1>1, <1>5 DEF OpenBlocks
  <1>13. opens => blocks = <<>> /\ DOMAIN blocks = {}
    BY <1>2, <1>5
  <1>14. ASSUME NEW i \in DOMAIN b
         PROVE  turn' < b[i] /\ b[i] < position' /\ kind'[b[i]] = "start"
    <2>1. CASE i \in DOMAIN blocks /\ b[i] = blocks[i] /\ b[i] \in Slots
      <3>1. ~opens /\ turn' = turn
        BY <1>2, <1>6, <1>13, <2>1
      <3>2. PICK q \in Slots : q = b[i]
        BY <2>1
      <3>3. turn < q /\ q < position /\ kind[q] = "start" /\ q \in Nat
        BY <1>1, <1>11, <2>1, <3>2
      <3>4. kind'[q] = "start"
        BY <1>3, <3>3
      <3>5. q < position'
        BY ONLY <1>1, <1>2, <1>7, <3>3
      <3> QED BY <3>1, <3>2, <3>3, <3>4, <3>5
    <2>2. CASE i = m + 1 /\ k = "start" /\ b[i] = s
      <3>1. turn' < s
        BY ONLY <1>1, <1>2, <1>6, <1>7, <1>12
      <3> QED BY <1>2, <2>2, <3>1
    <2> QED BY <1>10, <2>1, <2>2
  <1>15. ASSUME NEW i \in DOMAIN b, NEW j \in DOMAIN b, i < j PROVE b[i] < b[j]
    <2>1. i \in DOMAIN blocks /\ b[i] = blocks[i] /\ b[i] \in Slots
      <3>1. i # m + 1
        <4>1. j <= m + 1 /\ j \in Int /\ i \in Int
          BY ONLY <1>9, i \in DOMAIN b, j \in DOMAIN b, m \in Nat
        <4> QED BY ONLY <1>15, <4>1, m \in Nat
      <3> QED BY <1>10, <3>1
    <2>2. CASE j \in DOMAIN blocks
      <3>1. b[j] = blocks[j]
        BY ONLY <1>9, <2>2
      <3> QED BY <1>1, <1>15, <2>1, <2>2, <3>1 DEF OpenBlocks
    <2>3. CASE j \notin DOMAIN blocks
      <3>1. b[j] = s
        BY <1>10, <2>3
      <3>2. b[i] < position /\ b[i] \in Nat
        BY <1>1, <1>11, <2>1
      <3>3. b[i] < s
        BY ONLY <1>1, <1>2, <1>7, <3>2
      <3> QED BY <3>1, <3>3
    <2> QED BY <2>2, <2>3
  <1>16. turn' # 0 => turn' < position' /\ kind'[turn'] = "start"
    <2>1. CASE opens
      BY <1>2, <1>6, <1>7, <2>1
    <2>2. CASE ~opens /\ turn # 0
      <3>1. turn' = turn /\ kind'[turn] = "start" /\ turn < position
        BY <1>3, <1>6, <1>12, <2>2
      <3>2. turn < position'
        BY ONLY <1>1, <1>2, <1>7, <3>1
      <3> QED BY <3>1, <3>2
    <2> QED BY <1>2, <1>6, <2>1, <2>2
  <1>18. PICK n : n = position'
    OBVIOUS
  <1>19. Nest(n)' = Len(b) + (IF turn' # 0 THEN 1 ELSE 0)
    <2>1. n \in Nat /\ position < n /\ s < n
      BY <1>2, <1>7, <1>18
    <2>2. Nest(n)' = d + (IF opens THEN 1 ELSE 0)
                       + (IF k = "start" THEN 1 ELSE 0)
      BY <1>5c, <2>1
    <2>3. Len(b) = m + (IF k = "start" THEN 1 ELSE 0)
      BY <1>9
    <2>4. (IF turn' # 0 THEN 1 ELSE 0)
             = (IF turn # 0 THEN 1 ELSE 0) + (IF opens THEN 1 ELSE 0)
      BY <1>1, <1>2, <1>6
    <2> QED BY ONLY <1>5d, <2>2, <2>3, <2>4, m \in Nat, d \in Nat
  <1>20. ASSUME NEW o, o = Outermost', batchDepth' > 0
         PROVE  /\ writtenBatchDepth'[o] = 0
                /\ \A p \in Positions : o < p /\ p <= position' => Nest(p)' > 0
    <2>1. CASE opens
      <3>1. o = position
        BY <1>1, <1>6, <1>20, <2>1 DEF Outermost
      <3> QED BY <1>1, <1>2, <1>4, <1>5, <2>1, <3>1
    <2>2. CASE ~opens /\ batchDepth > 0
      <3>1. /\ Outermost \in Slots /\ Outermost < position
            /\ writtenBatchDepth[Outermost] = 0
            /\ turn = 0 => blocks # <<>> /\ 1 \in DOMAIN blocks /\ Outermost = blocks[1]
            /\ \A p \in Positions : Outermost < p /\ p <= position => Nest(p) > 0
        BY <1>1, <2>2, OutermostBlock DEF OpenBlocks
      <3>2. o = Outermost
        <4>1. CASE turn # 0
          BY <1>6, <1>20, <2>2, <4>1 DEF Outermost
        <4>2. CASE turn = 0
          <5>1. 1 \in DOMAIN b /\ b[1] = blocks[1] /\ Head(b) = b[1] /\ turn' = 0
            <6>1. 1 \in 1..m /\ turn' = 0
              BY <1>6, <1>9, <2>2, <3>1, <4>2
            <6>2. 1 \in DOMAIN b /\ b[1] = blocks[1]
              BY ONLY <1>9, <6>1, m \in Nat
            <6> QED BY ONLY <1>9, <6>1, <6>2
          <5> QED BY <1>8, <1>20, <3>1, <4>2, <5>1 DEF Outermost
        <4> QED BY <4>1, <4>2
      <3>3. writtenBatchDepth'[o] = 0
        BY <1>3, <3>1, <3>2
      <3>4. ASSUME NEW p \in Positions, o < p PROVE Nest(p)' > 0
        <4>1. p \in Nat /\ (p <= position \/ position < p)
          BY <1>1
        <4>2. CASE p <= position
          BY <1>4, <3>1, <3>2, <3>4, <4>1, <4>2
        <4>3. CASE position < p
          <5>1. Nest(p)' = d + (IF opens THEN 1 ELSE 0)
                           + (IF s < p /\ k = "start" THEN 1 ELSE 0)
            BY <1>5c, <4>1, <4>3
          <5> QED BY ONLY <1>5d, <2>2, <5>1, d \in Nat
        <4> QED BY <4>1, <4>2, <4>3
      <3> QED BY <3>3, <3>4
    <2>3. CASE ~opens /\ ~(batchDepth > 0)
      <3>1. batchDepth = 0 /\ k = "start"
        BY <1>5, <1>20, <2>3
      <3>2. b = <<s>> /\ turn' = 0
        BY <1>5, <1>6, <1>8, <2>3, <3>1
      <3>3. o = s
        BY <1>8, <1>20, <3>2 DEF Outermost
      <3>4. writtenBatchDepth'[s] = 0
        BY <1>2, <2>3, <3>1 DEF Places
      <3>5. ASSUME NEW p \in Positions, s < p PROVE Nest(p)' > 0
        <4>1. p \in Nat /\ position < p
          <5>1. p \in Nat
            BY <1>1
          <5> QED BY ONLY <1>1, <1>2, <1>7, <3>5, <5>1
        <4>2. Nest(p)' = d + (IF opens THEN 1 ELSE 0) + 1
          BY <1>5c, <3>1, <3>5, <4>1
        <4> QED BY ONLY <4>2, d \in Nat
      <3> QED BY <3>3, <3>4, <3>5
    <2> QED BY <1>2, <2>1, <2>2, <2>3
  <1>21. /\ \A i \in DOMAIN b : turn' < b[i]
         /\ \A i, j \in DOMAIN b : i < j => b[i] < b[j]
         /\ \A i \in DOMAIN b : b[i] < position' /\ kind'[b[i]] = "start"
    BY <1>14, <1>15
  <1> QED BY <1>8, <1>16, <1>18, <1>19, <1>20, <1>21 DEF OpenBlocks

(* A call that places an instruction; its own steps are to come.            *)
LEMMA PlacesOrder ==
  ASSUME OrderInv, NEW k \in Listed, NEW s, NEW opens, NEW pointers,
         Places(k, s, opens, pointers), NEW depth,
         depth = IF opens THEN 1 ELSE batchDepth,
         blocks' = IF k = "start" THEN Append(blocks, s) ELSE blocks,
         batchDepth' = depth + (IF k = "start" THEN 2 ELSE 0),
         writeBatchStart' = IF opens THEN position
                            ELSE IF k = "start" /\ depth = 0 THEN s ELSE writeBatchStart,
         todo' = IF k = "start" /\ depth = 0 THEN <<>>
                 ELSE <<Step(IF depth > 0 THEN "load" ELSE "or", s, {})>>,
         UNCHANGED <<log, txnOf, worker, startAddress>>
  PROVE  Placement' /\ Token'
  <1>1. /\ Inv /\ FreshSlots /\ position \in Nat /\ Slots \subseteq Nat
        /\ Positions \subseteq Nat /\ Slots \subseteq Positions /\ position # 0
        /\ 0 \notin Slots
    BY OrderTypes, SlotFacts DEF OrderInv, Placement
  <1>2. /\ s \in Slots /\ opens \in BOOLEAN /\ position <= s
        /\ s < position' /\ position' \in Nat
        /\ opens => position \in Slots /\ position < s /\ turn = 0 /\ batchDepth = 0
        /\ ~opens => s = position
        /\ kind'[s] \in Listed
        /\ \A q \in Slots : q < position => kind'[q] = kind[q] /\ word'[q] = word[q]
        /\ "INSTR" \notin word'[s] /\ (opens => "INSTR" \notin word'[position])
    BY <1>1, PlacesBefore
  <1>3. /\ \A p \in Nat : p <= position => Nest(p)' = Nest(p)
        /\ \A p \in Nat : position < p =>
              Nest(p)' = Nest(position) + (IF opens THEN 1 ELSE 0)
                           + (IF s < p /\ k = "start" THEN 1 ELSE 0)
    BY <1>1, NestPlaces
  <1>4. /\ Nest(position) \in Nat /\ batchDepth \in Nat /\ blocks \in Seq(Slots)
        /\ batchDepth > 0 <=> Nest(position) > 0
        /\ batchDepth = 0 => turn = 0 /\ blocks = <<>>
    BY OpenCount
  <1>5. FreshSlots' /\ ListInOrder' /\ Nested'
    BY PlacesFresh, PlacesNested
  <1>6. batchDepth' = (IF opens THEN 1 ELSE batchDepth) + (IF k = "start" THEN 2 ELSE 0)
    OBVIOUS
  <1>7. OpenBlocks'
    BY ONLY OrderInv, k \in Listed, Places(k, s, opens, pointers), <1>6,
            blocks' = IF k = "start" THEN Append(blocks, s) ELSE blocks, PlacesOpen
  <1>8. s \in Nat /\ position < position'
    <2>1. s \in Nat
      BY <1>1, <1>2
    <2> QED BY ONLY <1>1, <1>2, <2>1
  <1>9. PICK b : b = todo'
    OBVIOUS
  <1>10. \/ b = <<>> /\ k = "start" /\ depth = 0
         \/ /\ DOMAIN b = {1} /\ b # <<>> /\ Head(b) = b[1] /\ ~(k = "start" /\ depth = 0)
            /\ b[1].op = (IF depth > 0 THEN "load" ELSE "or") /\ b[1].slot = s
    <2>1. CASE k = "start" /\ depth = 0
      BY <1>9, <2>1
    <2>2. CASE ~(k = "start" /\ depth = 0)
      <3>1. PICK op \in {"load", "or"} : op = IF depth > 0 THEN "load" ELSE "or"
        <4>1. (IF depth > 0 THEN "load" ELSE "or") \in {"load", "or"}
          OBVIOUS
        <4> QED BY ONLY <4>1, Zenon
      <3>2. PICK x : x = Step(op, s, {})
        OBVIOUS
      <3>3. b = <<x>>
        BY <1>9, <2>2, <3>1, <3>2
      <3>4. x.op = op /\ x.slot = s
        BY <3>2 DEF Step
      <3>5. DOMAIN b = {1} /\ b # <<>> /\ Head(b) = b[1] /\ b[1] = x
        BY ONLY <3>3
      <3> QED BY <2>2, <3>1, <3>4, <3>5
    <2> QED BY <2>1, <2>2
  <1>11. ASSUME NEW i \in DOMAIN b
         PROVE  i = 1 /\ b[i].op \in {"load", "or"} /\ b[i].slot = s
                /\ (b[i].op = "load" => depth > 0)
    BY <1>10
  <1>12. ASSUME NEW i \in DOMAIN b PROVE StepOK(b[i])'
    <2>1. PICK x : x = b[i]
      OBVIOUS
    <2>2. x.op \in {"load", "or"} /\ x.slot = s /\ (x.op = "load" => depth > 0)
      BY <1>11, <2>1
    <2>3. depth > 0 => Nest(s)' > 0
      <3>1. CASE opens
        <4>1. Nest(s)' = Nest(position) + 1 + 0
          <5>1. ~(s < s)
            BY <1>8
          <5> QED BY <1>2, <1>3, <1>8, <3>1, <5>1
        <4> QED BY ONLY <1>4, <4>1
      <3>2. CASE ~opens
        <4>1. s <= position /\ Nest(s) = Nest(position)
          BY <1>2, <1>8, <3>2
        <4> QED BY <1>3, <1>4, <1>8, <3>2, <4>1
      <3> QED BY <1>2, <3>1, <3>2
    <2> QED BY <1>2, <2>1, <2>2, <2>3 DEF StepOK, Written
  <1>13. StepsOK(todo)'
    BY <1>9, <1>11, <1>12 DEF StepsOK
  <1>14. ~SeenToken'
    <2> SUFFICES ASSUME b # <<>>, Head(b).op = "seen" PROVE FALSE
      BY <1>9 DEF SeenToken, Doing
    <2> QED BY <1>10
  <1>15. turn' = IF opens THEN position ELSE turn
    BY DEF Places
  <1>16. HeldBack'
    <2>1. CASE opens
      <3>1. Outermost' = position /\ writeBatchStart' = position /\ s # position
        BY <1>1, <1>2, <1>8, <1>15, <2>1 DEF Outermost
      <3>2. batchDepth' > 0
        BY <2>1
      <3> QED BY <1>1, <1>2, <1>9, <1>11, <2>1, <3>1, <3>2 DEF HeldBack, Written
    <2>2. CASE ~opens /\ batchDepth > 0
      <3>1. /\ Outermost \in Slots /\ Outermost < position
            /\ turn = 0 => blocks # <<>> /\ 1 \in DOMAIN blocks /\ Outermost = blocks[1]
        BY <2>2, OutermostBlock
      <3>2. turn = 0 => Head(blocks') = blocks[1]
        <4>1. turn = 0 => blocks \in Seq(Slots) /\ blocks # <<>>
          BY <1>4, <3>1
        <4>2. CASE k = "start"
          <5>1. blocks' = Append(blocks, s)
            BY <4>2
          <5> QED BY ONLY <4>1, <5>1, <1>2
        <4>3. CASE k # "start"
          BY <4>1, <4>3
        <4> QED BY <4>2, <4>3
      <3>3. Outermost' = Outermost
        <4>1. turn' = turn
          BY <1>15, <2>2
        <4> QED BY <3>1, <3>2, <4>1 DEF Outermost
      <3>4. writeBatchStart' = writeBatchStart /\ s # Outermost
        BY <1>2, <1>8, <2>2, <3>1
      <3>5. writeBatchStart # 0 => writeBatchStart = Outermost /\ ~Written(Outermost)
        BY <2>2, StartHeldBack
      <3>6. ~Written(Outermost) => "INSTR" \notin word'[Outermost]
        BY <1>2, <3>1 DEF Written
      <3>7. batchDepth' > 0
        BY <1>4, <2>2
      <3> QED BY <1>9, <1>11, <3>3, <3>4, <3>5, <3>6, <3>7 DEF HeldBack, Written
    <2>3. CASE ~opens /\ ~(batchDepth > 0) /\ k = "start"
      <3>1. depth = 0 /\ b = <<>>
        BY <1>4, <1>10, <2>3
      <3>2. Outermost' = s /\ writeBatchStart' = s
        <4>1. blocks' = <<s>> /\ turn' = 0
          <5>1. blocks = <<>> /\ turn = 0
            BY <1>4, <2>3
          <5>2. blocks' = Append(<<>>, s) /\ turn' = turn
            BY ONLY <1>15, <2>3, <5>1,
                    blocks' = IF k = "start" THEN Append(blocks, s) ELSE blocks
          <5>3. Append(<<>>, s) = <<s>>
            OBVIOUS
          <5> QED BY ONLY <5>1, <5>2, <5>3
        <4> QED BY <2>3, <3>1, <4>1 DEF Outermost
      <3>3. DOMAIN b = {}
        BY <3>1
      <3>4. batchDepth' > 0
        BY <2>3, <3>1
      <3> QED BY <1>2, <1>9, <3>2, <3>3, <3>4 DEF HeldBack, Written
    <2>4. CASE ~opens /\ ~(batchDepth > 0) /\ k # "start"
      <3>1. depth = 0 /\ batchDepth' = 0
        BY <1>4, <2>4
      <3>2. \A i \in DOMAIN b : b[i].op \notin {"load", "store"}
        BY <1>11, <3>1
      <3>3. /\ ~(batchDepth' > 0)
            /\ \A i \in DOMAIN todo' : todo'[i].op \notin {"load", "store"}
        BY ONLY <1>9, <3>1, <3>2
      <3> QED BY ONLY <3>3 DEF HeldBack
    <2> QED BY <1>2, <2>1, <2>2, <2>3, <2>4
  <1>17. Placement'
    BY <1>5, <1>7, <1>13, <1>16 DEF Placement
  <1>18. \A p \in Positions : \/ word'[p] = word[p]
                              \/ position < p /\ word'[p] = {"INSTR"}
    BY DEF Places
  <1>19. PICK list \in Seq(Slots) :
              /\ resolutions' = list /\ Len(resolutions) <= Len(list)
              /\ \A i \in DOMAIN resolutions : list[i] = resolutions[i]
              /\ \A i \in DOMAIN list : i > Len(resolutions) => position <= list[i]
    BY PlacesFresh
  <1>20. position' \in Nat /\ position <= position'
         /\ \A q \in Slots : q < position => kind'[q] = kind[q]
    <2>1. position <= position'
      BY ONLY <1>1, <1>2, <1>8
    <2> QED BY <1>2, <2>1
  <1>21. Token'
    BY ONLY OrderInv, UNCHANGED <<log, txnOf, worker, startAddress>>,
            <1>14, <1>18, <1>19, <1>20, NewSlots
  <1> QED BY <1>17, <1>21

LEMMA WriteOrder ==
  ASSUME OrderInv, NEW k \in {"write", "callback"}, NEW own \in BOOLEAN, Write(k, own)
  PROVE  Placement' /\ Token'
  <1>1. PICK startFull \in BOOLEAN, full \in BOOLEAN :
          LET place == Place(startFull, full) IN
          /\ Fits(place, 0) /\ Reserve(k, own, place)
          /\ batchDepth' = place.depth
          /\ writeBatchStart' = IF place.opensTurn THEN position ELSE writeBatchStart
          /\ todo' = <<Step(IF place.depth > 0 THEN "load" ELSE "or", place.slot, {})>>
          /\ UNCHANGED <<blocks, startAddress, log, txnOf, worker>>
    BY DEF Write, writing, history, starting
  <1> DEFINE place == Place(startFull, full)
  <1>2. Inv /\ TypeInv
    BY DEF OrderInv, Inv
  <1>3. /\ place.depth = IF place.opensTurn THEN 1 ELSE batchDepth
        /\ place.depth \in Nat
    BY <1>1, <1>2, PlaceFacts
  <1>4. Places(k, place.slot, place.opensTurn, place.pointers)
    BY <1>1, ReservePlaces
  <1>5. k \in Listed /\ k # "start"
    BY DEF Listed
  <1>6. /\ batchDepth' = place.depth
        /\ writeBatchStart' = IF place.opensTurn THEN position ELSE writeBatchStart
        /\ todo' = <<Step(IF place.depth > 0 THEN "load" ELSE "or", place.slot, {})>>
        /\ UNCHANGED <<blocks, startAddress, log, txnOf, worker>>
    BY <1>1
  <1> HIDE DEF place
  <1>7. PICK s, opens, pointers, depth :
          s = place.slot /\ opens = place.opensTurn /\ pointers = place.pointers
          /\ depth = place.depth
    OBVIOUS
  <1>8. /\ Places(k, s, opens, pointers) /\ depth = IF opens THEN 1 ELSE batchDepth
        /\ blocks' = IF k = "start" THEN Append(blocks, s) ELSE blocks
        /\ batchDepth' = depth + (IF k = "start" THEN 2 ELSE 0)
        /\ writeBatchStart' = IF opens THEN position
                            ELSE IF k = "start" /\ depth = 0 THEN s ELSE writeBatchStart
        /\ todo' = IF k = "start" /\ depth = 0 THEN <<>>
                 ELSE <<Step(IF depth > 0 THEN "load" ELSE "or", s, {})>>
        /\ UNCHANGED <<log, txnOf, worker, startAddress>>
    BY ONLY <1>3, <1>4, <1>5, <1>6, <1>7
  <1> QED BY ONLY OrderInv, <1>5, <1>8, PlacesOrder

LEMMA OpenBlockOrder ==
  ASSUME OrderInv, NEW own \in BOOLEAN, OpenBlock(own)
  PROVE  Placement' /\ Token'
  <1>1. PICK startFull \in BOOLEAN, full \in BOOLEAN :
          LET place == Place(startFull, full)
              nested == place.depth > 0 IN
          /\ Fits(place, 1) /\ Reserve("start", own, place)
          /\ batchDepth' = place.depth + 2
          /\ blocks' = Append(blocks, place.slot)
          /\ writeBatchStart' = IF place.opensTurn THEN position
                                ELSE IF nested THEN writeBatchStart ELSE place.slot
          /\ todo' = IF nested THEN <<Step("load", place.slot, {})>> ELSE <<>>
          /\ UNCHANGED <<startAddress, log, txnOf, worker>>
    BY DEF OpenBlock, writing, history, starting
  <1> DEFINE place == Place(startFull, full)
  <1>2. Inv /\ TypeInv
    BY DEF OrderInv, Inv
  <1>3. /\ place.depth = IF place.opensTurn THEN 1 ELSE batchDepth
        /\ place.depth \in Nat
    BY <1>1, <1>2, PlaceFacts
  <1>4. Places("start", place.slot, place.opensTurn, place.pointers)
    BY <1>1, ReservePlaces
  <1>5. PICK k \in Listed : k = "start"
    BY DEF Listed
  <1>6. /\ batchDepth' = place.depth + 2 /\ blocks' = Append(blocks, place.slot)
        /\ writeBatchStart' = IF place.opensTurn THEN position
                              ELSE IF place.depth > 0 THEN writeBatchStart ELSE place.slot
        /\ todo' = IF place.depth > 0 THEN <<Step("load", place.slot, {})>> ELSE <<>>
        /\ UNCHANGED <<startAddress, log, txnOf, worker>>
    BY <1>1
  <1> HIDE DEF place
  <1>7. PICK s, opens, pointers, depth :
          s = place.slot /\ opens = place.opensTurn /\ pointers = place.pointers
          /\ depth = place.depth
    OBVIOUS
  <1>8. depth = 0 <=> ~(depth > 0)
    BY <1>3, <1>7
  <1>9. /\ Places(k, s, opens, pointers) /\ depth = IF opens THEN 1 ELSE batchDepth
        /\ blocks' = IF k = "start" THEN Append(blocks, s) ELSE blocks
        /\ batchDepth' = depth + (IF k = "start" THEN 2 ELSE 0)
        /\ writeBatchStart' = IF opens THEN position
                            ELSE IF k = "start" /\ depth = 0 THEN s ELSE writeBatchStart
        /\ todo' = IF k = "start" /\ depth = 0 THEN <<>>
                 ELSE <<Step(IF depth > 0 THEN "load" ELSE "or", s, {})>>
        /\ UNCHANGED <<log, txnOf, worker, startAddress>>
    BY ONLY <1>3, <1>4, <1>5, <1>6, <1>7, <1>8
  <1> QED BY ONLY OrderInv, <1>5, <1>9, PlacesOrder

(* The end of a block takes the next slot; n is the one behind it.          *)
LEMMA NestEnd ==
  ASSUME OrderInv, EndBlock, position \in Slots, NEW n, n = position + 1
  PROVE  /\ \A p \in Nat : p <= position => Nest(p)' = Nest(p)
         /\ Nest(n)' = Nest(position) - 1
         /\ kind'[position] = "end" /\ \A q \in Slots : q # position => kind'[q] = kind[q]
         /\ position' = n /\ n \in Positions /\ n \in Nat
  <1>1. /\ position \in Nat /\ Slots \subseteq Nat /\ kind \in [Slots -> Kinds]
        /\ n \in Positions /\ n \in Nat
    <2>1. position + 1 \in Positions
      BY DEF Slots, Positions
    <2> QED BY <2>1, OrderTypes DEF OrderInv
  <1>2. kind'[position] = "end" /\ \A q \in Slots : q # position => kind'[q] = kind[q]
    BY <1>1 DEF EndBlock
  <1>3. ASSUME NEW p \in Nat, p <= position PROVE Nest(p)' = Nest(p)
    <2>1. \A q \in Slots : q < p => kind'[q] = kind[q]
      <3> SUFFICES ASSUME NEW q \in Slots, q < p PROVE kind'[q] = kind[q]
        OBVIOUS
      <3>1. q # position
        BY <1>1, <1>3
      <3> QED BY <1>2, <3>1
    <2> QED BY <2>1, NestStays
  <1>4. ASSUME NEW q \in Slots
        PROVE  /\ q < n <=> (q < position \/ q = position)
               /\ q < position => q # position
    BY <1>1
  <1>5. Starts(n)' = Starts(position)
    <2>1. \A q \in Slots : (q < n /\ kind'[q] = "start") <=> (q < position /\ kind[q] = "start")
      BY <1>2, <1>4
    <2> QED BY ONLY <2>1 DEF Starts
  <1>6. Ends(n)' = Ends(position) \cup {position}
    <2>1. \A q \in Slots : (q < n /\ kind'[q] = "end")
                             <=> (q < position /\ kind[q] = "end") \/ q = position
      BY <1>2, <1>4
    <2> QED BY ONLY <2>1, position \in Slots DEF Ends
  <1>7. position \notin Ends(position)
    BY <1>1 DEF Ends
  <1>8. /\ Cardinality(Ends(position) \cup {position}) = Cardinality(Ends(position)) + 1
        /\ Cardinality(Starts(position)) \in Nat /\ Cardinality(Ends(position)) \in Nat
    BY <1>7, FiniteBlocks, FS_AddElement
  <1>9. Nest(n)' = Cardinality(Starts(position)) - Cardinality(Ends(position) \cup {position})
    BY <1>5, <1>6 DEF Nest
  <1>10. Nest(position) = Cardinality(Starts(position)) - Cardinality(Ends(position))
    BY DEF Nest
  <1>11. Nest(n)' = Nest(position) - 1
    BY ONLY <1>8, <1>9, <1>10
  <1> QED BY <1>1, <1>2, <1>3, <1>11 DEF EndBlock

(* The end of a block, when one is open; it is written in the first step to *)
(* come, the start that was held back, t, in the second.                    *)
LEMMA EndPlaced ==
  ASSUME OrderInv, EndBlock, position \in Slots, Nest(position) > 0,
         UNCHANGED <<writtenBatchDepth, group, word, resolutions, log, txnOf, worker,
                     startAddress>>,
         NEW b, todo' = b, DOMAIN b \subseteq {1, 2}, b # <<>> => Head(b) = b[1],
         1 \in DOMAIN b => b[1].op \in {"load", "or"} /\ b[1].slot = position,
         NEW t, 2 \in DOMAIN b => /\ b[2].op = "or" /\ b[2].slot = t /\ t \in Slots
                                  /\ t < position /\ kind[t] \in Listed /\ ~Written(t),
         b # <<>> => 1 \in DOMAIN b
  PROVE  FreshSlots' /\ ListInOrder' /\ Nested' /\ StepsOK(todo)' /\ Token'
  <1>1. /\ Inv /\ FreshSlots /\ ListInOrder /\ Nested /\ position \in Nat
        /\ Slots \subseteq Nat /\ Positions \subseteq Nat /\ Slots \subseteq Positions
        /\ resolutions \in Seq(Slots)
    BY OrderTypes DEF OrderInv, Placement
  <1>2. PICK n : n = position + 1
    OBVIOUS
  <1>3. /\ \A p \in Nat : p <= position => Nest(p)' = Nest(p)
        /\ Nest(n)' = Nest(position) - 1
        /\ kind'[position] = "end" /\ \A q \in Slots : q # position => kind'[q] = kind[q]
        /\ position' = n /\ n \in Positions /\ n \in Nat
    BY <1>2, NestEnd
  <1>4. kind[position] = "none" /\ ~Written(position)
    <2>1. position <= position
      BY <1>1
    <2> QED BY <1>1, <2>1 DEF FreshSlots
  <1>5. ASSUME NEW q \in Slots
        PROVE  /\ kind'[q] \in Listed <=> kind[q] \in Listed
               /\ kind[q] # "none" => q < position
               /\ n <= q => position <= q /\ q # position
    <2>1. q \in Nat /\ (q < position \/ position <= q)
      BY <1>1
    <2>2. position <= q => kind[q] = "none"
      BY <1>1 DEF FreshSlots
    <2>3. n <= q => position <= q /\ q # position
      BY ONLY <1>1, <1>2, <2>1
    <2> QED BY <1>3, <1>4, <2>1, <2>2, <2>3 DEF Listed
  <1>6. FreshSlots'
    <2>1. \A q \in Slots : Written(q)' => kind'[q] # "none"
      <3> SUFFICES ASSUME NEW q \in Slots, Written(q) PROVE kind'[q] # "none"
        BY DEF Written
      <3> QED BY <1>1, <1>3 DEF FreshSlots
    <2>2. \A q \in Slots : n <= q => kind'[q] = "none" /\ writtenBatchDepth'[q] = 0
      BY <1>1, <1>3, <1>5 DEF FreshSlots
    <2> QED BY <1>3, <2>1, <2>2 DEF FreshSlots
  <1>7. ListInOrder'
    BY <1>1, <1>5 DEF ListInOrder
  <1>8. Nest(position) - 1 >= 0 /\ Nest(position) \in Int
    <2>1. Nest(position) \in Int
      BY FiniteBlocks
    <2> QED BY ONLY <2>1, Nest(position) > 0
  <1>9. \A p \in Positions : p <= n => p \in Nat /\ (p <= position \/ p = n)
    <2> SUFFICES ASSUME NEW p \in Positions, p <= n PROVE p \in Nat /\ (p <= position \/ p = n)
      OBVIOUS
    <2>1. p \in Nat
      BY <1>1
    <2> QED BY ONLY <1>1, <1>2, <2>1, p <= n
  <1>10. position <= position
    BY <1>1
  <1>11. ASSUME NEW q \in Slots, kind[q] # "none"
         PROVE  /\ Nest(q)' = Nest(q) /\ kind'[q] = kind[q] /\ q < n
                /\ \A p \in Positions : p <= q => Nest(p)' = Nest(p)
    <2>1. q < position /\ q \in Nat
      BY <1>1, <1>5, <1>11
    <2>2. q <= position /\ q < n /\ q # position
      BY ONLY <1>1, <1>2, <2>1
    <2>3. \A p \in Positions : p <= q => p \in Nat /\ p <= position
      <3> SUFFICES ASSUME NEW p \in Positions, p <= q PROVE p \in Nat /\ p <= position
        OBVIOUS
      <3>1. p \in Nat
        BY <1>1
      <3> QED BY ONLY <1>1, <2>1, <2>2, <3>1, p <= q
    <2> QED BY <1>3, <2>1, <2>2, <2>3
  <1>12. Nested'
    <2>1. \A p \in Positions : p <= n => Nest(p)' >= 0
      <3> SUFFICES ASSUME NEW p \in Positions, p <= n PROVE Nest(p)' >= 0
        OBVIOUS
      <3>1. CASE p = n
        BY <1>3, <1>8, <3>1
      <3>2. CASE p <= position
        BY <1>1, <1>3, <1>9, <3>2 DEF Nested
      <3> QED BY <1>9, <3>1, <3>2
    <2>2. ASSUME NEW q \in Slots, kind'[q] = "end" PROVE Nest(q)' > 0
      <3>1. CASE q = position
        BY <1>1, <1>3, <1>10, <3>1
      <3>2. CASE q # position
        <4>1. kind[q] = "end" /\ kind[q] # "none"
          BY <1>3, <2>2, <3>2
        <4>2. Nest(q) > 0
          BY <1>1, <4>1 DEF Nested
        <4> QED BY <1>11, <4>1, <4>2
      <3> QED BY <3>1, <3>2
    <2>3. ASSUME NEW q \in Slots, kind'[q] \in Listed
          PROVE  /\ writtenBatchDepth'[q] > 0 => Nest(q)' > 0
                 /\ group'[q] \in Slots /\ group'[q] <= q
                 /\ \A p \in Positions : group'[q] < p /\ p <= q => Nest(p)' > 0
      <3>1. kind[q] \in Listed /\ kind[q] # "none"
        BY <1>5, <2>3 DEF Listed
      <3>2. /\ writtenBatchDepth[q] > 0 => Nest(q) > 0
            /\ group[q] \in Slots /\ group[q] <= q
            /\ \A p \in Positions : group[q] < p /\ p <= q => Nest(p) > 0
        BY <1>1, <3>1 DEF Nested
      <3> QED BY <1>11, <3>1, <3>2
    <2> QED BY <1>3, <2>1, <2>2, <2>3 DEF Nested
  <1>13. StepsOK(todo)'
    <2>1. ASSUME NEW i \in DOMAIN b PROVE StepOK(b[i])'
      <3>1. PICK x : x = b[i]
        OBVIOUS
      <3>2. CASE i = 1
        <4>1. PICK s \in Slots : s = position
          OBVIOUS
        <4>2. x.op \in {"load", "or"} /\ x.slot = s
          BY <3>1, <3>2, <4>1
        <4>3. Nest(s)' > 0 /\ kind'[s] = "end" /\ s < position'
          BY <1>1, <1>2, <1>3, <1>10, <4>1
        <4>4. ~Written(s)'
          BY <1>4, <4>1 DEF Written
        <4> QED BY <3>1, <4>2, <4>3, <4>4 DEF StepOK
      <3>3. CASE i = 2
        <4>1. /\ x.op = "or" /\ x.slot = t /\ t \in Slots /\ kind[t] \in Listed /\ ~Written(t)
              /\ kind[t] # "none"
          BY <3>1, <3>3 DEF Listed
        <4>2. kind'[t] \in Listed /\ t < position' /\ ~Written(t)'
          BY <1>3, <1>5, <1>11, <4>1 DEF Written
        <4> QED BY <3>1, <4>1, <4>2 DEF StepOK
      <3> QED BY <3>2, <3>3
    <2>2. \A i, j \in DOMAIN b : b[i].slot = b[j].slot => i = j
      <3>1. 2 \in DOMAIN b => b[2].slot # b[1].slot
        <4>1. 2 \in DOMAIN b => b # <<>>
          OBVIOUS
        <4>2. 2 \in DOMAIN b => t # position
          BY <1>1
        <4> QED BY <4>1, <4>2
      <3> QED BY <3>1
    <2>3. \A i \in DOMAIN b : b[i].op # "seen"
      OBVIOUS
    <2> QED BY <2>1, <2>2, <2>3 DEF StepsOK
  <1>14. ~SeenToken'
    <2> SUFFICES ASSUME b # <<>>, Head(b).op = "seen" PROVE FALSE
      BY DEF SeenToken, Doing
    <2> QED OBVIOUS
  <1>15. Token'
    <2>1. position' \in Nat /\ position <= position'
          /\ \A q \in Slots : q < position => kind'[q] = kind[q]
      <3>1. position <= n /\ \A q \in Slots : q < position => q # position
        BY <1>1, <1>2
      <3> QED BY <1>3, <3>1
    <2>2. PICK list \in Seq(Slots) : list = resolutions
      BY <1>1
    <2>3. /\ resolutions' = list /\ Len(resolutions) <= Len(list)
          /\ \A i \in DOMAIN resolutions : list[i] = resolutions[i]
          /\ \A i \in DOMAIN list : i > Len(resolutions) => position <= list[i]
      <3>1. Len(list) \in Nat /\ DOMAIN list = 1..Len(list)
        BY <2>2
      <3>2. \A i \in DOMAIN list : ~(i > Len(list))
        BY ONLY <3>1
      <3>3. Len(list) <= Len(list)
        BY ONLY <3>1
      <3> QED BY <2>2, <3>2, <3>3
    <2> QED BY ONLY OrderInv, <1>14, <2>1, <2>3, NewSlots,
              UNCHANGED <<word, resolutions, log, txnOf, worker, startAddress>>
  <1> QED BY <1>6, <1>7, <1>12, <1>13, <1>15

LEMMA CloseBlockOrder ==
  ASSUME OrderInv, CloseBlock
  PROVE  Placement' /\ Token'
  <1> DEFINE s == blocks[Len(blocks)]
             depth == batchDepth - 2
  <1>1. /\ Inv /\ OpenBlocks /\ position \in Nat
        /\ Slots \subseteq Nat /\ Positions \subseteq Nat /\ 0 \notin Slots
    BY OrderTypes, SlotFacts DEF OrderInv, Placement
  <1>2. /\ blocks # <<>> /\ EndBlock /\ batchDepth' = depth
        /\ blocks' = SubSeq(blocks, 1, Len(blocks) - 1)
        /\ writeBatchStart' = IF writeBatchStart = s THEN 0 ELSE writeBatchStart
        /\ todo' = IF writeBatchStart = s
                   THEN <<Step("load", position, {}), Finish(s)>>
                   ELSE <<Step(IF depth > 0 THEN "load" ELSE "or", position, {})>>
        /\ UNCHANGED <<writtenBatchDepth, group, word, resolutions, log, txnOf, worker,
                       startAddress, turn>>
    BY DEF CloseBlock, shared, writing, history, starting
  <1>3. PICK m \in Nat : m = Len(blocks)
    BY OpenCount
  <1>4. PICK d \in Nat : d = Nest(position)
    BY OpenCount
  <1>5. /\ d = m + (IF turn # 0 THEN 1 ELSE 0)
        /\ batchDepth = 2 * m + (IF turn # 0 THEN 1 ELSE 0) /\ batchDepth \in Nat
        /\ blocks \in Seq(Slots) /\ turn \in {0} \cup Slots /\ m > 0
    <2>1. /\ Nest(position) = Len(blocks) + (IF turn # 0 THEN 1 ELSE 0)
          /\ batchDepth = 2 * Len(blocks) + (IF turn # 0 THEN 1 ELSE 0)
          /\ batchDepth \in Nat /\ blocks \in Seq(Slots) /\ turn \in {0} \cup Slots
      BY OpenCount
    <2>2. Len(blocks) > 0
      BY <1>2, <2>1
    <2> QED BY ONLY <1>3, <1>4, <2>1, <2>2
  <1>6. batchDepth > 0 /\ d > 0
    BY ONLY <1>5
  <1>7. position \in Slots
    <2>1. position + Len(blocks) + (IF turn # 0 THEN 1 ELSE 0) <= NSlots + 1 /\ NSlots \in Nat
      BY <1>1 DEF Inv, TypeInv, RoomForEnds
    <2>2. position <= NSlots
      BY ONLY <1>1, <1>3, <1>5, <2>1
    <2> QED BY <1>1, <2>2, OrderTypes, SlotFacts
  <1>8. /\ s \in Slots /\ s < position /\ kind[s] = "start" /\ m \in DOMAIN blocks
        /\ DOMAIN blocks = 1..m
    <2>1. m \in DOMAIN blocks /\ DOMAIN blocks = 1..m
      BY <1>3, <1>5
    <2> QED BY <1>1, <1>3, <1>5, <2>1 DEF OpenBlocks
  <1>9. PICK n : n = position + 1
    OBVIOUS
  <1>10. /\ \A p \in Nat : p <= position => Nest(p)' = Nest(p)
         /\ Nest(n)' = d - 1
         /\ \A q \in Slots : q # position => kind'[q] = kind[q]
         /\ position' = n /\ n \in Positions /\ n \in Nat
    BY <1>2, <1>4, <1>7, <1>9, NestEnd
  <1>11. PICK f \in Seq(Slots) : f = blocks'
    BY <1>2, <1>5, FrontOfSeq
  <1>12. /\ Len(f) = m - 1 /\ DOMAIN f = 1..m - 1
         /\ \A i \in 1..m - 1 : f[i] = blocks[i] /\ i \in DOMAIN blocks
    <2>1. f = SubSeq(blocks, 1, m - 1)
      BY <1>2, <1>3, <1>11
    <2>2. m - 1 \in Nat /\ Len(blocks) = m
      BY <1>3, <1>5
    <2>3. Len(f) = m - 1
      BY <1>2, <1>3, <1>5, <2>1, FrontOfSeq
    <2>4. \A i \in 1..m - 1 : f[i] = blocks[i]
      BY ONLY <1>5, <2>1, <2>2
    <2>5. \A i \in 1..m - 1 : i \in 1..m
      BY ONLY <2>2, m \in Nat
    <2>6. DOMAIN f = 1..m - 1
      BY ONLY <2>3, f \in Seq(Slots)
    <2> QED BY ONLY <1>8, <2>3, <2>4, <2>5, <2>6
  (* The outermost block stays, unless this was it.                         *)
  <1>13. /\ Outermost \in Slots /\ Outermost < position /\ kind[Outermost] = "start"
         /\ writtenBatchDepth[Outermost] = 0
         /\ turn = 0 => Outermost = blocks[1]
         /\ \A p \in Positions : Outermost < p /\ p <= position => Nest(p) > 0
    BY <1>1, <1>6, OutermostBlock DEF OpenBlocks
  <1>14. ASSUME batchDepth' > 0 PROVE Outermost' = Outermost /\ d > 1
    <2>1. turn # 0 \/ m > 1
      <3>1. batchDepth - 2 > 0
        BY <1>2, <1>14
      <3> QED BY ONLY <1>5, <3>1
    <2>2. d > 1
      BY ONLY <1>5, <2>1
    <2>3. CASE turn # 0
      BY <1>2, <2>2, <2>3 DEF Outermost
    <2>4. CASE turn = 0
      <3>1. 1 \in 1..m - 1 /\ f # <<>>
        <4>1. 1 \in 1..m - 1
          BY ONLY <2>1, <2>4, m \in Nat
        <4> QED BY ONLY <1>12, <4>1
      <3>2. Head(f) = f[1] /\ f[1] = blocks[1]
        BY <1>12, <3>1
      <3>3. turn' = 0 /\ Head(blocks') = blocks[1]
        BY <1>2, <1>11, <2>4, <3>2
      <3> QED BY <1>13, <2>2, <2>4, <3>3 DEF Outermost
    <2> QED BY <2>3, <2>4
  <1>15. ASSUME ~(batchDepth' > 0) PROVE Outermost = s /\ batchDepth' = 0
    <2>1. m = 1 /\ turn = 0
      <3>1. ~(batchDepth - 2 > 0)
        BY <1>2, <1>15
      <3> QED BY ONLY <1>5, <3>1
    <2>2. depth = 0
      BY ONLY <1>5, <2>1
    <2> QED BY <1>2, <1>3, <1>13, <2>1, <2>2
  (* The steps to come.                                                     *)
  <1>16. writeBatchStart # 0 => /\ writeBatchStart = Outermost /\ ~Written(writeBatchStart)
                                /\ Finish(writeBatchStart) = Step("or", writeBatchStart, {})
    BY <1>6, StartHeldBack
  <1>17. PICK t \in Slots : t = s
    BY <1>8
  <1>18. PICK op \in {"load", "or"} :
           op = IF writeBatchStart = s \/ depth > 0 THEN "load" ELSE "or"
    <2>1. (IF writeBatchStart = s \/ depth > 0 THEN "load" ELSE "or") \in {"load", "or"}
      OBVIOUS
    <2> QED BY ONLY <2>1, Zenon
  <1>19. PICK b : b = todo'
    OBVIOUS
  <1>20. PICK x : x = Step(op, position, {})
    OBVIOUS
  <1>21. PICK y : y = Step("or", t, {})
    OBVIOUS
  <1>22. x.op = op /\ x.slot = position /\ y.op = "or" /\ y.slot = t
    BY <1>20, <1>21 DEF Step
  <1>23. writeBatchStart = s => /\ Finish(s) = y /\ ~Written(t) /\ s = Outermost
    BY <1>1, <1>8, <1>16, <1>17, <1>21
  <1>24. b = IF writeBatchStart = s THEN <<x, y>> ELSE <<x>>
    BY <1>2, <1>18, <1>19, <1>20, <1>23
  <1> HIDE DEF s, depth
  <1>25. /\ DOMAIN b \subseteq {1, 2} /\ b # <<>> /\ Head(b) = b[1] /\ 1 \in DOMAIN b
         /\ b[1] = x /\ (2 \in DOMAIN b => b[2] = y /\ writeBatchStart = s)
    <2>1. CASE writeBatchStart = s
      <3>1. b = <<x, y>>
        BY <1>24, <2>1
      <3> QED BY ONLY <2>1, <3>1
    <2>2. CASE writeBatchStart # s
      <3>1. b = <<x>>
        BY <1>24, <2>2
      <3> QED BY ONLY <2>2, <3>1
    <2> QED BY <2>1, <2>2
  <1>26. /\ DOMAIN b \subseteq {1, 2} /\ (b # <<>> => Head(b) = b[1])
         /\ 1 \in DOMAIN b => b[1].op \in {"load", "or"} /\ b[1].slot = position
         /\ 2 \in DOMAIN b => /\ b[2].op = "or" /\ b[2].slot = t /\ t \in Slots
                              /\ t < position /\ kind[t] \in Listed /\ ~Written(t)
         /\ b # <<>> => 1 \in DOMAIN b
    <2>1. kind[t] \in Listed /\ t < position
      BY <1>8, <1>17 DEF Listed
    <2> QED BY ONLY <1>17, <1>22, <1>23, <1>25, <2>1, op \in {"load", "or"}
  <1>27. Nest(position) > 0
    BY <1>4, <1>6
  <1>28. todo' = b
    BY <1>19
  <1>29. FreshSlots' /\ ListInOrder' /\ Nested' /\ StepsOK(todo)' /\ Token'
    BY ONLY OrderInv, <1>2, <1>7, <1>26, <1>27, <1>28, EndPlaced
  <1>30. HeldBack'
    <2> SUFFICES ASSUME writeBatchStart' # 0 PROVE HeldBack'
      BY DEF HeldBack
    <2>1. writeBatchStart # s /\ writeBatchStart' = writeBatchStart
      BY <1>2
    <2>2. writeBatchStart = Outermost /\ ~Written(writeBatchStart)
      BY <1>16, <2>1
    <2>3. batchDepth' > 0
      BY <1>15, <2>1, <2>2
    <2>4. Outermost' = Outermost
      BY <1>14, <2>3
    <2>5. \A i \in DOMAIN b : b[i].slot # Outermost
      <3>1. \A i \in DOMAIN b : b[i] = x
        BY <1>24, <2>1
      <3>2. position # Outermost
        BY <1>1, <1>13
      <3> QED BY <1>22, <3>1, <3>2
    <2>6. "INSTR" \notin word'[Outermost]
      BY <1>2, <2>2 DEF Written
    <2>7. /\ batchDepth' > 0 /\ writeBatchStart' = Outermost'
          /\ "INSTR" \notin word'[writeBatchStart']
          /\ \A i \in DOMAIN todo' : todo'[i].slot # writeBatchStart'
      BY <1>19, <2>1, <2>2, <2>3, <2>4, <2>5, <2>6
    <2> QED BY <2>7 DEF HeldBack, Written
  <1>31. OpenBlocks'
    <2>1. ASSUME NEW i \in DOMAIN f
          PROVE  turn' < f[i] /\ f[i] < position' /\ kind'[f[i]] = "start"
      <3>1. PICK q \in Slots : q = f[i]
        OBVIOUS
      <3>2. turn < q /\ q < position /\ kind[q] = "start"
        BY <1>1, <1>12, <3>1 DEF OpenBlocks
      <3>3. q < n /\ q # position
        <4>1. q \in Nat
          BY <1>1
        <4> QED BY ONLY <1>1, <1>9, <3>2, <4>1
      <3> QED BY <1>2, <1>10, <3>1, <3>2, <3>3
    <2>2. \A i, j \in DOMAIN f : i < j => f[i] < f[j]
      BY <1>1, <1>12 DEF OpenBlocks
    <2>3. turn' # 0 => turn' < position' /\ kind'[turn'] = "start"
      <3> SUFFICES ASSUME turn # 0 PROVE turn < n /\ kind'[turn] = "start"
        BY <1>2, <1>10
      <3>1. turn < position /\ kind[turn] = "start" /\ turn \in Slots /\ turn \in Nat
        BY <1>1, <1>5 DEF OpenBlocks
      <3>2. turn < n /\ turn # position
        BY ONLY <1>1, <1>9, <3>1
      <3> QED BY <1>10, <3>1, <3>2
    <2>4. Nest(n)' = Len(f) + (IF turn' # 0 THEN 1 ELSE 0)
      <3>1. turn' = turn
        BY <1>2
      <3> QED BY ONLY <1>5, <1>10, <1>12, <3>1
    <2>5. ASSUME batchDepth' > 0
          PROVE  /\ writtenBatchDepth'[Outermost] = 0
                 /\ \A p \in Positions : Outermost < p /\ p <= n => Nest(p)' > 0
      <3>1. d > 1
        BY <1>14, <2>5
      <3>2. ASSUME NEW p \in Positions, Outermost < p, p <= n PROVE Nest(p)' > 0
        <4>1. p \in Nat /\ (p <= position \/ p = n)
          <5>1. p \in Nat
            BY <1>1
          <5> QED BY ONLY <1>1, <1>9, <3>2, <5>1
        <4>2. CASE p <= position
          BY <1>10, <1>13, <3>2, <4>1, <4>2
        <4>3. CASE p = n
          <5>1. d - 1 > 0
            BY ONLY <3>1, d \in Nat
          <5> QED BY <1>10, <4>3, <5>1
        <4> QED BY <4>1, <4>2, <4>3
      <3> QED BY <1>2, <1>13, <3>2
    <2>6. ASSUME batchDepth' > 0
          PROVE  /\ writtenBatchDepth'[Outermost'] = 0
                 /\ \A p \in Positions : Outermost' < p /\ p <= position' => Nest(p)' > 0
      BY <1>10, <1>14, <2>5, <2>6
    <2>7. \A i \in DOMAIN f : turn' < f[i]
      BY <2>1
    <2>8. \A i \in DOMAIN f : f[i] < position' /\ kind'[f[i]] = "start"
      BY <2>1
    <2>9. n = position'
      BY <1>10
    <2> QED BY <1>11, <2>2, <2>3, <2>4, <2>6, <2>7, <2>8, <2>9 DEF OpenBlocks
  <1> QED BY <1>29, <1>30, <1>31 DEF Placement

LEMMA EndTurnOrder ==
  ASSUME OrderInv, EndTurn
  PROVE  Placement' /\ Token'
  <1>1. /\ Inv /\ OpenBlocks /\ position \in Nat
        /\ Slots \subseteq Nat /\ Positions \subseteq Nat /\ 0 \notin Slots
    BY OrderTypes, SlotFacts DEF OrderInv, Placement
  <1>2. /\ blocks = <<>> /\ turn # 0 /\ EndBlock /\ batchDepth' = batchDepth - 1 /\ turn' = 0
        /\ todo' = <<Step(IF batchDepth > 1 THEN "load" ELSE "or", position, {})>> \o
             (IF writeBatchStart # 0 THEN <<Finish(writeBatchStart)>> ELSE <<>>)
        /\ UNCHANGED <<writtenBatchDepth, group, word, resolutions, log, txnOf, worker,
                       startAddress, blocks, writeBatchStart>>
    BY DEF EndTurn, shared, writing, history, starting
  <1>3. Nest(position) = 1 /\ batchDepth = 1
    <2>1. /\ Nest(position) = Len(blocks) + (IF turn # 0 THEN 1 ELSE 0)
          /\ batchDepth = 2 * Len(blocks) + (IF turn # 0 THEN 1 ELSE 0)
      BY OpenCount
    <2>2. Len(blocks) = 0
      BY <1>2
    <2> QED BY ONLY <1>2, <2>1, <2>2
  <1>4. batchDepth > 0 /\ ~(batchDepth > 1) /\ batchDepth' = 0 /\ Nest(position) > 0
    BY <1>2, <1>3
  <1>5. position \in Slots
    <2>1. position + Len(blocks) + (IF turn # 0 THEN 1 ELSE 0) <= NSlots + 1 /\ NSlots \in Nat
      BY <1>1 DEF Inv, TypeInv, RoomForEnds
    <2>2. Len(blocks) = 0
      BY <1>2
    <2>3. position <= NSlots
      BY ONLY <1>1, <1>2, <2>1, <2>2
    <2> QED BY <1>1, <2>3, OrderTypes, SlotFacts
  <1>6. writeBatchStart # 0 =>
          /\ writeBatchStart \in Slots /\ writeBatchStart < position
          /\ kind[writeBatchStart] \in Listed /\ ~Written(writeBatchStart)
          /\ Finish(writeBatchStart) = Step("or", writeBatchStart, {})
    BY <1>4, StartHeldBack DEF Listed
  <1>7. PICK t : t = writeBatchStart
    OBVIOUS
  <1>8. PICK x : x = Step("or", position, {})
    OBVIOUS
  <1>9. PICK y : y = Step("or", t, {})
    OBVIOUS
  <1>10. x.op = "or" /\ x.slot = position /\ y.op = "or" /\ y.slot = t
    BY <1>8, <1>9 DEF Step
  <1>11. PICK b : b = todo'
    OBVIOUS
  <1>12. b = <<x>> \o (IF t # 0 THEN <<y>> ELSE <<>>)
    <2>1. Step(IF batchDepth > 1 THEN "load" ELSE "or", position, {}) = x
      BY <1>4, <1>8
    <2>2. t # 0 => Finish(t) = y
      BY <1>6, <1>7, <1>9
    <2> QED BY <1>2, <1>7, <1>11, <2>1, <2>2
  <1>13. /\ DOMAIN b \subseteq {1, 2} /\ b # <<>> /\ Head(b) = b[1] /\ 1 \in DOMAIN b
         /\ b[1] = x /\ (2 \in DOMAIN b => b[2] = y /\ t # 0)
    <2>1. CASE t # 0
      <3>1. b = <<x>> \o <<y>>
        BY <1>12, <2>1
      <3>2. x \in JSSteps /\ y \in JSSteps
        BY <1>5, <1>6, <1>7, <1>8, <1>9, <2>1, StepTypes
      <3>3. PICK rest \in Seq(JSSteps) : rest = <<y>>
        <4>1. <<y>> \in Seq(JSSteps)
          BY <3>2
        <4> QED BY ONLY <4>1, Zenon
      <3>4. /\ b \in Seq(JSSteps) /\ b[1] = x /\ DOMAIN b = 1..Len(rest) + 1
            /\ \A i \in DOMAIN b : i # 1 => b[i] = rest[i - 1]
        BY <3>1, <3>2, <3>3, StepBefore
      <3>5. Len(rest) = 1 /\ rest[1] = y
        BY <3>3
      <3>6. DOMAIN b = {1, 2} /\ b[2] = y
        BY ONLY <3>4, <3>5
      <3>7. b # <<>> /\ Head(b) = b[1]
        BY ONLY <3>4, <3>6
      <3> QED BY ONLY <2>1, <3>4, <3>6, <3>7
    <2>2. CASE t = 0
      <3>1. b = <<x>>
        BY <1>12, <2>2
      <3> QED BY ONLY <2>2, <3>1
    <2> QED BY <2>1, <2>2
  <1>14. /\ DOMAIN b \subseteq {1, 2} /\ (b # <<>> => Head(b) = b[1])
         /\ 1 \in DOMAIN b => b[1].op \in {"load", "or"} /\ b[1].slot = position
         /\ 2 \in DOMAIN b => /\ b[2].op = "or" /\ b[2].slot = t /\ t \in Slots
                              /\ t < position /\ kind[t] \in Listed /\ ~Written(t)
         /\ b # <<>> => 1 \in DOMAIN b
    BY <1>6, <1>7, <1>10, <1>13
  <1>15. todo' = b
    BY <1>11
  <1>16. FreshSlots' /\ ListInOrder' /\ Nested' /\ StepsOK(todo)' /\ Token'
    BY ONLY OrderInv, <1>2, <1>4, <1>5, <1>14, <1>15, EndPlaced
  <1>17. HeldBack'
    <2>1. /\ ~(batchDepth' > 0)
          /\ \A i \in DOMAIN todo' : todo'[i].op \notin {"load", "store"}
      <3>1. \A i \in DOMAIN b : b[i] = x \/ b[i] = y
        BY <1>13
      <3> QED BY <1>4, <1>10, <1>15, <3>1
    <2> QED BY ONLY <2>1 DEF HeldBack
  <1>18. PICK n : n = position + 1
    OBVIOUS
  <1>19. Nest(n)' = 0 /\ position' = n
    BY <1>2, <1>3, <1>5, <1>18, NestEnd
  <1>20. OpenBlocks'
    <2>1. blocks' = <<>> /\ turn' = 0 /\ ~(batchDepth' > 0) /\ Len(blocks') = 0
          /\ DOMAIN blocks' = {}
      BY <1>2, <1>4
    <2> QED BY ONLY <1>19, <2>1 DEF OpenBlocks
  <1> QED BY <1>16, <1>17, <1>20 DEF Placement

LEMMA CallOrder ==
  ASSUME OrderInv, Call
  PROVE  Placement' /\ Token'
  <1>1. CASE Write("write", FALSE)
    BY <1>1, WriteOrder
  <1>2. CASE Write("write", TRUE)
    BY <1>2, WriteOrder
  <1>3. CASE Write("callback", FALSE)
    BY <1>3, WriteOrder
  <1>4. CASE OpenBlock(FALSE)
    BY <1>4, OpenBlockOrder
  <1>5. CASE OpenBlock(TRUE)
    BY <1>5, OpenBlockOrder
  <1> QED BY <1>1, <1>2, <1>3, <1>4, <1>5 DEF Call

LEMMA EventOrder ==
  ASSUME OrderInv, Event
  PROVE  Placement' /\ Token'
  BY CloseBlockOrder, EndTurnOrder, CommitTimerOrder, CompletionOrder, ProgressOrder DEF Event

-----------------------------------------------------------------------------
(* The invariant.                                                           *)

(* Before the first call nothing is placed, and the token is the DELIMITER  *)
(* the first word begins with.                                              *)
LEMMA InitOrder == Init => OrderInv
  <1> SUFFICES ASSUME Init PROVE OrderInv
    OBVIOUS
  <1>1. Inv
    BY InitTypeInv, InitInv
  <1>2. /\ position = 1 /\ 1 \in Positions /\ Slots \subseteq Nat /\ Positions \subseteq Nat
        /\ \A s \in Slots : /\ kind[s] = "none" /\ writtenBatchDepth[s] = 0 /\ txnOf[s] = 0
                            /\ worker[s].pc = "none" /\ 1 <= s
        /\ \A p \in Positions : word[p] = IF p = 1 THEN {"DELIMITER", "COMMITTED"} ELSE {}
        /\ batchDepth = 0 /\ blocks = <<>> /\ turn = 0 /\ writeBatchStart = 0
        /\ startAddress = 0 /\ resolutions = <<>> /\ todo = <<>> /\ log = <<>>
    BY SlotFacts DEF Init, WorkerAt
  <1>3. \A p : Nest(p) = 0
    <2> SUFFICES ASSUME NEW p PROVE Nest(p) = 0
      OBVIOUS
    <2>1. Starts(p) = {} /\ Ends(p) = {}
      BY <1>2 DEF Starts, Ends
    <2>2. Cardinality({}) = 0
      BY FS_EmptySet
    <2> QED BY <2>1, <2>2 DEF Nest
  <1>4. DOMAIN todo = {} /\ DOMAIN blocks = {} /\ DOMAIN resolutions = {} /\ DOMAIN log = {}
        /\ Len(blocks) = 0 /\ Len(log) = 0
    BY <1>2
  <1>5. \A s \in Slots : kind[s] \notin Listed \cup {"end"}
    BY <1>2 DEF Listed
  <1>6. \A p \in Positions : /\ ~Written(p) /\ (Free(p) => p = 1)
                             /\ ("DELIMITER" \in word[p] => p = 1)
    BY <1>2 DEF Written, Free
  <1>7. \A w \in Slots : ~Launched(w)
    BY <1>2 DEF Launched
  <1>8. ~SeenToken
    BY <1>2 DEF SeenToken, Doing
  <1>9. Frontier(1)
    BY <1>2, <1>5 DEF Frontier
  <1>10. FreshSlots
    BY <1>2, <1>6, SlotFacts DEF FreshSlots
  <1>11. ListInOrder
    BY <1>4, <1>5 DEF ListInOrder
  <1>12. StepsOK(todo)
    BY <1>4 DEF StepsOK
  <1>13. HeldBack
    BY <1>2 DEF HeldBack
  <1>14. OpenBlocks
    BY <1>2, <1>3, <1>4 DEF OpenBlocks
  <1>15. Nested
    BY <1>3, <1>5 DEF Nested
  <1>16. OneToken
    BY <1>2, <1>6, <1>7, <1>8 DEF OneToken
  <1>17. AtFrontier
    BY <1>2, <1>6, <1>8, <1>9 DEF AtFrontier
  <1>18. Delimiters
    BY <1>2, <1>3, <1>6 DEF Delimiters
  <1>19. WorkersKnow
    BY <1>7 DEF WorkersKnow, Knows, Launched
  <1>20. Logged /\ InTxns
    BY <1>2, <1>4, <1>7 DEF Logged, InOrder, InTxns
  <1> QED BY <1>1, <1>10, <1>11, <1>12, <1>13, <1>14, <1>15, <1>16, <1>17, <1>18, <1>19, <1>20
          DEF OrderInv, Placement, Token

LEMMA OrderNext == OrderInv /\ [Next]_vars => OrderInv'
  <1> SUFFICES ASSUME OrderInv, [Next]_vars PROVE OrderInv'
    OBVIOUS
  <1>1. Inv'
    BY NextInv DEF OrderInv
  <1>2. CASE Call
    BY <1>1, <1>2, CallOrder DEF OrderInv
  <1>3. CASE Event
    BY <1>1, <1>3, EventOrder DEF OrderInv
  <1>4. CASE JavaScriptStep
    BY <1>1, <1>4, JavaScriptStepOrder DEF OrderInv
  <1>5. CASE \E w \in Slots : WorkerStep(w)
    BY <1>1, <1>5, WorkerStepOrder DEF OrderInv
  <1>6. CASE UNCHANGED vars
    <2>1. /\ UNCHANGED JavaScriptVars
          /\ UNCHANGED <<word, worker, log, txnOf, todo, position, kind, resolutions,
                        startAddress>>
      BY <1>6 DEF vars, JavaScriptVars, shared, writing, history, placing, starting
    <2>2. PICK w \in Slots : w = 1
      BY SlotFacts
    <2>3. Knows(w) /\ worker[w].at \in Positions
      BY OrderTypes DEF OrderInv, Token, WorkersKnow
    <2>4. Knows(w)'
      BY <2>1, <2>3, KnowsStays DEF Written
    <2>5. Launched(w)' => Launched(w)
      BY <2>1 DEF Launched
    <2>6. Placement' /\ Token'
      BY <2>1, <2>4, <2>5, WorkerMoves DEF Written
    <2> QED BY <1>1, <2>6 DEF OrderInv
  <1> QED BY <1>2, <1>3, <1>4, <1>5, <1>6 DEF Next, Quiescent

(* The invariant implies what the runs check.                               *)
LEMMA OrderImplies == OrderInv => InOrder /\ BlocksAreAtomic
  <1> SUFFICES ASSUME OrderInv PROVE InOrder /\ BlocksAreAtomic
    OBVIOUS
  <1>1. Logged /\ InTxns /\ Nested /\ Slots \subseteq Nat /\ Slots \subseteq Positions
        /\ txnOf \in [Slots -> {0} \cup Slots]
    BY OrderTypes DEF OrderInv, Placement, Token
  <1>2. ASSUME NEW r \in Slots, NEW s \in Slots, r < s, txnOf[r] # 0, txnOf[s] # 0,
               group[r] = group[s]
        PROVE  txnOf[r] = txnOf[s]
    <2>1. PICK t \in Slots : t = txnOf[s]
      BY <1>1, <1>2
    <2>2. t <= s /\ Nest(t) = 0 /\ r \in Nat /\ s \in Nat /\ t \in Nat /\ t \in Positions
      BY <1>1, <1>2, <2>1 DEF InTxns
    <2>3. kind[r] \in Listed /\ kind[s] \in Listed
      BY <1>1, <1>2 DEF Logged
    <2>4. group[r] <= r /\ group[r] \in Nat
          /\ \A p \in Positions : group[s] < p /\ p <= s => Nest(p) > 0
      BY <1>1, <2>3 DEF Nested
    <2>5. ~(group[r] < t)
      BY <1>2, <2>2, <2>4
    <2>6. t <= r /\ r <= s
      BY ONLY <1>2, <2>2, <2>4, <2>5
    <2> QED BY <1>1, <1>2, <2>1, <2>6 DEF InTxns
  <1>3. BlocksAreAtomic
    <2> SUFFICES ASSUME NEW r \in Slots, NEW s \in Slots, txnOf[r] # 0, txnOf[s] # 0,
                        group[r] = group[s]
                 PROVE  txnOf[r] = txnOf[s]
      BY DEF BlocksAreAtomic
    <2>1. r < s \/ r = s \/ s < r
      BY <1>1
    <2> QED BY <1>2, <2>1
  <1> QED BY <1>1, <1>3 DEF Logged

(* The invariant of WriteQueueOrder: JavaScript places every instruction    *)
(* once, and one token passes between JavaScript and the workers            *)
(* (writeInstructions, DoWrites).                                           *)
THEOREM OrderCorrect == Spec => []OrderInv
  BY InitOrder, OrderNext, PTL DEF Spec

(* The workers process the instructions of the shared buffer in the order   *)
(* they were submitted, each once, and leave none out (DoWrites against     *)
(* writeInstructions).                                                      *)
THEOREM InstructionsInOrder == Spec => []InOrder
  BY OrderCorrect, OrderImplies, PTL

(* The writes of an event turn, or of a user's batch or ifVersion block,    *)
(* are part of one transaction: no worker ends its transaction inside a     *)
(* block (startBatch and finishBatch of write.js, batchDepth in DoWrites).  *)
THEOREM BlocksAtomic == Spec => []BlocksAreAtomic
  BY OrderCorrect, OrderImplies, PTL
=============================================================================
