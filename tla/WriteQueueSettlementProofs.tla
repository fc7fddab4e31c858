--------------------- MODULE WriteQueueSettlementProofs ---------------------
(***************************************************************************)
(* Proofs about the settlement of the promises of WriteQueue, and about    *)
(* the transactions its user callbacks run in.                             *)
(***************************************************************************)
EXTENDS WriteQueueAnswers, WriteQueueProofs

USE ConstantsAssumption

-----------------------------------------------------------------------------
(* What lasts.                                                              *)

(* No step loses an instruction, or what became of it.                      *)
Grows ==
  /\ position' \in Nat /\ position <= position'
  /\ \A s \in Slots : s < position => kind'[s] = kind[s]
  /\ \A p \in Positions : Written(p) => "INSTR" \in word'[p]
  /\ \A s \in Slots : txnOf[s] # 0 => txnOf'[s] = txnOf[s]
  /\ \A s \in Slots : outcome[s] # "none" => outcome'[s] = outcome[s]

LEMMA DecidedStays ==
  ASSUME OrderInv, Grows, NEW s \in Slots, Decided(s)
  PROVE  Decided(s)'
  <1>1. txnOf[s] \in Slots
    BY OrderTypes DEF OrderInv, Decided
  <1> QED BY <1>1 DEF Grows, Decided

LEMMA OverStays ==
  ASSUME OrderInv, Grows, NEW p \in Nat, Over(p)
  PROVE  Over(p)'
  <1>1. Slots \subseteq Nat /\ position \in Nat /\ position' \in Nat
    BY OrderTypes DEF OrderInv, Grows
  <1>2. p <= position'
    BY <1>1 DEF Over, Grows
  <1>3. ASSUME NEW s \in Slots, kind'[s] \in Listed, s < p
        PROVE  Decided(s)'
    <2>1. s < position
      BY <1>1, <1>3 DEF Over
    <2>2. Decided(s)
      BY <1>3, <2>1 DEF Over, Grows
    <2> QED BY <2>2, DecidedStays
  <1> QED BY <1>2, <1>3 DEF Over

(* The token is passed on from where it was.                                *)
TokenMoves ==
  /\ \A p \in Positions : Free(p)' => Free(p) \/ \E w \in Slots : Launched(w) /\ w <= p
  /\ SeenToken' => \/ SeenToken /\ Head(todo').slot = Head(todo).slot
                   \/ Head(todo').slot \in Positions /\ Free(Head(todo').slot)
  /\ startAddress' # 0 => \/ startAddress' = startAddress
                          \/ SeenToken /\ startAddress' = Head(todo).slot
  /\ \A w \in Slots : Launched(w)' =>
       Launched(w) \/ startAddress = w \/ (SeenToken /\ Head(todo).slot = w)

LEMMA NotPastStays ==
  ASSUME OrderInv, TokenMoves, NEW q \in Positions, NotPast(q)
  PROVE  NotPast(q)'
  <1>1. Positions \subseteq Nat /\ Slots \subseteq Nat /\ q \in Nat /\ 0 \notin Slots
    BY OrderTypes, SlotFacts DEF OrderInv
  <1>2. ASSUME NEW p \in Positions, Free(p)' PROVE q <= p
    BY <1>1, <1>2 DEF TokenMoves, NotPast
  <1>3. ASSUME SeenToken' PROVE q <= Head(todo').slot
    BY <1>3 DEF TokenMoves, NotPast
  <1>4. ASSUME startAddress' # 0 PROVE q <= startAddress'
    BY <1>4 DEF TokenMoves, NotPast
  <1>5. ASSUME NEW w \in Slots, Launched(w)' PROVE q <= w
    BY <1>1, <1>5 DEF TokenMoves, NotPast
  <1> QED BY <1>2, <1>3, <1>4, <1>5 DEF NotPast

-----------------------------------------------------------------------------
(* Workers and words: steps that start no worker and end no transaction.    *)

(* A worker is as it was, or its completion was reported.                   *)
Keeps(w) == \/ worker'[w] = worker[w]
            \/ /\ worker'[w].at = worker[w].at /\ worker'[w].pc = worker[w].pc
               /\ worker'[w].read = worker[w].read
            \/ /\ worker'[w].at = worker[w].at
               /\ worker[w].pc = "complete" /\ worker'[w].pc = "done"

LEMMA KeepsStates ==
  ASSUME NEW w, Keeps(w)
  PROVE  /\ worker'[w].at = worker[w].at
         /\ Launched(w)' <=> Launched(w)
         /\ Active(w)' <=> Active(w)
         /\ Ended(w)' <=> Ended(w)
         /\ worker'[w].pc \in {"publish", "complete", "done"}
              <=> worker[w].pc \in {"publish", "complete", "done"}
         /\ worker'[w].pc = "mark" => worker[w].pc = "mark" /\ worker'[w].read = worker[w].read
         /\ worker'[w].pc = "publish" => worker[w].pc = "publish"
  BY DEF Keeps, Launched, Active, Ended

Transactions == Launches /\ EndsOutside /\ OverWhenDone

(* What a worker that ended its transaction left behind stays true.         *)
LEMMA EndedStays ==
  ASSUME OrderInv, Grows, NEW w \in Slots, NEW n \in Nat, EndedAt(w, n),
         \A s \in Slots : txnOf'[s] = txnOf[s] \/ (txnOf[s] = 0 /\ txnOf'[s] # w)
  PROVE  EndedAt(w, n)'
  <1>1. Slots \subseteq Nat /\ position \in Nat /\ position' \in Nat /\ 0 \notin Slots
    BY OrderTypes, SlotFacts DEF OrderInv, Grows
  <1>2. n <= position' /\ w < n
    BY <1>1 DEF Grows, EndedAt
  <1>3. Nest(n)' = 0
    <2>1. \A s \in Slots : s < n => kind'[s] = kind[s]
      BY <1>1 DEF Grows, EndedAt
    <2> QED BY <2>1, NestStays DEF EndedAt
  <1>4. ASSUME NEW s \in Slots, kind'[s] \in Listed, s < n PROVE txnOf'[s] # 0
    <2>1. s < position /\ kind[s] \in Listed
      BY <1>1, <1>4 DEF Grows, EndedAt
    <2>2. txnOf[s] # 0
      BY <1>4, <2>1 DEF EndedAt
    <2> QED BY <2>2 DEF Grows
  <1>5. txnOf'[w] = w
    BY <1>1 DEF Grows, EndedAt
  <1>6. ASSUME NEW s \in Slots, txnOf'[s] = w PROVE s < n
    BY <1>6 DEF EndedAt
  <1> QED BY <1>2, <1>3, <1>4, <1>5, <1>6 DEF EndedAt

LEMMA EndsOutsideStays ==
  ASSUME OrderInv, Grows, EndsOutside, UNCHANGED txnOf,
         \A w \in Slots : Ended(w)' => Ended(w) /\ worker'[w].at = worker[w].at
  PROVE  EndsOutside'
  <1> SUFFICES ASSUME NEW w \in Slots, Ended(w)' PROVE EndedAt(w, worker[w].at)'
    BY DEF EndsOutside
  <1>1. PICK n \in Nat : n = worker[w].at
    BY OrderTypes DEF OrderInv
  <1>2. EndedAt(w, n) /\ worker'[w].at = n
    BY <1>1 DEF EndsOutside
  <1>3. EndedAt(w, n)'
    BY <1>2, EndedStays
  <1> QED BY <1>2, <1>3

(* COMMITTED and FAILED are not made up.                                    *)
LEMMA OverWhenDoneStays ==
  ASSUME OrderInv, Grows, OverWhenDone,
         \A p \in Positions : word'[p] \cap TxnDone # {} =>
           word[p] \cap TxnDone # {} \/ Over(p),
         \A w \in Slots : worker'[w].pc \in {"mark", "publish"} =>
           /\ worker'[w].pc = worker[w].pc /\ worker'[w].at = worker[w].at
           /\ worker'[w].pc = "mark" => worker'[w].read = worker[w].read
  PROVE  OverWhenDone'
  <1>1. \A p \in Positions : p \in Nat
    BY OrderTypes DEF OrderInv
  <1>2. \A p \in Positions : Over(p) => Over(p)'
    BY <1>1, OverStays
  <1>3. \A p \in Positions : (word[p] \cap TxnDone # {})' => Over(p)'
    BY <1>2 DEF OverWhenDone
  <1>4. ASSUME NEW w \in Slots, worker'[w].pc = "publish" \/
                 (worker'[w].pc = "mark" /\ worker'[w].read \cap TxnDone # {})
        PROVE  Over(worker[w].at)'
    <2>1. PICK n \in Positions : n = worker[w].at
      BY OrderTypes DEF OrderInv
    <2>2. Over(n) /\ worker'[w].at = n
      BY <1>4, <2>1 DEF OverWhenDone
    <2> QED BY <1>2, <2>2
  <1> QED BY <1>3, <1>4 DEF OverWhenDone

(* A step of JavaScript that starts no worker.                              *)
LEMMA TransactionsStay ==
  ASSUME OrderInv, Grows, Transactions, UNCHANGED <<txnOf, outcome, startAddress>>,
         \A w \in Slots : Keeps(w),
         \A p \in Positions : word'[p] \cap TxnDone # {} => word[p] \cap TxnDone # {}
  PROVE  Transactions'
  <1>1. Launches /\ EndsOutside /\ OverWhenDone
    BY DEF Transactions
  <1>2. \A w \in Slots :
          /\ worker'[w].at = worker[w].at
          /\ Launched(w)' <=> Launched(w)
          /\ Active(w)' <=> Active(w)
          /\ Ended(w)' <=> Ended(w)
          /\ worker'[w].pc \in {"publish", "complete", "done"}
               <=> worker[w].pc \in {"publish", "complete", "done"}
          /\ worker'[w].pc = "mark" => worker[w].pc = "mark" /\ worker'[w].read = worker[w].read
          /\ worker'[w].pc = "publish" => worker[w].pc = "publish"
    BY KeepsStates
  <1>3. Slots \subseteq Positions /\ startAddress \in {0} \cup Slots
        /\ txnOf \in [Slots -> {0} \cup Slots]
    BY OrderTypes DEF OrderInv
  <1>4. ASSUME NEW s \in Slots, kind[s] \in Listed, Written(s)
        PROVE  kind'[s] \in Listed /\ Written(s)'
    <2>1. s < position
      BY <1>3, <1>4, WrittenIsPlaced DEF OrderInv, Placement
    <2> QED BY <1>3, <1>4, <2>1 DEF Grows, Written
  <1>5. Launches'
    <2>1. (startAddress # 0 => kind[startAddress] \in Listed /\ Written(startAddress))'
      BY <1>1, <1>3, <1>4 DEF Launches
    <2>2. (\A w \in Slots : Launched(w) => kind[w] \in Listed /\ Written(w))'
      BY <1>1, <1>2, <1>4 DEF Launches
    <2>3. (\A w \in Slots : outcome[w] # "none" <=> worker[w].pc \in {"publish", "complete", "done"})'
      BY <1>1, <1>2 DEF Launches
    <2>4. (\A s \in Slots : txnOf[s] # 0 => Active(txnOf[s]) \/ Decided(s))'
      <3> SUFFICES ASSUME NEW s \in Slots, txnOf[s] # 0, ~Decided(s)'
                   PROVE  Active(txnOf[s])'
        OBVIOUS
      <3>1. PICK t \in Slots : t = txnOf[s]
        BY <1>3
      <3>2. Active(t)
        BY <1>1, <3>1, DecidedStays DEF Launches
      <3>3. Active(t)'
        BY <1>2, <3>2
      <3> QED BY <3>1, <3>3
    <2>5. (\A v, w \in Slots : Active(v) /\ Active(w) => v = w)'
      BY <1>1, <1>2 DEF Launches
    <2> QED BY <2>1, <2>2, <2>3, <2>4, <2>5 DEF Launches
  <1>6. EndsOutside'
    BY <1>1, <1>2, EndsOutsideStays
  <1>7. OverWhenDone'
    BY <1>1, <1>2, OverWhenDoneStays
  <1> QED BY <1>5, <1>6, <1>7 DEF Transactions

-----------------------------------------------------------------------------
(* Workers and words: a worker is started.                                  *)

(* The slot a worker is to be started at was never worked on.               *)
LEMMA StartsFresh ==
  ASSUME OrderInv, Transactions, NEW s \in Slots, Frontier(s), kind[s] \in Listed,
         \A w \in Slots : ~Launched(w)
  PROVE  worker[s].pc = "none" /\ outcome[s] = "none" /\ txnOf[s] = 0
  <1>1. s \in Nat /\ worker[s].pc \in WorkerStates
    BY OrderTypes DEF OrderInv
  <1>2. txnOf[s] = 0
    BY <1>1 DEF Frontier
  <1>3. ~Ended(s)
    BY <1>1, <1>2 DEF Transactions, EndsOutside, EndedAt
  <1>4. worker[s].pc = "none"
    BY <1>1, <1>3 DEF Ended, Launched, WorkerStates
  <1> QED BY <1>2, <1>4 DEF Transactions, Launches

LEMMA StartsTransaction ==
  ASSUME OrderInv, Transactions, NEW s \in Slots, Frontier(s), kind[s] \in Listed, Written(s),
         \A w \in Slots : ~Launched(w), StartWriting(s),
         UNCHANGED <<word, position, kind, txnOf, outcome>>, startAddress' = 0
  PROVE  Transactions'
  <1>1. worker[s].pc = "none" /\ outcome[s] = "none" /\ txnOf[s] = 0
    BY StartsFresh
  <1>2. worker' = [worker EXCEPT ![s] = WorkerAt("queued", s)]
        /\ worker \in [Slots -> WorkerRecords]
    BY OrderTypes DEF StartWriting, OrderInv
  <1>3. /\ worker'[s].pc = "queued"
        /\ \A w \in Slots : w # s => worker'[w] = worker[w]
    BY <1>2 DEF WorkerAt
  <1>4. Launches /\ EndsOutside /\ OverWhenDone
    BY DEF Transactions
  <1>5. Grows
    BY OrderTypes DEF OrderInv, Grows, Written
  <1>6. \A w \in Slots : /\ Launched(w)' => w = s
                         /\ Active(w)' <=> Active(w)
                         /\ Ended(w)' => Ended(w) /\ worker'[w].at = worker[w].at
    BY <1>1, <1>3 DEF Launched, Active, Ended
  <1>7. txnOf \in [Slots -> {0} \cup Slots]
    BY OrderTypes DEF OrderInv
  <1>8. Launches'
    <2>1. (\A w \in Slots : Launched(w) => kind[w] \in Listed /\ Written(w))'
      BY <1>6 DEF Written
    <2>2. (\A w \in Slots : outcome[w] # "none" <=> worker[w].pc \in {"publish", "complete", "done"})'
      BY <1>1, <1>3, <1>4 DEF Launches
    <2>3. (\A t \in Slots : txnOf[t] # 0 => Active(txnOf[t]) \/ Decided(t))'
      <3> SUFFICES ASSUME NEW t \in Slots, txnOf[t] # 0, ~Decided(t)'
                   PROVE  Active(txnOf[t])'
        BY DEF Decided
      <3>1. PICK u \in Slots : u = txnOf[t]
        BY <1>7
      <3>2. Active(u)
        BY <1>4, <1>5, <3>1, DecidedStays DEF Launches
      <3>3. Active(u)'
        BY <1>6, <3>2
      <3> QED BY <3>1, <3>3
    <2>4. (\A v, w \in Slots : Active(v) /\ Active(w) => v = w)'
      BY <1>4, <1>6 DEF Launches
    <2>5. (startAddress = 0)'
      OBVIOUS
    <2> QED BY <2>1, <2>2, <2>3, <2>4, <2>5 DEF Launches
  <1>9. EndsOutside'
    BY <1>4, <1>5, <1>6, EndsOutsideStays
  <1>10. OverWhenDone'
    <2>1. \A w \in Slots : worker'[w].pc \in {"mark", "publish"} => worker'[w] = worker[w]
      BY <1>3
    <2> QED BY <1>4, <1>5, <2>1, OverWhenDoneStays
  <1> QED BY <1>8, <1>9, <1>10 DEF Transactions

(* A call is remembered as the start of a transaction.                      *)
LEMMA AddressesTransaction ==
  ASSUME OrderInv, Transactions, NEW s \in Slots, kind[s] \in Listed, Written(s),
         UNCHANGED <<word, position, kind, txnOf, outcome, worker>>, startAddress' = s
  PROVE  Transactions'
  <1>1. Grows
    BY OrderTypes DEF OrderInv, Grows, Written
  <1>2. Launches /\ EndsOutside /\ OverWhenDone
    BY DEF Transactions
  <1>3. \A t : Decided(t)' = Decided(t)
    BY DEF Decided
  <1>4. Launches'
    <2>1. (\A w \in Slots : Launched(w) => kind[w] \in Listed /\ Written(w))'
      BY <1>2 DEF Launches, Launched, Written
    <2>2. (\A t \in Slots : txnOf[t] # 0 => Active(txnOf[t]) \/ Decided(t))'
      BY <1>2 DEF Launches, Active, Decided
    <2>3. (startAddress # 0 => kind[startAddress] \in Listed /\ Written(startAddress))'
      BY DEF Written
    <2>4. (\A v, w \in Slots : Active(v) /\ Active(w) => v = w)'
      BY <1>2 DEF Launches, Active
    <2>5. (\A w \in Slots : outcome[w] # "none" <=> worker[w].pc \in {"publish", "complete", "done"})'
      BY <1>2 DEF Launches
    <2> QED BY <2>1, <2>2, <2>3, <2>4, <2>5 DEF Launches
  <1>5. EndsOutside'
    BY <1>1, <1>2, EndsOutsideStays DEF Ended
  <1>6. OverWhenDone'
    BY <1>1, <1>2, OverWhenDoneStays
  <1> QED BY <1>4, <1>5, <1>6 DEF Transactions

-----------------------------------------------------------------------------
(* Workers and words: the steps of a worker.                                *)

(* A step of worker w that neither processes a write nor ends anything.     *)
LEMMA WorkerRests ==
  ASSUME OrderInv, Transactions, NEW w \in Slots, UNCHANGED JavaScriptVars,
         UNCHANGED <<txnOf, outcome>>, \A v \in Slots : v # w => worker'[v] = worker[v],
         Launched(w), worker'[w].pc \in {"fetch", "empty", "wait"},
         \A v \in Slots : Active(v) => v = w,
         \A p \in Positions : Written(p)' = Written(p),
         \A p \in Positions : word'[p] \cap TxnDone # {} =>
           word[p] \cap TxnDone # {} \/ Over(p)
  PROVE  Grows /\ Transactions'
  <1>1. Launches /\ EndsOutside /\ OverWhenDone
    BY DEF Transactions
  <1>2. UNCHANGED <<position, kind, startAddress>> /\ position \in Nat
    BY OrderTypes DEF JavaScriptVars, placing, starting, OrderInv
  <1>3. Grows
    BY <1>2 DEF Grows, Written
  <1>4. \A v \in Slots : /\ Launched(v)' <=> Launched(v)
                         /\ Active(v) => Active(v)'
                         /\ Active(v)' => v = w
                         /\ Ended(v)' => v # w /\ Ended(v)
    BY DEF Launched, Active, Ended
  <1>5. /\ startAddress \in {0} \cup Slots /\ Slots \subseteq Positions
        /\ txnOf \in [Slots -> {0} \cup Slots]
    BY OrderTypes DEF OrderInv
  <1>6. Launches'
    <2>1. (\A v \in Slots : Launched(v) => kind[v] \in Listed /\ Written(v))'
      BY <1>1, <1>2, <1>4, <1>5 DEF Launches
    <2>2. (\A s \in Slots : txnOf[s] # 0 => Active(txnOf[s]) \/ Decided(s))'
      <3> SUFFICES ASSUME NEW s \in Slots, txnOf[s] # 0, ~Decided(s)'
                   PROVE  Active(txnOf[s])'
        BY DEF Decided
      <3>1. PICK u \in Slots : u = txnOf[s]
        BY <1>5
      <3>2. Active(u)
        BY <1>1, <1>3, <3>1, DecidedStays DEF Launches
      <3>3. Active(u)'
        BY <1>4, <3>2
      <3> QED BY <3>1, <3>3
    <2>3. (startAddress # 0 => kind[startAddress] \in Listed /\ Written(startAddress))'
      BY <1>1, <1>2, <1>5 DEF Launches
    <2>4. (\A u, v \in Slots : Active(u) /\ Active(v) => u = v)'
      BY <1>4
    <2>5. (\A v \in Slots : outcome[v] # "none" <=> worker[v].pc \in {"publish", "complete", "done"})'
      <3>1. outcome[w] = "none"
        BY <1>1 DEF Launches, Launched
      <3> QED BY <1>1, <3>1 DEF Launches
    <2> QED BY <2>1, <2>2, <2>3, <2>4, <2>5 DEF Launches
  <1>7. EndsOutside'
    BY <1>1, <1>3, <1>4, EndsOutsideStays
  <1>8. OverWhenDone'
    <2>1. \A v \in Slots : worker'[v].pc \in {"mark", "publish"} => worker'[v] = worker[v]
      OBVIOUS
    <2> QED BY <1>1, <1>3, <2>1, OverWhenDoneStays
  <1> QED BY <1>3, <1>6, <1>7, <1>8 DEF Transactions

(* The worker that has the transaction is the only active one.              *)
LEMMA OnlyActive ==
  ASSUME Transactions, NEW w \in Slots, Active(w)
  PROVE  \A v \in Slots : Active(v) => v = w
  BY DEF Transactions, Launches

LEMMA QuietWorkerTransactions ==
  ASSUME OrderInv, Transactions, NEW w \in Slots,
         Begin(w) \/ FollowPointer(w) \/ LeaveBlock(w) \/ FetchEmpty(w) \/ Refetch(w) \/ Wake(w)
  PROVE  Grows /\ Transactions'
  <1>1. worker \in [Slots -> WorkerRecords]
    BY OrderTypes DEF OrderInv
  <1>2. UNCHANGED JavaScriptVars /\ UNCHANGED <<txnOf, outcome, word>> /\ Launched(w)
    BY DEF Begin, FollowPointer, LeaveBlock, FetchEmpty, Refetch, Wake, Fetching, Launched,
           shared, history
  <1>3. \A v \in Slots : v # w => worker'[v] = worker[v]
    BY <1>1 DEF Begin, FollowPointer, LeaveBlock, FetchEmpty, Refetch, Wake
  <1>4. worker'[w].pc \in {"fetch", "empty"}
    BY <1>1 DEF Begin, FollowPointer, LeaveBlock, FetchEmpty, Refetch, Wake, Fetching, WorkerRecords
  <1>5. \A v \in Slots : Active(v) => v = w
    <2>1. CASE Active(w)
      BY <2>1, OnlyActive
    <2>2. CASE ~Active(w)
      <3>1. Begin(w) /\ lock = 0 /\ worker[w].pc = "queued"
        BY <1>2, <2>2 DEF Begin, FollowPointer, LeaveBlock, FetchEmpty, Refetch, Wake, Fetching,
                          Active
      <3> SUFFICES ASSUME NEW v \in Slots, Active(v) PROVE v = w
        OBVIOUS
      <3>2. ~InTxn(v)
        BY <3>1, SlotFacts DEF OrderInv, Inv, LockHolder
      <3>3. Launched(v)
        BY <3>2 DEF Active, InTxn, Launched
      <3> QED BY <1>2, <3>3 DEF OrderInv, Token, OneToken
    <2> QED BY <2>1, <2>2
  <1> QED BY <1>2, <1>3, <1>4, <1>5, WorkerRests DEF Written

LEMMA StartWaitTransactions ==
  ASSUME OrderInv, Transactions, NEW w \in Slots, StartWait(w)
  PROVE  Grows /\ Transactions'
  <1>1. worker \in [Slots -> WorkerRecords] /\ word \in [Positions -> SUBSET Bits]
    BY OrderTypes DEF OrderInv
  <1>2. worker[w].at \in Positions /\ ~Written(worker[w].at) /\ Launched(w)
    BY FoundEmpty DEF StartWait
  <1>3. /\ UNCHANGED JavaScriptVars /\ UNCHANGED <<txnOf, outcome>> /\ Active(w)
        /\ \A v \in Slots : v # w => worker'[v] = worker[v]
        /\ worker'[w].pc = "wait"
    BY <1>1 DEF StartWait, history, WorkerRecords, Active
  <1>4. \A p \in Positions : word'[p] = IF p = worker[w].at THEN {"WAITING"} ELSE word[p]
    BY <1>1 DEF StartWait
  <1>5. \A p \in Positions : /\ Written(p)' = Written(p)
                             /\ word'[p] \cap TxnDone # {} => word[p] \cap TxnDone # {}
    BY <1>2, <1>4 DEF Written, TxnDone
  <1> QED BY <1>2, <1>3, <1>5, OnlyActive, WorkerRests

LEMMA MarkTransactions ==
  ASSUME OrderInv, Transactions, NEW w \in Slots, Mark(w)
  PROVE  Grows /\ Transactions'
  <1> DEFINE s == worker[w].at
             old == IF worker[w].first THEN word[s] ELSE worker[w].read
             result == IF worker[w].failed THEN {"FINISHED", "FAILED_CONDITION"}
                       ELSE {"FINISHED"}
  <1>1. /\ worker \in [Slots -> WorkerRecords] /\ s \in Positions
        /\ word \in [Positions -> SUBSET Bits]
    BY OrderTypes DEF OrderInv
  <1>2. /\ UNCHANGED JavaScriptVars /\ UNCHANGED <<txnOf, outcome>> /\ Active(w) /\ Launched(w)
        /\ \A v \in Slots : v # w => worker'[v] = worker[v]
        /\ worker'[w].pc = "fetch" /\ worker[w].pc = "mark"
    BY <1>1 DEF Mark, history, WorkerRecords, Active, Launched
  <1>3. \A p \in Positions : word'[p] = IF p = s THEN old \cup result ELSE word[p]
    BY <1>1 DEF Mark
  <1>4. "INSTR" \in worker[w].read /\ Written(s)
    BY <1>2 DEF OrderInv, Token, WorkersKnow, Knows
  <1>5. "INSTR" \in old \cup result /\ "INSTR" \in word[s]
    BY <1>4 DEF Written
  <1>6. (old \cup result) \cap TxnDone # {} => word[s] \cap TxnDone # {} \/ Over(s)
    <2>1. worker[w].read \cap TxnDone # {} => Over(s)
      BY <1>2 DEF Transactions, OverWhenDone
    <2>2. result \cap TxnDone = {}
      BY DEF TxnDone
    <2> QED BY <2>1, <2>2
  <1>7. \A p \in Positions : Written(p)' = Written(p)
    <2> HIDE DEF old, result
    <2> QED BY <1>3, <1>5 DEF Written
  <1>8. \A p \in Positions : word'[p] \cap TxnDone # {} => word[p] \cap TxnDone # {} \/ Over(p)
    <2> HIDE DEF old, result
    <2> QED BY <1>3, <1>6
  <1> QED BY ONLY OrderInv, Transactions, w \in Slots, <1>2, <1>7, <1>8, OnlyActive, WorkerRests

LEMMA ExecuteTransactions ==
  ASSUME OrderInv, Transactions, NEW w \in Slots, Execute(w)
  PROVE  Grows /\ Transactions'
  <1> DEFINE s == worker[w].at
  <1>1. worker \in [Slots -> WorkerRecords] /\ txnOf \in [Slots -> {0} \cup Slots]
        /\ startAddress \in {0} \cup Slots /\ Slots \subseteq Positions
    BY OrderTypes DEF OrderInv
  <1>2. Instruction(w) \in {"write", "callback", "start"} /\ Instruction(w) # "none" /\ Fetching(w)
    BY DEF Execute
  <1>3. s \in Slots /\ kind[s] \in Listed /\ Frontier(s) /\ Launched(w) /\ s \in Nat
        /\ position \in Nat
    BY <1>2, Found, OrderTypes DEF Listed, OrderInv
  <1>4. /\ UNCHANGED JavaScriptVars /\ UNCHANGED <<word, outcome>> /\ Active(w)
        /\ \A v \in Slots : v # w => worker'[v] = worker[v]
        /\ worker'[w].pc = "mark" /\ worker'[w].at = s /\ worker'[w].read = word[s]
    BY <1>1, <1>2 DEF Execute, shared, WorkerRecords, Active, Fetching
  <1>5. txnOf[s] = 0 /\ txnOf' = [txnOf EXCEPT ![s] = w]
    BY <1>3 DEF Execute, Frontier
  <1>6. \A t \in Slots : txnOf'[t] = IF t = s THEN w ELSE txnOf[t]
    BY <1>1, <1>3, <1>5
  <1>7. UNCHANGED <<position, kind, startAddress>>
    BY <1>4 DEF JavaScriptVars, placing, starting
  <1>8. Grows
    BY <1>3, <1>4, <1>5, <1>6, <1>7 DEF Grows, Written
  <1>9. Launches /\ EndsOutside /\ OverWhenDone
    BY DEF Transactions
  <1> HIDE DEF s
  <1>10. \A v \in Slots : /\ Launched(v)' <=> Launched(v)
                          /\ Active(v)' <=> Active(v)
                          /\ Ended(v)' <=> Ended(v)
                          /\ Ended(v) => v # w
    BY <1>2, <1>3, <1>4 DEF Launched, Active, Ended, Fetching
  <1>11. Launches'
    <2>1. (\A v \in Slots : Launched(v) => kind[v] \in Listed /\ Written(v))'
      BY <1>4, <1>7, <1>9, <1>10 DEF Launches, Written
    <2>2. (\A t \in Slots : txnOf[t] # 0 => Active(txnOf[t]) \/ Decided(t))'
      <3> SUFFICES ASSUME NEW t \in Slots, txnOf'[t] # 0, ~Decided(t)'
                   PROVE  Active(txnOf[t])'
        OBVIOUS
      <3>1. CASE t = s
        <4>1. txnOf'[t] = w /\ Active(w)'
          BY <1>4, <1>6, <1>10, <3>1
        <4> QED BY <4>1
      <3>2. CASE t # s
        <4>1. PICK u \in Slots : u = txnOf[t]
          BY <1>1, <1>6, <3>2
        <4>2. Active(u)
          BY <1>6, <1>8, <1>9, <3>2, <4>1, DecidedStays DEF Launches
        <4>3. Active(u)' /\ txnOf'[t] = u
          BY <1>6, <1>10, <3>2, <4>1, <4>2
        <4> QED BY <4>3
      <3> QED BY <3>1, <3>2
    <2>3. (startAddress # 0 => kind[startAddress] \in Listed /\ Written(startAddress))'
      BY <1>1, <1>4, <1>7, <1>9 DEF Launches, Written
    <2>4. (\A u, v \in Slots : Active(u) /\ Active(v) => u = v)'
      BY <1>9, <1>10 DEF Launches
    <2>5. (\A v \in Slots : outcome[v] # "none" <=> worker[v].pc \in {"publish", "complete", "done"})'
      BY <1>2, <1>4, <1>9 DEF Launches, Fetching
    <2> QED BY <2>1, <2>2, <2>3, <2>4, <2>5 DEF Launches
  <1>12. EndsOutside'
    <2> SUFFICES ASSUME NEW v \in Slots, Ended(v)' PROVE EndedAt(v, worker[v].at)'
      BY DEF EndsOutside
    <2>1. PICK n \in Nat : n = worker[v].at
      BY OrderTypes DEF OrderInv
    <2>2. v # w /\ EndedAt(v, n) /\ worker'[v].at = n
      BY <1>4, <1>9, <1>10, <2>1 DEF EndsOutside
    <2>3. EndedAt(v, n)'
      BY <1>5, <1>6, <1>8, <2>2, EndedStays
    <2> QED BY <2>2, <2>3
  <1>13. OverWhenDone'
    <2>1. \A p \in Positions : Over(p) => Over(p)'
      BY <1>8, OverStays, OrderTypes DEF OrderInv
    <2>2. (\A p \in Positions : word[p] \cap TxnDone # {} => Over(p))'
      BY <1>4, <1>9, <2>1 DEF OverWhenDone
    <2>3. ASSUME NEW v \in Slots, worker'[v].pc = "publish" \/
                   (worker'[v].pc = "mark" /\ worker'[v].read \cap TxnDone # {})
          PROVE  Over(worker[v].at)'
      <3>1. PICK n \in Positions : n = worker[v].at
        BY OrderTypes DEF OrderInv
      <3>2. worker'[v].at = n
        BY <1>4, <3>1 DEF s
      <3>3. Over(n)
        <4>1. CASE v = w
          BY <1>4, <1>9, <2>3, <3>1, <4>1 DEF OverWhenDone, s
        <4>2. CASE v # w
          BY <1>4, <1>9, <2>3, <3>1, <4>2 DEF OverWhenDone
        <4> QED BY <4>1, <4>2
      <3> QED BY <2>1, <3>2, <3>3
    <2> QED BY <2>2, <2>3 DEF OverWhenDone
  <1> QED BY <1>8, <1>11, <1>12, <1>13 DEF Transactions

LEMMA DelimitTransactions ==
  ASSUME OrderInv, Transactions, NEW w \in Slots, Delimit(w)
  PROVE  Grows /\ Transactions'
  <1>1. PICK n \in Positions : n = worker[w].at
    BY OrderTypes DEF OrderInv
  <1>2. /\ worker \in [Slots -> WorkerRecords] /\ word \in [Positions -> SUBSET Bits]
        /\ txnOf \in [Slots -> {0} \cup Slots] /\ position \in Nat /\ n \in Nat
        /\ startAddress \in {0} \cup Slots /\ Slots \subseteq Positions /\ w \in Nat
    BY OrderTypes DEF OrderInv
  <1>3. ~Written(n) /\ Launched(w)
    BY <1>1, FoundEmpty DEF Delimit
  <1>4. /\ UNCHANGED JavaScriptVars /\ UNCHANGED <<txnOf, outcome>> /\ Active(w)
        /\ \A v \in Slots : v # w => worker'[v] = worker[v]
        /\ worker'[w].pc = "commit" /\ worker'[w].at = n
        /\ worker[w].pc = "empty" /\ ~(worker[w].depth > 0)
    BY <1>1, <1>2 DEF Delimit, MustStay, history, WorkerRecords, Active
  <1>5. \A p \in Positions : word'[p] = IF p = n THEN {"DELIMITER"} ELSE word[p]
    BY <1>1, <1>2 DEF Delimit
  <1>6. \A p \in Positions : /\ Written(p)' = Written(p)
                             /\ word'[p] \cap TxnDone # {} => word[p] \cap TxnDone # {}
    BY <1>3, <1>5 DEF Written, TxnDone
  <1>7. UNCHANGED <<position, kind, startAddress>>
    BY <1>4 DEF JavaScriptVars, placing, starting
  <1>8. Grows
    BY <1>2, <1>4, <1>6, <1>7 DEF Grows, Written
  <1>9. Launches /\ EndsOutside /\ OverWhenDone
    BY DEF Transactions
  <1>10. \A v \in Slots : /\ Launched(v)' => Launched(v)
                          /\ Active(v)' <=> Active(v)
                          /\ Ended(v)' => v = w \/ Ended(v)
    BY <1>4 DEF Launched, Active, Ended
  <1>11. EndedAt(w, n)
    <2>1. FrontOf(w) = n /\ Knows(w)
      BY <1>1, <1>4 DEF FrontOf, OrderInv, Token, WorkersKnow
    <2>2. w <= n /\ Frontier(FrontOf(w)) /\ worker[w].depth = Nest(FrontOf(w))
      BY <1>1, <1>3, <2>1 DEF Knows
    <2>3. Frontier(n) /\ worker[w].depth = Nest(n)
      BY ONLY <2>1, <2>2, Zenon
    <2>4. n <= position /\ \A s \in Slots : kind[s] \in Listed => (s < n <=> txnOf[s] # 0)
      BY <2>3 DEF Frontier
    <2>5. Nest(n) = 0
      <3>1. Nest(n) >= 0 /\ Nest(n) \in Int
        BY <2>4, FiniteBlocks DEF OrderInv, Placement, Nested
      <3> QED BY <1>4, <2>3, <3>1
    <2>6. w # n /\ kind[w] \in Listed
      BY <1>3, <1>9 DEF Launches
    <2>7. w < n
      BY <1>2, <2>2, <2>6
    <2>8. \A s \in Slots : txnOf[s] # 0 => kind[s] \in Listed
      BY DEF OrderInv, Token, Logged
    <2>9. txnOf[w] = w
      <3>1. txnOf[w] # 0
        BY <2>4, <2>6, <2>7
      <3> QED BY <1>2, <1>3, <3>1 DEF OrderInv, Token, InTxns
    <2>10. 0 \notin Slots
      BY SlotFacts
    <2> QED BY <2>4, <2>5, <2>7, <2>8, <2>9, <2>10 DEF EndedAt
  <1>12. Launches'
    <2>1. (\A v \in Slots : Launched(v) => kind[v] \in Listed /\ Written(v))'
      BY <1>2, <1>6, <1>7, <1>9, <1>10 DEF Launches
    <2>2. (\A s \in Slots : txnOf[s] # 0 => Active(txnOf[s]) \/ Decided(s))'
      <3> SUFFICES ASSUME NEW s \in Slots, txnOf[s] # 0, ~Decided(s)'
                   PROVE  Active(txnOf[s])'
        BY <1>4
      <3>1. PICK u \in Slots : u = txnOf[s]
        BY <1>2
      <3>2. Active(u)
        BY <1>8, <1>9, <3>1, DecidedStays DEF Launches
      <3>3. Active(u)'
        BY <1>10, <3>2
      <3> QED BY <1>4, <3>1, <3>3
    <2>3. (startAddress # 0 => kind[startAddress] \in Listed /\ Written(startAddress))'
      BY <1>2, <1>6, <1>7, <1>9 DEF Launches
    <2>4. (\A u, v \in Slots : Active(u) /\ Active(v) => u = v)'
      BY <1>9, <1>10 DEF Launches
    <2>5. (\A v \in Slots : outcome[v] # "none" <=> worker[v].pc \in {"publish", "complete", "done"})'
      BY <1>4, <1>9 DEF Launches
    <2> QED BY <2>1, <2>2, <2>3, <2>4, <2>5 DEF Launches
  <1>13. EndsOutside'
    <2> SUFFICES ASSUME NEW v \in Slots, Ended(v)' PROVE EndedAt(v, worker[v].at)'
      BY DEF EndsOutside
    <2>1. PICK m \in Nat : m = worker'[v].at
      <3>1. worker'[v].at \in Nat
        BY <1>2, <1>4, OrderTypes DEF OrderInv
      <3> QED BY <3>1
    <2>2. EndedAt(v, m)
      BY <1>4, <1>9, <1>10, <1>11, <2>1 DEF EndsOutside
    <2>3. EndedAt(v, m)'
      BY <1>4, <1>8, <2>2, EndedStays
    <2> QED BY <2>1, <2>3
  <1>14. OverWhenDone'
    <2>1. \A v \in Slots : worker'[v].pc \in {"mark", "publish"} => worker'[v] = worker[v]
      BY <1>4
    <2> QED BY <1>6, <1>8, <1>9, <2>1, OverWhenDoneStays
  <1> QED BY <1>8, <1>12, <1>13, <1>14 DEF Transactions

LEMMA CommitTransactions ==
  ASSUME OrderInv, Transactions, NEW w \in Slots, Commit(w)
  PROVE  Grows /\ Transactions'
  <1>1. PICK n \in Positions : n = worker[w].at
    BY OrderTypes DEF OrderInv
  <1>2. /\ worker \in [Slots -> WorkerRecords] /\ txnOf \in [Slots -> {0} \cup Slots]
        /\ position \in Nat /\ n \in Nat /\ Positions \subseteq Nat
        /\ startAddress \in {0} \cup Slots /\ Slots \subseteq Positions
        /\ outcome \in [Slots -> {"none", "committed", "failed"}]
    BY OrderTypes DEF OrderInv, Inv, TypeInv, TypeOK, TypeHistory
  <1>3. PICK result \in {"committed", "failed"} :
          /\ worker[w].pc = "commit"
          /\ outcome' = [outcome EXCEPT ![w] = result]
          /\ worker' = [worker EXCEPT ![w].pc = "publish"]
          /\ UNCHANGED <<word, log, txnOf, JavaScriptVars>>
    BY DEF Commit
  <1>4. /\ \A v \in Slots : v # w => worker'[v] = worker[v] /\ outcome'[v] = outcome[v]
        /\ worker'[w].pc = "publish" /\ worker'[w].at = n /\ outcome'[w] = result
    BY <1>1, <1>2, <1>3 DEF WorkerRecords
  <1>5. UNCHANGED <<position, kind, startAddress>>
    BY <1>3 DEF JavaScriptVars, placing, starting
  <1>6. Launches /\ EndsOutside /\ OverWhenDone /\ outcome[w] = "none"
    BY <1>3 DEF Transactions, Launches
  <1>7. Grows
    BY <1>2, <1>3, <1>4, <1>5, <1>6 DEF Grows, Written
  <1>8. \A v \in Slots : /\ Launched(v)' => Launched(v)
                         /\ Active(v)' <=> (v # w /\ Active(v))
                         /\ Ended(v)' <=> Ended(v)
    BY <1>3, <1>4 DEF Launched, Active, Ended
  <1>9. \A s \in Slots : txnOf[s] = w => Decided(s)'
    BY <1>3, <1>4, SlotFacts DEF Decided
  <1>10. \A s \in Slots : txnOf[s] # 0 => Decided(s)'
    <2> SUFFICES ASSUME NEW s \in Slots, txnOf[s] # 0 PROVE Decided(s)'
      OBVIOUS
    <2>1. PICK u \in Slots : u = txnOf[s]
      BY <1>2
    <2>2. CASE Decided(s)
      BY <1>7, <2>2, DecidedStays
    <2>3. CASE ~Decided(s)
      <3>1. Active(u) /\ Active(w)
        BY <1>3, <1>6, <2>1, <2>3 DEF Launches, Active
      <3>2. u = w
        BY <1>6, <3>1 DEF Launches
      <3> QED BY <1>9, <2>1, <3>2
    <2> QED BY <2>2, <2>3
  <1>11. Launches'
    <2>1. (\A v \in Slots : Launched(v) => kind[v] \in Listed /\ Written(v))'
      BY <1>3, <1>5, <1>6, <1>8 DEF Launches, Written
    <2>2. (\A s \in Slots : txnOf[s] # 0 => Active(txnOf[s]) \/ Decided(s))'
      BY <1>3, <1>10
    <2>3. (startAddress # 0 => kind[startAddress] \in Listed /\ Written(startAddress))'
      BY <1>2, <1>3, <1>5, <1>6 DEF Launches, Written
    <2>4. (\A u, v \in Slots : Active(u) /\ Active(v) => u = v)'
      BY <1>6, <1>8 DEF Launches
    <2>5. (\A v \in Slots : outcome[v] # "none" <=> worker[v].pc \in {"publish", "complete", "done"})'
      BY <1>4, <1>6 DEF Launches
    <2> QED BY <2>1, <2>2, <2>3, <2>4, <2>5 DEF Launches
  <1>12. EndedAt(w, n)
    BY <1>1, <1>3, <1>6 DEF EndsOutside, Ended
  <1>13. EndsOutside'
    <2>1. \A v \in Slots : worker'[v].at = worker[v].at
      BY <1>1, <1>4
    <2> QED BY <1>3, <1>6, <1>7, <1>8, <2>1, EndsOutsideStays
  <1>14. Over(n)'
    BY <1>5, <1>10, <1>12 DEF Over, EndedAt
  <1>15. OverWhenDone'
    <2>1. \A p \in Positions : Over(p) => Over(p)'
      BY <1>2, <1>7, OverStays
    <2>2. (\A p \in Positions : word[p] \cap TxnDone # {} => Over(p))'
      BY <1>3, <1>6, <2>1 DEF OverWhenDone
    <2>3. ASSUME NEW v \in Slots, worker'[v].pc = "publish" \/
                   (worker'[v].pc = "mark" /\ worker'[v].read \cap TxnDone # {})
          PROVE  Over(worker[v].at)'
      <3>1. CASE v = w
        BY <1>4, <1>14, <3>1
      <3>2. CASE v # w
        <4>1. PICK m \in Positions : m = worker[v].at
          BY OrderTypes DEF OrderInv
        <4>2. worker'[v].at = m /\ Over(m)
          BY <1>4, <1>6, <2>3, <3>2, <4>1 DEF OverWhenDone
        <4> QED BY <2>1, <4>2
      <3> QED BY <3>1, <3>2
    <2> QED BY <2>2, <2>3 DEF OverWhenDone
  <1> QED BY <1>7, <1>11, <1>13, <1>15 DEF Transactions

LEMMA PublishTransactions ==
  ASSUME OrderInv, Transactions, NEW w \in Slots, Publish(w)
  PROVE  Grows /\ Transactions'
  <1> DEFINE bit == IF outcome[w] = "failed" THEN "TXN_FAILED" ELSE "COMMITTED"
  <1>1. PICK n \in Positions : n = worker[w].at
    BY OrderTypes DEF OrderInv
  <1>2. /\ worker \in [Slots -> WorkerRecords] /\ word \in [Positions -> SUBSET Bits]
        /\ txnOf \in [Slots -> {0} \cup Slots] /\ position \in Nat
        /\ startAddress \in {0} \cup Slots /\ Slots \subseteq Positions
    BY OrderTypes DEF OrderInv
  <1>3. /\ UNCHANGED JavaScriptVars /\ UNCHANGED <<txnOf, outcome>> /\ worker[w].pc = "publish"
        /\ \A v \in Slots : v # w => worker'[v] = worker[v]
        /\ worker'[w].pc = "complete" /\ worker'[w].at = n
    BY <1>1, <1>2 DEF Publish, history, WorkerRecords
  <1>4. \A p \in Positions : word'[p] = IF p = n THEN word[p] \cup {bit} ELSE word[p]
    BY <1>1, <1>2 DEF Publish
  <1>5. bit # "INSTR"
    OBVIOUS
  <1> HIDE DEF bit
  <1>6. UNCHANGED <<position, kind, startAddress>>
    BY <1>3 DEF JavaScriptVars, placing, starting
  <1>7. Launches /\ EndsOutside /\ OverWhenDone /\ Over(n)
    BY <1>1, <1>3 DEF Transactions, OverWhenDone
  <1>8. Grows /\ \A p \in Positions : Written(p)' = Written(p)
    <2>1. \A p \in Positions : "INSTR" \in word'[p] <=> "INSTR" \in word[p]
      BY <1>4, <1>5
    <2> QED BY <1>2, <1>3, <1>6, <2>1 DEF Grows, Written
  <1>9. \A v \in Slots : /\ Launched(v)' <=> Launched(v)
                         /\ Active(v)' <=> Active(v)
                         /\ Ended(v)' <=> Ended(v)
                         /\ worker'[v].at = worker[v].at
    BY <1>1, <1>3 DEF Launched, Active, Ended
  <1>10. Launches'
    <2>1. (\A v \in Slots : Launched(v) => kind[v] \in Listed /\ Written(v))'
      BY <1>2, <1>6, <1>7, <1>8, <1>9 DEF Launches
    <2>2. (\A s \in Slots : txnOf[s] # 0 => Active(txnOf[s]) \/ Decided(s))'
      <3> SUFFICES ASSUME NEW s \in Slots, txnOf[s] # 0, ~Decided(s)'
                   PROVE  Active(txnOf[s])'
        BY <1>3
      <3>1. PICK u \in Slots : u = txnOf[s]
        BY <1>2
      <3>2. Active(u)
        BY <1>7, <1>8, <3>1, DecidedStays DEF Launches
      <3>3. Active(u)'
        BY <1>9, <3>2
      <3> QED BY <1>3, <3>1, <3>3
    <2>3. (startAddress # 0 => kind[startAddress] \in Listed /\ Written(startAddress))'
      BY <1>2, <1>6, <1>7, <1>8 DEF Launches
    <2>4. (\A u, v \in Slots : Active(u) /\ Active(v) => u = v)'
      BY <1>7, <1>9 DEF Launches
    <2>5. (\A v \in Slots : outcome[v] # "none" <=> worker[v].pc \in {"publish", "complete", "done"})'
      BY <1>3, <1>7 DEF Launches
    <2> QED BY <2>1, <2>2, <2>3, <2>4, <2>5 DEF Launches
  <1>11. EndsOutside'
    BY <1>3, <1>7, <1>8, <1>9, EndsOutsideStays
  <1>12. OverWhenDone'
    <2>1. \A v \in Slots : worker'[v].pc \in {"mark", "publish"} => worker'[v] = worker[v]
      BY <1>3
    <2>2. \A p \in Positions : word'[p] \cap TxnDone # {} => word[p] \cap TxnDone # {} \/ Over(p)
      BY <1>4, <1>7
    <2> QED BY <1>7, <1>8, <2>1, <2>2, OverWhenDoneStays
  <1> QED BY <1>8, <1>10, <1>11, <1>12 DEF Transactions

LEMMA WorkerTransactions ==
  ASSUME OrderInv, Transactions, NEW w \in Slots, WorkerStep(w)
  PROVE  Grows /\ Transactions'
  BY QuietWorkerTransactions, StartWaitTransactions, MarkTransactions, ExecuteTransactions,
     DelimitTransactions, CommitTransactions, PublishTransactions DEF WorkerStep

-----------------------------------------------------------------------------
(* Workers and words: the steps of JavaScript.                              *)

(* The slot a worker is started at, or is to be started at later.           *)
LEMMA StartsOrNot ==
  ASSUME OrderInv, Transactions, UNCHANGED <<word, position, kind, txnOf, outcome>>,
         NEW from \in {0} \cup Slots, from = 0 => startAddress = 0,
         from # 0 => /\ Frontier(from) /\ kind[from] \in Listed /\ Written(from)
                     /\ \A w \in Slots : ~Launched(w),
         \/ startAddress' = from /\ worker' = worker
         \/ startAddress' = 0 /\ StartWriting(from)
  PROVE  Grows /\ Transactions'
  <1>1. Grows
    BY OrderTypes DEF OrderInv, Grows, Written
  <1>2. CASE from = 0
    <2>1. worker' = worker /\ startAddress' = startAddress
      BY <1>2, OrderTypes, SlotFacts DEF StartWriting, OrderInv
    <2> QED BY <1>1, <2>1, TransactionsStay DEF Keeps
  <1>3. CASE from # 0
    BY <1>1, <1>3, StartsTransaction, AddressesTransaction
  <1> QED BY <1>2, <1>3

(* What a step that saw a status does with the token.                       *)
LEMMA SeenFacts ==
  ASSUME OrderInv, Seen
  PROVE  \E s, from \in {0} \cup Slots, loops \in {<<>>, Resolve} :
           /\ todo # <<>> /\ Head(todo).op = "seen" /\ s \in Slots /\ s = Head(todo).slot
           /\ todo' = loops \o <<Step("promise", s, {})>> \o Tail(todo)
           /\ IF SeenToken THEN QueueCommit(s) /\ from = s ELSE UNCHANGED txnChain /\ from = startAddress
           /\ from # 0 => /\ Frontier(from) /\ Nest(from) = 0
                          /\ \A w \in Slots : ~Launched(w)
                          /\ \A p \in Positions : ~Free(p)
           /\ from = 0 => startAddress = 0
           /\ \/ startAddress' = from /\ worker' = worker
              \/ startAddress' = 0 /\ StartWriting(from)
  <1> DEFINE begins == Has(Head(todo).status, "DELIMITER")
             start == IF begins /\ startAddress = 0 THEN Head(todo).slot ELSE startAddress
             count == outstandingWriteCount + 1
             startNow == start # 0 /\ (EventTurnBatching
                                       \/ (enqueuedCommit /\ count > TxnStartThreshold))
             loops == IF count % ResolveEvery = 0 THEN Resolve ELSE <<>>
  <1>1. /\ todo # <<>> /\ Head(todo).op = "seen"
        /\ todo' = loops \o <<Step("promise", Head(todo).slot, {})>> \o Tail(todo)
        /\ startAddress' = IF startNow THEN 0 ELSE start
        /\ IF startNow THEN StartWriting(start) ELSE worker' = worker
        /\ IF begins THEN QueueCommit(Head(todo).slot) ELSE UNCHANGED txnChain
    BY DEF Seen, Doing
  <1>2. PICK s \in Slots : s = Head(todo).slot
    BY <1>1, HeadStep DEF Placings
  <1>3. /\ OneToken /\ AtFrontier /\ startAddress \in {0} \cup Slots /\ Slots \subseteq Positions
        /\ 0 \notin Slots
    BY OrderTypes, SlotFacts DEF OrderInv, Token
  <1>4. PICK from \in {0} \cup Slots : from = start
    BY <1>2, <1>3
  <1>5. begins <=> SeenToken
    BY <1>1 DEF SeenToken, Doing, Has
  <1>6. SeenToken => startAddress = 0 /\ from = s /\ Frontier(s) /\ Nest(s) = 0
    <2>1. ASSUME SeenToken PROVE startAddress = 0
      BY <1>3, <2>1 DEF OneToken
    <2>2. ASSUME SeenToken PROVE Frontier(s)
      BY <1>2, <1>3, <2>2 DEF AtFrontier
    <2>3. ASSUME SeenToken PROVE Nest(s) = 0
      BY <1>1, <1>2, <2>3, HeadStep DEF StepOK, SeenToken
    <2> QED BY <1>2, <1>4, <1>5, <2>1, <2>2, <2>3
  <1>7. ~SeenToken => from = startAddress
    BY <1>4, <1>5
  <1>8. from # 0 => /\ Frontier(from) /\ Nest(from) = 0
                    /\ \A w \in Slots : ~Launched(w)
                    /\ \A p \in Positions : ~Free(p)
    BY <1>3, <1>6, <1>7 DEF OneToken, AtFrontier
  <1>9. from = 0 => startAddress = 0
    BY <1>3, <1>6, <1>7
  <1>10. \/ startAddress' = from /\ worker' = worker
         \/ startAddress' = 0 /\ StartWriting(from)
    <2>1. startAddress' = IF startNow THEN 0 ELSE from
      BY <1>1, <1>4
    <2>2. IF startNow THEN StartWriting(from) ELSE worker' = worker
      BY <1>1, <1>4
    <2> HIDE DEF startNow
    <2> QED BY <2>1, <2>2
  <1>11. loops \in {<<>>, Resolve}
    OBVIOUS
  <1>12. IF SeenToken THEN QueueCommit(s) /\ from = s ELSE UNCHANGED txnChain /\ from = startAddress
    BY <1>1, <1>2, <1>5, <1>6, <1>7
  <1>13. todo' = loops \o <<Step("promise", s, {})>> \o Tail(todo)
    BY <1>1, <1>2
  <1> HIDE DEF begins, start, startNow, loops
  <1> QED BY <1>1, <1>2, <1>8, <1>9, <1>10, <1>11, <1>12, <1>13

LEMMA SeenTransactions ==
  ASSUME OrderInv, Transactions, Seen
  PROVE  Grows /\ Transactions'
  <1>1. PICK s, from \in {0} \cup Slots :
           /\ todo # <<>> /\ Head(todo).op = "seen" /\ s \in Slots /\ s = Head(todo).slot
           /\ IF SeenToken THEN from = s ELSE from = startAddress
           /\ from # 0 => Frontier(from) /\ \A w \in Slots : ~Launched(w)
           /\ from = 0 => startAddress = 0
           /\ \/ startAddress' = from /\ worker' = worker
              \/ startAddress' = 0 /\ StartWriting(from)
    BY SeenFacts
  <1>2. UNCHANGED <<word, position, kind, txnOf, outcome>>
    BY DEF Seen, shared, placing, history
  <1>3. kind[s] \in Listed /\ Written(s)
    BY <1>1, HeadStep DEF StepOK
  <1>4. startAddress # 0 => kind[startAddress] \in Listed /\ Written(startAddress)
    BY DEF Transactions, Launches
  <1>5. from # 0 => kind[from] \in Listed /\ Written(from)
    BY <1>1, <1>3, <1>4
  <1> QED BY ONLY OrderInv, Transactions, <1>1, <1>2, <1>5, StartsOrNot

LEMMA CommitTimerTransactions ==
  ASSUME OrderInv, Transactions, CommitTimer
  PROVE  Grows /\ Transactions'
  <1>1. /\ startAddress' = 0 /\ StartWriting(startAddress)
        /\ UNCHANGED <<word, position, kind, txnOf, outcome>>
    BY DEF CommitTimer, shared, placing, history
  <1>2. PICK from \in {0} \cup Slots : from = startAddress
    BY OrderTypes DEF OrderInv
  <1>3. from # 0 => /\ Frontier(from) /\ kind[from] \in Listed /\ Written(from)
                    /\ \A w \in Slots : ~Launched(w)
    BY <1>2 DEF OrderInv, Token, OneToken, AtFrontier, Transactions, Launches
  <1>4. StartWriting(from) /\ (from = 0 => startAddress = 0)
    BY <1>1, <1>2
  <1> QED BY ONLY OrderInv, Transactions, <1>1, <1>3, <1>4, StartsOrNot

(* The steps of a call that start no worker.                                *)
LEMMA StepsKeep ==
  ASSUME JavaScriptStep, ~Seen
  PROVE  UNCHANGED <<position, kind, txnOf, outcome, startAddress, worker, resolutions>>
  <1>1. ASSUME Load PROVE UNCHANGED <<position, kind, txnOf, outcome, startAddress, worker, resolutions>>
    BY <1>1 DEF Load, placing, starting, writing, history
  <1>2. ASSUME Store PROVE UNCHANGED <<position, kind, txnOf, outcome, startAddress, worker, resolutions>>
    BY <1>2 DEF Store, placing, starting, writing, history
  <1>3. ASSUME Or PROVE UNCHANGED <<position, kind, txnOf, outcome, startAddress, worker, resolutions>>
    BY <1>3 DEF Or, placing, starting, writing, history
  <1>4. ASSUME ReturnPromise PROVE UNCHANGED <<position, kind, txnOf, outcome, startAddress, worker, resolutions>>
    BY <1>4 DEF ReturnPromise, placing, starting, writing, history
  <1>5. ASSUME AdvanceUnwritten PROVE UNCHANGED <<position, kind, txnOf, outcome, startAddress, worker, resolutions>>
    BY <1>5 DEF AdvanceUnwritten, placing, starting, writing, history
  <1>6. ASSUME SettleTxn PROVE UNCHANGED <<position, kind, txnOf, outcome, startAddress, worker, resolutions>>
    BY <1>6 DEF SettleTxn, placing, starting, writing, history
  <1>7. ASSUME RunCallbacks PROVE UNCHANGED <<position, kind, txnOf, outcome, startAddress, worker, resolutions>>
    BY <1>7 DEF RunCallbacks, placing, starting, writing, history
  <1> QED BY <1>1, <1>2, <1>3, <1>4, <1>5, <1>6, <1>7 DEF JavaScriptStep

LEMMA PlainTransactions ==
  ASSUME OrderInv, Transactions, JavaScriptStep \/ (\E w \in Slots : Completion(w) \/ Progress(w)), ~Seen
  PROVE  Grows /\ Transactions'
  <1>1. /\ worker \in [Slots -> WorkerRecords] /\ word \in [Positions -> SUBSET Bits]
        /\ position \in Nat /\ Slots \subseteq Positions
    BY OrderTypes DEF OrderInv
  <1>2. UNCHANGED <<position, kind, txnOf, outcome, startAddress>>
    <2>1. ASSUME NEW w \in Slots, Completion(w) \/ Progress(w)
          PROVE  UNCHANGED <<position, kind, txnOf, outcome, startAddress>>
      BY <2>1 DEF Completion, Progress, placing, starting, history
    <2> QED BY <2>1, StepsKeep
  <1>3. \A w \in Slots : Keeps(w)
    <2>1. CASE JavaScriptStep
      <3>1. worker' = worker
        BY <2>1, StepsKeep
      <3> QED BY <3>1 DEF Keeps
    <2>2. ASSUME NEW w \in Slots, Completion(w)
          PROVE  \A v \in Slots : Keeps(v)
      <3>1. /\ worker'[w].pc = "done" /\ worker[w].pc = "complete" /\ worker'[w].at = worker[w].at
            /\ \A v \in Slots : v # w => worker'[v] = worker[v]
        BY <1>1, <2>2 DEF Completion, WorkerRecords
      <3> QED BY <3>1 DEF Keeps
    <2>3. ASSUME NEW w \in Slots, Progress(w)
          PROVE  \A v \in Slots : Keeps(v)
      <3>1. \A v \in Slots : /\ worker'[v].at = worker[v].at /\ worker'[v].pc = worker[v].pc
                             /\ worker'[v].read = worker[v].read
        BY <1>1, <2>3 DEF Progress, WorkerRecords
      <3> QED BY <3>1 DEF Keeps
    <2> QED BY <2>1, <2>2, <2>3
  <1>4. \A p \in Positions :
          /\ "INSTR" \in word[p] => "INSTR" \in word'[p]
          /\ word'[p] \cap TxnDone # {} => word[p] \cap TxnDone # {}
    <2>1. CASE Store
      <3>1. PICK s \in Slots : s = Head(todo).slot
        BY <2>1, HeadStep DEF Store, Doing, Placings
      <3>2. word' = [word EXCEPT ![s] = {"INSTR"}]
        BY <2>1, <3>1 DEF Store
      <3>3. \A p \in Positions : word'[p] = IF p = s THEN {"INSTR"} ELSE word[p]
        BY <1>1, <3>2
      <3> QED BY <3>3 DEF TxnDone
    <2>2. CASE Or
      <3>1. PICK s \in Slots : s = Head(todo).slot
        BY <2>2, HeadStep DEF Or, Doing, Placings
      <3>2. word' = [word EXCEPT ![s] = @ \cup {"INSTR"}]
        BY <2>2, <3>1 DEF Or
      <3>3. \A p \in Positions : word'[p] = IF p = s THEN word[s] \cup {"INSTR"} ELSE word[p]
        BY <1>1, <3>2
      <3> QED BY <3>3 DEF TxnDone
    <2>3. CASE ~Store /\ ~Or
      <3>1. word' = word
        BY <2>3 DEF JavaScriptStep, Load, ReturnPromise, AdvanceUnwritten, SettleTxn, RunCallbacks,
                    Completion, Progress, shared
      <3> QED BY <3>1
    <2> QED BY <2>1, <2>2, <2>3
  <1>5. Grows
    BY <1>1, <1>2, <1>4 DEF Grows, Written
  <1> QED BY <1>2, <1>3, <1>4, <1>5, TransactionsStay

(* The calls that place an instruction: what they place, and where.         *)
LEMMA WritePlaces ==
  ASSUME OrderInv, NEW k \in {"write", "callback"}, NEW own \in BOOLEAN, Write(k, own)
  PROVE  \E s, opens, pointers :
           /\ Places(k, s, opens, pointers)
           /\ opens <=> EventTurnBatching /\ turn = 0 /\ batchDepth = 0
           /\ todo' = <<Step(IF opens \/ batchDepth > 0 THEN "load" ELSE "or", s, {})>>
           /\ commitPromise' = IF opens THEN 0 ELSE commitPromise
           /\ UNCHANGED <<startAddress, txnChain, uncommitted, promise, settled, worker, txnOf,
                          outcome, blocks>>
           /\ batchDepth' = IF opens THEN 1 ELSE batchDepth
  <1>1. PICK startFull \in BOOLEAN, full \in BOOLEAN :
          LET place == Place(startFull, full) IN
          /\ Fits(place, 0) /\ Reserve(k, own, place)
          /\ batchDepth' = place.depth
          /\ todo' = <<Step(IF place.depth > 0 THEN "load" ELSE "or", place.slot, {})>>
          /\ UNCHANGED <<startAddress, txnChain, uncommitted, promise, settled, worker, txnOf,
                          outcome, blocks>>
    BY DEF Write, writing, history, starting, resolving
  <1> DEFINE place == Place(startFull, full)
  <1>2. place.depth = (IF place.opensTurn THEN 1 ELSE batchDepth) /\ place.opensTurn \in BOOLEAN
    BY <1>1, PlaceFacts DEF OrderInv, Inv
  <1>3. Places(k, place.slot, place.opensTurn, place.pointers)
    BY <1>1, ReservePlaces
  <1>4. commitPromise' = IF place.opensTurn THEN 0 ELSE commitPromise
    BY <1>1 DEF Reserve
  <1>5. /\ batchDepth' = place.depth
        /\ todo' = <<Step(IF place.depth > 0 THEN "load" ELSE "or", place.slot, {})>>
        /\ UNCHANGED <<startAddress, txnChain, uncommitted, promise, settled, worker, txnOf,
                       outcome, blocks>>
    BY <1>1
  <1>6. place.depth > 0 <=> place.opensTurn \/ batchDepth > 0
    BY <1>2
  <1>8. place.opensTurn <=> EventTurnBatching /\ turn = 0 /\ batchDepth = 0
    BY DEF Place
  <1> HIDE DEF place
  <1>7. todo' = <<Step(IF place.opensTurn \/ batchDepth > 0 THEN "load" ELSE "or", place.slot, {})>>
    BY <1>5, <1>6
  <1> QED BY <1>2, <1>3, <1>4, <1>5, <1>7, <1>8

LEMMA OpenBlockPlaces ==
  ASSUME OrderInv, NEW own \in BOOLEAN, OpenBlock(own)
  PROVE  \E s, opens, pointers :
           /\ Places("start", s, opens, pointers)
           /\ opens <=> EventTurnBatching /\ turn = 0 /\ batchDepth = 0
           /\ todo' = IF opens \/ batchDepth > 0 THEN <<Step("load", s, {})>> ELSE <<>>
           /\ commitPromise' = IF opens THEN 0 ELSE commitPromise
           /\ UNCHANGED <<startAddress, txnChain, uncommitted, promise, settled, worker, txnOf,
                          outcome>>
           /\ blocks' = Append(blocks, s)
           /\ batchDepth' = (IF opens THEN 1 ELSE batchDepth) + 2
  <1>1. PICK startFull \in BOOLEAN, full \in BOOLEAN :
          LET place == Place(startFull, full)
              nested == place.depth > 0 IN
          /\ Fits(place, 1) /\ Reserve("start", own, place)
          /\ batchDepth' = place.depth + 2
          /\ blocks' = Append(blocks, place.slot)
          /\ todo' = IF nested THEN <<Step("load", place.slot, {})>> ELSE <<>>
          /\ UNCHANGED <<startAddress, txnChain, uncommitted, promise, settled, worker, txnOf,
                          outcome>>
    BY DEF OpenBlock, writing, history, starting, resolving
  <1> DEFINE place == Place(startFull, full)
  <1>2. place.depth = (IF place.opensTurn THEN 1 ELSE batchDepth) /\ place.opensTurn \in BOOLEAN
    BY <1>1, PlaceFacts DEF OrderInv, Inv
  <1>3. Places("start", place.slot, place.opensTurn, place.pointers)
    BY <1>1, ReservePlaces
  <1>4. commitPromise' = IF place.opensTurn THEN 0 ELSE commitPromise
    BY <1>1 DEF Reserve
  <1>5. /\ batchDepth' = place.depth + 2 /\ blocks' = Append(blocks, place.slot)
        /\ todo' = IF place.depth > 0 THEN <<Step("load", place.slot, {})>> ELSE <<>>
        /\ UNCHANGED <<startAddress, txnChain, uncommitted, promise, settled, worker, txnOf,
                       outcome>>
    BY <1>1
  <1>6. place.depth > 0 <=> place.opensTurn \/ batchDepth > 0
    BY <1>2
  <1>8. place.opensTurn <=> EventTurnBatching /\ turn = 0 /\ batchDepth = 0
    BY DEF Place
  <1> HIDE DEF place
  <1>7. todo' = IF place.opensTurn \/ batchDepth > 0 THEN <<Step("load", place.slot, {})>> ELSE <<>>
    BY <1>5, <1>6
  <1> QED BY <1>2, <1>3, <1>4, <1>5, <1>7, <1>8

LEMMA PlacesTransactions ==
  ASSUME OrderInv, Transactions, NEW k \in Listed, NEW s, NEW opens, NEW pointers,
         Places(k, s, opens, pointers), UNCHANGED <<txnOf, outcome, startAddress, worker>>
  PROVE  Grows /\ Transactions'
  <1>1. Inv /\ FreshSlots /\ word \in [Positions -> SUBSET Bits]
    BY OrderTypes DEF OrderInv, Placement
  <1>2. /\ position \in Nat /\ position' \in Nat /\ position <= s /\ s < position' /\ s \in Nat
        /\ \A q \in Slots : q < position => kind'[q] = kind[q]
    BY <1>1, PlacesBefore, SlotFacts
  <1>3. \A q \in Positions : word'[q] = word[q] \/ word'[q] = {"INSTR"}
    BY DEF Places
  <1>4. \A q \in Positions : /\ "INSTR" \in word[q] => "INSTR" \in word'[q]
                             /\ word'[q] \cap TxnDone # {} => word[q] \cap TxnDone # {}
    BY <1>3 DEF TxnDone
  <1>5. position <= position'
    BY <1>2
  <1>6. Grows
    BY <1>2, <1>4, <1>5 DEF Grows, Written
  <1> QED BY <1>4, <1>6, TransactionsStay DEF Keeps

LEMMA EndTransactions ==
  ASSUME OrderInv, Transactions, CloseBlock \/ EndTurn
  PROVE  Grows /\ Transactions'
  <1>1. EndBlock
    BY DEF CloseBlock, EndTurn
  <1>2. UNCHANGED <<word, txnOf, outcome, startAddress, worker>>
    BY DEF CloseBlock, EndTurn, shared, starting, writing, history
  <1>3. position \in Nat /\ Slots \subseteq Nat /\ kind \in [Slots -> Kinds]
    BY OrderTypes DEF OrderInv
  <1>4. Grows
    BY <1>1, <1>2, <1>3 DEF Grows, EndBlock, Written
  <1> QED BY <1>2, <1>4, TransactionsStay DEF Keeps

LEMMA CallTransactions ==
  ASSUME OrderInv, Transactions, Call
  PROVE  Grows /\ Transactions'
  <1>1. ASSUME NEW k \in {"write", "callback"}, NEW own \in BOOLEAN, Write(k, own)
        PROVE  Grows /\ Transactions'
    <2>1. PICK s, opens, pointers :
            /\ Places(k, s, opens, pointers)
            /\ UNCHANGED <<txnOf, outcome, startAddress, worker>>
      BY <1>1, WritePlaces
    <2>2. k \in Listed
      BY DEF Listed
    <2> QED BY <2>1, <2>2, PlacesTransactions
  <1>2. ASSUME NEW own \in BOOLEAN, OpenBlock(own)
        PROVE  Grows /\ Transactions'
    <2>1. PICK s, opens, pointers :
            /\ Places("start", s, opens, pointers)
            /\ UNCHANGED <<txnOf, outcome, startAddress, worker>>
      BY <1>2, OpenBlockPlaces
    <2>2. "start" \in Listed
      BY DEF Listed
    <2> QED BY <2>1, <2>2, PlacesTransactions
  <1> QED BY <1>1, <1>2 DEF Call

(* Every step of the write path.                                            *)
LEMMA TransactionsNext ==
  ASSUME OrderInv, Transactions, [Next]_vars
  PROVE  Grows /\ Transactions'
  <1>1. ASSUME UNCHANGED vars PROVE Grows /\ Transactions'
    <2>1. UNCHANGED <<word, position, kind, txnOf, outcome, startAddress, worker>>
      BY <1>1 DEF vars, shared, placing, starting, writing, history
    <2>2. Grows
      BY <2>1, OrderTypes DEF Grows, Written, OrderInv
    <2> QED BY <2>1, <2>2, TransactionsStay DEF Keeps
  <1>2. ASSUME JavaScriptStep PROVE Grows /\ Transactions'
    BY <1>2, SeenTransactions, PlainTransactions
  <1>3. ASSUME Event PROVE Grows /\ Transactions'
    <2>1. CASE Seen
      BY <2>1, SeenTransactions
    <2> QED BY <1>3, <2>1, EndTransactions, CommitTimerTransactions, PlainTransactions DEF Event
  <1> QED BY <1>1, <1>2, <1>3, CallTransactions, WorkerTransactions DEF Next, Quiescent

-----------------------------------------------------------------------------
(* The steps of a call.                                                     *)

(* What a step of a call adds in its own place.                             *)
Adds(a) ==
  /\ \A i \in DOMAIN a : a[i].op \in Placings =>
       \/ Head(todo).op \in Placings /\ a[i].slot = Head(todo).slot
       \/ batchDepth > 0 /\ a[i].slot = Outermost
  /\ \A i \in DOMAIN a : a[i].op = "seen" =>
       /\ Head(todo).op \in Placings /\ a[i].slot = Head(todo).slot
       /\ kind[a[i].slot] \in Listed /\ "INSTR" \in word'[a[i].slot]
       /\ "DELIMITER" \in a[i].status => Free(a[i].slot)
  /\ \A i \in DOMAIN a : a[i].op = "promise" =>
       Head(todo).op = "seen" /\ a[i].slot = Head(todo).slot
  /\ \A i, j \in DOMAIN a : a[i].op \in Reporting /\ a[j].op \in Reporting => i = j

LEMMA StoreAdds ==
  ASSUME OrderInv, Store
  PROVE  todo # <<>> /\ \E a \in Seq(JSSteps) : todo' = a \o Tail(todo) /\ Adds(a)
  <1> DEFINE counts == kind[Head(todo).slot] # "end" /\ writeBatchStart # 0
                       /\ Head(todo).status = {}
             release == counts /\ outstandingBatchCount + 1 > BatchStartThreshold
             early == IF release THEN <<Finish(writeBatchStart)>> ELSE <<>>
  <1>1. /\ todo # <<>> /\ Head(todo).op = "store"
        /\ todo' = early \o AfterStore(Head(todo).slot, Head(todo).status) \o Tail(todo)
        /\ word' = [word EXCEPT ![Head(todo).slot] = {"INSTR"}]
    BY DEF Store, Doing
  <1>2. PICK s \in Slots : s = Head(todo).slot
    BY <1>1, HeadStep DEF Placings
  <1>3. PICK st \in SUBSET Bits : st = Head(todo).status
    BY <1>1, HeadStep DEF Placings
  <1>4. /\ kind[s] \in Listed \cup {"end"} /\ "DELIMITER" \notin st
    BY <1>1, <1>2, <1>3, HeadStep DEF StepOK, Placings
  <1>5. /\ word \in [Positions -> SUBSET Bits] /\ s \in Positions
        /\ HeldBack /\ todo \in Seq(JSSteps)
    BY OrderTypes, SlotFacts DEF OrderInv, Placement
  <1>6. "INSTR" \in word'[s]
    BY <1>1, <1>2, <1>5
  <1>7. PICK next : next = AfterStore(s, st)
    OBVIOUS
  <1>8. /\ next \in Seq(JSSteps)
        /\ kind[s] = "end" => next = <<>>
        /\ kind[s] # "end" => /\ DOMAIN next = {1} /\ next[1].op = "seen"
                              /\ next[1].slot = s /\ next[1].status = st
    BY <1>7, SeenFollows
  <1>9. \A i \in DOMAIN next : /\ i = 1 /\ next[i].op = "seen" /\ next[i].slot = s
                               /\ next[i].status = st /\ kind[s] \in Listed
    BY <1>4, <1>8
  <1>10. CASE release
    <2>1. batchDepth > 0 /\ writeBatchStart # 0
      <3>1. 1 \in DOMAIN todo /\ todo[1].op = "store"
        BY <1>1, HeadStep
      <3> QED BY <1>5, <1>10, <3>1 DEF HeldBack
    <2>2. PICK b \in Slots : b = Outermost /\ Finish(writeBatchStart) = Step("or", b, {})
      BY <2>1, StartHeldBack
    <2>3. PICK x \in JSSteps : x = Step("or", b, {})
      BY StepTypes
    <2>4. x.op = "or" /\ x.slot = b
      BY <2>3 DEF Step
    <2>5. PICK a : a = <<x>> \o next
      OBVIOUS
    <2>6. /\ a \in Seq(JSSteps) /\ a[1] = x
          /\ \A i \in DOMAIN a : i # 1 => i - 1 \in DOMAIN next /\ a[i] = next[i - 1]
          /\ \A i \in DOMAIN a : i \in Nat
      BY <1>8, <2>5, StepBefore
    <2>7. todo' = a \o Tail(todo)
      BY <1>1, <1>2, <1>3, <1>7, <1>10, <2>2, <2>3, <2>5
    <2>8. \A i \in DOMAIN a : IF i = 1 THEN a[i].op = "or" /\ a[i].slot = b
                              ELSE /\ i = 2 /\ a[i].op = "seen" /\ a[i].slot = s
                                   /\ a[i].status = st /\ kind[s] \in Listed
      <3> SUFFICES ASSUME NEW i \in DOMAIN a, i # 1
                   PROVE  i = 2 /\ a[i].op = "seen" /\ a[i].slot = s /\ a[i].status = st
                          /\ kind[s] \in Listed
        BY <2>4, <2>6
      <3>1. i - 1 = 1 /\ i \in Nat /\ a[i] = next[1] /\ 1 \in DOMAIN next
        BY <1>9, <2>6
      <3> QED BY <1>9, <3>1
    <2>9. Adds(a)
      BY <1>1, <1>2, <1>4, <1>6, <2>1, <2>2, <2>8 DEF Adds, Placings, Reporting
    <2> QED BY <1>1, <2>6, <2>7, <2>9
  <1>11. CASE ~release
    <2>1. todo' = next \o Tail(todo)
      <3>1. next \o Tail(todo) = <<>> \o next \o Tail(todo)
        BY <1>8
      <3> QED BY <1>1, <1>2, <1>3, <1>7, <1>11, <3>1
    <2>2. Adds(next)
      BY <1>1, <1>2, <1>4, <1>6, <1>9 DEF Adds, Placings, Reporting
    <2> QED BY <1>1, <1>8, <2>1, <2>2
  <1> QED BY <1>10, <1>11

LEMMA OrAdds ==
  ASSUME OrderInv, Or
  PROVE  todo # <<>> /\ \E a \in Seq(JSSteps) : todo' = a \o Tail(todo) /\ Adds(a)
  <1>1. /\ todo # <<>> /\ Head(todo).op = "or"
        /\ todo' = AfterStore(Head(todo).slot, word[Head(todo).slot]) \o Tail(todo)
        /\ word' = [word EXCEPT ![Head(todo).slot] = @ \cup {"INSTR"}]
    BY DEF Or, Doing
  <1>2. PICK s \in Slots : s = Head(todo).slot
    BY <1>1, HeadStep DEF Placings
  <1>3. kind[s] \in Listed \cup {"end"} /\ ~Written(s)
    BY <1>1, <1>2, HeadStep DEF StepOK, Placings
  <1>4. word \in [Positions -> SUBSET Bits] /\ s \in Positions
    BY OrderTypes, SlotFacts DEF OrderInv
  <1>5. "INSTR" \in word'[s] /\ word[s] \in SUBSET Bits
    BY <1>1, <1>2, <1>4
  <1>6. PICK next : next = AfterStore(s, word[s])
    OBVIOUS
  <1>7. /\ next \in Seq(JSSteps)
        /\ kind[s] = "end" => next = <<>>
        /\ kind[s] # "end" => /\ DOMAIN next = {1} /\ next[1].op = "seen"
                              /\ next[1].slot = s /\ next[1].status = word[s]
    BY <1>5, <1>6, SeenFollows
  <1>8. \A i \in DOMAIN next : /\ i = 1 /\ next[i].op = "seen" /\ next[i].slot = s
                               /\ next[i].status = word[s] /\ kind[s] \in Listed
    BY <1>3, <1>7
  <1>9. todo' = next \o Tail(todo)
    BY <1>1, <1>2, <1>6
  <1>10. Adds(next)
    BY <1>1, <1>2, <1>3, <1>5, <1>8 DEF Adds, Placings, Reporting, Free
  <1> QED BY <1>1, <1>7, <1>9, <1>10

LEMMA LoadAdds ==
  ASSUME OrderInv, Load
  PROVE  todo # <<>> /\ \E a \in Seq(JSSteps) : todo' = a \o Tail(todo) /\ Adds(a)
  <1>1. /\ todo # <<>> /\ Head(todo).op = "load"
        /\ todo' = <<Step("store", Head(todo).slot, word[Head(todo).slot])>> \o Tail(todo)
    BY DEF Load, Doing
  <1>2. PICK s \in Slots : s = Head(todo).slot
    BY <1>1, HeadStep DEF Placings
  <1>3. word[s] \in SUBSET Bits
    BY OrderTypes DEF OrderInv
  <1>4. PICK x \in JSSteps : x = Step("store", s, word[s])
    BY <1>3, StepTypes
  <1>5. PICK a \in Seq(JSSteps) : a = <<x>>
    <2>1. <<x>> \in Seq(JSSteps)
      BY <1>4
    <2> QED BY ONLY <2>1, Zenon
  <1>6. DOMAIN a = {1} /\ a[1].op = "store" /\ a[1].slot = s
    BY <1>4, <1>5 DEF Step
  <1>7. Adds(a)
    BY <1>1, <1>2, <1>6 DEF Adds, Placings, Reporting
  <1>8. todo' = a \o Tail(todo)
    BY <1>1, <1>2, <1>4, <1>5
  <1> QED BY <1>1, <1>7, <1>8

LEMMA SeenAdds ==
  ASSUME OrderInv, Seen
  PROVE  todo # <<>> /\ \E a \in Seq(JSSteps) : todo' = a \o Tail(todo) /\ Adds(a)
  <1>1. PICK s \in Slots, loops \in {<<>>, Resolve} :
           /\ todo # <<>> /\ Head(todo).op = "seen" /\ s = Head(todo).slot
           /\ todo' = loops \o <<Step("promise", s, {})>> \o Tail(todo)
    BY SeenFacts
  <1>2. PICK y \in Seq(JSSteps) : y = <<Step("promise", s, {})>>
    <2>1. Step("promise", s, {}) \in JSSteps
      BY StepTypes
    <2>2. <<Step("promise", s, {})>> \in Seq(JSSteps)
      BY <2>1
    <2> QED BY ONLY <2>2, Zenon
  <1>3. DOMAIN y = {1} /\ Len(y) = 1 /\ y[1].op = "promise" /\ y[1].slot = s
    BY <1>2 DEF Step
  <1>4. PICK x \in Seq(JSSteps) : x = loops
    <2>1. <<>> \in Seq(JSSteps) /\ Resolve \in Seq(JSSteps)
      BY StepTypes
    <2> QED BY ONLY <2>1, loops \in {<<>>, Resolve}, Zenon
  <1>5. \A i \in DOMAIN x : x[i].op \notin Placings \cup Reporting
    <2>1. CASE x = <<>>
      BY <2>1
    <2>2. CASE x = Resolve
      BY <2>2 DEF Resolve, Step, Placings, Reporting
    <2> QED BY <1>4, <2>1, <2>2
  <1>6. PICK a \in Seq(JSSteps) : a = x \o y
    BY Concat
  <1>7. \A i \in DOMAIN a : IF i \in DOMAIN x THEN a[i] = x[i]
                            ELSE i = Len(x) + 1 /\ a[i] = y[1]
    <2>1. Len(x) \in Nat /\ DOMAIN x = 1..Len(x) /\ DOMAIN a = 1..Len(x) + 1
      <3>1. Len(x) \in Nat /\ DOMAIN x = 1..Len(x) /\ Len(y) = 1
        BY <1>3
      <3>2. Len(a) = Len(x) + Len(y) /\ DOMAIN a = 1..Len(a)
        BY ONLY x \in Seq(JSSteps), y \in Seq(JSSteps), a \in Seq(JSSteps), <1>6
      <3> QED BY <3>1, <3>2
    <2>2. \A i \in 1..Len(x) : a[i] = x[i]
      BY <1>3, <1>6
    <2>3. \A i \in 1..Len(x) + 1 : i \notin 1..Len(x) => i = Len(x) + 1
      BY <2>1
    <2>4. a[Len(x) + 1] = y[1]
      BY <1>3, <1>6, <2>1
    <2> QED BY <2>1, <2>2, <2>3, <2>4
  <1>8. \A i \in DOMAIN a : /\ a[i].op \notin Placings \cup {"seen"}
                            /\ a[i].op = "promise" => i = Len(x) + 1 /\ a[i].slot = s
    BY <1>3, <1>5, <1>7 DEF Placings, Reporting
  <1>9. Adds(a)
    BY <1>1, <1>8 DEF Adds, Reporting
  <1>10. todo' = a \o Tail(todo)
    BY <1>1, <1>2, <1>4, <1>6
  <1> QED BY <1>1, <1>9, <1>10

LEMMA CallGoesOn ==
  ASSUME OrderInv, JavaScriptStep
  PROVE  /\ todo # <<>>
         /\ \/ todo' = todo /\ Head(todo).op \notin Reporting
            \/ \E a \in Seq(JSSteps) : todo' = a \o Tail(todo) /\ Adds(a)
  <1>1. ASSUME todo # <<>>, todo' = Tail(todo)
        PROVE  \E a \in Seq(JSSteps) : todo' = a \o Tail(todo) /\ Adds(a)
    <2>1. PICK a \in Seq(JSSteps) : a = <<>>
      <3>1. <<>> \in Seq(JSSteps)
        OBVIOUS
      <3> QED BY ONLY <3>1, Zenon
    <2>2. DOMAIN a = {} /\ Tail(todo) = a \o Tail(todo)
      BY <1>1, <2>1, OrderTypes DEF OrderInv
    <2> QED BY <1>1, <2>2 DEF Adds
  <1>2. ASSUME ReturnPromise \/ RunCallbacks PROVE todo # <<>> /\ todo' = Tail(todo)
    BY <1>2 DEF ReturnPromise, RunCallbacks, Doing
  <1>3. ASSUME AdvanceUnwritten \/ SettleTxn
        PROVE  todo # <<>> /\ (todo' = Tail(todo) \/ (todo' = todo /\ Head(todo).op \notin Reporting))
    BY <1>3 DEF AdvanceUnwritten, SettleTxn, Doing, Reporting
  <1> QED BY <1>1, <1>2, <1>3, LoadAdds, StoreAdds, OrAdds, SeenAdds DEF JavaScriptStep

(* The token after a step of a call.                                        *)
LEMMA SeenTokenAdded ==
  ASSUME OrderInv, NEW a \in Seq(JSSteps), todo # <<>>, todo' = a \o Tail(todo), Adds(a),
         SeenToken'
  PROVE  Head(todo').slot \in Slots /\ Head(todo) # Head(todo') /\ Free(Head(todo').slot)
  <1>1. todo \in Seq(JSSteps) /\ StepsOK(todo)
    BY OrderTypes DEF OrderInv, Placement
  <1>2. PICK b : b = todo'
    OBVIOUS
  <1>3. /\ DOMAIN a = 1..Len(a) /\ Len(a) \in Nat /\ DOMAIN todo = 1..Len(todo)
        /\ Len(todo) \in Nat /\ todo[1] = Head(todo)
        /\ b \in Seq(JSSteps) /\ DOMAIN b = 1..Len(a) + Len(todo) - 1
        /\ \A i \in DOMAIN b : i \in DOMAIN a => b[i] = a[i]
        /\ \A i \in DOMAIN b : i \notin DOMAIN a =>
             /\ i - Len(a) + 1 \in DOMAIN todo /\ i - Len(a) + 1 # 1
             /\ b[i] = todo[i - Len(a) + 1]
    BY <1>1, <1>2, ReplaceHead
  <1>4. b # <<>> /\ Head(b).op = "seen" /\ "DELIMITER" \in Head(b).status
    BY <1>2 DEF SeenToken, Doing
  <1>5. 1 \in DOMAIN b /\ Head(b) = b[1] /\ b[1] \in JSSteps
    BY <1>3, <1>4
  <1>6. 1 \in DOMAIN a
    <2>1. ASSUME 1 \notin DOMAIN a PROVE FALSE
      <3>1. PICK j \in DOMAIN todo : j # 1 /\ b[1] = todo[j]
        BY <1>3, <1>5, <2>1
      <3> QED BY <1>1, <1>4, <1>5, <3>1 DEF StepsOK
    <2> QED BY <2>1
  <1>7. b[1] = a[1] /\ a[1].op = "seen" /\ "DELIMITER" \in a[1].status
    BY <1>3, <1>4, <1>5, <1>6
  <1>8. Free(a[1].slot) /\ Head(todo).op \in Placings
    BY <1>6, <1>7 DEF Adds
  <1>9. a[1].slot \in Slots
    BY <1>5, <1>7 DEF JSSteps
  <1>10. Head(todo) # b[1]
    BY <1>7, <1>8 DEF Placings
  <1> QED BY <1>2, <1>5, <1>7, <1>8, <1>9, <1>10

-----------------------------------------------------------------------------
(* The token moves.                                                         *)

LEMMA WorkerTokenStays ==
  ASSUME NEW w \in Slots, UNCHANGED JavaScriptVars,
         \A v \in Slots : v # w => worker'[v] = worker[v], Launched(w)' => Launched(w),
         \A p \in Positions : Free(p)' => Free(p) \/ (Launched(w) /\ w <= p)
  PROVE  TokenMoves
  <1>1. UNCHANGED <<todo, startAddress>>
    BY DEF JavaScriptVars, starting
  <1>2. SeenToken' <=> SeenToken
    BY <1>1 DEF SeenToken, Doing
  <1>3. \A v \in Slots : Launched(v)' => Launched(v)
    BY DEF Launched
  <1> QED BY <1>1, <1>2, <1>3 DEF TokenMoves

LEMMA WorkerTokenMoves ==
  ASSUME OrderInv, NEW w \in Slots, WorkerStep(w)
  PROVE  TokenMoves
  <1>1. /\ worker \in [Slots -> WorkerRecords] /\ word \in [Positions -> SUBSET Bits]
    BY OrderTypes DEF OrderInv
  <1>2. PICK n \in Positions : n = worker[w].at
    BY OrderTypes DEF OrderInv
  <1>3. ASSUME Begin(w) \/ FollowPointer(w) \/ LeaveBlock(w) \/ FetchEmpty(w) \/ Refetch(w) \/ Wake(w)
        PROVE  TokenMoves
    <2>1. UNCHANGED JavaScriptVars /\ UNCHANGED word /\ Launched(w)
      BY <1>3 DEF Begin, FollowPointer, LeaveBlock, FetchEmpty, Refetch, Wake, Fetching, Launched,
                  shared
    <2>2. \A v \in Slots : v # w => worker'[v] = worker[v]
      BY <1>1, <1>3 DEF Begin, FollowPointer, LeaveBlock, FetchEmpty, Refetch, Wake
    <2> QED BY <2>1, <2>2, WorkerTokenStays DEF Free, Written
  <1>4. ASSUME Execute(w) PROVE TokenMoves
    <2>1. UNCHANGED JavaScriptVars /\ UNCHANGED word /\ Launched(w)
          /\ \A v \in Slots : v # w => worker'[v] = worker[v]
      BY <1>1, <1>4 DEF Execute, Fetching, Launched, shared
    <2> QED BY <2>1, WorkerTokenStays DEF Free, Written
  <1>5. ASSUME Commit(w) PROVE TokenMoves
    <2>1. UNCHANGED JavaScriptVars /\ UNCHANGED word /\ worker'[w].pc = "publish"
          /\ \A v \in Slots : v # w => worker'[v] = worker[v]
      BY <1>1, <1>5 DEF Commit, WorkerRecords
    <2> QED BY <2>1, WorkerTokenStays DEF Free, Written, Launched
  <1>6. ASSUME StartWait(w) PROVE TokenMoves
    <2>1. UNCHANGED JavaScriptVars /\ Launched(w)
          /\ \A v \in Slots : v # w => worker'[v] = worker[v]
      BY <1>1, <1>6 DEF StartWait, Launched
    <2>2. \A p \in Positions : word'[p] = IF p = n THEN {"WAITING"} ELSE word[p]
      BY <1>1, <1>2, <1>6 DEF StartWait
    <2> QED BY <2>1, <2>2, WorkerTokenStays DEF Free, Written
  <1>7. ASSUME Delimit(w) PROVE TokenMoves
    <2>1. UNCHANGED JavaScriptVars /\ Launched(w)
          /\ \A v \in Slots : v # w => worker'[v] = worker[v]
      BY <1>1, <1>7 DEF Delimit, Launched
    <2>2. \A p \in Positions : word'[p] = IF p = n THEN {"DELIMITER"} ELSE word[p]
      BY <1>1, <1>2, <1>7 DEF Delimit
    <2>3. w <= n
      BY <1>2, <2>1 DEF OrderInv, Token, WorkersKnow, Knows
    <2> QED BY <2>1, <2>2, <2>3, WorkerTokenStays DEF Free, Written
  <1>8. ASSUME Mark(w) PROVE TokenMoves
    <2>1. PICK old \in {word[n], worker[w].read},
               result \in {{"FINISHED", "FAILED_CONDITION"}, {"FINISHED"}} :
            word' = [word EXCEPT ![n] = old \cup result]
      BY <1>1, <1>2, <1>8 DEF Mark
    <2>2. "INSTR" \in worker[w].read /\ "INSTR" \in word[n]
      BY <1>2, <1>8 DEF Mark, OrderInv, Token, WorkersKnow, Knows, Written
    <2>3. "INSTR" \in word'[n] /\ \A p \in Positions : p # n => word'[p] = word[p]
      BY <1>1, <2>1, <2>2
    <2>4. UNCHANGED JavaScriptVars /\ Launched(w)
          /\ \A v \in Slots : v # w => worker'[v] = worker[v]
      BY <1>1, <1>8 DEF Mark, Launched
    <2> QED BY <2>3, <2>4, WorkerTokenStays DEF Free, Written
  <1>9. ASSUME Publish(w) PROVE TokenMoves
    <2>1. PICK bit \in {"COMMITTED", "TXN_FAILED"} :
            word' = [word EXCEPT ![n] = word[n] \cup {bit}]
      BY <1>1, <1>2, <1>9 DEF Publish
    <2>2. \A p \in Positions : word'[p] = IF p = n THEN word[n] \cup {bit} ELSE word[p]
      BY <1>1, <2>1
    <2>3. \A p \in Positions : /\ "DELIMITER" \in word'[p] => "DELIMITER" \in word[p]
                               /\ "INSTR" \in word[p] => "INSTR" \in word'[p]
      BY <2>2
    <2>4. UNCHANGED JavaScriptVars /\ worker'[w].pc = "complete"
          /\ \A v \in Slots : v # w => worker'[v] = worker[v]
      BY <1>1, <1>9 DEF Publish, WorkerRecords
    <2> QED BY <2>3, <2>4, WorkerTokenStays DEF Free, Written, Launched
  <1> QED BY <1>3, <1>4, <1>5, <1>6, <1>7, <1>8, <1>9 DEF WorkerStep

LEMMA StepTokenMoves ==
  ASSUME OrderInv, JavaScriptStep
  PROVE  TokenMoves
  <1>1. /\ todo # <<>>
        /\ \/ todo' = todo
           \/ \E a \in Seq(JSSteps) : todo' = a \o Tail(todo) /\ Adds(a)
    BY CallGoesOn
  <1>2. ASSUME SeenToken'
        PROVE  \/ SeenToken /\ Head(todo').slot = Head(todo).slot
               \/ Head(todo').slot \in Positions /\ Free(Head(todo').slot)
    <2>1. CASE todo' = todo
      BY <1>2, <2>1 DEF SeenToken, Doing
    <2>2. CASE todo' # todo
      BY <1>1, <1>2, <2>2, SeenTokenAdded, SlotFacts
    <2> QED BY <2>1, <2>2
  <1>3. /\ startAddress' # 0 => \/ startAddress' = startAddress
                                \/ SeenToken /\ startAddress' = Head(todo).slot
        /\ \A w \in Slots : Launched(w)' =>
             Launched(w) \/ startAddress = w \/ (SeenToken /\ Head(todo).slot = w)
    <2>1. CASE Seen
      <3>1. PICK s, from \in {0} \cup Slots :
              /\ s = Head(todo).slot
              /\ IF SeenToken THEN from = s ELSE from = startAddress
              /\ \/ startAddress' = from /\ worker' = worker
                 \/ startAddress' = 0 /\ StartWriting(from)
        BY <2>1, SeenFacts
      <3>2. \A w \in Slots : Launched(w)' => Launched(w) \/ w = from
        <4>1. worker \in [Slots -> WorkerRecords]
          BY OrderTypes DEF OrderInv
        <4> QED BY <3>1, <4>1 DEF StartWriting, Launched
      <3> QED BY <3>1, <3>2
    <2>2. CASE ~Seen
      BY <2>2, StepsKeep DEF Launched
    <2> QED BY <2>1, <2>2
  <1>4. \A p \in Positions : Free(p)' => Free(p)
    <2>1. /\ word \in [Positions -> SUBSET Bits] /\ Slots \subseteq Positions
      BY OrderTypes DEF OrderInv
    <2>2. CASE Store \/ Or
      <3>1. PICK s \in Slots : s = Head(todo).slot
        <4>1. ASSUME Store PROVE todo # <<>> /\ Head(todo).op \in Placings
          BY <4>1 DEF Store, Doing, Placings
        <4>2. ASSUME Or PROVE todo # <<>> /\ Head(todo).op \in Placings
          BY <4>2 DEF Or, Doing, Placings
        <4>3. todo # <<>> /\ Head(todo).op \in Placings
          BY <2>2, <4>1, <4>2
        <4>4. Head(todo).slot \in Slots
          BY <4>3, HeadStep
        <4> QED BY <4>4
      <3>2. word' = [word EXCEPT ![s] = {"INSTR"}] \/ word' = [word EXCEPT ![s] = @ \cup {"INSTR"}]
        <4>1. ASSUME Store PROVE word' = [word EXCEPT ![s] = {"INSTR"}]
          BY <3>1, <4>1 DEF Store
        <4>2. ASSUME Or PROVE word' = [word EXCEPT ![s] = @ \cup {"INSTR"}]
          BY <3>1, <4>2 DEF Or
        <4> QED BY <2>2, <4>1, <4>2
      <3>3. "INSTR" \in word'[s] /\ \A p \in Positions : p # s => word'[p] = word[p]
        BY <2>1, <3>2
      <3> QED BY <3>3 DEF Free, Written
    <2>3. CASE ~Store /\ ~Or
      <3>1. word' = word
        BY <2>3 DEF JavaScriptStep, Load, Seen, ReturnPromise, AdvanceUnwritten, SettleTxn, RunCallbacks,
                    shared
      <3> QED BY <3>1 DEF Free, Written
    <2> QED BY <2>2, <2>3
  <1> QED BY <1>2, <1>3, <1>4 DEF TokenMoves

(* The steps a call or an event begins with report nothing.                 *)
LEMMA NothingReported ==
  ASSUME OrderInv, Call \/ Event
  PROVE  todo = <<>> /\ \A i \in DOMAIN todo' : todo'[i].op \notin Reporting
  <1>1. ASSUME NEW op \in {"load", "or"}, NEW s, NEW t, todo' = <<Step(op, s, t)>>
        PROVE  \A i \in DOMAIN todo' : todo'[i].op \notin Reporting
    <2>1. DOMAIN todo' = {1} /\ todo'[1].op = op
      BY <1>1 DEF Step
    <2> QED BY <2>1 DEF Reporting
  <1>2. ASSUME NEW o1 \in {"load", "or"}, NEW o2 \in {"load", "or"}, NEW s, NEW t,
               todo' = <<Step(o1, s, {}), Step(o2, t, {})>>
        PROVE  \A i \in DOMAIN todo' : todo'[i].op \notin Reporting
    <2>1. DOMAIN todo' = {1, 2} /\ todo'[1].op = o1 /\ todo'[2].op = o2
      BY <1>2 DEF Step
    <2> QED BY <2>1 DEF Reporting
  <1>3. ASSUME todo' = <<>>
        PROVE  \A i \in DOMAIN todo' : todo'[i].op \notin Reporting
    BY <1>3
  <1>4. ASSUME NEW k \in {"write", "callback"}, NEW own \in BOOLEAN, Write(k, own)
        PROVE  \A i \in DOMAIN todo' : todo'[i].op \notin Reporting
    <2>1. PICK s, opens : todo' = <<Step(IF opens \/ batchDepth > 0 THEN "load" ELSE "or", s, {})>>
      BY <1>4, WritePlaces
    <2>2. PICK op \in {"load", "or"} : op = IF opens \/ batchDepth > 0 THEN "load" ELSE "or"
      OBVIOUS
    <2> QED BY <1>1, <2>1, <2>2
  <1>5. ASSUME NEW own \in BOOLEAN, OpenBlock(own)
        PROVE  \A i \in DOMAIN todo' : todo'[i].op \notin Reporting
    <2>1. PICK s, opens : todo' = IF opens \/ batchDepth > 0 THEN <<Step("load", s, {})>> ELSE <<>>
      BY <1>5, OpenBlockPlaces
    <2> QED BY <1>1, <1>3, <2>1
  <1>6. ASSUME Call PROVE todo = <<>>
    BY <1>6 DEF Call, Write, OpenBlock
  <1>7. ASSUME Event PROVE todo = <<>>
    BY <1>7 DEF Event, CloseBlock, EndTurn, CommitTimer, Completion, Progress
  <1>8. ASSUME NEW s PROVE \E op \in {"load", "or"} : Finish(s) = Step(op, s, {})
    BY DEF Finish
  <1>9. ASSUME NEW d PROVE \E op \in {"load", "or"} : op = IF d > 0 THEN "load" ELSE "or"
    OBVIOUS
  <1>10. ASSUME CloseBlock
         PROVE  \A i \in DOMAIN todo' : todo'[i].op \notin Reporting
    <2>1. PICK s, depth : \/ todo' = <<Step("load", position, {}), Finish(s)>>
                          \/ todo' = <<Step(IF depth > 0 THEN "load" ELSE "or", position, {})>>
      BY <1>10 DEF CloseBlock
    <2>2. PICK o1 \in {"load", "or"} : Finish(s) = Step(o1, s, {})
      BY <1>8
    <2>3. PICK o2 \in {"load", "or"} : o2 = IF depth > 0 THEN "load" ELSE "or"
      BY <1>9
    <2> QED BY <1>1, <1>2, <2>1, <2>2, <2>3
  <1>11. ASSUME EndTurn
         PROVE  \A i \in DOMAIN todo' : todo'[i].op \notin Reporting
    <2>1. PICK depth, s :
            \/ todo' = <<Step(IF depth > 1 THEN "load" ELSE "or", position, {})>> \o <<Finish(s)>>
            \/ todo' = <<Step(IF depth > 1 THEN "load" ELSE "or", position, {})>> \o <<>>
      BY <1>11 DEF EndTurn
    <2>2. PICK o1 \in {"load", "or"} : Finish(s) = Step(o1, s, {})
      BY <1>8
    <2>3. PICK o2 \in {"load", "or"} : o2 = IF depth > 1 THEN "load" ELSE "or"
      OBVIOUS
    <2>4. ASSUME todo' = <<Step(o2, position, {})>> \o <<Step(o1, s, {})>>
          PROVE  \A i \in DOMAIN todo' : todo'[i].op \notin Reporting
      BY <2>4 DEF Step, Reporting
    <2>5. ASSUME todo' = <<Step(o2, position, {})>> \o <<>>
          PROVE  \A i \in DOMAIN todo' : todo'[i].op \notin Reporting
      <3>1. todo' = <<Step(o2, position, {})>>
        BY <2>5
      <3> QED BY <1>1, <3>1
    <2> QED BY <2>1, <2>2, <2>3, <2>4, <2>5
  <1>12. ASSUME CommitTimer
         PROVE  \A i \in DOMAIN todo' : todo'[i].op \notin Reporting
    BY <1>3, <1>12 DEF CommitTimer
  <1>13. ASSUME NEW w \in Slots, Completion(w) \/ Progress(w)
         PROVE  \A i \in DOMAIN todo' : todo'[i].op \notin Reporting
    <2>1. \/ todo' = Resolve \o <<>>
          \/ todo' = Resolve \o <<Step("callbacks", w, {})>>
      BY <1>13 DEF Completion, Progress, ObserveTxn
    <2>2. ASSUME todo' = Resolve \o <<>>
          PROVE  \A i \in DOMAIN todo' : todo'[i].op \notin Reporting
      BY <2>2 DEF Resolve, Step, Reporting
    <2>3. ASSUME todo' = Resolve \o <<Step("callbacks", w, {})>>
          PROVE  \A i \in DOMAIN todo' : todo'[i].op \notin Reporting
      BY <2>3 DEF Resolve, Step, Reporting
    <2> QED BY <2>1, <2>2, <2>3
  <1>14. ASSUME Event PROVE \A i \in DOMAIN todo' : todo'[i].op \notin Reporting
    BY <1>10, <1>11, <1>12, <1>13, <1>14 DEF Event
  <1>15. ASSUME Call PROVE \A i \in DOMAIN todo' : todo'[i].op \notin Reporting
    BY <1>4, <1>5, <1>15 DEF Call
  <1> QED BY <1>6, <1>7, <1>14, <1>15

LEMMA NoSeenToken ==
  ASSUME OrderInv', \A i \in DOMAIN todo' : todo'[i].op \notin Reporting
  PROVE  ~SeenToken'
  <1> SUFFICES ASSUME SeenToken' PROVE FALSE
    OBVIOUS
  <1>1. PICK b \in Seq(JSSteps) : b = todo'
    BY DEF OrderInv, Inv, TypeInv, TypeOK, TypeTodo
  <1>2. b # <<>> /\ Head(b).op = "seen"
    BY <1>1 DEF SeenToken, Doing
  <1>3. 1 \in DOMAIN b /\ Head(b) = b[1]
    BY <1>1, <1>2
  <1> QED BY <1>1, <1>2, <1>3 DEF Reporting

LEMMA EventTokenMoves ==
  ASSUME OrderInv, OrderInv', Event
  PROVE  TokenMoves
  <1>1. ~SeenToken'
    BY NothingReported, NoSeenToken
  <1>2. worker \in [Slots -> WorkerRecords]
    BY OrderTypes DEF OrderInv
  <1>3. ASSUME CommitTimer PROVE TokenMoves
    <2>1. word' = word /\ startAddress' = 0 /\ StartWriting(startAddress)
      BY <1>3 DEF CommitTimer, shared
    <2>2. \A w \in Slots : Launched(w)' => Launched(w) \/ w = startAddress
      BY <1>2, <2>1 DEF StartWriting, Launched
    <2> QED BY <1>1, <2>1, <2>2 DEF TokenMoves, Free, Written
  <1>4. ASSUME ~CommitTimer PROVE TokenMoves
    <2>1. UNCHANGED <<word, startAddress>>
      BY <1>4 DEF Event, CloseBlock, EndTurn, Completion, Progress, shared, starting
    <2>2. \A w \in Slots : Launched(w)' => Launched(w)
      <3>1. ASSUME CloseBlock \/ EndTurn PROVE worker' = worker
        BY <3>1 DEF CloseBlock, EndTurn, writing
      <3>2. ASSUME NEW v \in Slots, Completion(v)
            PROVE  \A w \in Slots : Launched(w)' => Launched(w)
        <4>1. \A w \in Slots : worker'[w] = worker[w] \/ worker'[w].pc = "done"
          BY <1>2, <3>2 DEF Completion, WorkerRecords
        <4> QED BY <4>1 DEF Launched
      <3>3. ASSUME NEW v \in Slots, Progress(v)
            PROVE  \A w \in Slots : Launched(w)' => Launched(w)
        <4>1. \A w \in Slots : worker'[w].pc = worker[w].pc
          BY <1>2, <3>3 DEF Progress, WorkerRecords
        <4> QED BY <4>1 DEF Launched
      <3> QED BY <1>4, <3>1, <3>2, <3>3 DEF Event, Launched
    <2> QED BY <1>1, <2>1, <2>2 DEF TokenMoves, Free, Written
  <1> QED BY <1>3, <1>4

LEMMA CallTokenMoves ==
  ASSUME OrderInv, OrderInv', Call
  PROVE  TokenMoves
  <1>1. ~SeenToken'
    BY NothingReported, NoSeenToken
  <1>2. \E k, s, opens, pointers :
          /\ Places(k, s, opens, pointers) /\ UNCHANGED <<startAddress, worker>>
    BY WritePlaces, OpenBlockPlaces DEF Call
  <1>3. \A p \in Positions : word'[p] = word[p] \/ word'[p] = {"INSTR"}
    BY <1>2 DEF Places
  <1>4. \A p \in Positions : Free(p)' => Free(p)
    BY <1>3 DEF Free, Written
  <1> QED BY <1>1, <1>2, <1>4 DEF TokenMoves, Launched

LEMMA TokenMovesNext ==
  ASSUME OrderInv, OrderInv', [Next]_vars
  PROVE  TokenMoves
  <1>1. ASSUME UNCHANGED vars PROVE TokenMoves
    <2>1. UNCHANGED <<word, startAddress, worker, todo>>
      BY <1>1 DEF vars, shared, starting, writing
    <2> QED BY <2>1 DEF TokenMoves, Free, Written, SeenToken, Doing, Launched
  <1> QED BY <1>1, StepTokenMoves, EventTokenMoves, CallTokenMoves, WorkerTokenMoves
          DEF Next, Quiescent

-----------------------------------------------------------------------------
(* The list of resolutions only grows, and a slot that a call takes has its *)
(* place in it.                                                             *)

Extends(list) ==
  /\ resolutions' = list /\ Len(resolutions) <= Len(list)
  /\ \A i \in DOMAIN resolutions : list[i] = resolutions[i]
  /\ \A i \in DOMAIN list : i > Len(resolutions) => position <= list[i]

(* The slot where the next instruction would go is taken by one that has a  *)
(* result, unless a block is open.                                          *)
Takes == /\ position' = position => UNCHANGED <<kind, resolutions>>
         /\ position' # position => Nest(position) > 0 \/ kind'[position] \in Listed

LEMMA WorkerKeepsJavaScript ==
  ASSUME NEW w \in Slots, WorkerStep(w)
  PROVE  UNCHANGED JavaScriptVars
  <1>1. ASSUME Execute(w) PROVE UNCHANGED JavaScriptVars
    BY ONLY <1>1 DEF Execute
  <1>2. ASSUME Begin(w) \/ FollowPointer(w) \/ LeaveBlock(w)
        PROVE  UNCHANGED JavaScriptVars
    BY ONLY <1>2 DEF Begin, FollowPointer, LeaveBlock
  <1>3. ASSUME Mark(w) \/ FetchEmpty(w) \/ Refetch(w) \/ StartWait(w)
        PROVE  UNCHANGED JavaScriptVars
    BY ONLY <1>3 DEF Mark, FetchEmpty, Refetch, StartWait
  <1>4. ASSUME Wake(w) \/ Delimit(w) \/ Commit(w) \/ Publish(w)
        PROVE  UNCHANGED JavaScriptVars
    BY ONLY <1>4 DEF Wake, Delimit, Commit, Publish
  <1> QED BY <1>1, <1>2, <1>3, <1>4 DEF WorkerStep

LEMMA ListGrows ==
  ASSUME OrderInv, [Next]_vars
  PROVE  Takes /\ \E list \in Seq(Slots) : Extends(list)
  <1>1. position \in Nat /\ resolutions \in Seq(Slots)
    BY OrderTypes DEF OrderInv
  <1>2. ASSUME UNCHANGED resolutions PROVE \E list \in Seq(Slots) : Extends(list)
    <2>1. Extends(resolutions)
      BY <1>1, <1>2 DEF Extends
    <2> QED BY <1>1, <2>1
  <1>3. ASSUME UNCHANGED <<position, kind, resolutions>>
        PROVE  Takes /\ \E list \in Seq(Slots) : Extends(list)
    BY <1>2, <1>3 DEF Takes
  <1>4. ASSUME CloseBlock \/ EndTurn
        PROVE  Takes /\ \E list \in Seq(Slots) : Extends(list)
    <2>1. EndBlock /\ UNCHANGED resolutions
      BY <1>4 DEF CloseBlock, EndTurn
    <2>2. blocks # <<>> \/ turn # 0
      BY <1>4 DEF CloseBlock, EndTurn
    <2>3. Nest(position) > 0
      BY <2>2, OpenCount
    <2>4. position' # position
      BY <1>1, <2>1 DEF EndBlock
    <2> QED BY <1>2, <2>1, <2>3, <2>4 DEF Takes
  <1>5. ASSUME NEW k \in Listed, NEW s, NEW opens, NEW pointers, Places(k, s, opens, pointers)
        PROVE  Takes /\ \E list \in Seq(Slots) : Extends(list)
    <2>1. \E list \in Seq(Slots) : Extends(list)
      BY <1>5, PlacesFresh DEF Extends
    <2>2. /\ position \in Nat /\ position <= s /\ s < position' /\ position' \in Nat
          /\ s \in Nat /\ opens \in BOOLEAN
          /\ ~opens => s = position
          /\ kind'[s] \in Listed /\ (opens => kind'[position] = "start")
      <3>1. Inv /\ FreshSlots
        BY DEF OrderInv, Placement
      <3>2. /\ s \in Slots /\ opens \in BOOLEAN /\ position <= s /\ position \in Nat
            /\ s < position' /\ position' \in Nat /\ (~opens => s = position)
            /\ kind'[s] \in Listed /\ (opens => kind'[position] = "start")
        BY ONLY <1>5, <3>1, PlacesBefore
      <3> QED BY <3>2, SlotFacts
    <2>3. position' # position
      BY <2>2
    <2>4. kind'[position] \in Listed
      BY <2>2 DEF Listed
    <2> QED BY <2>1, <2>3, <2>4 DEF Takes
  <1>6. ASSUME Call PROVE Takes /\ \E list \in Seq(Slots) : Extends(list)
    <2>1. \E k \in Listed : \E s, opens, pointers : Places(k, s, opens, pointers)
      BY <1>6, WritePlaces, OpenBlockPlaces DEF Call, Listed
    <2> QED BY <1>5, <2>1
  <1>7. ASSUME NEW w \in Slots, WorkerStep(w)
        PROVE  UNCHANGED <<position, kind, resolutions>>
    <2>1. UNCHANGED JavaScriptVars
      BY <1>7, WorkerKeepsJavaScript
    <2> QED BY <2>1 DEF JavaScriptVars, placing
  <1>8. ASSUME Seen PROVE UNCHANGED <<position, kind, resolutions>>
    BY <1>8 DEF Seen, placing
  <1>9. ASSUME CommitTimer \/ \E w \in Slots : Completion(w) \/ Progress(w)
        PROVE  UNCHANGED <<position, kind, resolutions>>
    BY <1>9 DEF CommitTimer, Completion, Progress, placing
  <1>10. ASSUME UNCHANGED vars PROVE UNCHANGED <<position, kind, resolutions>>
    BY <1>10 DEF vars, placing
  <1>11. ASSUME JavaScriptStep PROVE UNCHANGED <<position, kind, resolutions>>
    BY <1>8, <1>11, StepsKeep
  <1>12. ASSUME Event PROVE Takes /\ \E list \in Seq(Slots) : Extends(list)
    BY <1>3, <1>4, <1>9, <1>12 DEF Event
  <1> QED BY <1>3, <1>6, <1>7, <1>10, <1>11, <1>12 DEF Next, Quiescent

-----------------------------------------------------------------------------
(* The queue of transactions.                                               *)

LEMMA ChainTypes ==
  ASSUME OrderInv, Chain
  PROVE  /\ isTxn \subseteq Positions /\ Positions \subseteq Nat /\ position \in Positions
         /\ position \in Nat
         /\ nextTxn \in [Positions -> {0} \cup Positions] /\ txnResolution \in {0} \cup isTxn
         /\ 0 \notin Positions /\ Slots \subseteq Positions
  BY OrderTypes, SlotFacts DEF OrderInv, Inv, TypeInv, TypeOK, TypeTxnChain, Chain

(* A place in the queue stays one.                                          *)
LEMMA PlaceInQueueStays ==
  ASSUME OrderInv, OrderInv', Grows, TokenMoves, Takes, Chain, NEW q \in isTxn
  PROVE  /\ q <= position' /\ Nest(q)' = 0 /\ NotPast(q)'
         /\ q < position' => kind'[q] \in Listed
  <1>1. /\ q \in Positions /\ q \in Nat /\ position \in Nat /\ position' \in Nat
        /\ position' \in Positions
    <2>1. position' \in Positions
      BY DEF OrderInv, Inv, TypeInv, TypeOK, TypePlacing
    <2> QED BY <2>1, ChainTypes DEF Grows
  <1>2. q <= position /\ Nest(q) = 0 /\ NotPast(q) /\ (q < position => kind[q] \in Listed)
    BY DEF Chain
  <1>3. \A s \in Slots : s < q => kind'[s] = kind[s]
    BY <1>1, <1>2, OrderTypes DEF Grows, OrderInv
  <1>4. Nest(q)' = 0
    BY <1>2, <1>3, NestStays
  <1>5. NotPast(q)'
    BY <1>1, <1>2, NotPastStays
  <1>6. q <= position'
    BY <1>1, <1>2 DEF Grows
  <1>7. ASSUME q < position' PROVE kind'[q] \in Listed
    <2>1. q \in Slots
      BY <1>1, <1>7 DEF Slots, Positions
    <2>2. CASE q < position
      BY <1>2, <2>1, <2>2 DEF Grows
    <2>3. CASE q = position
      BY <1>1, <1>2, <1>7, <2>3 DEF Takes
    <2> QED BY <1>1, <1>2, <2>2, <2>3
  <1> QED BY <1>4, <1>5, <1>6, <1>7

(* A transaction was seen to end at slot s, which the token is at.          *)
Queues(s) ==
  /\ QueueCommit(s) /\ UNCHANGED <<position, kind>>
  /\ s <= position /\ Nest(s) = 0 /\ (s < position => kind[s] \in Listed)
  /\ NotPast(s)' /\ \A q \in isTxn : q <= s

LEMMA ChainStays ==
  ASSUME OrderInv, OrderInv', Grows, TokenMoves, Takes, Chain,
         UNCHANGED txnChain \/ \E s \in Positions : Queues(s)
  PROVE  Chain'
  <1>1. \A q \in isTxn : /\ q <= position' /\ Nest(q)' = 0 /\ NotPast(q)'
                         /\ q < position' => kind'[q] \in Listed
    BY PlaceInQueueStays
  <1>2. CASE UNCHANGED txnChain
    <2>1. UNCHANGED <<txnResolution, nextTxn, isTxn>>
      BY <1>2 DEF txnChain
    <2> QED BY <1>1, <2>1 DEF Chain
  <1>3. ASSUME NEW s \in Positions, Queues(s) PROVE Chain'
    <2>1. /\ isTxn' = isTxn \cup {s}
          /\ txnResolution' = IF s \notin isTxn /\ txnResolution = 0 THEN s ELSE txnResolution
          /\ nextTxn' = IF s \notin isTxn /\ txnResolution # 0
                        THEN [nextTxn EXCEPT ![txnResolution] = s] ELSE nextTxn
          /\ UNCHANGED <<position, kind>>
      BY <1>3 DEF Queues, QueueCommit
    <2>2. /\ s <= position' /\ Nest(s)' = 0 /\ NotPast(s)'
          /\ s < position' => kind'[s] \in Listed
      BY <1>3, SameNest DEF Queues
    <2>3. \A q \in isTxn' : /\ q <= position' /\ Nest(q)' = 0 /\ NotPast(q)'
                            /\ q < position' => kind'[q] \in Listed
      BY <1>1, <2>1, <2>2
    <2>4. txnResolution' \in {0} \cup isTxn'
      BY <2>1 DEF Chain
    <2>5. ASSUME NEW q \in Positions, nextTxn'[q] # 0
          PROVE  q \in isTxn' /\ nextTxn'[q] \in isTxn' /\ q < nextTxn'[q]
      <3>1. CASE s \notin isTxn /\ txnResolution # 0 /\ q = txnResolution
        <4>1. nextTxn'[q] = s /\ q \in isTxn
          BY <2>1, <3>1, ChainTypes
        <4>2. q <= s /\ q # s /\ q \in Nat /\ s \in Nat
          BY <1>3, <3>1, <4>1, ChainTypes DEF Queues
        <4> QED BY <2>1, <4>1, <4>2
      <3>2. CASE ~(s \notin isTxn /\ txnResolution # 0 /\ q = txnResolution)
        <4>1. nextTxn'[q] = nextTxn[q]
          BY <2>1, <3>2, ChainTypes
        <4> QED BY <2>1, <2>5, <4>1 DEF Chain
      <3> QED BY <3>1, <3>2
    <2> QED BY <2>3, <2>4, <2>5 DEF Chain
  <1> QED BY <1>2, <1>3

LEMMA SeenQueues ==
  ASSUME OrderInv, OrderInv', Chain, Seen
  PROVE  UNCHANGED txnChain \/ \E s \in Positions : Queues(s)
  <1>1. PICK s, from \in {0} \cup Slots :
           /\ todo # <<>> /\ Head(todo).op = "seen" /\ s \in Slots /\ s = Head(todo).slot
           /\ IF SeenToken THEN QueueCommit(s) /\ from = s ELSE UNCHANGED txnChain
           /\ from # 0 => /\ Frontier(from) /\ Nest(from) = 0
                          /\ \A w \in Slots : ~Launched(w)
                          /\ \A p \in Positions : ~Free(p)
           /\ \/ startAddress' = from /\ worker' = worker
              \/ startAddress' = 0 /\ StartWriting(from)
    BY SeenFacts
  <1>2. CASE SeenToken
    <2>1. UNCHANGED <<word, position, kind>>
      BY DEF Seen, shared, placing
    <2>2. /\ s \in Nat /\ s # 0 /\ s \in Positions /\ from = s /\ QueueCommit(s)
          /\ worker \in [Slots -> WorkerRecords]
      BY <1>1, <1>2, OrderTypes, SlotFacts DEF OrderInv
    <2>3. /\ Nest(s) = 0 /\ \A w \in Slots : ~Launched(w)
          /\ \A p \in Positions : ~Free(p)
      BY <1>1, <2>2
    <2>4. kind[s] \in Listed /\ Written(s)
      BY <1>1, HeadStep DEF StepOK
    <2>5. s <= position
      BY <1>1, <2>2 DEF Frontier
    <2>6. \A q \in isTxn : q <= s
      BY <1>1, <1>2 DEF Chain, NotPast
    <2>7. NotPast(s)'
      <3>1. \A p \in Positions : ~Free(p)'
        BY <2>1, <2>3 DEF Free, Written
      <3>2. ~SeenToken'
        <4>1. PICK a \in Seq(JSSteps) : todo' = a \o Tail(todo) /\ Adds(a)
          BY SeenAdds
        <4> SUFFICES ASSUME SeenToken' PROVE FALSE
          OBVIOUS
        <4>2. Free(Head(todo').slot) /\ Head(todo').slot \in Slots
          BY <1>1, <4>1, SeenTokenAdded
        <4> QED BY <2>3, <4>2, SlotFacts
      <3>3. startAddress' # 0 => s <= startAddress'
        BY <1>1, <2>2
      <3>4. \A w \in Slots : Launched(w)' => s <= w
        <4>1. \A w \in Slots : Launched(w)' => w = s
          BY <1>1, <2>2, <2>3 DEF StartWriting, Launched
        <4> QED BY <2>2, <4>1
      <3> QED BY <3>1, <3>2, <3>3, <3>4 DEF NotPast
    <2> QED BY <2>1, <2>2, <2>3, <2>4, <2>5, <2>6, <2>7 DEF Queues
  <1>3. CASE ~SeenToken
    BY <1>1, <1>3
  <1> QED BY <1>2, <1>3

(* The callback of a worker finds its transaction's end in the next slot.   *)
LEMMA ObserveQueues ==
  ASSUME OrderInv, OrderInv', Chain, NEW v \in Slots, Completion(v) \/ Progress(v)
  PROVE  UNCHANGED txnChain \/ \E s \in Positions : Queues(s)
  <1>1. IF "DELIMITER" \in word[position] THEN QueueCommit(position) ELSE UNCHANGED txnChain
    BY DEF Completion, Progress, ObserveTxn, Has
  <1>2. UNCHANGED <<word, position, kind, startAddress>>
    BY DEF Completion, Progress, shared, placing, starting
  <1>3. CASE "DELIMITER" \in word[position]
    <2>1. position \in Nat /\ position \in Positions /\ worker \in [Slots -> WorkerRecords]
          /\ Inv /\ FreshSlots
      BY OrderTypes DEF OrderInv, Placement
    <2>2. Nest(position) = 0
      BY <1>3, <2>1 DEF OrderInv, Token, Delimiters
    <2>3. ~Written(position)
      BY <2>1, WrittenIsPlaced
    <2>4. Free(position)
      BY <1>3, <2>3 DEF Free
    <2>5. /\ \A w \in Slots : ~Launched(w)
          /\ startAddress = 0
          /\ \A p \in Positions : Free(p) => p = position
      BY <2>1, <2>4 DEF OrderInv, Token, OneToken
    <2>6. \A q \in isTxn : q <= position
      BY DEF Chain
    <2>7. NotPast(position)'
      <3>1. \A p \in Positions : Free(p)' => position' <= p
        BY <1>2, <2>1, <2>5 DEF Free, Written
      <3>2. ~SeenToken'
        BY NothingReported, NoSeenToken DEF Event
      <3>3. \A w \in Slots : ~Launched(w)'
        <4>1. ASSUME Completion(v)
              PROVE  \A w \in Slots : worker'[w] = worker[w] \/ worker'[w].pc = "done"
          BY <2>1, <4>1 DEF Completion, WorkerRecords
        <4>2. ASSUME Progress(v)
              PROVE  \A w \in Slots : worker'[w].pc = worker[w].pc
          BY <2>1, <4>2 DEF Progress, WorkerRecords
        <4> QED BY <2>5, <4>1, <4>2 DEF Launched
      <3> QED BY <1>2, <2>5, <3>1, <3>2, <3>3 DEF NotPast
    <2>8. \E s \in Positions : s = position /\ Queues(s)
      <3>1. Queues(position)
        BY <1>1, <1>2, <1>3, <2>1, <2>2, <2>6, <2>7 DEF Queues
      <3> QED BY <2>1, <3>1
    <2> QED BY <2>8
  <1>4. CASE "DELIMITER" \notin word[position]
    BY <1>1, <1>4
  <1> QED BY <1>3, <1>4

(* What the steps do to the queue of transactions, and to what was settled. *)
LEMMA ChainSteps ==
  ASSUME OrderInv, OrderInv', Chain, [Next]_vars, ~SettleTxn
  PROVE  /\ UNCHANGED <<uncommitted, settled>>
         /\ UNCHANGED txnChain \/ \E s \in Positions : Queues(s)
  <1>1. ASSUME UNCHANGED vars PROVE UNCHANGED <<uncommitted, settled, txnChain>>
    BY <1>1 DEF vars, resolving, promises
  <1>2. ASSUME NEW w \in Slots, WorkerStep(w) PROVE UNCHANGED <<uncommitted, settled, txnChain>>
    <2>1. UNCHANGED JavaScriptVars
      BY <1>2, WorkerKeepsJavaScript
    <2> QED BY <2>1 DEF JavaScriptVars, resolving, promises
  <1>3. ASSUME Call PROVE UNCHANGED <<uncommitted, settled, txnChain>>
    BY <1>3, WritePlaces, OpenBlockPlaces DEF Call
  <1>4. ASSUME CloseBlock \/ EndTurn \/ CommitTimer
        PROVE  UNCHANGED <<uncommitted, settled, txnChain>>
    BY <1>4 DEF CloseBlock, EndTurn, CommitTimer, resolving, promises
  <1>5. ASSUME NEW v \in Slots, Completion(v) \/ Progress(v)
        PROVE  UNCHANGED <<uncommitted, settled>>
    BY <1>5 DEF Completion, Progress, resolving, promises
  <1>6. ASSUME Event PROVE /\ UNCHANGED <<uncommitted, settled>>
                           /\ UNCHANGED txnChain \/ \E s \in Positions : Queues(s)
    BY <1>4, <1>5, <1>6, ObserveQueues DEF Event
  <1>7. ASSUME Seen PROVE UNCHANGED <<uncommitted, settled>>
    BY <1>7 DEF Seen, resolving
  <1>8. ASSUME Load \/ Store \/ Or \/ ReturnPromise
        PROVE  UNCHANGED <<uncommitted, settled, txnChain>>
    <2>1. ASSUME Load PROVE UNCHANGED <<uncommitted, settled, txnChain>>
      BY ONLY <2>1 DEF Load, resolving, promises
    <2>2. ASSUME Store PROVE UNCHANGED <<uncommitted, settled, txnChain>>
      BY ONLY <2>2 DEF Store, resolving, promises
    <2>3. ASSUME Or PROVE UNCHANGED <<uncommitted, settled, txnChain>>
      BY ONLY <2>3 DEF Or, resolving, promises
    <2>4. ASSUME ReturnPromise PROVE UNCHANGED <<uncommitted, settled, txnChain>>
      BY ONLY <2>4 DEF ReturnPromise, resolving, promises
    <2> QED BY <1>8, <2>1, <2>2, <2>3, <2>4
  <1>9. ASSUME AdvanceUnwritten \/ RunCallbacks
        PROVE  UNCHANGED <<uncommitted, settled, txnChain>>
    BY <1>9 DEF AdvanceUnwritten, RunCallbacks, resolving, promises
  <1>10. ASSUME JavaScriptStep PROVE /\ UNCHANGED <<uncommitted, settled>>
                                     /\ UNCHANGED txnChain \/ \E s \in Positions : Queues(s)
    BY <1>7, <1>8, <1>9, <1>10, SeenQueues DEF JavaScriptStep
  <1> QED BY <1>1, <1>2, <1>3, <1>6, <1>10 DEF Next, Quiescent

-----------------------------------------------------------------------------
(* What was settled.                                                        *)

LEMMA IndexFound ==
  ASSUME NEW list \in Seq(Slots), NEW i \in DOMAIN list,
         \A j, k \in DOMAIN list : j < k => list[j] < list[k]
  PROVE  (CHOOSE j \in DOMAIN list : list[j] = list[i]) = i
  <1>1. DOMAIN list = 1..Len(list) /\ Len(list) \in Nat /\ Slots \subseteq Nat
    BY SlotFacts
  <1>2. ASSUME NEW j \in DOMAIN list, list[j] = list[i] PROVE j = i
    <2>1. j \in Nat /\ i \in Nat
      BY <1>1
    <2>2. PICK x \in Nat : x = list[i]
      <3>1. list[i] \in Slots
        OBVIOUS
      <3> QED BY <1>1, <3>1
    <2>3. list[j] = x
      BY <1>2, <2>2
    <2>4. ~(x < x)
      BY <2>2
    <2>5. ~(i < j) /\ ~(j < i)
      BY <2>2, <2>3, <2>4
    <2> QED BY <2>1, <2>5
  <1> QED BY <1>2

(* The index of a slot that is placed, or of the next one.                  *)
LEMMA IndexBounds ==
  ASSUME OrderInv, NEW c \in Positions, c <= position, c < position => kind[c] \in Listed
  PROVE  /\ IndexOf(c) \in 1..Len(resolutions) + 1
         /\ \A i \in DOMAIN resolutions : i < IndexOf(c) => resolutions[i] < c
         /\ IndexOf(c) \in DOMAIN resolutions => resolutions[IndexOf(c)] = c
         /\ IndexOf(c) \notin DOMAIN resolutions => c = position
  <1>1. /\ resolutions \in Seq(Slots) /\ c \in Nat /\ position \in Nat
        /\ FreshSlots /\ ListInOrder /\ Slots \subseteq Nat
    BY OrderTypes DEF OrderInv, Placement
  <1>2. DOMAIN resolutions = 1..Len(resolutions) /\ Len(resolutions) \in Nat
    BY <1>1
  <1>3. ASSUME NEW i \in DOMAIN resolutions PROVE resolutions[i] < position /\ resolutions[i] \in Nat
    <2>1. PICK r \in Slots : r = resolutions[i]
      <3>1. resolutions[i] \in Slots
        BY <1>1
      <3> QED BY <3>1
    <2>2. kind[r] \in Listed /\ r \in Nat
      BY <1>1, <2>1 DEF ListInOrder
    <2>3. ~(position <= r)
      BY <1>1, <2>2 DEF FreshSlots, Listed
    <2>4. r < position
      BY ONLY <1>1, <2>2, <2>3
    <2> QED BY <2>1, <2>2, <2>4
  <1>4. ASSUME NEW i \in DOMAIN resolutions, resolutions[i] = c
        PROVE  /\ IndexOf(c) = i
               /\ \A j \in DOMAIN resolutions : j < i => resolutions[j] < c
    <2>1. \A j, k \in DOMAIN resolutions : j < k => resolutions[j] < resolutions[k]
      BY <1>1 DEF ListInOrder
    <2>2. (CHOOSE j \in DOMAIN resolutions : resolutions[j] = c) = i
      BY <1>1, <1>4, <2>1, IndexFound
    <2> QED BY <1>4, <2>1, <2>2 DEF IndexOf
  <1>5. ASSUME ~\E i \in DOMAIN resolutions : resolutions[i] = c
        PROVE  IndexOf(c) = Len(resolutions) + 1 /\ c = position
    <2>1. ASSUME c < position PROVE FALSE
      <3>1. c \in Slots
        BY <1>1, <2>1, OrderTypes DEF Slots, Positions, OrderInv
      <3> QED BY <1>1, <1>5, <2>1, <3>1 DEF ListInOrder
    <2>2. c = position
      BY <1>1, <2>1
    <2> QED BY <1>5, <2>2 DEF IndexOf
  <1>6. CASE \E i \in DOMAIN resolutions : resolutions[i] = c
    BY <1>2, <1>4, <1>6
  <1>7. CASE ~\E i \in DOMAIN resolutions : resolutions[i] = c
    BY <1>2, <1>3, <1>5, <1>7
  <1> QED BY <1>6, <1>7

(* The index of the slot where a transaction ended does not change.         *)
LEMMA IndexStays ==
  ASSUME OrderInv, OrderInv', Grows, Takes, NEW list \in Seq(Slots), Extends(list),
         NEW c \in Positions, c <= position, Nest(c) = 0, c < position => kind[c] \in Listed
  PROVE  IndexOf(c)' = IndexOf(c)
  <1>1. PICK n : n = IndexOf(c)
    OBVIOUS
  <1>2. /\ n \in 1..Len(resolutions) + 1
        /\ \A i \in DOMAIN resolutions : i < n => resolutions[i] < c
        /\ n \in DOMAIN resolutions => resolutions[n] = c
        /\ n \notin DOMAIN resolutions => c = position
    BY <1>1, IndexBounds
  <1>3. /\ DOMAIN resolutions = 1..Len(resolutions) /\ Len(resolutions) \in Nat
        /\ DOMAIN list = 1..Len(list) /\ Len(list) \in Nat /\ Len(resolutions) <= Len(list)
        /\ resolutions' = list /\ c \in Nat
        /\ \A i \in DOMAIN resolutions : list[i] = resolutions[i]
        /\ \A i \in DOMAIN list : i > Len(resolutions) => position <= list[i]
    BY OrderTypes DEF Extends, OrderInv
  <1>4. /\ \A i, j \in DOMAIN list : i < j => list[i] < list[j]
        /\ \A s \in Slots : kind'[s] \in Listed <=> \E i \in DOMAIN list : list[i] = s
    BY <1>3 DEF OrderInv, Placement, ListInOrder
  <1>5. ASSUME NEW i \in DOMAIN list, list[i] = c PROVE IndexOf(c)' = i
    <2>1. (CHOOSE j \in DOMAIN list : list[j] = list[i]) = i
      BY <1>4, IndexFound
    <2> QED BY <1>3, <1>5, <2>1 DEF IndexOf
  <1>6. CASE n \in DOMAIN resolutions
    <2>1. n \in DOMAIN list /\ list[n] = c
      BY <1>2, <1>3, <1>6
    <2> QED BY <1>1, <1>5, <2>1
  <1>7. CASE n \notin DOMAIN resolutions /\ position' = position
    BY <1>7 DEF Takes, IndexOf
  <1>8. CASE n \notin DOMAIN resolutions /\ position' # position
    <2>1. c = position /\ n = Len(resolutions) + 1
      BY <1>2, <1>3, <1>8
    <2>2. kind'[c] \in Listed
      BY <1>8, <2>1 DEF Takes
    <2>3. c \in Slots
      <3>1. position' \in Positions /\ position <= position' /\ position' \in Nat
        BY DEF OrderInv, Inv, TypeInv, TypeOK, TypePlacing, Grows
      <3> QED BY <1>3, <1>8, <2>1, <3>1 DEF Slots, Positions
    <2>4. PICK i \in DOMAIN list : list[i] = c
      BY <1>4, <2>2, <2>3
    <2>5. i \in Nat /\ 1 <= i /\ i <= Len(list)
      BY <1>3
    <2>6. ~(i <= Len(resolutions))
      <3>1. ASSUME i <= Len(resolutions) PROVE FALSE
        <4>1. i \in DOMAIN resolutions /\ i < n /\ resolutions[i] = c
          BY <1>3, <2>1, <2>4, <2>5, <3>1
        <4>2. c < c
          BY <1>2, <4>1
        <4> QED BY <1>3, <4>2
      <3> QED BY <3>1
    <2>7. ~(n < i)
      <3>1. ASSUME n < i PROVE FALSE
        <4>1. n \in DOMAIN list /\ n > Len(resolutions)
          BY <1>2, <1>3, <2>1, <2>5, <3>1
        <4>2. PICK x \in Nat : x = list[n]
          <5>1. list[n] \in Slots
            BY <4>1
          <5> QED BY <5>1, SlotFacts
        <4>3. x < c
          BY <1>4, <2>4, <3>1, <4>1, <4>2
        <4>4. c <= x
          BY <1>3, <2>1, <4>1, <4>2
        <4> QED BY <1>3, <4>2, <4>3, <4>4
      <3> QED BY <3>1
    <2>8. i = n
      BY <1>2, <1>3, <2>1, <2>5, <2>6, <2>7
    <2> QED BY <1>1, <1>5, <2>4, <2>8
  <1> QED BY <1>6, <1>7, <1>8
LEMMA SettleTxnInOrder ==
  ASSUME OrderInv, Chain, OverWhenDone, SettledInOrder, SettleTxn
  PROVE  SettledInOrder'
  <1>1. UNCHANGED <<resolutions, kind, position, txnOf, outcome, isTxn>>
    BY DEF SettleTxn, placing, writing, history
  <1>2. PICK c \in {0} \cup isTxn : SettledUpTo(c)
    BY DEF SettledInOrder
  <1>3. \A p : Over(p)' <=> Over(p)
    BY <1>1 DEF Over, Decided
  <1>4. \A p : IndexOf(p)' = IndexOf(p)
    BY <1>1 DEF IndexOf
  <1>5. CASE ~(txnResolution # 0 /\ word[txnResolution] \cap TxnDone # {})
    <2>1. UNCHANGED <<settled, uncommitted, txnResolution>>
      BY ONLY <1>5, SettleTxn DEF SettleTxn
    <2>2. SettledUpTo(c)'
      BY <1>1, <1>2, <1>3, <1>4, <2>1 DEF SettledUpTo
    <2> QED BY <1>1, <2>2 DEF SettledInOrder
  <1>6. CASE txnResolution # 0 /\ word[txnResolution] \cap TxnDone # {}
    <2>1. PICK t \in isTxn : t = txnResolution
      BY <1>6 DEF Chain
    <2>2. /\ t \in Positions /\ t \in Nat /\ t # 0 /\ t <= position /\ position \in Nat
          /\ t < position => kind[t] \in Listed
      BY ChainTypes DEF Chain
    <2>3. PICK end : end = IndexOf(t)
      OBVIOUS
    <2>4. /\ uncommitted' = end /\ txnResolution' = nextTxn[t]
          /\ \A s \in Slots : settled'[s] # settled[s] => s \in Uncommitted(end)
      BY ONLY <1>6, <2>1, <2>3, SettleTxn DEF SettleTxn
    <2>5. Over(t)
      BY <1>6, <2>1, <2>2 DEF OverWhenDone
    <2>6. /\ end \in 1..Len(resolutions) + 1
          /\ \A i \in DOMAIN resolutions : i < end => resolutions[i] < t
      BY <2>2, <2>3, IndexBounds
    <2>7. ASSUME NEW s \in Slots, settled'[s] # "pending"
          PROVE  s < t /\ kind[s] \in Listed
      <3>1. CASE settled[s] # "pending"
        <4>1. s < c /\ kind[s] \in Listed /\ c <= t
          BY <1>2, <2>1, <2>2, <3>1 DEF SettledUpTo
        <4> QED BY <1>2, <2>2, <4>1, ChainTypes, SlotFacts
      <3>2. CASE settled[s] = "pending"
        <4>1. s \in Uncommitted(end)
          BY <2>4, <2>7, <3>2
        <4>2. uncommitted \in Nat /\ resolutions \in Seq(Slots)
          BY DEF OrderInv, Inv, TypeInv, TypeOK, TypeResolving
        <4>3. PICK i \in (uncommitted..end - 1) \ {0} : s = resolutions[i]
          BY <4>1 DEF Uncommitted
        <4>4. i \in DOMAIN resolutions /\ i < end
          BY <2>6, <4>2
        <4>5. s < t
          BY <2>6, <4>3, <4>4
        <4>6. kind[s] \in Listed
          BY <4>3, <4>4 DEF OrderInv, Placement, ListInOrder
        <4> QED BY <4>5, <4>6
      <3> QED BY <3>1, <3>2
    <2>8. txnResolution' # 0 => t <= txnResolution'
      <3>1. nextTxn[t] # 0 => t < nextTxn[t]
        BY <2>2 DEF Chain
      <3>2. nextTxn[t] # 0 => nextTxn[t] \in Nat
        BY <2>2, ChainTypes
      <3> QED BY <2>2, <2>4, <3>1, <3>2
    <2>9. SettledUpTo(t)'
      BY <1>1, <1>3, <1>4, <2>2, <2>3, <2>4, <2>5, <2>7, <2>8 DEF SettledUpTo
    <2> QED BY <1>1, <2>9 DEF SettledInOrder
  <1> QED BY <1>5, <1>6

LEMMA SettledStays ==
  ASSUME OrderInv, OrderInv', Grows, Takes, NEW list \in Seq(Slots), Extends(list),
         Chain, SettledInOrder, UNCHANGED <<uncommitted, settled>>,
         UNCHANGED txnChain \/ \E s \in Positions : Queues(s)
  PROVE  SettledInOrder'
  <1>1. PICK c \in {0} \cup isTxn : SettledUpTo(c)
    BY DEF SettledInOrder
  <1>2. c \in isTxn'
        \/ c = 0
    BY DEF txnChain, Queues, QueueCommit
  <1>3. uncommitted' = IF c = 0 THEN 0 ELSE IndexOf(c)'
    <2>1. CASE c = 0
      BY <1>1, <2>1 DEF SettledUpTo
    <2>2. CASE c # 0
      <3>1. /\ c \in Positions /\ c <= position /\ Nest(c) = 0
            /\ c < position => kind[c] \in Listed
        BY <1>1, <2>2, ChainTypes DEF Chain
      <3>2. IndexOf(c)' = IndexOf(c)
        BY <3>1, IndexStays
      <3> QED BY <1>1, <2>2, <3>2 DEF SettledUpTo
    <2> QED BY <2>1, <2>2
  <1>4. c # 0 => Over(c)'
    <2>1. c # 0 => Over(c) /\ c \in Nat
      BY <1>1, ChainTypes DEF SettledUpTo
    <2> QED BY <2>1, OverStays
  <1>5. ASSUME NEW s \in Slots, settled'[s] # "pending"
        PROVE  s < c /\ kind'[s] \in Listed
    <2>1. s < c /\ kind[s] \in Listed
      BY <1>1, <1>5 DEF SettledUpTo
    <2>2. s \in Nat /\ position \in Nat /\ c \in Nat
      BY <1>1, ChainTypes, SlotFacts
    <2>3. s < position
      <3>1. c = 0 \/ c <= position
        BY <1>1 DEF Chain
      <3> QED BY <2>1, <2>2, <3>1
    <2> QED BY <2>1, <2>3 DEF Grows
  <1>6. txnResolution' # 0 => c <= txnResolution'
    <2>1. CASE UNCHANGED txnChain
      BY <1>1, <2>1 DEF SettledUpTo, txnChain
    <2>2. ASSUME NEW s \in Positions, Queues(s)
          PROVE  txnResolution' # 0 => c <= txnResolution'
      <3>1. c <= s
        BY <1>1, <2>2, ChainTypes DEF Queues
      <3>2. txnResolution' = txnResolution \/ txnResolution' = s
        BY <2>2 DEF Queues, QueueCommit
      <3> QED BY <1>1, <3>1, <3>2 DEF SettledUpTo
    <2> QED BY <2>1, <2>2
  <1>7. SettledUpTo(c)'
    BY <1>3, <1>4, <1>5, <1>6 DEF SettledUpTo
  <1> QED BY <1>2, <1>7 DEF SettledInOrder

-----------------------------------------------------------------------------
(* The steps that report a slot.                                            *)

PromisedOnce(q) ==
  \A i, j \in DOMAIN q :
    q[i].op \in Reporting /\ q[j].op \in Reporting /\ q[i].slot = q[j].slot => i = j
Unanswered(q) ==
  \A i \in DOMAIN q : q[i].op \in Reporting =>
    Written(q[i].slot) /\ kind[q[i].slot] \in Listed /\ promise[q[i].slot] = 0

LEMMA PromisedParts ==
  Promised <=> /\ Unanswered(todo) /\ PromisedOnce(todo)
               /\ \A s \in Slots : promise[s] # 0 => Written(s)
  BY DEF Promised, Unanswered, PromisedOnce

(* The steps of the rest of a call, and those that a step added.            *)
LEMMA ReportsGoOn ==
  ASSUME OrderInv, OrderInv', Grows, Promised, NEW a \in Seq(JSSteps), Adds(a), todo # <<>>,
         todo' = a \o Tail(todo), UNCHANGED <<kind, position>>,
         \A s \in Slots : promise'[s] # promise[s] =>
           Head(todo).op = "promise" /\ s = Head(todo).slot
  PROVE  Promised'
  <1>1. todo \in Seq(JSSteps) /\ Slots \subseteq Positions /\ StepsOK(todo)
    BY OrderTypes DEF OrderInv, Placement
  <1>2. PICK b : b = todo'
    OBVIOUS
  <1>3. /\ DOMAIN a = 1..Len(a) /\ Len(a) \in Nat /\ DOMAIN todo = 1..Len(todo)
        /\ Len(todo) \in Nat /\ todo[1] = Head(todo) /\ 1 \in DOMAIN todo
        /\ b \in Seq(JSSteps) /\ DOMAIN b = 1..Len(a) + Len(todo) - 1
        /\ \A i \in DOMAIN b : i \in DOMAIN a => b[i] = a[i]
        /\ \A i \in DOMAIN b : i \notin DOMAIN a =>
             /\ i - Len(a) + 1 \in DOMAIN todo /\ i - Len(a) + 1 # 1
             /\ b[i] = todo[i - Len(a) + 1]
    BY <1>1, <1>2, ReplaceHead
  <1>4. /\ Unanswered(todo) /\ PromisedOnce(todo)
        /\ \A s \in Slots : promise[s] # 0 => Written(s)
    BY PromisedParts
  <1>5. ASSUME NEW s \in Slots, Written(s) PROVE "INSTR" \in word'[s]
    BY <1>1, <1>5 DEF Grows
  (* A step that was added reports the slot of the step it replaces.        *)
  <1>6. ASSUME NEW i \in DOMAIN a, a[i].op \in Reporting
        PROVE  /\ a[i].slot = Head(todo).slot /\ "INSTR" \in word'[a[i].slot]
               /\ kind[a[i].slot] \in Listed /\ promise'[a[i].slot] = 0
               /\ \A j \in DOMAIN todo : j # 1 /\ todo[j].op \in Reporting =>
                    todo[j].slot # a[i].slot
    <2>0. a[i] \in JSSteps
      BY <1>3
    <2>1. PICK s \in Slots : s = a[i].slot
      BY <1>6, <2>0 DEF JSSteps, Reporting
    <2>2. CASE a[i].op = "seen"
      <3>1. /\ Head(todo).op \in Placings /\ s = Head(todo).slot
            /\ kind[s] \in Listed /\ "INSTR" \in word'[s]
        BY <2>1, <2>2 DEF Adds
      <3>2. ~Written(s)
        BY <3>1, HeadStep DEF StepOK
      <3>3. promise[s] = 0
        BY <1>4, <3>2
      <3>4. promise'[s] = 0
        BY <3>1, <3>3 DEF Placings
      <3>5. \A j \in DOMAIN todo : todo[j].op \in Reporting => todo[j].slot # s
        BY <1>4, <3>2 DEF Unanswered
      <3> QED BY <2>1, <3>1, <3>4, <3>5
    <2>3. CASE a[i].op = "promise"
      <3>1. Head(todo).op = "seen" /\ s = Head(todo).slot
        BY <2>1, <2>3 DEF Adds
      <3>2. 1 \in DOMAIN todo /\ todo[1].op \in Reporting /\ todo[1].slot = s
        BY <1>3, <3>1 DEF Reporting
      <3>3. Written(s) /\ kind[s] \in Listed /\ promise[s] = 0
        BY <1>4, <3>2 DEF Unanswered
      <3>4. promise'[s] = 0
        BY <3>1, <3>3
      <3>5. \A j \in DOMAIN todo : j # 1 /\ todo[j].op \in Reporting => todo[j].slot # s
        BY <1>4, <3>2 DEF PromisedOnce
      <3> QED BY <1>5, <2>1, <3>1, <3>3, <3>4, <3>5
    <2> QED BY <1>6, <2>2, <2>3 DEF Reporting
  (* A step that was already there: its slot has no promise yet.            *)
  <1>7. ASSUME NEW j \in DOMAIN todo, j # 1, todo[j].op \in Reporting
        PROVE  /\ "INSTR" \in word'[todo[j].slot] /\ kind[todo[j].slot] \in Listed
               /\ promise'[todo[j].slot] = 0
    <2>1. PICK s \in Slots : s = todo[j].slot
      <3>1. todo[j] \in JSSteps
        BY <1>1
      <3> QED BY <1>7, <3>1 DEF JSSteps, Reporting
    <2>2. Written(s) /\ kind[s] \in Listed /\ promise[s] = 0
      BY <1>4, <1>7, <2>1 DEF Unanswered
    <2>3. promise'[s] = 0
      <3>1. ASSUME promise'[s] # promise[s] PROVE FALSE
        <4>1. todo[1].op = "promise" /\ todo[1].slot = s /\ 1 \in DOMAIN todo
          BY <1>3, <3>1
        <4> QED BY <1>4, <1>7, <2>1, <4>1 DEF PromisedOnce, Reporting
      <3> QED BY <2>2, <3>1
    <2> QED BY <1>5, <2>1, <2>2, <2>3
  <1>8. ASSUME NEW i \in DOMAIN b, b[i].op \in Reporting
        PROVE  /\ "INSTR" \in word'[b[i].slot] /\ kind[b[i].slot] \in Listed
               /\ promise'[b[i].slot] = 0
    BY <1>3, <1>6, <1>7, <1>8
  <1>9. ASSUME NEW i \in DOMAIN b, NEW j \in DOMAIN b, b[i].op \in Reporting,
                b[j].op \in Reporting, b[i].slot = b[j].slot
         PROVE  i = j
    <2>1. CASE i \in DOMAIN a /\ j \in DOMAIN a
      BY <1>3, <1>9, <2>1 DEF Adds
    <2>2. CASE i \in DOMAIN a /\ j \notin DOMAIN a
      BY <1>3, <1>6, <1>9, <2>2
    <2>3. CASE i \notin DOMAIN a /\ j \in DOMAIN a
      BY <1>3, <1>6, <1>9, <2>3
    <2>4. CASE i \notin DOMAIN a /\ j \notin DOMAIN a
      <3>1. i - Len(a) + 1 = j - Len(a) + 1
        BY <1>3, <1>4, <1>9, <2>4 DEF PromisedOnce
      <3>2. i \in Int /\ j \in Int /\ Len(a) \in Int
        BY <1>3
      <3> QED BY <3>1, <3>2
    <2> QED BY <2>1, <2>2, <2>3, <2>4
  <1>10. ASSUME NEW s \in Slots, promise'[s] # 0 PROVE "INSTR" \in word'[s]
    <2>1. CASE promise[s] # 0
      BY <1>4, <1>5, <2>1
    <2>2. CASE promise[s] = 0
      <3>1. todo[1].op = "promise" /\ todo[1].slot = s /\ 1 \in DOMAIN todo
        BY <1>3, <1>10, <2>2
      <3>2. Written(s)
        BY <1>4, <3>1 DEF Unanswered, Reporting
      <3> QED BY <1>5, <3>2
    <2> QED BY <2>1, <2>2
  <1> QED BY <1>2, <1>8, <1>9, <1>10 DEF Promised, Written

LEMMA PromisedNext ==
  ASSUME OrderInv, OrderInv', Grows, Promised, [Next]_vars
  PROVE  Promised'
  <1>1. Slots \subseteq Positions
    BY OrderTypes DEF OrderInv
  (* Steps that leave the call and the promises alone.                      *)
  <1>2. ASSUME UNCHANGED <<todo, promise>>,
               \A i \in DOMAIN todo : todo[i].op \in Reporting => todo[i].slot \in Slots
        PROVE  Promised'
    <2>1. \A s \in Slots : Written(s) => Written(s)'
      BY <1>1 DEF Grows, Written
    <2>2. \A s \in Slots : Written(s) /\ kind[s] \in Listed => kind'[s] \in Listed
      <3>1. \A s \in Slots : Written(s) => s < position
        BY <1>1, WrittenIsPlaced DEF OrderInv, Placement
      <3> QED BY <3>1 DEF Grows
    <2> QED BY <1>2, <2>1, <2>2 DEF Promised
  <1>3. \A i \in DOMAIN todo : todo[i].op \in Reporting => todo[i].slot \in Slots
    <2> SUFFICES ASSUME NEW i \in DOMAIN todo, todo[i].op \in Reporting
                 PROVE  todo[i].slot \in Slots
      OBVIOUS
    <2>1. todo[i] \in JSSteps
      BY OrderTypes DEF OrderInv
    <2> QED BY <2>1 DEF JSSteps, Reporting
  <1>4. ASSUME Call \/ Event, UNCHANGED promise PROVE Promised'
    <2>1. \A i \in DOMAIN todo' : todo'[i].op \notin Reporting
      BY <1>4, NothingReported
    <2>2. \A s \in Slots : promise[s] # 0 => "INSTR" \in word'[s]
      BY <1>1 DEF Promised, Grows
    <2> QED BY <1>4, <2>1, <2>2 DEF Promised, Written
  <1>5. ASSUME Call PROVE UNCHANGED promise
    BY <1>5, WritePlaces, OpenBlockPlaces DEF Call
  <1>6. ASSUME Event PROVE UNCHANGED promise
    BY <1>6 DEF Event, CloseBlock, EndTurn, CommitTimer, Completion, Progress, promises
  <1>7. ASSUME JavaScriptStep PROVE Promised'
    <2>1. UNCHANGED <<kind, position>>
      <3>1. ASSUME Seen PROVE UNCHANGED <<kind, position>>
        BY <3>1 DEF Seen, placing
      <3> QED BY <1>7, <3>1, StepsKeep
    <2>2. \A s \in Slots : promise'[s] # promise[s] =>
            Head(todo).op = "promise" /\ s = Head(todo).slot
      <3>1. CASE ReturnPromise
        <4>1. /\ promise \in [Slots -> 0..Resolved] /\ Head(todo).op = "promise"
              /\ \E x : promise' = [promise EXCEPT ![Head(todo).slot] = x]
          BY <3>1 DEF OrderInv, Inv, TypeInv, TypeOK, TypePromises, ReturnPromise, Doing
        <4> QED BY <4>1
      <3>2. ASSUME Load \/ Store \/ Or \/ Seen PROVE promise' = promise
        <4>1. ASSUME Load PROVE promise' = promise
          BY ONLY <4>1 DEF Load, promises
        <4>2. ASSUME Store PROVE promise' = promise
          BY ONLY <4>2 DEF Store, promises
        <4>3. ASSUME Or PROVE promise' = promise
          BY ONLY <4>3 DEF Or, promises
        <4>4. ASSUME Seen PROVE promise' = promise
          BY ONLY <4>4 DEF Seen
        <4> QED BY <3>2, <4>1, <4>2, <4>3, <4>4
      <3>3. ASSUME AdvanceUnwritten \/ SettleTxn \/ RunCallbacks PROVE promise' = promise
        BY <3>3 DEF AdvanceUnwritten, SettleTxn, RunCallbacks, promises
      <3> QED BY <1>7, <3>1, <3>2, <3>3 DEF JavaScriptStep
    <2>3. /\ todo # <<>>
          /\ \/ todo' = todo /\ Head(todo).op \notin Reporting
             \/ \E a \in Seq(JSSteps) : todo' = a \o Tail(todo) /\ Adds(a)
      BY <1>7, CallGoesOn
    <2>4. CASE todo' = todo /\ Head(todo).op \notin Reporting
      <3>1. \A s \in Slots : promise'[s] = promise[s]
        BY <2>2, <2>4 DEF Reporting
      <3>2. promise' = promise
        BY <3>1 DEF OrderInv, Inv, TypeInv, TypeOK, TypePromises
      <3> QED BY <1>2, <1>3, <2>4, <3>2
    <2>5. ASSUME NEW a \in Seq(JSSteps), todo' = a \o Tail(todo), Adds(a) PROVE Promised'
      BY <2>1, <2>2, <2>3, <2>5, ReportsGoOn
    <2> QED BY <2>3, <2>4, <2>5
  <1>8. ASSUME NEW w \in Slots, WorkerStep(w) PROVE UNCHANGED <<todo, promise>>
    <2>1. UNCHANGED JavaScriptVars
      BY <1>8, WorkerKeepsJavaScript
    <2> QED BY <2>1 DEF JavaScriptVars, promises
  <1>9. ASSUME UNCHANGED vars PROVE UNCHANGED <<todo, promise>>
    BY <1>9 DEF vars, promises
  <1> QED BY <1>2, <1>3, <1>4, <1>5, <1>6, <1>7, <1>8, <1>9 DEF Next, Quiescent

-----------------------------------------------------------------------------
(* The invariant.                                                           *)

LEMMA InitSettle == Init => OrderInv /\ SettleInv
  <1> SUFFICES ASSUME Init PROVE OrderInv /\ SettleInv
    OBVIOUS
  <1>1. OrderInv
    BY InitOrder
  <1>2. /\ \A s \in Slots : kind[s] = "none" /\ txnOf[s] = 0 /\ outcome[s] = "none"
        /\ \A s \in Slots : worker[s].pc = "none" /\ promise[s] = 0 /\ settled[s] = "pending"
        /\ \A p \in Positions : word[p] = IF p = 1 THEN {"DELIMITER", "COMMITTED"} ELSE {}
        /\ position = 1 /\ startAddress = 0 /\ todo = <<>> /\ isTxn = {} /\ txnResolution = 0
        /\ uncommitted = 0 /\ \A q \in Positions : nextTxn[q] = 0
    BY DEF Init, WorkerAt
  <1>3. Launches
    BY <1>2 DEF Launches, Launched, Active
  <1>4. EndsOutside
    BY <1>2 DEF EndsOutside, Ended
  <1>5. OverWhenDone
    <2>1. Over(1)
      BY <1>2 DEF Over, Listed
    <2> QED BY <1>2, <2>1 DEF OverWhenDone
  <1>6. Chain
    BY <1>2 DEF Chain
  <1>7. SettledInOrder
    <2>1. SettledUpTo(0)
      BY <1>2 DEF SettledUpTo
    <2> QED BY <2>1 DEF SettledInOrder
  <1>8. Promised
    BY <1>2 DEF Promised
  <1> QED BY <1>1, <1>3, <1>4, <1>5, <1>6, <1>7, <1>8 DEF SettleInv

LEMMA SettleNext ==
  ASSUME OrderInv, SettleInv, [Next]_vars
  PROVE  Grows /\ OrderInv' /\ SettleInv'
  <1>1. /\ Transactions /\ Chain /\ SettledInOrder /\ Promised
        /\ OverWhenDone
    BY DEF SettleInv, Transactions
  <1>2. OrderInv'
    BY OrderNext
  <1>3. Grows /\ Transactions'
    BY <1>1, TransactionsNext
  <1>4. TokenMoves
    BY <1>2, TokenMovesNext
  <1>5. Takes
    BY ListGrows
  <1>6. PICK list \in Seq(Slots) : Extends(list)
    BY ListGrows
  <1>7. Promised'
    BY <1>1, <1>2, <1>3, PromisedNext
  <1>8. Chain' /\ SettledInOrder'
    <2>1. CASE SettleTxn
      <3>1. UNCHANGED <<position, kind, nextTxn, isTxn>> /\ txnResolution' \in {txnResolution, nextTxn[txnResolution]}
        BY <2>1 DEF SettleTxn, placing
      <3>2. SettledInOrder'
        BY <1>1, <2>1, SettleTxnInOrder
      <3>3. \A q \in isTxn : /\ q <= position' /\ Nest(q)' = 0 /\ NotPast(q)'
                             /\ q < position' => kind'[q] \in Listed
        BY <1>1, <1>2, <1>3, <1>4, <1>5, PlaceInQueueStays
      <3>4. txnResolution' \in {0} \cup isTxn
        <4>1. CASE txnResolution' = txnResolution
          BY <1>1, <4>1 DEF Chain
        <4>2. CASE txnResolution' # txnResolution
          <5>1. /\ Has(word[txnResolution], "TXN_FAILED") \in BOOLEAN /\ txnResolution # 0
                /\ txnResolution' = nextTxn[txnResolution]
            BY <2>1, <4>2 DEF SettleTxn, Has
          <5>2. txnResolution \in Positions
            BY <1>1, <5>1, ChainTypes
          <5> QED BY <1>1, <5>1, <5>2 DEF Chain
        <4> QED BY <4>1, <4>2
      <3>5. Chain'
        BY <1>1, <3>1, <3>3, <3>4 DEF Chain
      <3> QED BY <3>2, <3>5
    <2>2. CASE ~SettleTxn
      <3>1. /\ UNCHANGED <<uncommitted, settled>>
            /\ UNCHANGED txnChain \/ \E s \in Positions : Queues(s)
        BY <1>1, <1>2, <2>2, ChainSteps
      <3>2. Chain'
        BY <1>1, <1>2, <1>3, <1>4, <1>5, <3>1, ChainStays
      <3>3. SettledInOrder'
        BY <1>1, <1>2, <1>3, <1>5, <1>6, <3>1, SettledStays
      <3> QED BY <3>2, <3>3
    <2> QED BY <2>1, <2>2
  <1> QED BY <1>2, <1>3, <1>7, <1>8 DEF SettleInv, Transactions

(* What settled or was decided stays.                                       *)
LEMMA SettledForGood ==
  ASSUME OrderInv, SettleInv, [Next]_vars
  PROVE  \A s \in Slots : /\ settled[s] # "pending" => settled'[s] = settled[s]
                          /\ outcome[s] # "none" => outcome'[s] = outcome[s]
  <1>1. \A s \in Slots : outcome[s] # "none" => outcome'[s] = outcome[s]
    BY SettleNext DEF Grows
  <1>2. ASSUME NEW s \in Slots, settled[s] # "pending" PROVE settled'[s] = settled[s]
    <2>1. Chain /\ SettledInOrder
      BY DEF SettleInv
    <2>2. CASE SettleTxn
      <3>1. \/ settled' = settled
            \/ txnResolution # 0
               /\ \A t \in Slots : settled'[t] # settled[t] => t \in Uncommitted(IndexOf(txnResolution))
        BY ONLY <2>2 DEF SettleTxn
      <3>2. PICK c \in {0} \cup isTxn : SettledUpTo(c)
        BY <2>1 DEF SettledInOrder
      <3>3. PICK end : end = IndexOf(txnResolution)
        OBVIOUS
      <3>4. ASSUME txnResolution # 0, s \in Uncommitted(end) PROVE FALSE
        <4>1. /\ uncommitted \in Nat /\ resolutions \in Seq(Slots)
          BY DEF OrderInv, Inv, TypeInv, TypeOK, TypeResolving
        <4>2. PICK i \in (uncommitted..end - 1) \ {0} : s = resolutions[i]
          BY <3>4 DEF Uncommitted
        <4>3. s < c /\ c \in isTxn /\ c \in Nat /\ c \in Positions
          BY <1>2, <2>1, <3>2, ChainTypes, SlotFacts DEF SettledUpTo
        <4>4. uncommitted = IndexOf(c) /\ c # 0
          BY <2>1, <3>2, <4>3, ChainTypes DEF SettledUpTo
        <4>5. /\ txnResolution \in Positions /\ txnResolution <= position
              /\ txnResolution < position => kind[txnResolution] \in Listed
          BY <2>1, <3>4, ChainTypes DEF Chain
        <4>6. end \in 1..Len(resolutions) + 1
          BY <3>3, <4>5, IndexBounds
        <4>7. i \in DOMAIN resolutions /\ IndexOf(c) <= i /\ IndexOf(c) \in DOMAIN resolutions
          <5>1. c <= position /\ (c < position => kind[c] \in Listed)
            BY <2>1, <4>3 DEF Chain
          <5>2. IndexOf(c) \in 1..Len(resolutions) + 1
            BY <4>3, <5>1, IndexBounds
          <5>3. Len(resolutions) \in Nat /\ DOMAIN resolutions = 1..Len(resolutions)
            BY <4>1
          <5> QED BY <4>4, <4>6, <5>2, <5>3
        <4>8. resolutions[IndexOf(c)] = c
          BY <2>1, <4>3, <4>7, IndexBounds DEF Chain
        <4>9. ~(IndexOf(c) < i)
          BY <4>1, <4>2, <4>3, <4>7, <4>8, SlotFacts DEF OrderInv, Placement, ListInOrder
        <4>10. IndexOf(c) = i
          BY <4>1, <4>4, <4>7, <4>9
        <4> QED BY <4>2, <4>3, <4>8, <4>10
      <3> QED BY <3>1, <3>3, <3>4
    <2>3. CASE ~SettleTxn
      BY <2>1, <2>3, SettleNext, ChainSteps
    <2> QED BY <2>2, <2>3
  <1> QED BY <1>1, <1>2

-----------------------------------------------------------------------------
(* Event turns.                                                             *)

(* The steps of a call do not change where instructions are placed.         *)
LEMMA StepsPlaceNothing ==
  ASSUME JavaScriptStep
  PROVE  UNCHANGED <<position, kind, group, resolutions, batchDepth, blocks, turn>>
  <1>1. ASSUME Load
        PROVE  UNCHANGED <<position, kind, group, resolutions, batchDepth, blocks, turn>>
    BY ONLY <1>1 DEF Load, placing, batching
  <1>2. ASSUME Store
        PROVE  UNCHANGED <<position, kind, group, resolutions, batchDepth, blocks, turn>>
    BY ONLY <1>2 DEF Store, placing
  <1>3. ASSUME Or
        PROVE  UNCHANGED <<position, kind, group, resolutions, batchDepth, blocks, turn>>
    BY ONLY <1>3 DEF Or, placing, batching
  <1>4. ASSUME Seen
        PROVE  UNCHANGED <<position, kind, group, resolutions, batchDepth, blocks, turn>>
    BY ONLY <1>4 DEF Seen, placing, batching
  <1>5. ASSUME ReturnPromise
        PROVE  UNCHANGED <<position, kind, group, resolutions, batchDepth, blocks, turn>>
    BY ONLY <1>5 DEF ReturnPromise, placing, batching
  <1>6. ASSUME AdvanceUnwritten
        PROVE  UNCHANGED <<position, kind, group, resolutions, batchDepth, blocks, turn>>
    BY ONLY <1>6 DEF AdvanceUnwritten, placing, batching
  <1>7. ASSUME SettleTxn
        PROVE  UNCHANGED <<position, kind, group, resolutions, batchDepth, blocks, turn>>
    BY ONLY <1>7 DEF SettleTxn, placing, batching
  <1>8. ASSUME RunCallbacks
        PROVE  UNCHANGED <<position, kind, group, resolutions, batchDepth, blocks, turn>>
    BY ONLY <1>8 DEF RunCallbacks, placing, batching
  <1> QED BY <1>1, <1>2, <1>3, <1>4, <1>5, <1>6, <1>7, <1>8 DEF JavaScriptStep

(* Only the return of a promise creates one, and the shared one is dropped  *)
(* when a transaction begins.                                               *)
LEMMA OtherPromises ==
  ASSUME JavaScriptStep, ~ReturnPromise
  PROVE  promise' = promise /\ commitPromise' \in {0, commitPromise}
  <1>1. ASSUME Load PROVE promise' = promise /\ commitPromise' \in {0, commitPromise}
    BY ONLY <1>1 DEF Load, promises
  <1>2. ASSUME Store PROVE promise' = promise /\ commitPromise' \in {0, commitPromise}
    BY ONLY <1>2 DEF Store, promises
  <1>3. ASSUME Or PROVE promise' = promise /\ commitPromise' \in {0, commitPromise}
    BY ONLY <1>3 DEF Or, promises
  <1>4. ASSUME Seen PROVE promise' = promise /\ commitPromise' \in {0, commitPromise}
    BY ONLY <1>4 DEF Seen
  <1>5. ASSUME AdvanceUnwritten PROVE promise' = promise /\ commitPromise' \in {0, commitPromise}
    BY ONLY <1>5 DEF AdvanceUnwritten, promises
  <1>6. ASSUME SettleTxn PROVE promise' = promise /\ commitPromise' \in {0, commitPromise}
    BY ONLY <1>6 DEF SettleTxn
  <1>7. ASSUME RunCallbacks PROVE promise' = promise /\ commitPromise' \in {0, commitPromise}
    BY ONLY <1>7 DEF RunCallbacks, promises
  <1> QED BY <1>1, <1>2, <1>3, <1>4, <1>5, <1>6, <1>7 DEF JavaScriptStep

LEMMA CurrentStays ==
  ASSUME UNCHANGED <<group, resolutions>>
  PROVE  Current' = Current
  BY DEF Current

LEMMA TurnTypes ==
  ASSUME OrderInv
  PROVE  /\ group \in [Slots -> {0} \cup Slots] /\ resolutions \in Seq(Slots)
         /\ commitPromise \in {0} \cup Slots /\ promise \in [Slots -> 0..Resolved]
         /\ turn \in {0} \cup Slots /\ kind \in [Slots -> Kinds] /\ batchDepth \in Nat
         /\ position \in Nat /\ Slots \subseteq Nat /\ 0 \notin Slots
  BY OrderTypes, SlotFacts
     DEF OrderInv, Inv, TypeInv, TypeOK, TypePlacing, TypeResolving, TypePromises, TypeBatching

(* What places no instruction with a result and returns no promise.         *)
LEMMA TurnStays ==
  ASSUME OrderInv, InTurn, UNCHANGED <<group, resolutions, promise>>,
         commitPromise' \in {0, commitPromise}, turn' \in {0, turn},
         batchDepth' > 0 => turn' # 0,
         \A s \in Slots : kind'[s] \in Listed <=> kind[s] \in Listed
  PROVE  OpenTurn' /\ PromisesInTurn'
  <1>1. Current' = Current
    BY CurrentStays
  <1>2. OpenTurn /\ PromisesInTurn
    BY DEF InTurn
  <1>3. OpenTurn'
    BY <1>1, <1>2 DEF OpenTurn
  <1>4. commitPromise' # 0 => kind'[commitPromise'] \in Listed /\ group'[commitPromise'] = Current'
    BY <1>1, <1>2, TurnTypes DEF PromisesInTurn
  <1>5. \A s \in Slots : promise'[s] \in Slots =>
          kind'[s] \in Listed /\ kind'[promise'[s]] \in Listed /\ group'[promise'[s]] = group'[s]
    BY <1>2 DEF PromisesInTurn
  <1> QED BY <1>3, <1>4, <1>5 DEF PromisesInTurn

(* The outermost block that is open is the event turn.                      *)
LEMMA TurnIsOutermost ==
  ASSUME OrderInv, OpenTurn, batchDepth > 0
  PROVE  /\ turn \in Slots /\ Outermost = turn /\ group[turn] = Current /\ kind[turn] = "start"
         /\ turn < position
  <1>1. turn # 0 /\ Current = turn /\ group[turn] = turn
    BY DEF OpenTurn
  <1>2. turn < position /\ kind[turn] = "start"
    BY <1>1 DEF OrderInv, Placement, OpenBlocks
  <1> QED BY <1>1, <1>2, TurnTypes DEF Outermost

(* The rest of a call, and what a step adds, is in the turn.                *)
LEMMA StepsStayInTurn ==
  ASSUME OrderInv, InTurn, todo # <<>>, NEW a \in Seq(JSSteps), todo' = a \o Tail(todo), Adds(a),
         UNCHANGED <<kind, group, resolutions>>
  PROVE  StepsInTurn'
  <1>1. todo \in Seq(JSSteps)
    BY OrderTypes DEF OrderInv
  <1>2. PICK b : b = todo'
    OBVIOUS
  <1>3. /\ 1 \in DOMAIN todo /\ todo[1] = Head(todo)
        /\ \A i \in DOMAIN b : i \in DOMAIN a => b[i] = a[i]
        /\ \A i \in DOMAIN b : i \notin DOMAIN a =>
             /\ i - Len(a) + 1 \in DOMAIN todo
             /\ b[i] = todo[i - Len(a) + 1]
    BY <1>1, <1>2, ReplaceHead
  <1>4. \A i \in DOMAIN todo :
          todo[i].op \in Placings \cup Reporting /\ kind[todo[i].slot] \in Listed
            => group[todo[i].slot] = Current
    BY DEF InTurn, StepsInTurn
  <1>5. Current' = Current
    BY CurrentStays
  <1>6. ASSUME NEW i \in DOMAIN a, a[i].op \in Placings \cup Reporting, kind[a[i].slot] \in Listed
        PROVE  group[a[i].slot] = Current
    <2>1. CASE Head(todo).op \in Placings \cup Reporting /\ a[i].slot = Head(todo).slot
      BY <1>3, <1>4, <1>6, <2>1
    <2>2. CASE batchDepth > 0 /\ a[i].slot = Outermost
      BY <2>2, TurnIsOutermost DEF InTurn
    <2>3. \/ Head(todo).op \in Placings \cup Reporting /\ a[i].slot = Head(todo).slot
          \/ batchDepth > 0 /\ a[i].slot = Outermost
      BY <1>6 DEF Adds, Reporting
    <2> QED BY <2>1, <2>2, <2>3
  <1>7. ASSUME NEW i \in DOMAIN b, b[i].op \in Placings \cup Reporting, kind[b[i].slot] \in Listed
        PROVE  group[b[i].slot] = Current
    <2>1. CASE i \in DOMAIN a
      BY <1>3, <1>6, <1>7, <2>1
    <2>2. CASE i \notin DOMAIN a
      <3>1. PICK j \in DOMAIN todo : b[i] = todo[j]
        BY <1>3, <2>2
      <3> QED BY <1>4, <1>7, <3>1
    <2> QED BY <2>1, <2>2
  <1> QED BY <1>2, <1>5, <1>7 DEF StepsInTurn

LEMMA ReturnPromiseInTurn ==
  ASSUME OrderInv, InTurn, Promised, ReturnPromise
  PROVE  OpenTurn' /\ PromisesInTurn'
  <1>1. /\ UNCHANGED <<kind, group, resolutions, batchDepth, turn>>
        /\ todo # <<>> /\ Head(todo).op = "promise"
    BY StepsPlaceNothing DEF JavaScriptStep, ReturnPromise, Doing
  <1>2. PICK s \in Slots : s = Head(todo).slot
    BY <1>1, HeadStep
  <1>3. kind[s] \in Listed /\ group[s] = Current
    <2>1. 1 \in DOMAIN todo /\ todo[1].op = "promise" /\ todo[1].slot = s
      BY <1>1, <1>2, HeadStep
    <2>2. kind[s] \in Listed
      BY <2>1 DEF Promised, Reporting
    <2> QED BY <2>1, <2>2 DEF InTurn, StepsInTurn, Reporting
  <1>4. /\ commitPromise' \in {s, commitPromise}
        /\ \E p \in {s, Resolved, commitPromise} : promise' = [promise EXCEPT ![s] = p]
    BY ONLY ReturnPromise, <1>2 DEF ReturnPromise
  <1>5. OpenTurn /\ PromisesInTurn
    BY DEF InTurn
  <1>6. Current' = Current
    BY <1>1, CurrentStays
  <1>7. OpenTurn'
    BY <1>1, <1>5, <1>6 DEF OpenTurn
  <1>8. commitPromise' # 0 => kind'[commitPromise'] \in Listed /\ group'[commitPromise'] = Current'
    BY <1>1, <1>3, <1>4, <1>5, <1>6 DEF PromisesInTurn
  <1>9. PICK p \in {s, Resolved, commitPromise} : promise' = [promise EXCEPT ![s] = p]
    BY <1>4
  <1>10. p \in Slots => kind[p] \in Listed /\ group[p] = Current
    <2>1. Resolved \notin Slots
      BY DEF Resolved, Slots
    <2> QED BY <1>3, <1>5, <2>1, TurnTypes DEF PromisesInTurn
  <1>11. \A r \in Slots : promise'[r] = IF r = s THEN p ELSE promise[r]
    BY <1>9, TurnTypes
  <1>12. \A r \in Slots : promise'[r] \in Slots =>
           kind[r] \in Listed /\ kind[promise'[r]] \in Listed /\ group[promise'[r]] = group[r]
    BY <1>3, <1>5, <1>10, <1>11 DEF PromisesInTurn
  <1> QED BY <1>1, <1>7, <1>8, <1>12 DEF PromisesInTurn

LEMMA StepInTurn ==
  ASSUME OrderInv, InTurn, Promised, JavaScriptStep
  PROVE  InTurn'
  <1>1. UNCHANGED <<kind, group, resolutions, batchDepth, turn>>
    BY StepsPlaceNothing
  <1>2. OpenTurn' /\ PromisesInTurn'
    <2>1. CASE ~ReturnPromise
      <3>1. promise' = promise /\ commitPromise' \in {0, commitPromise}
        BY <2>1, OtherPromises
      <3>2. turn' \in {0, turn} /\ (batchDepth' > 0 => turn' # 0)
        BY <1>1 DEF InTurn, OpenTurn
      <3> QED BY <1>1, <3>1, <3>2, TurnStays
    <2> QED BY <2>1, ReturnPromiseInTurn
  <1>3. /\ todo # <<>>
        /\ todo' = todo \/ \E a \in Seq(JSSteps) : todo' = a \o Tail(todo) /\ Adds(a)
    BY CallGoesOn
  <1>4. CASE todo' = todo
    <2>1. Current' = Current
      BY <1>1, CurrentStays
    <2>2. StepsInTurn'
      BY <1>1, <1>4, <2>1 DEF InTurn, StepsInTurn
    <2> QED BY <1>2, <2>2 DEF InTurn
  <1>5. ASSUME NEW a \in Seq(JSSteps), todo' = a \o Tail(todo), Adds(a) PROVE InTurn'
    BY <1>1, <1>2, <1>3, <1>5, StepsStayInTurn DEF InTurn
  <1> QED BY <1>3, <1>4, <1>5

(* A call places its instruction in the open turn, or opens one.            *)
LEMMA PlacesInTurn ==
  ASSUME OrderInv, InTurn, NEW k \in Listed, NEW s, NEW opens, NEW pointers,
         Places(k, s, opens, pointers), opens <=> turn = 0 /\ batchDepth = 0,
         NEW op, todo' = <<>> \/ todo' = <<Step(op, s, {})>>,
         commitPromise' = IF opens THEN 0 ELSE commitPromise, UNCHANGED promise
  PROVE  InTurn'
  <1>1. /\ s \in Slots /\ opens \in BOOLEAN /\ position <= s /\ position \in Nat
        /\ opens => position \in Slots /\ position < s /\ turn = 0 /\ batchDepth = 0
        /\ ~opens => s = position
        /\ \A q \in Slots : q < position => kind'[q] = kind[q] /\ group'[q] = group[q]
        /\ \A q \in Slots : position <= q /\ q # s /\ ~(opens /\ q = position) =>
              kind'[q] \notin Listed \cup {"end"}
    BY PlacesBefore DEF OrderInv, Placement
  <1>2. OpenTurn /\ PromisesInTurn /\ FreshSlots /\ Nested /\ OpenBlocks
    BY DEF InTurn, OrderInv, Placement
  <1>3. /\ Slots \subseteq Nat /\ 0 \notin Slots /\ turn \in {0} \cup Slots /\ batchDepth \in Nat
        /\ resolutions \in Seq(Slots) /\ group \in [Slots -> {0} \cup Slots]
        /\ commitPromise \in {0} \cup Slots
    BY TurnTypes
  <1>4. PICK t \in Slots : t = turn' /\ t = IF opens THEN position ELSE turn
    <2>1. turn' = IF opens THEN position ELSE turn
      BY DEF Places
    <2>2. ~opens => turn # 0
      BY <1>2, <1>3 DEF OpenTurn
    <2> QED BY <1>1, <1>3, <2>1, <2>2
  <1>5. ~opens => /\ t = turn /\ Outermost = t /\ t < position /\ batchDepth > 0
                  /\ Current = t /\ group[t] = t
    <2>1. ASSUME ~opens PROVE t = turn /\ turn # 0
      BY <1>3, <1>4, <2>1
    <2>2. ASSUME ~opens PROVE batchDepth > 0
      BY <1>3, <2>1, <2>2, OpenCount
    <2> QED BY <1>2, <2>1, <2>2 DEF OpenTurn, Outermost, OpenBlocks
  <1>6. group'[s] = t /\ (opens => group'[position] = t)
    BY <1>1, <1>4, <1>5 DEF Places
  <1>7. group'[t] = t
    BY <1>1, <1>4, <1>5, <1>6
  <1>8. Current' = t
    <2>1. PICK r \in Seq(Slots) : r = resolutions'
      BY PlacesFresh
    <2>2. r = resolutions \o (IF opens THEN <<position, s>> ELSE <<s>>)
      BY <2>1 DEF Places
    <2>3. r # <<>> /\ r[Len(r)] = s
      BY <1>1, <1>3, <2>2
    <2> QED BY <1>6, <2>1, <2>3 DEF Current
  <1>9. ASSUME NEW q \in Slots, kind'[q] \in Listed PROVE group'[q] <= t
    <2>1. CASE q < position
      <3>1. kind[q] \in Listed /\ group'[q] = group[q]
        BY <1>1, <1>9, <2>1
      <3>2. group[q] \in Nat /\ group[q] <= q /\ q \in Nat
        BY <1>2, <1>3, <3>1 DEF Nested
      <3>3. ~opens => group[q] <= t
        BY <1>2, <1>3, <1>5, <3>1 DEF OpenTurn
      <3>4. opens => group[q] <= t
        BY <1>1, <1>4, <2>1, <3>2
      <3> QED BY <3>1, <3>3, <3>4
    <2>2. CASE ~(q < position)
      <3>1. q = s \/ (opens /\ q = position)
        BY <1>1, <1>3, <1>9, <2>2
      <3> QED BY <1>3, <1>6, <3>1
    <2> QED BY <2>1, <2>2
  <1>10. OpenTurn'
    BY <1>3, <1>4, <1>7, <1>8, <1>9 DEF OpenTurn
  <1>11. StepsInTurn'
    <2>1. \A i \in DOMAIN todo' : todo'[i].slot = s
      <3>1. CASE todo' = <<>>
        BY <3>1
      <3>2. CASE todo' = <<Step(op, s, {})>>
        <4>1. DOMAIN todo' = {1} /\ todo'[1].slot = s
          BY <3>2 DEF Step
        <4> QED BY <4>1
      <3> QED BY <3>1, <3>2
    <2> QED BY <1>6, <1>8, <2>1 DEF StepsInTurn
  (* What was there keeps its group.                                        *)
  <1>12. \A q \in Slots : kind[q] \in Listed =>
           q < position /\ kind'[q] \in Listed /\ group'[q] = group[q]
    <2>1. \A q \in Slots : kind[q] \in Listed => q < position
      BY <1>1, <1>2, <1>3 DEF FreshSlots, Listed
    <2> QED BY <1>1, <2>1
  <1>13. commitPromise' # 0 => kind'[commitPromise'] \in Listed /\ group'[commitPromise'] = Current'
    BY <1>2, <1>3, <1>5, <1>8, <1>12 DEF PromisesInTurn
  <1>14. \A q \in Slots : promise'[q] \in Slots =>
           /\ kind'[q] \in Listed /\ kind'[promise'[q]] \in Listed
           /\ group'[promise'[q]] = group'[q]
    BY <1>2, <1>12 DEF PromisesInTurn
  <1>15. PromisesInTurn'
    BY <1>13, <1>14 DEF PromisesInTurn
  <1> QED BY <1>10, <1>11, <1>15 DEF InTurn

LEMMA CallInTurn ==
  ASSUME EventTurnBatching, OrderInv, InTurn, Call
  PROVE  InTurn'
  <1>1. ASSUME NEW k \in {"write", "callback"}, NEW own \in BOOLEAN, Write(k, own)
        PROVE  InTurn'
    <2>1. PICK s, opens, pointers :
            /\ Places(k, s, opens, pointers)
            /\ opens <=> EventTurnBatching /\ turn = 0 /\ batchDepth = 0
            /\ todo' = <<Step(IF opens \/ batchDepth > 0 THEN "load" ELSE "or", s, {})>>
            /\ commitPromise' = IF opens THEN 0 ELSE commitPromise
            /\ UNCHANGED promise
      BY <1>1, WritePlaces
    <2>2. k \in Listed
      BY DEF Listed
    <2>3. PICK op : op = IF opens \/ batchDepth > 0 THEN "load" ELSE "or"
      OBVIOUS
    <2> QED BY <2>1, <2>2, <2>3, PlacesInTurn
  <1>2. ASSUME NEW own \in BOOLEAN, OpenBlock(own)
        PROVE  InTurn'
    <2>1. PICK s, opens, pointers :
            /\ Places("start", s, opens, pointers)
            /\ opens <=> EventTurnBatching /\ turn = 0 /\ batchDepth = 0
            /\ todo' = IF opens \/ batchDepth > 0 THEN <<Step("load", s, {})>> ELSE <<>>
            /\ commitPromise' = IF opens THEN 0 ELSE commitPromise
            /\ UNCHANGED promise
      BY <1>2, OpenBlockPlaces
    <2>2. "start" \in Listed
      BY DEF Listed
    <2> QED BY <2>1, <2>2, PlacesInTurn
  <1> QED BY <1>1, <1>2 DEF Call

(* The ends of blocks and turns.                                            *)
LEMMA EndInTurn ==
  ASSUME OrderInv, InTurn, CloseBlock \/ EndTurn
  PROVE  InTurn'
  <1>1. /\ EndBlock /\ todo = <<>> /\ batchDepth > 0
        /\ UNCHANGED <<group, resolutions, promise, commitPromise>>
    <2>1. EndBlock /\ todo = <<>> /\ UNCHANGED <<group, resolutions, promise, commitPromise>>
      BY DEF CloseBlock, EndTurn, promises
    <2>2. blocks # <<>> \/ turn # 0
      BY DEF CloseBlock, EndTurn
    <2> QED BY <2>1, <2>2, OpenCount
  <1>2. /\ turn \in Slots /\ Outermost = turn /\ group[turn] = Current /\ kind[turn] = "start"
        /\ turn < position
    BY <1>1, TurnIsOutermost DEF InTurn
  <1>3. /\ turn' \in {0, turn} /\ (batchDepth' > 0 => turn' # 0)
    <2>1. CASE CloseBlock
      BY <1>2, <2>1, TurnTypes DEF CloseBlock
    <2>2. CASE EndTurn
      <3>1. batchDepth' = batchDepth - 1 /\ turn' = 0 /\ blocks = <<>>
        BY <2>2 DEF EndTurn
      <3>2. batchDepth = 1
        BY <1>2, <3>1, OpenCount, TurnTypes
      <3> QED BY <3>1, <3>2
    <2> QED BY <2>1, <2>2
  <1>4. /\ position \in Nat /\ kind' = [kind EXCEPT ![position] = "end"]
        /\ \A s \in Slots : position <= s => kind[s] = "none"
    BY <1>1, TurnTypes DEF EndBlock, OrderInv, Placement, FreshSlots
  <1>5. \A s \in Slots : kind'[s] = IF s = position THEN "end" ELSE kind[s]
    BY <1>4, TurnTypes
  <1>6. \A s \in Slots : kind'[s] \in Listed <=> kind[s] \in Listed
    BY <1>4, <1>5 DEF Listed
  <1>7. OpenTurn' /\ PromisesInTurn'
    BY <1>1, <1>3, <1>6, TurnStays
  <1>8. \A i \in DOMAIN todo' : todo'[i].slot \in {position, turn}
    <2>1. CASE CloseBlock
      <3>1. writeBatchStart # 0 => writeBatchStart = turn
        BY <1>1, <1>2 DEF OrderInv, Placement, HeldBack
      <3>2. PICK s : s = blocks[Len(blocks)]
        OBVIOUS
      <3>3. \/ /\ writeBatchStart = s
               /\ todo' = <<Step("load", position, {}), Finish(s)>>
            \/ \E op : todo' = <<Step(op, position, {})>>
        BY ONLY <2>1, <3>2 DEF CloseBlock
      <3>4. CASE \E op : todo' = <<Step(op, position, {})>>
        <4>1. DOMAIN todo' = {1} /\ todo'[1].slot = position
          BY <3>4 DEF Step
        <4> QED BY <4>1
      <3>5. CASE writeBatchStart = s /\ todo' = <<Step("load", position, {}), Finish(s)>>
        <4>1. /\ DOMAIN todo' = {1, 2} /\ todo'[1].slot = position
              /\ todo'[2].slot = writeBatchStart
          BY <3>5 DEF Step, Finish
        <4>2. blocks \in Seq(Slots) /\ blocks # <<>>
          BY <2>1, OpenCount DEF CloseBlock
        <4>3. s \in Slots
          BY <3>2, <4>2
        <4>4. writeBatchStart # 0
          BY <3>5, <4>3, TurnTypes
        <4> QED BY <3>1, <4>1, <4>4
      <3> QED BY <3>3, <3>4, <3>5
    <2>2. CASE EndTurn
      <3>1. writeBatchStart # 0 => writeBatchStart = turn
        BY <1>1, <1>2 DEF OrderInv, Placement, HeldBack
      <3>2. PICK op : op = IF batchDepth > 1 THEN "load" ELSE "or"
        OBVIOUS
      <3>3. todo' = <<Step(op, position, {})>> \o
                    (IF writeBatchStart # 0 THEN <<Finish(writeBatchStart)>> ELSE <<>>)
        BY ONLY <2>2, <3>2 DEF EndTurn
      <3>4. CASE writeBatchStart = 0
        <4>1. DOMAIN todo' = {1} /\ todo'[1].slot = position
          BY <3>3, <3>4 DEF Step
        <4> QED BY <4>1
      <3>5. CASE writeBatchStart # 0
        <4>1. DOMAIN todo' = {1, 2} /\ todo'[1].slot = position /\ todo'[2].slot = writeBatchStart
          BY <3>3, <3>5 DEF Step, Finish
        <4> QED BY <3>1, <3>5, <4>1
      <3> QED BY <3>4, <3>5
    <2> QED BY <2>1, <2>2
  <1>9. StepsInTurn'
    <2>1. Current' = Current
      BY <1>1, CurrentStays
    <2>2. position \in Slots => kind'[position] \notin Listed
      BY <1>5 DEF Listed
    <2>3. position \in Slots
      <3>1. position + Len(blocks) + 1 <= NSlots + 1 /\ Len(blocks) \in Nat /\ position \in Positions
        BY <1>2, OpenCount, TurnTypes, OrderTypes DEF OrderInv, Inv, TypeInv, RoomForEnds
      <3>2. position <= NSlots
        BY <3>1, TurnTypes
      <3> QED BY <3>1, <3>2, SlotFacts
    <2> QED BY <1>1, <1>2, <1>8, <2>1, <2>2, <2>3 DEF StepsInTurn
  <1> QED BY <1>7, <1>9 DEF InTurn

LEMMA OtherEventInTurn ==
  ASSUME OrderInv, InTurn, Event, ~CloseBlock, ~EndTurn
  PROVE  InTurn'
  <1>1. UNCHANGED <<kind, group, resolutions, batchDepth, turn, promise, commitPromise>>
    BY DEF Event, CommitTimer, Completion, Progress, placing, batching, promises
  <1>2. OpenTurn' /\ PromisesInTurn'
    <2>1. turn' \in {0, turn} /\ (batchDepth' > 0 => turn' # 0)
      BY <1>1 DEF InTurn, OpenTurn
    <2> QED BY <1>1, <2>1, TurnStays
  <1>3. \A i \in DOMAIN todo' : todo'[i].op \notin Placings \cup Reporting
    <2>1. ASSUME todo' = Resolve \o <<>>
          PROVE  \A i \in DOMAIN todo' : todo'[i].op \notin Placings \cup Reporting
      <3>1. DOMAIN todo' = {1, 2} /\ todo'[1].op = "unwritten" /\ todo'[2].op = "committed"
        BY <2>1 DEF Resolve, Step
      <3> QED BY <3>1 DEF Placings, Reporting
    <2>2. ASSUME NEW w, todo' = Resolve \o <<Step("callbacks", w, {})>>
          PROVE  \A i \in DOMAIN todo' : todo'[i].op \notin Placings \cup Reporting
      <3>1. /\ DOMAIN todo' = {1, 2, 3} /\ todo'[1].op = "unwritten" /\ todo'[2].op = "committed"
            /\ todo'[3].op = "callbacks"
        BY <2>2 DEF Resolve, Step
      <3> QED BY <3>1 DEF Placings, Reporting
    <2>3. ASSUME CommitTimer
          PROVE  \A i \in DOMAIN todo' : todo'[i].op \notin Placings \cup Reporting
      BY <2>3 DEF CommitTimer
    <2>4. ASSUME NEW w \in Slots, Completion(w)
          PROVE  \A i \in DOMAIN todo' : todo'[i].op \notin Placings \cup Reporting
      <3>1. todo' = Resolve \o <<>>
        BY <2>4 DEF Completion, ObserveTxn
      <3> QED BY <2>1, <3>1
    <2>5. ASSUME NEW w \in Slots, Progress(w)
          PROVE  \A i \in DOMAIN todo' : todo'[i].op \notin Placings \cup Reporting
      <3>1. todo' = Resolve \o <<Step("callbacks", w, {})>>
        BY <2>5 DEF Progress, ObserveTxn
      <3> QED BY <2>2, <3>1
    <2> QED BY <2>3, <2>4, <2>5 DEF Event
  <1>4. StepsInTurn'
    BY <1>3 DEF StepsInTurn
  <1> QED BY <1>2, <1>4 DEF InTurn

LEMMA TurnNext ==
  ASSUME EventTurnBatching, OrderInv, InTurn, Promised, [Next]_vars
  PROVE  InTurn'
  <1>1. ASSUME UNCHANGED <<kind, group, resolutions, batchDepth, turn, promise, commitPromise, todo>>
        PROVE  InTurn'
    <2>1. Current' = Current
      BY <1>1, CurrentStays
    <2> QED BY <1>1, <2>1 DEF InTurn, OpenTurn, StepsInTurn, PromisesInTurn
  <1>2. ASSUME NEW w \in Slots, WorkerStep(w) PROVE InTurn'
    <2>1. UNCHANGED JavaScriptVars
      BY <1>2, WorkerKeepsJavaScript
    <2> QED BY <1>1, <2>1 DEF JavaScriptVars, placing, batching, promises
  <1>3. ASSUME UNCHANGED vars PROVE InTurn'
    BY <1>1, <1>3 DEF vars, placing, batching, promises
  <1>4. ASSUME Event PROVE InTurn'
    BY <1>4, EndInTurn, OtherEventInTurn
  <1> QED BY <1>2, <1>3, <1>4, CallInTurn, StepInTurn DEF Next, Quiescent

LEMMA InitInTurn ==
  ASSUME Init
  PROVE  InTurn
  <1>1. /\ \A s \in Slots : promise[s] = 0
        /\ batchDepth = 0 /\ turn = 0 /\ todo = <<>> /\ commitPromise = 0
    BY DEF Init
  <1>2. 0 \notin Slots
    BY SlotFacts
  <1> QED BY <1>1, <1>2 DEF InTurn, OpenTurn, StepsInTurn, PromisesInTurn

-----------------------------------------------------------------------------
(* The refinement of CommitLog.                                             *)

(* The status of a write in CommitLog.                                      *)
LogStatus(s) ==
  IF kind[s] \notin Listed THEN "none"
  ELSE IF Outcome(s) = "none" THEN "queued" ELSE Outcome(s)
Answered == {s \in Slots : Answer(s) # "pending"}

DecidedInLog ==
  /\ \A s \in Slots : Outcome(s) \in {"none", "committed", "failed"}
  /\ \A s \in Slots : Decided(s) <=> Outcome(s) \in {"committed", "failed"}
  /\ \A s \in Slots : LogStatus(s) \in {"committed", "failed"} <=> Decided(s)
LEMMA LogFacts == OrderInv => DecidedInLog
  <1> SUFFICES ASSUME OrderInv PROVE DecidedInLog
    OBVIOUS
  <1>1. /\ txnOf \in [Slots -> {0} \cup Slots]
        /\ outcome \in [Slots -> {"none", "committed", "failed"}]
    BY DEF OrderInv, Inv, TypeInv, TypeOK, TypeHistory
  <1>2. \A s \in Slots : Outcome(s) \in {"none", "committed", "failed"}
    BY <1>1 DEF Outcome
  <1>3. \A s \in Slots : Decided(s) <=> Outcome(s) \in {"committed", "failed"}
    BY <1>1 DEF Outcome, Decided
  <1>4. \A s \in Slots : Decided(s) => kind[s] \in Listed
    BY DEF OrderInv, Token, Logged, Decided
  <1> QED BY <1>2, <1>3, <1>4 DEF LogStatus, DecidedInLog

(* A promise is not answered before its transaction is over.                *)
LEMMA AnsweredIsDecided ==
  ASSUME OrderInv, Chain, SettledInOrder, PromisesInTurn, NEW s \in Slots, Answer(s) # "pending"
  PROVE  Decided(s)
  <1>1. PICK p \in Slots : p = promise[s] /\ settled[p] # "pending"
    BY DEF Answer
  <1>2. kind[s] \in Listed /\ kind[p] \in Listed /\ group[p] = group[s]
    BY <1>1 DEF PromisesInTurn
  <1>3. PICK c \in {0} \cup isTxn : SettledUpTo(c)
    BY DEF SettledInOrder
  <1>4. p < c /\ p \in Nat /\ s \in Nat /\ c \in Nat /\ c # 0 /\ c \in Positions
    BY <1>1, <1>3, ChainTypes, SlotFacts DEF SettledUpTo
  <1>5. Over(c) /\ Nest(c) = 0
    BY <1>3, <1>4 DEF SettledUpTo, Chain
  <1>6. /\ group[p] <= p /\ group[p] \in Nat
        /\ \A q \in Positions : group[s] < q /\ q <= s => Nest(q) > 0
    BY <1>2, SlotFacts DEF OrderInv, Placement, Nested
  <1>7. ~(c <= s)
    BY <1>2, <1>4, <1>5, <1>6
  <1> QED BY <1>2, <1>4, <1>5, <1>7 DEF Over

(* The mapping of the end of WriteQueue.                                    *)
LogStatuses == [s \in Slots |-> LogStatus(s)]
LEMMA LogMapping ==
  /\ [s \in Slots |-> IF kind[s] \notin {"write", "callback", "start"} THEN "none"
                      ELSE IF Outcome(s) = "none" THEN "queued" ELSE Outcome(s)] = LogStatuses
  /\ {s \in Slots : Answer(s) # "pending"} = Answered
  BY DEF LogStatuses, LogStatus, Listed, Answered

LEMMA LogMappingNext ==
  /\ ([s \in Slots |-> IF kind[s] \notin {"write", "callback", "start"} THEN "none"
         ELSE IF Outcome(s) = "none" THEN "queued" ELSE Outcome(s)])' = LogStatuses'
  /\ {s \in Slots : Answer(s) # "pending"}' = Answered'
  <1>1. (/\ [s \in Slots |-> IF kind[s] \notin {"write", "callback", "start"} THEN "none"
               ELSE IF Outcome(s) = "none" THEN "queued" ELSE Outcome(s)] = LogStatuses
         /\ {s \in Slots : Answer(s) # "pending"} = Answered)'
    BY LogMapping, PTL
  <1> QED BY <1>1

(* The steps of CommitLog, said of the slots.                               *)
LEMMA LogDecide ==
  ASSUME NEW g \in Slots, NEW result, UNCHANGED group, Answered' = Answered,
         \A s \in Slots : LogStatus(s)' =
           IF LogStatus(s) = "queued" /\ group[s] <= g THEN result ELSE LogStatus(s),
         NEW w \in {s \in Slots : LogStatus(s) = "queued" /\ group[s] <= g}
  PROVE  Log!Decide(g, result)
  <1>1. {o \in {s \in Slots : LogStatuses[s] = "queued"} : group[o] <= g}
          = {s \in Slots : LogStatus(s) = "queued" /\ group[s] <= g}
    BY DEF LogStatuses
  <1>2. LogStatuses' = [o \in Slots |->
          IF o \in {r \in {s \in Slots : LogStatuses[s] = "queued"} : group[r] <= g}
          THEN result ELSE LogStatuses[o]]
    BY DEF LogStatuses
  <1> QED BY <1>1, <1>2, LogMapping, LogMappingNext DEF Log!Decide, Log!Queued

LEMMA LogSubmit ==
  ASSUME NEW f \in Slots, NEW o \in Slots, NEW g \in Slots, g <= f, f <= o,
         \A p \in Slots : LogStatus(p) # "none" => p < f /\ group[p] <= g,
         \A p \in Slots : LogStatus(p) \in {"committed", "failed"} => group[p] < g,
         group \in [Slots -> {0} \cup Slots], group' \in [Slots -> {0} \cup Slots],
         \A s \in Slots : group'[s] = IF s = f \/ s = o THEN g ELSE group[s],
         \A s \in Slots : LogStatus(s)' = IF s = f \/ s = o THEN "queued" ELSE LogStatus(s),
         Answered' = Answered
  PROVE  Log!Submit(f, o, g)
  <1>1. group' = [group EXCEPT ![f] = g, ![o] = g]
    OBVIOUS
  <1>2. LogStatuses' = [LogStatuses EXCEPT ![f] = "queued", ![o] = "queued"]
    BY DEF LogStatuses
  <1>3. \A p \in Slots : LogStatuses[p] = LogStatus(p)
    BY DEF LogStatuses
  <1> QED BY <1>1, <1>2, <1>3, LogMapping, LogMappingNext DEF Log!Submit, Log!Submitted, Log!Decided

LEMMA AnsweredAreDecided ==
  OrderInv /\ SettleInv /\ InTurn => Answered \subseteq {s \in Slots : Decided(s)}
  BY AnsweredIsDecided DEF SettleInv, InTurn, Answered

(* Steps that decide nothing and place nothing.                             *)
LEMMA AnswerStep ==
  ASSUME OrderInv, OrderInv', SettleInv, SettleInv', InTurn', [Next]_vars,
         UNCHANGED group, \A s \in Slots : LogStatus(s)' = LogStatus(s),
         \A s \in Slots : promise[s] \in Slots => promise'[s] = promise[s]
  PROVE  Log!Answer
  <1>1. (OrderInv /\ SettleInv /\ InTurn => Answered \subseteq {s \in Slots : Decided(s)})'
    BY AnsweredAreDecided, PTL
  <1>2. (OrderInv => DecidedInLog)'
    BY LogFacts, PTL
  <1>3. Answered' \subseteq {s \in Slots : LogStatus(s) \in {"committed", "failed"}}
    BY <1>1, <1>2 DEF DecidedInLog
  <1>4. Answered \subseteq Answered'
    BY SettledForGood DEF Answered, Answer
  <1>5. LogStatuses' = LogStatuses
    BY DEF LogStatuses
  <1>6. {s \in Slots : LogStatuses[s] \in {"committed", "failed"}}
          = {s \in Slots : LogStatus(s) \in {"committed", "failed"}}
    BY DEF LogStatuses
  <1> QED BY <1>3, <1>4, <1>5, <1>6, LogMapping, LogMappingNext DEF Log!Answer, Log!Decided

(* A worker's commit decides the groups before the end of its transaction.  *)
LEMMA CommitDecides ==
  ASSUME OrderInv, SettleInv, NEW w \in Slots, Commit(w)
  PROVE  \E g \in Slots, result \in {"committed", "failed"} : Log!Decide(g, result)
  <1>1. PICK n \in Positions : n = worker[w].at
    BY OrderTypes DEF OrderInv
  <1>2. PICK result \in {"committed", "failed"} :
          /\ worker[w].pc = "commit"
          /\ outcome' = [outcome EXCEPT ![w] = result]
          /\ UNCHANGED <<txnOf, kind, group, promise, settled>>
    BY DEF Commit, JavaScriptVars, placing, promises
  <1>3. /\ Slots \subseteq Nat /\ 0 \notin Slots /\ n \in Nat /\ w \in Nat /\ w # 0
        /\ txnOf \in [Slots -> {0} \cup Slots]
        /\ outcome \in [Slots -> {"none", "committed", "failed"}]
    BY OrderTypes, SlotFacts DEF OrderInv, Inv, TypeInv, TypeOK, TypeHistory
  <1>4. /\ EndedAt(w, n) /\ outcome[w] = "none"
        /\ \A s \in Slots : txnOf[s] # 0 => Active(txnOf[s]) \/ Decided(s)
        /\ \A v \in Slots : Active(v) => v = w
    <2>1. Ended(w) /\ Active(w)
      BY <1>2 DEF Ended, Active
    <2>2. Launches /\ EndsOutside
      BY DEF SettleInv
    <2> QED BY <1>1, <1>2, <2>1, <2>2 DEF Launches, EndsOutside
  <1>5. PICK g \in Slots : g = n - 1 /\ g \in Nat
    <2>1. w < n
      BY <1>4 DEF EndedAt
    <2>2. n - 1 \in Slots
      BY <1>3, <2>1 DEF Positions, Slots
    <2> QED BY <1>3, <2>2
  <1>6. \A s \in Slots : kind[s] \in Listed =>
          /\ group[s] \in Nat /\ group[s] <= s
          /\ \A q \in Positions : group[s] < q /\ q <= s => Nest(q) > 0
    BY <1>3 DEF OrderInv, Placement, Nested
  <1>7. \A s \in Slots : Outcome(s)' = IF txnOf[s] = w THEN result ELSE Outcome(s)
    BY <1>2, <1>3 DEF Outcome
  <1>8. DecidedInLog
    BY LogFacts
  (* The transaction of w is what waits in the groups up to g.              *)
  <1>9. ASSUME NEW s \in Slots, kind[s] \in Listed
        PROVE  txnOf[s] = w <=> LogStatus(s) = "queued" /\ group[s] <= g
    <2>1. ASSUME txnOf[s] = w PROVE LogStatus(s) = "queued" /\ group[s] <= g
      <3>1. Outcome(s) = "none"
        BY <1>3, <1>4, <2>1 DEF Outcome
      <3>2. s < n
        BY <1>4, <2>1 DEF EndedAt
      <3>3. group[s] <= s /\ group[s] \in Nat /\ s \in Nat
        BY <1>3, <1>6, <1>9
      <3>4. group[s] <= g
        BY <1>3, <1>5, <3>2, <3>3
      <3> QED BY <1>9, <3>1, <3>4 DEF LogStatus
    <2>2. ASSUME LogStatus(s) = "queued", group[s] <= g PROVE txnOf[s] = w
      <3>1. group[s] \in Nat /\ s \in Nat /\ group[s] < n
        BY <1>3, <1>5, <1>6, <1>9, <2>2
      <3>2. Nest(n) = 0
        BY <1>4 DEF EndedAt
      <3>3. ~(n <= s)
        BY <1>6, <1>9, <3>1, <3>2
      <3>4. txnOf[s] # 0
        BY <1>3, <1>4, <1>9, <3>1, <3>3 DEF EndedAt
      <3>5. ~Decided(s)
        BY <1>8, <2>2 DEF DecidedInLog
      <3> QED BY <1>3, <1>4, <3>4, <3>5
    <2> QED BY <2>1, <2>2
  <1>10. \A s \in Slots : LogStatus(s)' =
           IF LogStatus(s) = "queued" /\ group[s] <= g THEN result ELSE LogStatus(s)
    <2> SUFFICES ASSUME NEW s \in Slots
                 PROVE  LogStatus(s)' = IF LogStatus(s) = "queued" /\ group[s] <= g
                                        THEN result ELSE LogStatus(s)
      OBVIOUS
    <2>1. CASE kind[s] \notin Listed
      BY <1>2, <2>1 DEF LogStatus
    <2>2. CASE kind[s] \in Listed
      <3>1. LogStatus(s)' = IF Outcome(s)' = "none" THEN "queued" ELSE Outcome(s)'
        BY <1>2, <2>2 DEF LogStatus
      <3>2. LogStatus(s) = IF Outcome(s) = "none" THEN "queued" ELSE Outcome(s)
        BY <2>2 DEF LogStatus
      <3>3. txnOf[s] = w <=> LogStatus(s) = "queued" /\ group[s] <= g
        BY <1>9, <2>2
      <3>4. Outcome(s)' = IF txnOf[s] = w THEN result ELSE Outcome(s)
        BY <1>7
      <3> QED BY <3>1, <3>2, <3>3, <3>4
    <2> QED BY <2>1, <2>2
  <1>11. w \in {s \in Slots : LogStatus(s) = "queued" /\ group[s] <= g}
    <2>1. txnOf[w] = w
      BY <1>4 DEF EndedAt
    <2>2. kind[w] \in Listed
      BY <1>3, <2>1 DEF OrderInv, Token, Logged
    <2> QED BY <1>9, <2>1, <2>2
  <1>12. Answered' = Answered
    BY <1>2 DEF Answered, Answer
  <1> QED BY <1>2, <1>5, <1>10, <1>11, <1>12, LogDecide

(* A call submits its instruction, and the start of the turn if it opens    *)
(* one.                                                                     *)
LEMMA PlacesSubmits ==
  ASSUME OrderInv, OrderInv', SettleInv, InTurn, NEW k \in Listed, NEW s, NEW opens, NEW pointers,
         Places(k, s, opens, pointers), opens <=> turn = 0 /\ batchDepth = 0,
         UNCHANGED <<txnOf, outcome, promise, settled>>
  PROVE  \E f, o, g \in Slots : Log!Submit(f, o, g)
  <1>1. /\ s \in Slots /\ opens \in BOOLEAN /\ position <= s /\ position \in Nat
        /\ opens => position \in Slots /\ position < s /\ turn = 0 /\ batchDepth = 0
        /\ ~opens => s = position
        /\ kind'[s] \in Listed /\ (opens => kind'[position] = "start")
        /\ \A q \in Slots : q < position => kind'[q] = kind[q] /\ group'[q] = group[q]
        /\ \A q \in Slots : position <= q /\ q # s /\ ~(opens /\ q = position) =>
              kind'[q] \notin Listed \cup {"end"}
    BY PlacesBefore DEF OrderInv, Placement
  <1>2. OpenTurn /\ FreshSlots /\ Nested /\ OpenBlocks /\ Launches /\ EndsOutside /\ Logged
    BY DEF InTurn, OrderInv, Placement, Token, SettleInv
  <1>3. /\ Slots \subseteq Nat /\ 0 \notin Slots /\ turn \in {0} \cup Slots /\ batchDepth \in Nat
        /\ group \in [Slots -> {0} \cup Slots]
    BY TurnTypes
  <1>4. group' \in [Slots -> {0} \cup Slots]
    BY DEF OrderInv, Inv, TypeInv, TypeOK, TypePlacing
  <1>5. PICK f \in Slots : f = IF opens THEN position ELSE s
    BY <1>1
  <1>6. PICK g \in Slots : g = IF opens THEN position ELSE turn
    BY <1>1, <1>2, <1>3 DEF OpenTurn
  <1>7. ~opens => /\ g = turn /\ turn # 0 /\ Outermost = g /\ g < position /\ batchDepth > 0
    <2>1. ASSUME ~opens PROVE g = turn /\ turn # 0
      BY <1>3, <1>6, <2>1
    <2>2. ASSUME ~opens PROVE batchDepth > 0
      BY <1>3, <2>1, <2>2, OpenCount
    <2> QED BY <1>2, <2>1, <2>2 DEF Outermost, OpenBlocks
  <1>8. g <= f /\ f <= s
    BY <1>1, <1>3, <1>5, <1>6, <1>7
  <1>9. \A q \in Slots : kind[q] \in Listed => q < position
    BY <1>1, <1>2, <1>3 DEF FreshSlots, Listed
  <1>10. ASSUME NEW p \in Slots, kind[p] \in Listed
         PROVE  p < f /\ group[p] <= g /\ group[p] \in Nat /\ p < position
                /\ group[p] <= p /\ p \in Nat
    <2>1. group[p] <= p /\ group[p] \in Nat /\ p < position /\ p \in Nat
      BY <1>2, <1>3, <1>9, <1>10 DEF Nested
    <2>2. opens => group[p] <= g
      BY <1>1, <1>6, <2>1
    <2>3. ~opens => group[p] <= g
      BY <1>2, <1>7, <1>10 DEF OpenTurn
    <2>4. p < f
      BY <1>1, <1>3, <1>5, <2>1
    <2> QED BY <2>1, <2>2, <2>3, <2>4
  (* A transaction that was decided ended outside of the open turn.         *)
  <1>11. ASSUME NEW p \in Slots, kind[p] \in Listed, Decided(p)
         PROVE  group[p] < g
    <2>1. p < position /\ group[p] <= g /\ group[p] <= p /\ group[p] \in Nat /\ g \in Nat
          /\ p \in Nat
      BY <1>3, <1>10, <1>11
    <2>2. CASE opens
      BY <1>1, <1>6, <2>1, <2>2
    <2>3. CASE ~opens
      <3>1. PICK w \in Slots : w = txnOf[p] /\ outcome[w] # "none"
        BY <1>11, OrderTypes DEF Decided, OrderInv
      <3>2. Ended(w)
        BY <1>2, <3>1 DEF Launches, Ended
      <3>3. PICK n \in Positions : n = worker[w].at
        BY OrderTypes DEF OrderInv
      <3>4. EndedAt(w, n)
        BY <1>2, <3>2, <3>3 DEF EndsOutside
      <3>5. n \in Nat /\ p < n /\ n <= position /\ Nest(n) = 0
        BY <3>1, <3>4, OrderTypes DEF EndedAt, OrderInv
      <3>6. ~(g < n)
        BY <1>2, <1>7, <2>3, <3>5 DEF OpenBlocks
      <3> QED BY <2>1, <3>5, <3>6
    <2> QED BY <2>2, <2>3
  <1>12. \A q \in Slots : group'[q] = IF q = f \/ q = s THEN g ELSE group[q]
    BY <1>1, <1>5, <1>6, <1>7 DEF Places
  <1>13. \A q \in Slots : LogStatus(q)' = IF q = f \/ q = s THEN "queued" ELSE LogStatus(q)
    <2> SUFFICES ASSUME NEW q \in Slots
                 PROVE  LogStatus(q)' = IF q = f \/ q = s THEN "queued" ELSE LogStatus(q)
      OBVIOUS
    <2>1. Outcome(q)' = Outcome(q)
      BY DEF Outcome
    <2>2. CASE q < position
      <3>1. kind'[q] = kind[q] /\ q # f /\ q # s
        BY <1>1, <1>3, <1>5, <2>2
      <3> QED BY <2>1, <3>1 DEF LogStatus
    <2>3. CASE ~(q < position)
      <3>1. kind[q] \notin Listed
        BY <1>9, <2>3
      <3>2. CASE q = f \/ q = s
        <4>1. kind'[q] \in Listed
          BY <1>1, <1>5, <3>2 DEF Listed
        <4>2. txnOf[q] = 0
          BY <1>2, <3>1 DEF Logged
        <4>3. Outcome(q) = "none"
          BY <4>2 DEF Outcome
        <4> QED BY <2>1, <3>2, <4>1, <4>3 DEF LogStatus
      <3>3. CASE ~(q = f \/ q = s)
        <4>1. kind'[q] \notin Listed
          BY <1>1, <1>3, <1>5, <2>3, <3>3
        <4> QED BY <3>1, <3>3, <4>1 DEF LogStatus
      <3> QED BY <3>2, <3>3
    <2> QED BY <2>2, <2>3
  <1>14. Answered' = Answered
    BY DEF Answered, Answer
  <1>15. DecidedInLog
    BY LogFacts
  <1>16. \A p \in Slots : LogStatus(p) # "none" => p < f /\ group[p] <= g
    BY <1>10 DEF LogStatus
  <1>17. \A p \in Slots : LogStatus(p) \in {"committed", "failed"} => group[p] < g
    <2>1. \A p \in Slots : LogStatus(p) \in {"committed", "failed"} => kind[p] \in Listed
      BY DEF LogStatus
    <2> QED BY <1>11, <1>15, <2>1 DEF DecidedInLog
  <1> QED BY <1>1, <1>3, <1>4, <1>5, <1>6, <1>8, <1>12, <1>13, <1>14, <1>16, <1>17, LogSubmit

LEMMA CallSubmits ==
  ASSUME EventTurnBatching, OrderInv, OrderInv', SettleInv, InTurn, Call
  PROVE  \E f, o, g \in Slots : Log!Submit(f, o, g)
  <1>1. PICK k, s, opens, pointers :
          /\ k \in Listed
          /\ Places(k, s, opens, pointers)
          /\ opens <=> EventTurnBatching /\ turn = 0 /\ batchDepth = 0
          /\ UNCHANGED <<txnOf, outcome, promise, settled>>
    <2>1. {"write", "callback", "start"} \subseteq Listed
      BY DEF Listed
    <2> QED BY <2>1, WritePlaces, OpenBlockPlaces DEF Call
  <1> QED BY <1>1, PlacesSubmits

(* The steps that decide nothing and place nothing with a result.           *)
LEMMA NothingDecided ==
  ASSUME OrderInv, UNCHANGED <<txnOf, outcome>>,
         \A s \in Slots : kind'[s] \in Listed <=> kind[s] \in Listed
  PROVE  \A s \in Slots : LogStatus(s)' = LogStatus(s)
  <1> SUFFICES ASSUME NEW s \in Slots PROVE LogStatus(s)' = LogStatus(s)
    OBVIOUS
  <1>1. Outcome(s)' = Outcome(s)
    BY DEF Outcome
  <1> QED BY <1>1 DEF LogStatus

LEMMA ExecuteDecidesNothing ==
  ASSUME OrderInv, SettleInv, NEW w \in Slots, Execute(w)
  PROVE  \A s \in Slots : LogStatus(s)' = LogStatus(s)
  <1>1. PICK n \in Positions : n = worker[w].at
    BY OrderTypes DEF OrderInv
  <1>2. /\ UNCHANGED <<kind, outcome>> /\ txnOf' = [txnOf EXCEPT ![n] = w]
        /\ Instruction(w) \in {"write", "callback", "start"} /\ Fetching(w)
    BY <1>1 DEF Execute, JavaScriptVars, placing
  <1>3. n \in Slots /\ Frontier(n) /\ kind[n] \in Listed
    BY <1>1, <1>2, Found DEF Listed
  <1>4. txnOf[n] = 0 /\ outcome[w] = "none" /\ 0 \notin Slots
    <2>1. txnOf[n] = 0
      BY <1>3, TurnTypes DEF Frontier
    <2>2. Launches
      BY DEF SettleInv
    <2> QED BY <1>2, <2>1, <2>2, TurnTypes DEF Launches, Fetching
  <1>5. \A s \in Slots : txnOf'[s] = IF s = n THEN w ELSE txnOf[s]
    BY <1>2, OrderTypes DEF OrderInv
  <1>6. \A s \in Slots : Outcome(s)' = Outcome(s)
    BY <1>2, <1>4, <1>5 DEF Outcome
  <1> QED BY <1>2, <1>6 DEF LogStatus

LEMMA OtherStepsDecideNothing ==
  ASSUME OrderInv, SettleInv, [Next]_vars, ~Call, \A w \in Slots : ~Commit(w)
  PROVE  UNCHANGED group /\ \A s \in Slots : LogStatus(s)' = LogStatus(s)
  <1>1. ASSUME JavaScriptStep
        PROVE  UNCHANGED group /\ \A s \in Slots : LogStatus(s)' = LogStatus(s)
    <2>1. UNCHANGED <<kind, group>>
      BY <1>1, StepsPlaceNothing
    <2>2. UNCHANGED <<txnOf, outcome>>
      <3>1. ASSUME Seen PROVE UNCHANGED <<txnOf, outcome>>
        BY ONLY <3>1 DEF Seen, history
      <3> QED BY <1>1, <3>1, StepsKeep
    <2> QED BY <2>1, <2>2, NothingDecided
  <1>2. ASSUME CloseBlock \/ EndTurn
        PROVE  UNCHANGED group /\ \A s \in Slots : LogStatus(s)' = LogStatus(s)
    <2>1. EndBlock /\ UNCHANGED <<group, txnOf, outcome>>
      BY <1>2 DEF CloseBlock, EndTurn, writing, history
    <2>2. /\ position \in Nat /\ kind' = [kind EXCEPT ![position] = "end"]
          /\ \A s \in Slots : position <= s => kind[s] = "none"
      BY <2>1, TurnTypes DEF EndBlock, OrderInv, Placement, FreshSlots
    <2>3. \A s \in Slots : kind'[s] = IF s = position THEN "end" ELSE kind[s]
      BY <2>2, TurnTypes
    <2>4. \A s \in Slots : kind'[s] \in Listed <=> kind[s] \in Listed
      BY <2>2, <2>3 DEF Listed
    <2> QED BY <2>1, <2>4, NothingDecided
  <1>3. ASSUME Event, ~CloseBlock, ~EndTurn
        PROVE  UNCHANGED group /\ \A s \in Slots : LogStatus(s)' = LogStatus(s)
    <2>1. UNCHANGED <<kind, group, txnOf, outcome>>
      BY <1>3 DEF Event, CommitTimer, Completion, Progress, placing, history
    <2> QED BY <2>1, NothingDecided
  <1>4. ASSUME NEW w \in Slots, WorkerStep(w), ~Commit(w)
        PROVE  UNCHANGED group /\ \A s \in Slots : LogStatus(s)' = LogStatus(s)
    <2>1. UNCHANGED <<kind, group>>
      BY <1>4, WorkerKeepsJavaScript DEF JavaScriptVars, placing
    <2>2. CASE Execute(w)
      BY <2>1, <2>2, ExecuteDecidesNothing
    <2>3. CASE ~Execute(w)
      <3>1. UNCHANGED <<txnOf, outcome>>
        BY <1>4, <2>3 DEF WorkerStep, Begin, FollowPointer, LeaveBlock, Mark, FetchEmpty, Refetch,
                          StartWait, Wake, Delimit, Publish, history
      <3> QED BY <2>1, <3>1, NothingDecided
    <2> QED BY <2>2, <2>3
  <1>5. ASSUME UNCHANGED vars
        PROVE  UNCHANGED group /\ \A s \in Slots : LogStatus(s)' = LogStatus(s)
    <2>1. UNCHANGED <<kind, group, txnOf, outcome>>
      BY <1>5 DEF vars, placing, writing, history
    <2> QED BY <2>1, NothingDecided
  <1> QED BY <1>1, <1>2, <1>3, <1>4, <1>5 DEF Next, Quiescent

(* A promise that was returned is not replaced.                             *)
LEMMA PromisesStay ==
  ASSUME OrderInv, SettleInv, [Next]_vars
  PROVE  \A s \in Slots : promise[s] \in Slots => promise'[s] = promise[s]
  <1>1. CASE ReturnPromise
    <2>1. todo # <<>> /\ Head(todo).op = "promise"
      BY <1>1 DEF ReturnPromise, Doing
    <2>2. PICK s \in Slots : s = Head(todo).slot
      BY <2>1, HeadStep
    <2>3. \E p : promise' = [promise EXCEPT ![s] = p]
      BY ONLY <1>1, <2>2 DEF ReturnPromise
    <2>4. promise[s] = 0
      <3>1. 1 \in DOMAIN todo /\ todo[1].op = "promise" /\ todo[1].slot = s
        BY <2>1, <2>2, HeadStep
      <3> QED BY <3>1 DEF SettleInv, Promised, Reporting
    <2> QED BY <2>3, <2>4, TurnTypes
  <1>2. CASE ~ReturnPromise
    <2>1. promise' = promise
      <3>1. ASSUME NEW w \in Slots, WorkerStep(w) PROVE promise' = promise
        BY <3>1, WorkerKeepsJavaScript DEF JavaScriptVars, promises
      <3>2. ASSUME Event PROVE promise' = promise
        BY <3>2 DEF Event, CloseBlock, EndTurn, CommitTimer, Completion, Progress, promises
      <3>3. ASSUME Call PROVE promise' = promise
        BY <3>3, WritePlaces, OpenBlockPlaces DEF Call
      <3>4. ASSUME UNCHANGED vars PROVE promise' = promise
        BY <3>4 DEF vars, promises
      <3> QED BY <1>2, <3>1, <3>2, <3>3, <3>4, OtherPromises DEF Next, Quiescent
    <2> QED BY <2>1
  <1> QED BY <1>1, <1>2

LEMMA StepImplementsLog ==
  ASSUME EventTurnBatching, OrderInv, OrderInv', SettleInv, SettleInv', InTurn, InTurn',
         [Next]_vars
  PROVE  Log!Next
  <1>1. CASE Call
    BY <1>1, CallSubmits DEF Log!Next
  <1>2. ASSUME NEW w \in Slots, Commit(w) PROVE Log!Next
    BY <1>2, CommitDecides DEF Log!Next
  <1>3. CASE ~Call /\ \A w \in Slots : ~Commit(w)
    <2>1. UNCHANGED group /\ \A s \in Slots : LogStatus(s)' = LogStatus(s)
      BY <1>3, OtherStepsDecideNothing
    <2>2. Log!Answer
      BY <2>1, PromisesStay, AnswerStep
    <2> QED BY <2>2 DEF Log!Next
  <1> QED BY <1>1, <1>2, <1>3

LEMMA InitImplementsLog == Init => Log!Init
  <1> SUFFICES ASSUME Init PROVE Log!Init
    OBVIOUS
  <1>1. /\ group = [s \in Slots |-> 0]
        /\ \A s \in Slots : kind[s] = "none" /\ promise[s] = 0
    BY DEF Init
  <1>2. Answered = {}
    BY <1>1, SlotFacts DEF Answered, Answer
  <1>3. LogStatuses = [s \in Slots |-> "none"]
    BY <1>1 DEF LogStatuses, LogStatus, Listed
  <1> QED BY <1>1, <1>2, <1>3, LogMapping DEF Log!Init

-----------------------------------------------------------------------------
(* What the rest of a call still has to do.                                 *)

StepIn(q, ops, s) == \E i \in DOMAIN q : q[i].slot = s /\ q[i].op \in ops

LEMMA StepInBoth ==
  ASSUME NEW a \in Seq(JSSteps), NEW b \in Seq(JSSteps), NEW ops, NEW s
  PROVE  StepIn(a \o b, ops, s) <=> StepIn(a, ops, s) \/ StepIn(b, ops, s)
  <1> PICK c : c = a \o b
    OBVIOUS
  <1>1. /\ Len(a) \in Nat /\ Len(b) \in Nat /\ DOMAIN a = 1..Len(a) /\ DOMAIN b = 1..Len(b)
        /\ DOMAIN c = 1..Len(a) + Len(b)
        /\ \A i \in DOMAIN c : c[i] = IF i <= Len(a) THEN a[i] ELSE b[i - Len(a)]
    OBVIOUS
  <1>2. \A i \in DOMAIN a : i \in DOMAIN c /\ c[i] = a[i]
    BY <1>1
  <1>3. \A i \in DOMAIN b : i + Len(a) \in DOMAIN c /\ c[i + Len(a)] = b[i]
    BY <1>1
  <1>4. \A i \in DOMAIN c : \/ i \in DOMAIN a /\ c[i] = a[i]
                            \/ i - Len(a) \in DOMAIN b /\ c[i] = b[i - Len(a)]
    BY <1>1
  <1>5. ASSUME StepIn(c, ops, s) PROVE StepIn(a, ops, s) \/ StepIn(b, ops, s)
    <2>1. PICK i \in DOMAIN c : c[i].slot = s /\ c[i].op \in ops
      BY ONLY <1>5 DEF StepIn
    <2> QED BY ONLY <1>4, <2>1 DEF StepIn
  <1>6. StepIn(a, ops, s) => StepIn(c, ops, s)
    BY ONLY <1>2 DEF StepIn
  <1>7. ASSUME StepIn(b, ops, s) PROVE StepIn(c, ops, s)
    <2>1. PICK i \in DOMAIN b : b[i].slot = s /\ b[i].op \in ops
      BY ONLY <1>7 DEF StepIn
    <2> QED BY ONLY <1>3, <2>1 DEF StepIn
  <1>8. StepIn(c, ops, s) <=> StepIn(a, ops, s) \/ StepIn(b, ops, s)
    BY ONLY <1>5, <1>6, <1>7
  <1> QED BY <1>8

LEMMA StepInOne ==
  ASSUME NEW x, NEW ops, NEW s
  PROVE  /\ StepIn(<<x>>, ops, s) <=> x.slot = s /\ x.op \in ops
         /\ ~StepIn(<<>>, ops, s)
  BY DEF StepIn

LEMMA StepInResolve ==
  ASSUME NEW ops, NEW s, "unwritten" \notin ops, "committed" \notin ops
  PROVE  ~StepIn(Resolve, ops, s)
  BY DEF StepIn, Resolve, Step

LEMMA StepInTodo ==
  ASSUME todo \in Seq(JSSteps), todo # <<>>, NEW ops, NEW s
  PROVE  StepIn(todo, ops, s) <=> (Head(todo).slot = s /\ Head(todo).op \in ops)
                                  \/ StepIn(Tail(todo), ops, s)
  <1>1. PICK x \in JSSteps, t \in Seq(JSSteps), q \in Seq(JSSteps) :
          x = Head(todo) /\ t = Tail(todo) /\ q = <<x>> /\ todo = q \o t
    <2>1. PICK x \in JSSteps, t \in Seq(JSSteps) : x = Head(todo) /\ t = Tail(todo)
      <3>1. Head(todo) \in JSSteps /\ Tail(todo) \in Seq(JSSteps)
        OBVIOUS
      <3> QED BY <3>1
    <2>2. <<x>> \in Seq(JSSteps)
      OBVIOUS
    <2>3. todo = <<x>> \o t
      BY <2>1
    <2> QED BY <2>1, <2>2, <2>3, Zenon
  <1>2. StepIn(q \o t, ops, s) <=> StepIn(q, ops, s) \/ StepIn(t, ops, s)
    BY ONLY <1>1, q \in Seq(JSSteps), t \in Seq(JSSteps), StepInBoth, Zenon
  <1>3. StepIn(q, ops, s) <=> x.slot = s /\ x.op \in ops
    BY <1>1, StepInOne
  <1> QED BY <1>1, <1>2, <1>3

(* What a step puts in its own place decides what is left to do.            *)
LEMMA StepInNext ==
  ASSUME OrderInv, todo # <<>>, NEW a \in Seq(JSSteps), todo' = a \o Tail(todo), NEW ops, NEW s
  PROVE  /\ StepIn(todo, ops, s) <=> (Head(todo).slot = s /\ Head(todo).op \in ops)
                                     \/ StepIn(Tail(todo), ops, s)
         /\ StepIn(todo', ops, s) <=> StepIn(a, ops, s) \/ StepIn(Tail(todo), ops, s)
  <1>1. todo \in Seq(JSSteps) /\ Tail(todo) \in Seq(JSSteps)
    BY OrderTypes DEF OrderInv
  <1> QED BY <1>1, StepInTodo, StepInBoth

-----------------------------------------------------------------------------
(* What outstandingWriteCount counts.                                       *)

SeenIn(q, s) == StepIn(q, {"seen"}, s)
Taken(s) == Written(s) /\ ~SeenIn(todo, s)
Taking == {i \in DOMAIN resolutions : Taken(resolutions[i])}

LEMMA OutstandingIs ==
  OutstandingIsExact <=> outstandingWriteCount = Cardinality(Taking) - (unwritten - 1)
  <1>1. Taking = {i \in DOMAIN resolutions :
                    /\ word[resolutions[i]] \cap {"INSTR"} # {}
                    /\ ~\E j \in DOMAIN todo : /\ todo[j].slot = resolutions[i]
                                               /\ todo[j].op = "seen"}
    BY DEF Taking, Taken, Written, SeenIn, StepIn
  <1> QED BY <1>1 DEF OutstandingIsExact

LEMMA SeenInBoth ==
  ASSUME NEW a \in Seq(JSSteps), NEW b \in Seq(JSSteps), NEW s
  PROVE  SeenIn(a \o b, s) <=> SeenIn(a, s) \/ SeenIn(b, s)
  BY StepInBoth DEF SeenIn

LEMMA SeenInOne ==
  ASSUME NEW x, NEW s
  PROVE  /\ SeenIn(<<x>>, s) <=> x.slot = s /\ x.op = "seen"
         /\ ~SeenIn(<<>>, s)
  BY DEF SeenIn, StepIn

LEMMA SeenInResolve ==
  ASSUME NEW s
  PROVE  ~SeenIn(Resolve, s)
  BY StepInResolve DEF SeenIn

LEMMA SeenInNext ==
  ASSUME OrderInv, todo # <<>>, NEW a \in Seq(JSSteps), todo' = a \o Tail(todo), NEW s
  PROVE  /\ SeenIn(todo, s) <=> (Head(todo).slot = s /\ Head(todo).op = "seen")
                                \/ SeenIn(Tail(todo), s)
         /\ SeenIn(todo', s) <=> SeenIn(a, s) \/ SeenIn(Tail(todo), s)
  BY StepInNext DEF SeenIn

LEMMA SameTaking ==
  ASSUME resolutions' = resolutions,
         \A i \in DOMAIN resolutions : Taken(resolutions[i])' <=> Taken(resolutions[i])
  PROVE  Taking' = Taking
  BY DEF Taking

(* The instruction that is written is the one that will be reported.        *)
LEMMA WritingTakesNothing ==
  ASSUME OrderInv, Store \/ Or
  PROVE  Taking' = Taking
  <1>1. PICK s \in Slots, st \in SUBSET Bits :
          /\ todo # <<>> /\ s = Head(todo).slot /\ Head(todo).op \in Placings
          /\ \A q \in Positions : q # s => word'[q] = word[q]
          /\ \E early \in Seq(JSSteps) :
               /\ todo' = early \o AfterStore(s, st) \o Tail(todo)
               /\ \A q : ~SeenIn(early, q)
    <2>1. CASE Store
      <3> DEFINE counts == kind[Head(todo).slot] # "end" /\ writeBatchStart # 0
                           /\ Head(todo).status = {}
                 release == counts /\ outstandingBatchCount + 1 > BatchStartThreshold
                 early == IF release THEN <<Finish(writeBatchStart)>> ELSE <<>>
      <3>1. /\ todo # <<>> /\ Head(todo).op = "store"
            /\ todo' = early \o AfterStore(Head(todo).slot, Head(todo).status) \o Tail(todo)
            /\ word' = [word EXCEPT ![Head(todo).slot] = {"INSTR"}]
        BY <2>1 DEF Store, Doing
      <3>2. /\ Head(todo).slot \in Slots /\ Head(todo).status \in SUBSET Bits
            /\ Head(todo).op \in Placings
        BY <3>1, HeadStep DEF Placings
      <3>3. /\ word \in [Positions -> SUBSET Bits] /\ writeBatchStart \in {0} \cup Slots
        BY OrderTypes DEF OrderInv, Inv, TypeInv, TypeOK, TypeBatching
      <3>4. early \in Seq(JSSteps) /\ \A q : ~SeenIn(early, q)
        <4>1. CASE release
          <5>1. PICK x \in JSSteps : x = Finish(writeBatchStart)
            BY <3>3, <4>1, StepTypes
          <5>2. x.op # "seen"
            BY <5>1 DEF Finish, Step
          <5>3. early = <<x>>
            BY <4>1, <5>1
          <5>4. \A q : ~SeenIn(<<x>>, q)
            BY <5>2, SeenInOne
          <5>5. <<x>> \in Seq(JSSteps)
            OBVIOUS
          <5> QED BY <5>3, <5>4, <5>5
        <4>2. CASE ~release
          <5>1. early = <<>>
            BY <4>2
          <5> QED BY <5>1, SeenInOne
        <4> QED BY <4>1, <4>2
      <3>5. \A q \in Positions : q # Head(todo).slot => word'[q] = word[q]
        BY <3>1, <3>3
      <3> HIDE DEF early
      <3> QED BY <3>1, <3>2, <3>4, <3>5
    <2>2. CASE Or
      <3>1. /\ todo # <<>> /\ Head(todo).op = "or"
            /\ todo' = AfterStore(Head(todo).slot, word[Head(todo).slot]) \o Tail(todo)
            /\ word' = [word EXCEPT ![Head(todo).slot] = @ \cup {"INSTR"}]
        BY <2>2 DEF Or, Doing
      <3>2. Head(todo).slot \in Slots /\ Head(todo).op \in Placings
        BY <3>1, HeadStep DEF Placings
      <3>3. word \in [Positions -> SUBSET Bits] /\ Slots \subseteq Positions
        BY OrderTypes DEF OrderInv
      <3>4. PICK st \in SUBSET Bits : st = word[Head(todo).slot]
        BY <3>2, <3>3
      <3>5. PICK next \in Seq(JSSteps) : next = AfterStore(Head(todo).slot, st)
        BY <3>2, SeenFollows
      <3>6. todo' = <<>> \o next \o Tail(todo)
        BY <3>1, <3>4, <3>5
      <3>7. <<>> \in Seq(JSSteps) /\ \A q : ~SeenIn(<<>>, q)
        <4>1. <<>> \in Seq(JSSteps)
          OBVIOUS
        <4> QED BY <4>1, SeenInOne, Zenon
      <3>8. \A q \in Positions : q # Head(todo).slot => word'[q] = word[q]
        BY <3>1, <3>3
      <3> QED BY <3>1, <3>2, <3>5, <3>6, <3>7, <3>8
    <2> QED BY <2>1, <2>2
  <1>2. PICK early \in Seq(JSSteps) :
          /\ todo' = early \o AfterStore(s, st) \o Tail(todo)
          /\ \A q : ~SeenIn(early, q)
    BY <1>1
  <1>3. PICK next \in Seq(JSSteps) : next = AfterStore(s, st)
    BY SeenFollows
  <1>4. PICK a \in Seq(JSSteps) : a = early \o next
    BY Concat
  <1>5. todo' = a \o Tail(todo)
    BY <1>2, <1>3, <1>4
  <1>6. \A q : SeenIn(a, q) <=> SeenIn(next, q)
    BY <1>2, <1>4, SeenInBoth
  <1>7. /\ kind[s] # "end" => SeenIn(next, s)
        /\ \A q : SeenIn(next, q) => q = s
    BY <1>3, SeenFollows DEF SeenIn, StepIn
  <1>8. ~Written(s)
    BY <1>1, HeadStep DEF StepOK
  <1>9. /\ ListInOrder /\ resolutions \in Seq(Slots) /\ Slots \subseteq Positions
    BY OrderTypes DEF OrderInv, Placement
  <1>10. ASSUME NEW i \in DOMAIN resolutions
         PROVE  Taken(resolutions[i])' <=> Taken(resolutions[i])
    <2>1. PICK q \in Slots : q = resolutions[i]
      BY <1>9
    <2>2. kind[q] \in Listed /\ kind[q] # "end"
      BY <1>9, <2>1 DEF ListInOrder, Listed
    <2>3. /\ SeenIn(todo, q) <=> SeenIn(Tail(todo), q)
          /\ SeenIn(todo', q) <=> SeenIn(next, q) \/ SeenIn(Tail(todo), q)
      BY <1>1, <1>5, <1>6, SeenInNext DEF Placings
    <2>4. CASE q = s
      <3>1. ~Taken(q) /\ SeenIn(todo', q)
        BY <1>7, <1>8, <2>2, <2>3, <2>4 DEF Taken
      <3>2. resolutions' = resolutions
        BY StepsPlaceNothing DEF JavaScriptStep
      <3> QED BY <2>1, <3>1, <3>2 DEF Taken
    <2>5. CASE q # s
      <3>1. (Written(q)' <=> Written(q)) /\ (SeenIn(todo', q) <=> SeenIn(todo, q))
        BY <1>1, <1>7, <1>9, <2>3, <2>5 DEF Written
      <3>2. resolutions' = resolutions
        BY StepsPlaceNothing DEF JavaScriptStep
      <3> QED BY <2>1, <3>1, <3>2 DEF Taken
    <2> QED BY <2>4, <2>5
  <1>11. resolutions' = resolutions
    BY StepsPlaceNothing DEF JavaScriptStep
  <1> QED BY <1>10, <1>11, SameTaking

(* To report a write is to count it.                                        *)
LEMMA SeenTakes ==
  ASSUME OrderInv, Promised, Seen
  PROVE  \E k \in DOMAIN resolutions : k \notin Taking /\ Taking' = Taking \cup {k}
  <1>1. PICK s \in Slots, loops \in Seq(JSSteps) :
          /\ todo # <<>> /\ Head(todo).op = "seen" /\ s = Head(todo).slot
          /\ todo' = loops \o <<Step("promise", s, {})>> \o Tail(todo)
          /\ \A q : ~SeenIn(loops, q)
    <2>1. PICK s \in {0} \cup Slots, loops \in {<<>>, Resolve} :
            /\ todo # <<>> /\ Head(todo).op = "seen" /\ s \in Slots /\ s = Head(todo).slot
            /\ todo' = loops \o <<Step("promise", s, {})>> \o Tail(todo)
      BY SeenFacts
    <2>2. loops \in Seq(JSSteps) /\ \A q : ~SeenIn(loops, q)
      <3>1. <<>> \in Seq(JSSteps)
        OBVIOUS
      <3> QED BY <3>1, StepTypes, SeenInOne, SeenInResolve, Zenon
    <2> QED BY <2>1, <2>2
  <1>2. PICK x \in JSSteps : x = Step("promise", s, {})
    BY StepTypes
  <1>3. PICK a \in Seq(JSSteps) : a = loops \o <<x>>
    <2>1. <<x>> \in Seq(JSSteps)
      OBVIOUS
    <2> QED BY <2>1, Concat
  <1>4. todo' = a \o Tail(todo)
    BY <1>1, <1>2, <1>3
  <1>5. \A q : ~SeenIn(a, q)
    <2>1. <<x>> \in Seq(JSSteps)
      OBVIOUS
    <2>2. x.op # "seen"
      BY <1>2 DEF Step
    <2> QED BY <1>1, <1>3, <2>1, <2>2, SeenInBoth, SeenInOne
  <1>6. /\ ListInOrder /\ resolutions \in Seq(Slots) /\ todo \in Seq(JSSteps)
        /\ Slots \subseteq Nat
    BY OrderTypes DEF OrderInv, Placement
  <1>7. 1 \in DOMAIN todo /\ todo[1] = Head(todo)
    BY <1>1, HeadStep
  <1>8. Written(s) /\ kind[s] \in Listed
    BY <1>1, <1>7 DEF Promised, Reporting
  <1>9. PICK k \in DOMAIN resolutions : resolutions[k] = s
    BY <1>6, <1>8 DEF ListInOrder
  <1>10. ~SeenIn(Tail(todo), s)
    <2> SUFFICES ASSUME SeenIn(Tail(todo), s) PROVE FALSE
      OBVIOUS
    <2>1. PICK i \in DOMAIN Tail(todo) : Tail(todo)[i].slot = s /\ Tail(todo)[i].op = "seen"
      BY DEF SeenIn, StepIn
    <2>2. i + 1 \in DOMAIN todo /\ todo[i + 1] = Tail(todo)[i] /\ i + 1 # 1
      BY <1>1, <1>6
    <2> QED BY <1>1, <1>7, <2>1, <2>2 DEF Promised, Reporting
  <1>11. UNCHANGED <<resolutions, word>>
    BY DEF Seen, shared
  <1>12. ASSUME NEW i \in DOMAIN resolutions
         PROVE  /\ i = k => ~Taken(resolutions[i]) /\ Taken(resolutions[i])'
                /\ i # k => (Taken(resolutions[i])' <=> Taken(resolutions[i]))
    <2>1. PICK q \in Slots : q = resolutions[i]
      <3>1. resolutions \in Seq(Slots)
        BY <1>6
      <3> QED BY ONLY <3>1, i \in DOMAIN resolutions
    <2>2. i = k <=> q = s
      <3>1. i \in Nat /\ k \in Nat /\ q \in Nat /\ s \in Nat
        BY <1>6
      <3>2. /\ i < k => q < s
            /\ k < i => s < q
        BY <1>6, <1>9, <2>1 DEF ListInOrder
      <3> QED BY ONLY <1>9, <2>1, <3>1, <3>2
    <2>3. /\ SeenIn(todo, q) <=> q = s \/ SeenIn(Tail(todo), q)
          /\ SeenIn(todo', q) <=> SeenIn(Tail(todo), q)
      BY <1>1, <1>4, <1>5, SeenInNext
    <2>4. q = s => ~Taken(q) /\ Written(q)' /\ ~SeenIn(todo', q)
      BY <1>8, <1>10, <1>11, <2>3 DEF Taken, Written
    <2>5. q # s => (Written(q)' <=> Written(q)) /\ (SeenIn(todo', q) <=> SeenIn(todo, q))
      BY <1>11, <2>3 DEF Written
    <2> QED BY <1>11, <2>1, <2>2, <2>4, <2>5 DEF Taken
  <1>13. k \notin Taking /\ Taking' = Taking \cup {k}
    BY <1>11, <1>12 DEF Taking
  <1> QED BY <1>13

LEMMA OtherStepsTakeNothing ==
  ASSUME OrderInv, JavaScriptStep, ~Store, ~Or, ~Seen
  PROVE  Taking' = Taking
  <1>1. UNCHANGED <<resolutions, word>> /\ todo # <<>>
    BY DEF JavaScriptStep, Load, ReturnPromise, AdvanceUnwritten, SettleTxn, RunCallbacks, Doing,
           shared
  <1>2. \/ todo' = todo
        \/ /\ Head(todo).op # "seen"
           /\ \E a \in Seq(JSSteps) : todo' = a \o Tail(todo) /\ \A q : ~SeenIn(a, q)
    <2>1. todo \in Seq(JSSteps) /\ Tail(todo) \in Seq(JSSteps)
      BY <1>1, OrderTypes DEF OrderInv
    <2>2. CASE Load
      <3>1. Head(todo).op = "load"
        BY <2>2 DEF Load, Doing
      <3>2. Head(todo).slot \in Slots /\ word \in [Positions -> SUBSET Bits]
            /\ Slots \subseteq Positions
        BY <1>1, <3>1, HeadStep, OrderTypes DEF Placings, OrderInv
      <3>3. PICK x \in JSSteps : x = Step("store", Head(todo).slot, word[Head(todo).slot])
        BY <3>2, StepTypes
      <3>4. todo' = <<x>> \o Tail(todo) /\ <<x>> \in Seq(JSSteps)
        BY <2>2, <3>3 DEF Load
      <3>5. \A q : ~SeenIn(<<x>>, q)
        BY <3>3, SeenInOne DEF Step
      <3> QED BY <3>1, <3>4, <3>5
    <2>3. CASE ~Load
      <3>1. todo' = todo \/ (todo' = Tail(todo) /\ Head(todo).op # "seen")
        BY <2>3 DEF JavaScriptStep, ReturnPromise, AdvanceUnwritten, SettleTxn, RunCallbacks, Doing
      <3>2. <<>> \o Tail(todo) = Tail(todo) /\ <<>> \in Seq(JSSteps)
        BY <2>1
      <3> QED BY <3>1, <3>2, SeenInOne
    <2> QED BY <2>2, <2>3
  <1>3. \A q : SeenIn(todo', q) <=> SeenIn(todo, q)
    BY <1>1, <1>2, SeenInNext
  <1> QED BY <1>1, <1>3, SameTaking DEF Taken, Written

LEMMA WorkerWrites ==
  ASSUME OrderInv, NEW w \in Slots, WorkerStep(w)
  PROVE  \A p \in Positions : Written(p)' = Written(p)
  <1>1. PICK n \in Positions : n = worker[w].at
    BY OrderTypes DEF OrderInv
  <1>2. word \in [Positions -> SUBSET Bits]
    BY OrderTypes DEF OrderInv
  <1>3. Knows(w)
    BY DEF OrderInv, Token, WorkersKnow
  <1>4. CASE word' = word
    BY <1>4 DEF Written
  <1>5. CASE Mark(w)
    <2>1. "INSTR" \in worker[w].read /\ "INSTR" \in word[n]
      BY <1>1, <1>3, <1>5 DEF Mark, Knows, Written
    <2> DEFINE old == IF worker[w].first THEN word[n] ELSE worker[w].read
               result == IF worker[w].failed THEN {"FINISHED", "FAILED_CONDITION"}
                         ELSE {"FINISHED"}
    <2>2. PICK bits : bits = old \cup result
      OBVIOUS
    <2>3. word' = [word EXCEPT ![n] = bits]
      BY <1>1, <1>5, <2>2 DEF Mark
    <2>4. "INSTR" \in bits
      BY <2>1, <2>2
    <2> QED BY ONLY <1>2, <2>1, <2>3, <2>4, n \in Positions DEF Written
  <1>6. CASE StartWait(w) \/ Delimit(w)
    <2>1. ~Written(n)
      BY <1>1, <1>6, FoundEmpty DEF StartWait, Delimit
    <2>2. \E bits : word' = [word EXCEPT ![n] = bits] /\ "INSTR" \notin bits
      BY <1>1, <1>6 DEF StartWait, Delimit
    <2> QED BY <1>2, <2>1, <2>2 DEF Written
  <1>7. CASE Publish(w)
    <2>1. PICK bit : bit = IF outcome[w] = "failed" THEN "TXN_FAILED" ELSE "COMMITTED"
      OBVIOUS
    <2>2. word' = [word EXCEPT ![n] = @ \cup {bit}] /\ bit # "INSTR"
      BY <1>1, <1>7, <2>1 DEF Publish
    <2> QED BY <1>2, <2>2 DEF Written
  <1>8. word' = word \/ Mark(w) \/ StartWait(w) \/ Delimit(w) \/ Publish(w)
    <2>1. ASSUME Execute(w) PROVE word' = word
      BY ONLY <2>1 DEF Execute, shared
    <2> QED BY <2>1 DEF WorkerStep, Begin, FollowPointer, LeaveBlock, FetchEmpty, Refetch, Wake,
                        Commit, shared
  <1> QED BY <1>4, <1>5, <1>6, <1>7, <1>8

(* A call takes slots that are empty.                                       *)
LEMMA CallTakesNothing ==
  ASSUME OrderInv, OrderInv', Call
  PROVE  Taking' = Taking
  <1>1. PICK k, s, opens, pointers : k \in Listed /\ Places(k, s, opens, pointers)
    <2>1. {"write", "callback", "start"} \subseteq Listed
      BY DEF Listed
    <2> QED BY <2>1, WritePlaces, OpenBlockPlaces DEF Call
  <1>2. PICK list \in Seq(Slots) : Extends(list)
    BY <1>1, PlacesFresh DEF Extends, OrderInv
  <1>3. /\ resolutions \in Seq(Slots) /\ Slots \subseteq Positions /\ FreshSlots /\ ListInOrder'
        /\ position \in Nat /\ Slots \subseteq Nat
    BY OrderTypes DEF OrderInv, Placement
  <1>4. \A q : ~SeenIn(todo, q) /\ ~SeenIn(todo', q)
    BY NothingReported DEF SeenIn, StepIn, Reporting
  <1>5. ASSUME NEW q \in Slots, kind'[q] \in Listed
        PROVE  word'[q] = word[q]
    <2>1. q \notin pointers
      <3> SUFFICES ASSUME q \in pointers PROVE FALSE
        OBVIOUS
      <3>1. position < q /\ q # s
        BY <1>1 DEF Places
      <3>2. q # position
        BY <1>3, <3>1
      <3>3. kind'[q] = "pointer"
        BY <1>1, <3>1, <3>2 DEF Places
      <3> QED BY <1>5, <3>3 DEF Listed
    <2> QED BY <1>1, <1>3, <2>1 DEF Places
  <1>6. ASSUME NEW i \in DOMAIN list
        PROVE  /\ i \in DOMAIN resolutions => (Taken(list[i])' <=> Taken(list[i]))
               /\ i \notin DOMAIN resolutions => ~Taken(list[i])'
    <2>1. PICK q \in Slots : q = list[i]
      OBVIOUS
    <2>2. kind'[q] \in Listed
      BY <1>2, <1>3, <2>1 DEF ListInOrder, Extends
    <2>3. (Written(q)' <=> Written(q)) /\ ~SeenIn(todo, q) /\ ~SeenIn(todo', q)
      BY <1>4, <1>5, <2>2 DEF Written
    <2>4. i \notin DOMAIN resolutions => ~Written(q)
      <3> SUFFICES ASSUME i \notin DOMAIN resolutions PROVE ~Written(q)
        OBVIOUS
      <3>1. i > Len(resolutions)
        BY <1>3, <1>2 DEF Extends
      <3>2. position <= q
        BY <1>2, <2>1, <3>1 DEF Extends
      <3> QED BY <1>3, <3>2 DEF FreshSlots
    <2>5. resolutions' = list
      BY <1>2 DEF Extends
    <2> QED BY <2>1, <2>3, <2>4 DEF Taken
  <1>7. resolutions' = list /\ DOMAIN resolutions \subseteq DOMAIN list
        /\ \A i \in DOMAIN resolutions : list[i] = resolutions[i]
    BY <1>2, <1>3 DEF Extends
  <1> QED BY <1>6, <1>7 DEF Taking

LEMMA TakingNext ==
  ASSUME OrderInv, OrderInv', [Next]_vars, ~Seen
  PROVE  Taking' = Taking
  <1>1. CASE Event
    <2>1. UNCHANGED <<resolutions, word>>
      BY <1>1 DEF Event, CloseBlock, EndTurn, CommitTimer, Completion, Progress, shared
    <2>2. \A q : ~SeenIn(todo, q) /\ ~SeenIn(todo', q)
      BY <1>1, NothingReported DEF SeenIn, StepIn, Reporting
    <2> QED BY <2>1, <2>2, SameTaking DEF Taken, Written
  <1>2. CASE \E w \in Slots : WorkerStep(w)
    <2>1. PICK w \in Slots : WorkerStep(w)
      BY <1>2
    <2>2. UNCHANGED <<resolutions, todo>>
      BY <2>1, WorkerKeepsJavaScript DEF JavaScriptVars
    <2>3. \A q \in Slots : Written(q)' <=> Written(q)
      BY <2>1, WorkerWrites, SlotFacts
    <2>4. resolutions \in Seq(Slots)
      BY OrderTypes DEF OrderInv
    <2>5. ASSUME NEW i \in DOMAIN resolutions
          PROVE  Taken(resolutions[i])' <=> Taken(resolutions[i])
      <3>1. PICK q \in Slots : q = resolutions[i]
        BY <2>4
      <3> QED BY <2>2, <2>3, <3>1 DEF Taken
    <2> QED BY <2>2, <2>5, SameTaking
  <1>3. CASE UNCHANGED vars
    BY <1>3 DEF vars, shared, Taking, Taken, Written
  <1> QED BY <1>1, <1>2, <1>3, CallTakesNothing, WritingTakesNothing, OtherStepsTakeNothing
          DEF Next, Quiescent, JavaScriptStep

LEMMA CountsNext ==
  ASSUME [Next]_vars
  PROVE  /\ Seen => /\ outstandingWriteCount' = outstandingWriteCount + 1
                    /\ unwritten' = unwritten
         /\ ~Seen => \/ UNCHANGED <<outstandingWriteCount, unwritten>>
                     \/ /\ outstandingWriteCount' = outstandingWriteCount - 1
                        /\ unwritten' = unwritten + 1
  <1>1. CASE JavaScriptStep
    BY <1>1 DEF JavaScriptStep, Load, Store, Or, Seen, ReturnPromise, AdvanceUnwritten, SettleTxn,
                RunCallbacks, resolving
  <1>2. ASSUME ~JavaScriptStep PROVE UNCHANGED <<outstandingWriteCount, unwritten>>
    <2>1. CASE Call
      BY <2>1 DEF Call, Write, OpenBlock, resolving
    <2>2. CASE Event
      BY <2>2 DEF Event, CloseBlock, EndTurn, CommitTimer, Completion, Progress, resolving
    <2>3. CASE \E w \in Slots : WorkerStep(w)
      BY <2>3, WorkerKeepsJavaScript DEF JavaScriptVars, resolving
    <2>4. CASE UNCHANGED vars
      BY <2>4 DEF vars, resolving
    <2> QED BY <1>2, <2>1, <2>2, <2>3, <2>4 DEF Next, Quiescent
  <1> QED BY <1>1, <1>2 DEF JavaScriptStep

LEMMA OutstandingNext ==
  ASSUME OrderInv, OrderInv', Promised, OutstandingIsExact, [Next]_vars
  PROVE  OutstandingIsExact'
  <1>1. /\ outstandingWriteCount \in Int /\ unwritten \in Int
        /\ IsFiniteSet(Taking) /\ Cardinality(Taking) \in Nat
    <2>1. /\ outstandingWriteCount \in Int /\ unwritten \in Int
      BY DEF OrderInv, Inv, TypeInv, TypeOK, TypeStarting, TypeResolving
    <2>2. IsFiniteSet(DOMAIN resolutions)
      <3>1. DOMAIN resolutions = 1..Len(resolutions) /\ Len(resolutions) \in Nat
        BY OrderTypes DEF OrderInv
      <3> QED BY <3>1, FS_Interval
    <2>3. IsFiniteSet(Taking)
      BY <2>2, FS_Subset DEF Taking
    <2> QED BY <2>1, <2>3, FS_CardinalityType
  <1>2. outstandingWriteCount = Cardinality(Taking) - (unwritten - 1)
    BY OutstandingIs
  <1>3. outstandingWriteCount' = Cardinality(Taking') - (unwritten' - 1)
    <2>1. CASE Seen
      <3>1. PICK k : k \notin Taking /\ Taking' = Taking \cup {k}
        BY <2>1, SeenTakes
      <3>2. Cardinality(Taking') = Cardinality(Taking) + 1
        BY <1>1, <3>1, FS_AddElement
      <3>3. outstandingWriteCount' = outstandingWriteCount + 1 /\ unwritten' = unwritten
        BY <2>1, CountsNext
      <3> QED BY ONLY <1>1, <1>2, <3>2, <3>3
    <2>2. CASE ~Seen
      <3>1. Taking' = Taking
        BY <2>2, TakingNext
      <3>2. \/ UNCHANGED <<outstandingWriteCount, unwritten>>
            \/ outstandingWriteCount' = outstandingWriteCount - 1 /\ unwritten' = unwritten + 1
        BY <2>2, CountsNext
      <3> QED BY ONLY <1>1, <1>2, <3>1, <3>2
    <2> QED BY <2>1, <2>2
  <1>4. (OutstandingIsExact <=> outstandingWriteCount = Cardinality(Taking) - (unwritten - 1))'
    BY OutstandingIs, PTL
  <1> QED BY <1>3, <1>4

LEMMA InitOutstanding == Init => OutstandingIsExact
  <1> SUFFICES ASSUME Init PROVE OutstandingIsExact
    OBVIOUS
  <1>1. Taking = {} /\ outstandingWriteCount = 0 /\ unwritten = 1
    BY DEF Init, Taking
  <1> QED BY <1>1, FS_EmptySet, OutstandingIs

-----------------------------------------------------------------------------
(* What is placed is written.                                               *)

LEMMA PendingIn ==
  ASSUME NEW s
  PROVE  Pending(s) <=> StepIn(todo, Placings, s)
  BY DEF Pending, StepIn

LEMMA NothingPending ==
  ASSUME todo = <<>>, NEW s
  PROVE  ~Pending(s)
  BY DEF Pending

(* While nothing is pending, everything is written but a start that is held *)
(* back.                                                                    *)
LEMMA AllWritten ==
  ASSUME OrderInv, PlacedInv, NEW s \in Slots, s < position, ~Pending(s)
  PROVE  Written(s) \/ (s = writeBatchStart /\ batchDepth > 0)
  <1>1. kind[s] \in Kinds /\ kind[s] # "none"
    BY OrderTypes DEF OrderInv, PlacedInv, NoGaps
  <1>2. kind[s] \in Listed \cup {"end"} \/ kind[s] = "pointer"
    BY <1>1 DEF Kinds, Listed
  <1> QED BY <1>2 DEF PlacedInv, PointersWritten, WrittenSoon

(* What a call of the program places.                                       *)
CallOf(k, own, s, opens, pointers) ==
  /\ Places(k, s, opens, pointers) /\ todo = <<>>
  /\ \A q \in Slots : position <= q /\ q < position' =>
       q = s \/ (opens /\ q = position) \/ q \in pointers
  /\ batchDepth' = (IF opens THEN 1 ELSE batchDepth) + (IF k = "start" THEN 2 ELSE 0)
  /\ writeBatchStart' = IF opens THEN position
                        ELSE IF k = "start" /\ batchDepth = 0 THEN s ELSE writeBatchStart
  /\ todo' = IF opens \/ batchDepth > 0 THEN <<Step("load", s, {})>>
             ELSE IF k = "start" THEN <<>> ELSE <<Step("or", s, {})>>
  /\ callbacks' = IF k = "callback" THEN [callbacks EXCEPT ![position] = s] ELSE callbacks
  /\ ownPromise' = IF own THEN ownPromise \cup {s} ELSE ownPromise
  /\ own /\ k = "start" => "ifVersion" \in Calls
  /\ opens <=> EventTurnBatching /\ turn = 0 /\ batchDepth = 0
  /\ UNCHANGED <<unwritten, nextTxnCallbacks, ran, lock, worker, log, txnOf>>

(* A call takes every slot up to the next position.                         *)
LEMMA PlaceFills ==
  ASSUME OrderInv, NEW startFull \in BOOLEAN, NEW full \in BOOLEAN, NEW q \in Slots,
         startFull => Place(startFull, full).opensTurn,
         position <= q, q < Place(startFull, full).next
  PROVE  \/ q = Place(startFull, full).slot
         \/ Place(startFull, full).opensTurn /\ q = position
         \/ q \in Place(startFull, full).pointers
  <1> DEFINE opensTurn == EventTurnBatching /\ turn = 0 /\ batchDepth = 0
             slot == IF opensTurn THEN After(position, startFull) ELSE position
             pointers == (IF opensTurn /\ startFull THEN {position + 1} ELSE {})
                         \cup (IF full THEN {slot + 1} ELSE {})
  <1>1. /\ Place(startFull, full).slot = slot /\ Place(startFull, full).opensTurn = opensTurn
        /\ Place(startFull, full).pointers = pointers
        /\ Place(startFull, full).next = After(slot, full)
    BY DEF Place
  <1>2. position \in Nat /\ q \in Nat
    BY OrderTypes DEF OrderInv
  <1>3. slot = IF opensTurn THEN (IF startFull THEN position + 2 ELSE position + 1) ELSE position
    BY DEF After
  <1>4. q < (IF full THEN slot + 2 ELSE slot + 1)
    BY <1>1 DEF After
  <1>5. slot \in Nat /\ (startFull => opensTurn)
    <2>1. startFull => opensTurn
      BY <1>1
    <2> HIDE DEF slot
    <2>2. slot \in Nat
      BY <1>2, <1>3
    <2> QED BY <2>1, <2>2
  <1>6. PICK n \in Nat : n = slot
    BY <1>5
  <1>7. q = n \/ (opensTurn /\ q = position) \/ q \in pointers
    <2>1. CASE q = n + 1
      <3>1. full
        BY <1>2, <1>4, <1>6, <2>1
      <3> QED BY <1>6, <2>1, <3>1
    <2>2. CASE q < n
      <3>1. opensTurn /\ (q = position \/ (startFull /\ q = position + 1))
        <4> HIDE DEF slot
        <4> QED BY <1>2, <1>3, <1>6, <2>2
      <3> QED BY <3>1
    <2>3. q = n \/ q = n + 1 \/ q < n
      <3> HIDE DEF slot
      <3> QED BY <1>2, <1>4, <1>6
    <2> QED BY <2>1, <2>2, <2>3
  <1> QED BY <1>1, <1>6, <1>7

LEMMA WriteCall ==
  ASSUME OrderInv, NEW k \in {"write", "callback"}, NEW own \in BOOLEAN, Write(k, own)
  PROVE  \E s, opens, pointers : CallOf(k, own, s, opens, pointers)
  <1>1. PICK startFull \in BOOLEAN, full \in BOOLEAN :
          LET place == Place(startFull, full) IN
          /\ todo = <<>> /\ (startFull => place.opensTurn)
          /\ Fits(place, 0) /\ Reserve(k, own, place)
          /\ batchDepth' = place.depth
          /\ writeBatchStart' = IF place.opensTurn THEN position ELSE writeBatchStart
          /\ callbacks' = IF k = "callback" THEN [callbacks EXCEPT ![position] = place.slot]
                          ELSE callbacks
          /\ todo' = <<Step(IF place.depth > 0 THEN "load" ELSE "or", place.slot, {})>>
          /\ UNCHANGED <<unwritten, nextTxnCallbacks, ran, lock, worker, log, txnOf>>
    BY DEF Write, writing, history, resolving
  <1> DEFINE place == Place(startFull, full)
  <1>2. /\ place.depth = (IF place.opensTurn THEN 1 ELSE batchDepth) /\ place.opensTurn \in BOOLEAN
    BY <1>1, PlaceFacts DEF OrderInv, Inv
  <1>3. Places(k, place.slot, place.opensTurn, place.pointers)
    BY <1>1, ReservePlaces
  <1>4. \A q \in Slots : position <= q /\ q < place.next =>
          q = place.slot \/ (place.opensTurn /\ q = position) \/ q \in place.pointers
    BY <1>1, PlaceFills
  <1>5. /\ position' = place.next
        /\ ownPromise' = IF own THEN ownPromise \cup {place.slot} ELSE ownPromise
    BY <1>1 DEF Reserve
  <1>6. place.opensTurn <=> EventTurnBatching /\ turn = 0 /\ batchDepth = 0
    BY DEF Place
  <1>7. place.depth > 0 <=> place.opensTurn \/ batchDepth > 0
    BY <1>2
  <1>8. k # "start" /\ batchDepth \in Nat
    BY OpenCount
  <1> HIDE DEF place
  <1>9. /\ todo = <<>>
        /\ batchDepth' = place.depth
        /\ writeBatchStart' = IF place.opensTurn THEN position ELSE writeBatchStart
        /\ callbacks' = IF k = "callback" THEN [callbacks EXCEPT ![position] = place.slot]
                        ELSE callbacks
        /\ todo' = <<Step(IF place.depth > 0 THEN "load" ELSE "or", place.slot, {})>>
        /\ UNCHANGED <<unwritten, nextTxnCallbacks, ran, lock, worker, log, txnOf>>
    BY <1>1 DEF place
  <1>10. batchDepth' = (IF place.opensTurn THEN 1 ELSE batchDepth) + (IF k = "start" THEN 2 ELSE 0)
    BY <1>2, <1>8, <1>9
  <1>11. todo' = IF place.opensTurn \/ batchDepth > 0 THEN <<Step("load", place.slot, {})>>
                 ELSE IF k = "start" THEN <<>> ELSE <<Step("or", place.slot, {})>>
    BY <1>7, <1>8, <1>9
  <1>12. CallOf(k, own, place.slot, place.opensTurn, place.pointers)
    BY <1>3, <1>4, <1>5, <1>6, <1>8, <1>9, <1>10, <1>11 DEF CallOf
  <1> QED BY <1>12

LEMMA OpenBlockCall ==
  ASSUME OrderInv, NEW own \in BOOLEAN, OpenBlock(own), own => "ifVersion" \in Calls
  PROVE  \E s, opens, pointers : CallOf("start", own, s, opens, pointers)
  <1>1. PICK startFull \in BOOLEAN, full \in BOOLEAN :
          LET place == Place(startFull, full)
              nested == place.depth > 0 IN
          /\ todo = <<>> /\ (startFull => place.opensTurn)
          /\ Fits(place, 1) /\ Reserve("start", own, place)
          /\ batchDepth' = place.depth + 2
          /\ writeBatchStart' = IF place.opensTurn THEN position
                                ELSE IF nested THEN writeBatchStart ELSE place.slot
          /\ todo' = IF nested THEN <<Step("load", place.slot, {})>> ELSE <<>>
          /\ UNCHANGED <<unwritten, callbacks, nextTxnCallbacks, ran, lock, worker, log, txnOf>>
    BY DEF OpenBlock, writing, history, resolving, callbackVars
  <1> DEFINE place == Place(startFull, full)
  <1>2. /\ place.depth = (IF place.opensTurn THEN 1 ELSE batchDepth) /\ place.opensTurn \in BOOLEAN
    BY <1>1, PlaceFacts DEF OrderInv, Inv
  <1>3. Places("start", place.slot, place.opensTurn, place.pointers)
    BY <1>1, ReservePlaces
  <1>4. \A q \in Slots : position <= q /\ q < place.next =>
          q = place.slot \/ (place.opensTurn /\ q = position) \/ q \in place.pointers
    BY <1>1, PlaceFills
  <1>5. /\ position' = place.next
        /\ ownPromise' = IF own THEN ownPromise \cup {place.slot} ELSE ownPromise
    BY <1>1 DEF Reserve
  <1>6. place.opensTurn <=> EventTurnBatching /\ turn = 0 /\ batchDepth = 0
    BY DEF Place
  <1>7. place.depth > 0 <=> place.opensTurn \/ batchDepth > 0
    BY <1>2
  <1>8. batchDepth \in Nat
    BY OpenCount
  <1> HIDE DEF place
  <1>9. /\ todo = <<>>
        /\ batchDepth' = place.depth + 2
        /\ writeBatchStart' = IF place.opensTurn THEN position
                              ELSE IF place.depth > 0 THEN writeBatchStart ELSE place.slot
        /\ todo' = IF place.depth > 0 THEN <<Step("load", place.slot, {})>> ELSE <<>>
        /\ UNCHANGED <<unwritten, callbacks, nextTxnCallbacks, ran, lock, worker, log, txnOf>>
    BY <1>1 DEF place
  <1>10. /\ batchDepth' = (IF place.opensTurn THEN 1 ELSE batchDepth) + 2
         /\ writeBatchStart' = IF place.opensTurn THEN position
                               ELSE IF batchDepth = 0 THEN place.slot ELSE writeBatchStart
    BY <1>2, <1>7, <1>8, <1>9
  <1>11. todo' = IF place.opensTurn \/ batchDepth > 0 THEN <<Step("load", place.slot, {})>>
                 ELSE <<>>
    BY <1>7, <1>9
  <1>12. CallOf("start", own, place.slot, place.opensTurn, place.pointers)
    BY <1>3, <1>4, <1>5, <1>6, <1>9, <1>10, <1>11 DEF CallOf
  <1> QED BY <1>12

LEMMA CallIs ==
  ASSUME OrderInv, Call
  PROVE  \E k \in Listed, own \in BOOLEAN : \E s, opens, pointers :
           CallOf(k, own, s, opens, pointers)
  <1>1. "write" \in Listed /\ "callback" \in Listed /\ "start" \in Listed
    BY DEF Listed
  <1> QED BY <1>1, WriteCall, OpenBlockCall DEF Call

LEMMA WorkerTakes ==
  ASSUME OrderInv, NEW w \in Slots, WorkerStep(w)
  PROVE  \/ txnOf' = txnOf
         \/ /\ Execute(w) /\ worker[w].at \in Slots /\ Written(worker[w].at)
            /\ kind[worker[w].at] \in Listed /\ txnOf[worker[w].at] = 0
            /\ txnOf' = [txnOf EXCEPT ![worker[w].at] = w]
            /\ worker[w].pc = "fetch" /\ worker'[w].pc = "mark" /\ worker'[w].at = worker[w].at
  <1>1. CASE Execute(w)
    <2>1. /\ Fetching(w) /\ Instruction(w) \in Listed /\ worker[w].pc = "fetch"
          /\ txnOf' = [txnOf EXCEPT ![worker[w].at] = w]
      BY <1>1 DEF Execute, Fetching, Listed
    <2>2. Instruction(w) # "none"
      BY <2>1 DEF Listed
    <2>3. /\ worker[w].at \in Slots /\ Written(worker[w].at) /\ kind[worker[w].at] \in Listed
          /\ Frontier(worker[w].at)
      BY <2>1, <2>2, Found
    <2>4. txnOf[worker[w].at] = 0
      BY <2>3, SlotFacts DEF Frontier
    <2>5. worker'[w].pc = "mark" /\ worker'[w].at = worker[w].at
      <3>1. worker \in [Slots -> WorkerRecords]
        BY OrderTypes DEF OrderInv
      <3> QED BY <1>1, <3>1 DEF Execute, WorkerRecords
    <2> QED BY <1>1, <2>1, <2>3, <2>4, <2>5
  <1>2. CASE ~Execute(w)
    BY <1>2 DEF WorkerStep, Begin, FollowPointer, LeaveBlock, Mark, FetchEmpty, Refetch, StartWait,
                Wake, Delimit, Commit, Publish, history
  <1> QED BY <1>1, <1>2

LEMMA OnlyWorkersTake ==
  ASSUME Call \/ Event \/ JavaScriptStep \/ UNCHANGED vars
  PROVE  UNCHANGED <<txnOf, log>>
  <1>1. CASE Call
    BY <1>1 DEF Call, Write, OpenBlock, writing, history
  <1>2. CASE Event
    BY <1>2 DEF Event, CloseBlock, EndTurn, CommitTimer, Completion, Progress, writing, history
  <1>3. CASE JavaScriptStep
    BY <1>3 DEF JavaScriptStep, Load, Store, Or, Seen, ReturnPromise, AdvanceUnwritten, SettleTxn,
                RunCallbacks, writing, history
  <1>4. CASE UNCHANGED vars
    BY <1>4 DEF vars, writing, history
  <1> QED BY <1>1, <1>2, <1>3, <1>4

(* Nothing is placed, and what is written stays so.                         *)
LEMMA StillPlaced ==
  ASSUME PlacedInv, UNCHANGED <<kind, position, writeBatchStart, batchDepth>>,
         \A s \in Slots : Written(s)' <=> Written(s), \A s \in Slots : Pending(s) => Pending(s)',
         \A s \in Slots : txnOf'[s] # 0 => txnOf[s] # 0 \/ Written(s), Alone'
  PROVE  PlacedInv'
  <1>1. NoGaps' /\ PointersWritten'
    BY DEF PlacedInv, NoGaps, PointersWritten
  <1>2. WrittenSoon'
    BY DEF PlacedInv, WrittenSoon
  <1>3. TakenWereWritten'
    BY DEF PlacedInv, TakenWereWritten
  <1> QED BY <1>1, <1>2, <1>3 DEF PlacedInv

LEMMA WorkerPlaced ==
  ASSUME OrderInv, PlacedInv, NEW w \in Slots, WorkerStep(w)
  PROVE  PlacedInv'
  <1>1. UNCHANGED <<position, kind, todo, writeBatchStart, batchDepth>>
    BY WorkerKeepsJavaScript DEF JavaScriptVars, placing, batching
  <1>2. \A s \in Slots : Written(s)' <=> Written(s)
    BY WorkerWrites, SlotFacts
  <1>3. \A s \in Slots : Pending(s) => Pending(s)'
    BY <1>1 DEF Pending
  <1>4. Alone'
    BY <1>1 DEF PlacedInv, Alone
  <1>5. \A s \in Slots : txnOf'[s] # 0 => txnOf[s] # 0 \/ Written(s)
    <2>1. txnOf \in [Slots -> {0} \cup Slots]
      BY OrderTypes DEF OrderInv
    <2> QED BY <2>1, WorkerTakes
  <1> QED BY <1>1, <1>2, <1>3, <1>4, <1>5, StillPlaced

(* What a step of a call does to the steps that follow, and to the words.   *)
LEMMA LoadIs ==
  ASSUME OrderInv, Load
  PROVE  \E s \in Slots, x \in JSSteps :
           /\ todo # <<>> /\ Head(todo).op = "load" /\ Head(todo).slot = s
           /\ x.op = "store" /\ x.slot = s /\ todo' = <<x>> \o Tail(todo)
           /\ UNCHANGED <<word, writeBatchStart>>
  <1>1. todo # <<>> /\ Head(todo).op = "load"
    BY DEF Load, Doing
  <1>2. Head(todo).slot \in Slots /\ word \in [Positions -> SUBSET Bits] /\ Slots \subseteq Positions
    BY <1>1, HeadStep, OrderTypes DEF Placings, OrderInv
  <1>3. PICK x \in JSSteps : x = Step("store", Head(todo).slot, word[Head(todo).slot])
    BY <1>2, StepTypes
  <1>4. x.op = "store" /\ x.slot = Head(todo).slot
    BY <1>3 DEF Step
  <1>5. todo' = <<x>> \o Tail(todo)
    BY <1>3 DEF Load
  <1>6. UNCHANGED <<word, writeBatchStart>>
    BY DEF Load, shared, batching
  <1> QED BY <1>1, <1>2, <1>4, <1>5, <1>6

(* The slot s is written; a start that was held back may be written next.   *)
Writes(s, a) ==
  /\ todo # <<>> /\ Head(todo).op \in {"store", "or"} /\ Head(todo).slot = s /\ ~Written(s)
  /\ a \in Seq(JSSteps) /\ todo' = a \o Tail(todo)
  /\ \A q \in Positions : q # s => word'[q] = word[q]
  /\ "INSTR" \in word'[s] /\ word'[s] \subseteq word[s] \cup {"INSTR"}
  /\ \A q : StepIn(a, Placings, q) => /\ Head(todo).op = "store" /\ kind[s] # "end"
                                      /\ q = writeBatchStart /\ batchDepth > 0
  /\ \A i \in DOMAIN a : a[i].op \in {"or", "seen"}
  /\ \/ writeBatchStart' = writeBatchStart
     \/ StepIn(a, Placings, writeBatchStart)

LEMMA AfterStoreIn ==
  ASSUME NEW s \in Slots, NEW st \in SUBSET Bits, NEW q
  PROVE  /\ ~StepIn(AfterStore(s, st), Placings, q)
         /\ \A i \in DOMAIN AfterStore(s, st) : AfterStore(s, st)[i].op = "seen"
  BY SeenFollows DEF StepIn, Placings

LEMMA OrIs ==
  ASSUME OrderInv, Or
  PROVE  \E s \in Slots : \E a : Writes(s, a)
  <1>1. todo # <<>> /\ Head(todo).op = "or"
    BY DEF Or, Doing
  <1>2. PICK s \in Slots : s = Head(todo).slot
    BY <1>1, HeadStep DEF Placings
  <1>3. ~Written(s)
    BY <1>1, <1>2, HeadStep DEF StepOK, Placings
  <1>4. word \in [Positions -> SUBSET Bits] /\ Slots \subseteq Positions
    BY OrderTypes DEF OrderInv
  <1>5. PICK a \in Seq(JSSteps) : a = AfterStore(s, word[s])
    BY <1>2, <1>4, SeenFollows
  <1>6. todo' = a \o Tail(todo) /\ writeBatchStart' = writeBatchStart
    BY <1>2, <1>5 DEF Or, batching
  <1>7. /\ \A q : ~StepIn(a, Placings, q)
        /\ \A i \in DOMAIN a : a[i].op = "seen"
    BY <1>4, <1>5, AfterStoreIn
  <1>8. /\ \A q \in Positions : q # s => word'[q] = word[q]
        /\ "INSTR" \in word'[s] /\ word'[s] \subseteq word[s] \cup {"INSTR"}
    <2>1. word' = [word EXCEPT ![s] = @ \cup {"INSTR"}]
      BY <1>2 DEF Or
    <2> QED BY <1>4, <2>1
  <1>9. Writes(s, a)
    BY <1>1, <1>2, <1>3, <1>6, <1>7, <1>8 DEF Writes
  <1> QED BY <1>9

LEMMA StoreIs ==
  ASSUME OrderInv, Store
  PROVE  \E s \in Slots : \E a : Writes(s, a)
  <1>1. todo # <<>> /\ Head(todo).op = "store"
    BY DEF Store, Doing
  <1>2. PICK s \in Slots, st \in SUBSET Bits : s = Head(todo).slot /\ st = Head(todo).status
    BY <1>1, HeadStep DEF Placings
  <1>3. ~Written(s) /\ Nest(s) > 0 /\ s < position
    BY <1>1, <1>2, HeadStep DEF StepOK, Placings
  <1>4. word \in [Positions -> SUBSET Bits] /\ Slots \subseteq Positions
    BY OrderTypes DEF OrderInv
  <1>5. PICK b \in Seq(JSSteps) : b = AfterStore(s, st)
    BY <1>2, SeenFollows
  <1>6. /\ \A q : ~StepIn(b, Placings, q)
        /\ \A i \in DOMAIN b : b[i].op = "seen"
    BY <1>5, AfterStoreIn
  <1>7. /\ \A q \in Positions : q # s => word'[q] = word[q]
        /\ "INSTR" \in word'[s] /\ word'[s] \subseteq word[s] \cup {"INSTR"}
    <2>1. word' = [word EXCEPT ![s] = {"INSTR"}]
      BY <1>2 DEF Store
    <2> QED BY <1>4, <2>1
  <1>8. PICK release \in BOOLEAN :
          /\ release => kind[s] # "end" /\ writeBatchStart # 0
          /\ writeBatchStart' = IF release THEN 0 ELSE writeBatchStart
          /\ todo' = (IF release THEN <<Finish(writeBatchStart)>> ELSE <<>>) \o b \o Tail(todo)
    <2> DEFINE counts == kind[s] # "end" /\ writeBatchStart # 0 /\ st = {}
               release == counts /\ outstandingBatchCount + 1 > BatchStartThreshold
    <2>1. /\ writeBatchStart' = IF release THEN 0 ELSE writeBatchStart
          /\ todo' = (IF release THEN <<Finish(writeBatchStart)>> ELSE <<>>) \o b \o Tail(todo)
      BY <1>2, <1>5 DEF Store
    <2>2. release \in BOOLEAN /\ (release => kind[s] # "end" /\ writeBatchStart # 0)
      OBVIOUS
    <2> HIDE DEF release
    <2> QED BY <2>1, <2>2
  <1>9. CASE ~release
    <2>1. todo' = b \o Tail(todo)
      <3>1. <<>> \o b = b
        BY b \in Seq(JSSteps)
      <3> QED BY <1>8, <1>9, <3>1
    <2>2. Writes(s, b)
      BY <1>1, <1>2, <1>3, <1>6, <1>7, <1>8, <1>9, <2>1 DEF Writes
    <2> QED BY <2>2
  <1>10. CASE release
    <2>1. batchDepth > 0
      <3>1. 1 \in DOMAIN todo /\ todo[1].op = "store"
        BY <1>1, HeadStep
      <3>2. batchDepth \in Nat
        BY OpenCount
      <3> QED BY <1>8, <1>10, <3>1, <3>2 DEF OrderInv, Placement, HeldBack
    <2>2. /\ writeBatchStart \in Slots
          /\ Finish(writeBatchStart) = Step("or", writeBatchStart, {})
      BY <1>8, <1>10, <2>1, StartHeldBack
    <2>3. PICK x \in JSSteps : x = Finish(writeBatchStart)
      BY <2>2, StepTypes
    <2>4. x.op = "or" /\ x.slot = writeBatchStart
      BY <2>2, <2>3 DEF Step
    <2>5. PICK a \in Seq(JSSteps) : a = <<x>> \o b
      <3>1. <<x>> \in Seq(JSSteps)
        OBVIOUS
      <3> QED BY <3>1, Concat
    <2>6. todo' = a \o Tail(todo)
      BY <1>8, <1>10, <2>3, <2>5
    <2>7. <<x>> \in Seq(JSSteps)
      OBVIOUS
    <2>8. ASSUME NEW q PROVE StepIn(a, Placings, q) <=> q = writeBatchStart
      <3>1. StepIn(a, Placings, q) <=> StepIn(<<x>>, Placings, q) \/ StepIn(b, Placings, q)
        BY <2>5, <2>7, StepInBoth
      <3> QED BY <1>6, <2>4, <3>1, StepInOne DEF Placings
    <2>9. \A i \in DOMAIN a : a[i].op \in {"or", "seen"}
      <3> SUFFICES ASSUME NEW i \in DOMAIN a PROVE a[i].op \in {"or", "seen"}
        OBVIOUS
      <3>1. /\ a[1] = x
            /\ i # 1 => i - 1 \in DOMAIN b /\ a[i] = b[i - 1]
        BY <2>5, StepBefore
      <3> QED BY <1>6, <2>4, <3>1
    <2>10. Writes(s, a)
      BY <1>1, <1>2, <1>3, <1>7, <1>8, <1>10, <2>1, <2>6, <2>8, <2>9 DEF Writes
    <2> QED BY <2>10
  <1> QED BY <1>9, <1>10

(* What the end of a block, or of an event turn, places.                    *)
EndOf ==
  /\ todo = <<>> /\ position \in Slots /\ position' = position + 1 /\ batchDepth > 0
  /\ kind'[position] = "end" /\ \A q \in Slots : q # position => kind'[q] = kind[q]
  /\ UNCHANGED <<word, lock, callbacks, nextTxnCallbacks, ran, unwritten, resolutions, worker,
                 log, txnOf, ownPromise>>
  /\ StepIn(todo', Placings, position)
  /\ \A q : StepIn(todo', Placings, q) => q = position \/ q = writeBatchStart
  /\ writeBatchStart # 0 =>
       StepIn(todo', Placings, writeBatchStart) \/ (writeBatchStart' = writeBatchStart /\ batchDepth' > 0)
  /\ \A i \in DOMAIN todo' : todo'[i].op = "or" \/ (todo'[i].op = "load" /\ todo'[i].slot = position)

LEMMA OneStep ==
  ASSUME NEW x \in JSSteps, todo' = <<x>>
  PROVE  DOMAIN todo' = {1} /\ todo'[1] = x /\ Len(todo') = 1
  OBVIOUS

LEMMA TwoSteps ==
  ASSUME NEW x \in JSSteps, NEW y \in JSSteps, todo' = <<x, y>>
  PROVE  DOMAIN todo' = {1, 2} /\ todo'[1] = x /\ todo'[2] = y
  OBVIOUS

LEMMA CloseBlockEnds ==
  ASSUME OrderInv, CloseBlock
  PROVE  EndOf
  <1> DEFINE s == blocks[Len(blocks)]
  <1>1. /\ todo = <<>> /\ blocks # <<>> /\ EndBlock /\ batchDepth' = batchDepth - 2
        /\ writeBatchStart' = IF writeBatchStart = s THEN 0 ELSE writeBatchStart
        /\ todo' = IF writeBatchStart = s
                   THEN <<Step("load", position, {}), Finish(s)>>
                   ELSE <<Step(IF batchDepth - 2 > 0 THEN "load" ELSE "or", position, {})>>
        /\ UNCHANGED <<word, lock, callbacks, nextTxnCallbacks, ran, unwritten, resolutions, worker,
                       log, txnOf, ownPromise>>
    BY DEF CloseBlock, shared, writing, history, starting, callbackVars, resolving
  <1>2. PICK m \in Nat : m = Len(blocks)
    BY OpenCount
  <1>3. /\ batchDepth = 2 * m + (IF turn # 0 THEN 1 ELSE 0) /\ batchDepth \in Nat /\ m > 0
        /\ blocks \in Seq(Slots)
    <2>1. /\ batchDepth = 2 * Len(blocks) + (IF turn # 0 THEN 1 ELSE 0)
          /\ batchDepth \in Nat /\ blocks \in Seq(Slots)
      BY OpenCount
    <2>2. Len(blocks) > 0
      BY <1>1, <2>1
    <2> QED BY ONLY <1>2, <2>1, <2>2
  <1>4. batchDepth > 0
    BY ONLY <1>3
  <1>5. position \in Slots /\ position \in Nat
    <2>1. position + Len(blocks) + (IF turn # 0 THEN 1 ELSE 0) <= NSlots + 1 /\ NSlots \in Nat
          /\ position \in Nat
      BY OrderTypes DEF OrderInv, Inv, TypeInv, RoomForEnds
    <2>2. position <= NSlots
      BY ONLY <1>2, <1>3, <2>1
    <2> QED BY <2>1, <2>2, OrderTypes, SlotFacts DEF OrderInv
  <1>6. /\ position' = position + 1 /\ kind'[position] = "end"
        /\ \A q \in Slots : q # position => kind'[q] = kind[q]
    BY <1>1, <1>5, NestEnd
  <1>7. s \in Slots
    BY <1>2, <1>3
  <1>8. CASE writeBatchStart = s
    <2>1. writeBatchStart # 0 /\ Finish(s) = Step("or", s, {})
      <3>1. writeBatchStart # 0
        BY <1>7, <1>8, SlotFacts
      <3> QED BY <1>4, <1>8, <3>1, StartHeldBack
    <2>2. PICK x \in JSSteps, y \in JSSteps : x = Step("load", position, {}) /\ y = Step("or", s, {})
      <3>1. {} \in SUBSET Bits
        OBVIOUS
      <3> QED BY <1>5, <1>7, <3>1, StepTypes
    <2>3. todo' = <<x, y>>
      BY <1>1, <1>8, <2>1, <2>2
    <2>4. DOMAIN todo' = {1, 2} /\ todo'[1] = x /\ todo'[2] = y
      BY <2>3, TwoSteps
    <2>5. x.op = "load" /\ x.slot = position /\ y.op = "or" /\ y.slot = writeBatchStart
      BY <1>8, <2>2 DEF Step
    <2>6. /\ StepIn(todo', Placings, position) /\ StepIn(todo', Placings, writeBatchStart)
          /\ \A q : StepIn(todo', Placings, q) => q = position \/ q = writeBatchStart
      BY <2>4, <2>5 DEF StepIn, Placings
    <2>7. \A i \in DOMAIN todo' : todo'[i].op = "or" \/ (todo'[i].op = "load" /\ todo'[i].slot = position)
      BY <2>4, <2>5
    <2> QED BY <1>1, <1>4, <1>5, <1>6, <2>6, <2>7 DEF EndOf
  <1>9. CASE writeBatchStart # s
    <2>1. PICK op \in {"load", "or"} : op = IF batchDepth - 2 > 0 THEN "load" ELSE "or"
      OBVIOUS
    <2>2. PICK x \in JSSteps : x = Step(op, position, {})
      <3>1. {} \in SUBSET Bits
        OBVIOUS
      <3> QED BY <1>5, <3>1, StepTypes
    <2>3. todo' = <<x>>
      BY <1>1, <1>9, <2>1, <2>2
    <2>4. DOMAIN todo' = {1} /\ todo'[1] = x
      BY <2>3, OneStep
    <2>5. x.op = op /\ x.slot = position
      BY <2>2 DEF Step
    <2>6. StepIn(todo', Placings, position) /\ \A q : StepIn(todo', Placings, q) => q = position
      BY <2>1, <2>4, <2>5 DEF StepIn, Placings
    <2>7. \A i \in DOMAIN todo' : todo'[i].op = "or" \/ (todo'[i].op = "load" /\ todo'[i].slot = position)
      BY <2>1, <2>4, <2>5
    <2>8. writeBatchStart' = writeBatchStart
      BY <1>1, <1>9
    <2>9. ASSUME writeBatchStart # 0 PROVE batchDepth' > 0
      <3>1. writeBatchStart = Outermost
        BY <1>4, <2>9, StartHeldBack
      <3>2. turn = 0 => Outermost = blocks[1]
        BY <1>4, OutermostBlock
      <3>3. turn # 0 \/ m # 1
        BY <1>2, <1>9, <3>1, <3>2
      <3>4. batchDepth' = batchDepth - 2
        BY <1>1
      <3> QED BY ONLY <1>3, <3>3, <3>4, m \in Nat
    <2> QED BY <1>1, <1>4, <1>5, <1>6, <2>6, <2>7, <2>8, <2>9 DEF EndOf
  <1> QED BY <1>8, <1>9

LEMMA EndTurnEnds ==
  ASSUME OrderInv, EndTurn
  PROVE  EndOf
  <1>1. /\ todo = <<>> /\ blocks = <<>> /\ turn # 0 /\ EndBlock
        /\ todo' = <<Step(IF batchDepth > 1 THEN "load" ELSE "or", position, {})>> \o
             (IF writeBatchStart # 0 THEN <<Finish(writeBatchStart)>> ELSE <<>>)
        /\ UNCHANGED <<word, lock, callbacks, nextTxnCallbacks, ran, unwritten, resolutions, worker,
                       log, txnOf, ownPromise>>
    BY DEF EndTurn, shared, writing, history, starting, callbackVars, resolving
  <1>2. batchDepth = 1
    <2>1. batchDepth = 2 * Len(blocks) + (IF turn # 0 THEN 1 ELSE 0) /\ Len(blocks) = 0
      BY <1>1, OpenCount
    <2> QED BY ONLY <1>1, <2>1
  <1>3. position \in Slots /\ position \in Nat
    <2>1. position + Len(blocks) + (IF turn # 0 THEN 1 ELSE 0) <= NSlots + 1 /\ NSlots \in Nat
          /\ position \in Nat /\ Len(blocks) = 0
      BY <1>1, OrderTypes DEF OrderInv, Inv, TypeInv, RoomForEnds
    <2>2. position <= NSlots
      BY ONLY <1>1, <2>1
    <2> QED BY <2>1, <2>2, OrderTypes, SlotFacts DEF OrderInv
  <1>4. /\ position' = position + 1 /\ kind'[position] = "end"
        /\ \A q \in Slots : q # position => kind'[q] = kind[q]
    BY <1>1, <1>3, NestEnd
  <1>5. PICK x \in JSSteps : x = Step("or", position, {})
    <2>1. {} \in SUBSET Bits
      OBVIOUS
    <2> QED BY <1>3, <2>1, StepTypes
  <1>6. x.op = "or" /\ x.slot = position /\ batchDepth > 0 /\ ~(batchDepth > 1)
    BY <1>2, <1>5 DEF Step
  <1>7. CASE writeBatchStart = 0
    <2>1. todo' = <<x>>
      BY <1>1, <1>5, <1>6, <1>7
    <2>2. DOMAIN todo' = {1} /\ todo'[1] = x
      BY <2>1, OneStep
    <2>3. StepIn(todo', Placings, position) /\ \A q : StepIn(todo', Placings, q) => q = position
      BY <1>6, <2>2 DEF StepIn, Placings
    <2>4. \A i \in DOMAIN todo' : todo'[i].op = "or"
      BY <1>6, <2>2
    <2> QED BY <1>1, <1>3, <1>4, <1>6, <1>7, <2>3, <2>4 DEF EndOf
  <1>8. CASE writeBatchStart # 0
    <2>1. Finish(writeBatchStart) = Step("or", writeBatchStart, {}) /\ writeBatchStart \in Slots
      BY <1>6, <1>8, StartHeldBack
    <2>2. PICK y \in JSSteps : y = Step("or", writeBatchStart, {})
      <3>1. {} \in SUBSET Bits
        OBVIOUS
      <3> QED BY <2>1, <3>1, StepTypes
    <2>3. todo' = <<x>> \o <<y>>
      <3>1. <<Step(IF batchDepth > 1 THEN "load" ELSE "or", position, {})>> = <<x>>
        BY <1>5, <1>6
      <3>2. (IF writeBatchStart # 0 THEN <<Finish(writeBatchStart)>> ELSE <<>>) = <<y>>
        BY <1>8, <2>1, <2>2
      <3> QED BY <1>1, <3>1, <3>2
    <2>4. DOMAIN todo' = {1, 2} /\ todo'[1] = x /\ todo'[2] = y
      <3>1. <<y>> \in Seq(JSSteps) /\ Len(<<y>>) = 1 /\ <<y>>[1] = y
        OBVIOUS
      <3>2. PICK next \in Seq(JSSteps) : next = <<y>>
        BY <3>1
      <3>3. PICK b : b = todo'
        OBVIOUS
      <3>4. b = <<x>> \o next
        BY <2>3, <3>2, <3>3
      <3>5. /\ b[1] = x /\ DOMAIN b = 1..Len(next) + 1
            /\ \A i \in DOMAIN b : i # 1 => b[i] = next[i - 1]
        BY <3>4, StepBefore
      <3>6. Len(next) = 1 /\ next[1] = y
        BY <3>1, <3>2
      <3> QED BY <3>3, <3>5, <3>6
    <2>5. y.op = "or" /\ y.slot = writeBatchStart
      BY <2>2 DEF Step
    <2>6. /\ StepIn(todo', Placings, position) /\ StepIn(todo', Placings, writeBatchStart)
          /\ \A q : StepIn(todo', Placings, q) => q = position \/ q = writeBatchStart
      BY <1>6, <2>4, <2>5 DEF StepIn, Placings
    <2>7. \A i \in DOMAIN todo' : todo'[i].op = "or"
      BY <1>6, <2>4, <2>5
    <2> QED BY <1>1, <1>3, <1>4, <1>6, <2>6, <2>7 DEF EndOf
  <1> QED BY <1>7, <1>8

LEMMA PendingNext ==
  ASSUME NEW s
  PROVE  Pending(s)' <=> StepIn(todo', Placings, s)
  BY DEF Pending, StepIn

LEMMA EndPlacedInv ==
  ASSUME OrderInv, PlacedInv, EndOf
  PROVE  PlacedInv'
  <1>1. position \in Slots /\ position \in Nat /\ position' = position + 1 /\ Slots \subseteq Nat
    BY OrderTypes DEF OrderInv, EndOf
  <1>2. \A s \in Slots : s < position' <=> s < position \/ s = position
    BY <1>1
  <1>3. NoGaps'
    BY <1>2 DEF PlacedInv, NoGaps, EndOf
  <1>4. word' = word /\ txnOf' = txnOf
    BY DEF EndOf
  <1>5. PointersWritten'
    <2>1. \A s \in Slots : kind'[s] = "pointer" => kind[s] = "pointer"
      BY DEF EndOf
    <2> QED BY <1>4, <2>1 DEF PlacedInv, PointersWritten, Written
  <1>6. WrittenSoon'
    <2> SUFFICES ASSUME NEW s \in Slots, kind'[s] \in Listed \cup {"end"}, ~Written(s)'
                 PROVE  Pending(s)' \/ (s = writeBatchStart' /\ batchDepth' > 0)
      BY DEF WrittenSoon
    <2> USE PendingNext
    <2>1. CASE s = position
      BY <2>1 DEF EndOf
    <2>2. CASE s # position
      <3>1. kind[s] \in Listed \cup {"end"} /\ ~Written(s)
        BY <1>4, <2>2 DEF EndOf, Written
      <3>2. ~Pending(s)
        BY NothingPending DEF EndOf
      <3>3. s = writeBatchStart /\ s # 0
        BY <3>1, <3>2, SlotFacts DEF PlacedInv, WrittenSoon
      <3> QED BY <3>3 DEF EndOf
    <2> QED BY <2>1, <2>2
  <1>7. Alone'
    <2> SUFFICES ASSUME NEW i \in DOMAIN todo',
                        todo'[i].op \in {"load", "store"}, kind'[todo'[i].slot] # "end"
                 PROVE  FALSE
      BY DEF Alone
    <2>1. todo'[i].op = "or" \/ (todo'[i].op = "load" /\ todo'[i].slot = position)
      BY DEF EndOf
    <2>2. kind'[position] = "end"
      BY DEF EndOf
    <2> QED BY <2>1, <2>2
  <1>8. TakenWereWritten'
    BY <1>4 DEF PlacedInv, TakenWereWritten, Written
  <1> QED BY <1>3, <1>5, <1>6, <1>7, <1>8 DEF PlacedInv

LEMMA CallPlacedInv ==
  ASSUME OrderInv, PlacedInv, NEW k \in Listed, NEW own \in BOOLEAN, NEW s, NEW opens, NEW pointers,
         CallOf(k, own, s, opens, pointers)
  PROVE  PlacedInv'
  <1>1. Places(k, s, opens, pointers) /\ todo = <<>> /\ Inv /\ FreshSlots
    BY DEF CallOf, OrderInv, Placement
  <1>2. /\ s \in Slots /\ opens \in BOOLEAN /\ position <= s /\ position \in Nat /\ position' \in Nat
        /\ opens => position \in Slots /\ position < s /\ turn = 0 /\ batchDepth = 0
        /\ ~opens => s = position
        /\ kind'[s] = k /\ (opens => kind'[position] = "start")
        /\ \A q \in Slots : q < position => kind'[q] = kind[q] /\ word'[q] = word[q]
        /\ \A q \in Slots : position <= q /\ q # s /\ ~(opens /\ q = position) =>
              kind'[q] \notin Listed \cup {"end"}
    BY <1>1, PlacesBefore
  <1>3. Slots \subseteq Nat /\ batchDepth \in Nat /\ 0 \notin Slots /\ Slots \subseteq Positions
    BY <1>1, OrderTypes, OpenCount, SlotFacts
  <1>4. \A q \in Slots : q \in pointers => kind'[q] = "pointer" /\ word'[q] = {"INSTR"}
    BY <1>1, <1>2, <1>3 DEF Places
  <1>5. NoGaps'
    <2> SUFFICES ASSUME NEW q \in Slots, q < position' PROVE kind'[q] # "none"
      BY DEF NoGaps
    <2>1. CASE q < position
      BY <1>2, <2>1 DEF PlacedInv, NoGaps
    <2>2. CASE position <= q
      <3>1. q = s \/ (opens /\ q = position) \/ q \in pointers
        BY <2>2 DEF CallOf
      <3>2. k # "none"
        BY DEF Listed
      <3> QED BY <1>2, <1>4, <3>1, <3>2
    <2> QED BY <1>2, <1>3, <2>1, <2>2
  <1>6. PointersWritten'
    <2> SUFFICES ASSUME NEW q \in Slots, kind'[q] = "pointer" PROVE "INSTR" \in word'[q]
      BY DEF PointersWritten, Written
    <2>1. CASE q < position
      BY <1>2, <2>1 DEF PlacedInv, PointersWritten, Written
    <2>2. CASE position <= q
      <3>1. kind[q] = "none"
        BY <1>1, <2>2 DEF FreshSlots
      <3>2. q \in pointers
        BY <1>1, <1>2, <3>1 DEF Places, Listed
      <3> QED BY <1>4, <3>2
    <2> QED BY <1>2, <1>3, <2>1, <2>2
  <1>7. WrittenSoon'
    <2> SUFFICES ASSUME NEW q \in Slots, kind'[q] \in Listed \cup {"end"}, ~Written(q)'
                 PROVE  Pending(q)' \/ (q = writeBatchStart' /\ batchDepth' > 0)
      BY DEF WrittenSoon
    <2>1. batchDepth' = (IF opens THEN 1 ELSE batchDepth) + (IF k = "start" THEN 2 ELSE 0)
      BY DEF CallOf
    <2>2. CASE q < position
      <3>1. kind[q] \in Listed \cup {"end"} /\ ~Written(q) /\ ~Pending(q)
        BY <1>1, <1>2, <2>2, NothingPending DEF Written
      <3>2. q = writeBatchStart /\ batchDepth > 0
        BY <3>1 DEF PlacedInv, WrittenSoon
      <3>3. ~opens
        BY <1>2, <3>2, <1>3
      <3>4. writeBatchStart' = writeBatchStart
        BY <1>3, <3>2, <3>3 DEF CallOf
      <3> QED BY <1>3, <2>1, <3>2, <3>3, <3>4
    <2>3. CASE position <= q
      <3>1. q = s \/ (opens /\ q = position)
        BY <1>2, <2>3
      <3>2. CASE opens /\ q = position
        <4>1. writeBatchStart' = position
          BY <3>2 DEF CallOf
        <4> QED BY <2>1, <3>2, <4>1
      <3>3. CASE q = s /\ ~opens /\ batchDepth = 0 /\ k = "start"
        <4>1. writeBatchStart' = s
          BY <3>3 DEF CallOf
        <4> QED BY <2>1, <3>3, <4>1
      <3>4. CASE q = s /\ (opens \/ batchDepth # 0 \/ k # "start")
        <4>1. PICK op \in {"load", "or"} : op = IF opens \/ batchDepth > 0 THEN "load" ELSE "or"
          OBVIOUS
        <4>2. PICK x \in JSSteps : x = Step(op, s, {})
          <5>1. {} \in SUBSET Bits
            OBVIOUS
          <5> QED BY <1>2, <5>1, StepTypes
        <4>3. todo' = <<x>>
          BY <1>3, <3>4, <4>1, <4>2 DEF CallOf
        <4>4. DOMAIN todo' = {1} /\ todo'[1] = x
          BY <4>3, OneStep
        <4> QED BY <3>4, <4>1, <4>2, <4>4 DEF Pending, Placings, Step
      <3> QED BY <3>1, <3>2, <3>3, <3>4
    <2> QED BY <1>2, <1>3, <2>2, <2>3
  <1>8. Alone'
    <2>1. todo' = <<>> \/ \E x : todo' = <<x>>
      BY DEF CallOf
    <2>2. \A i \in DOMAIN todo' : Len(todo') = 1
      BY <2>1
    <2> QED BY <2>2 DEF Alone
  <1>9. TakenWereWritten'
    <2> SUFFICES ASSUME NEW q \in Slots, txnOf'[q] # 0 PROVE "INSTR" \in word'[q]
      BY DEF TakenWereWritten, Written
    <2>1. Written(q)
      BY DEF PlacedInv, TakenWereWritten, CallOf
    <2>2. q < position
      BY <1>1, <1>3, <2>1, WrittenIsPlaced
    <2> QED BY <1>2, <2>1, <2>2 DEF Written
  <1> QED BY <1>5, <1>6, <1>7, <1>8, <1>9 DEF PlacedInv

(* The steps of a call that place nothing.                                  *)
Idle(a) == a \in Seq(JSSteps) /\ \A i \in DOMAIN a : a[i].op \notin Placings \cup {"callbacks"}

LEMMA IdleConcat ==
  ASSUME NEW a, NEW b, Idle(a), Idle(b)
  PROVE  Idle(a \o b)
  <1>1. a \in Seq(JSSteps) /\ b \in Seq(JSSteps)
    BY DEF Idle
  <1>3. ASSUME NEW i \in DOMAIN (a \o b)
        PROVE  (a \o b)[i].op \notin Placings \cup {"callbacks"}
    <2>1. Len(a) \in Nat /\ Len(b) \in Nat /\ i \in 1..Len(a) + Len(b)
          /\ DOMAIN a = 1..Len(a) /\ DOMAIN b = 1..Len(b)
      BY <1>1
    <2>2. CASE i <= Len(a)
      <3>1. (a \o b)[i] = a[i] /\ i \in DOMAIN a
        BY <1>1, <2>1, <2>2
      <3> QED BY <3>1 DEF Idle
    <2>3. CASE ~(i <= Len(a))
      <3>1. (a \o b)[i] = b[i - Len(a)] /\ i - Len(a) \in DOMAIN b
        BY <1>1, <2>1, <2>3
      <3> QED BY <3>1 DEF Idle
    <2> QED BY <2>2, <2>3
  <1> QED BY <1>1, <1>3, Concat DEF Idle

LEMMA IdleSteps ==
  /\ Idle(<<>>) /\ Idle(Resolve)
  /\ \A s \in Slots : Idle(<<Step("promise", s, {})>>)
  <1>1. <<>> \in Seq(JSSteps) /\ Resolve \in Seq(JSSteps)
    BY StepTypes
  <1>2. Idle(<<>>)
    BY <1>1 DEF Idle
  <1>3. Idle(Resolve)
    BY <1>1 DEF Idle, Resolve, Step, Placings
  <1>4. ASSUME NEW s \in Slots PROVE Idle(<<Step("promise", s, {})>>)
    <2>1. {} \in SUBSET Bits
      OBVIOUS
    <2>2. PICK x \in JSSteps : x = Step("promise", s, {})
      BY <2>1, StepTypes
    <2>3. <<x>> \in Seq(JSSteps)
      OBVIOUS
    <2>4. \A i \in DOMAIN <<x>> : <<x>>[i].op = "promise"
      BY <2>2 DEF Step
    <2> QED BY <2>2, <2>3, <2>4 DEF Idle, Placings
  <1> QED BY <1>2, <1>3, <1>4

GoesOn(a) == todo # <<>> /\ Idle(a) /\ todo' = a \o Tail(todo)

LEMMA IdleStep ==
  ASSUME OrderInv, JavaScriptStep, ~Load, ~Store, ~Or
  PROVE  /\ todo # <<>> /\ Head(todo).op \notin Placings
         /\ todo' = todo \/ \E a : GoesOn(a)
         /\ UNCHANGED <<word, kind, position, writeBatchStart, batchDepth, txnOf, ownPromise>>
  <1>1. ASSUME todo' = Tail(todo), todo # <<>> PROVE \E a : GoesOn(a)
    <2>1. Tail(todo) = <<>> \o Tail(todo)
      BY <1>1, OrderTypes DEF OrderInv
    <2> QED BY <1>1, <2>1, IdleSteps DEF GoesOn
  <1>2. CASE Seen
    <2>1. PICK s, from \in {0} \cup Slots, loops \in {<<>>, Resolve} :
            /\ todo # <<>> /\ Head(todo).op = "seen" /\ s \in Slots
            /\ todo' = loops \o <<Step("promise", s, {})>> \o Tail(todo)
      BY <1>2, SeenFacts
    <2>2. PICK a : a = loops \o <<Step("promise", s, {})>>
      OBVIOUS
    <2>3. Idle(a) /\ todo' = a \o Tail(todo)
      BY <2>1, <2>2, IdleSteps, IdleConcat
    <2>4. UNCHANGED <<word, kind, position, writeBatchStart, batchDepth, txnOf, ownPromise>>
      BY <1>2 DEF Seen, shared, placing, batching, history
    <2> QED BY <2>1, <2>3, <2>4 DEF GoesOn, Placings
  <1>3. CASE ReturnPromise
    BY <1>1, <1>3 DEF ReturnPromise, Doing, Placings, shared, placing, batching, writing, history
  <1>4. CASE AdvanceUnwritten
    <2>1. todo # <<>> /\ Head(todo).op = "unwritten" /\ (todo' = todo \/ todo' = Tail(todo))
      BY <1>4 DEF AdvanceUnwritten, Doing
    <2>2. UNCHANGED <<word, kind, position, writeBatchStart, batchDepth, txnOf, ownPromise>>
      BY <1>4 DEF AdvanceUnwritten, shared, placing, batching, writing, history
    <2> QED BY <1>1, <2>1, <2>2 DEF Placings
  <1>5. CASE SettleTxn
    <2>1. todo # <<>> /\ Head(todo).op = "committed" /\ (todo' = todo \/ todo' = Tail(todo))
      BY <1>5 DEF SettleTxn, Doing
    <2>2. UNCHANGED <<word, kind, position, writeBatchStart, batchDepth, txnOf, ownPromise>>
      BY <1>5 DEF SettleTxn, shared, placing, batching, writing, history
    <2> QED BY <1>1, <2>1, <2>2 DEF Placings
  <1>6. CASE RunCallbacks
    BY <1>1, <1>6 DEF RunCallbacks, Doing, Placings, placing, batching, writing, history
  <1> QED BY <1>2, <1>3, <1>4, <1>5, <1>6 DEF JavaScriptStep

LEMMA IdleStepPending ==
  ASSUME OrderInv, todo # <<>>, Head(todo).op \notin Placings,
         todo' = todo \/ \E a : GoesOn(a), NEW s
  PROVE  Pending(s)' <=> Pending(s)
  <1>1. CASE todo' = todo
    BY <1>1 DEF Pending
  <1>2. ASSUME NEW a, GoesOn(a) PROVE Pending(s)' <=> Pending(s)
    <2>1. a \in Seq(JSSteps) /\ todo' = a \o Tail(todo) /\ ~StepIn(a, Placings, s)
      BY <1>2 DEF GoesOn, Idle, StepIn
    <2>2. StepIn(todo, Placings, s) <=> StepIn(Tail(todo), Placings, s)
      BY <2>1, StepInNext
    <2>3. StepIn(todo', Placings, s) <=> StepIn(Tail(todo), Placings, s)
      BY <2>1, StepInNext
    <2>4. Pending(s)' <=> StepIn(todo', Placings, s)
      BY DEF Pending, StepIn
    <2> QED BY <2>2, <2>3, <2>4, PendingIn
  <1> QED BY <1>1, <1>2

(* What a call adds in front is no load or store.                           *)
LEMMA AloneGoesOn ==
  ASSUME OrderInv, PlacedInv, todo # <<>>, NEW a \in Seq(JSSteps), todo' = a \o Tail(todo),
         UNCHANGED kind, \A i \in DOMAIN a : a[i].op \notin {"load", "store"}
  PROVE  Alone'
  <1> SUFFICES ASSUME NEW i \in DOMAIN todo',
                      todo'[i].op \in {"load", "store"}, kind[todo'[i].slot] # "end"
               PROVE  FALSE
    BY DEF Alone
  <1>1. todo \in Seq(JSSteps)
    BY OrderTypes DEF OrderInv
  <1>2. PICK b : b = todo'
    OBVIOUS
  <1>3. /\ Len(a) \in Nat /\ DOMAIN todo = 1..Len(todo) /\ Len(todo) \in Nat
        /\ \A j \in DOMAIN b : j \in DOMAIN a => b[j] = a[j]
        /\ \A j \in DOMAIN b : j \notin DOMAIN a =>
             /\ j - Len(a) + 1 \in DOMAIN todo /\ j - Len(a) + 1 # 1
             /\ b[j] = todo[j - Len(a) + 1]
    <2>1. b = a \o Tail(todo)
      BY <1>2
    <2> QED BY ONLY <1>1, <2>1, todo # <<>>, a \in Seq(JSSteps), ReplaceHead
  <1>4. i \notin DOMAIN a
    BY <1>2, <1>3
  <1>5. PICK j \in DOMAIN todo : j # 1 /\ todo'[i] = todo[j]
    BY <1>2, <1>3, <1>4
  <1>6. Len(todo) = 1
    BY <1>5 DEF PlacedInv, Alone
  <1> QED BY <1>3, <1>5, <1>6

LEMMA StepPlacedInv ==
  ASSUME OrderInv, PlacedInv, JavaScriptStep, ~Load, ~Store, ~Or
  PROVE  PlacedInv'
  <1>1. /\ todo # <<>> /\ Head(todo).op \notin Placings
        /\ todo' = todo \/ \E a : GoesOn(a)
        /\ UNCHANGED <<word, kind, position, writeBatchStart, batchDepth, txnOf>>
    BY IdleStep
  <1>2. \A s \in Slots : Pending(s) => Pending(s)'
    BY <1>1, IdleStepPending
  <1>3. Alone'
    <2>1. CASE todo' = todo
      BY <1>1, <2>1 DEF PlacedInv, Alone
    <2>2. ASSUME NEW a, GoesOn(a) PROVE Alone'
      <3>1. /\ a \in Seq(JSSteps) /\ todo' = a \o Tail(todo)
            /\ \A i \in DOMAIN a : a[i].op \notin {"load", "store"}
        BY <2>2 DEF GoesOn, Idle, Placings
      <3> QED BY <1>1, <3>1, AloneGoesOn
    <2> QED BY <1>1, <2>1, <2>2
  <1>4. \A s \in Slots : Written(s)' <=> Written(s)
    BY <1>1 DEF Written
  <1> QED BY <1>1, <1>2, <1>3, <1>4, StillPlaced

LEMMA LoadPlacedInv ==
  ASSUME OrderInv, PlacedInv, Load
  PROVE  PlacedInv' /\ \A s : Pending(s)' <=> Pending(s)
  <1>1. PICK s \in Slots, x \in JSSteps :
           /\ todo # <<>> /\ Head(todo).op = "load" /\ Head(todo).slot = s
           /\ x.op = "store" /\ x.slot = s /\ todo' = <<x>> \o Tail(todo)
           /\ UNCHANGED <<word, writeBatchStart>>
    BY LoadIs
  <1>2. UNCHANGED <<kind, position, batchDepth, txnOf>>
    BY DEF Load, placing, batching, writing, history
  <1>3. <<x>> \in Seq(JSSteps)
    OBVIOUS
  <1>4. ASSUME NEW q PROVE Pending(q)' <=> Pending(q)
    <2>1. StepIn(todo, Placings, q) <=> s = q \/ StepIn(Tail(todo), Placings, q)
      BY <1>1, <1>3, StepInNext DEF Placings
    <2>2. StepIn(todo', Placings, q) <=> StepIn(<<x>>, Placings, q) \/ StepIn(Tail(todo), Placings, q)
      BY <1>1, <1>3, StepInNext
    <2>3. StepIn(<<x>>, Placings, q) <=> s = q
      BY <1>1, StepInOne DEF Placings
    <2>4. Pending(q)' <=> StepIn(todo', Placings, q)
      BY DEF Pending, StepIn
    <2> QED BY <2>1, <2>2, <2>3, <2>4, PendingIn
  <1>5. Alone'
    <2>1. todo \in Seq(JSSteps)
      BY OrderTypes DEF OrderInv
    <2>2. PICK b : b = todo'
      OBVIOUS
    <2>3. /\ DOMAIN b = 1..Len(todo) /\ Len(todo) \in Nat /\ Len(b) = Len(todo)
          /\ 1 \in DOMAIN todo /\ todo[1] = Head(todo) /\ b[1] = x
          /\ \A j \in DOMAIN b : j \in DOMAIN todo /\ (j # 1 => b[j] = todo[j])
      BY <1>1, <2>1, <2>2
    <2>4. ASSUME NEW i \in DOMAIN b, b[i].op \in {"load", "store"}, kind[b[i].slot] # "end"
          PROVE  Len(b) = 1
      <3>1. CASE i = 1
        BY <1>1, <2>3, <2>4, <3>1 DEF PlacedInv, Alone
      <3>2. CASE i # 1
        BY <2>3, <2>4, <3>2 DEF PlacedInv, Alone
      <3> QED BY <3>1, <3>2
    <2> QED BY <1>2, <2>2, <2>4 DEF Alone
  <1>6. \A q \in Slots : Written(q)' <=> Written(q)
    BY <1>1 DEF Written
  <1>7. PlacedInv'
    BY <1>1, <1>2, <1>4, <1>5, <1>6, StillPlaced
  <1> QED BY <1>4, <1>7

LEMMA WritesPending ==
  ASSUME OrderInv, NEW s \in Slots, NEW a, Writes(s, a), NEW q
  PROVE  /\ Pending(q) <=> q = s \/ StepIn(Tail(todo), Placings, q)
         /\ Pending(q)' <=> StepIn(a, Placings, q) \/ StepIn(Tail(todo), Placings, q)
  <1>1. /\ a \in Seq(JSSteps) /\ todo # <<>> /\ todo' = a \o Tail(todo)
        /\ Head(todo).op \in Placings /\ Head(todo).slot = s
    BY DEF Writes, Placings
  <1>2. Pending(q)' <=> StepIn(todo', Placings, q)
    BY DEF Pending, StepIn
  <1> QED BY <1>1, <1>2, StepInNext, PendingIn

LEMMA WritesPlacedInv ==
  ASSUME OrderInv, PlacedInv, NEW s \in Slots, NEW a, Writes(s, a),
         UNCHANGED <<kind, position, batchDepth, txnOf>>
  PROVE  PlacedInv'
  <1>1. \A q \in Slots : Written(q)' <=> Written(q) \/ q = s
    BY SlotFacts DEF Writes, Written
  <1>2. NoGaps' /\ PointersWritten' /\ TakenWereWritten'
    BY <1>1 DEF PlacedInv, NoGaps, PointersWritten, TakenWereWritten
  <1>3. WrittenSoon'
    <2> SUFFICES ASSUME NEW q \in Slots, kind'[q] \in Listed \cup {"end"}, ~Written(q)'
                 PROVE  Pending(q)' \/ (q = writeBatchStart' /\ batchDepth' > 0)
      BY DEF WrittenSoon
    <2>1. q # s /\ ~Written(q) /\ kind[q] \in Listed \cup {"end"}
      BY <1>1
    <2>2. CASE Pending(q)
      BY <2>1, <2>2, WritesPending
    <2>3. CASE ~Pending(q)
      <3>1. q = writeBatchStart /\ batchDepth > 0
        BY <2>1, <2>3 DEF PlacedInv, WrittenSoon
      <3> QED BY <3>1, WritesPending DEF Writes
    <2> QED BY <2>2, <2>3
  <1>4. Alone'
    <2>1. /\ todo # <<>> /\ a \in Seq(JSSteps) /\ todo' = a \o Tail(todo)
          /\ \A i \in DOMAIN a : a[i].op \notin {"load", "store"}
      BY DEF Writes
    <2> QED BY <2>1, AloneGoesOn
  <1> QED BY <1>2, <1>3, <1>4 DEF PlacedInv

LEMMA WritesStep ==
  ASSUME OrderInv, Store \/ Or
  PROVE  /\ \E s \in Slots : \E a : Writes(s, a)
         /\ UNCHANGED <<kind, position, batchDepth, txnOf, callbacks, nextTxnCallbacks, ran, unwritten,
                        resolutions, worker, lock, ownPromise>>
  <1>1. CASE Store
    BY <1>1, StoreIs DEF Store, placing, callbackVars, resolving, writing, history
  <1>2. CASE Or
    BY <1>2, OrIs DEF Or, placing, batching, callbackVars, resolving, writing, history
  <1> QED BY <1>1, <1>2

(* The events that place nothing.                                           *)
LEMMA OtherEvent ==
  ASSUME OrderInv, Event, ~CloseBlock, ~EndTurn
  PROVE  /\ todo = <<>>
         /\ UNCHANGED <<word, kind, position, writeBatchStart, batchDepth, txnOf, ownPromise, callbacks,
                        nextTxnCallbacks, ran, unwritten, resolutions>>
         /\ \A i \in DOMAIN todo' : todo'[i].op \notin Placings
  <1>1. CASE CommitTimer
    BY <1>1 DEF CommitTimer, shared, placing, batching, history, callbackVars, resolving
  <1>2. ASSUME NEW w \in Slots, Completion(w) \/ Progress(w)
        PROVE  /\ todo = <<>>
               /\ UNCHANGED <<word, kind, position, writeBatchStart, batchDepth, txnOf, ownPromise,
                              callbacks, nextTxnCallbacks, ran, unwritten, resolutions>>
               /\ \A i \in DOMAIN todo' : todo'[i].op \notin Placings
    <2>1. /\ todo = <<>>
          /\ UNCHANGED <<word, kind, position, writeBatchStart, batchDepth, txnOf, ownPromise,
                         callbacks, nextTxnCallbacks, ran, unwritten, resolutions>>
          /\ todo' = Resolve \o <<>> \/ todo' = Resolve \o <<Step("callbacks", w, {})>>
      BY <1>2 DEF Completion, Progress, ObserveTxn, shared, placing, batching, history,
                  callbackVars, resolving
    <2>2. {} \in SUBSET Bits
      OBVIOUS
    <2>3. /\ Resolve \in Seq(JSSteps) /\ <<>> \in Seq(JSSteps)
          /\ <<Step("callbacks", w, {})>> \in Seq(JSSteps)
      <3>1. PICK x \in JSSteps : x = Step("callbacks", w, {})
        BY <2>2, StepTypes
      <3>2. <<x>> \in Seq(JSSteps)
        OBVIOUS
      <3> QED BY <3>1, <3>2, StepTypes
    <2>4. Plain(Resolve) /\ Plain(<<>>) /\ Plain(<<Step("callbacks", w, {})>>)
      BY PlainResolve
    <2>5. Plain(todo')
      BY <2>1, <2>3, <2>4, PlainConcat
    <2> QED BY <2>1, <2>5 DEF Plain
  <1> QED BY <1>1, <1>2 DEF Event

LEMMA PlacedNext ==
  ASSUME OrderInv, PlacedInv, [Next]_vars
  PROVE  PlacedInv'
  <1>1. CASE Call
    BY <1>1, CallIs, CallPlacedInv
  <1>2. CASE Event
    <2>1. CASE CloseBlock \/ EndTurn
      BY <2>1, CloseBlockEnds, EndTurnEnds, EndPlacedInv
    <2>2. CASE ~CloseBlock /\ ~EndTurn
      <3>1. /\ todo = <<>>
            /\ UNCHANGED <<word, kind, position, writeBatchStart, batchDepth, txnOf>>
            /\ \A i \in DOMAIN todo' : todo'[i].op \notin Placings
        BY <1>2, <2>2, OtherEvent
      <3>2. Alone'
        BY <3>1 DEF Alone, Placings
      <3>3. \A s \in Slots : Written(s)' <=> Written(s)
        BY <3>1 DEF Written
      <3> QED BY <3>1, <3>2, <3>3, NothingPending, StillPlaced
    <2> QED BY <2>1, <2>2
  <1>3. CASE JavaScriptStep
    <2>1. CASE Load
      BY <2>1, LoadPlacedInv
    <2>2. CASE Store \/ Or
      BY <2>2, WritesStep, WritesPlacedInv
    <2> QED BY <1>3, <2>1, <2>2, StepPlacedInv
  <1>4. ASSUME NEW w \in Slots, WorkerStep(w) PROVE PlacedInv'
    BY <1>4, WorkerPlaced
  <1>5. CASE UNCHANGED vars
    BY <1>5 DEF vars, shared, placing, batching, writing, history, PlacedInv, NoGaps, PointersWritten,
                WrittenSoon, Alone, TakenWereWritten, Written, Pending
  <1> QED BY <1>1, <1>2, <1>3, <1>4, <1>5 DEF Next, Quiescent

-----------------------------------------------------------------------------
(* Where callbacks are kept.                                                *)

LEMMA CallbackTypes ==
  ASSUME OrderInv
  PROVE  /\ callbacks \in [Slots -> {0} \cup Slots] /\ nextTxnCallbacks \subseteq Slots
         /\ ran \in [Slots -> {0} \cup Slots] /\ unwritten \in Nat /\ 0 \notin Slots
         /\ resolutions \in Seq(Slots) /\ txnOf \in [Slots -> {0} \cup Slots]
         /\ Slots \subseteq Nat /\ position \in Nat /\ Slots \subseteq Positions
  BY OrderTypes, SlotFacts DEF OrderInv, Inv, TypeInv, TypeOK, TypeCallbacks, TypeResolving

(* A step that writes, or is about to write, a slot where a callback is     *)
(* kept, has everything written up to the callback.                         *)
FillsIn ==
  \A h, s \in Slots :
    KeptWith(h, s) /\ ("INSTR" \in word'[h] \/ StepIn(todo', Placings, h)) =>
      \A p \in Slots : h < p /\ p <= s => "INSTR" \in word'[p]

LEMMA KeptWithStays ==
  ASSUME OrderInv, Grows, NEW list \in Seq(Slots), Extends(list), FillsIn,
         NEW h \in Slots, NEW s \in Slots, KeptWith(h, s),
         ran'[s] = 0, s \notin nextTxnCallbacks',
         unwritten' \in Nat, \A i \in DOMAIN resolutions : resolutions[i] = h => unwritten' <= i
  PROVE  KeptWith(h, s)'
  <1>1. Slots \subseteq Nat /\ position \in Nat /\ position' \in Nat /\ position <= position'
    BY CallbackTypes DEF Grows
  <1>2. h <= s /\ s < position' /\ s < position /\ h < position
    BY <1>1 DEF KeptWith
  <1>3. kind'[h] \in Listed /\ kind'[s] = "callback"
    BY <1>2 DEF KeptWith, Grows
  <1>4. ASSUME NEW i \in DOMAIN list, list[i] = h PROVE unwritten' <= i
    <2>1. resolutions \in Seq(Slots) /\ i \in Nat /\ i > 0 /\ Len(resolutions) \in Nat
          /\ DOMAIN resolutions = 1..Len(resolutions)
      BY CallbackTypes
    <2>2. i <= Len(resolutions)
      BY <1>1, <1>2, <1>4, <2>1 DEF Extends
    <2>3. i \in DOMAIN resolutions
      BY ONLY <2>1, <2>2
    <2> QED BY <1>4, <2>3 DEF Extends
  <1>5. Written(h)' \/ Pending(h)' => Filled(h, s)'
    BY PendingNext DEF FillsIn, Filled, Written
  <1>6. resolutions' = list
    BY DEF Extends
  <1> QED BY <1>2, <1>3, <1>4, <1>5, <1>6 DEF KeptWith

LEMMA QueuedStays ==
  ASSUME OrderInv, Grows, NEW s \in Slots, QueuedToRun(s), ran'[s] = 0
  PROVE  QueuedToRun(s)'
  <1>1. PICK h \in Slots : h <= s /\ txnOf[h] # 0 /\ Filled(h, s)
    BY DEF QueuedToRun
  <1>2. txnOf'[h] # 0
    BY <1>1 DEF Grows
  <1>3. Filled(h, s)'
    BY <1>1, CallbackTypes DEF Filled, Written, Grows
  <1>4. kind'[s] = "callback"
    <2>1. s < position
      <3>1. kind[s] # "none"
        BY DEF QueuedToRun
      <3> QED BY <3>1, CallbackTypes DEF OrderInv, Placement, FreshSlots
    <2> QED BY <2>1 DEF QueuedToRun, Grows
  <1> QED BY <1>1, <1>2, <1>3, <1>4 DEF QueuedToRun

(* Most steps leave the callbacks where they are.                           *)
LEMMA KeptStays ==
  ASSUME OrderInv, Grows, NEW list \in Seq(Slots), Extends(list), FillsIn,
         KeepingInv, UNCHANGED <<callbacks, nextTxnCallbacks, ran, unwritten>>,
         \A s \in Slots : kind'[s] = "callback" <=> kind[s] = "callback"
  PROVE  Kept' /\ Queued' /\ NoneLost' /\ (unwritten <= Len(resolutions) + 1)'
  <1>1. callbacks \in [Slots -> {0} \cup Slots] /\ unwritten \in Nat /\ nextTxnCallbacks \subseteq Slots
        /\ resolutions \in Seq(Slots)
    BY CallbackTypes
  <1>2. ASSUME NEW h \in Slots, callbacks[h] # 0 PROVE KeptWith(h, callbacks[h])'
    <2>1. PICK s \in Slots : s = callbacks[h]
      BY <1>1, <1>2
    <2>2. KeptWith(h, s)
      BY <1>2, <2>1 DEF KeepingInv, Kept
    <2>3. KeptWith(h, s)'
      <3>1. ran'[s] = 0 /\ s \notin nextTxnCallbacks' /\ unwritten' \in Nat
            /\ \A i \in DOMAIN resolutions : resolutions[i] = h => unwritten' <= i
        BY <1>1, <2>2 DEF KeptWith
      <3> QED BY <2>2, <3>1, KeptWithStays
    <2>4. callbacks'[h] = s
      BY <2>1
    <2> QED BY <2>3, <2>4 DEF KeptWith, Filled
  <1>3. Kept'
    BY <1>2 DEF KeepingInv, Kept
  <1>4. Queued'
    <2>1. \A s \in nextTxnCallbacks : s \in Slots /\ QueuedToRun(s) /\ ran'[s] = 0
      BY <1>1 DEF KeepingInv, Queued, QueuedToRun
    <2>2. \A s \in nextTxnCallbacks : QueuedToRun(s)'
      BY <2>1, QueuedStays
    <2> QED BY <2>2 DEF Queued
  <1>5. NoneLost'
    BY DEF KeepingInv, NoneLost
  <1>6. unwritten <= Len(list) + 1
    <2>1. unwritten <= Len(resolutions) + 1 /\ Len(resolutions) <= Len(list)
          /\ Len(resolutions) \in Nat /\ Len(list) \in Nat
      BY <1>1 DEF KeepingInv, Extends
    <2> QED BY <1>1, <2>1
  <1> QED BY <1>3, <1>4, <1>5, <1>6 DEF Extends

(* Nothing is written or placed but what was.                               *)
LEMMA FillsNothing ==
  ASSUME OrderInv, Grows,
         \A h \in Slots : "INSTR" \in word'[h] \/ StepIn(todo', Placings, h) =>
           Written(h) \/ Pending(h) \/ position <= h
  PROVE  FillsIn
  <1> SUFFICES ASSUME NEW h \in Slots, NEW s \in Slots, KeptWith(h, s),
                      "INSTR" \in word'[h] \/ StepIn(todo', Placings, h),
                      NEW p \in Slots, h < p, p <= s
               PROVE  "INSTR" \in word'[p]
    BY DEF FillsIn
  <1>1. ~(position <= h)
    BY CallbackTypes DEF KeptWith
  <1>2. Filled(h, s)
    BY <1>1 DEF KeptWith
  <1> QED BY <1>2, CallbackTypes DEF Filled, Written, Grows

LEMMA EndFills ==
  ASSUME OrderInv, PlacedInv, EndOf
  PROVE  FillsIn
  <1> SUFFICES ASSUME NEW h \in Slots, NEW s \in Slots, KeptWith(h, s),
                      "INSTR" \in word'[h] \/ StepIn(todo', Placings, h),
                      NEW p \in Slots, h < p, p <= s
               PROVE  "INSTR" \in word'[p]
    BY DEF FillsIn
  <1>1. word' = word
    BY DEF EndOf
  <1>2. h < position /\ p < position
    BY CallbackTypes DEF KeptWith
  <1>3. CASE Written(h)
    BY <1>1, <1>3 DEF KeptWith, Filled, Written
  <1>4. CASE ~Written(h)
    <2>1. h = writeBatchStart
      <3>1. h # position
        BY <1>2, CallbackTypes
      <3> QED BY <1>1, <1>4, <3>1 DEF EndOf, Written
    <2>2. ~Pending(p) /\ p # writeBatchStart
      BY <2>1, NothingPending, CallbackTypes DEF EndOf
    <2>3. Written(p)
      BY <1>2, <2>2, AllWritten
    <2> QED BY <1>1, <2>3 DEF Written
  <1> QED BY <1>3, <1>4

LEMMA TailOfOne ==
  ASSUME NEW q \in Seq(JSSteps), Len(q) = 1
  PROVE  DOMAIN Tail(q) = {}
  <1>1. q # <<>>
    OBVIOUS
  <1>2. Tail(q) \in Seq(JSSteps) /\ Len(Tail(q)) = Len(q) - 1
    BY <1>1
  <1>3. Len(q) - 1 = 0
    OBVIOUS
  <1>4. PICK t : t = Tail(q)
    OBVIOUS
  <1>5. t \in Seq(JSSteps) /\ Len(t) = 0
    BY <1>2, <1>3, <1>4, Zenon
  <1>6. DOMAIN t = {}
    BY <1>5
  <1> QED BY <1>4, <1>6

LEMMA WritesFill ==
  ASSUME OrderInv, PlacedInv, NEW w \in Slots, NEW a, Writes(w, a)
  PROVE  FillsIn
  <1> SUFFICES ASSUME NEW h \in Slots, NEW s \in Slots, KeptWith(h, s),
                      "INSTR" \in word'[h] \/ StepIn(todo', Placings, h),
                      NEW p \in Slots, h < p, p <= s
               PROVE  "INSTR" \in word'[p]
    BY DEF FillsIn
  <1>1. \A q \in Slots : "INSTR" \in word'[q] <=> Written(q) \/ q = w
    BY SlotFacts DEF Writes, Written
  <1>2. p < position /\ Slots \subseteq Nat
    BY CallbackTypes DEF KeptWith
  <1>3. CASE Written(h) \/ Pending(h)
    BY <1>1, <1>3 DEF KeptWith, Filled
  <1>4. CASE ~Written(h) /\ ~Pending(h)
    <2>1. h # w /\ ~StepIn(Tail(todo), Placings, h)
      BY <1>4, WritesPending
    <2>2. StepIn(a, Placings, h)
      BY <1>1, <1>4, <2>1, WritesPending, PendingNext
    <2>3. Head(todo).op = "store" /\ kind[w] # "end" /\ h = writeBatchStart /\ Head(todo).slot = w
      BY <2>2 DEF Writes
    <2>4. DOMAIN Tail(todo) = {}
      <3>1. 1 \in DOMAIN todo /\ todo[1] = Head(todo) /\ todo \in Seq(JSSteps)
        BY HeadStep, OrderTypes DEF OrderInv, Writes
      <3>2. Len(todo) = 1
        BY <2>3, <3>1 DEF PlacedInv, Alone
      <3> QED BY <3>1, <3>2, TailOfOne
    <2>5. Pending(p) => p = w
      <3>1. ~StepIn(Tail(todo), Placings, p)
        BY <2>4 DEF StepIn
      <3> QED BY <3>1, WritesPending
    <2>6. p # writeBatchStart
      BY <1>2, <2>3
    <2>7. Written(p) \/ p = w
      BY <1>2, <2>5, <2>6, AllWritten
    <2> QED BY <1>1, <2>7
  <1> QED BY <1>3, <1>4

-----------------------------------------------------------------------------
(* The workers, while JavaScript makes a step.                              *)

Rests(w) ==
  \/ worker'[w] = worker[w]
  \/ ~Launched(w) /\ (~Launched(w)' \/ worker'[w] = WorkerAt("queued", w))
  \/ Progress(w) /\ worker'[w] = [worker[w] EXCEPT !.finishedProgress = TRUE]

LEMMA StartsOne ==
  ASSUME OrderInv, NEW from \in {0} \cup Slots, from # 0 => \A w \in Slots : ~Launched(w),
         StartWriting(from), NEW w \in Slots
  PROVE  Rests(w)
  <1>1. worker \in [Slots -> WorkerRecords]
    BY OrderTypes DEF OrderInv
  <1>2. worker' = [worker EXCEPT ![from] = WorkerAt("queued", from)]
    BY DEF StartWriting
  <1>3. CASE w = from
    <2>1. worker'[w] = WorkerAt("queued", w) /\ ~Launched(w)
      BY <1>1, <1>2, <1>3, SlotFacts
    <2> QED BY <2>1 DEF Rests
  <1>4. CASE w # from
    <2>1. worker'[w] = worker[w]
      BY <1>1, <1>2, <1>4
    <2> QED BY <2>1 DEF Rests
  <1> QED BY <1>3, <1>4

LEMMA RestsNext ==
  ASSUME OrderInv, Call \/ Event \/ JavaScriptStep \/ UNCHANGED vars, NEW w \in Slots
  PROVE  Rests(w)
  <1>1. worker \in [Slots -> WorkerRecords]
    BY OrderTypes DEF OrderInv
  <1>2. ASSUME worker' = worker PROVE Rests(w)
    BY <1>2 DEF Rests
  <1>3. CASE Call
    <2>1. worker' = worker
      BY <1>3, CallIs DEF CallOf
    <2> QED BY <1>2, <2>1
  <1>4. CASE Event
    <2>1. CASE CloseBlock \/ EndTurn
      BY <1>2, <2>1, CloseBlockEnds, EndTurnEnds DEF EndOf
    <2>2. CASE CommitTimer
      <3>1. StartWriting(startAddress) /\ startAddress \in {0} \cup Slots
        BY <2>2, OrderTypes DEF CommitTimer, OrderInv
      <3>2. startAddress # 0 => \A v \in Slots : ~Launched(v)
        BY DEF OrderInv, Token, OneToken
      <3> QED BY <3>1, <3>2, StartsOne
    <2>3. ASSUME NEW v \in Slots, Completion(v) PROVE Rests(w)
      <3>1. worker[v].pc = "complete" /\ worker' = [worker EXCEPT ![v].pc = "done"]
        BY <2>3 DEF Completion
      <3>2. CASE w = v
        BY <1>1, <3>1, <3>2 DEF Rests, Launched, WorkerRecords
      <3>3. CASE w # v
        BY <1>1, <3>1, <3>3 DEF Rests
      <3> QED BY <3>2, <3>3
    <2>4. ASSUME NEW v \in Slots, Progress(v) PROVE Rests(w)
      <3>1. worker' = [worker EXCEPT ![v].finishedProgress = TRUE]
        BY <2>4 DEF Progress
      <3>2. CASE w = v
        <4>1. worker'[w] = [worker[w] EXCEPT !.finishedProgress = TRUE]
          BY <1>1, <3>1, <3>2
        <4> QED BY <2>4, <3>2, <4>1 DEF Rests
      <3>3. CASE w # v
        BY <1>1, <3>1, <3>3 DEF Rests
      <3> QED BY <3>2, <3>3
    <2> QED BY <1>4, <2>1, <2>2, <2>3, <2>4 DEF Event
  <1>5. CASE JavaScriptStep
    <2>1. CASE Seen
      <3>1. PICK s, from \in {0} \cup Slots, loops \in {<<>>, Resolve} :
              /\ from # 0 => \A v \in Slots : ~Launched(v)
              /\ \/ startAddress' = from /\ worker' = worker
                 \/ startAddress' = 0 /\ StartWriting(from)
        BY <2>1, SeenFacts
      <3> QED BY <1>2, <3>1, StartsOne
    <2>2. CASE ~Seen
      BY <1>2, <1>5, <2>2, StepsKeep
    <2> QED BY <2>1, <2>2
  <1>6. CASE UNCHANGED vars
    BY <1>2, <1>6 DEF vars, writing
  <1> QED BY <1>3, <1>4, <1>5, <1>6

LEMMA RestsFacts ==
  ASSUME OrderInv, NEW w \in Slots, Rests(w)
  PROVE  /\ worker'[w].pc = "mark" <=> worker[w].pc = "mark"
         /\ worker'[w].pc = "wait" <=> worker[w].pc = "wait"
         /\ Launched(w) => /\ Launched(w)' /\ worker'[w].pc = worker[w].pc
                           /\ worker'[w].at = worker[w].at /\ worker'[w].depth = worker[w].depth
                           /\ worker'[w].validated = worker[w].validated
                           /\ worker'[w].finishedProgress = worker[w].finishedProgress \/ Progress(w)
         /\ ~Launched(w) /\ Launched(w)' => worker'[w] = WorkerAt("queued", w)
  <1>1. worker[w] \in WorkerRecords
    BY OrderTypes DEF OrderInv
  <1>2. CASE worker'[w] = worker[w]
    BY <1>2 DEF Launched
  <1>3. CASE ~Launched(w) /\ (~Launched(w)' \/ worker'[w] = WorkerAt("queued", w))
    BY <1>3 DEF Launched, WorkerAt
  <1>4. CASE Progress(w) /\ worker'[w] = [worker[w] EXCEPT !.finishedProgress = TRUE]
    <2>1. worker[w].pc = "wait"
      BY <1>4 DEF Progress
    <2> QED BY <1>1, <1>4, <2>1 DEF Launched, WorkerRecords
  <1> QED BY <1>2, <1>3, <1>4 DEF Rests

-----------------------------------------------------------------------------
(* What was processed is reported.                                          *)

LEMMA FinishesRest ==
  ASSUME OrderInv, PlacedInv, Finishes, \A w \in Slots : Rests(w), UNCHANGED txnOf,
         \A s \in Slots : \/ word'[s] = word[s]
                          \/ ~Written(s) /\ (Has(word'[s], "FINISHED") => Has(word[s], "FINISHED"))
  PROVE  Finishes'
  <1>1. \A w \in Slots : /\ worker'[w].pc = "mark" <=> worker[w].pc = "mark"
                         /\ worker[w].pc = "mark" => worker'[w].at = worker[w].at
    BY RestsFacts DEF Launched
  <1>2. \A s \in Slots : txnOf[s] # 0 => word'[s] = word[s]
    BY DEF PlacedInv, TakenWereWritten
  <1>3. \A s \in Slots : Has(word'[s], "FINISHED") => Has(word[s], "FINISHED")
    BY DEF Has
  <1>4. \A s \in Slots : txnOf'[s] # 0 =>
          Has(word'[s], "FINISHED") \/ \E w \in Slots : worker'[w].pc = "mark" /\ worker'[w].at = s
    BY <1>1, <1>2 DEF Finishes
  <1>5. \A s \in Slots : Has(word'[s], "FINISHED") => txnOf'[s] # 0
    BY <1>3 DEF Finishes
  <1>6. \A w \in Slots : worker'[w].pc = "mark" => txnOf'[worker'[w].at] # 0
    BY <1>1 DEF Finishes
  <1> QED BY <1>4, <1>5, <1>6 DEF Finishes

(* The words of what was processed stay as they are when a worker marks the *)
(* slot where it ends or waits.                                             *)
LEMMA FinishesElsewhere ==
  ASSUME OrderInv, PlacedInv, Finishes, NEW w \in Slots, UNCHANGED txnOf,
         \A v \in Slots : v # w => worker'[v] = worker[v],
         worker[w].pc # "mark", worker'[w].pc # "mark",
         \A s \in Slots : /\ Has(word'[s], "FINISHED") => Has(word[s], "FINISHED")
                          /\ Written(s) /\ Has(word[s], "FINISHED") => Has(word'[s], "FINISHED")
  PROVE  Finishes'
  <1>1. \A v \in Slots : /\ worker'[v].pc = "mark" <=> worker[v].pc = "mark"
                         /\ worker[v].pc = "mark" => worker'[v].at = worker[v].at
    OBVIOUS
  <1>2. \A s \in Slots : txnOf[s] # 0 => Written(s)
    BY DEF PlacedInv, TakenWereWritten
  <1>3. \A s \in Slots : txnOf'[s] # 0 =>
          Has(word'[s], "FINISHED") \/ \E v \in Slots : worker'[v].pc = "mark" /\ worker'[v].at = s
    BY <1>1, <1>2 DEF Finishes
  <1>4. \A s \in Slots : Has(word'[s], "FINISHED") => txnOf'[s] # 0
    BY DEF Finishes
  <1>5. \A v \in Slots : worker'[v].pc = "mark" => txnOf'[worker'[v].at] # 0
    BY <1>1 DEF Finishes
  <1> QED BY <1>3, <1>4, <1>5 DEF Finishes

LEMMA OthersRest ==
  ASSUME OrderInv, NEW w \in Slots, WorkerStep(w)
  PROVE  \A v \in Slots : v # w => worker'[v] = worker[v]
  <1>1. worker \in [Slots -> WorkerRecords]
    BY OrderTypes DEF OrderInv
  <1>2. ASSUME Begin(w) \/ FollowPointer(w) \/ LeaveBlock(w) PROVE \A v \in Slots : v # w => worker'[v] = worker[v]
    BY ONLY <1>1, <1>2 DEF Begin, FollowPointer, LeaveBlock
  <1>3. ASSUME Execute(w) PROVE \A v \in Slots : v # w => worker'[v] = worker[v]
    BY ONLY <1>1, <1>3 DEF Execute
  <1>4. ASSUME Mark(w) \/ FetchEmpty(w) \/ Refetch(w) PROVE \A v \in Slots : v # w => worker'[v] = worker[v]
    BY ONLY <1>1, <1>4 DEF Mark, FetchEmpty, Refetch
  <1>5. ASSUME StartWait(w) \/ Wake(w) PROVE \A v \in Slots : v # w => worker'[v] = worker[v]
    BY ONLY <1>1, <1>5 DEF StartWait, Wake
  <1>6. ASSUME Delimit(w) \/ Commit(w) \/ Publish(w) PROVE \A v \in Slots : v # w => worker'[v] = worker[v]
    BY ONLY <1>1, <1>6 DEF Delimit, Commit, Publish
  <1> QED BY <1>2, <1>3, <1>4, <1>5, <1>6 DEF WorkerStep

LEMMA WorkerFinishes ==
  ASSUME OrderInv, PlacedInv, Finishes, NEW w \in Slots, WorkerStep(w)
  PROVE  Finishes'
  <1>1. worker \in [Slots -> WorkerRecords] /\ word \in [Positions -> SUBSET Bits]
        /\ Slots \subseteq Positions /\ txnOf \in [Slots -> {0} \cup Slots]
    BY OrderTypes DEF OrderInv
  <1>2. PICK n \in Positions : n = worker[w].at
    BY OrderTypes DEF OrderInv
  <1>3. \A v \in Slots : v # w => worker'[v] = worker[v]
    BY OthersRest
  <1>4. CASE Begin(w) \/ FollowPointer(w) \/ LeaveBlock(w) \/ FetchEmpty(w) \/ Refetch(w) \/ Wake(w)
             \/ Commit(w)
    <2>1. /\ UNCHANGED <<txnOf, word>> /\ worker[w].pc # "mark" /\ worker'[w].pc # "mark"
      BY <1>1, <1>4 DEF Begin, FollowPointer, LeaveBlock, FetchEmpty, Refetch, Wake, Commit, Fetching,
                        history, shared, WorkerRecords
    <2> QED BY <1>3, <2>1, FinishesElsewhere
  <1>5. CASE StartWait(w) \/ Delimit(w)
    <2>1. /\ worker[w].pc = "empty" /\ Unchanged(w) /\ worker'[w].pc # "mark" /\ txnOf' = txnOf
          /\ \E bit \in {"WAITING", "DELIMITER"} : word' = [word EXCEPT ![n] = {bit}]
      BY <1>1, <1>2, <1>5 DEF StartWait, Delimit, history, WorkerRecords
    <2>2. ~Written(n)
      BY <1>2, <2>1, FoundEmpty
    <2>3. \A s \in Slots : /\ Has(word'[s], "FINISHED") => Has(word[s], "FINISHED")
                           /\ Written(s) /\ Has(word[s], "FINISHED") => Has(word'[s], "FINISHED")
      BY <1>1, <2>1, <2>2 DEF Has
    <2> QED BY <1>3, <2>1, <2>3, FinishesElsewhere
  <1>6. CASE Publish(w)
    <2>1. /\ worker[w].pc = "publish" /\ worker'[w].pc # "mark" /\ txnOf' = txnOf
          /\ \E bit \in TxnDone : word' = [word EXCEPT ![n] = @ \cup {bit}]
      BY <1>1, <1>2, <1>6 DEF Publish, history, WorkerRecords, TxnDone
    <2>2. \A s \in Slots : Has(word'[s], "FINISHED") <=> Has(word[s], "FINISHED")
      BY <1>1, <2>1 DEF Has, TxnDone
    <2> QED BY <1>3, <2>1, <2>2, FinishesElsewhere
  <1>7. CASE Mark(w)
    <2>1. /\ worker[w].pc = "mark" /\ worker'[w].pc = "fetch" /\ txnOf' = txnOf
      BY <1>1, <1>7 DEF Mark, history, WorkerRecords
    <2>2. n \in Slots /\ txnOf[n] # 0
      BY <1>2, <2>1 DEF Finishes, OrderInv, Inv, TypeInv, NothingPastEnd
    <2>3. /\ \A p \in Slots : p # n => word'[p] = word[p]
          /\ Has(word'[n], "FINISHED")
      <3>1. PICK bits : bits = (IF worker[w].first THEN word[n] ELSE worker[w].read)
                               \cup (IF worker[w].failed THEN {"FINISHED", "FAILED_CONDITION"}
                                     ELSE {"FINISHED"})
        OBVIOUS
      <3>2. word' = [word EXCEPT ![n] = bits]
        BY <1>2, <1>7, <3>1 DEF Mark
      <3>3. "FINISHED" \in bits
        BY <3>1
      <3> QED BY <1>1, <3>2, <3>3 DEF Has
    <2>4. \A s \in Slots : txnOf'[s] # 0 =>
            Has(word'[s], "FINISHED") \/ \E v \in Slots : worker'[v].pc = "mark" /\ worker'[v].at = s
      <3> SUFFICES ASSUME NEW s \in Slots, txnOf[s] # 0, s # n
                   PROVE  Has(word'[s], "FINISHED")
                            \/ \E v \in Slots : worker'[v].pc = "mark" /\ worker'[v].at = s
        BY <2>1, <2>3
      <3>1. CASE Has(word[s], "FINISHED")
        BY <2>3, <3>1
      <3>2. ASSUME NEW v \in Slots, worker[v].pc = "mark", worker[v].at = s
            PROVE  worker'[v].pc = "mark" /\ worker'[v].at = s
        BY <1>2, <1>3, <3>2
      <3> QED BY <3>1, <3>2 DEF Finishes
    <2>5. \A s \in Slots : Has(word'[s], "FINISHED") => txnOf'[s] # 0
      BY <2>1, <2>2, <2>3 DEF Finishes
    <2>6. \A v \in Slots : worker'[v].pc = "mark" => txnOf'[worker'[v].at] # 0
      BY <1>3, <2>1 DEF Finishes
    <2> QED BY <2>4, <2>5, <2>6 DEF Finishes
  <1>8. CASE Execute(w)
    <2>2. /\ txnOf' = [txnOf EXCEPT ![n] = w] /\ word' = word /\ n \in Slots
          /\ worker[w].pc = "fetch" /\ worker'[w].pc = "mark" /\ worker'[w].at = n
      <3>1. Fetching(w) /\ Instruction(w) \in Listed /\ word' = word
            /\ txnOf' = [txnOf EXCEPT ![n] = w]
        BY <1>2, <1>8 DEF Execute, Listed, shared
      <3>2. Instruction(w) # "none"
        BY <3>1 DEF Listed
      <3>3. n \in Slots
        BY <1>2, <3>1, <3>2, Found
      <3>4. worker'[w].pc = "mark" /\ worker'[w].at = n
        BY <1>1, <1>2, <1>8 DEF Execute, WorkerRecords
      <3> QED BY <3>1, <3>3, <3>4 DEF Fetching
    <2>3. \A s \in Slots : txnOf'[s] = IF s = n THEN w ELSE txnOf[s]
      BY <1>1, <2>2
    <2>4. \A s \in Slots : txnOf'[s] # 0 =>
            Has(word'[s], "FINISHED") \/ \E v \in Slots : worker'[v].pc = "mark" /\ worker'[v].at = s
      <3> SUFFICES ASSUME NEW s \in Slots, s # n, txnOf[s] # 0
                   PROVE  Has(word'[s], "FINISHED")
                            \/ \E v \in Slots : worker'[v].pc = "mark" /\ worker'[v].at = s
        BY <2>2, <2>3
      <3>1. CASE Has(word[s], "FINISHED")
        BY <2>2, <3>1
      <3>2. ASSUME NEW v \in Slots, worker[v].pc = "mark", worker[v].at = s
            PROVE  worker'[v].pc = "mark" /\ worker'[v].at = s
        BY <1>3, <2>2, <3>2
      <3> QED BY <3>1, <3>2 DEF Finishes
    <2>5. \A s \in Slots : Has(word'[s], "FINISHED") => txnOf'[s] # 0
      BY <2>2, <2>3, SlotFacts DEF Finishes
    <2>6. \A v \in Slots : worker'[v].pc = "mark" => txnOf'[worker'[v].at] # 0
      <3> SUFFICES ASSUME NEW v \in Slots, worker'[v].pc = "mark" PROVE txnOf'[worker'[v].at] # 0
        OBVIOUS
      <3>1. CASE v = w
        BY <2>2, <2>3, <3>1, SlotFacts
      <3>2. CASE v # w
        <4>1. worker[v].pc = "mark" /\ worker'[v].at = worker[v].at
          BY <1>3, <3>2
        <4>2. worker[v].at \in Slots /\ txnOf[worker[v].at] # 0
          BY <4>1 DEF Finishes, OrderInv, Inv, TypeInv, NothingPastEnd
        <4> QED BY <2>3, <4>1, <4>2, SlotFacts
      <3> QED BY <3>1, <3>2
    <2> QED BY <2>4, <2>5, <2>6 DEF Finishes
  <1> QED BY <1>4, <1>5, <1>6, <1>7, <1>8 DEF WorkerStep

-----------------------------------------------------------------------------
(* Callbacks are kept until they ran.                                       *)

Keeps4 == Kept' /\ Queued' /\ NoneLost' /\ (unwritten <= Len(resolutions) + 1)'

LEMMA CallFills ==
  ASSUME OrderInv, Grows, NEW k \in Listed, NEW own \in BOOLEAN, NEW s, NEW opens, NEW pointers,
         CallOf(k, own, s, opens, pointers)
  PROVE  /\ FillsIn
         /\ \A q \in Slots : StepIn(todo', Placings, q) => q = s
         /\ \A q \in Slots : kind'[q] = "callback" <=> kind[q] = "callback" \/ (q = s /\ k = "callback")
         /\ s \in Slots /\ position \in Slots /\ position <= s
         /\ kind'[position] \in Listed /\ kind'[s] = k /\ kind[s] = "none" /\ kind[position] = "none"
         /\ position # s => "INSTR" \notin word'[position]
         /\ \A q \in Slots : word'[q] = word[q] \/ (~Written(q) /\ word'[q] = {"INSTR"})
  <1>1. Places(k, s, opens, pointers) /\ todo = <<>> /\ Inv /\ FreshSlots
    BY DEF CallOf, OrderInv, Placement
  <1>2. /\ s \in Slots /\ opens \in BOOLEAN /\ position <= s /\ position \in Nat
        /\ opens => position \in Slots /\ position < s
        /\ ~opens => s = position
        /\ kind'[s] = k /\ (opens => kind'[position] = "start")
        /\ \A q \in Slots : q < position => kind'[q] = kind[q] /\ word'[q] = word[q]
        /\ (opens => "INSTR" \notin word'[position])
    BY <1>1, PlacesBefore
  <1>3. Slots \subseteq Nat /\ Slots \subseteq Positions
    BY CallbackTypes
  <1>4. \A q \in Slots : position <= q => kind[q] = "none" /\ ~Written(q)
    BY <1>1 DEF FreshSlots
  <1>5. position \in Slots
    BY <1>2
  <1>6. \A q \in Slots : StepIn(todo', Placings, q) => q = s
    <2>1. todo' = <<>> \/ \E op : todo' = <<Step(op, s, {})>>
      BY DEF CallOf
    <2> QED BY <2>1 DEF StepIn, Step
  <1>7. FillsIn
    <2>1. ASSUME NEW h \in Slots, "INSTR" \in word'[h] \/ StepIn(todo', Placings, h)
          PROVE  Written(h) \/ Pending(h) \/ position <= h
      <3>1. CASE StepIn(todo', Placings, h)
        BY <1>2, <1>6, <3>1
      <3>2. CASE "INSTR" \in word'[h] /\ ~(position <= h)
        BY <1>2, <1>3, <3>2 DEF Written
      <3> QED BY <2>1, <3>1, <3>2
    <2> QED BY <2>1, FillsNothing
  <1>8. \A q \in Slots : kind'[q] = "callback" <=> kind[q] = "callback" \/ (q = s /\ k = "callback")
    <2> SUFFICES ASSUME NEW q \in Slots
                 PROVE  kind'[q] = "callback" <=> kind[q] = "callback" \/ (q = s /\ k = "callback")
      OBVIOUS
    <2>1. CASE q < position
      BY <1>2, <1>3, <2>1
    <2>2. CASE position <= q
      <3>1. kind'[q] = IF q = s THEN k ELSE IF opens /\ q = position THEN "start"
                       ELSE IF q \in pointers THEN "pointer" ELSE kind[q]
        BY <1>1 DEF Places
      <3> QED BY <1>4, <2>2, <3>1
    <2> QED BY <1>2, <1>3, <2>1, <2>2
  <1>9. \A q \in Slots : word'[q] = word[q] \/ (~Written(q) /\ word'[q] = {"INSTR"})
    <2> SUFFICES ASSUME NEW q \in Slots, word'[q] # word[q] PROVE ~Written(q) /\ word'[q] = {"INSTR"}
      OBVIOUS
    <2>1. q \in pointers /\ word'[q] = {"INSTR"}
      BY <1>1, <1>3 DEF Places
    <2>2. position < q
      BY <1>1, <2>1 DEF Places
    <2> QED BY <1>2, <1>3, <1>4, <2>1, <2>2
  <1>10. kind'[position] \in Listed
    BY <1>2 DEF Listed
  <1>11. kind'[s] = k /\ kind[s] = "none" /\ kind[position] = "none"
    BY <1>2, <1>3, <1>4, <1>5
  <1>12. position # s => "INSTR" \notin word'[position]
    <2>1. position # s => opens
      BY ONLY <1>2
    <2> QED BY ONLY <1>2, <2>1
  <1> QED BY ONLY <1>2, <1>5, <1>6, <1>7, <1>8, <1>9, <1>10, <1>11, <1>12

LEMMA ItemOfSeq ==
  ASSUME NEW S, NEW list \in Seq(S), NEW i \in DOMAIN list
  PROVE  list[i] \in S
  OBVIOUS

LEMMA CallKeeps ==
  ASSUME OrderInv, Grows, KeepingInv, NEW list \in Seq(Slots), Extends(list),
         NEW k \in Listed, NEW own \in BOOLEAN, NEW s, NEW opens, NEW pointers,
         CallOf(k, own, s, opens, pointers)
  PROVE  Keeps4
  <1>1. /\ FillsIn
        /\ \A q \in Slots : StepIn(todo', Placings, q) => q = s
        /\ \A q \in Slots : kind'[q] = "callback" <=> kind[q] = "callback" \/ (q = s /\ k = "callback")
        /\ s \in Slots /\ position \in Slots /\ position <= s
        /\ kind'[position] \in Listed /\ kind'[s] = k /\ kind[s] = "none" /\ kind[position] = "none"
        /\ position # s => "INSTR" \notin word'[position]
    BY CallFills
  <1>2. UNCHANGED <<nextTxnCallbacks, ran, unwritten>> /\ s < position' /\ position' \in Nat
    <2>1. Places(k, s, opens, pointers) /\ UNCHANGED <<unwritten, nextTxnCallbacks, ran>>
      BY DEF CallOf
    <2>2. s < position' /\ position' \in Positions
      BY <2>1 DEF Places
    <2> QED BY <2>1, <2>2 DEF Positions
  <1>3. CASE k # "callback"
    <2>1. callbacks' = callbacks
      BY <1>3 DEF CallOf
    <2> QED BY <1>1, <1>2, <1>3, <2>1, KeptStays DEF Keeps4
  <1>4. CASE k = "callback"
    <2>1. /\ callbacks \in [Slots -> {0} \cup Slots] /\ unwritten \in Nat
          /\ Slots \subseteq Nat /\ 0 \notin Slots /\ position \in Nat
          /\ resolutions \in Seq(Slots) /\ nextTxnCallbacks \subseteq Slots
      BY CallbackTypes
    <2>2. callbacks' = [callbacks EXCEPT ![position] = s]
      BY <1>4 DEF CallOf
    <2>3. ASSUME NEW h \in Slots, callbacks[h] # 0
          PROVE  /\ KeptWith(h, callbacks[h]) /\ callbacks[h] \in Slots
                 /\ h < position /\ callbacks[h] < position
      <3>1. KeptWith(h, callbacks[h]) /\ callbacks[h] \in Slots
        BY <2>1, <2>3 DEF KeepingInv, Kept
      <3> QED BY <2>1, <3>1 DEF KeptWith
    <2>4. callbacks[position] = 0
      BY <1>1, <2>1, <2>3
    <2>5. \A h \in Slots : callbacks'[h] = IF h = position THEN s ELSE callbacks[h]
      BY <1>1, <2>1, <2>2
    <2>6. ASSUME NEW h \in Slots, h # position, callbacks[h] # 0
          PROVE  KeptWith(h, callbacks[h])'
      <3>1. PICK c \in Slots : c = callbacks[h]
        BY <2>3, <2>6
      <3>2. KeptWith(h, c)
        BY <2>3, <2>6, <3>1
      <3>3. KeptWith(h, c)'
        <4>1. ran'[c] = 0 /\ c \notin nextTxnCallbacks' /\ unwritten' \in Nat
              /\ \A i \in DOMAIN resolutions : resolutions[i] = h => unwritten' <= i
          BY <1>2, <2>1, <3>2 DEF KeptWith
        <4> QED BY <1>1, <3>2, <4>1, KeptWithStays
      <3>4. callbacks'[h] = c
        BY <2>5, <2>6, <3>1
      <3> QED BY <3>3, <3>4 DEF KeptWith, Filled
    <2>7. ran[s] = 0 /\ s \notin nextTxnCallbacks
      BY <1>1, <1>4 DEF KeepingInv, NoneLost
    <2>8. PICK n \in Slots : n = position
      BY <1>1
    <2>9. KeptWith(n, s)'
      <3>1. ASSUME NEW i \in DOMAIN list, list[i] = n PROVE unwritten <= i
        <4>1. i \in Nat /\ Len(resolutions) \in Nat /\ DOMAIN resolutions = 1..Len(resolutions) /\ i > 0
          BY <2>1
        <4>2. \A j \in DOMAIN resolutions : resolutions[j] # n
          <5>1. ASSUME NEW j \in DOMAIN resolutions PROVE kind[resolutions[j]] \in Listed
            <6>1. PICK q \in Slots : q = resolutions[j]
              BY CallbackTypes, ItemOfSeq
            <6>2. kind[q] \in Listed
              BY <6>1 DEF OrderInv, Placement, ListInOrder
            <6> QED BY <6>1, <6>2
          <5>2. kind[n] \notin Listed
            BY <1>1, <2>8 DEF Listed
          <5> QED BY <5>1, <5>2
        <4>3. i > Len(resolutions)
          <5>1. i \in DOMAIN resolutions => list[i] = resolutions[i]
            BY DEF Extends
          <5> QED BY <3>1, <4>1, <4>2, <5>1
        <4>4. unwritten <= Len(resolutions) + 1
          BY DEF KeepingInv
        <4> QED BY <2>1, <4>1, <4>3, <4>4
      <3>2. Written(n)' \/ Pending(n)' => Filled(n, s)'
        <4>1. CASE n = s
          BY <2>1, <4>1 DEF Filled
        <4>2. CASE n # s
          <5>1. ~StepIn(todo', Placings, n) /\ "INSTR" \notin word'[n]
            BY <1>1, <2>8, <4>2
          <5> QED BY <5>1, PendingNext DEF Written
        <4> QED BY <4>1, <4>2
      <3> QED BY <1>1, <1>2, <1>4, <2>7, <2>8, <3>1, <3>2 DEF KeptWith, Extends
    <2>10. Kept'
      <3>1. ASSUME NEW h \in Slots, callbacks'[h] # 0 PROVE KeptWith(h, callbacks[h])'
        <4>1. CASE h = n
          <5>1. callbacks'[h] = s
            BY <2>5, <2>8, <4>1
          <5> QED BY <2>9, <4>1, <5>1 DEF KeptWith, Filled
        <4>2. CASE h # n
          BY <2>5, <2>6, <2>8, <3>1, <4>2
        <4> QED BY <4>1, <4>2
      <3>2. ASSUME NEW g \in Slots, NEW h \in Slots, callbacks'[g] # 0, callbacks'[g] = callbacks'[h]
            PROVE  g = h
        <4>1. \A q \in Slots : callbacks[q] # s
          <5>1. s \in Nat /\ ~(s < position) /\ s # 0
            BY <1>1, <2>1
          <5> QED BY <2>3, <5>1
        <4> QED BY <2>5, <3>2, <4>1 DEF KeepingInv, Kept
      <3> QED BY <3>1, <3>2 DEF Kept
    <2>11. Queued'
      <3>1. \A q \in nextTxnCallbacks : q \in Slots /\ QueuedToRun(q) /\ ran'[q] = 0
        BY <1>2, <2>1 DEF KeepingInv, Queued, QueuedToRun
      <3>2. \A q \in nextTxnCallbacks : QueuedToRun(q)'
        BY <3>1, QueuedStays
      <3> QED BY <1>2, <3>2 DEF Queued
    <2>12. NoneLost'
      <3> SUFFICES ASSUME NEW q \in Slots
                   PROVE  kind'[q] = "callback" <=>
                            (\E h \in Slots : callbacks'[h] = q) \/ q \in nextTxnCallbacks' \/ ran'[q] # 0
        BY DEF NoneLost
      <3>1. (\E h \in Slots : callbacks'[h] = q) <=> q = s \/ \E h \in Slots : callbacks[h] = q
        BY <1>1, <2>1, <2>4, <2>5
      <3>2. kind[q] = "callback" <=>
              (\E h \in Slots : callbacks[h] = q) \/ q \in nextTxnCallbacks \/ ran[q] # 0
        BY DEF KeepingInv, NoneLost
      <3> QED BY <1>1, <1>2, <1>4, <3>1, <3>2
    <2>13. unwritten <= Len(list) + 1
      <3>1. unwritten <= Len(resolutions) + 1 /\ Len(resolutions) <= Len(list)
            /\ Len(resolutions) \in Nat /\ Len(list) \in Nat
        BY <2>1 DEF KeepingInv, Extends
      <3> QED BY <2>1, <3>1
    <2> QED BY <1>2, <2>10, <2>11, <2>12, <2>13 DEF Keeps4, Extends
  <1> QED BY <1>3, <1>4

(* resolveWrites passes an instruction: its callback is queued.             *)
LEMMA AdvanceKeeps ==
  ASSUME OrderInv, Grows, KeepingInv, NEW list \in Seq(Slots), Extends(list), FillsIn,
         UNCHANGED kind, AdvanceUnwritten
  PROVE  Keeps4
  <1>1. /\ callbacks \in [Slots -> {0} \cup Slots] /\ unwritten \in Nat
        /\ Slots \subseteq Nat /\ 0 \notin Slots
        /\ resolutions \in Seq(Slots) /\ nextTxnCallbacks \subseteq Slots
    BY CallbackTypes
  <1> DEFINE finished == unwritten <= Len(resolutions) /\ Has(word[resolutions[unwritten]], "FINISHED")
  <1>2. CASE ~finished
    <2>1. UNCHANGED <<callbacks, nextTxnCallbacks, ran, unwritten>>
      BY <1>2 DEF AdvanceUnwritten
    <2> QED BY <2>1, KeptStays DEF Keeps4
  <1>3. CASE finished
    <2>1. unwritten \in DOMAIN resolutions /\ Len(resolutions) \in Nat /\ unwritten <= Len(resolutions)
      <3>1. unwritten > 0
        BY DEF OrderInv, Inv, TypeInv, TypeOK, TypeResolving
      <3> QED BY <1>1, <1>3, <3>1
    <2>2. PICK r \in Slots : r = resolutions[unwritten]
      BY <1>1, <2>1
    <2>3. /\ Has(word[r], "FINISHED") /\ unwritten' = unwritten + 1 /\ ran' = ran
          /\ nextTxnCallbacks' = IF callbacks[r] # 0 THEN nextTxnCallbacks \cup {callbacks[r]}
                                 ELSE nextTxnCallbacks
          /\ callbacks' = [callbacks EXCEPT ![r] = 0]
      BY <1>3, <2>2 DEF AdvanceUnwritten
    <2>4. \A h \in Slots : callbacks'[h] = IF h = r THEN 0 ELSE callbacks[h]
      BY <1>1, <2>3
    <2>5. txnOf[r] # 0 /\ Written(r)
      BY <2>3 DEF KeepingInv, Finishes, PlacedInv, TakenWereWritten
    <2>6. ASSUME NEW h \in Slots, h # r, callbacks[h] # 0 PROVE KeptWith(h, callbacks[h])'
      <3>1. PICK c \in Slots : c = callbacks[h]
        BY <1>1, <2>6
      <3>2. KeptWith(h, c) /\ c # callbacks[r]
        BY <2>6, <3>1 DEF KeepingInv, Kept
      <3>3. KeptWith(h, c)'
        <4>1. ran'[c] = 0 /\ c \notin nextTxnCallbacks'
          BY <2>3, <3>2 DEF KeptWith
        <4>2. \A i \in DOMAIN resolutions : resolutions[i] = h => unwritten' <= i
          <5>1. \A i \in DOMAIN resolutions : resolutions[i] = h => unwritten <= i /\ i # unwritten
            BY <2>2, <2>6, <3>2 DEF KeptWith
          <5>2. \A i \in DOMAIN resolutions : i \in Nat
            BY <1>1
          <5> QED BY <1>1, <2>3, <5>1, <5>2
        <4>3. unwritten' \in Nat
          BY <1>1, <2>3
        <4> QED BY <3>2, <4>1, <4>2, <4>3, KeptWithStays
      <3>4. callbacks'[h] = c
        BY <2>4, <2>6, <3>1
      <3> QED BY <3>3, <3>4 DEF KeptWith, Filled
    <2>7. Kept'
      <3>1. \A h \in Slots : callbacks'[h] # 0 => KeptWith(h, callbacks[h])'
        BY <2>4, <2>6
      <3>2. \A g, h \in Slots : callbacks'[g] # 0 /\ callbacks'[g] = callbacks'[h] => g = h
        BY <2>4 DEF KeepingInv, Kept
      <3> QED BY <3>1, <3>2 DEF Kept
    <2>8. Queued'
      <3> SUFFICES ASSUME NEW q \in nextTxnCallbacks' PROVE QueuedToRun(q)'
        BY DEF Queued
      <3>1. q \in Slots /\ QueuedToRun(q)
        <4>1. CASE q \in nextTxnCallbacks
          BY <1>1, <4>1 DEF KeepingInv, Queued
        <4>2. CASE q \notin nextTxnCallbacks
          <5>1. q = callbacks[r] /\ q \in Slots
            BY <1>1, <2>3, <4>2
          <5>2. KeptWith(r, q)
            BY <1>1, <5>1 DEF KeepingInv, Kept
          <5> QED BY <2>5, <5>1, <5>2 DEF KeptWith, QueuedToRun
        <4> QED BY <4>1, <4>2
      <3>2. ran'[q] = 0
        BY <2>3, <3>1 DEF QueuedToRun
      <3> QED BY <3>1, <3>2, QueuedStays
    <2>9. NoneLost'
      <3> SUFFICES ASSUME NEW q \in Slots
                   PROVE  kind'[q] = "callback" <=>
                            (\E h \in Slots : callbacks'[h] = q) \/ q \in nextTxnCallbacks' \/ ran'[q] # 0
        BY DEF NoneLost
      <3>1. (\E h \in Slots : callbacks'[h] = q) <=> \E h \in Slots : h # r /\ callbacks[h] = q
        BY <1>1, <2>4
      <3>2. kind[q] = "callback" <=>
              (\E h \in Slots : callbacks[h] = q) \/ q \in nextTxnCallbacks \/ ran[q] # 0
        BY DEF KeepingInv, NoneLost
      <3>3. q \in nextTxnCallbacks' <=> q \in nextTxnCallbacks \/ q = callbacks[r]
        BY <1>1, <2>3
      <3> QED BY <2>3, <3>1, <3>2, <3>3
    <2>10. (unwritten <= Len(resolutions) + 1)'
      <3>1. unwritten + 1 <= Len(list) + 1
        <4>1. Len(resolutions) <= Len(list) /\ Len(list) \in Nat
          BY DEF Extends
        <4> QED BY <1>1, <2>1, <4>1
      <3> QED BY <2>3, <3>1 DEF Extends
    <2> QED BY <2>7, <2>8, <2>9, <2>10 DEF Keeps4
  <1> QED BY <1>2, <1>3

(* The callbacks that are queued run.                                       *)
LEMMA RunKeeps ==
  ASSUME OrderInv, Grows, KeepingInv, NEW list \in Seq(Slots), Extends(list), FillsIn,
         UNCHANGED kind, RunCallbacks
  PROVE  Keeps4
  <1>1. /\ callbacks \in [Slots -> {0} \cup Slots] /\ unwritten \in Nat /\ 0 \notin Slots
        /\ resolutions \in Seq(Slots) /\ nextTxnCallbacks \subseteq Slots
    BY CallbackTypes
  <1>2. PICK w \in Slots : w = Head(todo).slot
    BY HeadOfTodo DEF RunCallbacks, Doing, OrderInv, Inv, TypeInv, TypeOK
  <1>3. /\ \A s \in Slots : ran'[s] = IF s \in nextTxnCallbacks THEN w ELSE ran[s]
        /\ nextTxnCallbacks' = {} /\ UNCHANGED <<callbacks, unwritten>>
    BY <1>2 DEF RunCallbacks, resolving
  <1>4. ASSUME NEW h \in Slots, callbacks[h] # 0 PROVE KeptWith(h, callbacks[h])'
    <2>1. PICK c \in Slots : c = callbacks[h]
      BY <1>1, <1>4
    <2>2. KeptWith(h, c)
      BY <1>4, <2>1 DEF KeepingInv, Kept
    <2>3. KeptWith(h, c)'
      <3>1. ran'[c] = 0 /\ c \notin nextTxnCallbacks' /\ unwritten' \in Nat
            /\ \A i \in DOMAIN resolutions : resolutions[i] = h => unwritten' <= i
        BY <1>1, <1>3, <2>2 DEF KeptWith
      <3> QED BY <2>2, <3>1, KeptWithStays
    <2>4. callbacks'[h] = c
      BY <1>3, <2>1
    <2> QED BY <2>3, <2>4 DEF KeptWith, Filled
  <1>5. Kept'
    BY <1>3, <1>4 DEF KeepingInv, Kept
  <1>6. Queued'
    BY <1>3 DEF Queued
  <1>7. NoneLost'
    <2>1. w # 0
      BY <1>1, <1>2
    <2> QED BY <1>3, <2>1 DEF KeepingInv, NoneLost
  <1>8. (unwritten <= Len(resolutions) + 1)'
    <2>1. unwritten <= Len(list) + 1
      <3>1. unwritten <= Len(resolutions) + 1 /\ Len(resolutions) <= Len(list)
            /\ Len(resolutions) \in Nat /\ Len(list) \in Nat
        BY <1>1 DEF KeepingInv, Extends
      <3> QED BY <1>1, <3>1
    <2> QED BY <1>3, <2>1 DEF Extends
  <1> QED BY <1>5, <1>6, <1>7, <1>8 DEF Keeps4

(* The steps of a call that are none of these.                              *)
LEMMA CallbacksStay ==
  ASSUME JavaScriptStep, ~AdvanceUnwritten, ~RunCallbacks
  PROVE  UNCHANGED <<callbacks, nextTxnCallbacks, ran, unwritten>>
  <1>1. ASSUME Load PROVE UNCHANGED <<callbackVars, unwritten>>
    BY ONLY <1>1 DEF Load, resolving
  <1>2. ASSUME Store PROVE UNCHANGED <<callbackVars, unwritten>>
    BY ONLY <1>2 DEF Store, resolving
  <1>3. ASSUME Or PROVE UNCHANGED <<callbackVars, unwritten>>
    BY ONLY <1>3 DEF Or, resolving
  <1>4. ASSUME Seen PROVE UNCHANGED <<callbackVars, unwritten>>
    BY ONLY <1>4 DEF Seen, resolving
  <1>5. ASSUME ReturnPromise PROVE UNCHANGED <<callbackVars, unwritten>>
    BY ONLY <1>5 DEF ReturnPromise, resolving
  <1>6. ASSUME SettleTxn PROVE UNCHANGED <<callbackVars, unwritten>>
    BY ONLY <1>6 DEF SettleTxn
  <1>7. UNCHANGED <<callbackVars, unwritten>>
    BY <1>1, <1>2, <1>3, <1>4, <1>5, <1>6 DEF JavaScriptStep
  <1> QED BY <1>7 DEF callbackVars

LEMMA KeepingNext ==
  ASSUME OrderInv, Grows, KeepingInv, [Next]_vars
  PROVE  KeepingInv'
  <1>1. PICK list \in Seq(Slots) : Extends(list)
    BY ListGrows
  <1>2. PlacedInv /\ Finishes
    BY DEF KeepingInv
  <1>3. PlacedInv'
    BY <1>2, PlacedNext
  <1>4. ASSUME FillsIn, UNCHANGED <<callbacks, nextTxnCallbacks, ran, unwritten>>,
               \A s \in Slots : kind'[s] = "callback" <=> kind[s] = "callback"
        PROVE  Keeps4
    BY <1>1, <1>4, KeptStays DEF Keeps4
  <1>5. ASSUME Call \/ Event \/ JavaScriptStep \/ UNCHANGED vars, UNCHANGED txnOf,
               \A s \in Slots : \/ word'[s] = word[s]
                                \/ ~Written(s) /\ (Has(word'[s], "FINISHED") => Has(word[s], "FINISHED"))
        PROVE  Finishes'
    BY <1>2, <1>5, RestsNext, FinishesRest
  <1>6. ASSUME Keeps4, Finishes' PROVE KeepingInv'
    BY <1>3, <1>6 DEF Keeps4, KeepingInv
  <1>7. CASE Call
    <2>1. PICK k \in Listed, own \in BOOLEAN : \E s, opens, pointers :
            CallOf(k, own, s, opens, pointers)
      BY <1>7, CallIs
    <2>2. PICK s, opens, pointers : CallOf(k, own, s, opens, pointers)
      BY <2>1
    <2>3. Keeps4
      BY <1>1, <2>2, CallKeeps
    <2>4. \A q \in Slots : word'[q] = word[q] \/ (~Written(q) /\ word'[q] = {"INSTR"})
      BY <2>2, CallFills
    <2>5. Finishes'
      <3>1. txnOf' = txnOf
        BY <2>2 DEF CallOf
      <3>2. \A q \in Slots : \/ word'[q] = word[q]
                             \/ ~Written(q) /\ (Has(word'[q], "FINISHED") => Has(word[q], "FINISHED"))
        BY <2>4 DEF Has
      <3> QED BY <1>5, <1>7, <3>1, <3>2
    <2> QED BY <1>6, <2>3, <2>5
  <1>8. CASE Event
    <2>1. CASE CloseBlock \/ EndTurn
      <3>1. EndOf
        BY <2>1, CloseBlockEnds, EndTurnEnds
      <3>2. UNCHANGED <<callbacks, nextTxnCallbacks, ran, unwritten, word, txnOf>>
        BY <3>1 DEF EndOf
      <3>3. \A s \in Slots : kind'[s] = "callback" <=> kind[s] = "callback"
        <4>1. kind[position] = "none"
          <5>1. position \in Slots /\ position <= position
            BY <3>1, CallbackTypes DEF EndOf
          <5> QED BY <5>1 DEF OrderInv, Placement, FreshSlots
        <4> QED BY <3>1, <4>1 DEF EndOf
      <3>4. FillsIn
        BY <1>2, <3>1, EndFills
      <3>5. Keeps4
        BY <1>4, <3>2, <3>3, <3>4
      <3>6. Finishes'
        BY <1>5, <1>8, <3>2
      <3> QED BY <1>6, <3>5, <3>6
    <2>2. CASE ~CloseBlock /\ ~EndTurn
      <3>1. /\ UNCHANGED <<word, kind, txnOf, callbacks, nextTxnCallbacks, ran, unwritten>>
            /\ \A i \in DOMAIN todo' : todo'[i].op \notin Placings
        BY <1>8, <2>2, OtherEvent
      <3>2. FillsIn
        <4>1. \A h \in Slots : ~StepIn(todo', Placings, h)
          BY <3>1 DEF StepIn
        <4> QED BY <3>1, <4>1, FillsNothing DEF Written
      <3>3. Keeps4
        BY <1>4, <3>1, <3>2
      <3>4. Finishes'
        BY <1>5, <1>8, <3>1
      <3> QED BY <1>6, <3>3, <3>4
    <2> QED BY <2>1, <2>2
  <1>9. CASE JavaScriptStep
    <2>1. CASE Load
      <3>1. word' = word /\ \A s : Pending(s)' <=> Pending(s)
        BY <1>2, <2>1, LoadIs, LoadPlacedInv
      <3>2. FillsIn
        <4>1. \A h \in Slots : StepIn(todo', Placings, h) => Pending(h)
          BY <3>1, PendingNext
        <4> QED BY <3>1, <4>1, FillsNothing DEF Written
      <3>3. UNCHANGED <<kind, txnOf>>
        BY <2>1 DEF Load, placing, writing, history
      <3>4. ~AdvanceUnwritten /\ ~RunCallbacks
        BY <2>1 DEF Load, AdvanceUnwritten, RunCallbacks, Doing
      <3>5. Keeps4
        BY <1>4, <1>9, <3>2, <3>3, <3>4, CallbacksStay
      <3>6. Finishes'
        BY <1>5, <1>9, <3>1, <3>3
      <3> QED BY <1>6, <3>5, <3>6
    <2>2. CASE Store \/ Or
      <3>1. PICK s \in Slots : \E a : Writes(s, a)
        BY <2>2, WritesStep
      <3>2. PICK a : Writes(s, a)
        BY <3>1
      <3>3. UNCHANGED <<kind, txnOf, callbacks, nextTxnCallbacks, ran, unwritten>>
        BY <2>2, WritesStep
      <3>4. Keeps4
        BY <1>2, <1>4, <3>2, <3>3, WritesFill
      <3>5. Finishes'
        <4>1. \A q \in Slots : \/ word'[q] = word[q]
                               \/ ~Written(q) /\ (Has(word'[q], "FINISHED") => Has(word[q], "FINISHED"))
          BY <3>2, SlotFacts DEF Writes, Has
        <4> QED BY <1>5, <1>9, <3>3, <4>1
      <3> QED BY <1>6, <3>4, <3>5
    <2>3. CASE ~Load /\ ~Store /\ ~Or
      <3>1. /\ todo # <<>> /\ Head(todo).op \notin Placings
            /\ todo' = todo \/ \E a : GoesOn(a)
            /\ UNCHANGED <<word, kind, txnOf>>
        BY <1>9, <2>3, IdleStep
      <3>2. FillsIn
        <4>1. \A h \in Slots : StepIn(todo', Placings, h) => Pending(h)
          BY <3>1, PendingNext, IdleStepPending
        <4> QED BY <3>1, <4>1, FillsNothing DEF Written
      <3>3. Keeps4
        <4>1. CASE AdvanceUnwritten
          BY <1>1, <3>1, <3>2, <4>1, AdvanceKeeps
        <4>2. CASE RunCallbacks
          BY <1>1, <3>1, <3>2, <4>2, RunKeeps
        <4>3. CASE ~AdvanceUnwritten /\ ~RunCallbacks
          BY <1>4, <1>9, <3>1, <3>2, <4>3, CallbacksStay
        <4> QED BY <4>1, <4>2, <4>3
      <3>4. Finishes'
        BY <1>5, <1>9, <3>1
      <3> QED BY <1>6, <3>3, <3>4
    <2> QED BY <2>1, <2>2, <2>3
  <1>10. ASSUME NEW w \in Slots, WorkerStep(w) PROVE KeepingInv'
    <2>1. UNCHANGED <<kind, callbacks, nextTxnCallbacks, ran, unwritten, todo>>
      BY <1>10, WorkerKeepsJavaScript DEF JavaScriptVars, placing, callbackVars, resolving
    <2>2. FillsIn
      <3>1. \A h \in Slots : Written(h)' = Written(h)
        BY <1>10, WorkerWrites, SlotFacts
      <3>2. \A h \in Slots : StepIn(todo', Placings, h) => Pending(h)
        BY <2>1, PendingIn
      <3>3. \A h \in Slots : "INSTR" \in word'[h] => Written(h)
        BY <3>1 DEF Written
      <3> QED BY <3>2, <3>3, FillsNothing
    <2>3. Keeps4
      BY <1>4, <2>1, <2>2
    <2> QED BY <1>2, <1>6, <1>10, <2>3, WorkerFinishes
  <1>11. CASE UNCHANGED vars
    <2>1. UNCHANGED <<kind, callbacks, nextTxnCallbacks, ran, unwritten, todo, word, txnOf>>
      BY <1>11 DEF vars, shared, placing, callbackVars, resolving, writing, history
    <2>2. FillsIn
      <3>1. \A h \in Slots : StepIn(todo', Placings, h) => Pending(h)
        BY <2>1, PendingIn
      <3> QED BY <2>1, <3>1, FillsNothing DEF Written
    <2>3. Keeps4
      BY <1>4, <2>1, <2>2
    <2>4. Finishes'
      BY <1>5, <1>11, <2>1
    <2> QED BY <1>6, <2>3, <2>4
  <1> QED BY <1>7, <1>8, <1>9, <1>10, <1>11 DEF Next, Quiescent

-----------------------------------------------------------------------------
(* Callbacks run while a worker waits.                                      *)

NoWorkerStep == Call \/ Event \/ JavaScriptStep \/ UNCHANGED vars

LEMMA RunsIs ==
  ASSUME NEW w
  PROVE  /\ Runs(w) <=> StepIn(todo, {"callbacks"}, w)
         /\ Runs(w)' <=> StepIn(todo', {"callbacks"}, w)
  BY DEF Runs, StepIn

(* A call never adds a step that runs callbacks.                            *)
LEMMA NoCallbacksAdded ==
  ASSUME OrderInv, JavaScriptStep
  PROVE  /\ todo # <<>>
         /\ \/ todo' = todo
            \/ \E a \in Seq(JSSteps) :
                 todo' = a \o Tail(todo) /\ \A i \in DOMAIN a : a[i].op # "callbacks"
  <1>1. CASE Load
    <2>1. PICK x \in JSSteps : todo # <<>> /\ x.op = "store" /\ todo' = <<x>> \o Tail(todo)
      BY <1>1, LoadIs
    <2>2. <<x>> \in Seq(JSSteps)
      OBVIOUS
    <2>3. \A i \in DOMAIN <<x>> : <<x>>[i].op # "callbacks"
      BY <2>1
    <2> QED BY <2>1, <2>2, <2>3
  <1>2. CASE Store \/ Or
    <2>1. PICK s \in Slots : \E a : Writes(s, a)
      BY <1>2, WritesStep
    <2>2. PICK a : Writes(s, a)
      BY <2>1
    <2> QED BY <2>2 DEF Writes
  <1>3. CASE ~Load /\ ~Store /\ ~Or
    <2>1. todo # <<>> /\ (todo' = todo \/ \E a : GoesOn(a))
      BY <1>3, IdleStep
    <2> QED BY <2>1 DEF GoesOn, Idle
  <1> QED BY <1>1, <1>2, <1>3

LEMMA NotIn ==
  ASSUME NEW a, NEW op, \A i \in DOMAIN a : a[i].op # op, NEW s
  PROVE  ~StepIn(a, {op}, s)
  BY DEF StepIn

LEMMA HeadIs ==
  ASSUME JavaScriptStep, todo # <<>>
  PROVE  /\ ~AdvanceUnwritten => Head(todo).op # "unwritten"
         /\ ~RunCallbacks => Head(todo).op # "callbacks"
  <1>1. Load => Doing("load")
    BY ONLY DEF Load
  <1>2. Store => Doing("store")
    BY ONLY DEF Store
  <1>3. Or => Doing("or")
    BY ONLY DEF Or
  <1>4. Seen => Doing("seen")
    BY ONLY DEF Seen
  <1>5. ReturnPromise => Doing("promise")
    BY ONLY DEF ReturnPromise
  <1>6. SettleTxn => Doing("committed")
    BY ONLY DEF SettleTxn
  <1>7. RunCallbacks => Doing("callbacks")
    BY ONLY DEF RunCallbacks
  <1>8. AdvanceUnwritten => Doing("unwritten")
    BY ONLY DEF AdvanceUnwritten
  <1> QED BY ONLY JavaScriptStep, <1>1, <1>2, <1>3, <1>4, <1>5, <1>6, <1>7, <1>8
             DEF JavaScriptStep, Doing

LEMMA RunsOn ==
  ASSUME OrderInv, JavaScriptStep, NEW s
  PROVE  /\ StepIn(todo', {"callbacks"}, s) => StepIn(todo, {"callbacks"}, s)
         /\ ~AdvanceUnwritten /\ StepIn(todo, {"unwritten"}, s) => StepIn(todo', {"unwritten"}, s)
         /\ ~RunCallbacks /\ StepIn(todo, {"callbacks"}, s) => StepIn(todo', {"callbacks"}, s)
  <1>1. CASE todo' = todo
    BY <1>1
  <1>2. CASE todo' # todo
    <2>1. PICK a \in Seq(JSSteps) :
            todo # <<>> /\ todo' = a \o Tail(todo) /\ \A i \in DOMAIN a : a[i].op # "callbacks"
      BY <1>2, NoCallbacksAdded
    <2>2. ~StepIn(a, {"callbacks"}, s)
      BY <2>1, NotIn
    <2> QED BY <2>1, <2>2, HeadIs, StepInNext
  <1> QED BY <1>1, <1>2

LEMMA RunsBefore ==
  ASSUME OrderInv, NoWorkerStep, NEW w \in Slots, Runs(w)'
  PROVE  Progress(w) \/ (Runs(w) /\ (JavaScriptStep \/ UNCHANGED vars))
  <1>1. StepIn(todo', {"callbacks"}, w)
    BY RunsIs
  <1>2. CASE JavaScriptStep
    BY <1>1, <1>2, RunsOn, RunsIs
  <1>3. CASE UNCHANGED vars
    <2>1. todo' = todo
      BY <1>3 DEF vars
    <2> QED BY <1>1, <1>3, <2>1, RunsIs
  <1>4. CASE Call
    <2>1. PICK k \in Listed, own \in BOOLEAN : \E s, opens, pointers :
            CallOf(k, own, s, opens, pointers)
      BY <1>4, CallIs
    <2>2. PICK s, opens, pointers : CallOf(k, own, s, opens, pointers)
      BY <2>1
    <2>3. todo' = <<>> \/ \E op \in {"load", "or"} : todo' = <<Step(op, s, {})>>
      BY <2>2 DEF CallOf
    <2> QED BY <1>1, <2>3 DEF StepIn, Step
  <1>5. CASE CloseBlock \/ EndTurn
    <2>1. EndOf
      BY <1>5, CloseBlockEnds, EndTurnEnds
    <2> QED BY <1>1, <2>1 DEF EndOf, StepIn
  <1>6. CASE CommitTimer
    <2>1. todo' = <<>>
      BY <1>6 DEF CommitTimer
    <2> QED BY <1>1, <2>1 DEF StepIn
  <1>7. ASSUME NEW v \in Slots, Completion(v) \/ Progress(v) PROVE Progress(w)
    <2>1. PICK b \in Seq(JSSteps) :
            /\ todo' = Resolve \o b
            /\ b = <<>> \/ (Progress(v) /\ b = <<Step("callbacks", v, {})>>)
      <3>1. {} \in SUBSET Bits /\ <<>> \in Seq(JSSteps)
        OBVIOUS
      <3>2. PICK x \in JSSteps : x = Step("callbacks", v, {})
        BY <3>1, StepTypes
      <3>3. <<x>> \in Seq(JSSteps)
        OBVIOUS
      <3>4. todo' = Resolve \o <<>> \/ (Progress(v) /\ todo' = Resolve \o <<Step("callbacks", v, {})>>)
        BY <1>7 DEF Completion, Progress, ObserveTxn
      <3> QED BY <3>1, <3>2, <3>3, <3>4
    <2>2. StepIn(b, {"callbacks"}, w)
      BY <1>1, <2>1, StepTypes, StepInBoth, StepInResolve
    <2> QED BY <2>1, <2>2 DEF StepIn, Step
  <1> QED BY <1>2, <1>3, <1>4, <1>5, <1>6, <1>7 DEF NoWorkerStep, Event

LEMMA ProgressResolves ==
  ASSUME NEW w \in Slots, Progress(w)
  PROVE  \E i \in DOMAIN todo' : todo'[i].op = "unwritten"
  <1>1. PICK x \in JSSteps : x = Step("callbacks", w, {})
    <2>1. {} \in SUBSET Bits
      OBVIOUS
    <2> QED BY <2>1, StepTypes
  <1>2. todo' = Resolve \o <<x>> /\ <<x>> \in Seq(JSSteps) /\ Resolve \in Seq(JSSteps)
    BY <1>1, StepTypes DEF Progress, ObserveTxn
  <1>3. StepIn(Resolve, {"unwritten"}, 0)
    BY DEF StepIn, Resolve, Step
  <1>4. StepIn(Resolve \o <<x>>, {"unwritten"}, 0)
    BY <1>2, <1>3, StepInBoth
  <1> QED BY <1>2, <1>4 DEF StepIn

(* What a worker may run is not more than what it could run before.         *)
LEMMA MayRunBefore ==
  ASSUME OrderInv, KeepingInv, NoWorkerStep, NEW s \in Slots, MayRun(s)'
  PROVE  MayRun(s)
  <1>1. txnOf' = txnOf
    BY OnlyWorkersTake DEF NoWorkerStep
  <1>2. /\ callbacks \in [Slots -> {0} \cup Slots] /\ nextTxnCallbacks \subseteq Slots
        /\ resolutions \in Seq(Slots) /\ 0 \notin Slots
    BY CallbackTypes
  <1>3. ASSUME UNCHANGED <<callbacks, nextTxnCallbacks>> PROVE MayRun(s)
    BY <1>1, <1>3 DEF MayRun
  <1>4. CASE Call
    <2>1. PICK k \in Listed, own \in BOOLEAN : \E c, opens, pointers :
            CallOf(k, own, c, opens, pointers)
      BY <1>4, CallIs
    <2>2. PICK c, opens, pointers : CallOf(k, own, c, opens, pointers)
      BY <2>1
    <2>3. /\ nextTxnCallbacks' = nextTxnCallbacks
          /\ callbacks' = callbacks \/ callbacks' = [callbacks EXCEPT ![position] = c]
      BY <2>2 DEF CallOf
    <2>4. PICK n \in Positions : n = position
      BY OrderTypes DEF OrderInv
    <2>5. n \in Slots => txnOf[n] = 0
      <3>1. n \in Slots => kind[n] = "none"
        BY <2>4, CallbackTypes DEF OrderInv, Placement, FreshSlots
      <3> QED BY <3>1 DEF OrderInv, Token, Logged, Listed
    <2>6. \A h \in Slots : callbacks'[h] = callbacks[h] \/ (h = n /\ txnOf[n] = 0)
      BY <1>2, <2>3, <2>4, <2>5
    <2> QED BY <1>1, <2>3, <2>6 DEF MayRun
  <1>5. CASE Event
    <2>1. CASE CloseBlock \/ EndTurn
      <3>1. EndOf
        BY <2>1, CloseBlockEnds, EndTurnEnds
      <3> QED BY <1>3, <3>1 DEF EndOf
    <2>2. CASE ~CloseBlock /\ ~EndTurn
      BY <1>3, <1>5, <2>2, OtherEvent
    <2> QED BY <2>1, <2>2
  <1>6. CASE AdvanceUnwritten
    <2>1. CASE UNCHANGED <<callbacks, nextTxnCallbacks>>
      BY <1>3, <2>1
    <2>2. CASE ~UNCHANGED <<callbacks, nextTxnCallbacks>>
      <3>1. unwritten \in Nat \ {0}
        BY DEF OrderInv, Inv, TypeInv, TypeOK, TypeResolving
      <3>2. unwritten <= Len(resolutions) /\ Has(word[resolutions[unwritten]], "FINISHED")
        BY <1>6, <2>2 DEF AdvanceUnwritten
      <3>3. unwritten \in DOMAIN resolutions
        BY <1>2, <3>1, <3>2
      <3>4. PICK r \in Slots : r = resolutions[unwritten]
        BY <1>2, <3>3, ItemOfSeq
      <3>5. /\ nextTxnCallbacks' \subseteq nextTxnCallbacks \cup {callbacks[r]}
            /\ nextTxnCallbacks' # nextTxnCallbacks => callbacks[r] # 0
            /\ callbacks' = [callbacks EXCEPT ![r] = 0]
        BY <1>6, <3>2, <3>4 DEF AdvanceUnwritten
      <3>6. txnOf[r] # 0
        BY <3>2, <3>4 DEF KeepingInv, Finishes
      <3>7. \A h \in Slots : callbacks'[h] = s => callbacks[h] = s
        BY <1>2, <3>5, SlotFacts
      <3>8. s \in nextTxnCallbacks' => s \in nextTxnCallbacks \/ callbacks[r] = s
        BY <3>5
      <3> QED BY <1>1, <3>6, <3>7, <3>8 DEF MayRun
    <2> QED BY <2>1, <2>2
  <1>7. CASE RunCallbacks
    <2>1. nextTxnCallbacks' = {} /\ callbacks' = callbacks
      BY <1>7 DEF RunCallbacks
    <2> QED BY <1>1, <2>1 DEF MayRun
  <1>8. CASE JavaScriptStep /\ ~AdvanceUnwritten /\ ~RunCallbacks
    BY <1>3, <1>8, CallbacksStay
  <1>9. CASE UNCHANGED vars
    <2>1. UNCHANGED <<callbacks, nextTxnCallbacks>>
      BY <1>9 DEF vars, callbackVars
    <2> QED BY <1>3, <2>1
  <1> QED BY <1>4, <1>5, <1>6, <1>7, <1>8, <1>9 DEF NoWorkerStep

(* A worker that waits has passed everything that may run.                  *)
LEMMA WaitsAfter ==
  ASSUME OrderInv, KeepingInv, NEW w \in Slots, StartWait(w), NEW s \in Slots, MayRun(s)
  PROVE  txnOf[s] # 0
  <1>1. PICK h \in Slots : h <= s /\ txnOf[h] # 0 /\ Filled(h, s)
    <2>1. CASE s \in nextTxnCallbacks
      BY <2>1 DEF KeepingInv, Queued, QueuedToRun
    <2>2. CASE s \notin nextTxnCallbacks
      <3>1. PICK g \in Slots : callbacks[g] = s /\ txnOf[g] # 0
        BY <2>2 DEF MayRun
      <3>2. KeptWith(g, s) /\ Written(g)
        <4>1. callbacks[g] # 0
          BY <3>1, SlotFacts
        <4> QED BY <3>1, <4>1 DEF KeepingInv, Kept, PlacedInv, TakenWereWritten
      <3> QED BY <3>1, <3>2 DEF KeptWith
    <2> QED BY <2>1, <2>2
  <1>2. kind[s] \in Listed
    <2>1. kind[s] = "callback"
      BY DEF MayRun, KeepingInv, NoneLost
    <2> QED BY <2>1 DEF Listed
  <1>3. PICK n \in Positions : n = worker[w].at
    BY OrderTypes DEF OrderInv
  <1>4. ~Written(n) /\ Frontier(n)
    <2>1. worker[w].pc = "empty" /\ Unchanged(w)
      BY DEF StartWait
    <2>2. ~Written(n) /\ Launched(w)
      BY <1>3, <2>1, FoundEmpty
    <2>3. Frontier(FrontOf(w)) /\ FrontOf(w) = n
      BY <1>3, <2>1, <2>2 DEF OrderInv, Token, WorkersKnow, Knows, FrontOf
    <2> QED BY <2>2, <2>3
  <1>5. kind[h] \in Listed /\ h < n
    BY <1>1, <1>4 DEF OrderInv, Token, Logged, Frontier
  <1>6. SUFFICES ASSUME ~(s < n) PROVE FALSE
    BY <1>2, <1>4 DEF Frontier
  <1>7. n \in Slots /\ n <= s
    BY <1>6, SlotFacts DEF Slots, Positions
  <1> QED BY <1>1, <1>4, <1>5, <1>7 DEF Filled

LEMMA OnlyStartWait ==
  ASSUME OrderInv, NEW w \in Slots, WorkerStep(w), worker'[w].pc = "wait"
  PROVE  StartWait(w)
  <1>1. worker \in [Slots -> WorkerRecords]
    BY OrderTypes DEF OrderInv
  <1>2. ~Begin(w) /\ ~Refetch(w) /\ ~Wake(w)
    BY <1>1 DEF Begin, Refetch, Wake, WorkerRecords
  <1>3. ~FollowPointer(w) /\ ~LeaveBlock(w)
    BY <1>1 DEF FollowPointer, LeaveBlock, Fetching, WorkerRecords
  <1>4. ~Execute(w)
    <2>1. SUFFICES ASSUME Execute(w) PROVE worker'[w].pc = "mark"
      OBVIOUS
    <2> QED BY <1>1, <2>1 DEF Execute, WorkerRecords
  <1>5. ~Mark(w)
    BY <1>1 DEF Mark, WorkerRecords
  <1>6. ~FetchEmpty(w) /\ ~Delimit(w) /\ ~Commit(w) /\ ~Publish(w)
    BY <1>1 DEF FetchEmpty, Delimit, Commit, Publish, WorkerRecords
  <1> QED BY <1>2, <1>3, <1>4, <1>5, <1>6 DEF WorkerStep

LEMMA WaitsBehindNext ==
  ASSUME OrderInv, OrderInv', RunningInv, [Next]_vars
  PROVE  WaitsBehind'
  <1>1. KeepingInv /\ WaitsBehind
    BY DEF RunningInv
  <1> SUFFICES ASSUME NEW w \in Slots, worker'[w].pc = "wait", NEW s \in Slots, MayRun(s)'
               PROVE  txnOf'[s] # 0
    BY DEF WaitsBehind
  <1>2. CASE NoWorkerStep
    <2>1. txnOf' = txnOf
      BY <1>2, OnlyWorkersTake DEF NoWorkerStep
    <2>2. MayRun(s)
      BY <1>1, <1>2, MayRunBefore
    <2>3. worker[w].pc = "wait"
      BY <1>2, RestsNext, RestsFacts DEF NoWorkerStep
    <2> QED BY <1>1, <2>1, <2>2, <2>3 DEF WaitsBehind
  <1>3. ASSUME NEW v \in Slots, WorkerStep(v) PROVE txnOf'[s] # 0
    <2>1. UNCHANGED <<callbacks, nextTxnCallbacks>>
      BY <1>3, WorkerKeepsJavaScript DEF JavaScriptVars, callbackVars
    <2>2. CASE txnOf' = txnOf
      <3>1. MayRun(s)
        BY <2>1, <2>2 DEF MayRun
      <3>2. CASE v # w
        <4>1. worker[w].pc = "wait"
          BY <1>3, <3>2, OthersRest
        <4> QED BY <1>1, <2>2, <3>1, <4>1 DEF WaitsBehind
      <3>3. CASE v = w
        <4>1. StartWait(w)
          BY <1>3, <3>3, OnlyStartWait
        <4> QED BY <1>1, <2>2, <3>1, <4>1, WaitsAfter
      <3> QED BY <3>2, <3>3
    <2>3. CASE txnOf' # txnOf
      <3>1. worker'[v].pc = "mark"
        BY <1>3, <2>3, WorkerTakes
      <3>2. Launched(v)' /\ Launched(w)'
        BY <3>1 DEF Launched
      <3>3. v = w
        BY <3>2 DEF OrderInv, Token, OneToken
      <3> QED BY <3>1, <3>3
    <2> QED BY <2>2, <2>3
  <1> QED BY <1>2, <1>3 DEF Next, NoWorkerStep, Quiescent

LEMMA RunsWaitingNext ==
  ASSUME OrderInv, OrderInv', RunsWaiting, [Next]_vars
  PROVE  RunsWaiting'
  <1> SUFFICES ASSUME NEW w \in Slots, Runs(w)' PROVE worker'[w].pc = "wait"
    BY DEF RunsWaiting
  <1>1. CASE NoWorkerStep
    <2>1. Progress(w) \/ Runs(w)
      BY <1>1, RunsBefore
    <2>2. worker[w].pc = "wait"
      BY <2>1 DEF RunsWaiting, Progress
    <2> QED BY <1>1, <2>2, RestsNext, RestsFacts DEF NoWorkerStep
  <1>2. ASSUME NEW v \in Slots, WorkerStep(v) PROVE worker'[w].pc = "wait"
    <2>1. todo' = todo
      BY <1>2, WorkerKeepsJavaScript DEF JavaScriptVars
    <2>2. Runs(w)
      BY <2>1, RunsIs
    <2>3. worker[w].pc = "wait" /\ lock = JS
      BY <2>2 DEF RunsWaiting, Runs, OrderInv, Inv, LockHolder
    <2>4. v # w
      <3>1. SUFFICES ASSUME WorkerStep(w) PROVE FALSE
        BY <1>2
      <3>2. lock # 0
        BY <2>3, SlotFacts
      <3> QED BY <2>3, <3>1, <3>2 DEF WorkerStep, Begin, FollowPointer, LeaveBlock, Execute, Mark,
                       FetchEmpty, Refetch, StartWait, Wake, Delimit, Commit, Publish, Fetching
    <2> QED BY <1>2, <2>3, <2>4, OthersRest
  <1> QED BY <1>1, <1>2 DEF Next, NoWorkerStep, Quiescent

(* JavaScript stops passing instructions where the worker stopped.          *)
LEMMA PassedAll ==
  ASSUME OrderInv, RunningInv, NEW w \in Slots, worker[w].pc = "wait", AdvanceUnwritten,
         todo' # todo, NEW i \in DOMAIN resolutions, txnOf[resolutions[i]] # 0
  PROVE  i < unwritten
  <1>1. resolutions \in Seq(Slots) /\ unwritten \in Nat \ {0} /\ log \in Seq(Slots)
    BY OrderTypes DEF OrderInv, Inv, TypeInv, TypeOK, TypeResolving
  <1>2. SUFFICES ASSUME unwritten <= i PROVE FALSE
    BY <1>1
  <1>3. i <= Len(log)
    BY DEF OrderInv, Token, Logged
  <1>4. unwritten \in DOMAIN resolutions /\ unwritten <= Len(log) /\ unwritten <= Len(resolutions)
    BY <1>1, <1>2, <1>3
  <1>5. PICK r \in Slots : r = resolutions[unwritten]
    BY <1>1, <1>4, ItemOfSeq
  <1>6. txnOf[r] # 0
    BY <1>4, <1>5 DEF OrderInv, Token, Logged
  <1>7. \A v \in Slots : worker[v].pc # "mark"
    BY DEF OrderInv, Token, OneToken, Launched
  <1>8. Has(word[r], "FINISHED")
    BY <1>6, <1>7 DEF RunningInv, KeepingInv, Finishes
  <1>9. todo' = todo
    BY <1>4, <1>5, <1>8 DEF AdvanceUnwritten
  <1> QED BY <1>9

LEMMA CaughtUpNext ==
  ASSUME OrderInv, OrderInv', RunningInv, [Next]_vars
  PROVE  CaughtUp'
  <1>1. CaughtUp /\ RunsWaiting
    BY DEF RunningInv
  <1> SUFFICES ASSUME NEW w \in Slots, Runs(w)', \A i \in DOMAIN todo' : todo'[i].op # "unwritten",
                      NEW i \in DOMAIN resolutions', txnOf'[resolutions'[i]] # 0
               PROVE  i < unwritten'
    BY DEF CaughtUp
  <1>2. ASSUME Runs(w), UNCHANGED <<txnOf, resolutions>>, UNCHANGED unwritten,
               \A j \in DOMAIN todo : todo[j].op # "unwritten"
        PROVE  i < unwritten'
    BY <1>1, <1>2 DEF CaughtUp
  <1>3. CASE UNCHANGED vars
    <2>1. UNCHANGED <<todo, txnOf, resolutions, unwritten>>
      BY <1>3 DEF vars, writing, history, resolving
    <2> QED BY <1>2, <2>1, RunsIs
  <1>4. ASSUME NEW v \in Slots, WorkerStep(v) PROVE i < unwritten'
    <2>1. UNCHANGED <<todo, resolutions, unwritten>>
      BY <1>4, WorkerKeepsJavaScript DEF JavaScriptVars, resolving
    <2>2. Runs(w) /\ worker[w].pc = "wait"
      BY <1>1, <2>1, RunsIs DEF RunsWaiting
    <2>3. txnOf' = txnOf
      <3>1. SUFFICES ASSUME worker[v].pc = "fetch" PROVE FALSE
        BY <1>4, WorkerTakes
      <3>2. v = w
        BY <2>2, <3>1 DEF OrderInv, Token, OneToken, Launched
      <3> QED BY <2>2, <3>1, <3>2
    <2> QED BY <1>2, <2>1, <2>2, <2>3
  <1>5. CASE Call \/ Event \/ JavaScriptStep
    <2>1. NoWorkerStep /\ txnOf' = txnOf
      BY <1>5, OnlyWorkersTake DEF NoWorkerStep
    <2>2. Runs(w) /\ (JavaScriptStep \/ UNCHANGED vars)
      BY <2>1, RunsBefore, ProgressResolves
    <2>3. CASE JavaScriptStep
      <3>1. resolutions' = resolutions
        BY <2>3, StepsPlaceNothing
      <3>2. CASE AdvanceUnwritten
        <4>1. todo' # todo
          <5>1. todo # <<>> /\ Head(todo).op = "unwritten"
            BY <3>2 DEF AdvanceUnwritten, Doing
          <5> QED BY <5>1, HeadStep
        <4>2. unwritten' = unwritten
          BY <3>2, <4>1 DEF AdvanceUnwritten
        <4>3. worker[w].pc = "wait"
          BY <1>1, <2>2 DEF RunsWaiting
        <4>4. i < unwritten
          BY <2>1, <3>1, <3>2, <4>1, <4>3, PassedAll
        <4> QED BY <4>2, <4>4
      <3>3. CASE ~AdvanceUnwritten
        <4>1. unwritten' = unwritten
          <5>1. CASE RunCallbacks
            BY <5>1 DEF RunCallbacks, resolving
          <5>2. CASE ~RunCallbacks
            BY <2>3, <3>3, <5>2, CallbacksStay
          <5> QED BY <5>1, <5>2
        <4>2. ASSUME NEW j \in DOMAIN todo PROVE todo[j].op # "unwritten"
          <5>1. SUFFICES ASSUME todo[j].op = "unwritten" PROVE FALSE
            OBVIOUS
          <5>2. StepIn(todo, {"unwritten"}, todo[j].slot)
            BY <5>1 DEF StepIn
          <5>3. StepIn(todo', {"unwritten"}, todo[j].slot)
            BY <2>3, <3>3, <5>2, RunsOn
          <5> QED BY <5>3 DEF StepIn
        <4> QED BY <1>2, <2>1, <2>2, <3>1, <4>1, <4>2
      <3> QED BY <3>2, <3>3
    <2> QED BY <1>3, <2>2, <2>3
  <1> QED BY <1>3, <1>4, <1>5 DEF Next, Quiescent

LEMMA RunningNext ==
  ASSUME OrderInv, OrderInv', Grows, RunningInv, [Next]_vars
  PROVE  RunningInv'
  <1>1. KeepingInv /\ RunsWaiting
    BY DEF RunningInv
  <1>2. KeepingInv' /\ RunsWaiting'
    BY <1>1, KeepingNext, RunsWaitingNext
  <1> QED BY <1>2, WaitsBehindNext, CaughtUpNext DEF RunningInv

(* Without blocks on a condition, every callback keeps its worker waiting.  *)
LEMMA OwnPromises ==
  ASSUME [Next]_vars, OrderInv
  PROVE  \/ ownPromise' = ownPromise
         \/ \E k \in Listed, own \in BOOLEAN : \E s, opens, pointers :
              CallOf(k, own, s, opens, pointers)
  <1>1. CASE Call
    BY <1>1, CallIs
  <1>2. CASE Event
    <2>1. CASE CloseBlock \/ EndTurn
      BY <2>1 DEF CloseBlock, EndTurn
    <2>2. CASE ~CloseBlock /\ ~EndTurn
      BY <1>2, <2>2, OtherEvent
    <2> QED BY <2>1, <2>2
  <1>3. CASE JavaScriptStep
    <2>1. CASE Load
      BY <2>1 DEF Load, placing
    <2>2. CASE ~Load
      BY <1>3, <2>2, IdleStep, WritesStep
    <2> QED BY <2>1, <2>2
  <1>4. ASSUME NEW w \in Slots, WorkerStep(w) PROVE ownPromise' = ownPromise
    BY <1>4, WorkerKeepsJavaScript DEF JavaScriptVars, placing
  <1>5. CASE UNCHANGED vars
    BY <1>5 DEF vars, placing
  <1> QED BY <1>1, <1>2, <1>3, <1>4, <1>5 DEF Next, Quiescent

Validated == \A w \in Slots : Launched(w) => worker[w].validated = worker[w].depth
NoneOwn == \A s \in ownPromise : kind[s] = "write" \/ kind[s] = "callback"

LEMMA NoneOwnNext ==
  ASSUME "ifVersion" \notin Calls, OrderInv, Grows, NoneOwn, [Next]_vars
  PROVE  NoneOwn'
  <1>1. ownPromise \subseteq Slots
    BY DEF OrderInv, Inv, TypeInv, TypeOK, TypePlacing
  <1>2. ASSUME NEW s \in ownPromise PROVE kind'[s] = "write" \/ kind'[s] = "callback"
    <2>1. s < position
      <3>1. kind[s] # "none"
        BY DEF NoneOwn
      <3> QED BY <1>1, <3>1, CallbackTypes DEF OrderInv, Placement, FreshSlots
    <2> QED BY <1>1, <2>1 DEF NoneOwn, Grows
  <1>3. CASE ownPromise' = ownPromise
    BY <1>2, <1>3 DEF NoneOwn
  <1>4. CASE ownPromise' # ownPromise
    <2>1. PICK k \in Listed, own \in BOOLEAN : \E s, opens, pointers :
            CallOf(k, own, s, opens, pointers)
      BY <1>4, OwnPromises
    <2>2. PICK s, opens, pointers : CallOf(k, own, s, opens, pointers)
      BY <2>1
    <2>3. ownPromise' = ownPromise \cup {s} /\ k # "start"
      BY <1>4, <2>2 DEF CallOf
    <2>4. kind'[s] = k
      BY <2>2 DEF CallOf, Places
    <2>5. kind'[s] = "write" \/ kind'[s] = "callback"
      BY <2>3, <2>4 DEF Listed
    <2> QED BY <1>2, <2>3, <2>5 DEF NoneOwn
  <1> QED BY <1>3, <1>4

LEMMA WorkerValidated ==
  ASSUME OrderInv, NoneOwn, NEW w \in Slots, Launched(w), worker[w].validated = worker[w].depth,
         WorkerStep(w)
  PROVE  worker'[w].validated = worker'[w].depth
  <1>1. worker \in [Slots -> WorkerRecords] /\ worker[w] \in WorkerRecords
    BY OrderTypes DEF OrderInv
  <1>2. worker[w].depth \in Int /\ worker[w].validated \in Int
    BY <1>1 DEF WorkerRecords
  <1>3. CASE Begin(w) \/ FollowPointer(w) \/ FetchEmpty(w) \/ Refetch(w)
    BY <1>1, <1>3 DEF Begin, FollowPointer, FetchEmpty, Refetch, WorkerRecords
  <1>4. CASE StartWait(w) \/ Wake(w) \/ Delimit(w)
    BY <1>1, <1>4 DEF StartWait, Wake, Delimit, WorkerRecords
  <1>5. CASE Commit(w) \/ Publish(w) \/ Mark(w)
    BY <1>1, <1>5 DEF Commit, Publish, Mark, WorkerRecords
  <1>6. CASE LeaveBlock(w)
    <2>1. /\ worker'[w].depth = worker[w].depth - 1
          /\ worker'[w].validated = IF worker[w].validated > worker[w].depth - 1
                                    THEN worker[w].validated - 1 ELSE worker[w].validated
      BY <1>1, <1>6 DEF LeaveBlock, WorkerRecords
    <2> QED BY <1>2, <2>1
  <1>7. CASE Execute(w)
    <2>1. PICK n \in Positions : n = worker[w].at
      BY OrderTypes DEF OrderInv
    <2>2. PICK failed \in BOOLEAN :
            /\ failed => kind[n] = "write" \/ (kind[n] = "start" /\ n \in ownPromise)
            /\ worker'[w].depth = IF kind[n] = "start" THEN worker[w].depth + 1 ELSE worker[w].depth
            /\ worker'[w].validated = IF kind[n] = "start" /\ ~failed
                                      THEN worker[w].validated + 1 ELSE worker[w].validated
      BY <1>1, <1>7, <2>1 DEF Execute, WorkerRecords
    <2>3. failed => kind[n] # "start"
      BY <2>2 DEF NoneOwn
    <2> QED BY <2>2, <2>3
  <1> QED BY <1>3, <1>4, <1>5, <1>6, <1>7 DEF WorkerStep

LEMMA WorkerStaysLaunched ==
  ASSUME OrderInv, NEW w \in Slots, WorkerStep(w)
  PROVE  /\ Launched(w)' => Launched(w)
         /\ Launched(w) => Launched(w)' \/ Delimit(w)
         /\ Launched(w) => worker'[w].finishedProgress = worker[w].finishedProgress \/ Execute(w)
  <1>1. worker \in [Slots -> WorkerRecords]
    BY OrderTypes DEF OrderInv
  <1>2. CASE Begin(w) \/ FollowPointer(w) \/ FetchEmpty(w) \/ Refetch(w)
    BY <1>1, <1>2 DEF Begin, FollowPointer, FetchEmpty, Refetch, Fetching, Launched, WorkerRecords
  <1>3. CASE StartWait(w) \/ Wake(w)
    BY <1>1, <1>3 DEF StartWait, Wake, Launched, WorkerRecords
  <1>4. CASE Delimit(w)
    BY <1>1, <1>4 DEF Delimit, Launched, WorkerRecords
  <1>5. CASE Commit(w) \/ Publish(w)
    BY <1>1, <1>5 DEF Commit, Publish, Launched, WorkerRecords
  <1>6. CASE Mark(w)
    BY <1>1, <1>6 DEF Mark, Launched, WorkerRecords
  <1>7. CASE LeaveBlock(w)
    BY <1>1, <1>7 DEF LeaveBlock, Fetching, Launched, WorkerRecords
  <1>8. CASE Execute(w)
    <2>1. worker[w].pc = "fetch" /\ worker'[w].pc = "mark"
      BY <1>1, <1>8 DEF Execute, Fetching, WorkerRecords
    <2> QED BY <1>8, <2>1 DEF Launched
  <1> QED BY <1>2, <1>3, <1>4, <1>5, <1>6, <1>7, <1>8 DEF WorkerStep

LEMMA UnconditionalNext ==
  ASSUME "ifVersion" \notin Calls, OrderInv, Grows, Unconditional, [Next]_vars
  PROVE  Unconditional'
  <1>1. NoneOwn /\ Validated
    BY DEF Unconditional, NoneOwn, Validated
  <1>2. NoneOwn'
    BY <1>1, NoneOwnNext
  <1>3. Validated'
    <2> SUFFICES ASSUME NEW w \in Slots, Launched(w)'
                 PROVE  worker'[w].validated = worker'[w].depth
      BY DEF Validated
    <2>1. CASE NoWorkerStep
      <3>1. Rests(w)
        BY <2>1, RestsNext DEF NoWorkerStep
      <3>2. CASE Launched(w)
        BY <1>1, <3>1, <3>2, RestsFacts DEF Validated
      <3>3. CASE ~Launched(w)
        <4>1. worker'[w] = WorkerAt("queued", w)
          BY <3>1, <3>3, RestsFacts
        <4> QED BY <4>1 DEF WorkerAt
      <3> QED BY <3>2, <3>3
    <2>2. ASSUME NEW v \in Slots, WorkerStep(v) PROVE worker'[w].validated = worker'[w].depth
      <3>1. CASE v = w
        BY <1>1, <2>2, <3>1, WorkerStaysLaunched, WorkerValidated DEF Validated
      <3>2. CASE v # w
        <4>1. worker'[w] = worker[w]
          BY <2>2, <3>2, OthersRest
        <4> QED BY <1>1, <4>1 DEF Validated, Launched
      <3> QED BY <3>1, <3>2
    <2> QED BY <2>1, <2>2 DEF Next, NoWorkerStep, Quiescent
  <1> QED BY <1>2, <1>3 DEF Unconditional, NoneOwn, Validated

LEMMA CallbackStays ==
  ASSUME OrderInv, Grows, NEW s \in Slots, txnOf[s] # 0, kind'[s] = "callback"
  PROVE  kind[s] = "callback"
  <1>1. kind[s] # "none"
    BY DEF OrderInv, Token, Logged, Listed
  <1>2. s < position
    BY <1>1, CallbackTypes DEF OrderInv, Placement, FreshSlots
  <1> QED BY <1>2 DEF Grows

(* A worker for which callbacks are to run does nothing.                    *)
LEMMA RunsRests ==
  ASSUME OrderInv, RunsWaiting, NEW w \in Slots, Runs(w)
  PROVE  ~WorkerStep(w)
  <1>1. worker[w].pc = "wait" /\ lock = JS
    BY DEF RunsWaiting, Runs, OrderInv, Inv, LockHolder
  <1>2. lock # 0
    BY <1>1, SlotFacts
  <1> QED BY <1>1, <1>2 DEF WorkerStep, Begin, FollowPointer, LeaveBlock, Execute, Mark,
             FetchEmpty, Refetch, StartWait, Wake, Delimit, Commit, Publish, Fetching

(* What JavaScript runs is what the worker processed so far.                *)
LEMMA RunsAll ==
  ASSUME OrderInv, RunningInv, RunCallbacks, NEW w \in Slots, Launched(w), NEW s \in Slots,
         kind[s] = "callback", txnOf[s] # 0, ran[s] = 0
  PROVE  s \in nextTxnCallbacks
  <1>1. SUFFICES ASSUME s \notin nextTxnCallbacks PROVE FALSE
    OBVIOUS
  <1>2. PICK h \in Slots : callbacks[h] = s
    BY <1>1 DEF RunningInv, KeepingInv, NoneLost
  <1>3. KeptWith(h, s)
    <2>1. callbacks[h] # 0
      BY <1>2, SlotFacts
    <2> QED BY <1>2, <2>1 DEF RunningInv, KeepingInv, Kept
  <1>4. txnOf[h] # 0
    <2>1. PICK n : n = FrontOf(w)
      OBVIOUS
    <2>2. Frontier(n) /\ n \in Nat
      <3>1. worker[w].at \in Nat
        BY OrderTypes DEF OrderInv
      <3>2. n \in Nat
        BY <2>1, <3>1 DEF FrontOf
      <3> QED BY <2>1, <3>2 DEF OrderInv, Token, WorkersKnow, Knows
    <2>3. kind[s] \in Listed
      BY DEF Listed
    <2>4. s < n
      BY <2>2, <2>3 DEF Frontier
    <2>5. h < n /\ kind[h] \in Listed
      BY <1>3, <2>2, <2>4, SlotFacts DEF KeptWith
    <2> QED BY <2>2, <2>5 DEF Frontier
  <1>5. PICK i \in DOMAIN resolutions : resolutions[i] = h
    BY <1>3 DEF KeptWith, OrderInv, Placement, ListInOrder
  <1>6. unwritten <= i
    BY <1>3, <1>5 DEF KeptWith
  <1>7. todo # <<>> /\ Head(todo).op = "callbacks"
    BY DEF RunCallbacks, Doing
  <1>8. \A j \in DOMAIN todo : todo[j].op = "callbacks"
    <2>1. Head(todo) = todo[1] /\ 1 \in DOMAIN todo /\ todo \in Seq(JSSteps)
      BY <1>7, HeadStep, OrderTypes DEF OrderInv
    <2>2. 1 = Len(todo)
      BY <1>7, <2>1 DEF OrderInv, Inv, LockHolder
    <2>3. \A j \in DOMAIN todo : j = 1
      BY <2>1, <2>2
    <2> QED BY <1>7, <2>1, <2>3
  <1>9. \E v \in Slots : Runs(v)
    <2>1. Head(todo).slot \in Slots /\ Head(todo) = todo[1] /\ 1 \in DOMAIN todo
      BY <1>7, HeadStep, HeadOfTodo DEF OrderInv, Inv, TypeInv, TypeOK
    <2> QED BY <1>7, <2>1 DEF Runs
  <1>10. i < unwritten
    BY <1>4, <1>5, <1>8, <1>9 DEF RunningInv, CaughtUp
  <1> QED BY <1>5, <1>6, <1>10, CallbackTypes

LEMMA RanStays ==
  ASSUME OrderInv, KeepingInv, [Next]_vars, NEW s \in Slots
  PROVE  /\ ran[s] # 0 => ran'[s] = ran[s]
         /\ ran'[s] = ran[s] \/ (RunCallbacks /\ s \in nextTxnCallbacks /\ ran'[s] = Head(todo).slot
                                 /\ ran'[s] # 0)
  <1>1. CASE RunCallbacks
    <2>1. PICK w \in Slots : w = Head(todo).slot
      BY <1>1, HeadOfTodo DEF RunCallbacks, Doing, OrderInv, Inv, TypeInv, TypeOK
    <2>2. ran'[s] = IF s \in nextTxnCallbacks THEN w ELSE ran[s]
      BY <1>1, <2>1 DEF RunCallbacks
    <2>3. s \in nextTxnCallbacks => ran[s] = 0
      BY DEF KeepingInv, Queued, QueuedToRun
    <2> QED BY <1>1, <2>1, <2>2, <2>3, SlotFacts
  <1>2. CASE ~RunCallbacks
    <2>1. ran' = ran
      <3>1. CASE Call
        <4>1. PICK k \in Listed, own \in BOOLEAN : \E c, opens, pointers :
                CallOf(k, own, c, opens, pointers)
          BY <3>1, CallIs
        <4> QED BY <4>1 DEF CallOf
      <3>2. CASE Event
        <4>1. CASE CloseBlock \/ EndTurn
          <5>1. EndOf
            BY <4>1, CloseBlockEnds, EndTurnEnds
          <5> QED BY <5>1 DEF EndOf
        <4>2. CASE ~CloseBlock /\ ~EndTurn
          BY <3>2, <4>2, OtherEvent
        <4> QED BY <4>1, <4>2
      <3>3. CASE JavaScriptStep
        <4>1. CASE AdvanceUnwritten
          BY <4>1 DEF AdvanceUnwritten
        <4>2. CASE ~AdvanceUnwritten
          BY <1>2, <3>3, <4>2, CallbacksStay
        <4> QED BY <4>1, <4>2
      <3>4. ASSUME NEW w \in Slots, WorkerStep(w) PROVE ran' = ran
        BY <3>4, WorkerKeepsJavaScript DEF JavaScriptVars, callbackVars
      <3>5. CASE UNCHANGED vars
        BY <3>5 DEF vars, callbackVars
      <3> QED BY <3>1, <3>2, <3>3, <3>4, <3>5 DEF Next, Quiescent
    <2> QED BY <2>1
  <1> QED BY <1>1, <1>2

LEMMA ProgressRuns ==
  ASSUME OrderInv, NEW w \in Slots, Progress(w)
  PROVE  Runs(w)'
  <1>1. PICK x \in JSSteps : x = Step("callbacks", w, {})
    <2>1. {} \in SUBSET Bits
      OBVIOUS
    <2> QED BY <2>1, StepTypes
  <1>2. todo' = Resolve \o <<x>> /\ <<x>> \in Seq(JSSteps) /\ Resolve \in Seq(JSSteps)
    BY <1>1, StepTypes DEF Progress, ObserveTxn
  <1>3. StepIn(<<x>>, {"callbacks"}, w)
    BY <1>1, StepInOne DEF Step
  <1>4. StepIn(Resolve \o <<x>>, {"callbacks"}, w)
    BY <1>2, <1>3, StepInBoth
  <1> QED BY <1>2, <1>4, RunsIs

LEMMA AwaitedNext ==
  ASSUME OrderInv, Grows, RunningInv, Unconditional, Awaited, [Next]_vars
  PROVE  Awaited'
  <1> SUFFICES ASSUME NEW s \in Slots, kind'[s] = "callback", txnOf'[s] # 0, ran'[s] = 0
               PROVE  \E w \in Slots : /\ w = txnOf'[s] /\ Launched(w)'
                                       /\ ~worker'[w].finishedProgress \/ Runs(w)'
    BY DEF Awaited, Launched, Runs
  <1>1. ran[s] = 0
    BY RanStays DEF RunningInv
  <1>2. txnOf \in [Slots -> {0} \cup Slots]
    BY CallbackTypes
  <1>3. CASE txnOf[s] # 0
    <2>1. PICK w \in Slots : w = txnOf[s] /\ w = txnOf'[s]
      BY <1>2, <1>3 DEF Grows
    <2>2. kind[s] = "callback"
      BY <1>3, CallbackStays
    <2>3. Launched(w) /\ (~worker[w].finishedProgress \/ Runs(w))
      BY <1>1, <1>3, <2>1, <2>2 DEF Awaited
    <2>4. Launched(w)' /\ (~worker'[w].finishedProgress \/ Runs(w)')
      <3>1. CASE NoWorkerStep
        <4>1. /\ Launched(w)'
              /\ worker'[w].finishedProgress = worker[w].finishedProgress \/ Progress(w)
          BY <2>3, <3>1, RestsNext, RestsFacts DEF NoWorkerStep
        <4>2. CASE Progress(w)
          BY <4>1, <4>2, ProgressRuns
        <4>3. CASE ~Progress(w) /\ ~worker[w].finishedProgress
          BY <4>1, <4>3
        <4>4. CASE Runs(w)
          <5>1. todo # <<>>
            BY <4>4 DEF Runs
          <5>2. CASE RunCallbacks
            <6>1. s \in nextTxnCallbacks
              BY <1>1, <1>3, <2>2, <2>3, <5>2, RunsAll
            <6>2. ran'[s] # 0
              <7>1. Head(todo).slot \in Slots
                BY <5>2, HeadOfTodo DEF RunCallbacks, Doing, OrderInv, Inv, TypeInv, TypeOK
              <7> QED BY <5>2, <6>1, <7>1, SlotFacts DEF RunCallbacks
            <6> QED BY <6>2
          <5>3. CASE JavaScriptStep /\ ~RunCallbacks
            BY <4>1, <4>4, <5>3, RunsOn, RunsIs
          <5>4. CASE UNCHANGED vars
            <6>1. todo' = todo
              BY <5>4 DEF vars
            <6> QED BY <4>1, <4>4, <6>1, RunsIs
          <5>5. CASE Call \/ Event
            BY <5>1, <5>5, NothingReported
          <5> QED BY <3>1, <5>2, <5>3, <5>4, <5>5 DEF NoWorkerStep
        <4> QED BY <2>3, <4>2, <4>3, <4>4
      <3>2. ASSUME NEW v \in Slots, WorkerStep(v)
            PROVE  Launched(w)' /\ (~worker'[w].finishedProgress \/ Runs(w)')
        <4>1. todo' = todo
          BY <3>2, WorkerKeepsJavaScript DEF JavaScriptVars
        <4>2. CASE v # w
          <5>1. worker'[w] = worker[w]
            BY <3>2, <4>2, OthersRest
          <5> QED BY <2>3, <4>1, <5>1, RunsIs DEF Launched
        <4>3. CASE v = w
          <5>1. ~worker[w].finishedProgress
            BY <2>3, <3>2, <4>3, RunsRests DEF RunningInv
          <5>2. ~Delimit(w)
            BY <5>1 DEF Delimit, MustStay
          <5>3. Launched(w)'
            BY <2>3, <3>2, <4>3, <5>2, WorkerStaysLaunched
          <5>4. ~worker'[w].finishedProgress
            <6>1. CASE Execute(w)
              <7>1. worker \in [Slots -> WorkerRecords]
                BY OrderTypes DEF OrderInv
              <7> QED BY <5>1, <6>1, <7>1 DEF Execute, WorkerRecords
            <6>2. CASE ~Execute(w)
              BY <2>3, <3>2, <4>3, <5>1, <6>2, WorkerStaysLaunched
            <6> QED BY <6>1, <6>2
          <5> QED BY <5>3, <5>4
        <4> QED BY <4>2, <4>3
      <3> QED BY <3>1, <3>2 DEF Next, NoWorkerStep, Quiescent
    <2> QED BY <2>1, <2>4
  <1>4. CASE txnOf[s] = 0
    <2>1. txnOf' # txnOf
      BY <1>4
    <2>2. ~NoWorkerStep
      BY <2>1, OnlyWorkersTake DEF NoWorkerStep
    <2>3. PICK w \in Slots : WorkerStep(w)
      BY <2>2 DEF Next, NoWorkerStep, Quiescent
    <2>4. /\ Execute(w) /\ worker[w].at \in Slots
          /\ txnOf' = [txnOf EXCEPT ![worker[w].at] = w]
          /\ worker[w].pc = "fetch" /\ worker'[w].pc = "mark"
      BY <2>1, <2>3, WorkerTakes
    <2>5. s = worker[w].at /\ txnOf'[s] = w
      BY <1>2, <1>4, <2>4
    <2>6. kind[s] = "callback"
      <3>1. kind' = kind
        BY <2>3, WorkerKeepsJavaScript DEF JavaScriptVars, placing
      <3> QED BY <3>1
    <2>7. Launched(w)'
      BY <2>4 DEF Launched
    <2>8. worker[w].depth = worker[w].validated
      BY <2>4 DEF Unconditional, Launched
    <2>9. ~worker'[w].finishedProgress
      <3>1. worker \in [Slots -> WorkerRecords]
        BY OrderTypes DEF OrderInv
      <3>3. PICK n \in Positions : n = worker[w].at
        BY OrderTypes DEF OrderInv
      <3>4. Execute(w)
        BY <2>4
      <3>2. PICK failed \in BOOLEAN :
              /\ failed => kind[n] = "write" \/ (kind[n] = "start" /\ n \in ownPromise)
              /\ kind[n] = "callback" /\ ~failed => worker'[w].finishedProgress = FALSE
        BY <2>8, <3>1, <3>3, <3>4 DEF Execute, WorkerRecords
      <3>5. kind[n] = "callback"
        BY <2>5, <2>6, <3>3
      <3> QED BY <3>2, <3>5
    <2> QED BY <2>5, <2>7, <2>9
  <1> QED BY <1>3, <1>4

LEMMA RunsInItsTxn ==
  ASSUME OrderInv, Grows, RunningInv, Awaited, CallbackInItsTxn, [Next]_vars
  PROVE  CallbackInItsTxn'
  <1> SUFFICES ASSUME NEW s \in Slots, ran'[s] # 0 PROVE txnOf'[s] = ran'[s]
    BY DEF CallbackInItsTxn
  <1>1. CASE ran[s] # 0
    <2>1. ran'[s] = ran[s]
      BY <1>1, RanStays DEF RunningInv
    <2> QED BY <1>1, <2>1 DEF CallbackInItsTxn, Grows
  <1>2. CASE ran[s] = 0
    <2>1. RunCallbacks /\ s \in nextTxnCallbacks /\ ran'[s] = Head(todo).slot
      BY <1>2, RanStays DEF RunningInv
    <2>2. todo # <<>> /\ Head(todo).op = "callbacks"
      BY <2>1 DEF RunCallbacks, Doing
    <2>3. PICK w \in Slots : w = Head(todo).slot
      BY <2>2, HeadOfTodo DEF OrderInv, Inv, TypeInv, TypeOK
    <2>4. worker[w].pc = "wait"
      <3>1. Runs(w)
        BY <2>2, <2>3, HeadStep DEF Runs
      <3> QED BY <3>1 DEF RunningInv, RunsWaiting
    <2>5. txnOf[s] # 0
      BY <2>1, <2>4 DEF RunningInv, WaitsBehind, MayRun
    <2>6. kind[s] = "callback"
      BY <2>1 DEF RunningInv, KeepingInv, Queued, QueuedToRun
    <2>7. Launched(txnOf[s]) /\ txnOf[s] \in Slots
      BY <1>2, <2>5, <2>6, CallbackTypes DEF Awaited
    <2>8. txnOf[s] = w
      BY <2>4, <2>7 DEF OrderInv, Token, OneToken, Launched
    <2> QED BY <2>1, <2>3, <2>5, <2>8 DEF Grows
  <1> QED BY <1>1, <1>2

LEMMA CallbackNext ==
  ASSUME "ifVersion" \notin Calls, OrderInv, OrderInv', Grows, CallbackInv, [Next]_vars
  PROVE  CallbackInv'
  <1>1. RunningInv /\ Unconditional /\ Awaited /\ CallbackInItsTxn
    BY DEF CallbackInv
  <1>2. RunningInv' /\ Unconditional'
    BY <1>1, RunningNext, UnconditionalNext
  <1>3. Awaited' /\ CallbackInItsTxn'
    BY <1>1, AwaitedNext, RunsInItsTxn
  <1> QED BY <1>2, <1>3 DEF CallbackInv

LEMMA InitCallbacks == Init => CallbackInv
  <1> SUFFICES ASSUME Init PROVE CallbackInv
    OBVIOUS
  <1>1. /\ \A s \in Slots : /\ kind[s] = "none" /\ txnOf[s] = 0 /\ callbacks[s] = 0 /\ ran[s] = 0
                            /\ worker[s].pc = "none" /\ ~Has(word[s], "FINISHED")
        /\ todo = <<>> /\ position = 1 /\ resolutions = <<>> /\ unwritten = 1
        /\ nextTxnCallbacks = {} /\ ownPromise = {}
    BY SlotFacts DEF Init, WorkerAt, Has
  <1>2. PlacedInv
    <2>1. NoGaps
      BY <1>1, SlotFacts DEF NoGaps, Slots
    <2>2. PointersWritten /\ WrittenSoon /\ TakenWereWritten
      BY <1>1 DEF PointersWritten, WrittenSoon, TakenWereWritten, Listed
    <2>3. Alone
      BY <1>1 DEF Alone
    <2> QED BY <2>1, <2>2, <2>3 DEF PlacedInv
  <1>3. KeepingInv
    <2>1. unwritten <= Len(resolutions) + 1
      BY <1>1
    <2>2. Kept /\ Queued /\ NoneLost /\ Finishes
      BY <1>1, SlotFacts DEF Kept, Queued, NoneLost, Finishes
    <2> QED BY <1>2, <2>1, <2>2 DEF KeepingInv
  <1>4. WaitsBehind /\ RunsWaiting /\ CaughtUp
    BY <1>1 DEF WaitsBehind, RunsWaiting, CaughtUp, Runs
  <1>5. Unconditional /\ Awaited /\ CallbackInItsTxn
    BY <1>1 DEF Unconditional, Awaited, CallbackInItsTxn, Launched
  <1> QED BY <1>3, <1>4, <1>5 DEF CallbackInv, RunningInv

-----------------------------------------------------------------------------
(* What a worker that ended its transaction leaves behind.                  *)

LEMMA KeepsOrStarts ==
  ASSUME OrderInv, Transactions, NoWorkerStep, NEW w \in Slots
  PROVE  Keeps(w) \/ (worker[w].pc = "none" /\ worker'[w] = WorkerAt("queued", w))
  <1>1. worker \in [Slots -> WorkerRecords] /\ startAddress \in {0} \cup Slots
    BY OrderTypes DEF OrderInv
  <1>2. ASSUME worker' = worker PROVE Keeps(w)
    BY <1>2 DEF Keeps
  <1>3. ASSUME NEW from \in {0} \cup Slots, StartWriting(from),
               from # 0 => /\ Frontier(from) /\ kind[from] \in Listed
                           /\ \A v \in Slots : ~Launched(v)
        PROVE  Keeps(w) \/ (worker[w].pc = "none" /\ worker'[w] = WorkerAt("queued", w))
    <2>1. worker' = [worker EXCEPT ![from] = WorkerAt("queued", from)]
      BY <1>3 DEF StartWriting
    <2>2. CASE w = from
      <3>1. worker'[w] = WorkerAt("queued", w)
        BY <1>1, <2>1, <2>2
      <3> QED BY <1>3, <2>2, <3>1, StartsFresh, SlotFacts
    <2>3. CASE w # from
      BY <1>1, <2>1, <2>3 DEF Keeps
    <2> QED BY <2>2, <2>3
  <1>4. startAddress # 0 => /\ Frontier(startAddress) /\ kind[startAddress] \in Listed
                            /\ \A v \in Slots : ~Launched(v)
    BY DEF OrderInv, Token, OneToken, AtFrontier, Transactions, Launches
  <1>5. CASE Call
    BY <1>2, <1>5, CallIs DEF CallOf
  <1>6. CASE Event
    <2>1. CASE CloseBlock \/ EndTurn
      BY <1>2, <2>1, CloseBlockEnds, EndTurnEnds DEF EndOf
    <2>2. CASE CommitTimer
      <3>1. StartWriting(startAddress)
        BY <2>2 DEF CommitTimer
      <3> QED BY <1>1, <1>3, <1>4, <3>1
    <2>3. ASSUME NEW v \in Slots, Completion(v) PROVE Keeps(w)
      <3>1. worker[v].pc = "complete" /\ worker' = [worker EXCEPT ![v].pc = "done"]
        BY <2>3 DEF Completion
      <3> QED BY <1>1, <3>1 DEF Keeps, WorkerRecords
    <2>4. ASSUME NEW v \in Slots, Progress(v) PROVE Keeps(w)
      <3>1. worker' = [worker EXCEPT ![v].finishedProgress = TRUE]
        BY <2>4 DEF Progress
      <3> QED BY <1>1, <3>1 DEF Keeps, WorkerRecords
    <2> QED BY <1>6, <2>1, <2>2, <2>3, <2>4 DEF Event
  <1>7. CASE JavaScriptStep
    <2>1. CASE Seen
      <3>1. PICK s, from \in {0} \cup Slots :
               /\ todo # <<>> /\ Head(todo).op = "seen" /\ s \in Slots /\ s = Head(todo).slot
               /\ IF SeenToken THEN from = s ELSE from = startAddress
               /\ from # 0 => Frontier(from) /\ \A v \in Slots : ~Launched(v)
               /\ \/ startAddress' = from /\ worker' = worker
                  \/ startAddress' = 0 /\ StartWriting(from)
        BY <2>1, SeenFacts
      <3>2. kind[s] \in Listed
        BY <3>1, HeadStep DEF StepOK
      <3>3. from # 0 => kind[from] \in Listed
        BY <1>4, <3>1, <3>2
      <3> QED BY <1>2, <1>3, <3>1, <3>3
    <2>2. CASE ~Seen
      BY <1>2, <1>7, <2>2, StepsKeep
    <2> QED BY <2>1, <2>2
  <1>8. CASE UNCHANGED vars
    BY <1>2, <1>8 DEF vars, writing
  <1> QED BY <1>5, <1>6, <1>7, <1>8 DEF NoWorkerStep

Published(w) == worker[w].pc \in {"complete", "done"}

LEMMA EndedLasts ==
  ASSUME OrderInv, Transactions, [Next]_vars, NEW w \in Slots
  PROVE  /\ Ended(w) => Ended(w)' /\ worker'[w].at = worker[w].at
         /\ Published(w) => Published(w)' /\ Ended(w)
         /\ Ended(w)' => Ended(w) \/ Delimit(w)
         /\ worker'[w].pc = "mark" =>
              \/ /\ worker[w].pc = "mark"
                 /\ worker'[w].at = worker[w].at /\ worker'[w].read = worker[w].read
              \/ Execute(w)
  <1>1. worker \in [Slots -> WorkerRecords]
    BY OrderTypes DEF OrderInv
  <1>2. CASE NoWorkerStep
    <2>1. Keeps(w) \/ (worker[w].pc = "none" /\ worker'[w] = WorkerAt("queued", w))
      BY <1>2, KeepsOrStarts
    <2>2. CASE Keeps(w)
      BY <2>2 DEF Keeps, Ended, Published
    <2>3. CASE worker[w].pc = "none" /\ worker'[w] = WorkerAt("queued", w)
      BY <2>3 DEF WorkerAt, Ended, Published
    <2> QED BY <2>1, <2>2, <2>3
  <1>3. ASSUME NEW v \in Slots, WorkerStep(v), v # w PROVE worker'[w] = worker[w]
    BY <1>3, OthersRest
  <1>4. CASE WorkerStep(w)
    <2>1. CASE Begin(w) \/ FollowPointer(w) \/ LeaveBlock(w) \/ FetchEmpty(w) \/ Refetch(w)
               \/ StartWait(w) \/ Wake(w) \/ Mark(w)
      BY <1>1, <2>1 DEF Begin, FollowPointer, LeaveBlock, FetchEmpty, Refetch, StartWait, Wake,
                        Mark, Fetching, Ended, Published, WorkerRecords
    <2>2. CASE Execute(w)
      <3>1. worker[w].pc = "fetch"
        BY <2>2 DEF Execute, Fetching
      <3>2. worker'[w].pc = "mark"
        BY <1>1, <2>2 DEF Execute, WorkerRecords
      <3> QED BY <2>2, <3>1, <3>2 DEF Ended, Published
    <2>3. CASE Delimit(w)
      BY <1>1, <2>3 DEF Delimit, Ended, Published, WorkerRecords
    <2>4. CASE Commit(w) \/ Publish(w)
      BY <1>1, <2>4 DEF Commit, Publish, Ended, Published, WorkerRecords
    <2> QED BY <1>4, <2>1, <2>2, <2>3, <2>4 DEF WorkerStep
  <1>5. CASE \E v \in Slots : v # w /\ WorkerStep(v)
    BY <1>3, <1>5 DEF Ended, Published
  <1> QED BY <1>2, <1>4, <1>5 DEF Next, NoWorkerStep, Quiescent

LEMMA SpansNext ==
  ASSUME OrderInv, OrderInv', Transactions, Transactions', Grows, Spans, [Next]_vars
  PROVE  Spans'
  <1> SUFFICES ASSUME NEW w \in Slots, Ended(w)', NEW s \in Slots, kind'[s] \in Listed
               PROVE  txnOf'[s] = w <=> w <= s /\ s < worker'[w].at
    BY DEF Spans
  <1>1. /\ txnOf \in [Slots -> {0} \cup Slots] /\ Slots \subseteq Nat /\ 0 \notin Slots
        /\ worker[w].at \in Nat /\ position \in Nat
    BY OrderTypes, SlotFacts DEF OrderInv
  <1>2. txnOf'[s] = w => w <= s
    BY <1>1 DEF OrderInv, Token, InTxns
  <1>3. txnOf'[s] = w => s < worker'[w].at
    BY DEF Transactions, EndsOutside, EndedAt
  <1>4. ASSUME w <= s, s < worker'[w].at PROVE txnOf'[s] = w
    <2>1. CASE Ended(w)
      <3>1. worker'[w].at = worker[w].at
        BY <2>1, EndedLasts
      <3>2. worker[w].at <= position
        BY <2>1 DEF Transactions, EndsOutside, EndedAt
      <3>3. kind[s] \in Listed
        BY <1>1, <1>4, <3>1, <3>2 DEF Grows
      <3>4. txnOf[s] = w
        BY <1>4, <2>1, <3>1, <3>3 DEF Spans
      <3> QED BY <1>1, <3>4 DEF Grows
    <2>2. CASE Delimit(w)
      <3>1. worker'[w].at = worker[w].at /\ worker[w].pc = "empty" /\ UNCHANGED <<kind, txnOf>>
        <4>1. worker \in [Slots -> WorkerRecords]
          BY OrderTypes DEF OrderInv
        <4> QED BY <2>2, <4>1 DEF Delimit, history, JavaScriptVars, placing, WorkerRecords
      <3>2. Launched(w) /\ Frontier(worker[w].at)
        BY <3>1 DEF Launched, OrderInv, Token, WorkersKnow, Knows, FrontOf
      <3>3. txnOf[s] # 0
        BY <1>4, <3>1, <3>2 DEF Frontier
      <3> QED BY <1>4, <3>1, <3>2, <3>3 DEF OrderInv, Token, InTxns
    <2> QED BY <2>1, <2>2, EndedLasts
  <1> QED BY <1>2, <1>3, <1>4

(* No two transactions end at the same place.                               *)
LEMMA EndsOnce ==
  ASSUME OrderInv, Transactions, Spans, NEW v \in Slots, NEW w \in Slots, Ended(v), Ended(w),
         worker[v].at = worker[w].at
  PROVE  v = w
  <1>1. Slots \subseteq Nat /\ 0 \notin Slots
    BY SlotFacts
  <1>2. \A u \in Slots : Ended(u) => /\ txnOf[u] = u /\ u < worker[u].at /\ kind[u] \in Listed
    BY <1>1 DEF Transactions, EndsOutside, EndedAt, OrderInv, Token, Logged
  <1>3. ASSUME NEW x \in Slots, NEW y \in Slots, Ended(x), Ended(y),
               worker[x].at = worker[y].at, x <= y
        PROVE  x = y
    <2>1. x <= y /\ y < worker[x].at /\ kind[y] \in Listed
      BY <1>2, <1>3
    <2>2. txnOf[y] = x
      BY <1>3, <2>1 DEF Spans
    <2> QED BY <1>2, <1>3, <2>2
  <1>4. v <= w \/ w <= v
    BY <1>1
  <1> QED BY <1>3, <1>4

-----------------------------------------------------------------------------
(* JavaScript learns of every end.                                          *)

(* A step of JavaScript that writes a word.                                 *)
LEMMA WordsStay ==
  ASSUME OrderInv, NoWorkerStep, ~Store, ~Or, NEW p \in Positions
  PROVE  word'[p] = word[p] \/ (Call /\ position < p /\ word'[p] = {"INSTR"})
  <1>1. CASE Call
    <2>1. PICK k \in Listed, own \in BOOLEAN : \E s, opens, pointers :
            CallOf(k, own, s, opens, pointers)
      BY <1>1, CallIs
    <2>2. PICK s, opens, pointers : Places(k, s, opens, pointers)
      BY <2>1 DEF CallOf
    <2> QED BY <1>1, <2>2 DEF Places
  <1>2. CASE Event
    <2>1. CASE CloseBlock \/ EndTurn
      BY <2>1, CloseBlockEnds, EndTurnEnds DEF EndOf
    <2>2. CASE CommitTimer
      BY <2>2 DEF CommitTimer, shared
    <2>3. ASSUME NEW v \in Slots, Completion(v) \/ Progress(v) PROVE word' = word
      BY <2>3 DEF Completion, Progress, shared
    <2> QED BY <1>2, <2>1, <2>2, <2>3 DEF Event
  <1>3. CASE JavaScriptStep
    <2>1. CASE Load \/ ReturnPromise
      BY <2>1 DEF Load, ReturnPromise, shared
    <2>2. CASE Seen
      BY <2>2 DEF Seen, shared
    <2>3. CASE AdvanceUnwritten \/ SettleTxn
      BY <2>3 DEF AdvanceUnwritten, SettleTxn, shared
    <2>4. CASE RunCallbacks
      BY <2>4 DEF RunCallbacks
    <2> QED BY <1>3, <2>1, <2>2, <2>3, <2>4 DEF JavaScriptStep
  <1>4. CASE UNCHANGED vars
    BY <1>4 DEF vars, shared
  <1> QED BY <1>1, <1>2, <1>3, <1>4 DEF NoWorkerStep

(* The words a step of a worker changes.                                    *)
LEMMA WorkerWords ==
  ASSUME OrderInv, NEW w \in Slots, WorkerStep(w)
  PROVE  \/ word' = word
         \/ Mark(w) \/ StartWait(w) \/ Delimit(w) \/ Publish(w)
  <1>1. ASSUME Execute(w) PROVE word' = word
    BY ONLY <1>1 DEF Execute, shared
  <1> QED BY <1>1 DEF WorkerStep, Begin, FollowPointer, LeaveBlock, FetchEmpty, Refetch, Wake,
                      Commit, shared

LEMMA FreeGoesOn ==
  ASSUME OrderInv, [Next]_vars, NEW p \in Positions, Free(p)
  PROVE  Free(p)' \/ (SeenToken' /\ Head(todo').slot = p)
  <1>1. /\ word \in [Positions -> SUBSET Bits] /\ Slots \subseteq Positions
        /\ Positions \subseteq Nat /\ position \in Nat
    BY OrderTypes, SlotFacts DEF OrderInv
  <1>2. p <= position /\ Nest(p) = 0
    BY DEF Free, OrderInv, Token, Delimiters
  <1>3. ASSUME word'[p] = word[p] PROVE Free(p)'
    BY <1>3 DEF Free, Written
  <1>4. ASSUME NEW w \in Slots, WorkerStep(w) PROVE Free(p)'
    <2>1. ~Launched(w)
      BY DEF OrderInv, Token, OneToken
    <2>2. ~(Mark(w) \/ StartWait(w) \/ Delimit(w))
      BY <2>1 DEF Mark, StartWait, Delimit, Launched
    <2>3. CASE Publish(w)
      <3>1. PICK bit : bit = IF outcome[w] = "failed" THEN "TXN_FAILED" ELSE "COMMITTED"
        OBVIOUS
      <3>2. word' = [word EXCEPT ![worker[w].at] = @ \cup {bit}] /\ bit # "INSTR"
        BY <2>3, <3>1 DEF Publish
      <3>3. word[p] \subseteq word'[p] /\ ("INSTR" \in word'[p] => "INSTR" \in word[p])
        BY <1>1, <3>2
      <3> QED BY <3>3 DEF Free, Written
    <2> QED BY <1>3, <1>4, <2>2, <2>3, WorkerWords
  <1>5. CASE NoWorkerStep /\ ~Store /\ ~Or
    BY <1>1, <1>2, <1>3, <1>5, WordsStay
  <1>6. CASE Store
    <2>1. Head(todo).slot # p
      <3>1. todo # <<>> /\ Head(todo).op = "store"
        BY <1>6 DEF Store, Doing
      <3>2. Head(todo).slot \in Slots /\ Nest(Head(todo).slot) > 0
        BY <3>1, HeadStep DEF StepOK, Placings
      <3> QED BY <1>2, <3>2
    <2>2. word'[p] = word[p]
      BY <1>1, <1>6, <2>1 DEF Store
    <2> QED BY <1>3, <2>2
  <1>7. CASE Or
    <2>1. /\ todo # <<>> /\ Head(todo).op = "or"
          /\ todo' = AfterStore(Head(todo).slot, word[Head(todo).slot]) \o Tail(todo)
          /\ word' = [word EXCEPT ![Head(todo).slot] = @ \cup {"INSTR"}]
      BY <1>7 DEF Or, Doing
    <2>2. CASE Head(todo).slot # p
      BY <1>1, <1>3, <2>1, <2>2
    <2>3. CASE Head(todo).slot = p
      <3>1. p \in Slots /\ kind[p] # "end"
        BY <1>2, <2>1, <2>3, HeadStep DEF Placings, OrderInv, Placement, Nested
      <3>2. todo' = <<Step("seen", p, word[p])>> \o Tail(todo)
        BY <2>1, <2>3, <3>1 DEF AfterStore
      <3>3. todo \in Seq(JSSteps)
        BY OrderTypes DEF OrderInv
      <3>4. todo' # <<>> /\ Head(todo') = Step("seen", p, word[p])
        <4>1. \A x, t : t \in Seq(JSSteps) => <<x>> \o t # <<>> /\ Head(<<x>> \o t) = x
          OBVIOUS
        <4>2. Tail(todo) \in Seq(JSSteps)
          BY <2>1, <3>3
        <4> QED BY <3>2, <4>1, <4>2
      <3>5. SeenToken' /\ Head(todo').slot = p
        BY <3>4 DEF SeenToken, Doing, Step, Free
      <3> QED BY <3>5
    <2> QED BY <2>2, <2>3
  <1> QED BY <1>4, <1>5, <1>6, <1>7 DEF Next, NoWorkerStep, Quiescent

(* What was queued stays queued.                                            *)
LEMMA QueuedStaysTxn ==
  ASSUME OrderInv, OrderInv', Chain, [Next]_vars
  PROVE  isTxn \subseteq isTxn'
  <1>1. CASE SettleTxn
    BY <1>1 DEF SettleTxn
  <1>2. CASE ~SettleTxn
    BY <1>2, ChainSteps DEF Queues, QueueCommit, txnChain
  <1> QED BY <1>1, <1>2

LEMMA SeenTokenGoesOn ==
  ASSUME OrderInv, [Next]_vars, SeenToken
  PROVE  (SeenToken' /\ Head(todo') = Head(todo)) \/ Head(todo).slot \in isTxn'
  <1>1. todo # <<>> /\ Head(todo).op = "seen"
    BY DEF SeenToken, Doing
  <1>2. ~(Call \/ Event)
    BY <1>1, NothingReported
  <1>3. CASE Seen
    <2>1. PICK s \in {0} \cup Slots : s = Head(todo).slot /\ QueueCommit(s)
      BY <1>3, SeenFacts
    <2> QED BY <2>1 DEF QueueCommit
  <1>4. ~(JavaScriptStep /\ ~Seen)
    <2>1. ~Load /\ ~Store /\ ~Or /\ ~ReturnPromise
      BY <1>1 DEF Load, Store, Or, ReturnPromise, Doing
    <2>2. ~AdvanceUnwritten /\ ~SettleTxn /\ ~RunCallbacks
      BY <1>1 DEF AdvanceUnwritten, SettleTxn, RunCallbacks, Doing
    <2> QED BY <2>1, <2>2 DEF JavaScriptStep
  <1>5. CASE todo' = todo
    BY <1>5 DEF SeenToken, Doing
  <1>6. ASSUME NEW w \in Slots, WorkerStep(w) PROVE todo' = todo
    BY <1>6, WorkerKeepsJavaScript DEF JavaScriptVars
  <1>7. CASE UNCHANGED vars
    BY <1>5, <1>7 DEF vars
  <1> QED BY <1>2, <1>3, <1>4, <1>5, <1>6, <1>7 DEF Next, Quiescent

LEMMA EndsSeenNext ==
  ASSUME OrderInv, OrderInv', Transactions, Chain, EndsSeen, [Next]_vars
  PROVE  EndsSeen'
  <1> SUFFICES ASSUME NEW w \in Slots, Ended(w)'
               PROVE  \/ worker'[w].at \in isTxn' \/ (\E p \in Positions : p = worker'[w].at /\ Free(p)')
                      \/ SeenToken' /\ Head(todo').slot = worker'[w].at
    BY DEF EndsSeen, Free, Written
  <1>1. worker \in [Slots -> WorkerRecords] /\ word \in [Positions -> SUBSET Bits]
        /\ worker[w].at \in Positions
    BY OrderTypes DEF OrderInv
  <1>2. CASE Delimit(w)
    <2>1. worker'[w].at = worker[w].at /\ word'[worker[w].at] = {"DELIMITER"}
      BY <1>1, <1>2 DEF Delimit, WorkerRecords
    <2> QED BY <1>1, <2>1 DEF Free, Written
  <1>3. CASE Ended(w)
    <2>1. worker'[w].at = worker[w].at
      BY <1>3, EndedLasts
    <2>2. CASE worker[w].at \in isTxn
      BY <2>1, <2>2, QueuedStaysTxn
    <2>3. CASE Free(worker[w].at)
      BY <1>1, <2>1, <2>3, FreeGoesOn
    <2>4. CASE SeenToken /\ Head(todo).slot = worker[w].at
      BY <2>1, <2>4, SeenTokenGoesOn
    <2> QED BY <1>3, <2>2, <2>3, <2>4 DEF EndsSeen
  <1> QED BY <1>2, <1>3, EndedLasts

-----------------------------------------------------------------------------
(* COMMITTED and FAILED are the outcome of the transaction that ended there.*)

LEMMA ToldStays ==
  ASSUME OrderInv, Transactions, Grows, [Next]_vars, NEW p, NEW bits, Told(bits, p),
         NEW new, new \cap TxnDone \subseteq bits
  PROVE  new \cap TxnDone # {} => p = 1 \/ \E w \in Slots : ToldBy(w, new, p)'
  <1> SUFFICES ASSUME new \cap TxnDone # {}, p # 1
               PROVE  \E w \in Slots : ToldBy(w, new, p)'
    OBVIOUS
  <1>1. PICK w \in Slots : ToldBy(w, bits, p)
    BY DEF Told
  <1>2. Published(w) /\ outcome[w] # "none"
    BY <1>1 DEF ToldBy, Published, Transactions, Launches
  <1>3. Published(w)' /\ worker'[w].at = p /\ outcome'[w] = outcome[w]
    BY <1>1, <1>2, EndedLasts DEF ToldBy, Grows
  <1>4. ToldBy(w, new, p)'
    BY <1>1, <1>3 DEF ToldBy, Published, TxnDone
  <1> QED BY <1>4

LEMMA PublishTells ==
  ASSUME OrderInv, Transactions, Spans, Verdicts, NEW w \in Slots, Publish(w)
  PROVE  Told(word[worker[w].at], worker[w].at)'
  <1>1. PICK n \in Positions : n = worker[w].at
    BY OrderTypes DEF OrderInv
  <1>2. /\ worker \in [Slots -> WorkerRecords] /\ word \in [Positions -> SUBSET Bits]
        /\ Slots \subseteq Nat /\ 0 \notin Slots
    BY OrderTypes, SlotFacts DEF OrderInv
  <1>3. PICK bit : bit = IF outcome[w] = "failed" THEN "TXN_FAILED" ELSE "COMMITTED"
    OBVIOUS
  <1>4. /\ worker[w].pc = "publish" /\ worker'[w].pc = "complete" /\ worker'[w].at = n
        /\ outcome' = outcome /\ word'[n] = word[n] \cup {bit}
    BY <1>1, <1>2, <1>3 DEF Publish, history, WorkerRecords
  <1>5. Ended(w) /\ outcome[w] # "none" /\ outcome[w] \in {"none", "committed", "failed"}
    BY <1>4 DEF Ended, Transactions, Launches, OrderInv, Inv, TypeInv, TypeOK, TypeHistory
  <1>6. n # 1
    BY <1>1, <1>2, <1>5 DEF Transactions, EndsOutside, EndedAt
  <1>7. word[n] \cap TxnDone = {}
    <2> SUFFICES ASSUME word[n] \cap TxnDone # {} PROVE FALSE
      OBVIOUS
    <2>1. PICK v \in Slots : ToldBy(v, word[n], n)
      BY <1>6 DEF Verdicts, Told
    <2>2. Ended(v) /\ worker[v].at = n /\ v # w
      BY <1>4, <2>1 DEF ToldBy, Ended
    <2> QED BY <1>1, <1>5, <2>2, EndsOnce
  <1>8. ToldBy(w, word[n], n)'
    BY <1>3, <1>4, <1>5, <1>7 DEF ToldBy, TxnDone
  <1> QED BY <1>1, <1>4, <1>8 DEF Told

LEMMA VerdictsNext ==
  ASSUME OrderInv, Transactions, Grows, Spans, Verdicts, [Next]_vars
  PROVE  Verdicts'
  <1>1. /\ worker \in [Slots -> WorkerRecords] /\ word \in [Positions -> SUBSET Bits]
        /\ \A v \in Slots : worker[v].at \in Positions
    BY OrderTypes DEF OrderInv
  <1>2. ASSUME NEW p \in Positions, NEW bits, Told(bits, p), word'[p] \cap TxnDone \subseteq bits
        PROVE  Told(word[p], p)'
    <2>1. PICK new : new = word'[p]
      OBVIOUS
    <2>2. new \cap TxnDone # {} => p = 1 \/ \E w \in Slots : ToldBy(w, new, p)'
      BY <1>2, <2>1, ToldStays
    <2> QED BY <2>1, <2>2 DEF Told, ToldBy
  <1>3. ASSUME NEW p \in Positions, word'[p] \cap TxnDone \subseteq word[p]
        PROVE  Told(word[p], p)'
    BY <1>2, <1>3 DEF Verdicts
  <1>4. ASSUME NEW p \in Positions PROVE Told(word[p], p)'
    <2>1. CASE NoWorkerStep /\ ~Store /\ ~Or
      <3>1. word'[p] = word[p] \/ word'[p] = {"INSTR"}
        BY <2>1, WordsStay
      <3> QED BY <1>3, <3>1 DEF TxnDone
    <2>2. CASE Store \/ Or
      <3>1. word'[p] = word[p] \/ word'[p] = {"INSTR"} \/ word'[p] = word[p] \cup {"INSTR"}
        <4>1. CASE Store
          BY <1>1, <4>1 DEF Store
        <4>2. CASE Or
          <5>1. word' = [word EXCEPT ![Head(todo).slot] = @ \cup {"INSTR"}]
            BY <4>2 DEF Or
          <5> QED BY <1>1, <5>1
        <4> QED BY <2>2, <4>1, <4>2
      <3> QED BY <1>3, <3>1 DEF TxnDone
    <2>3. ASSUME NEW w \in Slots, WorkerStep(w) PROVE Told(word[p], p)'
      <3>1. CASE word' = word
        BY <1>3, <3>1
      <3>2. CASE p # worker[w].at
        <4>1. word'[p] = word[p]
          <5>1. CASE Mark(w)
            BY <1>1, <3>2, <5>1 DEF Mark
          <5>2. CASE StartWait(w) \/ Delimit(w)
            BY <1>1, <3>2, <5>2 DEF StartWait, Delimit
          <5>3. CASE Publish(w)
            BY <1>1, <3>2, <5>3 DEF Publish
          <5> QED BY <2>3, <5>1, <5>2, <5>3, WorkerWords
        <4> QED BY <1>3, <4>1
      <3>3. CASE p = worker[w].at /\ Mark(w)
        <4>1. PICK old, result :
                /\ old = IF worker[w].first THEN word[p] ELSE worker[w].read
                /\ result = IF worker[w].failed THEN {"FINISHED", "FAILED_CONDITION"}
                            ELSE {"FINISHED"}
          OBVIOUS
        <4>2. word'[p] = old \cup result /\ worker[w].pc = "mark"
          BY <1>1, <3>3, <4>1 DEF Mark
        <4>3. Told(old, p)
          BY <3>3, <4>1, <4>2 DEF Verdicts
        <4>4. word'[p] \cap TxnDone \subseteq old
          BY <4>1, <4>2 DEF TxnDone
        <4> QED BY <1>2, <4>3, <4>4
      <3>4. CASE p = worker[w].at /\ (StartWait(w) \/ Delimit(w))
        <4>1. word'[p] = {"WAITING"} \/ word'[p] = {"DELIMITER"}
          BY <1>1, <3>4 DEF StartWait, Delimit
        <4> QED BY <1>3, <4>1 DEF TxnDone
      <3>5. CASE p = worker[w].at /\ Publish(w)
        <4>1. worker'[w].at = worker[w].at
          BY <1>1, <3>5 DEF Publish, WorkerRecords
        <4> QED BY <3>5, <4>1, PublishTells DEF Told, ToldBy
      <3> QED BY <2>3, <3>1, <3>2, <3>3, <3>4, <3>5, WorkerWords
    <2> QED BY <2>1, <2>2, <2>3 DEF Next, NoWorkerStep, Quiescent
  <1>5. ASSUME NEW w \in Slots, worker'[w].pc = "mark"
        PROVE  Told(worker[w].read, worker[w].at)'
    <2>1. worker'[w].at = worker[w].at /\ Told(worker'[w].read, worker[w].at)
      <3>1. CASE worker[w].pc = "mark" /\ worker'[w].at = worker[w].at
                 /\ worker'[w].read = worker[w].read
        BY <3>1 DEF Verdicts
      <3>2. CASE Execute(w)
        <4>1. worker'[w].at = worker[w].at /\ worker'[w].read = word[worker[w].at]
          BY <1>1, <3>2 DEF Execute, WorkerRecords
        <4> QED BY <1>1, <4>1 DEF Verdicts
      <3> QED BY <1>5, <3>1, <3>2, EndedLasts
    <2>2. PICK new, n : new = worker'[w].read /\ n = worker[w].at
      OBVIOUS
    <2>3. new \cap TxnDone # {} => n = 1 \/ \E v \in Slots : ToldBy(v, new, n)'
      BY <2>1, <2>2, ToldStays
    <2> QED BY <2>1, <2>2, <2>3 DEF Told, ToldBy
  <1> QED BY <1>4, <1>5 DEF Verdicts

-----------------------------------------------------------------------------
(* The queue, when no end is forgotten.                                     *)

LEMMA KeptQueueStays ==
  ASSUME OrderInv, OrderInv', Grows, Takes, NEW list \in Seq(Slots), Extends(list), Chain,
         EndsAreKept, KeptQueue, UNCHANGED uncommitted,
         UNCHANGED txnChain \/ \E s \in Positions : Queues(s)
  PROVE  KeptQueue'
  <1>1. /\ isTxn \subseteq Positions /\ 0 \notin Positions /\ txnResolution \in {0} \cup isTxn
        /\ nextTxn \in [Positions -> {0} \cup Positions]
    BY ChainTypes
  <1>2. \A q \in isTxn : SettledTo(q)' <=> SettledTo(q)
    <2> SUFFICES ASSUME NEW q \in isTxn PROVE IndexOf(q)' = IndexOf(q)
      BY DEF SettledTo
    <2>1. q \in Positions /\ q <= position /\ Nest(q) = 0 /\ (q < position => kind[q] \in Listed)
      BY <1>1 DEF Chain
    <2> QED BY <2>1, IndexStays
  <1>3. CASE UNCHANGED txnChain
    BY <1>2, <1>3 DEF KeptQueue, txnChain
  <1>4. ASSUME NEW s \in Positions, QueueCommit(s) PROVE KeptQueue'
    <2>1. CASE s \in isTxn
      <3>1. UNCHANGED <<isTxn, txnResolution, nextTxn>>
        BY <1>4, <2>1 DEF QueueCommit
      <3> QED BY <1>2, <3>1 DEF KeptQueue
    <2>2. CASE s \notin isTxn /\ txnResolution = 0
      <3>1. isTxn' = isTxn \cup {s} /\ txnResolution' = s
        BY <1>4, <2>2 DEF QueueCommit
      <3> QED BY <1>1, <1>2, <2>2, <3>1 DEF KeptQueue
    <2>3. CASE s \notin isTxn /\ txnResolution # 0
      <3>1. PICK t \in isTxn : t = txnResolution
        BY <1>1, <2>3
      <3>2. isTxn' = isTxn \cup {s} /\ txnResolution' = t /\ nextTxn'[t] = s
        BY <1>1, <1>4, <2>3, <3>1 DEF QueueCommit
      <3>3. nextTxn[t] = 0
        <4>1. nextTxn[t] # 0 => nextTxn[t] \in isTxn /\ nextTxn'[t] = nextTxn[t]
          BY <1>1, <3>1 DEF Chain, EndsAreKept
        <4> QED BY <2>3, <3>2, <4>1
      <3>4. \A q \in isTxn : SettledTo(q) \/ q = t
        BY <1>1, <3>1, <3>3 DEF KeptQueue
      <3> QED BY <1>1, <1>2, <3>1, <3>2, <3>4 DEF KeptQueue
    <2> QED BY <2>1, <2>2, <2>3
  <1> QED BY <1>3, <1>4 DEF Queues

LEMMA IndexOrder ==
  ASSUME OrderInv, Chain, NEW c \in isTxn, NEW t \in isTxn, c <= t
  PROVE  IndexOf(c) <= IndexOf(t) /\ IndexOf(t) \in Nat \ {0}
  <1>1. /\ \A q \in {c, t} : q \in Positions /\ q \in Nat /\ q <= position
                             /\ (q < position => kind[q] \in Listed)
        /\ resolutions \in Seq(Slots)
    BY ChainTypes, OrderTypes DEF Chain, OrderInv
  <1>2. PICK i, j : i = IndexOf(c) /\ j = IndexOf(t)
    OBVIOUS
  <1>3. /\ i \in 1..Len(resolutions) + 1 /\ j \in 1..Len(resolutions) + 1
        /\ \A k \in DOMAIN resolutions : k < i => resolutions[k] < c
        /\ j \in DOMAIN resolutions => resolutions[j] = t
    BY <1>1, <1>2, IndexBounds
  <1>4. ASSUME j < i PROVE FALSE
    <2>1. j \in DOMAIN resolutions
      BY <1>1, <1>3, <1>4
    <2>2. t < c
      BY <1>3, <1>4, <2>1
    <2> QED BY <1>1, <2>2
  <1> QED BY <1>1, <1>2, <1>3, <1>4

LEMMA SettleTxnKeepsQueue ==
  ASSUME OrderInv, Chain, SettledInOrder, KeptQueue, SettleTxn
  PROVE  KeptQueue'
  <1>1. UNCHANGED <<resolutions, isTxn, nextTxn>>
    BY DEF SettleTxn
  <1>2. \A q : IndexOf(q)' = IndexOf(q)
    BY <1>1 DEF IndexOf
  <1>3. CASE ~(txnResolution # 0 /\ word[txnResolution] \cap TxnDone # {})
    <2>1. UNCHANGED <<uncommitted, txnResolution>>
      BY ONLY <1>3, SettleTxn DEF SettleTxn
    <2> QED BY <1>1, <1>2, <2>1 DEF KeptQueue, SettledTo
  <1>4. CASE txnResolution # 0 /\ word[txnResolution] \cap TxnDone # {}
    <2>1. PICK t \in isTxn : t = txnResolution
      BY <1>4 DEF Chain
    <2>2. uncommitted' = IndexOf(t) /\ txnResolution' = nextTxn[t]
      BY ONLY <1>4, <2>1, SettleTxn DEF SettleTxn
    <2>3. PICK c \in {0} \cup isTxn : SettledUpTo(c)
      BY DEF SettledInOrder
    <2>4. /\ isTxn \subseteq Positions /\ Positions \subseteq Nat /\ 0 \notin Positions
      BY ChainTypes
    <2>5. c <= t
      BY <1>4, <2>1, <2>3 DEF SettledUpTo
    <2>6. IndexOf(t) \in Nat \ {0} /\ (uncommitted # 0 => uncommitted <= IndexOf(t))
      <3>1. CASE c = 0
        BY <2>3, <2>4, <3>1, IndexOrder DEF SettledUpTo
      <3>2. CASE c \in isTxn
        BY <2>3, <2>4, <2>5, <3>2, IndexOrder DEF SettledUpTo
      <3> QED BY <3>1, <3>2
    <2>7. ASSUME NEW q \in isTxn
          PROVE  SettledTo(q)' \/ (txnResolution' # 0 /\ q = txnResolution')
      <3>1. CASE SettledTo(q)
        <4>1. uncommitted \in Nat /\ IndexOf(q) \in Nat
          <5>1. q <= q
            BY <2>4
          <5> QED BY <5>1, IndexOrder DEF OrderInv, Inv, TypeInv, TypeOK, TypeResolving
        <4>2. IndexOf(q) <= IndexOf(t)
          BY <2>6, <3>1, <4>1 DEF SettledTo
        <4> QED BY <1>2, <2>2, <2>6, <4>2 DEF SettledTo
      <3>2. CASE q = t
        BY <1>2, <2>2, <2>6, <3>2 DEF SettledTo
      <3>3. CASE q = nextTxn[t]
        BY <2>2, <2>4, <3>3
      <3> QED BY <2>1, <3>1, <3>2, <3>3 DEF KeptQueue
    <2> QED BY <1>1, <2>7 DEF KeptQueue
  <1> QED BY <1>3, <1>4

(* The writes that are settled with an end are of the transaction that      *)
(* ended there.                                                             *)
LEMMA SettledTogether ==
  ASSUME OrderInv, Transactions, Chain, Spans, EndsSeen, Verdicts, KeptQueue,
         NEW t \in isTxn, t = txnResolution, word[t] \cap TxnDone # {},
         NEW s \in Slots, s \in Uncommitted(IndexOf(t))
  PROVE  Outcome(s) = IF Has(word[t], "TXN_FAILED") THEN "failed" ELSE "committed"
  <1>1. /\ isTxn \subseteq Positions /\ Positions \subseteq Nat /\ 0 \notin Positions
        /\ position \in Nat /\ Slots \subseteq Positions
        /\ resolutions \in Seq(Slots) /\ uncommitted \in Nat
        /\ txnOf \in [Slots -> {0} \cup Slots] /\ \A w \in Slots : worker[w].at \in Positions
    BY ChainTypes, OrderTypes DEF OrderInv, Inv, TypeInv, TypeOK, TypeResolving
  <1>2. /\ t <= position /\ NotPast(t) /\ (t < position => kind[t] \in Listed) /\ Over(t)
    BY <1>1 DEF Chain, Transactions, OverWhenDone
  <1>3. /\ IndexOf(t) \in 1..Len(resolutions) + 1
        /\ \A i \in DOMAIN resolutions : i < IndexOf(t) => resolutions[i] < t
    BY <1>1, <1>2, IndexBounds
  <1>4. PICK i \in DOMAIN resolutions :
          i < IndexOf(t) /\ uncommitted <= i /\ s = resolutions[i]
    BY <1>1, <1>3 DEF Uncommitted
  <1>5. s < t /\ kind[s] \in Listed
    BY <1>3, <1>4 DEF OrderInv, Placement, ListInOrder
  <1>6. PICK w \in Slots : w = txnOf[s] /\ outcome[w] # "none"
    BY <1>1, <1>2, <1>5 DEF Over, Decided
  <1>7. Ended(w) /\ w <= s /\ s < worker[w].at
    BY <1>1, <1>5, <1>6 DEF Spans, Transactions, Launches, Ended
  <1>8. PICK v \in Slots : ToldBy(v, word[t], t)
    <2>1. t \in Positions /\ s \in Nat \ {0} /\ t \in Nat
      BY <1>1, SlotFacts
    <2>2. t # 1
      BY <1>5, <2>1
    <2> QED BY <2>1, <2>2 DEF Verdicts, Told
  <1>9. \A u \in Slots : Ended(u) => /\ txnOf[u] = u /\ u < worker[u].at /\ kind[u] \in Listed
    BY <1>1 DEF Transactions, EndsOutside, EndedAt, OrderInv, Token, Logged
  <1>10. Ended(v) /\ worker[v].at = t
    BY <1>8 DEF ToldBy, Ended
  <1>11. PICK n \in Positions : n = worker[w].at
    BY <1>1
  <1> s \in Nat /\ t \in Nat /\ n \in Nat /\ v \in Nat /\ w \in Nat /\ t \in Positions
    BY <1>1
  <1>12. t <= n
    <2> SUFFICES ASSUME n < t PROVE FALSE
      BY <1>1
    <2>1. n \in isTxn
      <3>1. ~Free(n)
        BY <1>2 DEF NotPast
      <3>2. ~(SeenToken /\ Head(todo).slot = n)
        BY <1>2 DEF NotPast
      <3> QED BY <1>7, <1>11, <3>1, <3>2 DEF EndsSeen
    <2>2. n < position /\ kind[n] \in Listed
      BY <1>1, <1>2, <2>1 DEF Chain
    <2>3. PICK j : j = IndexOf(n)
      OBVIOUS
    <2>4. /\ j \in 1..Len(resolutions) + 1 /\ (j \in DOMAIN resolutions => resolutions[j] = n)
          /\ (j \notin DOMAIN resolutions => n = position)
      BY <1>1, <2>2, <2>3, IndexBounds
    <2>5. j \in DOMAIN resolutions /\ resolutions[j] = n
      BY <1>1, <2>2, <2>4
    <2>6. n # nextTxn[t]
      <3>1. nextTxn[t] # 0 => t < nextTxn[t]
        BY DEF Chain
      <3> QED BY <1>1, <3>1
    <2>7. SettledTo(n)
      BY <1>1, <2>1, <2>6 DEF KeptQueue
    <2>8. j <= i
      BY <1>1, <1>4, <2>3, <2>4, <2>7 DEF SettledTo
    <2>9. n <= s
      <3>1. j = i \/ (j < i /\ i \in Nat)
        BY <1>1, <1>4, <2>4, <2>8
      <3>2. j < i => resolutions[j] < resolutions[i]
        BY <1>4, <2>5 DEF OrderInv, Placement, ListInOrder
      <3> QED BY <1>4, <2>5, <3>1, <3>2
    <2> QED BY <1>1, <1>7, <1>11, <2>9
  <1>13. v = w
    <2>1. CASE w <= v
      <3>1. v < worker[w].at
        BY <1>1, <1>9, <1>10, <1>11, <1>12
      <3>2. txnOf[v] = w
        BY <1>7, <1>9, <1>10, <2>1, <3>1 DEF Spans
      <3> QED BY <1>9, <1>10, <3>2
    <2>2. CASE v <= w
      <3>1. w < worker[v].at
        BY <1>1, <1>5, <1>7, <1>10
      <3>2. txnOf[w] = v
        BY <1>7, <1>9, <1>10, <2>2, <3>1 DEF Spans
      <3> QED BY <1>7, <1>9, <3>2
    <2>3. v <= w \/ w <= v
      OBVIOUS
    <2> QED BY <2>1, <2>2, <2>3
  <1>14. Outcome(s) = outcome[w]
    BY <1>1, <1>6 DEF Outcome
  <1> QED BY <1>8, <1>13, <1>14 DEF ToldBy, TxnDone, Has

LEMMA TruthfulNext ==
  ASSUME OrderInv, OrderInv', Transactions, Chain, Grows, Spans, EndsSeen, Verdicts, KeptQueue,
         Truthful, [Next]_vars
  PROVE  Truthful'
  <1>0. txnOf \in [Slots -> {0} \cup Slots]
    BY OrderTypes DEF OrderInv
  <1>1. ASSUME NEW s \in Slots, NEW result \in {"committed", "failed"}, Outcome(s) = result
        PROVE  Outcome(s)' = result
    <2>1. PICK w \in Slots : w = txnOf[s] /\ outcome[w] = result /\ txnOf[s] # 0
      BY <1>0, <1>1 DEF Outcome
    <2>2. txnOf'[s] = w /\ outcome'[w] = result
      BY <2>1 DEF Grows
    <2> QED BY <2>1, <2>2, SlotFacts DEF Outcome
  <1>2. CASE ~SettleTxn
    <2>1. settled' = settled
      BY <1>2, ChainSteps
    <2> QED BY <1>1, <2>1 DEF Truthful
  <1>3. CASE SettleTxn
    <2>1. CASE ~(txnResolution # 0 /\ word[txnResolution] \cap TxnDone # {})
      <3>1. settled' = settled
        BY ONLY <1>3, <2>1 DEF SettleTxn
      <3> QED BY <1>1, <3>1 DEF Truthful
    <2>2. CASE txnResolution # 0 /\ word[txnResolution] \cap TxnDone # {}
      <3>1. PICK t \in isTxn : t = txnResolution
        BY <2>2 DEF Chain
      <3>2. ASSUME NEW s \in Slots
            PROVE  \/ settled'[s] = settled[s]
                   \/ /\ s \in Uncommitted(IndexOf(t))
                      /\ IF Has(word[t], "TXN_FAILED") THEN settled'[s] = "rejected"
                         ELSE settled'[s] \in {"true", "false"}
        BY ONLY <1>3, <2>2, <3>1, s \in Slots DEF SettleTxn
      <3>3. ASSUME NEW s \in Slots, settled'[s] # settled[s]
            PROVE  IF Has(word[t], "TXN_FAILED")
                   THEN settled'[s] = "rejected" /\ Outcome(s)' = "failed"
                   ELSE settled'[s] \in {"true", "false"} /\ Outcome(s)' = "committed"
        <4>1. Outcome(s) = IF Has(word[t], "TXN_FAILED") THEN "failed" ELSE "committed"
          BY <2>2, <3>1, <3>2, <3>3, SettledTogether
        <4> QED BY <1>1, <3>2, <3>3, <4>1
      <3> QED BY <1>1, <3>3 DEF Truthful
    <2> QED BY <2>1, <2>2
  <1> QED BY <1>2, <1>3

LEMMA AnswerNext ==
  ASSUME OrderInv, SettleInv, OrderInv', SettleInv', Grows, AnswerInv, EndsAreKept, [Next]_vars
  PROVE  AnswerInv'
  <1>1. Transactions /\ Transactions' /\ Chain /\ SettledInOrder
    BY DEF SettleInv, Transactions
  <1>2. Spans' /\ EndsSeen' /\ Verdicts' /\ Truthful'
    BY <1>1, SpansNext, EndsSeenNext, VerdictsNext, TruthfulNext DEF AnswerInv
  <1>3. KeptQueue'
    <2>1. CASE SettleTxn
      BY <1>1, <2>1, SettleTxnKeepsQueue DEF AnswerInv
    <2>2. CASE ~SettleTxn
      <3>1. PICK list \in Seq(Slots) : Takes /\ Extends(list)
        BY ListGrows
      <3>2. /\ UNCHANGED uncommitted
            /\ UNCHANGED txnChain \/ \E s \in Positions : Queues(s)
        BY <1>1, <2>2, ChainSteps
      <3> QED BY <1>1, <3>1, <3>2, KeptQueueStays DEF AnswerInv
    <2> QED BY <2>1, <2>2
  <1> QED BY <1>2, <1>3 DEF AnswerInv

LEMMA InitAnswers == Init => AnswerInv
  <1> SUFFICES ASSUME Init PROVE AnswerInv
    OBVIOUS
  <1>1. /\ \A w \in Slots : worker[w].pc = "none" /\ settled[w] = "pending"
        /\ isTxn = {}
    BY DEF Init, WorkerAt
  <1>2. Spans /\ EndsSeen /\ KeptQueue /\ Truthful
    BY <1>1 DEF Spans, EndsSeen, KeptQueue, Truthful, Ended
  <1>3. \A p \in Positions : p # 1 => word[p] = {}
    BY DEF Init
  <1>4. Verdicts
    BY <1>1, <1>3 DEF Verdicts, Told
  <1> QED BY <1>2, <1>4 DEF AnswerInv

(* A promise is shared by writes of one event turn, which are in one        *)
(* transaction.                                                             *)
LEMMA TruthfulAnswers ==
  ASSUME OrderInv, SettleInv, InTurn, Truthful
  PROVE  SettlementIsTrue
  <1> SUFFICES ASSUME NEW s \in Slots, Answer(s) # "pending"
               PROVE  /\ Answer(s) \in {"true", "false"} => Outcome(s) = "committed"
                      /\ Answer(s) = "rejected" => Outcome(s) = "failed"
    BY DEF SettlementIsTrue
  <1>1. PICK p \in Slots : p = promise[s] /\ Answer(s) = settled[p]
    BY DEF Answer
  <1>2. Decided(s)
    BY AnsweredIsDecided DEF SettleInv, InTurn
  <1>3. group[p] = group[s]
    BY <1>1 DEF InTurn, PromisesInTurn
  <1>4. ASSUME txnOf[p] # 0 PROVE Outcome(p) = Outcome(s)
    BY <1>2, <1>3, <1>4, OrderImplies DEF BlocksAreAtomic, Decided, Outcome
  <1> QED BY <1>1, <1>4 DEF Truthful, Outcome

-----------------------------------------------------------------------------
(* Without user blocks a write has a promise that settles.                  *)

LEMMA FlatCall ==
  ASSUME NoUserBlocks, OrderInv, FlatDepth, Call
  PROVE  /\ blocks' = <<>> /\ promise' = promise
         /\ \A s \in Slots : writtenBatchDepth'[s] <= 1
  <1>1. PICK k, own : Write(k, own)
    BY DEF Call, NoUserBlocks
  <1>2. blocks' = blocks /\ promise' = promise
    BY <1>1 DEF Write
  <1>3. PICK startFull, full \in BOOLEAN :
          Reserve(k, own, Place(startFull, full))
    BY <1>1 DEF Write
  <1>4. batchDepth <= 1
    BY DEF FlatDepth, OrderInv, Inv, TypeInv, DepthOfBlocks
  <1>5. Place(startFull, full).depth <= 1
    BY <1>4 DEF Place
  <1>6. \E q : writtenBatchDepth' =
          [writtenBatchDepth EXCEPT ![q] = Place(startFull, full).depth]
    BY <1>3 DEF Reserve
  <1>7. writtenBatchDepth \in [Slots -> Nat]
    BY DEF OrderInv, Inv, TypeInv, TypeOK, TypePlacing
  <1>8. \A s \in Slots : writtenBatchDepth'[s] <= 1
    BY <1>5, <1>6, <1>7 DEF FlatDepth
  <1> QED BY <1>2, <1>8 DEF FlatDepth

LEMMA FlatPromise ==
  ASSUME OrderInv, FlatDepth, ReturnPromise
  PROVE  FlatDepth'
  <1>1. UNCHANGED <<blocks, writtenBatchDepth>>
    BY DEF ReturnPromise, batching, placing
  <1>2. Head(todo).slot \in Slots \/ Head(todo).slot \notin Slots
    OBVIOUS
  <1>3. commitPromise \in {0} \cup Slots /\ promise \in [Slots -> 0..Resolved]
    BY TurnTypes
  <1>4. commitPromise # Resolved /\ \A s \in Slots : s # Resolved
    BY <1>3, SlotFacts DEF Resolved, Slots
  <1>5. \A s \in Slots : promise'[s] # Resolved
    <2> SUFFICES ASSUME NEW s \in Slots, s = Head(todo).slot PROVE promise'[s] # Resolved
      BY <1>3 DEF ReturnPromise, FlatDepth
    <2>1. ~(writtenBatchDepth[s] > 1)
      <3>1. writtenBatchDepth[s] \in Nat /\ writtenBatchDepth[s] <= 1
        BY DEF FlatDepth, OrderInv, Inv, TypeInv, TypeOK, TypePlacing
      <3> QED BY <3>1
    <2>2. promise'[s] \in {s, commitPromise}
      BY <1>3, <2>1 DEF ReturnPromise
    <2> QED BY <1>4, <2>2
  <1> QED BY <1>1, <1>5 DEF FlatDepth

LEMMA FlatNext ==
  ASSUME NoUserBlocks, OrderInv, FlatDepth, [Next]_vars
  PROVE  FlatDepth'
  <1>1. CASE Call
    BY <1>1, FlatCall DEF FlatDepth
  <1>2. CASE Event
    <2>1. ~CloseBlock
      BY DEF CloseBlock, FlatDepth
    <2>2. UNCHANGED <<blocks, writtenBatchDepth, promise>>
      <3>1. CASE EndTurn
        BY <3>1 DEF EndTurn, promises
      <3>2. CASE CommitTimer
        BY <3>2 DEF CommitTimer, placing, batching, promises
      <3>3. ASSUME NEW w, Completion(w) \/ Progress(w)
            PROVE  UNCHANGED <<blocks, writtenBatchDepth, promise>>
        BY <3>3 DEF Completion, Progress, placing, batching, promises
      <3> QED BY <1>2, <2>1, <3>1, <3>2, <3>3 DEF Event
    <2> QED BY <2>2 DEF FlatDepth
  <1>3. CASE ReturnPromise
    BY <1>3, FlatPromise
  <1>4. CASE JavaScriptStep /\ ~ReturnPromise
    <2>1. UNCHANGED <<blocks, writtenBatchDepth, promise>>
      <3>1. CASE Load \/ Or
        BY <3>1 DEF Load, Or, placing, batching, promises
      <3>2. CASE Store
        BY <3>2 DEF Store, placing, promises
      <3>3. CASE Seen
        BY <3>3 DEF Seen, placing, batching
      <3>4. CASE AdvanceUnwritten \/ SettleTxn \/ RunCallbacks
        BY <3>4 DEF AdvanceUnwritten, SettleTxn, RunCallbacks, placing, batching, promises
      <3> QED BY <1>4, <3>1, <3>2, <3>3, <3>4 DEF JavaScriptStep
    <2> QED BY <2>1 DEF FlatDepth
  <1>5. ASSUME NEW w \in Slots, WorkerStep(w) PROVE FlatDepth'
    <2>1. UNCHANGED <<blocks, writtenBatchDepth, promise>>
      BY <1>5, WorkerKeepsJavaScript DEF JavaScriptVars, placing, batching, promises
    <2> QED BY <2>1 DEF FlatDepth
  <1>6. CASE UNCHANGED vars
    BY <1>6 DEF vars, placing, batching, promises, FlatDepth
  <1> QED BY <1>1, <1>2, <1>3, <1>4, <1>5, <1>6 DEF Next, Quiescent

LEMMA InitFlat == Init => FlatDepth
  BY SlotFacts DEF Init, FlatDepth, Resolved

(* An answered callback is part of a transaction that was decided, and no   *)
(* worker decides one while a callback is still to run.                     *)
LEMMA AnsweredRan ==
  ASSUME OrderInv, SettleInv, InTurn, Awaited, FlatDepth
  PROVE  CallbackBeforeAnswer
  <1> SUFFICES ASSUME NEW s \in Slots, kind[s] = "callback",
                      Answer(s) \in {"true", "false"} \/ promise[s] = Resolved, ran[s] = 0
               PROVE  FALSE
    BY DEF CallbackBeforeAnswer
  <1>1. Answer(s) # "pending"
    BY DEF FlatDepth
  <1>2. Decided(s)
    BY <1>1, AnsweredIsDecided DEF SettleInv, InTurn
  <1>3. PICK w \in Slots : w = txnOf[s] /\ outcome[w] # "none"
    BY <1>2, CallbackTypes DEF Decided
  <1>4. Launched(w)
    BY <1>2, <1>3 DEF Awaited, Decided
  <1> QED BY <1>3, <1>4 DEF SettleInv, Launches, Launched

-----------------------------------------------------------------------------
(* The theorems.                                                            *)

(* The invariant about the settlement of promises, and about the event      *)
(* turns they belong to (write.js), holds in every state.                   *)
THEOREM SettleCorrect == Spec => []WritePathInv
  <1>1. WritePathInv /\ [Next]_vars => WritePathInv'
    <2> SUFFICES ASSUME WritePathInv, [Next]_vars PROVE WritePathInv'
      OBVIOUS
    <2>1. OrderInv' /\ SettleInv'
      BY SettleNext DEF WritePathInv
    <2>2. ASSUME EventTurnBatching PROVE InTurn'
      BY <2>1, <2>2, TurnNext DEF WritePathInv, TurnInv, SettleInv
    <2> QED BY <2>1, <2>2 DEF WritePathInv, TurnInv
  <1>2. Init => WritePathInv
    BY InitSettle, InitInTurn DEF WritePathInv, TurnInv
  <1> QED BY <1>1, <1>2, PTL DEF Spec

(* A promise that settled stays as it is, and no transaction is undone      *)
(* (resolveCommit and rejectCommit of write.js settle what lies between the *)
(* last end of a transaction and the next; WriteWorker::Write commits once).*)
THEOREM SettlesOnce == Spec => SettledOnce
  <1>1. WritePathInv /\ [Next]_vars =>
          [\A s \in Slots : /\ settled[s] # "pending" => settled'[s] = settled[s]
                            /\ outcome[s] # "none" => outcome'[s] = outcome[s]]_vars
    BY SettledForGood DEF WritePathInv
  <1> QED BY <1>1, SettleCorrect, PTL DEF Spec, SettledOnce

(* outstandingWriteCount, from which write.js decides to start a worker and *)
(* to look for results, is what was stored and not yet passed, whatever the *)
(* workers do to the words in between (the closure of writeInstructions     *)
(* counts up, resolveWrites counts down).                                   *)
THEOREM OutstandingCorrect == Spec => []OutstandingIsExact
  <1>1. /\ WritePathInv /\ OutstandingIsExact /\ WritePathInv' /\ [Next]_vars
        => OutstandingIsExact'
    BY OutstandingNext DEF WritePathInv, SettleInv
  <1> QED BY <1>1, InitOutstanding, SettleCorrect, PTL DEF Spec

(* With eventTurnBatching, the default, write.js and WriteWorker::Write     *)
(* implement the log of groups: a call submits its instruction to the group *)
(* of its event turn, a commit decides whole groups and all it had not      *)
(* decided before, and a promise is answered with the result of its group.  *)
THEOREM CommitLogImplemented ==
  ASSUME EventTurnBatching
  PROVE  Spec => ImplementsCommitLog
  <1>1. WritePathInv /\ WritePathInv' /\ [Next]_vars => [Log!Next]_(Log!vars)
    BY StepImplementsLog DEF WritePathInv, TurnInv
  <1>2. Init => Log!Init
    BY InitImplementsLog
  <1> QED BY <1>1, <1>2, SettleCorrect, PTL DEF Spec, ImplementsCommitLog

(* Without blocks on a condition, a user callback runs in the transaction   *)
(* its own instruction is part of: resolveWrites queues it when its         *)
(* resolution is passed, and runs it while the worker that processed it     *)
(* waits for it (WriteWorker::WaitForCallbacks, HandleProgressCallback).    *)
THEOREM CallbacksInTheirTxn ==
  ASSUME "ifVersion" \notin Calls
  PROVE  Spec => []CallbackInItsTxn
  <1>1. OrderInv /\ SettleInv /\ CallbackInv /\ [Next]_vars
        => OrderInv' /\ SettleInv' /\ CallbackInv'
    BY SettleNext, CallbackNext
  <1>2. Init => OrderInv /\ SettleInv /\ CallbackInv
    BY InitSettle, InitCallbacks
  <1>3. CallbackInv => CallbackInItsTxn
    BY DEF CallbackInv
  <1> QED BY <1>1, <1>2, <1>3, PTL DEF Spec

(* Without user blocks, and with event-turn batching, the promise of        *)
(* transaction() is fulfilled only after its callback ran (README: "will    *)
(* resolve once its transaction has been committed"; transactionAsync and   *)
(* resolveWrites, WaitForCallbacks in the worker).                          *)
THEOREM CallbacksBeforeAnswers ==
  ASSUME EventTurnBatching, NoUserBlocks
  PROVE  Spec => []CallbackBeforeAnswer
  <1>1. OrderInv /\ SettleInv /\ InTurn /\ CallbackInv /\ FlatDepth /\ [Next]_vars
        => OrderInv' /\ SettleInv' /\ InTurn' /\ CallbackInv' /\ FlatDepth'
    <2> SUFFICES ASSUME OrderInv, SettleInv, InTurn, CallbackInv, FlatDepth, [Next]_vars
                 PROVE  OrderInv' /\ SettleInv' /\ InTurn' /\ CallbackInv' /\ FlatDepth'
      OBVIOUS
    <2>1. Grows /\ OrderInv' /\ SettleInv'
      BY SettleNext
    <2>2. InTurn'
      BY TurnNext DEF SettleInv
    <2>3. CallbackInv'
      BY <2>1, CallbackNext DEF NoUserBlocks
    <2>4. FlatDepth'
      BY FlatNext
    <2> QED BY <2>1, <2>2, <2>3, <2>4
  <1>2. Init => OrderInv /\ SettleInv /\ InTurn /\ CallbackInv /\ FlatDepth
    BY InitSettle, InitInTurn, InitCallbacks, InitFlat
  <1>3. OrderInv /\ SettleInv /\ InTurn /\ CallbackInv /\ FlatDepth => CallbackBeforeAnswer
    BY AnsweredRan DEF CallbackInv
  <1> QED BY <1>1, <1>2, <1>3, PTL DEF Spec

(* With event-turn batching, what a promise says of the commit is true of   *)
(* the transaction of its write, as long as queueCommitResolution forgets   *)
(* no end of a transaction (resolveWrites, resolveCommit, rejectCommit).    *)
THEOREM SettlementsAreTrue ==
  ASSUME EventTurnBatching
  PROVE  Spec /\ [][EndsAreKept]_vars => []SettlementIsTrue
  <1>1. OrderInv /\ SettleInv /\ InTurn /\ AnswerInv /\ [Next]_vars /\ [EndsAreKept]_vars
        => OrderInv' /\ SettleInv' /\ InTurn' /\ AnswerInv'
    <2> SUFFICES ASSUME OrderInv, SettleInv, InTurn, AnswerInv, [Next]_vars, [EndsAreKept]_vars
                 PROVE  OrderInv' /\ SettleInv' /\ InTurn' /\ AnswerInv'
      OBVIOUS
    <2>1. Grows /\ OrderInv' /\ SettleInv'
      BY SettleNext
    <2>2. InTurn'
      BY TurnNext DEF SettleInv
    <2>3. EndsAreKept
      BY DEF EndsAreKept, vars, txnChain
    <2> QED BY <2>1, <2>2, <2>3, AnswerNext
  <1>2. Init => OrderInv /\ SettleInv /\ InTurn /\ AnswerInv
    BY InitSettle, InitInTurn, InitAnswers
  <1>3. OrderInv /\ SettleInv /\ InTurn /\ AnswerInv => SettlementIsTrue
    BY TruthfulAnswers DEF AnswerInv
  <1> QED BY <1>1, <1>2, <1>3, PTL DEF Spec
=============================================================================
