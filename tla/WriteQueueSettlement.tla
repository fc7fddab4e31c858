------------------------ MODULE WriteQueueSettlement ------------------------
(***************************************************************************)
(* Why the promises of WriteQueue settle once, and not before their        *)
(* transaction was decided: an inductive invariant on top of OrderInv.     *)
(*                                                                         *)
(* JavaScript learns where transactions end from the DELIMITER bits it     *)
(* meets, and queues these slots in the order of the token; it settles the *)
(* promises up to the first queued slot when that has COMMITTED or FAILED. *)
(***************************************************************************)
EXTENDS WriteQueueOrder

-----------------------------------------------------------------------------
(* The workers: a slot is started at once, and transactions do not overlap. *)

Active(w) == worker[w].pc \in {"fetch", "mark", "empty", "wait", "commit"}
Ended(w) == worker[w].pc \in {"commit", "publish", "complete", "done"}
Decided(s) == txnOf[s] # 0 /\ outcome[txnOf[s]] # "none"

Launches ==
  /\ startAddress # 0 => kind[startAddress] \in Listed /\ Written(startAddress)
  /\ \A w \in Slots : Launched(w) => kind[w] \in Listed /\ Written(w)
  /\ \A w \in Slots : outcome[w] # "none" <=> worker[w].pc \in {"publish", "complete", "done"}
  /\ \A s \in Slots : txnOf[s] # 0 => Active(txnOf[s]) \/ Decided(s)
  /\ \A v, w \in Slots : Active(v) /\ Active(w) => v = w

(* A transaction ended outside of blocks, and nothing before was left out.  *)
EndedAt(w, n) ==
  /\ w < n /\ n <= position /\ Nest(n) = 0
  /\ \A s \in Slots : kind[s] \in Listed /\ s < n => txnOf[s] # 0
  /\ \A s \in Slots : txnOf[s] = w => s < n
  /\ txnOf[w] = w
EndsOutside == \A w \in Slots : Ended(w) => EndedAt(w, worker[w].at)

(* Every transaction before slot p is decided; COMMITTED and FAILED say so. *)
Over(p) ==
  /\ p <= position
  /\ \A s \in Slots : kind[s] \in Listed /\ s < p => Decided(s)
OverWhenDone ==
  /\ \A p \in Positions : word[p] \cap TxnDone # {} => Over(p)
  /\ \A w \in Slots : worker[w].pc = "mark" /\ worker[w].read \cap TxnDone # {}
                        => Over(worker[w].at)
  /\ \A w \in Slots : worker[w].pc = "publish" => Over(worker[w].at)

-----------------------------------------------------------------------------
(* JavaScript: the queue of transactions, and what was settled.             *)

(* The token is at slot q or behind it.                                     *)
NotPast(q) ==
  /\ \A p \in Positions : Free(p) => q <= p
  /\ SeenToken => q <= Head(todo).slot
  /\ startAddress # 0 => q <= startAddress
  /\ \A w \in Slots : Launched(w) => q <= w

Chain ==
  /\ \A q \in isTxn : /\ q <= position /\ Nest(q) = 0 /\ NotPast(q)
                      /\ q < position => kind[q] \in Listed
  /\ txnResolution \in {0} \cup isTxn
  /\ \A q \in Positions : nextTxn[q] # 0 =>
       q \in isTxn /\ nextTxn[q] \in isTxn /\ q < nextTxn[q]

(* What was settled lies before slot c, where a transaction ended.          *)
SettledUpTo(c) ==
  /\ uncommitted = IF c = 0 THEN 0 ELSE IndexOf(c)
  /\ c # 0 => Over(c)
  /\ \A s \in Slots : settled[s] # "pending" => s < c /\ kind[s] \in Listed
  /\ txnResolution # 0 => c <= txnResolution
SettledInOrder == \E c \in {0} \cup isTxn : SettledUpTo(c)

(* A slot is reported, and gets its promise, once.                          *)
Reporting == {"seen", "promise"}
Promised ==
  /\ \A i \in DOMAIN todo : todo[i].op \in Reporting =>
       /\ Written(todo[i].slot) /\ kind[todo[i].slot] \in Listed
       /\ promise[todo[i].slot] = 0
  /\ \A i, j \in DOMAIN todo :
       todo[i].op \in Reporting /\ todo[j].op \in Reporting /\ todo[i].slot = todo[j].slot
         => i = j
  /\ \A s \in Slots : promise[s] # 0 => Written(s)

SettleInv == Launches /\ EndsOutside /\ OverWhenDone /\ Chain /\ SettledInOrder /\ Promised

-----------------------------------------------------------------------------
(* With event-turn batching every write belongs to an event turn, and a     *)
(* promise is shared within one.                                            *)

(* The turn of the last instruction.                                        *)
Current == IF resolutions = <<>> THEN 0 ELSE group[resolutions[Len(resolutions)]]

OpenTurn ==
  /\ batchDepth > 0 => turn # 0
  /\ turn # 0 => /\ Current = turn /\ group[turn] = turn
                 /\ \A s \in Slots : kind[s] \in Listed => group[s] <= turn

(* The call under way, and its promise, belong to that turn.                *)
StepsInTurn ==
  \A i \in DOMAIN todo :
    todo[i].op \in Placings \cup Reporting /\ kind[todo[i].slot] \in Listed
      => group[todo[i].slot] = Current
PromisesInTurn ==
  /\ commitPromise # 0 => kind[commitPromise] \in Listed /\ group[commitPromise] = Current
  /\ \A s \in Slots : promise[s] \in Slots =>
       kind[s] \in Listed /\ kind[promise[s]] \in Listed /\ group[promise[s]] = group[s]

InTurn == OpenTurn /\ StepsInTurn /\ PromisesInTurn
TurnInv == EventTurnBatching => InTurn
WritePathInv == OrderInv /\ SettleInv /\ TurnInv
=============================================================================
