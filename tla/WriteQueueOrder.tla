-------------------------- MODULE WriteQueueOrder ---------------------------
(***************************************************************************)
(* Why the workers of WriteQueue process every instruction once, in order, *)
(* and never end a transaction inside a block: an inductive invariant.     *)
(*                                                                         *)
(* The right to go on is a token.  It is the DELIMITER in a word without   *)
(* an instruction, the status with that DELIMITER that JavaScript just     *)
(* read, startAddress, or a worker from its launch to the end of its       *)
(* transaction.  There is at most one, and the instructions before the     *)
(* slot it is at are those that were processed.                            *)
(***************************************************************************)
EXTENDS WriteQueue

Listed == {"write", "callback", "start"}
Placings == {"load", "store", "or"}
Written(p) == "INSTR" \in word[p]

(* The number of blocks that are open at slot p.                            *)
Starts(p) == {s \in Slots : s < p /\ kind[s] = "start"}
Ends(p) == {s \in Slots : s < p /\ kind[s] = "end"}
Nest(p) == Cardinality(Starts(p)) - Cardinality(Ends(p))

(* The start of the outermost block that is open.                           *)
Outermost == IF turn # 0 THEN turn ELSE Head(blocks)

-----------------------------------------------------------------------------
(* JavaScript: every slot is written once.                                  *)

(* Nothing is placed from position on, and what is written was placed.      *)
FreshSlots ==
  /\ \A s \in Slots : Written(s) => kind[s] # "none"
  /\ \A s \in Slots : position <= s => kind[s] = "none" /\ writtenBatchDepth[s] = 0

(* The list of resolutions has the instructions with a result, in order.    *)
ListInOrder ==
  /\ \A i, j \in DOMAIN resolutions : i < j => resolutions[i] < resolutions[j]
  /\ \A s \in Slots : kind[s] \in Listed <=> \E i \in DOMAIN resolutions : resolutions[i] = s

(* The steps of the call under way.  A status with a delimiter is acted on  *)
(* in the next step.                                                        *)
StepOK(step) ==
  /\ step.op \in Placings =>
       /\ step.slot < position /\ ~Written(step.slot)
       /\ kind[step.slot] \in Listed \cup {"end"}
       /\ step.op \in {"load", "store"} => Nest(step.slot) > 0
  /\ step.op = "store" => "DELIMITER" \notin step.status
  /\ step.op = "seen" => /\ Written(step.slot) /\ kind[step.slot] \in Listed
                         /\ "DELIMITER" \in step.status => Nest(step.slot) = 0
StepsOK(q) ==
  /\ \A i \in DOMAIN q : StepOK(q[i])
  /\ \A i, j \in DOMAIN q :
       q[i].op \in Placings /\ q[j].op \in Placings /\ q[i].slot = q[j].slot => i = j
  /\ \A i \in DOMAIN q : q[i].op = "seen" /\ "DELIMITER" \in q[i].status => i = 1

(* A start that is held back is the outermost one, and is not written yet.  *)
HeldBack ==
  writeBatchStart # 0 =>
    IF batchDepth > 0
    THEN /\ writeBatchStart = Outermost /\ ~Written(writeBatchStart)
         /\ \A i \in DOMAIN todo :
              todo[i].op \in Placings => todo[i].slot # writeBatchStart
    ELSE \A i \in DOMAIN todo : todo[i].op \notin {"load", "store"}

(* The blocks that are open.                                                *)
OpenBlocks ==
  /\ \A i \in DOMAIN blocks : turn < blocks[i]
  /\ \A i, j \in DOMAIN blocks : i < j => blocks[i] < blocks[j]
  /\ \A i \in DOMAIN blocks : blocks[i] < position /\ kind[blocks[i]] = "start"
  /\ turn # 0 => turn < position /\ kind[turn] = "start"
  /\ Nest(position) = Len(blocks) + (IF turn # 0 THEN 1 ELSE 0)
  /\ batchDepth > 0 => /\ writtenBatchDepth[Outermost] = 0
                       /\ \A p \in Positions : Outermost < p /\ p <= position => Nest(p) > 0

(* Nesting, and the group of an instruction.                                *)
Nested ==
  /\ \A p \in Positions : p <= position => Nest(p) >= 0
  /\ \A s \in Slots : kind[s] = "end" => Nest(s) > 0
  /\ \A s \in Slots : kind[s] \in Listed =>
       /\ writtenBatchDepth[s] > 0 => Nest(s) > 0
       /\ group[s] \in Slots /\ group[s] <= s
       /\ \A p \in Positions : group[s] < p /\ p <= s => Nest(p) > 0

-----------------------------------------------------------------------------
(* The token.                                                               *)

Free(p) == "DELIMITER" \in word[p] /\ ~Written(p)
SeenToken == Doing("seen") /\ "DELIMITER" \in Head(todo).status
Launched(w) == worker[w].pc \in {"queued", "fetch", "mark", "empty", "wait"}

OneToken ==
  /\ \A v, w \in Slots : Launched(v) /\ Launched(w) => v = w
  /\ \A p, q \in Positions : Free(p) /\ Free(q) => p = q
  /\ \A w \in Slots, p \in Positions : ~(Launched(w) /\ Free(p))
  /\ SeenToken \/ startAddress # 0 => /\ \A w \in Slots : ~Launched(w)
                                      /\ \A p \in Positions : ~Free(p)
  /\ ~(SeenToken /\ startAddress # 0)

(* What was processed is what lies before slot p.                           *)
Frontier(p) ==
  /\ p <= position
  /\ \A s \in Slots : kind[s] \in Listed => (s < p <=> txnOf[s] # 0)

AtFrontier ==
  /\ \A p \in Positions : Free(p) => Frontier(p)
  /\ SeenToken => Frontier(Head(todo).slot)
  /\ startAddress # 0 => Frontier(startAddress) /\ Nest(startAddress) = 0

Delimiters == \A p \in Positions : "DELIMITER" \in word[p] => p <= position /\ Nest(p) = 0

(* What a worker knows of the words and the blocks; it began outside of     *)
(* blocks and is at the frontier.                                           *)
FrontOf(w) == IF worker[w].pc = "mark" THEN worker[w].at + 1 ELSE worker[w].at
Knows(w) ==
  /\ Launched(w) => /\ w <= worker[w].at /\ Nest(w) = 0
                    /\ Frontier(FrontOf(w)) /\ worker[w].depth = Nest(FrontOf(w))
  /\ worker[w].pc = "mark" =>
       /\ "INSTR" \in worker[w].read /\ Written(worker[w].at)
       /\ "DELIMITER" \in worker[w].read => "DELIMITER" \in word[worker[w].at]
  /\ worker[w].pc = "empty" => "INSTR" \notin worker[w].read
WorkersKnow == \A w \in Slots : Knows(w)

-----------------------------------------------------------------------------
(* History: the log, and the transactions.                                  *)

Logged ==
  /\ InOrder
  /\ \A i \in DOMAIN resolutions : txnOf[resolutions[i]] # 0 <=> i <= Len(log)
  /\ \A s \in Slots : txnOf[s] # 0 => kind[s] \in Listed

InTxns ==
  /\ \A s \in Slots : txnOf[s] # 0 => txnOf[s] <= s /\ Nest(txnOf[s]) = 0
  /\ \A r, s \in Slots : txnOf[r] # 0 /\ txnOf[s] # 0 /\ txnOf[s] <= r /\ r <= s =>
       txnOf[r] = txnOf[s]
  /\ \A w, s \in Slots : Launched(w) /\ txnOf[s] # 0 => (txnOf[s] = w <=> w <= s)

Placement ==
  FreshSlots /\ ListInOrder /\ StepsOK(todo) /\ HeldBack /\ OpenBlocks /\ Nested
Token ==
  /\ OneToken /\ AtFrontier /\ Delimiters /\ WorkersKnow /\ Logged /\ InTxns
OrderInv == Inv /\ Placement /\ Token
=============================================================================
