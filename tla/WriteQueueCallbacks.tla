------------------------ MODULE WriteQueueCallbacks -------------------------
(***************************************************************************)
(* Why WriteQueue runs user callbacks in the transaction they belong to:   *)
(* invariants on top of OrderInv.                                          *)
(*                                                                         *)
(* A callback is kept with the resolution of its instruction, or with that *)
(* of the start of the event turn which the instruction opened.  When      *)
(* JavaScript passes that resolution, the callback is queued to run.       *)
(***************************************************************************)
EXTENDS WriteQueueSettlement

-----------------------------------------------------------------------------
(* What was placed is written soon, except for a start that is held back.   *)

Pending(s) == \E i \in DOMAIN todo : todo[i].op \in Placings /\ todo[i].slot = s

NoGaps == \A s \in Slots : s < position => kind[s] # "none"
PointersWritten == \A s \in Slots : kind[s] = "pointer" => Written(s)
WrittenSoon ==
  \A s \in Slots : kind[s] \in Listed \cup {"end"} /\ ~Written(s) =>
    Pending(s) \/ (s = writeBatchStart /\ batchDepth > 0)
Alone ==
  \A i \in DOMAIN todo :
    todo[i].op \in {"load", "store"} /\ kind[todo[i].slot] # "end" => Len(todo) = 1
TakenWereWritten == \A s \in Slots : txnOf[s] # 0 => Written(s)

PlacedInv == NoGaps /\ PointersWritten /\ WrittenSoon /\ Alone /\ TakenWereWritten

-----------------------------------------------------------------------------
(* Where callbacks are kept, until they ran.                                *)

(* Everything behind slot h is written, up to slot s.                       *)
Filled(h, s) == \A p \in Slots : h < p /\ p <= s => Written(p)

(* The callback s is kept with the resolution of h, which was not passed.   *)
KeptWith(h, s) ==
  /\ h <= s /\ s < position /\ kind[h] \in Listed /\ kind[s] = "callback"
  /\ ran[s] = 0 /\ s \notin nextTxnCallbacks
  /\ \A i \in DOMAIN resolutions : resolutions[i] = h => unwritten <= i
  /\ Written(h) \/ Pending(h) => Filled(h, s)
Kept ==
  /\ \A h \in Slots : callbacks[h] # 0 => KeptWith(h, callbacks[h])
  /\ \A g, h \in Slots : callbacks[g] # 0 /\ callbacks[g] = callbacks[h] => g = h

(* The callback s is queued: its resolution was passed.                     *)
QueuedToRun(s) ==
  /\ kind[s] = "callback" /\ ran[s] = 0
  /\ \E h \in Slots : h <= s /\ txnOf[h] # 0 /\ Filled(h, s)
Queued == \A s \in nextTxnCallbacks : QueuedToRun(s)

NoneLost ==
  \A s \in Slots : kind[s] = "callback" <=>
    (\E h \in Slots : callbacks[h] = s) \/ s \in nextTxnCallbacks \/ ran[s] # 0

(* What was processed is FINISHED, or is about to be.                       *)
Finishes ==
  /\ \A s \in Slots : txnOf[s] # 0 =>
       Has(word[s], "FINISHED") \/ \E w \in Slots : worker[w].pc = "mark" /\ worker[w].at = s
  /\ \A s \in Slots : Has(word[s], "FINISHED") => txnOf[s] # 0
  /\ \A w \in Slots : worker[w].pc = "mark" => txnOf[worker[w].at] # 0

KeepingInv ==
  PlacedInv /\ unwritten <= Len(resolutions) + 1 /\ Kept /\ Queued /\ NoneLost /\ Finishes

-----------------------------------------------------------------------------
(* Callbacks run while a worker waits, in its transaction.                  *)

(* It has processed the callbacks that JavaScript may run.                  *)
MayRun(s) ==
  s \in nextTxnCallbacks \/ \E h \in Slots : callbacks[h] = s /\ txnOf[h] # 0
WaitsBehind ==
  \A w \in Slots : worker[w].pc = "wait" => \A s \in Slots : MayRun(s) => txnOf[s] # 0

(* JavaScript is about to run callbacks in the transaction of w; before     *)
(* that it passes everything the worker processed.                          *)
Runs(w) == \E i \in DOMAIN todo : todo[i].op = "callbacks" /\ todo[i].slot = w
RunsWaiting == \A w \in Slots : Runs(w) => worker[w].pc = "wait"
CaughtUp ==
  (\E w \in Slots : Runs(w)) /\ (\A i \in DOMAIN todo : todo[i].op # "unwritten") =>
    \A i \in DOMAIN resolutions : txnOf[resolutions[i]] # 0 => i < unwritten

(* Without blocks on a condition every callback is reached, and keeps its   *)
(* worker waiting until it ran.                                             *)
Unconditional ==
  /\ \A s \in ownPromise : kind[s] = "write" \/ kind[s] = "callback"
  /\ \A w \in Slots : Launched(w) => worker[w].validated = worker[w].depth
Awaited ==
  \A s \in Slots : kind[s] = "callback" /\ txnOf[s] # 0 /\ ran[s] = 0 =>
    /\ Launched(txnOf[s])
    /\ ~worker[txnOf[s]].finishedProgress \/ Runs(txnOf[s])

RunningInv == KeepingInv /\ WaitsBehind /\ RunsWaiting /\ CaughtUp
CallbackInv == RunningInv /\ Unconditional /\ Awaited /\ CallbackInItsTxn
=============================================================================
