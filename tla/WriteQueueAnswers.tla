------------------------- MODULE WriteQueueAnswers --------------------------
(***************************************************************************)
(* When WriteQueue's answers are true: invariants on top of WritePathInv.  *)
(*                                                                         *)
(* The promises that JavaScript settles with the end of a transaction are  *)
(* those since the last end it settled with.  They are answered with the   *)
(* outcome of that transaction, so no end in between may be forgotten.     *)
(***************************************************************************)
EXTENDS WriteQueueCallbacks

(* queueCommitResolution drops no end: nextTxn is not overwritten, which a  *)
(* third end does when JavaScript was slow (the LostTxn run).               *)
EndsAreKept == \A q \in Positions : nextTxn[q] # 0 => nextTxn'[q] = nextTxn[q]

-----------------------------------------------------------------------------
(* A transaction has the instructions from its start to its end.            *)
Spans ==
  \A w \in Slots : Ended(w) =>
    \A s \in Slots : kind[s] \in Listed =>
      (txnOf[s] = w <=> w <= s /\ s < worker[w].at)

(* JavaScript learns of an end before the next transaction starts.          *)
EndsSeen ==
  \A w \in Slots : Ended(w) =>
    \/ worker[w].at \in isTxn \/ Free(worker[w].at)
    \/ SeenToken /\ Head(todo).slot = worker[w].at

(* COMMITTED and FAILED come from the transaction that ended there; the     *)
(* first slot begins with COMMITTED.                                        *)
ToldBy(w, bits, p) ==
  /\ worker[w].pc \in {"complete", "done"} /\ worker[w].at = p
  /\ "COMMITTED" \in bits => outcome[w] = "committed"
  /\ "TXN_FAILED" \in bits => outcome[w] = "failed"
Told(bits, p) == bits \cap TxnDone # {} => p = 1 \/ \E w \in Slots : ToldBy(w, bits, p)
Verdicts ==
  /\ \A p \in Positions : Told(word[p], p)
  /\ \A w \in Slots : worker[w].pc = "mark" => Told(worker[w].read, worker[w].at)

(* JavaScript settled up to every end it knows of, but for those it queued. *)
SettledTo(q) == uncommitted # 0 /\ IndexOf(q) <= uncommitted
KeptQueue ==
  \A q \in isTxn :
    SettledTo(q) \/ (txnResolution # 0 /\ q \in {txnResolution, nextTxn[txnResolution]})

Truthful ==
  \A s \in Slots :
    /\ settled[s] \in {"true", "false"} => Outcome(s) = "committed"
    /\ settled[s] = "rejected" => Outcome(s) = "failed"

AnswerInv == Spans /\ EndsSeen /\ Verdicts /\ KeptQueue /\ Truthful

(* Without user blocks every promise settles.                               *)
NoUserBlocks == "batch" \notin Calls /\ "ifVersion" \notin Calls
FlatDepth ==
  /\ blocks = <<>>
  /\ \A s \in Slots : writtenBatchDepth[s] <= 1 /\ promise[s] # Resolved
=============================================================================
