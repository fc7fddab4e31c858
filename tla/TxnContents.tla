---------------------------- MODULE TxnContents ----------------------------
(* What the transactions contain, and why: an inductive invariant beside    *)
(* ExchangeInv.                                                              *)
(*                                                                           *)
(* One position of the queue is next, whether a worker is there, is to be    *)
(* started there, or has ended there.  What is stored of the queue is what   *)
(* lies before it, except for callbacks JavaScript has not called yet; the   *)
(* frames of JavaScript hold the writes of its synchronous call, and every   *)
(* other frame and transaction is made of whole ones.                        *)
EXTENDS TxnExchange

-----------------------------------------------------------------------------
(* How far the queue has been executed.                                     *)

\* The position of the next instruction.
Frontier ==
    IF mark = "delimiter" THEN Len(Queue) + 1
    ELSE IF start # 0 THEN start ELSE worker[current].at

\* A worker that ended is where the next one begins, or behind it.
Positions ==
    /\ mark # "delimiter" /\ start = 0 => current \in Workers /\ Active(current)
    /\ Frontier \in 1..Len(Queue) + 1
    /\ \A w \in Workers : worker[w].at \in 1..Frontier

\* The worker exchanges words with the compression only at a value.
ValuePcs == {"exchange", "compress", "zwait"}
AtValue == \A w \in Workers : worker[w].pc \in ValuePcs => Instruction(w) = "zput"

\* The callbacks before the next instruction have been called, in order, but
\* for some the current worker waits for.
Callbacks ==
    /\ ran \in 0..Len(CallbacksUpTo(Frontier - 1))
    /\ \A w \in Workers : ~worker[w].finished => Active(w)
    /\ js.pc = "progress" => js.worker \in Workers /\ ~worker[js.worker].finished
    /\ \/ ran = Len(CallbacksUpTo(Frontier - 1))
       \/ \E w \in Workers : ~worker[w].finished

\* The instruction at a position has been executed.
Done(p) ==
    IF calls[Queue[p]] \in CallbackKinds THEN Len(CallbacksUpTo(p)) <= ran ELSE p < Frontier

AtStrict(w) ==
    \/ worker[w].pc \in {"strict", "strictWait"}
    \/ worker[w].pc \in {"paused", "begin"} /\ worker[w].resume = "strict"

\* A strict callback that was not called is the last thing the worker passed.
StrictLast ==
    \A p \in 1..Frontier - 1 :
        calls[Queue[p]] = "strict" /\ ~Done(p) =>
            p = Frontier - 1 /\ \E w \in Workers : AtStrict(w)

\* The nesting of blocks in a program after some calls.
Nesting(p, n) ==
    Cardinality({c \in 1..n : p[c] = "block"}) - Cardinality({c \in 1..n : p[c] = "end"})

\* A block is ended when the function it was opened for has returned.
EndsCloseBlocks(p) == \A n \in DOMAIN p : Nesting(p, n) >= 0

\* The nesting after some instructions.
OpenAt(q) == Nesting(program, IF q = 0 THEN 0 ELSE Queue[q])

\* The worker has the depth of its position; it begins, allows a commit and makes
\* one outside of blocks only.
Depths ==
    /\ \A w \in Workers :
          /\ worker[w].depth = IF Active(w) THEN OpenAt(worker[w].at - 1) ELSE 0
          /\ worker[w].pc = "lock" => worker[w].depth = 0
          /\ worker[w].status \in {"ALLOW_COMMIT", "INTERRUPT_BATCH"} => worker[w].depth = 0
    /\ mark = "delimiter" \/ start # 0 => OpenAt(Frontier - 1) = 0

\* Two positions are in a block that is still open at the second.
InBlock(a, b) ==
    \E c \in 1..a : calls[Queue[c]] = "block" /\ \A d \in c..b : calls[Queue[d]] # "end"

\* Nothing of the block the worker is in is committed.
Unsplit ==
    \A a \in 1..Frontier - 1 :
        calls[Queue[a]] \in {"put", "zput"} /\ InBlock(a, Frontier - 1) =>
            \A t \in DOMAIN log : Queue[a] \notin Range(log[t])

-----------------------------------------------------------------------------
(* What is written.                                                         *)

\* The writes of the synchronous call in its own frame, so far.
OwnWrites ==
    CASE js.pc = "own" -> <<>>
      [] js.pc = "nested" -> <<js.call>>
      [] js.pc = "finish" -> IF Kind \in {"nestAbort", "putSync"} THEN <<js.call>>
                             ELSE <<js.call, -js.call>>

JSContents ==
    /\ JSInTxn /\ (~WorkersTxn \/ Kind # "putSync") => mdbx.frames[Outer] = OwnWrites
    /\ js.pc = "nested" => mdbx.frames[Outer + 1] = <<>>

\* A write that can be committed: not one of what is aborted.
Lasting(e) ==
    \E c \in DOMAIN calls :
        \/ e = c /\ calls[c] \notin {"cbAbort", "syncAbort", "block", "end"}
        \/ e = -c /\ calls[c] = "sync"

\* A transaction of such writes, both of a synchronous transaction or none.
Whole(s) ==
    \A i \in DOMAIN s :
        /\ Lasting(s[i])
        /\ s[i] > 0 /\ calls[s[i]] = "sync" => i < Len(s) /\ s[i + 1] = -s[i]

AllWhole ==
    /\ \A t \in DOMAIN log : Whole(log[t])
    /\ WorkersTxn => Whole(mdbx.frames[1])

-----------------------------------------------------------------------------
(* What is stored.                                                          *)

\* What JavaScript has not written yet is not there.
NotYet ==
    /\ js.pc \in {"acquire", "interrupt", "begin", "join", "own"} =>
          ~IsStored(js.call) /\ ~IsStored(-js.call)
    /\ js.pc = "nested" => ~IsStored(-js.call)

\* Of the queue, the writes of what is executed are stored, and no others.
Exactly ==
    \A p \in DOMAIN Queue :
        IsStored(Queue[p]) <=> Done(p) /\ calls[Queue[p]] \in {"put", "zput", "cb", "strict"}

Distinct == \A i, j \in DOMAIN Flat : Flat[i] = Flat[j] => i = j

\* Writes and strict callbacks are stored after all that was queued before.
Ordered ==
    \A i, j \in DOMAIN Flat :
        /\ i < j
        /\ Flat[i] \in DOMAIN calls /\ calls[Flat[i]] \in QueuedKinds
        /\ Flat[j] \in DOMAIN calls /\ calls[Flat[j]] \in {"put", "zput", "strict"}
        => Flat[i] < Flat[j]

-----------------------------------------------------------------------------
(* Compression.                                                             *)

\* The slot of a value no worker has looked at.
Untouched(s) ==
    \/ s.status = "pointer" /\ s.pc = "queued" /\ s.copies = 0
    \/ s.status = "2" /\ s.pc = "compress" /\ s.copies = 0
    \/ s.status = "2" /\ s.pc = "publish" /\ s.copies = 1
    \/ s.status = "0" /\ s.pc = "done" /\ s.copies = 1

\* The slot of a value the worker compresses: the exchange came before the
\* compression worker took it.
Claimed(s) == s.status # "pointer" /\ s.pc \in {"queued", "done"} /\ s.copies = 0

\* Whoever compresses has not done it yet, and whoever may still begin.
Coherent(s) ==
    /\ s.copies \in {0, 1}
    /\ s.pc = "compress" => s.copies = 0
    /\ s.status = "pointer" => s.pc = "queued" /\ s.copies = 0
    /\ s.pc \in {"publish", "signal"} => s.copies = 1

\* The worker has looked at the value it is to put.
Looking(pcs) == \E w \in Workers : worker[w].pc \in pcs

SlotOf(p) == slot[Queue[p]]

Fits(p) ==
    /\ Coherent(SlotOf(p))
    /\ p > Frontier => Untouched(SlotOf(p))
    /\ p = Frontier /\ ~Looking({"compress", "zwait"}) => Untouched(SlotOf(p))
    /\ p = Frontier /\ Looking({"compress"}) => Claimed(SlotOf(p))
    /\ p < Frontier => SlotOf(p).copies = 1

\* Who compresses is decided once, and what is put is compressed.
Slots == \A p \in DOMAIN Queue : calls[Queue[p]] = "zput" => Fits(p)

-----------------------------------------------------------------------------
\* What DoWrites, HandleProgressCallback and the synchronous transactions
\* leave in the transactions: whole units, each thing once, in order.
ContentsInv ==
    /\ Positions /\ AtValue /\ Callbacks /\ StrictLast
    /\ JSContents /\ AllWhole
    /\ NotYet /\ Exactly /\ Distinct /\ Ordered
    /\ Depths /\ Unsplit
    /\ Slots
=============================================================================
