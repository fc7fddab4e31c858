---------------------------- MODULE TxnExchange ----------------------------
(* Why JavaScript and the write worker hand the one mdbx transaction over    *)
(* cleanly: an inductive invariant.                                          *)
(*                                                                           *)
(* One worker at a time has work to do, and it is the current one.  When     *)
(* JavaScript interrupts it, it waits; it commits, wakes JavaScript and      *)
(* sleeps until JavaScript has the lock.  A signal from anywhere else in     *)
(* between would end one of the two waits too early; only a compression      *)
(* worker could send one, so the invariant is about programs that do not     *)
(* combine a compressed value, a callback and a transaction that interrupts. *)
EXTENDS TxnHandoff

\* The synchronous calls that interrupt a worker that allows it.
InterruptingKinds == SyncKinds \ {"putSync"}

\* A compressed value, a callback and a synchronous transaction that may
\* interrupt: the late signal of the compression breaks the hand-over.
Entangled(p) ==
    /\ "zput" \in Range(p)
    /\ CallbackKinds \cap Range(p) # {}
    /\ InterruptingKinds \cap Range(p) # {}

Made(kinds) == \E n \in DOMAIN calls : calls[n] \in kinds

-----------------------------------------------------------------------------
(* What the program has called.                                             *)

FromProgram ==
    /\ program \in Programs
    /\ Len(calls) <= Len(program)
    /\ \A n \in DOMAIN calls : calls[n] = program[n]

\* A compression is under way for compressed values only.
Compressions ==
    /\ Len(slot) = Len(calls)
    /\ \A n \in DOMAIN slot : slot[n].pc # "done" => calls[n] = "zput"

\* The worker may commit early when it waits for callbacks outside of blocks.
MayCommit ==
    \A w \in Workers :
        /\ ~worker[w].finished => Made(CallbackKinds)
        /\ worker[w].status = "ALLOW_COMMIT" =>
              Made(CallbackKinds) /\ worker[w].pc \in {"wait", "strictWait"}

InCall ==
    /\ js.pc \in {"acquire", "interrupt", "begin", "join", "own", "nested", "finish"} =>
          js.call \in DOMAIN calls /\ Kind \in SyncKinds
    /\ js.pc = "interrupt" => Kind # "putSync" /\ Made(CallbackKinds)

-----------------------------------------------------------------------------
(* The workers.                                                             *)

Active(w) == worker[w].pc \notin {"commit", "done", "gone"}
HasBegun(w) == worker[w].pc \notin {"lock", "done", "gone"}

\* The next worker may be queued when a transaction ends, but it takes over
\* after the commit.
OneWorker ==
    /\ \A w \in Workers : Active(w) => w = current /\ start = 0 /\ mark # "delimiter"
    /\ \A v, w \in Workers : HasBegun(v) /\ HasBegun(w) => v = w
    /\ start # 0 => mark # "delimiter"
    /\ current = 0 \/ current \in Workers

WaitPcs == {"wait", "strictWait", "zwait", "paused"}
Asleep ==
    /\ \A t \in asleep : t = JS \/ t \in Workers
    /\ \A w \in Workers : w \in asleep => worker[w].pc \in WaitPcs
    /\ JS \in asleep => js.pc \in {"interrupt", "progress"}

\* JavaScript is woken by the worker it interrupted, and finds it asleep.
Interruption ==
    /\ js.pc = "interrupt" =>
          /\ current \in Workers
          /\ IF JS \in asleep THEN worker[current].status = "INTERRUPT_BATCH"
             ELSE worker[current].pc = "paused" /\ current \in asleep
    /\ \A w \in Workers : worker[w].status = "INTERRUPT_BATCH" =>
          js.pc = "interrupt" /\ JS \in asleep /\ worker[w].pc \in {"wait", "strictWait"}

-----------------------------------------------------------------------------
(* The transactions.                                                        *)

TxnPcs == {"run", "exchange", "compress", "zwait", "strict", "strictWait", "wait", "commit"}
InTxn(w) == worker[w].pc \in TxnPcs
WorkersTxn == \E w \in Workers : InTxn(w)
JSInTxn == js.pc \in {"own", "nested", "finish"}

\* The open transaction is the worker's, or JavaScript's own.
OpenTxn ==
    /\ mdbx.id \in Nat
    /\ \A w \in Workers : worker[w].txn = IF InTxn(w) THEN mdbx.id ELSE 0
    /\ WorkersTxn => IsOpen /\ mdbx.id # 0 /\ (~JSInTxn => Len(mdbx.frames) = 1)
    /\ IsOpen => WorkersTxn \/ JSInTxn
    /\ js.pc = "begin" => ~WorkersTxn
    /\ js.pc = "join" => WorkersTxn

\* The level of JavaScript's outermost frame.
Outer == IF WorkersTxn /\ Kind # "putSync" THEN 2 ELSE 1

\* The frames of JavaScript: one in its own transaction, a child in that of
\* the worker unless it only puts, and one for the nested transaction.
JSFrames ==
    IF ~JSInTxn THEN writeTxn = <<>>
    ELSE /\ Len(writeTxn) = IF js.pc = "nested" THEN 2 ELSE 1
         /\ \A i \in DOMAIN writeTxn : /\ writeTxn[i].txn = mdbx.id
                                       /\ writeTxn[i].level = Outer + i - 1
         /\ writeTxn[1].abortable <=> ~WorkersTxn \/ Kind # "putSync"
         /\ Len(mdbx.frames) = Outer + Len(writeTxn) - 1
         /\ js.pc = "nested" => Kind # "putSync"

-----------------------------------------------------------------------------
(* The invariant.                                                           *)

\* In AcquireTxn, UnlockTxn, WaitForCallbacks, beginTxn and what ends them: one
\* worker at a time has work, whoever sleeps until the other has acted is woken
\* by it alone, each takes the lock and the open transaction with the frames it
\* left there, and JavaScript ends what it began.
ExchangeInv ==
    /\ LockHolder
    /\ FromProgram /\ Compressions /\ MayCommit /\ InCall
    /\ OneWorker /\ Asleep /\ Interruption
    /\ OpenTxn /\ JSFrames
=============================================================================
