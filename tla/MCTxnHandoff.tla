--------------------------- MODULE MCTxnHandoff ----------------------------
(* TxnHandoff on small instances.                                           *)
EXTENDS TxnContents

Kinds == QueuedKinds \cup SyncKinds

\* Every end closes a block, and every block is closed.
Balanced(p) == EndsCloseBlocks(p) /\ Nesting(p, Len(p)) = 0

ShortPrograms == {p \in [1..3 -> Kinds] : Balanced(p) /\ ~Entangled(p)}

LongPrograms ==
    { <<"cb", "put", "sync", "cbAbort">>,
      <<"strict", "put", "sync", "sync">>,
      <<"block", "put", "put", "end", "sync">>,
      <<"block", "cb", "put", "end", "sync">>,
      <<"cb", "block", "sync", "put", "end">>,
      <<"block", "put", "sync", "put", "end">>,
      <<"zput", "zput", "sync", "put">>,
      <<"block", "zput", "cb", "end">> }

AllPrograms == ShortPrograms \cup LongPrograms

LateSignal == { <<"cb", "zput", "sync">> }
=============================================================================
