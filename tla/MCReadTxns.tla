---------------------------- MODULE MCReadTxns -----------------------------
(* ReadTxns on a small instance.                                            *)
EXTENDS ReadTxns
=============================================================================
