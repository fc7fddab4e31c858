---------------------------- MODULE MCWriteQueue ----------------------------
(* WriteQueue on small instances; the cfg files choose the options and the  *)
(* calls the program makes.                                                 *)
EXTENDS WriteQueueSettlement
=============================================================================
