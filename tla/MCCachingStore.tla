--------------------------- MODULE MCCachingStore ----------------------------
(* CachingStore on small instances; keys are interchangeable.               *)
EXTENDS CachingStore, TLC

KeySymmetry == Permutations(Keys)
=============================================================================
