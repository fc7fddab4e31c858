--------------------------- MODULE MCEnvRegistry ----------------------------
(* EnvRegistry on small instances; wrappers and paths are interchangeable.  *)
EXTENDS EnvRegistry, TLC

Symmetry == Permutations(Wrappers) \cup Permutations(Paths)
=============================================================================
