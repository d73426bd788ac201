------------------------- MODULE MCRuntimeInstances -------------------------
(* A small instance of RuntimeInstances for TLC: a source, a replacement   *)
(* and one more process, so that a publication may follow a rolled back one.*)
EXTENDS RuntimeInstances, TLC

Symmetry == Permutations(Instances) \cup Permutations(Calls)
=============================================================================
