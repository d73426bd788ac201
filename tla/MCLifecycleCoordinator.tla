----------------------- MODULE MCLifecycleCoordinator -----------------------
(* Instances of LifecycleCoordinator for TLC.                              *)
EXTENDS LifecycleCoordinator, TLC
CONSTANTS c1, c2
Symmetry == Permutations(Coordinators)
=============================================================================
