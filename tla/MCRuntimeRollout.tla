-------------------------- MODULE MCRuntimeRollout --------------------------
(* Long enough for a plan to be migrated, reported on by both nodes,       *)
(* selected, promoted and then reported on, failed or rolled back.  The    *)
(* second plan is created while calls about the first are under way.       *)
EXTENDS RuntimeRollout, TLC

MCRevisions == <<6, 1>>

Symmetry == Permutations(Callers)
=============================================================================
