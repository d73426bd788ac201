------------------------- MODULE LifecycleContract -------------------------
(***************************************************************************)
(* What a lifecycle operation promises its caller, whoever executes it:    *)
(* the gates of its path finish one after the other, it succeeds only once *)
(* all of them are finished, a success is final and a failure is only left *)
(* by a deliberate retry, which keeps what was finished.                   *)
(***************************************************************************)
EXTENDS Integers

CONSTANT LastGate    \* a natural number: the gates are 0..LastGate

VARIABLES
    result,     \* "none", "open", "failed" or "succeeded"
    finished    \* how many gates are finished, counted from the first

vars == <<result, finished>>

Init == result = "none" /\ finished = 0

Start == result = "none" /\ result' = "open" /\ UNCHANGED finished
FinishGate ==
    /\ result = "open" /\ finished <= LastGate
    /\ finished' = finished + 1 /\ UNCHANGED result
Fail == result = "open" /\ result' = "failed" /\ UNCHANGED finished
Succeed ==
    /\ result = "open" /\ finished = LastGate + 1
    /\ result' = "succeeded" /\ UNCHANGED finished
Retry == result = "failed" /\ result' = "open" /\ UNCHANGED finished

Next == Start \/ FinishGate \/ Fail \/ Succeed \/ Retry

Spec == Init /\ [][Next]_vars
=============================================================================
