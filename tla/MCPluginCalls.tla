---------------------------- MODULE MCPluginCalls ----------------------------
(* What a call into a plugin passes through, and what decides which process *)
(* answers it, for TLC: the runtime's admission gate, the extension's       *)
(* concurrency gate and the set of plugins the process runs, side by side.  *)
(* The initial state chooses which of them a behaviour is about; the others *)
(* stay as they are.                                                        *)
(*                                                                          *)
(* Admission: three leases and one waiter, so that two ordinary calls race  *)
(* a drain while a cleanup call enters, and the idle channel is replaced    *)
(* under the waiter.  Waiters only read the gate, so a second one would add *)
(* nothing.  Gate: three callers for one slot.  Set: two plugins, one of    *)
(* them operated on and revoked and the other reused beside it; three events*)
(* after the first publication, so that one is superseded under an attempt  *)
(* that fails, or a failure meets a second one and a later publication.     *)
EXTENDS RuntimeAdmission, ExtensionGate, PluginRuntimeSet

CONSTANT Old
VARIABLE part

(* All plugins are published in the same version to begin with.             *)
AllOld == [p \in Plugins |-> Old]

allVars == <<vars, hubVars, runtimeSetVars, part>>

PartsInit == part \in {"admission", "gate", "set"} /\ Init /\ HubInit /\ RuntimeSetInit

AdmissionPart == part = "admission" /\ UNCHANGED <<hubVars, runtimeSetVars, part>>
GatePart == part = "gate" /\ UNCHANGED <<vars, runtimeSetVars, part>>
SetPart == part = "set" /\ UNCHANGED <<vars, hubVars, part>>

PartsNext ==
    \/ AdmissionPart /\ Next
    \/ GatePart /\ HubNext
    \/ SetPart /\ RuntimeSetNext

PartsFairness ==
    /\ \A c \in Calls :
         /\ WF_vars(AdmissionPart /\ ReleaseBegin(c))
         /\ WF_vars(AdmissionPart /\ ReleaseEnd(c))
    /\ \A w \in Waiters :
         /\ WF_vars(AdmissionPart /\ WaitCheck(w))
         /\ WF_vars(AdmissionPart /\ WaitWoken(w))
    /\ WF_runtimeSetVars(SetPart /\ CoordinatorStep /\ Observe)
    /\ SF_runtimeSetVars(SetPart /\ EnterApply /\ Observe)
    /\ WF_runtimeSetVars(SetPart /\ FenceStep /\ Observe)
    /\ SF_runtimeSetVars(SetPart /\ OperationStep /\ Observe)

PartsSpec == PartsInit /\ [][PartsNext]_allVars /\ PartsFairness

(* Both gates and the coordinator keep the types of their fields, and the   *)
(* runtime set transition is held by who is inside it.                      *)
TypesOK == TypeOK /\ HubTypes /\ RuntimeSetTypes

(* The node catches up with the publications (PluginRuntimeSet).            *)
NodeCatchesUp == part = "set" => CatchesUp
=============================================================================
