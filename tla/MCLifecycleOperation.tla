------------------------ MODULE MCLifecycleOperation ------------------------
(* One lifecycle operation, for TLC, from four sides checked next to each   *)
(* other: the gate that publishes it, every path through its state machine, *)
(* one coordinator after another driving it through the database, and the   *)
(* database leases of the processes that are started and stopped for it.    *)
(* The initial state chooses the side a behaviour is about, and the others  *)
(* stay as they are.                                                        *)
(*                                                                          *)
(* Leases: two starts of a plugin that may have one lease, and two faults,  *)
(* so that a renewal fails twice, or a revocation and then its cleanup.     *)
EXTENDS LifecyclePublication, LifecycleMachineRun, LifecycleCoordinator, RuntimeLease

VARIABLE aspect

runtimeLeaseVars == <<status, ttl, at, known, synced, beaten, inflight, job, stalled, leaseFaults>>
allVars == <<publicationVars, machineVars, vars, runtimeLeaseVars, aspect>>

AspectsInit ==
    /\ aspect \in {"publication", "machine", "drive", "leases"}
    /\ PublicationInit /\ (aspect # "publication" => mode = "install")
    /\ MachineInit /\ (aspect # "machine" => snapshot = Created("install", FALSE))
    /\ Init /\ LeaseInit

Publishes == aspect = "publication" /\ UNCHANGED <<machineVars, vars, runtimeLeaseVars, aspect>>
Transits == aspect = "machine" /\ UNCHANGED <<publicationVars, vars, runtimeLeaseVars, aspect>>
Drives == aspect = "drive" /\ UNCHANGED <<publicationVars, machineVars, runtimeLeaseVars, aspect>>
Leased == aspect = "leases" /\ UNCHANGED <<publicationVars, machineVars, vars, aspect>>

(* A published operation is over, a machine may stand at any state, and all *)
(* processes may have ended.                                                *)
Over == (pc = "done" \/ aspect \in {"machine", "leases"}) /\ UNCHANGED allVars

AspectsNext ==
    \/ Publishes /\ PublicationNext
    \/ Transits /\ MachineNext
    \/ Drives /\ Next
    \/ Leased /\ RuntimeLeaseNext
    \/ Over

(* The coordinator goes on with a gate it has begun, and an operation that  *)
(* stopped is run again; the database settles every transaction.  For the   *)
(* leases: time passes, the reaper is run every 30 seconds, and a host that *)
(* lives goes on.                                                           *)
AspectsSpec ==
    /\ AspectsInit /\ [][AspectsNext]_allVars
    /\ WF_allVars(Publishes /\ PublicationNext)
    /\ WF_allVars(Leased /\ Tick)
    /\ WF_allVars(Leased /\ ReaperStep)
    /\ \A l \in Leases : WF_allVars(Leased /\ HostStep(l))

(* No failure wedges the publication: whatever was half moved, restored or  *)
(* lost, running the gate again in the end completes it.                    *)
PublicationCompletes == aspect = "publication" => <>(pc = "done")
=============================================================================
