--------------------------- MODULE RuntimeInstances ---------------------------
(***************************************************************************)
(* The processes of one plugin in one host                                 *)
(* (app/Support/Extensions/manager_runtime_instances.go,                   *)
(* manager_staged_runtime.go, protocol_instances.go).  Two registries      *)
(* describe them.  The starter owns the processes and one transport pointer*)
(* per plugin; the manager owns an admission gate per process and one      *)
(* active pointer.  A call takes a lease of the active process from the    *)
(* manager and then looks its connection up in the starter BY THE PLUGIN'S *)
(* NAME: nothing but the order of the two switches makes it reach the      *)
(* process whose lease it holds.                                           *)
(*                                                                         *)
(* One lifecycle operation per plugin runs at a time (the lifecycle lock); *)
(* between its critical sections calls come and go, a process may end by   *)
(* itself, and an incident may quarantine one, which takes no lifecycle    *)
(* lock.  The gate is the one RuntimeAdmission models, without its waiters.*)
(***************************************************************************)
EXTENDS FiniteSets

CONSTANTS
    Instances,  \* exact processes, each started once
    Calls,      \* calls into the plugin, each made once
    None        \* no process

Ordinary == "ordinary"
Cleanup  == "lifecycle_cleanup"

VARIABLES
    started,        \* processes that have ever been started
    alive,          \* processes in the starter's registry
    everPublished,  \* living processes the transport ever named
    transport,      \* the starter's pointer: where a call by name goes
    managed,        \* processes the manager keeps a gate for
    active,         \* the manager's pointer: whom ordinary calls are leased
    transitioning,  \* processes in the middle of a switch or a removal
    draining, quarantined, forced,  \* the state of the gates
    lease,          \* each call: absent, leased, running, released, refused
    class,          \* its class
    on,             \* the process whose lease it took
    ran,            \* the process it was sent to
    op,             \* the lifecycle operation in progress
    orphaned        \* history: calls whose process a Stop by name deactivated

starterVars == <<started, alive, everPublished, transport>>
managerVars == <<managed, active, transitioning>>
gateVars == <<draining, quarantined, forced>>
callVars == <<lease, class, on, ran>>
vars == <<starterVars, managerVars, gateVars, callVars, op, orphaned>>

AnySource == "any"       \* publish over whatever is active
From == "from"          \* only over a source that is safely drained
IfNone == "if_none"     \* only if nothing is active
Expectation == {AnySource, From, IfNone}

Idle == [step |-> "idle"]
Publishing(step, i, source, keep, expect, was) ==
    [step |-> step, inst |-> i, source |-> source, keep |-> keep,
     expect |-> expect, was |-> was]
Republishing(i, keep) == [step |-> "republish", inst |-> i, keep |-> keep]
Removing(step, i, discard) == [step |-> step, inst |-> i, discard |-> discard]

LeasesOn(i) == {c \in Calls : lease[c] \in {"leased", "running"} /\ on[c] = i}
CleanupOn(i) == {c \in LeasesOn(i) : class[c] = Cleanup}
SafelyDrained(i) == i \in draining /\ LeasesOn(i) = {} /\ i \notin quarantined \cup forced

Init ==
    /\ started = {} /\ alive = {} /\ everPublished = {} /\ transport = None
    /\ managed = {} /\ active = None /\ transitioning = {}
    /\ draining = {} /\ quarantined = {} /\ forced = {}
    /\ lease = [c \in Calls |-> "absent"]
    /\ class = [c \in Calls |-> Ordinary]
    /\ on = [c \in Calls |-> None]
    /\ ran = [c \in Calls |-> None]
    /\ op = Idle
    /\ orphaned = {}

-----------------------------------------------------------------------------
(* Deliberately wrong variants, for checking that the properties notice: a *)
(* transition that bars nobody, a source replaced while calls are inside,  *)
(* incidents not looked at again, a source left in the transition.         *)
EntersTransition(i, k) == i \in managed \ forced /\ (i \in draining => k = Cleanup)
OverBusySource(source, expect) == expect = IfNone => source = None
CommitsQuarantined == op.expect = From => active = op.source
KeepsSource(i, source) == transitioning' = transitioning \ {i}

(* Whether the gate of i lets a call of class k in (Acquire), asked under  *)
(* the manager's lock together with the transition flag.                   *)
Enters(i, k) ==
    /\ i \in managed \ (transitioning \cup forced)
    /\ i \in draining => k = Cleanup

(* AcquireActiveRuntimeCall: an ordinary call is leased the active process.*)
AcquireActive(c) ==
    /\ lease[c] = "absent"
    /\ active # None /\ Enters(active, Ordinary)
    /\ lease' = [lease EXCEPT ![c] = "leased"]
    /\ on' = [on EXCEPT ![c] = active]
    /\ UNCHANGED <<starterVars, managerVars, gateVars, class, ran, op, orphaned>>

(* AcquireRuntimeCall for cleanup: any process the manager keeps.          *)
AcquireCleanup(c, i) ==
    /\ lease[c] = "absent"
    /\ Enters(i, Cleanup)
    /\ lease' = [lease EXCEPT ![c] = "leased"]
    /\ class' = [class EXCEPT ![c] = Cleanup]
    /\ on' = [on EXCEPT ![c] = i]
    /\ UNCHANGED <<starterVars, managerVars, gateVars, ran, op, orphaned>>

GiveBack(c) ==
    /\ lease' = [lease EXCEPT ![c] = "released"]
    /\ class' = [class EXCEPT ![c] = Ordinary]
    /\ on' = [on EXCEPT ![c] = None]
    /\ ran' = [ran EXCEPT ![c] = None]
    /\ orphaned' = orphaned \ {c}

(* The call is sent: an ordinary one to the connection the starter has for *)
(* the plugin's name, a cleanup one to its exact process.  Without one the *)
(* runtime is unavailable and the lease is given back.                     *)
Dispatch(c) ==
    LET target == IF class[c] = Ordinary THEN transport
                  ELSE IF on[c] \in alive THEN on[c] ELSE None
    IN  /\ lease[c] = "leased"
        /\ IF target = None
           THEN GiveBack(c)
           ELSE /\ ran' = [ran EXCEPT ![c] = target]
                /\ lease' = [lease EXCEPT ![c] = "running"]
                /\ UNCHANGED <<class, on, orphaned>>
        /\ UNCHANGED <<starterVars, managerVars, gateVars, op>>

Release(c) ==
    /\ lease[c] = "running"
    /\ GiveBack(c)
    /\ UNCHANGED <<starterVars, managerVars, gateVars, op>>

-----------------------------------------------------------------------------
(* StageRuntimeInstance: start a process beside the active one and give it *)
(* an open gate; nobody is leased it before it is published.               *)
Stage(i) ==
    /\ op = Idle
    /\ i \notin started
    /\ started' = started \cup {i}
    /\ alive' = alive \cup {i}
    /\ managed' = managed \cup {i}
    /\ UNCHANGED <<everPublished, transport, active, transitioning, gateVars, callVars, op, orphaned>>

(* The state in which publication may replace what is active.              *)
Replaceable(source, expect) ==
    /\ expect = IfNone => source = None
    /\ expect = From => source # None /\ source \notin transitioning /\ SafelyDrained(source)
    /\ source # None => source \in draining /\ LeasesOn(source) = {}

(* Publication, first critical section: the source is drained and idle, the*)
(* candidate idle and never incident-closed; both enter the transition and *)
(* the candidate's gate takes the state it shall be published with.        *)
PublishBegin(i, keep, expect) ==
    /\ op = Idle
    /\ i \in managed \ transitioning /\ i # active
    /\ Replaceable(active, expect)
    /\ LeasesOn(i) = {} /\ i \notin quarantined \cup forced
    /\ draining' = IF keep THEN draining \cup {i} ELSE draining \ {i}
    /\ transitioning' = transitioning \cup {i} \cup ({active} \ {None})
    /\ op' = Publishing("transport", i, active, keep, expect, i \in draining)
    /\ UNCHANGED <<starterVars, managed, active, quarantined, forced, callVars, orphaned>>

(* PublishInstance of the starter: healthy and known, or nothing changes.  *)
TransportAfter(ok) == IF ok THEN op.inst ELSE transport

(* What a killed process leaves of the pointer.                            *)
TransportWithout(dead) == IF transport \in dead THEN None ELSE transport

EndTransition(i, source) == transitioning' = transitioning \ {i, source}

PublishTransport(ok) ==
    /\ op.step = "transport"
    /\ ok => op.inst \in alive
    /\ transport' = TransportAfter(ok)
    /\ everPublished' = IF ok THEN everPublished \cup {op.inst} ELSE everPublished
    /\ IF ok
       THEN /\ op' = [op EXCEPT !.step = "commit"]
            /\ UNCHANGED <<transitioning, draining>>
       ELSE /\ op' = Idle
            /\ EndTransition(op.inst, op.source)
            /\ draining' = IF op.was \/ op.keep THEN draining \cup {op.inst} ELSE draining
    /\ UNCHANGED <<started, alive, managed, active, quarantined, forced, callVars, orphaned>>

(* Second critical section: what an incident may have changed is read      *)
(* again before the manager's pointer follows.                             *)
Committable ==
    /\ op.inst \notin quarantined \cup forced
    /\ op.expect = From => SafelyDrained(op.source)

PublishCommit ==
    /\ op.step = "commit"
    /\ EndTransition(op.inst, op.source)
    /\ IF Committable
       THEN active' = op.inst /\ op' = Idle
       ELSE /\ op' = IF op.source = None THEN Idle ELSE [op EXCEPT !.step = "rollback"]
            /\ UNCHANGED active
    /\ UNCHANGED <<starterVars, managed, gateVars, callVars, orphaned>>

(* The source gets the transport back; if even that fails its gate is shut.*)
PublishRollback(ok) ==
    /\ op.step = "rollback"
    /\ ok => op.source \in alive
    /\ transport' = IF ok THEN op.source ELSE transport
    /\ quarantined' = IF ok THEN quarantined ELSE quarantined \cup {op.source}
    /\ draining' = IF ok THEN draining ELSE draining \cup {op.source}
    /\ op' = Idle
    /\ UNCHANGED <<started, alive, everPublished, managerVars, forced, callVars, orphaned>>

(* Publishing what is active already: optionally drained first, then the   *)
(* starter reconciles its pointer under the transition flag.               *)
RepublishBegin(i, keep) ==
    /\ op = Idle
    /\ i = active /\ i \in managed \ transitioning
    /\ draining' = IF keep THEN draining \cup {i} ELSE draining
    /\ IF keep /\ LeasesOn(i) # {}
       THEN UNCHANGED <<transitioning, op>>
       ELSE /\ transitioning' = IF keep THEN transitioning \cup {i} ELSE transitioning
            /\ op' = Republishing(i, keep)
    /\ UNCHANGED <<starterVars, managed, active, quarantined, forced, callVars, orphaned>>

RepublishEnd(ok) ==
    /\ op.step = "republish"
    /\ ok => op.inst \in alive
    /\ transport' = TransportAfter(ok)
    /\ everPublished' = IF ok THEN everPublished \cup {op.inst} ELSE everPublished
    /\ transitioning' = IF op.keep THEN transitioning \ {op.inst} ELSE transitioning
    /\ op' = Idle
    /\ UNCHANGED <<started, alive, managed, active, gateVars, callVars, orphaned>>

-----------------------------------------------------------------------------
BeginDrain(i) ==
    /\ op = Idle
    /\ i \in managed
    /\ draining' = draining \cup {i}
    /\ UNCHANGED <<starterVars, managerVars, quarantined, forced, callVars, op, orphaned>>

(* Resume: only the active process, and never under an incident or while   *)
(* cleanup is inside.                                                      *)
Resumable(i) ==
    /\ i \in managed /\ i = active
    /\ i \notin quarantined \cup forced
    /\ CleanupOn(i) = {}

Resume(i) ==
    /\ op = Idle
    /\ Resumable(i)
    /\ draining' = draining \ {i}
    /\ UNCHANGED <<starterVars, managerVars, quarantined, forced, callVars, op, orphaned>>

ForceDrain(i) ==
    /\ op = Idle
    /\ i \in managed
    /\ forced' = forced \cup {i}
    /\ draining' = draining \cup {i}
    /\ UNCHANGED <<starterVars, managerVars, quarantined, callVars, op, orphaned>>

(* Quarantine, of one process or of every process of an artifact, bypasses *)
(* the lifecycle lock: it may come at any moment.                          *)
Quarantine(incident) ==
    /\ incident \subseteq managed
    /\ quarantined' = quarantined \cup incident
    /\ draining' = draining \cup incident
    /\ UNCHANGED <<starterVars, managerVars, forced, callVars, op, orphaned>>

(* Removal (StopRuntimeInstance, DiscardRuntimeInstance): decided on an    *)
(* idle process, which the transition flag then keeps idle.                *)
Removable(i) == i \in managed \ transitioning /\ LeasesOn(i) = {}

RemoveBegin(i, discard) ==
    /\ op = Idle
    /\ Removable(i)
    /\ IF discard THEN i # active ELSE i \in draining
    /\ transitioning' = transitioning \cup {i}
    /\ op' = Removing("kill", i, discard)
    /\ UNCHANGED <<starterVars, managed, active, gateVars, callVars, orphaned>>

(* The starter forgets the process, kills it and revokes its database      *)
(* lease; if only the revocation fails the manager keeps the entry and the *)
(* removal is retried.  Discard refuses what was ever published.           *)
RemoveKill(revoked) ==
    LET i == op.inst
        refused == op.discard /\ i \in everPublished
    IN  /\ op.step = "kill"
        /\ i \notin alive => revoked
        /\ alive' = IF refused THEN alive ELSE alive \ {i}
        /\ everPublished' = IF refused THEN everPublished ELSE everPublished \ {i}
        /\ transport' = IF refused THEN transport ELSE TransportWithout({i})
        /\ IF revoked /\ ~refused
           THEN op' = [op EXCEPT !.step = "forget"] /\ UNCHANGED transitioning
           ELSE op' = Idle /\ transitioning' = transitioning \ {i}
        /\ UNCHANGED <<started, managed, active, gateVars, callVars, orphaned>>

DropGate(i) ==
    /\ managed' = managed \ {i}
    /\ draining' = draining \ {i}
    /\ quarantined' = quarantined \ {i}
    /\ forced' = forced \ {i}

RemoveForget ==
    /\ op.step = "forget"
    /\ DropGate(op.inst)
    /\ transitioning' = transitioning \ {op.inst}
    /\ active' = IF active = op.inst THEN None ELSE active
    /\ op' = Idle
    /\ UNCHANGED <<starterVars, callVars, orphaned>>

(* RemoveRuntimeInstance: the entry alone, of a process that is not active.*)
RemoveEntry(i) ==
    /\ op = Idle
    /\ i \in managed /\ i # active /\ LeasesOn(i) = {}
    /\ DropGate(i)
    /\ UNCHANGED <<starterVars, active, transitioning, callVars, op, orphaned>>

-----------------------------------------------------------------------------
(* The plain Start and Stop by name, for restarts without staging.  Stop   *)
(* does not drain: it kills every process of the plugin, up to the first   *)
(* whose lease cannot be revoked, and then closes the active gate.         *)
StopKill ==
    /\ op = Idle
    /\ \E dead \in SUBSET alive :
         /\ alive # {} => dead # {}
         /\ alive' = alive \ dead
         /\ everPublished' = everPublished \ dead
         /\ transport' = TransportWithout(dead)
    /\ op' = [step |-> "deactivate", inst |-> active]
    /\ UNCHANGED <<started, managerVars, gateVars, callVars, orphaned>>

StopDeactivate ==
    /\ op.step = "deactivate"
    /\ draining' = draining \cup (managed \cap {op.inst})
    /\ active' = IF op.inst \in managed THEN None ELSE active
    /\ orphaned' = orphaned \cup LeasesOn(op.inst)
    /\ op' = Idle
    /\ UNCHANGED <<starterVars, managed, transitioning, quarantined, forced, callVars>>

(* Start stages and publishes at once; its callers have stopped the plugin *)
(* before, so nothing is active (service_lifecycle.go:217).                *)
Start(i) ==
    /\ op = Idle
    /\ active = None
    /\ i \notin started
    /\ started' = started \cup {i}
    /\ alive' = alive \cup {i}
    /\ everPublished' = everPublished \cup {i}
    /\ transport' = i
    /\ managed' = managed \cup {i}
    /\ active' = i
    /\ UNCHANGED <<transitioning, gateVars, callVars, op, orphaned>>

(* watchClientExit: a process that ended by itself is taken out of the     *)
(* starter between two of its operations, whatever the manager is at.  The *)
(* manager is not told.                                                    *)
ProcessExits(i) ==
    /\ i \in alive
    /\ alive' = alive \ {i}
    /\ everPublished' = everPublished \ {i}
    /\ transport' = TransportWithout({i})
    /\ UNCHANGED <<started, managerVars, gateVars, callVars, op, orphaned>>

CallNext ==
    \E c \in Calls :
        \/ AcquireActive(c)
        \/ \E i \in Instances : AcquireCleanup(c, i)
        \/ Dispatch(c)
        \/ Release(c)

PublishNext ==
    \/ \E i \in Instances, keep \in BOOLEAN, expect \in Expectation : PublishBegin(i, keep, expect)
    \/ \E i \in Instances, keep \in BOOLEAN : RepublishBegin(i, keep)
    \/ \E ok \in BOOLEAN : PublishTransport(ok) \/ PublishRollback(ok) \/ RepublishEnd(ok)
    \/ PublishCommit

RemoveNext ==
    \/ \E i \in Instances : RemoveEntry(i) \/ \E discard \in BOOLEAN : RemoveBegin(i, discard)
    \/ \E revoked \in BOOLEAN : RemoveKill(revoked)
    \/ RemoveForget

Next ==
    \/ CallNext
    \/ PublishNext
    \/ RemoveNext
    \/ \E i \in Instances :
         \/ Stage(i) \/ Start(i) \/ ProcessExits(i)
         \/ BeginDrain(i) \/ Resume(i) \/ ForceDrain(i)
    \/ \E incident \in SUBSET managed \ {{}} : Quarantine(incident)
    \/ StopKill
    \/ StopDeactivate

Spec == Init /\ [][Next]_vars

-----------------------------------------------------------------------------
Step == {"idle", "transport", "commit", "rollback", "republish", "kill", "forget", "deactivate"}

(* The values of the two registries, the gates, the calls and the operation*)
(* in progress; what the manager or the starter names has been started.    *)
TypeOK ==
    /\ alive \cup managed \subseteq started /\ everPublished \subseteq alive /\ started \subseteq Instances
    /\ transport \in alive \cup {None}
    /\ active \in managed \cup {None}
    /\ transitioning \subseteq managed
    /\ quarantined \cup forced \subseteq draining /\ draining \subseteq managed
    /\ lease \in [Calls -> {"absent", "leased", "running", "released"}]
    /\ class \in [Calls -> {Ordinary, Cleanup}]
    /\ on \in [Calls -> Instances \cup {None}] /\ ran \in [Calls -> Instances \cup {None}]
    /\ op.step \in Step

(* A call is executed by the process whose lease it holds: however it was  *)
(* delayed between the lease and the lookup by name, no publication,       *)
(* rollback or removal has moved the transport under it.  Only a Stop by   *)
(* name, which drains nobody, may have made it reach the successor.        *)
CallReachesItsProcess ==
    \A c \in Calls : lease[c] = "running" /\ ran[c] # on[c] => c \in orphaned

(* An incident is final for its process: whatever step of a publication it *)
(* falls into, a quarantined process is not made active afterwards.        *)
QuarantinedNeverActivated ==
    [][\A i \in quarantined : active' = i => active = i]_vars

(* The removal of one exact process and the switch to another wait for its *)
(* calls: no lease is held on a process when it is killed by a removal (an *)
(* exit of its own leaves the operation alone) or when the active pointer  *)
(* leaves it for another.                                                  *)
SwitchesAreQuiet ==
    [][/\ op.step = "kill" /\ op' # op => \A i \in alive \ alive' : LeasesOn(i) = {}
       /\ active # None /\ active' \notin {active, None} => LeasesOn(active) = {}]_vars

(* Neither registry names a process it does not hold (TypeOK), and the two *)
(* meet whenever no operation is in progress: calls that the active gate   *)
(* lets in find its process behind the plugin's name, or none if that      *)
(* process is dead; and no process is left in a transition nobody will     *)
(* end, which would make it busy for ever.                                 *)
RegistriesMeet ==
    TypeOK /\ (op = Idle =>
        /\ transitioning = {}
        /\ active # None /\ Enters(active, Ordinary) /\ active \in alive => transport = active)
=============================================================================
