----------------------- MODULE RuntimeInstancesProofs -----------------------
(* What the run of MCRuntimeInstances shows for three processes and two    *)
(* calls, proved for any processes and any calls.                          *)
EXTENDS RuntimeInstances, TLAPS

(* The absence of a process is told from every process.                    *)
InstanceConstants == None \notin Instances

Held(c) == lease[c] \in {"leased", "running"}

PublishOp ==
    [step : {"transport", "commit", "rollback"}, inst : Instances,
     source : Instances \cup {None}, keep : BOOLEAN, expect : Expectation, was : BOOLEAN]
RepublishOp == [step : {"republish"}, inst : Instances, keep : BOOLEAN]
RemoveOp == [step : {"kill", "forget"}, inst : Instances, discard : BOOLEAN]
DeactivateOp == [step : {"deactivate"}, inst : Instances \cup {None}]
OpType == {Idle} \cup PublishOp \cup RepublishOp \cup RemoveOp \cup DeactivateOp

InstanceTypes == InstanceConstants /\ TypeOK /\ op \in OpType

(* A lease is held of a process the manager keeps.                         *)
HeldInv == \A c \in Calls : Held(c) => on[c] \in managed

(* What the operation in progress may rely on at each of its steps: whom   *)
(* it bars, that those are idle, and where the transport has got to.       *)
PublishingInv ==
    op \in PublishOp =>
        /\ op.source = active /\ op.inst \in managed /\ op.inst # active
        /\ active # None => active \in draining
        /\ \A c \in Calls : Held(c) /\ on[c] = active => class[c] = Cleanup
BarredInv ==
    op.step \in {"transport", "commit"} =>
        /\ op.inst \in transitioning
        /\ op.source # None => op.source \in transitioning
        /\ transitioning \subseteq {op.inst, op.source}
        /\ LeasesOn(op.inst) = {} /\ LeasesOn(op.source) = {}
StepInv ==
    /\ op.step = "commit" =>
         \/ transport = op.inst
         \/ transport = None /\ op.inst \notin alive
    /\ op.step \in {"republish", "deactivate"} => op.inst = active
    /\ op.step = "republish" => active \in managed /\ transitioning = IF op.keep THEN {active} ELSE {}
    /\ op.step \in {"kill", "forget"} =>
         op.inst \in managed /\ transitioning = {op.inst} /\ LeasesOn(op.inst) = {}
    /\ op.step = "rollback" => active # None
    /\ op.step \in {"idle", "rollback", "deactivate"} => transitioning = {}
SwitchInv == PublishingInv /\ BarredInv /\ StepInv

(* The transport names the active process, or nobody once that is dead;    *)
(* in the middle of a switch it may be ahead, and an incident may leave it *)
(* so, behind a gate that is shut for good.                                *)
TransportInv ==
    active # None /\ active \notin quarantined \cup forced =>
        /\ op.step \notin {"commit", "rollback", "deactivate"} =>
             transport = active \/ (transport = None /\ active \notin alive)
        /\ op.step = "deactivate" => transport \in {active, None}

(* An ordinary call that nobody orphaned is on the active process, and the *)
(* name of the plugin leads there or nowhere.                              *)
TrackInv ==
    \A c \in Calls :
        Held(c) /\ class[c] = Ordinary /\ c \notin orphaned =>
            on[c] = active /\ transport \in {active, None}

InstancesInv ==
    /\ InstanceTypes /\ HeldInv /\ SwitchInv /\ TransportInv /\ TrackInv
    /\ CallReachesItsProcess

-----------------------------------------------------------------------------
(* The step of an operation tells its kind.                                *)
LEMMA OpFacts ==
  ASSUME NEW o \in OpType
  PROVE  /\ o.step = "idle" <=> o = Idle
         /\ o.step \in {"transport", "commit", "rollback"} <=> o \in PublishOp
         /\ o.step = "republish" <=> o \in RepublishOp
         /\ o.step \in {"kill", "forget"} <=> o \in RemoveOp
         /\ o.step = "deactivate" <=> o \in DeactivateOp
         /\ o.step \in Step
<1>1. CASE o = Idle
  BY <1>1 DEF Idle, PublishOp, RepublishOp, RemoveOp, DeactivateOp, Step
<1>2. CASE o \in PublishOp
  BY <1>2 DEF Idle, PublishOp, RepublishOp, RemoveOp, DeactivateOp, Step
<1>3. CASE o \in RepublishOp
  BY <1>3 DEF Idle, PublishOp, RepublishOp, RemoveOp, DeactivateOp, Step
<1>4. CASE o \in RemoveOp
  BY <1>4 DEF Idle, PublishOp, RepublishOp, RemoveOp, DeactivateOp, Step
<1>5. CASE o \in DeactivateOp
  BY <1>5 DEF Idle, PublishOp, RepublishOp, RemoveOp, DeactivateOp, Step
<1>6. QED
  BY <1>1, <1>2, <1>3, <1>4, <1>5 DEF OpType

(* What each step of an operation makes of it.                             *)
LEMMA OpMoves ==
  ASSUME op \in OpType
  PROVE  /\ \A i \in Instances, s \in Instances \cup {None}, k \in BOOLEAN, e \in Expectation, w \in BOOLEAN :
              Publishing("transport", i, s, k, e, w) \in PublishOp
         /\ \A i \in Instances, k \in BOOLEAN : Republishing(i, k) \in RepublishOp
         /\ \A i \in Instances, k \in BOOLEAN : Removing("kill", i, k) \in RemoveOp
         /\ \A i \in Instances \cup {None} : [step |-> "deactivate", inst |-> i] \in DeactivateOp
         /\ op \in PublishOp =>
                /\ [op EXCEPT !.step = "commit"] \in PublishOp
                /\ [op EXCEPT !.step = "commit"].step = "commit"
                /\ [op EXCEPT !.step = "commit"].inst = op.inst
                /\ [op EXCEPT !.step = "commit"].source = op.source
                /\ [op EXCEPT !.step = "rollback"] \in PublishOp
                /\ [op EXCEPT !.step = "rollback"].step = "rollback"
                /\ [op EXCEPT !.step = "rollback"].inst = op.inst
                /\ [op EXCEPT !.step = "rollback"].source = op.source
         /\ op \in RemoveOp =>
                /\ [op EXCEPT !.step = "forget"] \in RemoveOp
                /\ [op EXCEPT !.step = "forget"].step = "forget"
                /\ [op EXCEPT !.step = "forget"].inst = op.inst
  BY DEF PublishOp, RepublishOp, RemoveOp, DeactivateOp, Publishing, Republishing, Removing

(* Every step leads to a well-formed operation.                            *)
LEMMA NextOp ==
  ASSUME InstanceTypes, [Next]_vars
  PROVE  op' \in OpType
<1> USE DEF OpType
<1>1. op \in OpType /\ active \in Instances \cup {None}
  BY DEF InstanceTypes, TypeOK
<1>2. CASE CallNext
  BY <1>1, <1>2 DEF CallNext, AcquireActive, AcquireCleanup, Dispatch, Release, GiveBack
<1>3. CASE PublishNext
  <2>1. ASSUME NEW i \in Instances, NEW keep \in BOOLEAN, NEW expect \in Expectation,
               PublishBegin(i, keep, expect)
        PROVE  op' \in OpType
    <3>1. (i \in draining) \in BOOLEAN
      OBVIOUS
    <3>2. Publishing("transport", i, active, keep, expect, i \in draining) \in PublishOp
      BY <1>1, <3>1, OpMoves
    <3>3. QED
      BY <2>1, <3>2 DEF PublishBegin
  <2>2. ASSUME NEW i \in Instances, NEW keep \in BOOLEAN, RepublishBegin(i, keep)
        PROVE  op' \in OpType
    BY <1>1, <2>2, OpMoves DEF RepublishBegin
  <2>3. ASSUME NEW ok \in BOOLEAN, PublishTransport(ok) \/ PublishRollback(ok) \/ RepublishEnd(ok)
        PROVE  op' \in OpType
    BY <1>1, <2>3, OpMoves, OpFacts DEF PublishTransport, PublishRollback, RepublishEnd
  <2>4. CASE PublishCommit
    BY <1>1, <2>4, OpMoves, OpFacts DEF PublishCommit
  <2>5. QED
    BY <1>3, <2>1, <2>2, <2>3, <2>4 DEF PublishNext
<1>4. CASE RemoveNext
  <2>1. ASSUME NEW i \in Instances, NEW discard \in BOOLEAN, RemoveBegin(i, discard)
        PROVE  op' \in OpType
    BY <1>1, <2>1, OpMoves DEF RemoveBegin
  <2>2. ASSUME NEW revoked \in BOOLEAN, RemoveKill(revoked)
        PROVE  op' \in OpType
    BY <1>1, <2>2, OpMoves, OpFacts DEF RemoveKill
  <2>3. CASE RemoveForget \/ \E i \in Instances : RemoveEntry(i)
    BY <1>1, <2>3 DEF RemoveForget, RemoveEntry
  <2>4. QED
    BY <1>4, <2>1, <2>2, <2>3 DEF RemoveNext
<1>5. CASE StopKill
  BY <1>1, <1>5, OpMoves DEF StopKill
<1>6. CASE StopDeactivate
  BY <1>1, <1>6 DEF StopDeactivate
<1>7. CASE \/ \E i \in Instances :
               Stage(i) \/ Start(i) \/ ProcessExits(i) \/ BeginDrain(i) \/ Resume(i) \/ ForceDrain(i)
           \/ \E incident \in SUBSET managed \ {{}} : Quarantine(incident)
           \/ UNCHANGED vars
  BY <1>1, <1>7 DEF Stage, Start, ProcessExits, BeginDrain, Resume, ForceDrain, Quarantine, vars
<1>8. QED
  BY <1>2, <1>3, <1>4, <1>5, <1>6, <1>7 DEF Next

(* The parts of the type invariant, for the steps to prove one at a time.  *)
ProcessTypes ==
    /\ alive \cup managed \subseteq started /\ everPublished \subseteq alive /\ started \subseteq Instances
    /\ transport \in alive \cup {None}
    /\ active \in managed \cup {None}
    /\ transitioning \subseteq managed
    /\ quarantined \cup forced \subseteq draining /\ draining \subseteq managed
CallTypes ==
    /\ lease \in [Calls -> {"absent", "leased", "running", "released"}]
    /\ class \in [Calls -> {Ordinary, Cleanup}]
    /\ on \in [Calls -> Instances \cup {None}] /\ ran \in [Calls -> Instances \cup {None}]

LEMMA TypeParts ==
  InstanceTypes <=> InstanceConstants /\ ProcessTypes /\ CallTypes /\ op \in OpType
BY OpFacts DEF InstanceTypes, TypeOK, ProcessTypes, CallTypes

(* Every step keeps the registries and the gates well formed: what is      *)
(* named is held, what is held was started.                                *)
LEMMA NextProcesses ==
  ASSUME InstanceTypes, SwitchInv, [Next]_vars
  PROVE  ProcessTypes'
<1> USE DEF ProcessTypes, starterVars, managerVars, gateVars, callVars
<1>1. ProcessTypes /\ op \in OpType
  BY TypeParts
<1>2. CASE CallNext
  BY <1>1, <1>2 DEF CallNext, AcquireActive, AcquireCleanup, Dispatch, Release, GiveBack
<1>3. CASE PublishNext
  <2>1. ASSUME NEW i \in Instances, NEW keep \in BOOLEAN, NEW expect \in Expectation,
               PublishBegin(i, keep, expect)
        PROVE  ProcessTypes'
    BY <1>1, <2>1 DEF PublishBegin
  <2>2. ASSUME NEW i \in Instances, NEW keep \in BOOLEAN, RepublishBegin(i, keep)
        PROVE  ProcessTypes'
    BY <1>1, <2>2 DEF RepublishBegin
  <2>3. ASSUME NEW ok \in BOOLEAN, PublishTransport(ok)
        PROVE  ProcessTypes'
    BY <1>1, <2>3, OpFacts DEF PublishTransport, TransportAfter, EndTransition, SwitchInv, PublishingInv
  <2>4. ASSUME NEW ok \in BOOLEAN, PublishRollback(ok)
        PROVE  ProcessTypes'
    BY <1>1, <2>4, OpFacts DEF PublishRollback, SwitchInv, PublishingInv, StepInv
  <2>5. ASSUME NEW ok \in BOOLEAN, RepublishEnd(ok)
        PROVE  ProcessTypes'
    BY <1>1, <2>5, OpFacts DEF RepublishEnd, TransportAfter, SwitchInv, StepInv
  <2>6. CASE PublishCommit
    BY <1>1, <2>6, OpFacts DEF PublishCommit, EndTransition, SwitchInv, PublishingInv
  <2>7. QED
    BY <1>3, <2>1, <2>2, <2>3, <2>4, <2>5, <2>6 DEF PublishNext
<1>4. CASE RemoveNext
  <2>1. ASSUME NEW i \in Instances, NEW discard \in BOOLEAN, RemoveBegin(i, discard)
        PROVE  ProcessTypes'
    BY <1>1, <2>1 DEF RemoveBegin, Removable
  <2>2. ASSUME NEW revoked \in BOOLEAN, RemoveKill(revoked)
        PROVE  ProcessTypes'
    BY <1>1, <2>2, OpFacts DEF RemoveKill, TransportWithout
  <2>3. CASE RemoveForget
    BY <1>1, <2>3, OpFacts DEF RemoveForget, DropGate, SwitchInv, StepInv
  <2>4. ASSUME NEW i \in Instances, RemoveEntry(i)
        PROVE  ProcessTypes'
    BY <1>1, <2>4, OpFacts DEF RemoveEntry, DropGate, SwitchInv, StepInv, Idle
  <2>5. QED
    BY <1>4, <2>1, <2>2, <2>3, <2>4 DEF RemoveNext
<1>5. CASE StopKill \/ StopDeactivate
  BY <1>1, <1>5 DEF StopKill, StopDeactivate, TransportWithout
<1>6. CASE \/ \E i \in Instances :
               Stage(i) \/ Start(i) \/ ProcessExits(i) \/ BeginDrain(i) \/ Resume(i) \/ ForceDrain(i)
           \/ \E incident \in SUBSET managed \ {{}} : Quarantine(incident)
           \/ UNCHANGED vars
  BY <1>1, <1>6 DEF Stage, Start, ProcessExits, BeginDrain, Resume, ForceDrain, Quarantine, Resumable,
       TransportWithout, vars
<1>7. QED
  BY <1>2, <1>3, <1>4, <1>5, <1>6 DEF Next

(* Every step keeps the calls well formed.                                 *)
LEMMA NextCalls ==
  ASSUME InstanceTypes, [Next]_vars
  PROVE  CallTypes'
<1> USE DEF CallTypes, ProcessTypes, callVars
<1>1. CallTypes /\ ProcessTypes
  BY TypeParts
<1>2. CASE CallNext
  BY <1>1, <1>2 DEF CallNext, AcquireActive, AcquireCleanup, Dispatch, Release, GiveBack,
       Enters, Ordinary, Cleanup
<1>3. CASE PublishNext \/ RemoveNext
  BY <1>1, <1>3 DEF PublishNext, PublishBegin, RepublishBegin, PublishTransport, PublishRollback,
       RepublishEnd, PublishCommit, RemoveNext, RemoveBegin, RemoveKill, RemoveForget, RemoveEntry
<1>4. CASE \/ StopKill \/ StopDeactivate
           \/ \E i \in Instances :
               Stage(i) \/ Start(i) \/ ProcessExits(i) \/ BeginDrain(i) \/ Resume(i) \/ ForceDrain(i)
           \/ \E incident \in SUBSET managed \ {{}} : Quarantine(incident)
           \/ UNCHANGED vars
  BY <1>1, <1>4 DEF StopKill, StopDeactivate, Stage, Start, ProcessExits, BeginDrain, Resume, ForceDrain, Quarantine, vars
<1>5. QED
  BY <1>2, <1>3, <1>4 DEF Next

-----------------------------------------------------------------------------
(* Every step keeps the processes with leases managed: what is removed is  *)
(* idle, and stays idle between the look and the removal.                  *)
LEMMA NextHeld ==
  ASSUME InstanceTypes, HeldInv, SwitchInv, [Next]_vars
  PROVE  HeldInv'
<1> USE DEF HeldInv, Held, starterVars, managerVars, gateVars, callVars
<1>1. CallTypes /\ ProcessTypes /\ op \in OpType
  BY TypeParts
<1>2. CASE CallNext
  BY <1>1, <1>2 DEF CallNext, AcquireActive, AcquireCleanup, Dispatch, Release, GiveBack,
       Enters, CallTypes
<1>3. CASE PublishNext
  BY <1>1, <1>3 DEF PublishNext, PublishBegin, RepublishBegin, PublishTransport, PublishRollback,
       RepublishEnd, PublishCommit
<1>4. CASE RemoveNext
  <2>1. CASE RemoveForget
    BY <1>1, <2>1, OpFacts DEF RemoveForget, DropGate, SwitchInv, StepInv, LeasesOn
  <2>2. CASE \E i \in Instances : RemoveEntry(i)
    BY <1>1, <2>2 DEF RemoveEntry, DropGate, LeasesOn
  <2>3. CASE \/ \E i \in Instances, discard \in BOOLEAN : RemoveBegin(i, discard)
             \/ \E revoked \in BOOLEAN : RemoveKill(revoked)
    BY <1>1, <2>3 DEF RemoveBegin, RemoveKill
  <2>4. QED
    BY <1>4, <2>1, <2>2, <2>3 DEF RemoveNext
<1>5. CASE \/ StopKill \/ StopDeactivate
           \/ \E i \in Instances :
               Stage(i) \/ Start(i) \/ ProcessExits(i) \/ BeginDrain(i) \/ Resume(i) \/ ForceDrain(i)
           \/ \E incident \in SUBSET managed \ {{}} : Quarantine(incident)
           \/ UNCHANGED vars
  BY <1>1, <1>5 DEF StopKill, StopDeactivate, Stage, Start, ProcessExits, BeginDrain, Resume, ForceDrain, Quarantine, vars
<1>6. QED
  BY <1>2, <1>3, <1>4, <1>5 DEF Next

(* A call that is made or answered adds no lease on a process that bars    *)
(* it, and no ordinary one on a process that drains.                       *)
LEMMA CallsRespectBars ==
  ASSUME InstanceTypes, CallNext
  PROVE  /\ \A i \in transitioning : LeasesOn(i) = {} => LeasesOn(i)' = {}
         /\ HeldInv => LeasesOn(None)' = {}
         /\ \A i \in draining :
              (\A c \in Calls : Held(c) /\ on[c] = i => class[c] = Cleanup)
                => \A c \in Calls : Held(c)' /\ on'[c] = i => class'[c] = Cleanup
<1> USE DEF Held, LeasesOn, GiveBack
<1>1. CallTypes /\ ProcessTypes /\ InstanceConstants
  BY TypeParts
<1>2. PICK c \in Calls : AcquireActive(c) \/ (\E i \in Instances : AcquireCleanup(c, i)) \/ Dispatch(c) \/ Release(c)
  BY DEF CallNext
<1>3. CASE AcquireActive(c)
  <2>1. active # None /\ active \notin transitioning \cup draining /\ lease' = [lease EXCEPT ![c] = "leased"]
        /\ on' = [on EXCEPT ![c] = active] /\ class' = class
    BY <1>3 DEF AcquireActive, Enters, callVars, Ordinary, Cleanup
  <2>2. QED
    BY <1>1, <2>1 DEF CallTypes, ProcessTypes, InstanceConstants, HeldInv
<1>4. CASE \E i \in Instances : AcquireCleanup(c, i)
  <2>1. PICK i \in Instances : AcquireCleanup(c, i)
    BY <1>4
  <2>2. i \notin transitioning /\ lease' = [lease EXCEPT ![c] = "leased"]
        /\ on' = [on EXCEPT ![c] = i] /\ class' = [class EXCEPT ![c] = Cleanup]
    BY <2>1 DEF AcquireCleanup, Enters
  <2>3. QED
    BY <1>1, <2>2 DEF CallTypes, ProcessTypes, InstanceConstants, HeldInv
<1>5. CASE Dispatch(c)
  <2>1. \/ lease' = [lease EXCEPT ![c] = "released"] /\ on' = [on EXCEPT ![c] = None]
             /\ class' = [class EXCEPT ![c] = Ordinary]
        \/ lease[c] = "leased" /\ lease' = [lease EXCEPT ![c] = "running"] /\ on' = on /\ class' = class
    BY <1>5 DEF Dispatch
  <2>2. QED
    BY <1>1, <2>1 DEF CallTypes, ProcessTypes, InstanceConstants, HeldInv
<1>6. CASE Release(c)
  BY <1>1, <1>6 DEF Release, CallTypes, ProcessTypes, InstanceConstants, HeldInv
<1>7. QED
  BY <1>2, <1>3, <1>4, <1>5, <1>6

(* Between operations nobody is barred, and what an operation relies on    *)
(* between its steps is not taken away by calls, incidents or itself.      *)
LEMMA NextSwitch ==
  ASSUME InstanceTypes, HeldInv, SwitchInv, [Next]_vars
  PROVE  SwitchInv'
<1> USE DEF SwitchInv, starterVars, managerVars, gateVars
<1>1. CallTypes /\ ProcessTypes /\ op \in OpType /\ op' \in OpType /\ InstanceConstants
  BY TypeParts, NextOp
<1>2. CASE op' = Idle /\ transitioning' = {}
  <2>1. op'.step = "idle" /\ op' \notin PublishOp
    BY <1>1, <1>2, OpFacts DEF Idle
  <2>2. QED
    BY <1>2, <2>1 DEF PublishingInv, BarredInv, StepInv
<1>3. CASE CallNext
  <2>1. UNCHANGED <<op, alive, transport, active, managed, transitioning, draining>>
    BY <1>3 DEF CallNext, AcquireActive, AcquireCleanup, Dispatch, Release, GiveBack
  <2>2. PublishingInv'
    <3>1. CASE active = None
      BY <1>3, <2>1, <3>1, CallsRespectBars DEF PublishingInv, LeasesOn, Held
    <3>2. CASE active # None
      BY <1>3, <2>1, <3>2, CallsRespectBars DEF PublishingInv
    <3>3. QED
      BY <3>1, <3>2
  <2>3. BarredInv' /\ StepInv'
    BY <1>1, <1>3, <2>1, CallsRespectBars DEF BarredInv, StepInv
  <2>4. QED
    BY <2>2, <2>3
<1>4. CASE PublishNext
  <2>1. ASSUME NEW i \in Instances, NEW keep \in BOOLEAN, NEW expect \in Expectation,
               PublishBegin(i, keep, expect)
        PROVE  SwitchInv'
    <3>1. /\ op = Idle /\ i \in managed /\ i # active /\ transitioning = {}
          /\ active # None => active \in draining /\ LeasesOn(active) = {}
          /\ LeasesOn(i) = {}
      BY <2>1, OpFacts DEF PublishBegin, Replaceable, StepInv, Idle
    <3>2. LeasesOn(None) = {}
      BY <1>1 DEF HeldInv, LeasesOn, Held, ProcessTypes, InstanceConstants
    <3>3. /\ op'.step = "transport" /\ op'.inst = i /\ op'.source = active
          /\ transitioning' = {i, active} \ {None}
          /\ UNCHANGED <<active, managed, transport, lease, class, on>>
          /\ active # None => active \in draining'
      BY <1>1, <2>1, <3>1 DEF PublishBegin, Publishing, callVars, InstanceConstants
    <3>4. PublishingInv'
      BY <1>1, <3>1, <3>2, <3>3 DEF PublishingInv, LeasesOn, Held
    <3>5. BarredInv' /\ StepInv'
      BY <1>1, <3>1, <3>2, <3>3 DEF BarredInv, StepInv, LeasesOn, InstanceConstants, ProcessTypes
    <3>6. QED
      BY <3>4, <3>5
  <2>2. ASSUME NEW i \in Instances, NEW keep \in BOOLEAN, RepublishBegin(i, keep)
        PROVE  SwitchInv'
    <3>1. op = Idle /\ i = active /\ i \in managed /\ transitioning = {}
      BY <2>2, OpFacts DEF RepublishBegin, StepInv, Idle
    <3>2. CASE op' = Idle
      BY <1>2, <2>2, <3>1, <3>2, <1>1, OpFacts DEF RepublishBegin, Idle, Republishing
    <3>3. CASE op' = Republishing(i, keep)
      <4>1. op'.step = "republish" /\ op'.inst = active /\ op'.keep = keep /\ op' \notin PublishOp
        BY <1>1, <3>1, <3>3, OpFacts DEF Republishing
      <4>2. transitioning' = (IF keep THEN {active} ELSE {}) /\ UNCHANGED <<active, managed>>
        BY <2>2, <3>1, <3>3, <1>1, OpFacts DEF RepublishBegin, Republishing, Idle
      <4>3. QED
        BY <3>1, <4>1, <4>2 DEF PublishingInv, BarredInv, StepInv
    <3>4. QED
      BY <2>2, <3>1, <3>2, <3>3 DEF RepublishBegin
  <2>3. ASSUME NEW ok \in BOOLEAN, PublishTransport(ok)
        PROVE  SwitchInv'
    <3>1. op.step = "transport" /\ op \in PublishOp
      BY <1>1, <2>3, OpFacts DEF PublishTransport
    <3>2. CASE ok
      <4>1. /\ op' = [op EXCEPT !.step = "commit"] /\ transport' = op.inst
            /\ UNCHANGED <<transitioning, draining, active, managed, lease, class, on>>
        BY <2>3, <3>2 DEF PublishTransport, TransportAfter, callVars
      <4>2. op'.step = "commit" /\ op'.inst = op.inst /\ op'.source = op.source
        BY <1>1, <3>1, <4>1, OpMoves
      <4>3. QED
        BY <3>1, <4>1, <4>2, <1>1 DEF PublishingInv, BarredInv, StepInv, LeasesOn, Held
    <3>3. CASE ~ok
      BY <1>2, <2>3, <3>1, <3>3 DEF PublishTransport, EndTransition, BarredInv
    <3>4. QED
      BY <3>2, <3>3
  <2>4. ASSUME NEW ok \in BOOLEAN, PublishRollback(ok)
        PROVE  SwitchInv'
    BY <1>2, <2>4 DEF PublishRollback, StepInv
  <2>5. ASSUME NEW ok \in BOOLEAN, RepublishEnd(ok)
        PROVE  SwitchInv'
    BY <1>2, <2>5 DEF RepublishEnd, StepInv
  <2>6. CASE PublishCommit
    <3>1. op.step = "commit" /\ op \in PublishOp /\ transitioning' = {}
      BY <1>1, <2>6, OpFacts DEF PublishCommit, EndTransition, BarredInv
    <3>2. CASE op' = Idle
      BY <1>2, <3>1, <3>2
    <3>3. CASE op' # Idle
      <4>1. /\ op' = [op EXCEPT !.step = "rollback"] /\ op.source # None
            /\ UNCHANGED <<active, managed, draining, lease, class, on>>
        BY <2>6, <3>3 DEF PublishCommit, callVars
      <4>2. op'.step = "rollback" /\ op'.inst = op.inst /\ op'.source = op.source
        BY <1>1, <3>1, <4>1, OpMoves
      <4>3. QED
        BY <3>1, <4>1, <4>2 DEF PublishingInv, BarredInv, StepInv, Held
    <3>4. QED
      BY <3>2, <3>3
  <2>7. QED
    BY <1>4, <2>1, <2>2, <2>3, <2>4, <2>5, <2>6 DEF PublishNext
<1>5. CASE RemoveNext
  <2>1. ASSUME NEW i \in Instances, NEW discard \in BOOLEAN, RemoveBegin(i, discard)
        PROVE  SwitchInv'
    <3>1. op = Idle /\ i \in managed /\ LeasesOn(i) = {} /\ transitioning = {}
      BY <2>1, OpFacts DEF RemoveBegin, Removable, StepInv, Idle
    <3>2. op'.step = "kill" /\ op'.inst = i /\ op' \notin PublishOp
      BY <1>1, <2>1, OpFacts DEF RemoveBegin, Removing
    <3>3. transitioning' = {i} /\ UNCHANGED <<managed, lease, on>>
      BY <2>1, <3>1 DEF RemoveBegin, callVars
    <3>4. QED
      BY <3>1, <3>2, <3>3 DEF PublishingInv, BarredInv, StepInv, LeasesOn
  <2>2. ASSUME NEW revoked \in BOOLEAN, RemoveKill(revoked)
        PROVE  SwitchInv'
    <3>1. op.step = "kill" /\ op \in RemoveOp /\ transitioning = {op.inst}
      BY <1>1, <2>2, OpFacts DEF RemoveKill, StepInv
    <3>2. CASE op' = Idle
      <4>1. transitioning' = transitioning \ {op.inst}
        BY <2>2, <3>2, <1>1, <3>1, OpMoves, OpFacts DEF RemoveKill, Idle
      <4>2. QED
        BY <1>2, <3>1, <3>2, <4>1
    <3>3. CASE op' # Idle
      <4>1. /\ op' = [op EXCEPT !.step = "forget"]
            /\ UNCHANGED <<transitioning, managed, lease, on>>
        BY <2>2, <3>3 DEF RemoveKill, callVars
      <4>2. op'.step = "forget" /\ op'.inst = op.inst /\ op' \notin PublishOp
        BY <1>1, <3>1, <4>1, OpMoves, OpFacts
      <4>3. QED
        BY <3>1, <4>1, <4>2 DEF PublishingInv, BarredInv, StepInv, LeasesOn
    <3>4. QED
      BY <3>2, <3>3
  <2>3. CASE RemoveForget
    BY <1>2, <2>3, OpFacts DEF RemoveForget, StepInv
  <2>4. ASSUME NEW i \in Instances, RemoveEntry(i)
        PROVE  SwitchInv'
    BY <1>2, <2>4, OpFacts DEF RemoveEntry, StepInv, Idle
  <2>5. QED
    BY <1>5, <2>1, <2>2, <2>3, <2>4 DEF RemoveNext
<1>6. CASE StopKill
  <2>1. op'.step = "deactivate" /\ op'.inst = active /\ op' \notin PublishOp
    BY <1>1, <1>6, OpFacts DEF StopKill
  <2>2. transitioning' = {} /\ active' = active
    BY <1>6, OpFacts DEF StopKill, StepInv, Idle
  <2>3. QED
    BY <2>1, <2>2 DEF PublishingInv, BarredInv, StepInv
<1>7. CASE StopDeactivate
  BY <1>2, <1>7 DEF StopDeactivate, StepInv
<1>8. CASE \E incident \in SUBSET managed \ {{}} : Quarantine(incident)
  <2>1. draining \subseteq draining' /\ UNCHANGED <<op, alive, transport, active, managed, transitioning, lease, class, on>>
    BY <1>8 DEF Quarantine, callVars
  <2>2. QED
    BY <2>1 DEF PublishingInv, BarredInv, StepInv, LeasesOn, Held
<1>9. CASE \E i \in Instances :
             Stage(i) \/ Start(i) \/ BeginDrain(i) \/ Resume(i) \/ ForceDrain(i)
  <2>1. op = Idle /\ op' = op /\ transitioning' = transitioning
    BY <1>9 DEF Stage, Start, BeginDrain, Resume, ForceDrain
  <2>2. QED
    BY <1>2, <2>1, OpFacts DEF StepInv, Idle
<1>10. CASE UNCHANGED vars
  BY <1>10 DEF vars, callVars, PublishingInv, BarredInv, StepInv, LeasesOn, Held
<1>11. CASE \E i \in Instances : ProcessExits(i)
  <2>1. UNCHANGED <<op, active, managed, transitioning, draining, lease, class, on>>
    BY <1>11 DEF ProcessExits, callVars
  <2>2. alive' \subseteq alive /\ (transport' = transport \/ (transport' = None /\ transport \notin alive'))
    BY <1>11 DEF ProcessExits, TransportWithout
  <2>3. StepInv'
    BY <2>1, <2>2 DEF StepInv, LeasesOn
  <2>4. QED
    BY <2>1, <2>3 DEF PublishingInv, BarredInv, LeasesOn, Held
<1>12. QED
  BY <1>3, <1>4, <1>5, <1>6, <1>7, <1>8, <1>9, <1>10, <1>11 DEF Next

(* The transport stays with the active process through every step of every *)
(* operation, failed ones included.                                        *)
LEMMA NextTransport ==
  ASSUME InstanceTypes, SwitchInv, TransportInv, [Next]_vars
  PROVE  TransportInv'
<1> USE DEF TransportInv, SwitchInv, starterVars, managerVars, gateVars
<1>1. ProcessTypes /\ op \in OpType /\ op' \in OpType /\ InstanceConstants
  BY TypeParts, NextOp
<1>2. ASSUME UNCHANGED <<transport, active, alive, op>>,
             quarantined \cup forced \subseteq quarantined' \cup forced'
      PROVE  TransportInv'
  BY <1>2
<1>3. CASE CallNext
  BY <1>2, <1>3 DEF CallNext, AcquireActive, AcquireCleanup, Dispatch, Release, GiveBack
<1>4. CASE PublishNext
  <2>1. ASSUME NEW i \in Instances, NEW keep \in BOOLEAN, NEW expect \in Expectation,
               PublishBegin(i, keep, expect)
        PROVE  TransportInv'
    <3>1. op.step = "idle" /\ op'.step = "transport"
      BY <1>1, <2>1, OpFacts DEF PublishBegin, Publishing
    <3>2. QED
      BY <2>1, <3>1 DEF PublishBegin
  <2>2. ASSUME NEW i \in Instances, NEW keep \in BOOLEAN, RepublishBegin(i, keep)
        PROVE  TransportInv'
    <3>1. op.step = "idle" /\ op'.step \in {"idle", "republish"}
      BY <1>1, <2>2, OpFacts DEF RepublishBegin, Republishing
    <3>2. QED
      BY <2>2, <3>1 DEF RepublishBegin
  <2>3. ASSUME NEW ok \in BOOLEAN, PublishTransport(ok)
        PROVE  TransportInv'
    <3>1. op.step = "transport" /\ op \in PublishOp
      BY <1>1, <2>3, OpFacts DEF PublishTransport
    <3>2. CASE ok
      <4>1. op'.step = "commit"
        BY <1>1, <2>3, <3>1, <3>2, OpMoves DEF PublishTransport
      <4>2. QED
        BY <4>1
    <3>3. CASE ~ok
      <4>1. op'.step = "idle"
        BY <1>1, <2>3, <3>3, OpFacts DEF PublishTransport, Idle
      <4>2. QED
        BY <2>3, <3>1, <3>3, <4>1 DEF PublishTransport, TransportAfter
    <3>4. QED
      BY <3>2, <3>3
  <2>4. ASSUME NEW ok \in BOOLEAN, PublishRollback(ok)
        PROVE  TransportInv'
    <3>1. op.step = "rollback" /\ op.source = active /\ op'.step = "idle"
      BY <1>1, <2>4, OpFacts DEF PublishRollback, PublishingInv, Idle
    <3>2. QED
      BY <2>4, <3>1 DEF PublishRollback
  <2>5. ASSUME NEW ok \in BOOLEAN, RepublishEnd(ok)
        PROVE  TransportInv'
    <3>1. op.step = "republish" /\ op.inst = active /\ op'.step = "idle"
      BY <1>1, <2>5, OpFacts DEF RepublishEnd, StepInv, Idle
    <3>2. QED
      BY <2>5, <3>1 DEF RepublishEnd, TransportAfter
  <2>6. CASE PublishCommit
    <3>1. /\ op.step = "commit" /\ op \in PublishOp /\ op.source = active
          /\ (transport = op.inst) \/ (transport = None /\ op.inst \notin alive)
      BY <1>1, <2>6, OpFacts DEF PublishCommit, PublishingInv, StepInv
    <3>2. CASE Committable
      BY <2>6, <3>1, <3>2 DEF PublishCommit
    <3>3. CASE ~Committable /\ op.source # None
      <4>1. op'.step = "rollback"
        BY <1>1, <2>6, <3>1, <3>3, OpMoves DEF PublishCommit
      <4>2. QED
        BY <4>1
    <3>4. CASE ~Committable /\ op.source = None
      BY <2>6, <3>1, <3>4 DEF PublishCommit
    <3>5. QED
      BY <3>2, <3>3, <3>4
  <2>7. QED
    BY <1>4, <2>1, <2>2, <2>3, <2>4, <2>5, <2>6 DEF PublishNext
<1>5. CASE RemoveNext
  <2>1. ASSUME NEW i \in Instances, NEW discard \in BOOLEAN, RemoveBegin(i, discard)
        PROVE  TransportInv'
    <3>1. op.step = "idle" /\ op'.step = "kill"
      BY <1>1, <2>1, OpFacts DEF RemoveBegin, Removing
    <3>2. QED
      BY <2>1, <3>1 DEF RemoveBegin
  <2>2. ASSUME NEW revoked \in BOOLEAN, RemoveKill(revoked)
        PROVE  TransportInv'
    <3>1. op.step = "kill" /\ op \in RemoveOp
      BY <1>1, <2>2, OpFacts DEF RemoveKill
    <3>2. op'.step \in {"idle", "forget"}
      BY <1>1, <2>2, <3>1, OpMoves, OpFacts DEF RemoveKill, Idle
    <3>3. QED
      BY <2>2, <3>1, <3>2 DEF RemoveKill, TransportWithout
  <2>3. CASE RemoveForget
    <3>1. op.step = "forget" /\ op'.step = "idle"
      BY <2>3 DEF RemoveForget, Idle
    <3>2. QED
      BY <2>3, <3>1 DEF RemoveForget, DropGate
  <2>4. ASSUME NEW i \in Instances, RemoveEntry(i)
        PROVE  TransportInv'
    BY <2>4 DEF RemoveEntry, DropGate
  <2>5. QED
    BY <1>5, <2>1, <2>2, <2>3, <2>4 DEF RemoveNext
<1>6. CASE StopKill
  <2>1. op.step = "idle" /\ op'.step = "deactivate"
    BY <1>1, <1>6, OpFacts DEF StopKill
  <2>2. QED
    BY <1>6, <2>1 DEF StopKill, TransportWithout
<1>7. CASE StopDeactivate
  <2>1. op.inst = active
    BY <1>7 DEF StopDeactivate, StepInv
  <2>2. active' = None
    BY <1>1, <1>7, <2>1 DEF StopDeactivate, ProcessTypes
  <2>3. QED
    BY <2>2
<1>8. CASE \E incident \in SUBSET managed \ {{}} : Quarantine(incident)
  BY <1>2, <1>8 DEF Quarantine
<1>9. CASE \E i \in Instances : Stage(i) \/ Start(i)
  <2>1. op.step = "idle" /\ op' = op
    BY <1>1, <1>9, OpFacts DEF Stage, Start
  <2>2. QED
    BY <1>1, <1>9, <2>1 DEF Stage, Start, ProcessTypes
<1>10. CASE \E i \in Instances : BeginDrain(i) \/ Resume(i) \/ ForceDrain(i)
  BY <1>2, <1>10 DEF BeginDrain, Resume, ForceDrain
<1>11. CASE UNCHANGED vars
  BY <1>2, <1>11 DEF vars
<1>12. CASE \E i \in Instances : ProcessExits(i)
  <2>1. UNCHANGED <<op, active, quarantined, forced>>
    BY <1>12 DEF ProcessExits
  <2>2. alive' \subseteq alive /\ (transport' = transport \/ (transport' = None /\ transport \notin alive'))
    BY <1>12 DEF ProcessExits, TransportWithout
  <2>3. QED
    BY <2>1, <2>2
<1>13. QED
  BY <1>3, <1>4, <1>5, <1>6, <1>7, <1>8, <1>9, <1>10, <1>11, <1>12 DEF Next

(* Where an ordinary call may be: not inside a switch, whose source is     *)
(* idle but for cleanup.                                                   *)
LEMMA TrackFacts ==
  ASSUME InstanceTypes, HeldInv, SwitchInv, TrackInv
  PROVE  \A c \in Calls : Held(c) /\ class[c] = Ordinary /\ c \notin orphaned =>
            /\ active # None /\ on[c] = active
            /\ op \notin PublishOp
            /\ op.step \in {"kill", "forget"} => op.inst # active
<1>1. CallTypes /\ ProcessTypes /\ op \in OpType /\ InstanceConstants /\ Ordinary # Cleanup
  BY TypeParts DEF Ordinary, Cleanup
<1>2. QED
  BY <1>1 DEF TrackInv, HeldInv, SwitchInv, PublishingInv, StepInv, LeasesOn, Held,
       ProcessTypes, InstanceConstants

(* An ordinary call only enters an open gate, and behind an open gate the  *)
(* transport is the active process's; it loses neither while it is inside. *)
LEMMA NextTrack ==
  ASSUME InstanceTypes, HeldInv, SwitchInv, TransportInv, TrackInv, [Next]_vars
  PROVE  TrackInv'
<1> USE DEF starterVars, managerVars, gateVars, callVars
<1>1. CallTypes /\ ProcessTypes /\ op \in OpType /\ InstanceConstants /\ Ordinary # Cleanup
  BY TypeParts DEF Ordinary, Cleanup
<1>2. ASSUME UNCHANGED <<lease, class, on>>, orphaned \subseteq orphaned',
             \A c \in Calls : Held(c) /\ class[c] = Ordinary /\ c \notin orphaned =>
                c \in orphaned' \/ (active' = active /\ transport' \in {transport, active, None})
      PROVE  TrackInv'
  BY <1>2 DEF TrackInv, Held
<1>3. CASE CallNext
  <2>1. PICK c \in Calls : AcquireActive(c) \/ (\E i \in Instances : AcquireCleanup(c, i)) \/ Dispatch(c) \/ Release(c)
    BY <1>3 DEF CallNext
  <2>2. UNCHANGED <<active, transport>>
    BY <2>1 DEF AcquireActive, AcquireCleanup, Dispatch, Release, GiveBack
  <2>3. CASE AcquireActive(c)
    <3>1. active # None /\ active \notin draining \cup quarantined \cup forced
      BY <1>1, <2>3 DEF AcquireActive, Enters, ProcessTypes
    <3>2. op \notin PublishOp
      BY <3>1 DEF SwitchInv, PublishingInv
    <3>3. transport \in {active, None}
      BY <1>1, <3>1, <3>2, OpFacts DEF TransportInv, Step
    <3>4. /\ lease' = [lease EXCEPT ![c] = "leased"] /\ on' = [on EXCEPT ![c] = active]
          /\ class' = class /\ orphaned' = orphaned
      BY <2>3 DEF AcquireActive
    <3>5. QED
      BY <1>1, <2>2, <3>3, <3>4 DEF TrackInv, Held, CallTypes
  <2>4. CASE \E i \in Instances : AcquireCleanup(c, i)
    BY <1>1, <2>2, <2>4 DEF AcquireCleanup, TrackInv, Held, CallTypes
  <2>5. CASE Dispatch(c)
    <3>1. \/ lease' = [lease EXCEPT ![c] = "released"] /\ on' = [on EXCEPT ![c] = None]
               /\ class' = [class EXCEPT ![c] = Ordinary] /\ orphaned' = orphaned \ {c}
          \/ lease[c] = "leased" /\ lease' = [lease EXCEPT ![c] = "running"] /\ on' = on
               /\ class' = class /\ orphaned' = orphaned
      BY <2>5 DEF Dispatch, GiveBack
    <3>2. QED
      BY <1>1, <2>2, <3>1 DEF TrackInv, Held, CallTypes
  <2>6. CASE Release(c)
    BY <1>1, <2>2, <2>6 DEF Release, GiveBack, TrackInv, Held, CallTypes
  <2>7. QED
    BY <2>1, <2>3, <2>4, <2>5, <2>6
<1>4. CASE PublishNext
  <2>1. CASE \/ \E i \in Instances, keep \in BOOLEAN, expect \in Expectation : PublishBegin(i, keep, expect)
             \/ \E i \in Instances, keep \in BOOLEAN : RepublishBegin(i, keep)
    BY <1>2, <2>1 DEF PublishBegin, RepublishBegin
  <2>2. ASSUME NEW ok \in BOOLEAN, PublishTransport(ok) \/ PublishRollback(ok)
        PROVE  TrackInv'
    <3>1. op \in PublishOp
      BY <1>1, <2>2, OpFacts DEF PublishTransport, PublishRollback
    <3>2. QED
      BY <1>2, <2>2, <3>1, TrackFacts DEF PublishTransport, PublishRollback
  <2>3. ASSUME NEW ok \in BOOLEAN, RepublishEnd(ok)
        PROVE  TrackInv'
    BY <1>2, <2>3 DEF RepublishEnd, TransportAfter, SwitchInv, StepInv
  <2>4. CASE PublishCommit
    <3>1. op \in PublishOp
      BY <1>1, <2>4, OpFacts DEF PublishCommit
    <3>2. QED
      BY <1>2, <2>4, <3>1, TrackFacts DEF PublishCommit
  <2>5. QED
    BY <1>4, <2>1, <2>2, <2>3, <2>4 DEF PublishNext
<1>5. CASE RemoveNext
  <2>1. ASSUME NEW i \in Instances, NEW discard \in BOOLEAN, RemoveBegin(i, discard) \/ RemoveEntry(i)
        PROVE  TrackInv'
    BY <1>2, <2>1 DEF RemoveBegin, RemoveEntry
  <2>2. ASSUME NEW revoked \in BOOLEAN, RemoveKill(revoked)
        PROVE  TrackInv'
    BY <1>2, <2>2 DEF RemoveKill, TransportWithout
  <2>3. CASE RemoveForget
    BY <1>2, <2>3, TrackFacts DEF RemoveForget
  <2>4. QED
    BY <1>5, <2>1, <2>2, <2>3 DEF RemoveNext
<1>6. CASE StopKill
  BY <1>2, <1>6 DEF StopKill, TransportWithout
<1>7. CASE StopDeactivate
  <2>1. op.inst = active
    BY <1>7 DEF StopDeactivate, SwitchInv, StepInv
  <2>2. QED
    BY <1>2, <1>7, <2>1, TrackFacts DEF StopDeactivate, LeasesOn, Held
<1>8. CASE \E i \in Instances : Start(i)
  BY <1>2, <1>8, TrackFacts DEF Start
<1>9. CASE \/ \E i \in Instances : Stage(i) \/ ProcessExits(i) \/ BeginDrain(i) \/ Resume(i) \/ ForceDrain(i)
           \/ \E incident \in SUBSET managed \ {{}} : Quarantine(incident)
           \/ UNCHANGED vars
  BY <1>2, <1>9 DEF Stage, ProcessExits, TransportWithout, BeginDrain, Resume, ForceDrain, Quarantine, vars
<1>10. QED
  BY <1>3, <1>4, <1>5, <1>6, <1>7, <1>8, <1>9 DEF Next

(* So the lookup by name, however late, finds the process of the lease.    *)
LEMMA NextReaches ==
  ASSUME InstanceTypes, TrackInv, CallReachesItsProcess, [Next]_vars
  PROVE  CallReachesItsProcess'
<1> USE DEF callVars
<1>1. CallTypes
  BY TypeParts
<1>2. ASSUME UNCHANGED <<lease, on, ran>>, orphaned \subseteq orphaned'
      PROVE  CallReachesItsProcess'
  BY <1>2 DEF CallReachesItsProcess
<1>3. ASSUME NEW c \in Calls, AcquireActive(c) \/ (\E i \in Instances : AcquireCleanup(c, i)) \/ Release(c)
      PROVE  CallReachesItsProcess'
  BY <1>1, <1>3 DEF AcquireActive, AcquireCleanup, Release, GiveBack, CallReachesItsProcess, CallTypes
<1>4. ASSUME NEW c \in Calls, Dispatch(c)
      PROVE  CallReachesItsProcess'
  <2> DEFINE target == IF class[c] = Ordinary THEN transport
                       ELSE IF on[c] \in alive THEN on[c] ELSE None
  <2>1. CASE target = None
    BY <1>1, <1>4, <2>1 DEF Dispatch, GiveBack, CallReachesItsProcess, CallTypes
  <2>2. CASE target # None
    <3>1. c \in orphaned \/ target = on[c]
      BY <1>4, <2>2 DEF Dispatch, TrackInv, Held
    <3>2. /\ ran' = [ran EXCEPT ![c] = target] /\ lease' = [lease EXCEPT ![c] = "running"]
          /\ on' = on /\ orphaned' = orphaned
      BY <1>4, <2>2 DEF Dispatch
    <3>3. QED
      BY <1>1, <3>1, <3>2 DEF CallReachesItsProcess, CallTypes
  <2>3. QED
    BY <2>1, <2>2
<1>5. CASE PublishNext \/ RemoveNext
  BY <1>2, <1>5 DEF PublishNext, PublishBegin, RepublishBegin, PublishTransport, PublishRollback,
       RepublishEnd, PublishCommit, RemoveNext, RemoveBegin, RemoveKill, RemoveForget, RemoveEntry
<1>6. CASE \/ StopKill \/ StopDeactivate
           \/ \E i \in Instances :
               Stage(i) \/ Start(i) \/ ProcessExits(i) \/ BeginDrain(i) \/ Resume(i) \/ ForceDrain(i)
           \/ \E incident \in SUBSET managed \ {{}} : Quarantine(incident)
           \/ UNCHANGED vars
  BY <1>2, <1>6 DEF StopKill, StopDeactivate, Stage, Start, ProcessExits, BeginDrain, Resume, ForceDrain, Quarantine, vars
<1>7. QED
  BY <1>3, <1>4, <1>5, <1>6 DEF Next, CallNext

-----------------------------------------------------------------------------
(* The inductive invariant holds in every reachable state, for any         *)
(* processes and any calls.                                                *)
THEOREM AlwaysInstancesInv == InstanceConstants /\ Spec => []InstancesInv
<1>1. InstanceConstants /\ Init => InstancesInv
  <2> SUFFICES ASSUME InstanceConstants, Init PROVE InstancesInv
    OBVIOUS
  <2>1. op = Idle /\ op.step = "idle" /\ op \in OpType
    BY DEF Init, Idle, OpType
  <2>2. op \notin PublishOp
    BY <2>1, OpFacts
  <2>3. InstanceTypes
    BY <2>1, TypeParts DEF Init, ProcessTypes, CallTypes, Ordinary
  <2>4. \A c \in Calls : lease[c] = "absent"
    BY DEF Init
  <2>5. QED
    BY <2>1, <2>2, <2>3, <2>4 DEF Init, InstancesInv, HeldInv, Held, SwitchInv, PublishingInv,
       BarredInv, StepInv, TransportInv, TrackInv, CallReachesItsProcess
<1>2. InstancesInv /\ [Next]_vars => InstancesInv'
  <2> SUFFICES ASSUME InstancesInv, [Next]_vars PROVE InstancesInv'
    OBVIOUS
  <2> USE DEF InstancesInv
  <2>1. InstanceTypes'
    <3>1. InstanceConstants /\ ProcessTypes' /\ CallTypes' /\ op' \in OpType
      BY NextOp, NextProcesses, NextCalls DEF InstanceTypes
    <3>2. op'.step \in Step
      BY <3>1, OpFacts
    <3>3. QED
      BY <3>1, <3>2 DEF InstanceTypes, InstanceConstants, TypeOK, ProcessTypes, CallTypes
  <2>2. QED
    BY <2>1, NextHeld, NextSwitch, NextTransport, NextTrack, NextReaches
<1>3. QED
  BY <1>1, <1>2, PTL DEF Spec

(* However a call is delayed between its lease and the lookup by the       *)
(* plugin's name, it runs on the process whose lease it holds, unless a    *)
(* Stop by name orphaned it.                                               *)
THEOREM CallsReachTheirProcess == InstanceConstants /\ Spec => []CallReachesItsProcess
<1>1. InstancesInv => CallReachesItsProcess
  BY DEF InstancesInv
<1>2. QED
  BY <1>1, AlwaysInstancesInv, PTL

(* Whenever no operation is in progress nobody is barred, and the process  *)
(* the open gate leads to, if alive, is the one the transport names.       *)
THEOREM RegistriesAlwaysMeet == InstanceConstants /\ Spec => []RegistriesMeet
<1>1. InstancesInv => RegistriesMeet
  <2> SUFFICES ASSUME InstancesInv PROVE RegistriesMeet
    OBVIOUS
  <2>1. TypeOK /\ ProcessTypes
    BY TypeParts DEF InstancesInv, InstanceTypes
  <2>2. ASSUME op = Idle
        PROVE  /\ transitioning = {}
               /\ active # None /\ Enters(active, Ordinary) /\ active \in alive => transport = active
    BY <2>1, <2>2 DEF Idle, InstancesInv, SwitchInv, StepInv, TransportInv, Enters, ProcessTypes,
       Ordinary, Cleanup
  <2>3. QED
    BY <2>1, <2>2 DEF RegistriesMeet
<1>2. QED
  BY <1>1, AlwaysInstancesInv, PTL

(* No publication makes a process active that an incident has closed,      *)
(* whatever critical sections the incident falls between.                  *)
THEOREM IncidentsAreFinal == InstanceConstants /\ Spec => QuarantinedNeverActivated
<1>1. InstancesInv /\ [Next]_vars => [\A i \in quarantined : active' = i => active = i]_vars
  <2> SUFFICES ASSUME InstancesInv, Next, NEW i \in quarantined, active' = i PROVE active = i
    BY DEF vars
  <2> USE DEF starterVars, managerVars, gateVars, callVars
  <2>1. ProcessTypes /\ InstanceConstants
    BY TypeParts DEF InstancesInv, InstanceTypes
  <2>2. i \in managed /\ i \in started /\ i # None
    BY <2>1 DEF ProcessTypes, InstanceConstants
  <2>3. CASE CallNext
    BY <2>3 DEF CallNext, AcquireActive, AcquireCleanup, Dispatch, Release, GiveBack
  <2>4. CASE PublishNext
    BY <2>4 DEF PublishNext, PublishBegin, RepublishBegin, PublishTransport, PublishRollback,
       RepublishEnd, PublishCommit, Committable
  <2>5. CASE RemoveNext
    BY <2>2, <2>5 DEF RemoveNext, RemoveBegin, RemoveKill, RemoveForget, RemoveEntry
  <2>6. CASE \/ StopKill \/ StopDeactivate
             \/ \E j \in Instances :
                 Stage(j) \/ Start(j) \/ ProcessExits(j) \/ BeginDrain(j) \/ Resume(j) \/ ForceDrain(j)
             \/ \E incident \in SUBSET managed \ {{}} : Quarantine(incident)
    BY <2>2, <2>6 DEF StopKill, StopDeactivate, Stage, Start, ProcessExits, BeginDrain, Resume, ForceDrain, Quarantine
  <2>7. QED
    BY <2>3, <2>4, <2>5, <2>6 DEF Next
<1>2. QED
  BY <1>1, AlwaysInstancesInv, PTL DEF Spec, QuarantinedNeverActivated

(* No lease is held on the process a removal kills, nor on the one the     *)
(* active pointer leaves for another.                                      *)
THEOREM SwitchesWaitForCalls == InstanceConstants /\ Spec => SwitchesAreQuiet
<1> DEFINE Quiet ==
      /\ op.step = "kill" /\ op' # op => \A i \in alive \ alive' : LeasesOn(i) = {}
      /\ active # None /\ active' \notin {active, None} => LeasesOn(active) = {}
<1>1. InstancesInv /\ [Next]_vars => [Quiet]_vars
  <2> SUFFICES ASSUME InstancesInv, Next PROVE Quiet
    BY DEF vars
  <2> USE DEF starterVars, managerVars, gateVars, callVars, InstancesInv
  <2>1. op \in OpType
    BY TypeParts
  <2>2. CASE CallNext
    BY <2>2 DEF CallNext, AcquireActive, AcquireCleanup, Dispatch, Release, GiveBack
  <2>3. CASE PublishNext
    <3>1. CASE PublishCommit
      <4>1. op.step = "commit" /\ op.source = active
        BY <2>1, <3>1, OpFacts DEF PublishCommit, SwitchInv, PublishingInv
      <4>2. LeasesOn(active) = {}
        BY <4>1 DEF SwitchInv, BarredInv
      <4>3. QED
        BY <3>1, <4>1, <4>2 DEF PublishCommit
    <3>2. CASE ~PublishCommit
      BY <2>3, <3>2 DEF PublishNext, PublishBegin, RepublishBegin, PublishTransport,
         PublishRollback, RepublishEnd
    <3>3. QED
      BY <3>1, <3>2
  <2>4. CASE RemoveNext
    <3>1. ASSUME NEW revoked \in BOOLEAN, RemoveKill(revoked)
          PROVE  Quiet
      BY <3>1 DEF RemoveKill, SwitchInv, StepInv
    <3>2. CASE RemoveForget
      BY <3>2 DEF RemoveForget
    <3>3. CASE \E i \in Instances : RemoveEntry(i) \/ \E discard \in BOOLEAN : RemoveBegin(i, discard)
      BY <3>3 DEF RemoveEntry, RemoveBegin
    <3>4. QED
      BY <2>4, <3>1, <3>2, <3>3 DEF RemoveNext
  <2>5. CASE StopKill
    BY <2>5, OpFacts DEF StopKill, Idle
  <2>6. CASE \/ StopDeactivate
             \/ \E i \in Instances :
                 Stage(i) \/ Start(i) \/ ProcessExits(i) \/ BeginDrain(i) \/ Resume(i) \/ ForceDrain(i)
             \/ \E incident \in SUBSET managed \ {{}} : Quarantine(incident)
    BY <2>6 DEF StopDeactivate, Stage, Start, ProcessExits, BeginDrain, Resume, ForceDrain, Quarantine
  <2>7. QED
    BY <2>2, <2>3, <2>4, <2>5, <2>6 DEF Next
<1>2. QED
  BY <1>1, AlwaysInstancesInv, PTL DEF Spec, SwitchesAreQuiet
=============================================================================
