------------------------ MODULE RuntimeGuardsProofs ------------------------
(***************************************************************************)
(* The three guards around one plugin process, each proved by itself: the  *)
(* admission gate of a runtime, for any sets of calls and waiters; the     *)
(* extension's concurrency gate and circuit breaker, for any callers,      *)
(* gates, slots and threshold; and the database leases, for any starts of  *)
(* the plugin and any times that leave two heartbeats before the expiry.   *)
(***************************************************************************)
EXTENDS RuntimeAdmission, ExtensionGate, RuntimeLease, FiniteSetTheorems, TLAPS

-----------------------------------------------------------------------------
(* THE ADMISSION GATE                                                      *)

(* Which channels are closed: all up to the gate's own when the gate is    *)
(* idle, all before it when it is busy.                                    *)
ChannelInv ==
    /\ closed = IF Active = {} THEN 0..idle ELSE 0..(idle - 1)
    /\ \A w \in Waiters : wait[w] = "select" => waitChan[w] \in 0..idle

(* A seal means the gate is draining now.                                  *)
SealInv == \A w \in Waiters : sealed[w] => draining

AdmissionInv ==
    /\ TypeOK
    /\ ChannelInv
    /\ SealInv
    /\ DrainedIsQuiet
    /\ ForcedReachesEveryCall
    /\ ClosedStaysClosed

LEMMA TypeInit == Init => TypeOK
<1> SUFFICES ASSUME Init PROVE TypeOK
  OBVIOUS
<1>1. /\ draining \in BOOLEAN /\ quarantined \in BOOLEAN /\ forced \in BOOLEAN
      /\ sealed \in [Waiters -> BOOLEAN]
  BY DEF Init
<1>2. /\ lease \in [Calls -> LeaseState] /\ class \in [Calls -> Class]
      /\ cancelled \subseteq Calls /\ drainAdmitted \subseteq Calls
      /\ idle \in Nat /\ closed \subseteq Nat
      /\ wait \in [Waiters -> WaitState] /\ waitChan \in [Waiters -> Nat]
  BY DEF Init, LeaseState, WaitState, Class
<1>3. DrainAdmittedOK
  BY DEF Init, DrainAdmittedOK
<1>4. QED
  BY <1>1, <1>2, <1>3 DEF TypeOK, FieldTypes

LEMMA FieldStep ==
  ASSUME FieldTypes, [Next]_vars
  PROVE  FieldTypes'
<1> USE DEF FieldTypes, LeaseState, WaitState, gateVars, leaseVars, waitVars
<1>1. ASSUME NEW c \in Calls, NEW k \in Class, Acquire(c, k)
      PROVE  FieldTypes'
  BY <1>1 DEF Acquire, IdleChannel
<1>2. ASSUME NEW c \in Calls, ParentCancelled(c) \/ ReleaseBegin(c)
      PROVE  FieldTypes'
  BY <1>2 DEF ParentCancelled, ReleaseBegin
<1>3. ASSUME NEW c \in Calls, ReleaseEnd(c)
      PROVE  FieldTypes'
  BY <1>3 DEF ReleaseEnd, ClosedAfter
<1>4. ASSUME NEW w \in Waiters, WaitBegin(w) \/ WaitWoken(w) \/ WaitTimeout(w)
      PROVE  FieldTypes'
  BY <1>4 DEF WaitBegin, WaitWoken, WaitTimeout
<1>5. ASSUME NEW w \in Waiters, WaitCheck(w)
      PROVE  FieldTypes'
  BY <1>5 DEF WaitCheck
<1>6. ASSUME BeginDrain \/ Quarantine \/ Resume \/ ForceCancel
      PROVE  FieldTypes'
  BY <1>6 DEF BeginDrain, Quarantine, Resume, ForceCancel, Active
<1>7. CASE UNCHANGED vars
  BY <1>7 DEF vars
<1>8. QED
  BY <1>1, <1>2, <1>3, <1>4, <1>5, <1>6, <1>7 DEF Next, LeaseNext, WaitNext

LEMMA DrainAdmittedStep ==
  ASSUME FieldTypes, DrainAdmittedOK, [Next]_vars
  PROVE  DrainAdmittedOK'
<1> USE DEF DrainAdmittedOK, FieldTypes
<1>1. ASSUME NEW c \in Calls, NEW k \in Class, Acquire(c, k)
      PROVE  DrainAdmittedOK'
  BY <1>1 DEF Acquire, Admits
<1>2. ASSUME NEW c \in Calls, ParentCancelled(c) \/ ReleaseBegin(c) \/ ReleaseEnd(c)
      PROVE  DrainAdmittedOK'
  BY <1>2 DEF ParentCancelled, ReleaseBegin, ReleaseEnd
<1>3. ASSUME UNCHANGED <<lease, class, drainAdmitted>>
      PROVE  DrainAdmittedOK'
  BY <1>3
<1>4. ASSUME NEW w \in Waiters, WaitNext(w)
      PROVE  UNCHANGED <<lease, class, drainAdmitted>>
  BY <1>4 DEF WaitNext, WaitBegin, WaitCheck, WaitWoken, WaitTimeout, leaseVars
<1>5. ASSUME BeginDrain \/ Quarantine \/ Resume \/ ForceCancel
      PROVE  UNCHANGED <<lease, class, drainAdmitted>>
  BY <1>5 DEF BeginDrain, Quarantine, Resume, ForceCancel, leaseVars
<1>6. CASE UNCHANGED vars
  BY <1>3, <1>6 DEF vars, leaseVars
<1>7. QED
  BY <1>1, <1>2, <1>3, <1>4, <1>5, <1>6 DEF Next, LeaseNext

(* The fields of the gate keep their types in every reachable state.       *)
THEOREM TypeCorrect == Spec => []TypeOK
<1>1. Init => TypeOK
  BY TypeInit
<1>2. TypeOK /\ [Next]_vars => TypeOK'
  BY FieldStep, DrainAdmittedStep DEF TypeOK
<1>3. QED
  BY <1>1, <1>2, PTL DEF Spec

-----------------------------------------------------------------------------
(* How each operation changes the set of calls inside the gate.            *)
LEMMA AcquireActive ==
  ASSUME TypeOK, NEW c \in Calls, NEW k \in Class, Acquire(c, k)
  PROVE  /\ Active' = Active \cup {c}
         /\ c \notin Active
         /\ ActiveOrdinary' = IF k = Ordinary THEN ActiveOrdinary \cup {c}
                                              ELSE ActiveOrdinary
  BY DEF Acquire, IdleChannel, Active, ActiveOrdinary, TypeOK, FieldTypes, Class, Ordinary, Cleanup

LEMMA ReleaseEndActive ==
  ASSUME TypeOK, NEW c \in Calls, ReleaseEnd(c)
  PROVE  /\ Active' = Active \ {c}
         /\ c \in Active
         /\ ActiveOrdinary' = ActiveOrdinary \ {c}
  BY DEF ReleaseEnd, Active, ActiveOrdinary, TypeOK, FieldTypes, Ordinary

LEMMA ReleaseBeginActive ==
  ASSUME TypeOK, NEW c \in Calls, ReleaseBegin(c)
  PROVE  Active' = Active /\ ActiveOrdinary' = ActiveOrdinary
  BY DEF ReleaseBegin, Active, ActiveOrdinary, TypeOK, FieldTypes, Ordinary

LEMMA SameLeases ==
  ASSUME UNCHANGED <<lease, class>>
  PROVE  Active' = Active /\ ActiveOrdinary' = ActiveOrdinary
  BY DEF Active, ActiveOrdinary

(* The inductive step for the channels: an Acquire into an idle gate opens *)
(* a fresh one, the last release closes the current one.                   *)
LEMMA ChannelStep ==
  ASSUME TypeOK, ChannelInv, [Next]_vars
  PROVE  ChannelInv'
<1> USE DEF ChannelInv
<1>1. ASSUME NEW c \in Calls, NEW k \in Class, Acquire(c, k)
      PROVE  ChannelInv'
  <2>1. Active' # {}
    BY <1>1, AcquireActive
  <2>2. CASE Active = {}
    <3>1. idle' = idle + 1 /\ closed' = 0..idle /\ UNCHANGED <<wait, waitChan>>
      BY <1>1, <2>2 DEF Acquire, IdleChannel, waitVars
    <3>2. QED
      BY <2>1, <3>1 DEF TypeOK, FieldTypes
  <2>3. CASE Active # {}
    <3>1. UNCHANGED <<idle, closed, wait, waitChan>>
      BY <1>1, <2>3 DEF Acquire, IdleChannel, waitVars
    <3>2. QED
      BY <2>1, <2>3, <3>1
  <2>4. QED
    BY <2>2, <2>3
<1>2. ASSUME NEW c \in Calls, ReleaseEnd(c)
      PROVE  ChannelInv'
  <2>1. UNCHANGED <<idle, wait, waitChan>>
    BY <1>2 DEF ReleaseEnd, waitVars
  <2>2. CASE Active = {c}
    <3>1. Active' = {}
      BY <1>2, <2>2, ReleaseEndActive
    <3>2. closed' = (0..(idle - 1)) \cup {idle}
      BY <1>2, <2>2 DEF ReleaseEnd, ClosedAfter
    <3>3. QED
      BY <2>1, <3>1, <3>2 DEF TypeOK, FieldTypes
  <2>3. CASE Active # {c}
    <3>1. Active' # {} /\ Active # {}
      BY <1>2, <2>3, ReleaseEndActive
    <3>2. closed' = closed
      BY <1>2, <2>3 DEF ReleaseEnd, ClosedAfter
    <3>3. QED
      BY <2>1, <3>1, <3>2
  <2>4. QED
    BY <2>2, <2>3
<1>3. ASSUME NEW c \in Calls, ReleaseBegin(c)
      PROVE  ChannelInv'
  BY <1>3, ReleaseBeginActive DEF ReleaseBegin, waitVars
<1>4. ASSUME NEW c \in Calls, ParentCancelled(c)
      PROVE  ChannelInv'
  BY <1>4, SameLeases DEF ParentCancelled, waitVars
<1>5. ASSUME NEW w \in Waiters, WaitBegin(w) \/ WaitWoken(w) \/ WaitTimeout(w)
      PROVE  ChannelInv'
  BY <1>5, SameLeases DEF WaitBegin, WaitWoken, WaitTimeout, leaseVars, TypeOK, FieldTypes
<1>6. ASSUME NEW w \in Waiters, WaitCheck(w)
      PROVE  ChannelInv'
  BY <1>6, SameLeases DEF WaitCheck, leaseVars, TypeOK, FieldTypes
<1>7. ASSUME BeginDrain \/ Quarantine \/ Resume \/ ForceCancel
      PROVE  ChannelInv'
  BY <1>7, SameLeases DEF BeginDrain, Quarantine, Resume, ForceCancel, leaseVars, waitVars
<1>8. CASE UNCHANGED vars
  BY <1>8, SameLeases DEF vars, leaseVars, waitVars
<1>9. QED
  BY <1>1, <1>2, <1>3, <1>4, <1>5, <1>6, <1>7, <1>8 DEF Next, LeaseNext, WaitNext

(* Each of the properties is carried by the invariant across every step.   *)
LEMMA AdmissionStep ==
  ASSUME AdmissionInv, TypeOK', [Next]_vars
  PROVE  AdmissionInv'
<1> USE DEF AdmissionInv, SealInv, DrainedIsQuiet, ForcedReachesEveryCall,
            ClosedStaysClosed
<1>0. ChannelInv' /\ DrainAdmittedOK'
  BY ChannelStep DEF TypeOK
<1>1. ASSUME NEW c \in Calls, NEW k \in Class, Acquire(c, k)
      PROVE  AdmissionInv'
  <2>1. /\ UNCHANGED <<draining, quarantined, forced, cancelled, wait, sealed>>
        /\ ~forced
        /\ draining => k = Cleanup
        /\ drainAdmitted' = IF draining THEN drainAdmitted \cup {c} ELSE drainAdmitted
    BY <1>1 DEF Acquire, Admits, gateVars, waitVars
  <2>2. /\ Active' = Active \cup {c}
        /\ ActiveOrdinary' = IF k = Ordinary THEN ActiveOrdinary \cup {c} ELSE ActiveOrdinary
    BY <1>1, AcquireActive
  <2>3. Ordinary # Cleanup
    BY DEF Ordinary, Cleanup
  <2>4. DrainedIsQuiet'
    BY <2>1, <2>2, <2>3
  <2>5. c \notin drainAdmitted
    BY <1>1 DEF Acquire, DrainAdmittedOK, TypeOK
  <2>6. ClosedStaysClosed'
    BY <2>1, <2>2, <2>5
  <2>7. QED
    BY <1>0, <2>1, <2>4, <2>6
<1>2. ASSUME NEW c \in Calls, ReleaseEnd(c)
      PROVE  AdmissionInv'
  <2>1. UNCHANGED <<draining, quarantined, forced, cancelled, drainAdmitted, wait, sealed>>
    BY <1>2 DEF ReleaseEnd, gateVars, waitVars
  <2>2. Active' \subseteq Active /\ ActiveOrdinary' \subseteq ActiveOrdinary
    BY <1>2, ReleaseEndActive
  <2>3. QED
    BY <1>0, <2>1, <2>2
<1>3. ASSUME NEW c \in Calls, ReleaseBegin(c) \/ ParentCancelled(c)
      PROVE  AdmissionInv'
  <2>1. /\ UNCHANGED <<draining, quarantined, forced, drainAdmitted, wait, sealed>>
        /\ cancelled \subseteq cancelled'
    BY <1>3 DEF ReleaseBegin, ParentCancelled, gateVars, waitVars
  <2>2. Active' = Active /\ ActiveOrdinary' = ActiveOrdinary
    <3>1. CASE ReleaseBegin(c)
      BY <3>1, ReleaseBeginActive
    <3>2. CASE ParentCancelled(c)
      BY <3>2, SameLeases DEF ParentCancelled
    <3>3. QED
      BY <1>3, <3>1, <3>2
  <2>3. QED
    BY <1>0, <2>1, <2>2
<1>4. ASSUME NEW w \in Waiters, WaitBegin(w) \/ WaitWoken(w) \/ WaitTimeout(w)
      PROVE  AdmissionInv'
  <2>1. /\ UNCHANGED <<draining, quarantined, forced, cancelled, drainAdmitted>>
        /\ Active' = Active /\ ActiveOrdinary' = ActiveOrdinary
    BY <1>4, SameLeases DEF WaitBegin, WaitWoken, WaitTimeout, gateVars, leaseVars
  <2>2. SealInv'
    BY <1>4, <2>1 DEF WaitBegin, WaitWoken, WaitTimeout, TypeOK, FieldTypes
  <2>3. DrainedIsQuiet'
    BY <1>4, <2>1 DEF WaitBegin, WaitWoken, WaitTimeout, TypeOK, FieldTypes
  <2>4. QED
    BY <1>0, <2>1, <2>2, <2>3
<1>5. ASSUME NEW w \in Waiters, WaitCheck(w)
      PROVE  AdmissionInv'
  <2>1. /\ UNCHANGED <<draining, quarantined, forced, cancelled, drainAdmitted, sealed>>
        /\ Active' = Active /\ ActiveOrdinary' = ActiveOrdinary
    BY <1>5, SameLeases DEF WaitCheck, gateVars, leaseVars
  <2>2. ActiveOrdinary \subseteq Active
    BY DEF ActiveOrdinary
  <2>3. DrainedIsQuiet'
    BY <1>5, <2>1, <2>2 DEF WaitCheck, TypeOK, FieldTypes
  <2>4. QED
    BY <1>0, <2>1, <2>3
<1>6. ASSUME BeginDrain \/ Quarantine
      PROVE  AdmissionInv'
  <2>1. /\ draining' = TRUE
        /\ UNCHANGED <<forced, cancelled, drainAdmitted, wait, sealed>>
        /\ Active' = Active /\ ActiveOrdinary' = ActiveOrdinary
    BY <1>6, SameLeases DEF BeginDrain, Quarantine, leaseVars, waitVars
  <2>2. QED
    BY <1>0, <2>1
<1>7. ASSUME ForceCancel
      PROVE  AdmissionInv'
  <2>1. /\ draining' = TRUE
        /\ UNCHANGED <<drainAdmitted, wait, sealed>>
        /\ cancelled' = cancelled \cup Active
        /\ Active' = Active /\ ActiveOrdinary' = ActiveOrdinary
    BY <1>7, SameLeases DEF ForceCancel, waitVars
  <2>2. QED
    BY <1>0, <2>1
<1>8. ASSUME Resume
      PROVE  AdmissionInv'
  <2>1. /\ ~forced /\ ~quarantined /\ ActiveCleanup = {}
        /\ UNCHANGED <<quarantined, forced, cancelled, drainAdmitted, wait>>
        /\ Active' = Active /\ ActiveOrdinary' = ActiveOrdinary
        /\ \A w \in Waiters : ~sealed'[w]
    BY <1>8, SameLeases DEF Resume, Resumable, leaseVars
  <2>2. Active \cap drainAdmitted = {}
    BY <2>1 DEF ActiveCleanup, DrainAdmittedOK, TypeOK
  <2>3. QED
    BY <1>0, <2>1, <2>2
<1>9. CASE UNCHANGED vars
  BY <1>0, <1>9, SameLeases DEF vars, gateVars, leaseVars, waitVars
<1>10. QED
  BY <1>1, <1>2, <1>3, <1>4, <1>5, <1>6, <1>7, <1>8, <1>9 DEF Next, LeaseNext, WaitNext

LEMMA AdmissionInit == Init => AdmissionInv
<1> SUFFICES ASSUME Init PROVE AdmissionInv
  OBVIOUS
<1>1. TypeOK
  BY TypeInit
<1>2. Active = {}
  BY DEF Init, Active
<1>3. ChannelInv
  BY <1>2 DEF Init, ChannelInv
<1>4. ActiveOrdinary = {}
  BY <1>2 DEF ActiveOrdinary
<1>5. /\ SealInv /\ DrainedIsQuiet /\ ForcedReachesEveryCall
      /\ ClosedStaysClosed
  BY <1>2, <1>4 DEF Init, SealInv, DrainedIsQuiet, ForcedReachesEveryCall, ClosedStaysClosed
<1>6. QED
  BY <1>1, <1>3, <1>5 DEF AdmissionInv

LEMMA AdmissionKeeps == AdmissionInv /\ [Next]_vars => AdmissionInv'
<1>1. AdmissionInv /\ [Next]_vars => TypeOK'
  BY FieldStep, DrainAdmittedStep DEF TypeOK, AdmissionInv
<1>2. QED
  BY <1>1, AdmissionStep

(* The whole inductive invariant holds in every reachable state.           *)
THEOREM AdmissionCorrect == Spec => []AdmissionInv
BY AdmissionInit, AdmissionKeeps, PTL DEF Spec

(* A Wait that returned nil on a gate that was draining when it began, and *)
(* that nobody resumed, leaves no ordinary call inside.                    *)
THEOREM DrainSafety == Spec => []DrainedIsQuiet
<1>1. AdmissionInv => DrainedIsQuiet
  BY DEF AdmissionInv
<1>2. QED
  BY <1>1, AdmissionCorrect, PTL

(* No waiter sleeps on an abandoned channel and none is closed twice.      *)
THEOREM WakeupSafety == Spec => []NoLostWakeup
<1>1. AdmissionInv => NoLostWakeup
  BY DEF AdmissionInv, ChannelInv, NoLostWakeup, TypeOK, FieldTypes
<1>2. QED
  BY <1>1, AdmissionCorrect, PTL

(* Forced cancellation reaches every call inside the gate, for ever.       *)
THEOREM ForceSafety == Spec => []ForcedReachesEveryCall
<1>1. AdmissionInv => ForcedReachesEveryCall
  BY DEF AdmissionInv
<1>2. QED
  BY <1>1, AdmissionCorrect, PTL

(* Quarantine and force keep the gate shut, and cleanup that entered a     *)
(* draining gate keeps it draining.                                        *)
THEOREM ClosureSafety == Spec => []ClosedStaysClosed
<1>1. AdmissionInv => ClosedStaysClosed
  BY DEF AdmissionInv
<1>2. QED
  BY <1>1, AdmissionCorrect, PTL

-----------------------------------------------------------------------------
(* THE CONCURRENCY GATE AND THE CIRCUIT BREAKER                            *)

(* Callers are goroutines, finitely many; the slots and the threshold are  *)
(* numbers; a plugin without a gate is told from one with a gate.          *)
GateConstants ==
    /\ IsFiniteSet(Callers) /\ NoGate \notin Gates
    /\ FailureThreshold \in Nat /\ MaxConcurrent \in Nat

Inside == {"waiting", "slot", "running", "freed"}

GateTypes ==
    /\ GateConstants
    /\ hub \in Gates \cup {NoGate}
    /\ pc \in [Callers -> {"out", "leased"} \cup Inside]
    /\ entered \in [Callers -> Gates \cup {NoGate}]
    /\ gate \in [Gates -> [circuit : {"closed", "open", "cooled"}, fails : Nat,
                           activeCalls : Nat, tripped : BOOLEAN]]
    /\ queued \subseteq Callers

(* A call knows its gate exactly from the look at the circuit on until its *)
(* lease is returned: no gate is made afresh under a call inside it.       *)
EnteredInv == \A c \in Callers : entered[c] \in Gates <=> pc[c] \in Inside

(* Whoever waits at an open circuit was there when it opened.              *)
QueuedInv ==
    \A c \in Callers :
        pc[c] = "waiting" /\ gate[entered[c]].circuit = "open" => c \in queued

(* The count of failures stands at the threshold until a success.          *)
TrippedInv == \A g \in Gates : gate[g].tripped => gate[g].fails >= FailureThreshold

GateInv == GateTypes /\ EnteredInv /\ ActiveCallsExact /\ QueuedInv /\ TrippedInv

LEMMA NewGateFacts ==
  /\ NewGate \in [circuit : {"closed", "open", "cooled"}, fails : Nat, activeCalls : Nat, tripped : BOOLEAN]
  /\ NewGate.circuit = "closed" /\ NewGate.fails = 0 /\ NewGate.activeCalls = 0 /\ ~NewGate.tripped
BY DEF NewGate

(* What an outcome does to a gate: the type, one call less, a threshold    *)
(* that has been reached stays reached until a success.                    *)
LEMMA OutcomeFacts ==
  ASSUME GateInv, NEW g \in Gates, NEW success \in BOOLEAN
  PROVE  /\ Outcome(g, success) \in [circuit : {"closed", "open", "cooled"}, fails : Nat,
                                     activeCalls : Nat, tripped : BOOLEAN]
         /\ gate[g].activeCalls > 0 => Outcome(g, success).activeCalls = gate[g].activeCalls - 1
         /\ Outcome(g, success).tripped => Outcome(g, success).fails >= FailureThreshold
         /\ gate[g].tripped /\ Outcome(g, success).fails # 0 => Outcome(g, success).circuit = "open"
<1> DEFINE f == IF gate[g].fails < FailureThreshold THEN gate[g].fails + 1 ELSE gate[g].fails
<1> DEFINE out == Outcome(g, success)
<1>1. /\ gate[g] \in [circuit : {"closed", "open", "cooled"}, fails : Nat, activeCalls : Nat, tripped : BOOLEAN]
      /\ FailureThreshold \in Nat
      /\ gate[g].tripped => gate[g].fails >= FailureThreshold
  BY DEF GateInv, GateTypes, GateConstants, TrippedInv
<1>2. /\ gate[g].fails \in Nat /\ gate[g].activeCalls \in Nat
      /\ gate[g].circuit \in {"closed", "open", "cooled"} /\ gate[g].tripped \in BOOLEAN
  BY <1>1
<1>3. f \in Nat /\ (gate[g].tripped => f >= FailureThreshold)
  BY <1>1, <1>2
<1>4. /\ out = [circuit |-> out.circuit, fails |-> out.fails,
                 activeCalls |-> out.activeCalls, tripped |-> out.tripped]
      /\ out.circuit = IF success THEN "closed" ELSE IF f >= FailureThreshold THEN "open" ELSE gate[g].circuit
      /\ out.fails = IF success THEN 0 ELSE f
      /\ out.activeCalls = IF gate[g].activeCalls > 0 THEN gate[g].activeCalls - 1 ELSE 0
      /\ out.tripped = (~success /\ (gate[g].tripped \/ f >= FailureThreshold))
  BY DEF Outcome
<1> HIDE DEF f, out
<1>5. out.circuit \in {"closed", "open", "cooled"} /\ out.fails \in Nat
  BY <1>2, <1>3, <1>4
<1>6. out.activeCalls \in Nat /\ (gate[g].activeCalls > 0 => out.activeCalls = gate[g].activeCalls - 1)
  BY <1>2, <1>4
<1>7. out.tripped \in BOOLEAN
  BY <1>4
<1>8. out.tripped => out.fails >= FailureThreshold
  BY <1>3, <1>4
<1>9. gate[g].tripped /\ out.fails # 0 => out.circuit = "open"
  BY <1>3, <1>4
<1>10. out \in [circuit : {"closed", "open", "cooled"}, fails : Nat, activeCalls : Nat, tripped : BOOLEAN]
  BY <1>4, <1>5, <1>6, <1>7
<1>11. QED
  BY <1>6, <1>8, <1>9, <1>10 DEF out

LEMMA GateInit == GateConstants /\ HubInit => GateInv
<1> SUFFICES ASSUME GateConstants, HubInit PROVE GateInv
  OBVIOUS
<1>1. \A g \in Gates : Callees({"running", "freed"}, g) = {}
  BY DEF HubInit, Callees
<1>2. QED
  BY <1>1, NewGateFacts, FS_EmptySet
     DEF HubInit, GateInv, GateTypes, GateConstants, Inside, EnteredInv, ActiveCallsExact, QueuedInv, TrippedInv

(* The calls inside a gate are finitely many; a set of them that gains or  *)
(* loses one call gains or loses one in number.                            *)
LEMMA CalleesCount ==
  ASSUME GateInv, NEW steps, NEW g
  PROVE  /\ IsFiniteSet(Callees(steps, g))
         /\ Cardinality(Callees(steps, g)) \in Nat
<1>1. Callees(steps, g) \subseteq Callers /\ IsFiniteSet(Callers)
  BY DEF Callees, GateInv, GateTypes, GateConstants
<1>2. QED
  BY <1>1, FS_Subset, FS_CardinalityType

(* Only the gates' own fields and the sets of running and accounted calls  *)
(* matter to the count.                                                    *)
LEMMA CountUnchanged ==
  ASSUME GateInv, \A g \in Gates : Callees({"running", "freed"}, g)' = Callees({"running", "freed"}, g),
         \A g \in Gates : \/ gate'[g].activeCalls = gate[g].activeCalls
                          \/ gate'[g] = NewGate /\ Callees({"running", "freed"}, g) = {}
  PROVE  ActiveCallsExact'
<1>1. ActiveCallsExact
  BY DEF GateInv
<1>2. ASSUME NEW g \in Gates
      PROVE  gate'[g].activeCalls = Cardinality(Callees({"running", "freed"}, g)')
  BY <1>1, <1>2, NewGateFacts, FS_EmptySet DEF ActiveCallsExact
<1>3. QED
  BY <1>2 DEF ActiveCallsExact

LEMMA GateStep == GateInv /\ [HubNext]_hubVars => GateInv'
<1> SUFFICES ASSUME GateInv, [HubNext]_hubVars PROVE GateInv'
  OBVIOUS
<1> DEFINE Counted(g) == Callees({"running", "freed"}, g)
<1>0. /\ GateTypes /\ EnteredInv /\ ActiveCallsExact /\ QueuedInv /\ TrippedInv
      /\ NoGate \notin Gates /\ IsFiniteSet(Callers) /\ FailureThreshold \in Nat
  BY DEF GateInv, GateTypes, GateConstants
<1> USE <1>0
<1>1. ASSUME NEW c \in Callers, TakeLease(c) PROVE GateInv'
  <2>1. GateTypes' /\ EnteredInv'
    BY <1>1 DEF TakeLease, GateTypes, GateConstants, EnteredInv, Inside
  <2>2. \A g \in Gates : Counted(g)' = Counted(g)
    BY <1>1 DEF TakeLease, Callees, GateTypes
  <2>3. ActiveCallsExact'
    BY <1>1, <2>2, CountUnchanged DEF TakeLease
  <2>4. QueuedInv' /\ TrippedInv'
    BY <1>1 DEF TakeLease, QueuedInv, TrippedInv, GateTypes
  <2>5. QED
    BY <2>1, <2>3, <2>4 DEF GateInv
<1>2. ASSUME NEW c \in Callers, NEW g \in Gates, LookAtCircuit(c, g) PROVE GateInv'
  <2>1. CASE Rejects(g)
    <3>1. pc' = [pc EXCEPT ![c] = "out"] /\ UNCHANGED <<entered, gate, queued>> /\ pc[c] = "leased" /\ hub' = g
      BY <1>2, <2>1 DEF LookAtCircuit, LeaseReturned
    <3>2. GateTypes' /\ EnteredInv'
      BY <3>1 DEF GateTypes, GateConstants, EnteredInv, Inside
    <3>3. \A h \in Gates : Counted(h)' = Counted(h)
      BY <3>1 DEF Callees, GateTypes
    <3>4. ActiveCallsExact'
      BY <3>1, <3>3, CountUnchanged
    <3>5. QueuedInv' /\ TrippedInv'
      BY <3>1 DEF QueuedInv, TrippedInv, GateTypes
    <3>6. QED
      BY <3>2, <3>4, <3>5 DEF GateInv
  <2>2. CASE ~Rejects(g)
    <3>1. /\ pc' = [pc EXCEPT ![c] = "waiting"] /\ entered' = [entered EXCEPT ![c] = g]
          /\ gate' = [gate EXCEPT ![g] = HalfOpened(g)] /\ queued' = queued
          /\ pc[c] = "leased" /\ hub' = g /\ gate[g].circuit # "open"
      BY <1>2, <2>2 DEF LookAtCircuit, Rejects
    <3>2. /\ gate'[g] \in [circuit : {"closed", "open", "cooled"}, fails : Nat, activeCalls : Nat, tripped : BOOLEAN]
          /\ gate'[g].circuit = "closed"
          /\ gate'[g].fails = gate[g].fails /\ gate'[g].activeCalls = gate[g].activeCalls
          /\ gate'[g].tripped = gate[g].tripped
          /\ \A h \in Gates \ {g} : gate'[h] = gate[h]
      BY <3>1 DEF HalfOpened, GateTypes
    <3>3. GateTypes'
      BY <3>1, <3>2 DEF GateTypes, GateConstants, Inside
    <3>4. EnteredInv'
      BY <3>1, <1>0 DEF EnteredInv, GateTypes, Inside
    <3>5. \A h \in Gates : Counted(h)' = Counted(h)
      <4>1. entered[c] \notin Gates
        BY <3>1 DEF EnteredInv, Inside
      <4>2. QED
        BY <3>1, <4>1 DEF Callees, GateTypes
    <3>6. ActiveCallsExact'
      BY <3>2, <3>5, CountUnchanged
    <3>7. QueuedInv'
      <4>1. \A d \in Callers \ {c} : pc[d] = "waiting" => entered[d] \in Gates
        BY DEF EnteredInv, Inside
      <4>2. QED
        BY <3>1, <3>2, <4>1 DEF QueuedInv, GateTypes
    <3>8. TrippedInv'
      BY <3>2 DEF TrippedInv
    <3>9. QED
      BY <3>3, <3>4, <3>6, <3>7, <3>8 DEF GateInv
  <2>3. QED
    BY <2>1, <2>2
<1>3. ASSUME NEW c \in Callers, TakeSlot(c) PROVE GateInv'
  <2>1. GateTypes' /\ EnteredInv'
    BY <1>3 DEF TakeSlot, GateTypes, GateConstants, EnteredInv, Inside
  <2>2. \A g \in Gates : Counted(g)' = Counted(g)
    BY <1>3 DEF TakeSlot, Callees, GateTypes
  <2>3. ActiveCallsExact'
    BY <1>3, <2>2, CountUnchanged DEF TakeSlot
  <2>4. QueuedInv' /\ TrippedInv'
    BY <1>3 DEF TakeSlot, QueuedInv, TrippedInv, GateTypes
  <2>5. QED
    BY <2>1, <2>3, <2>4 DEF GateInv
<1>4. ASSUME NEW c \in Callers, TimeOut(c) PROVE GateInv'
  <2>1. PICK g \in Gates : g = entered[c] /\ pc[c] = "waiting"
    BY <1>4 DEF TimeOut, EnteredInv, Inside
  <2>2. /\ pc' = [pc EXCEPT ![c] = "out"] /\ entered' = [entered EXCEPT ![c] = NoGate]
        /\ queued' = queued \ {c} /\ hub' = hub
        /\ gate' = [gate EXCEPT ![g] = Collected(g, {c}, gate[g])]
    BY <1>4, <2>1 DEF TimeOut, GateTypes
  <2>3. \A h \in Gates : Counted(h)' = Counted(h)
    BY <2>1, <2>2, <1>0 DEF Callees, GateTypes
  <2>4. \A h \in Gates : \/ gate'[h] = gate[h]
                         \/ gate'[h] = NewGate /\ h = g /\ \A d \in Callers \ {c} : entered[d] # h
    BY <2>1, <2>2 DEF Collected, GateTypes
  <2>5. GateTypes'
    BY <2>1, <2>2, <2>4, NewGateFacts DEF GateTypes, GateConstants, Inside
  <2>6. EnteredInv'
    BY <2>1, <2>2, <1>0 DEF EnteredInv, GateTypes, Inside
  <2>7. ActiveCallsExact'
    <3>1. \A h \in Gates : gate'[h] # gate[h] => Counted(h) = {}
      BY <2>1, <2>4 DEF Callees
    <3>2. QED
      BY <2>3, <2>4, <3>1, CountUnchanged
  <2>8. QueuedInv' /\ TrippedInv'
    <3>1. \A d \in Callers \ {c} : pc[d] = "waiting" => entered[d] \in Gates
      BY DEF EnteredInv, Inside
    <3>2. QED
      BY <2>2, <2>4, <3>1, NewGateFacts DEF QueuedInv, TrippedInv, GateTypes
  <2>9. QED
    BY <2>5, <2>6, <2>7, <2>8 DEF GateInv
<1>5. ASSUME NEW c \in Callers, CountActive(c) PROVE GateInv'
  <2>1. PICK g \in Gates :
        /\ g = entered[c] /\ pc[c] = "slot" /\ pc' = [pc EXCEPT ![c] = "running"]
        /\ gate' = [gate EXCEPT ![g].activeCalls = @ + 1] /\ UNCHANGED <<hub, entered, queued>>
    BY <1>5 DEF CountActive, EnteredInv, Inside
  <2>2. /\ gate'[g].activeCalls = gate[g].activeCalls + 1
        /\ \A h \in Gates : /\ gate'[h].circuit = gate[h].circuit /\ gate'[h].fails = gate[h].fails
                            /\ gate'[h].tripped = gate[h].tripped
        /\ \A h \in Gates \ {g} : gate'[h] = gate[h]
    BY <2>1 DEF GateTypes
  <2>3. GateTypes' /\ EnteredInv'
    BY <2>1 DEF GateTypes, GateConstants, EnteredInv, Inside
  <2>4. ActiveCallsExact'
    <3>1. /\ Counted(g)' = Counted(g) \cup {c} /\ c \notin Counted(g)
          /\ \A h \in Gates \ {g} : Counted(h)' = Counted(h)
      BY <2>1 DEF Callees, GateTypes
    <3>2. Cardinality(Counted(g) \cup {c}) = Cardinality(Counted(g)) + 1
      BY <3>1, CalleesCount, FS_AddElement
    <3>3. QED
      BY <2>2, <3>1, <3>2 DEF ActiveCallsExact
  <2>5. QueuedInv' /\ TrippedInv'
    <3>1. \A d \in Callers : pc[d] = "waiting" => entered[d] \in Gates
      BY DEF EnteredInv, Inside
    <3>2. QED
      BY <2>1, <2>2, <3>1 DEF QueuedInv, TrippedInv, GateTypes
  <2>6. QED
    BY <2>3, <2>4, <2>5 DEF GateInv
<1>6. ASSUME NEW c \in Callers, FreeTheSlot(c) PROVE GateInv'
  <2>1. GateTypes' /\ EnteredInv'
    BY <1>6 DEF FreeTheSlot, GateTypes, GateConstants, EnteredInv, Inside
  <2>2. \A g \in Gates : Counted(g)' = Counted(g)
    BY <1>6 DEF FreeTheSlot, Callees, GateTypes
  <2>3. ActiveCallsExact'
    BY <1>6, <2>2, CountUnchanged DEF FreeTheSlot
  <2>4. QueuedInv' /\ TrippedInv'
    BY <1>6 DEF FreeTheSlot, QueuedInv, TrippedInv, GateTypes
  <2>5. QED
    BY <2>1, <2>3, <2>4 DEF GateInv
<1>7. ASSUME NEW c \in Callers, NEW success \in BOOLEAN, Account(c, success) PROVE GateInv'
  <2>0. PICK g \in Gates : g = entered[c]
    BY <1>7 DEF Account, EnteredInv, Inside
  <2> DEFINE out == Outcome(g, success)
  <2>1. /\ g = entered[c] /\ pc[c] = "freed"
        /\ pc' = [pc EXCEPT ![c] = "out"] /\ entered' = [entered EXCEPT ![c] = NoGate] /\ hub' = hub
        /\ gate' = [gate EXCEPT ![g] = Collected(g, {c}, out)]
        /\ queued' = IF out.circuit = "open" THEN queued \cup Callees({"waiting"}, g) ELSE queued
    BY <1>7, <2>0 DEF Account, AccountedIn
  <2>2. /\ c \in Counted(g) /\ IsFiniteSet(Counted(g)) /\ Cardinality(Counted(g)) \in Nat
        /\ gate[g].activeCalls = Cardinality(Counted(g))
    <3>1. IsFiniteSet(Counted(g)) /\ Cardinality(Counted(g)) \in Nat
      BY CalleesCount
    <3>2. c \in Counted(g)
      BY <2>1 DEF Callees
    <3>3. QED
      BY <3>1, <3>2 DEF ActiveCallsExact
  <2>3. Cardinality(Counted(g) \ {c}) = Cardinality(Counted(g)) - 1 /\ gate[g].activeCalls > 0
    <3> HIDE DEF Counted
    <3>1. Cardinality(Counted(g)) # 0
      BY <2>2, FS_EmptySet
    <3>2. Cardinality(Counted(g) \ {c}) = Cardinality(Counted(g)) - 1
      BY ONLY <2>2, FS_RemoveElement
    <3>3. QED
      BY <2>2, <3>1, <3>2
  <2>4. /\ out \in [circuit : {"closed", "open", "cooled"}, fails : Nat, activeCalls : Nat, tripped : BOOLEAN]
        /\ out.activeCalls = Cardinality(Counted(g) \ {c})
        /\ out.tripped => out.fails >= FailureThreshold
    BY <2>1, <2>2, <2>3, OutcomeFacts
  <2> HIDE DEF out
  <2>5. /\ \A h \in Gates \ {g} : gate'[h] = gate[h]
        /\ \/ gate'[g] = out
           \/ gate'[g] = NewGate /\ \A d \in Callers \ {c} : entered[d] # g
    BY <2>1 DEF Collected, GateTypes
  <2>6. GateTypes'
    <3>1. gate' \in [Gates -> [circuit : {"closed", "open", "cooled"}, fails : Nat, activeCalls : Nat, tripped : BOOLEAN]]
      BY <2>1, <2>4, <2>5, NewGateFacts DEF GateTypes
    <3>2. queued' \subseteq Callers
      BY <2>1 DEF GateTypes, Callees
    <3>3. QED
      BY <2>1, <3>1, <3>2 DEF GateTypes, GateConstants, Inside
  <2>7. EnteredInv'
    BY <2>1, <1>0 DEF EnteredInv, GateTypes, Inside
  <2>8. ActiveCallsExact'
    <3>1. /\ Counted(g)' = Counted(g) \ {c}
          /\ \A h \in Gates \ {g} : Counted(h)' = Counted(h)
      BY <2>1, <1>0 DEF Callees, GateTypes
    <3>2. (\A d \in Callers \ {c} : entered[d] # g) => Counted(g) \ {c} = {}
      BY DEF Callees
    <3>3. gate'[g].activeCalls = Cardinality(Counted(g) \ {c})
      BY <2>4, <2>5, <3>2, NewGateFacts, FS_EmptySet
    <3>4. QED
      BY <2>5, <3>1, <3>3 DEF ActiveCallsExact
  <2>9. QueuedInv'
    <3> SUFFICES ASSUME NEW d \in Callers, pc'[d] = "waiting", gate'[entered'[d]].circuit = "open"
                 PROVE  d \in queued'
      BY DEF QueuedInv
    <3>1. d # c /\ pc[d] = "waiting" /\ entered'[d] = entered[d] /\ entered[d] \in Gates
      BY <2>1 DEF EnteredInv, GateTypes, Inside
    <3>2. CASE entered[d] = g
      <4>1. gate'[g] = out
        BY <2>5, <3>1, <3>2
      <4>2. QED
        BY <2>1, <3>1, <3>2, <4>1 DEF Callees
    <3>3. CASE entered[d] # g
      BY <2>1, <2>5, <3>1, <3>3 DEF QueuedInv
    <3>4. QED
      BY <3>2, <3>3
  <2>10. TrippedInv'
    BY <2>4, <2>5, NewGateFacts DEF TrippedInv
  <2>11. QED
    BY <2>6, <2>7, <2>8, <2>9, <2>10 DEF GateInv
<1>8. ASSUME NEW g \in Gates, CoolDown(g) PROVE GateInv'
  <2>1. /\ gate' = [gate EXCEPT ![g].circuit = "cooled"] /\ UNCHANGED <<hub, pc, entered, queued>>
    BY <1>8 DEF CoolDown
  <2>2. /\ gate'[g].circuit = "cooled"
        /\ \A h \in Gates : /\ gate'[h].activeCalls = gate[h].activeCalls /\ gate'[h].fails = gate[h].fails
                            /\ gate'[h].tripped = gate[h].tripped
        /\ \A h \in Gates \ {g} : gate'[h] = gate[h]
    BY <2>1 DEF GateTypes
  <2>3. GateTypes' /\ EnteredInv'
    BY <2>1 DEF GateTypes, GateConstants, EnteredInv, Inside
  <2>4. \A h \in Gates : Counted(h)' = Counted(h)
    BY <2>1 DEF Callees
  <2>5. ActiveCallsExact'
    BY <2>2, <2>4, CountUnchanged
  <2>6. QueuedInv' /\ TrippedInv'
    <3>1. \A d \in Callers : pc[d] = "waiting" => entered[d] \in Gates
      BY DEF EnteredInv, Inside
    <3>2. QED
      BY <2>1, <2>2, <3>1 DEF QueuedInv, TrippedInv, GateTypes
  <2>7. QED
    BY <2>3, <2>5, <2>6 DEF GateInv
<1>9. ASSUME Remove PROVE GateInv'
  <2>1. UNCHANGED <<pc, entered, queued>> /\ hub' = NoGate /\ hub \in Gates
    BY <1>9 DEF Remove, GateTypes
  <2>2. \A h \in Gates : \/ gate'[h] = gate[h]
                         \/ gate'[h] = NewGate /\ \A d \in Callers : entered[d] # h
    BY <1>9, <2>1 DEF Remove, GateTypes
  <2>3. gate' \in [Gates -> [circuit : {"closed", "open", "cooled"}, fails : Nat, activeCalls : Nat, tripped : BOOLEAN]]
    BY <1>9, <2>1, NewGateFacts DEF Remove, GateTypes
  <2>4. GateTypes' /\ EnteredInv'
    BY <2>1, <2>3 DEF GateTypes, GateConstants, EnteredInv, Inside
  <2>5. \A h \in Gates : Counted(h)' = Counted(h) /\ (gate'[h] # gate[h] => Counted(h) = {})
    BY <2>1, <2>2 DEF Callees
  <2>6. ActiveCallsExact'
    BY <2>2, <2>5, CountUnchanged
  <2>7. QueuedInv' /\ TrippedInv'
    <3>1. \A d \in Callers : pc[d] = "waiting" => entered[d] \in Gates
      BY DEF EnteredInv, Inside
    <3>2. QED
      BY <2>1, <2>2, <3>1, NewGateFacts DEF QueuedInv, TrippedInv
  <2>8. QED
    BY <2>4, <2>6, <2>7 DEF GateInv
<1>10. CASE UNCHANGED hubVars
  BY <1>10 DEF GateInv, hubVars, GateTypes, GateConstants, EnteredInv, ActiveCallsExact, QueuedInv, TrippedInv, Callees
<1>11. QED
  BY <1>1, <1>2, <1>3, <1>4, <1>5, <1>6, <1>7, <1>8, <1>9, <1>10 DEF HubNext, CallStep

(* No more calls hold a slot than there are, and failures are counted no   *)
(* further than the threshold.                                             *)
BoundInv ==
    \A g \in Gates : gate[g].fails <= FailureThreshold /\ Cardinality(Slots(g)) <= MaxConcurrent

LEMMA SlotsShrink ==
  ASSUME GateInv, NEW g \in Gates, Slots(g)' \subseteq Slots(g), Cardinality(Slots(g)) <= MaxConcurrent
  PROVE  Cardinality(Slots(g)') <= MaxConcurrent
<1>1. IsFiniteSet(Slots(g)) /\ Cardinality(Slots(g)) \in Nat
  BY CalleesCount DEF Slots
<1>2. /\ IsFiniteSet(Slots(g)') /\ Cardinality(Slots(g)') <= Cardinality(Slots(g))
      /\ Cardinality(Slots(g)') \in Nat
  BY <1>1, FS_Subset, FS_CardinalityType
<1>3. QED
  BY <1>1, <1>2 DEF GateInv, GateTypes, GateConstants

LEMMA BoundStep == ASSUME GateInv, GateInv', BoundInv, [HubNext]_hubVars PROVE BoundInv'
<1>0. /\ GateTypes /\ EnteredInv /\ FailureThreshold \in Nat /\ MaxConcurrent \in Nat /\ NoGate \notin Gates
      /\ GateTypes'
  BY DEF GateInv, GateTypes, GateConstants
<1> SUFFICES ASSUME NEW g \in Gates
             PROVE  gate'[g].fails <= FailureThreshold /\ Cardinality(Slots(g)') <= MaxConcurrent
  BY DEF BoundInv
<1>1. /\ gate[g].fails \in Nat /\ gate[g].fails <= FailureThreshold
      /\ Cardinality(Slots(g)) <= MaxConcurrent
  BY <1>0 DEF BoundInv, GateTypes
<1>2. ASSUME NEW c \in Callers, TakeLease(c) PROVE gate'[g].fails <= FailureThreshold /\ Slots(g)' \subseteq Slots(g)
  BY <1>0, <1>1, <1>2 DEF TakeLease, Slots, Callees, GateTypes
<1>3. ASSUME NEW c \in Callers, NEW h \in Gates, LookAtCircuit(c, h)
      PROVE  gate'[g].fails <= FailureThreshold /\ Slots(g)' \subseteq Slots(g)
  <2>1. gate'[g].fails = gate[g].fails
    BY <1>0, <1>3 DEF LookAtCircuit, HalfOpened, GateTypes
  <2>2. Slots(g)' \subseteq Slots(g)
    BY <1>0, <1>3 DEF LookAtCircuit, LeaseReturned, Slots, Callees, GateTypes
  <2>3. QED
    BY <1>1, <2>1, <2>2
<1>4. ASSUME NEW c \in Callers, TakeSlot(c)
      PROVE  gate'[g].fails <= FailureThreshold /\ Cardinality(Slots(g)') <= MaxConcurrent
  <2>1. gate' = gate /\ entered' = entered /\ pc[c] = "waiting" /\ pc' = [pc EXCEPT ![c] = "slot"]
    BY <1>4 DEF TakeSlot
  <2>2. CASE entered[c] = g
    <3>1. Slots(g)' = Slots(g) \cup {c} /\ c \notin Slots(g)
      BY <1>0, <2>1, <2>2 DEF Slots, Callees, GateTypes
    <3>2. IsFiniteSet(Slots(g)) /\ Cardinality(Slots(g)) \in Nat /\ Cardinality(Slots(g)) < MaxConcurrent
      BY <1>4, <2>2, CalleesCount DEF Slots, TakeSlot, FreeSlot
    <3>3. Cardinality(Slots(g) \cup {c}) = Cardinality(Slots(g)) + 1
      BY <3>1, <3>2, FS_AddElement
    <3>4. QED
      BY <1>0, <1>1, <2>1, <3>1, <3>2, <3>3
  <2>3. CASE entered[c] # g
    <3>1. Slots(g)' = Slots(g)
      BY <1>0, <2>1, <2>3 DEF Slots, Callees, GateTypes
    <3>2. QED
      BY <1>1, <2>1, <3>1
  <2>4. QED
    BY <2>2, <2>3
<1>5. ASSUME NEW c \in Callers, TimeOut(c) PROVE gate'[g].fails <= FailureThreshold /\ Slots(g)' \subseteq Slots(g)
  <2>1. gate'[g].fails \in {gate[g].fails, 0}
    BY <1>0, <1>5, NewGateFacts DEF TimeOut, Collected, GateTypes
  <2>2. Slots(g)' \subseteq Slots(g)
    BY <1>0, <1>5 DEF TimeOut, Slots, Callees, GateTypes
  <2>3. QED
    BY <1>0, <1>1, <2>1, <2>2
<1>6. ASSUME NEW c \in Callers, CountActive(c) PROVE gate'[g].fails <= FailureThreshold /\ Slots(g)' \subseteq Slots(g)
  <2>1. gate'[g].fails = gate[g].fails
    BY <1>0, <1>6 DEF CountActive, GateTypes
  <2>2. Slots(g)' \subseteq Slots(g)
    BY <1>0, <1>6 DEF CountActive, Slots, Callees, GateTypes
  <2>3. QED
    BY <1>1, <2>1, <2>2
<1>7. ASSUME NEW c \in Callers, FreeTheSlot(c) PROVE gate'[g].fails <= FailureThreshold /\ Slots(g)' \subseteq Slots(g)
  BY <1>0, <1>1, <1>7 DEF FreeTheSlot, Slots, Callees, GateTypes
<1>8. ASSUME NEW c \in Callers, NEW success \in BOOLEAN, Account(c, success)
      PROVE  gate'[g].fails <= FailureThreshold /\ Slots(g)' \subseteq Slots(g)
  <2>1. gate'[g] \in {gate[g], NewGate, Outcome(g, success)}
    BY <1>0, <1>8 DEF Account, AccountedIn, Collected, GateTypes
  <2>2. Outcome(g, success).fails <= FailureThreshold
    BY <1>0, <1>1 DEF Outcome
  <2>3. Slots(g)' \subseteq Slots(g)
    BY <1>0, <1>8 DEF Account, Slots, Callees, GateTypes
  <2>4. QED
    BY <1>0, <1>1, <2>1, <2>2, <2>3, NewGateFacts
<1>9. ASSUME NEW h \in Gates, CoolDown(h) PROVE gate'[g].fails <= FailureThreshold /\ Slots(g)' \subseteq Slots(g)
  <2>1. gate'[g].fails = gate[g].fails
    BY <1>0, <1>9 DEF CoolDown, GateTypes
  <2>2. Slots(g)' \subseteq Slots(g)
    BY <1>9 DEF CoolDown, Slots, Callees
  <2>3. QED
    BY <1>1, <2>1, <2>2
<1>10. ASSUME Remove PROVE gate'[g].fails <= FailureThreshold /\ Slots(g)' \subseteq Slots(g)
  <2>1. gate'[g].fails \in {gate[g].fails, 0} /\ UNCHANGED <<pc, entered>>
    BY <1>0, <1>10, NewGateFacts DEF Remove, GateTypes
  <2>2. Slots(g)' \subseteq Slots(g)
    BY <2>1 DEF Slots, Callees
  <2>3. QED
    BY <1>0, <1>1, <2>1, <2>2
<1>11. CASE UNCHANGED hubVars
  BY <1>1, <1>11 DEF hubVars, Slots, Callees
<1>12. QED
  BY <1>1, <1>2, <1>3, <1>4, <1>5, <1>6, <1>7, <1>8, <1>9, <1>10, <1>11, SlotsShrink DEF HubNext, CallStep

LEMMA BoundInit == GateConstants /\ HubInit => BoundInv
<1> SUFFICES ASSUME GateConstants, HubInit, NEW g \in Gates
             PROVE  gate[g].fails <= FailureThreshold /\ Cardinality(Slots(g)) <= MaxConcurrent
  BY DEF BoundInv
<1>1. Slots(g) = {}
  BY DEF HubInit, Slots, Callees
<1>2. QED
  BY <1>1, NewGateFacts, FS_EmptySet DEF HubInit, GateConstants

LEMMA HubTypesFromInv == GateInv /\ BoundInv => HubTypes
<1> SUFFICES ASSUME GateInv, BoundInv PROVE HubTypes
  OBVIOUS
<1> DEFINE Values == [circuit : {"closed", "open", "cooled"}, fails : 0..FailureThreshold,
                      activeCalls : Nat, tripped : BOOLEAN]
<1>1. GateTypes /\ FailureThreshold \in Nat
  BY DEF GateInv, GateTypes, GateConstants
<1>2. ASSUME NEW g \in Gates PROVE gate[g] \in Values
  <2>1. gate[g].fails \in 0..FailureThreshold
    BY <1>1 DEF BoundInv, GateTypes
  <2>2. QED
    BY <1>1, <2>1 DEF GateTypes
<1>3. gate \in [Gates -> Values]
  BY <1>1, <1>2 DEF GateTypes
<1>4. QED
  BY <1>1, <1>3 DEF HubTypes, GateTypes, Inside, BoundInv

(* The inductive invariant holds in every reachable state, for any calls,  *)
(* callers, gates and thresholds.                                          *)
THEOREM AlwaysGateInv == GateConstants /\ HubSpec => []GateInv
<1>1. GateConstants /\ HubInit => GateInv
  BY GateInit
<1>2. GateInv /\ [HubNext]_hubVars => GateInv'
  BY GateStep
<1>3. QED
  BY <1>1, <1>2, PTL DEF HubSpec

(* The gates keep their values, and however slots are freed before a call's*)
(* end is recorded, no gate ever has more calls in its slots than it may.  *)
THEOREM SlotsAreBounded == GateConstants /\ HubSpec => []HubTypes
<1>1. GateConstants /\ HubInit => GateInv /\ BoundInv
  BY GateInit, BoundInit
<1>2. GateInv /\ BoundInv /\ [HubNext]_hubVars => (GateInv /\ BoundInv)'
  BY GateStep, BoundStep
<1>3. QED
  BY <1>1, <1>2, HubTypesFromInv, PTL DEF HubSpec

(* The reported number of active calls is the number of calls inside the   *)
(* gate, however often plugins are stopped and started under them.         *)
THEOREM ActiveCallsNeverDrift == GateConstants /\ HubSpec => []ActiveCallsExact
<1>1. GateInv => ActiveCallsExact
  BY DEF GateInv
<1>2. QED
  BY <1>1, AlwaysGateInv, PTL

(* An open circuit admits only calls that were waiting when it opened.     *)
THEOREM OpenAdmitsOnlyQueued == GateConstants /\ HubSpec => OnlyQueuedEnterOpen
<1> DEFINE Queued == \A c \in Callers :
      pc[c] = "waiting" /\ pc'[c] = "slot" /\ gate[entered[c]].circuit = "open" => c \in queued
<1>1. GateInv /\ [HubNext]_hubVars => [Queued]_hubVars
  BY DEF GateInv, QueuedInv
<1>2. QED
  BY <1>1, AlwaysGateInv, PTL DEF HubSpec, OnlyQueuedEnterOpen

(* After the threshold was reached, one failed call of a gate that has     *)
(* cooled down opens it again.                                             *)
THEOREM OneFailureReopens == GateConstants /\ HubSpec => FirstFailedProbeReopens
<1> DEFINE Reopens == \A c \in Callers :
      LET g == entered[c]
      IN  pc[c] = "freed" /\ pc'[c] = "out" /\ gate[g].tripped /\ gate'[g].fails # 0
            => gate'[g].circuit = "open"
<1>1. GateInv /\ [HubNext]_hubVars => [Reopens]_hubVars
  <2> SUFFICES ASSUME GateInv, HubNext, NEW c \in Callers, NEW g, g = entered[c],
                      pc[c] = "freed", pc'[c] = "out", gate[g].tripped, gate'[g].fails # 0
               PROVE  gate'[g].circuit = "open"
    OBVIOUS
  <2>1. GateTypes /\ g \in Gates
    BY DEF GateInv, EnteredInv, Inside
  <2>2. PICK success \in BOOLEAN : Account(c, success)
    <3>1. ASSUME NEW d \in Callers, TakeLease(d) \/ CallStep(d), \A ok \in BOOLEAN : ~Account(c, ok)
          PROVE  pc'[c] # "out"
      BY <2>1, <3>1 DEF TakeLease, CallStep, LookAtCircuit, LeaseReturned, TakeSlot, TimeOut, CountActive,
                        FreeTheSlot, Account, GateTypes
    <3>2. ASSUME NEW h \in Gates, CoolDown(h)
          PROVE  pc'[c] # "out"
      BY <3>2 DEF CoolDown
    <3>3. ASSUME Remove
          PROVE  pc'[c] # "out"
      BY <3>3 DEF Remove
    <3>4. QED
      BY <3>1, <3>2, <3>3 DEF HubNext
  <2>3. gate' = [gate EXCEPT ![g] = Collected(g, {c}, Outcome(g, success))]
    BY <2>2 DEF Account, AccountedIn
  <2>4. gate'[g] = Outcome(g, success)
    BY <2>1, <2>3, NewGateFacts DEF Collected, GateTypes
  <2>5. QED
    BY <2>1, <2>4, OutcomeFacts
<1>2. QED
  BY <1>1, AlwaysGateInv, PTL DEF HubSpec, FirstFailedProbeReopens

-----------------------------------------------------------------------------
(* THE DATABASE LEASES                                                     *)

(* The reaper is no start, and a start leaves two beats before the expiry. *)
LeaseConstants ==
    /\ Reaper \notin Leases /\ IsFiniteSet(Leases)
    /\ {LeaseTTL, MaxStart, MaxLive} \subseteq Nat /\ MaxStart + 2 <= LeaseTTL

RowStates == {"none"} \cup Live \cup AwaitingCleanup \cup Retired
JobStates == [at : {"idle", "fence", "list", "clean"}, todo : SUBSET Leases, failed : BOOLEAN]

LeaseFields ==
    /\ status \in [Leases -> RowStates] /\ at \in [Leases -> Hosts]
    /\ ttl \in [Leases -> 0..LeaseTTL] /\ known \in [Leases -> 0..LeaseTTL]
    /\ synced \cup beaten \cup inflight \cup stalled \subseteq Leases
    /\ inflight = {} \/ \E l \in Leases : inflight = {l}
    /\ job \in [Actors -> JobStates]

(* A start reconciles before it has a lease, and nobody renews a lease     *)
(* before its process runs.                                                *)
BeforeRun == {"none", "reconcile", "issue", "starting"}
Ordered(l) ==
    /\ job[l].at # "idle" => at[l] = "reconcile"
    /\ l \in inflight => at[l] \notin BeforeRun

(* What the host believes of the expiry is never later than what the row   *)
(* says, and a loop that beats in each interval has an interval left.      *)
Ahead(l) ==
    /\ at[l] = "starting" =>
         status[l] = "active" /\ ttl[l] = known[l] /\ LeaseTTL - MaxStart <= known[l]
    /\ at[l] = "running" /\ l \notin stalled =>
         status[l] = "active" /\ known[l] <= ttl[l] /\ known[l] >= IF l \in beaten THEN 2 ELSE 1

FewLive == Cardinality(LiveLeases) <= MaxLive

LeaseInv ==
    LeaseConstants /\ LeaseFields /\ (\A l \in Leases : Ordered(l) /\ Ahead(l)) /\ FewLive

-----------------------------------------------------------------------------
(* Rows that leave the live ones alone, or end some, keep their number.    *)
LEMMA LiveShrinks ==
  ASSUME LeaseConstants, FewLive, \A l \in Leases : status'[l] \in Live => status[l] \in Live
  PROVE  FewLive'
<1>1. LiveLeases' \subseteq LiveLeases /\ IsFiniteSet(LiveLeases)
  BY FS_Subset DEF LiveLeases, LeaseConstants
<1>2. Cardinality(LiveLeases') <= Cardinality(LiveLeases) /\ Cardinality(LiveLeases) \in Nat
      /\ Cardinality(LiveLeases') \in Nat
  BY <1>1, FS_Subset, FS_CardinalityType
<1>3. QED
  BY <1>2 DEF FewLive, LeaseConstants

(* One that is issued may be one more.                                     *)
LEMMA LiveGrows ==
  ASSUME LeaseConstants, FewLive, status \in [Leases -> RowStates],
         NEW l \in Leases, MayIssue, status' = [status EXCEPT ![l] = "active"]
  PROVE  FewLive'
<1> DEFINE L == LiveLeases
           M == LiveLeases'
<1>1. M \subseteq L \cup {l} /\ L \subseteq Leases
  BY DEF LiveLeases
<1>2. IsFiniteSet(L) /\ Cardinality(L) < MaxLive /\ MaxLive \in Nat
  BY <1>1, FS_Subset DEF LeaseConstants, MayIssue
<1> HIDE DEF L, M
<1>3. /\ IsFiniteSet(L \cup {l}) /\ Cardinality(L) \in Nat
      /\ Cardinality(L \cup {l}) = IF l \in L THEN Cardinality(L) ELSE Cardinality(L) + 1
  BY <1>2, FS_AddElement, FS_CardinalityType
<1>4. Cardinality(M) <= Cardinality(L \cup {l}) /\ Cardinality(M) \in Nat
  BY <1>1, <1>3, FS_Subset, FS_CardinalityType
<1>5. Cardinality(M) <= MaxLive
  BY <1>2, <1>3, <1>4
<1>6. QED
  BY <1>5 DEF FewLive, M

LEMMA LeaseStart == LeaseConstants /\ LeaseInit => LeaseInv
<1> SUFFICES ASSUME LeaseConstants, LeaseInit PROVE LeaseInv
  OBVIOUS
<1>1. LeaseFields /\ \A l \in Leases : Ordered(l) /\ Ahead(l)
  BY DEF LeaseConstants, LeaseInit, LeaseFields, Ordered, Ahead, RowStates, JobStates, Hosts,
     Actors, NoJob, Live, AwaitingCleanup, Retired
<1>2. LiveLeases = {}
  BY DEF LeaseInit, LiveLeases, Live
<1>3. QED
  BY <1>1, <1>2, FS_EmptySet DEF LeaseInv, FewLive, LeaseConstants

(* A lease whose host does nothing stays ahead, unless an expired row is   *)
(* fenced or one that is not live cleaned up.                              *)
Apart(l) ==
    /\ at'[l] = at[l] /\ known'[l] = known[l] /\ ttl'[l] = ttl[l]
    /\ job'[l].at = job[l].at
    /\ l \in inflight' => l \in inflight
    /\ l \in beaten' <=> l \in beaten
    /\ l \in stalled' <=> l \in stalled
    /\ status'[l] = status[l] \/ status[l] \notin Live \/ ttl[l] = 0

LEMMA ApartKeeps ==
  ASSUME LeaseInv, NEW l \in Leases, Apart(l)
  PROVE  Ordered(l)' /\ Ahead(l)'
<1>1. /\ Ordered(l) /\ Ahead(l) /\ ttl[l] \in Nat /\ known[l] \in Nat
      /\ {LeaseTTL, MaxStart} \subseteq Nat /\ MaxStart + 2 <= LeaseTTL
  BY DEF LeaseInv, LeaseConstants, LeaseFields
<1>2. Ordered(l)'
  BY <1>1 DEF Apart, Ordered
<1>3. status[l] = "active" /\ ttl[l] > 0 => status'[l] = "active"
  BY <1>1 DEF Apart, Live
<1>4. Ahead(l)'
  BY <1>1, <1>3 DEF Apart, Ahead
<1>5. QED
  BY <1>2, <1>4

(* A step of a reconciliation.                                             *)
Reconciles(a) ==
    /\ status' \in [Leases -> RowStates]
    /\ \A l \in Leases : status'[l] # status[l] =>
         status'[l] \notin Live /\ (status[l] \notin Live \/ ttl[l] = 0)
    /\ job' \in [Actors -> JobStates] /\ \A b \in Actors \ {a} : job'[b].at = job[b].at
    /\ \/ at' = at /\ (job'[a].at = job[a].at \/ job[a].at # "idle" \/ a = Reaper)
       \/ /\ a \in Leases /\ job[a].at # "idle" /\ job'[a].at = "idle"
          /\ \E where \in {"over", "issue"} : at' = [at EXCEPT ![a] = where]
    /\ UNCHANGED <<ttl, known, synced, beaten, inflight, stalled>>

LEMMA ReconcileKeeps ==
  ASSUME LeaseInv, NEW a \in Actors, Reconciles(a)
  PROVE  LeaseInv'
<1>1. LeaseConstants /\ LeaseFields /\ \A l \in Leases : Ordered(l) /\ Ahead(l)
  BY DEF LeaseInv
<1>2. at' \in [Leases -> Hosts]
  BY <1>1 DEF Reconciles, LeaseFields, Hosts
<1>3. LeaseFields'
  BY <1>1, <1>2 DEF LeaseFields, Reconciles
<1>4. ASSUME NEW l \in Leases PROVE Ordered(l)' /\ Ahead(l)'
  <2>1. CASE l # a
    <3>1. l \in Actors \ {a}
      BY <2>1 DEF Actors
    <3>2. Apart(l)
      BY <1>1, <2>1, <3>1 DEF Reconciles, Apart, LeaseFields
    <3>3. QED
      BY <3>2, ApartKeeps
  <2>2. CASE l = a /\ job'[l].at = job[l].at /\ at' = at
    <3>1. Apart(l)
      BY <1>1, <2>2 DEF Reconciles, Apart, LeaseFields
    <3>2. QED
      BY <3>1, ApartKeeps
  <2>3. CASE l = a /\ ~(job'[l].at = job[l].at /\ at' = at)
    <3>1. a # Reaper /\ job[l].at # "idle"
      BY <1>1, <2>3 DEF Reconciles, LeaseConstants
    <3>2. at[l] = "reconcile" /\ l \notin inflight'
      BY <1>1, <3>1 DEF Ordered, BeforeRun, Reconciles
    <3>3. at'[l] \in {"reconcile", "over", "issue"} /\ (job'[l].at # "idle" => at'[l] = "reconcile")
      BY <1>1, <2>3, <3>2 DEF Reconciles, LeaseFields
    <3>4. QED
      BY <3>2, <3>3 DEF Ordered, Ahead
  <2>4. QED
    BY <2>1, <2>2, <2>3
<1>5. FewLive'
  BY LiveShrinks DEF LeaseInv, Reconciles
<1>6. QED
  BY <1>1, <1>3, <1>4, <1>5 DEF LeaseInv, LeaseConstants

LEMMA CleanedUpEnds ==
  ASSUME NEW l \in Leases
  PROVE  CleanedUp(l) = status[l] \/ (status[l] \in AwaitingCleanup /\ CleanedUp(l) \in Retired)
<1>1. CASE status[l] = "revokePending"
  BY <1>1 DEF CleanedUp, AwaitingCleanup, Retired
<1>2. CASE status[l] = "expiredPending"
  BY <1>2 DEF CleanedUp, AwaitingCleanup, Retired
<1>3. CASE status[l] \notin AwaitingCleanup
  <2>1. status[l] # "revokePending" /\ status[l] # "expiredPending"
    BY <1>3 DEF AwaitingCleanup
  <2>2. QED
    BY <2>1 DEF CleanedUp
<1>4. QED
  BY <1>1, <1>2, <1>3 DEF AwaitingCleanup

LEMMA JobKeeps ==
  ASSUME LeaseInv, NEW a \in Actors, (ReaperWakes /\ a = Reaper) \/ JobStep(a)
  PROVE  LeaseInv'
<1> USE DEF Reconciles, NoJob, JobStates
<1>1. /\ status \in [Leases -> RowStates] /\ at \in [Leases -> Hosts]
      /\ job \in [Actors -> JobStates] /\ Reaper \notin Leases
  BY DEF LeaseInv, LeaseFields, LeaseConstants
<1>2. a = Reaper \/ a \in Leases
  BY DEF Actors
<1>3. CASE ReaperWakes /\ a = Reaper
  BY <1>1, <1>3, ReconcileKeeps DEF ReaperWakes, Set, hosts
<1>4. CASE FenceExpired(a)
  <2>1. status' \in {status, Fenced(Expired)}
    BY <1>4 DEF FenceExpired
  <2>2. /\ status' \in [Leases -> RowStates]
        /\ \A l \in Leases : status'[l] # status[l] => status'[l] = "expiredPending" /\ ttl[l] = 0
    BY <1>1, <2>1 DEF Fenced, Expired, RowStates, AwaitingCleanup
  <2>3. /\ job' \in [Actors -> JobStates] /\ (\A b \in Actors \ {a} : job'[b].at = job[b].at)
        /\ at' = at \/ (a \in Leases /\ job'[a].at = "idle" /\ at' = [at EXCEPT ![a] = "over"])
    <3>1. /\ [NoJob EXCEPT !.at = "list"] \in JobStates /\ NoJob \in JobStates /\ NoJob.at = "idle"
      OBVIOUS
    <3>2. \E w \in JobStates : job' = [job EXCEPT ![a] = w] /\ (at' = at \/ w = NoJob)
      BY <1>4, <3>1 DEF FenceExpired, GiveUpJob, Set
    <3>3. at' = at \/ (a \in Leases /\ at' = [at EXCEPT ![a] = "over"])
      BY <1>2, <1>4 DEF FenceExpired, GiveUpJob, Set
    <3>4. QED
      BY <1>1, <3>1, <3>2, <3>3
  <2>4. Reconciles(a)
    BY <1>4, <2>2, <2>3 DEF FenceExpired, Live
  <2>5. QED
    BY <2>4, ReconcileKeeps
<1>5. CASE ListPending(a)
  <2>1. /\ job' \in [Actors -> JobStates] /\ (\A b \in Actors \ {a} : job'[b].at = job[b].at)
        /\ at' = at \/ (a \in Leases /\ job'[a].at = "idle" /\ at' = [at EXCEPT ![a] = "over"])
    <3>1. /\ [NoJob EXCEPT !.at = "clean", !.todo = CleanupPending] \in JobStates
          /\ NoJob \in JobStates /\ NoJob.at = "idle"
      BY DEF CleanupPending
    <3>2. \E w \in JobStates : job' = [job EXCEPT ![a] = w] /\ (at' = at \/ w = NoJob)
      BY <1>5, <3>1 DEF ListPending, GiveUpJob, Set
    <3>3. at' = at \/ (a \in Leases /\ at' = [at EXCEPT ![a] = "over"])
      BY <1>2, <1>5 DEF ListPending, GiveUpJob, Set
    <3>4. QED
      BY <1>1, <3>1, <3>2, <3>3
  <2>2. Reconciles(a)
    BY <1>1, <1>5, <2>1 DEF ListPending
  <2>3. QED
    BY <2>2, ReconcileKeeps
<1>6. CASE \E l \in Leases : CleanUpListed(a, l)
  <2>1. PICK l \in Leases : CleanUpListed(a, l)
    BY <1>6
  <2>2. status' \in {status, [status EXCEPT ![l] = CleanedUp(l)]}
    BY <2>1 DEF CleanUpListed, Set
  <2>3. CleanedUp(l) = status[l] \/ (status[l] \in AwaitingCleanup /\ CleanedUp(l) \in Retired)
    BY CleanedUpEnds
  <2>4. /\ status' \in [Leases -> RowStates]
        /\ \A k \in Leases : status'[k] # status[k] => status[k] \in AwaitingCleanup /\ status'[k] \in Retired
    BY <1>1, <2>2, <2>3 DEF RowStates
  <2>5. \/ job' = [job EXCEPT ![a].todo = @ \ {l}]
        \/ job' = [job EXCEPT ![a].todo = @ \ {l}, ![a].failed = TRUE]
    BY <2>1 DEF CleanUpListed
  <2>6. job' \in [Actors -> JobStates] /\ (\A b \in Actors : job'[b].at = job[b].at)
    BY <1>1, <2>5
  <2>7. Reconciles(a)
    BY <2>1, <2>4, <2>6 DEF CleanUpListed, hosts, AwaitingCleanup, Retired, Live
  <2>8. QED
    BY <2>7, ReconcileKeeps
<1>7. CASE JobDone(a)
  <2>1. /\ job' = [job EXCEPT ![a] = NoJob] /\ job[a].at = "clean"
        /\ at' = at \/ (a \in Leases /\ \E where \in {"over", "issue"} : at' = [at EXCEPT ![a] = where])
    <3>1. job' = [job EXCEPT ![a] = NoJob] /\ job[a].at = "clean"
      BY <1>7 DEF JobDone, Set
    <3>2. at' = at \/ (a \in Leases /\ at' = [at EXCEPT ![a] = IF job[a].failed THEN "over" ELSE "issue"])
      BY <1>2, <1>7 DEF JobDone, Set
    <3>3. (IF job[a].failed THEN "over" ELSE "issue") \in {"over", "issue"}
      OBVIOUS
    <3>4. QED
      BY <3>1, <3>2, <3>3
  <2>2. Reconciles(a)
    <3>1. /\ NoJob \in JobStates /\ NoJob.at = "idle" /\ status' = status
          /\ UNCHANGED <<ttl, known, synced, beaten, inflight, stalled>>
      BY <1>7 DEF JobDone
    <3>2. job' \in [Actors -> JobStates] /\ (\A b \in Actors \ {a} : job'[b].at = job[b].at) /\ job'[a].at = "idle"
      BY <1>1, <2>1, <3>1
    <3>3. QED
      BY <1>1, <2>1, <3>1, <3>2
  <2>3. QED
    BY <2>2, ReconcileKeeps
<1>8. QED
  BY <1>3, <1>4, <1>5, <1>6, <1>7 DEF JobStep

(* A step of the host of one lease.                                        *)
Alone(l) ==
    /\ \A k \in Leases \ {l} : Apart(k)
    /\ \A k \in Leases : status'[k] \in Live => status[k] \in Live
    /\ job' \in [Actors -> JobStates]

LEMMA AloneKeeps ==
  ASSUME LeaseInv, NEW l \in Leases, Alone(l), LeaseFields', Ordered(l)', Ahead(l)'
  PROVE  LeaseInv'
<1>1. \A k \in Leases : Ordered(k)' /\ Ahead(k)'
  BY ApartKeeps DEF Alone
<1>2. FewLive'
  BY LiveShrinks DEF LeaseInv, Alone
<1>3. QED
  BY <1>1, <1>2 DEF LeaseInv, LeaseConstants

(* What a host knows of its own lease.                                     *)
LEMMA LeaseFacts ==
  ASSUME LeaseInv, NEW l \in Leases
  PROVE  /\ LeaseFields /\ Ordered(l) /\ Ahead(l)
         /\ {LeaseTTL, MaxStart} \subseteq Nat /\ MaxStart + 2 <= LeaseTTL
         /\ ttl[l] \in 0..LeaseTTL /\ known[l] \in 0..LeaseTTL /\ status[l] \in RowStates
         /\ l \in Actors /\ job[l] \in JobStates /\ Reaper # l
BY DEF LeaseInv, LeaseConstants, LeaseFields, Actors

(* The end of a process: its lease is left to the revocation.              *)
LEMMA EndKeeps ==
  ASSUME LeaseInv, NEW l \in Leases, at[l] # "reconcile", ProcessEnds(l),
         UNCHANGED <<status, ttl, job>>,
         inflight' = inflight \/ (inflight = {} /\ inflight' = {l})
  PROVE  LeaseInv'
<1> USE LeaseFacts
<1>1. /\ at' = [at EXCEPT ![l] = "inspect"] /\ known' = [known EXCEPT ![l] = 0]
      /\ beaten' = beaten \ {l} /\ stalled' = stalled \ {l} /\ synced' = synced \ {l}
  BY DEF ProcessEnds, GoesTo, Set
<1>2. LeaseFields'
  BY <1>1 DEF LeaseFields, Hosts
<1>3. Alone(l)
  BY <1>1 DEF LeaseFields, Alone, Apart
<1>4. Ordered(l)' /\ Ahead(l)'
  BY <1>1 DEF LeaseFields, Ordered, Ahead, BeforeRun
<1>5. QED
  BY <1>2, <1>3, <1>4, AloneKeeps

(* A host's start, and what it does without a process.                     *)
LEMMA StartKeeps ==
  ASSUME LeaseInv, NEW l \in Leases, Start(l) \/ FinishStart(l)
  PROVE  LeaseInv'
<1> USE LeaseFacts
<1>1. CASE Start(l)
  <2>1. /\ at[l] = "none" /\ at' = [at EXCEPT ![l] = "reconcile"]
        /\ job' = [job EXCEPT ![l] = [NoJob EXCEPT !.at = "fence"]]
        /\ UNCHANGED <<status, ttl, known, synced, beaten, inflight, stalled>>
    BY <1>1 DEF Start, GoesTo, Set
  <2>2. [NoJob EXCEPT !.at = "fence"] \in JobStates
    BY DEF NoJob, JobStates
  <2>3. LeaseFields'
    BY <2>1, <2>2 DEF LeaseFields, Hosts
  <2>4. Alone(l)
    BY <2>1, <2>2 DEF LeaseFields, Alone, Apart
  <2>5. Ordered(l)' /\ Ahead(l)'
    BY <2>1, <2>2 DEF LeaseFields, Ordered, Ahead, BeforeRun
  <2>6. QED
    BY <2>3, <2>4, <2>5, AloneKeeps
<1>2. CASE FinishStart(l) /\ ProcessEnds(l)
  <2>1. at[l] # "reconcile" /\ UNCHANGED <<status, ttl, inflight, job>>
    BY <1>2 DEF FinishStart
  <2>2. QED
    BY <1>2, <2>1, EndKeeps
<1>3. CASE FinishStart(l) /\ ~ProcessEnds(l)
  <2>1. /\ at[l] = "starting" /\ at' = [at EXCEPT ![l] = "running"] /\ beaten' = beaten \cup {l}
        /\ UNCHANGED <<status, ttl, known, synced, inflight, job, stalled>>
    BY <1>3 DEF FinishStart, GoesTo, Set
  <2>2. LeaseFields'
    BY <2>1 DEF LeaseFields, Hosts
  <2>3. Alone(l)
    BY <2>1 DEF LeaseFields, Alone, Apart
  <2>4. Ordered(l)' /\ Ahead(l)'
    BY <2>1 DEF LeaseFields, Ordered, Ahead, BeforeRun
  <2>5. QED
    BY <2>2, <2>3, <2>4, AloneKeeps
<1>4. QED
  BY <1>1, <1>2, <1>3

LEMMA IssueKeeps ==
  ASSUME LeaseInv, NEW l \in Leases, IssueRuntimeLease(l)
  PROVE  LeaseInv'
<1> USE LeaseFacts
<1>1. at[l] = "issue" /\ inflight = {} /\ UNCHANGED <<beaten, inflight, job, stalled>>
  BY DEF IssueRuntimeLease, Free
<1>2. \/ /\ MayIssue /\ status' = [status EXCEPT ![l] = "active"] /\ ttl' = [ttl EXCEPT ![l] = LeaseTTL]
         /\ \/ /\ at' = [at EXCEPT ![l] = "starting"] /\ known' = [known EXCEPT ![l] = LeaseTTL]
               /\ synced' = synced \cup {l}
            \/ at' = [at EXCEPT ![l] = "over"] /\ UNCHANGED <<known, synced>>
      \/ at' = [at EXCEPT ![l] = "over"] /\ UNCHANGED <<status, ttl, known, synced>>
  BY DEF IssueRuntimeLease, Issued, GoesTo, Set
<1>3. LeaseFields'
  BY <1>1, <1>2 DEF LeaseFields, Hosts, RowStates, Live
<1>4. \A k \in Leases \ {l} : Apart(k)
  BY <1>1, <1>2 DEF LeaseFields, Apart
<1>5. Ordered(l)' /\ Ahead(l)'
  BY <1>1, <1>2 DEF LeaseFields, Ordered, Ahead, BeforeRun
<1>6. FewLive'
  <2>1. CASE status' = status
    BY <2>1, LiveShrinks DEF LeaseInv
  <2>2. CASE status' # status
    BY <1>2, <2>2, LiveGrows DEF LeaseInv, LeaseFields
  <2>3. QED
    BY <2>1, <2>2
<1>7. QED
  BY <1>3, <1>4, <1>5, <1>6, ApartKeeps DEF LeaseInv, LeaseConstants

(* A heartbeat and the settling of a renewal nobody waits for.             *)
LEMMA HeartbeatKeeps ==
  ASSUME LeaseInv, NEW l \in Leases, SendHeartbeat(l)
  PROVE  LeaseInv'
<1> USE LeaseFacts
<1>1. at[l] = "running" /\ l \notin beaten /\ UNCHANGED <<status, job>>
  BY DEF SendHeartbeat
<1>2. Unanswered(l) = inflight \/ (inflight = {} /\ Unanswered(l) = {l})
  BY DEF Unanswered, Free
<1>3. inflight' = inflight \/ (inflight = {} /\ inflight' = {l})
  BY <1>2 DEF SendHeartbeat
<1>4. CASE ProcessEnds(l) /\ ttl' = ttl
  BY <1>1, <1>3, <1>4, EndKeeps
<1>5. CASE /\ status[l] = "active" /\ ttl' = [ttl EXCEPT ![l] = LeaseTTL]
           /\ known' = [known EXCEPT ![l] = LeaseTTL] /\ beaten' = beaten \cup {l}
           /\ UNCHANGED <<at, synced, inflight, stalled>>
  <2>1. LeaseFields'
    BY <1>1, <1>5 DEF LeaseFields
  <2>2. Alone(l)
    BY <1>1, <1>5 DEF LeaseFields, Alone, Apart
  <2>3. Ordered(l)' /\ Ahead(l)'
    BY <1>1, <1>5 DEF LeaseFields, Ordered, Ahead
  <2>4. QED
    BY <2>1, <2>2, <2>3, AloneKeeps
<1>6. CASE /\ known[l] > 2 /\ beaten' = beaten \cup {l}
           /\ UNCHANGED <<ttl, at, known, synced, stalled>>
  <2>1. LeaseFields'
    BY <1>1, <1>3, <1>6 DEF LeaseFields
  <2>2. Alone(l)
    BY <1>1, <1>3, <1>6 DEF LeaseFields, Alone, Apart
  <2>3. Ordered(l)' /\ Ahead(l)'
    BY <1>1, <1>3, <1>6 DEF LeaseFields, Ordered, Ahead, BeforeRun
  <2>4. QED
    BY <2>1, <2>2, <2>3, AloneKeeps
<1>7. QED
  BY <1>4, <1>5, <1>6 DEF SendHeartbeat, GivesUp, Renewable, Renewed, Set

LEMMA SettleKeeps ==
  ASSUME LeaseInv, NEW l \in Leases, SettleRenewal(l)
  PROVE  LeaseInv'
<1> USE LeaseFacts
<1>1. /\ l \in inflight /\ inflight' = {} /\ synced' \subseteq synced
      /\ ttl' = [ttl EXCEPT ![l] = LeaseTTL] \/ ttl' = ttl
      /\ UNCHANGED <<status, at, known, beaten, job, stalled>>
  BY DEF SettleRenewal, Renewed, Set
<1>2. LeaseFields'
  BY <1>1 DEF LeaseFields
<1>3. Alone(l)
  BY <1>1 DEF LeaseFields, Alone, Apart
<1>4. Ordered(l)' /\ Ahead(l)'
  BY <1>1 DEF LeaseFields, Ordered, Ahead, BeforeRun
<1>5. QED
  BY <1>2, <1>3, <1>4, AloneKeeps

LEMMA StopKeeps ==
  ASSUME LeaseInv, NEW l \in Leases, StopProtocolInstance(l)
  PROVE  LeaseInv'
<1>1. Unanswered(l) = inflight \/ (inflight = {} /\ Unanswered(l) = {l})
  BY DEF Unanswered, Free
<1>2. inflight' = inflight \/ (inflight = {} /\ inflight' = {l})
  BY <1>1 DEF StopProtocolInstance
<1>3. QED
  BY <1>2, EndKeeps DEF StopProtocolInstance

(* A step of the revocation touches only the lease's own row, which it     *)
(* never makes live.                                                       *)
LEMMA RevokeKeeps ==
  ASSUME LeaseInv, NEW l \in Leases, RevokeStep(l)
  PROVE  LeaseInv'
<1> USE LeaseFacts
<1> DEFINE After == {"drain", "fence", "cleanup", "over"}
<1>1. /\ at[l] \notin BeforeRun
      /\ \E s \in RowStates : status' = [status EXCEPT ![l] = s] /\ (s \in Live => status[l] \in Live)
      /\ \E w \in After : at' = [at EXCEPT ![l] = w]
      /\ synced' \subseteq Leases /\ UNCHANGED <<ttl, known, beaten, inflight, job, stalled>>
  <2>1. status = [status EXCEPT ![l] = status[l]]
    BY DEF LeaseFields
  <2>2. CASE InspectRuntimeLease(l)
    <3>1. status' = status /\ synced' \subseteq Leases
      BY <2>2 DEF InspectRuntimeLease, LeaseFields
    <3>2. \E w \in After : at' = [at EXCEPT ![l] = w]
      BY <2>2 DEF InspectRuntimeLease, GoesTo, Set
    <3>3. QED
      BY <2>1, <2>2, <3>1, <3>2 DEF InspectRuntimeLease, BeforeRun
  <2>3. CASE BeginRuntimeLeaseDrain(l)
    <3>1. BegunDrain(l) \in RowStates /\ (BegunDrain(l) \in Live => status[l] \in Live)
      BY DEF BegunDrain, RowStates, Live
    <3>2. status' \in {status, [status EXCEPT ![l] = BegunDrain(l)]}
      BY <2>3 DEF BeginRuntimeLeaseDrain, Set
    <3>3. \E w \in After : at' = [at EXCEPT ![l] = w]
      BY <2>3 DEF BeginRuntimeLeaseDrain, GoesTo, Set
    <3>4. QED
      BY <2>1, <2>3, <3>1, <3>2, <3>3 DEF BeginRuntimeLeaseDrain, BeforeRun, LeaseFields
  <2>4. CASE FenceForRevoke(l)
    <3>1. RevokeFenced(l) \in RowStates /\ RevokeFenced(l) \notin Live
      BY DEF RevokeFenced, RowStates, Live, AwaitingCleanup
    <3>2. status' \in {status, [status EXCEPT ![l] = RevokeFenced(l)]}
      BY <2>4 DEF FenceForRevoke, Set
    <3>3. \E w \in After : at' = [at EXCEPT ![l] = w]
      BY <2>4 DEF FenceForRevoke, GoesTo, Set
    <3>4. QED
      BY <2>1, <2>4, <3>1, <3>2, <3>3 DEF FenceForRevoke, BeforeRun, LeaseFields
  <2>5. CASE CleanUpRevoked(l)
    <3>1. CleanedUp(l) \in RowStates /\ (CleanedUp(l) \in Live => status[l] \in Live)
      BY CleanedUpEnds DEF RowStates, AwaitingCleanup, Retired, Live
    <3>2. status' \in {status, [status EXCEPT ![l] = CleanedUp(l)]} /\ at' = [at EXCEPT ![l] = "over"]
      BY <2>5 DEF CleanUpRevoked, GoesTo, Set
    <3>4. QED
      BY <2>1, <2>5, <3>1, <3>2 DEF CleanUpRevoked, BeforeRun, LeaseFields
  <2>6. QED
    BY <2>2, <2>3, <2>4, <2>5 DEF RevokeStep
<1>2. LeaseFields'
  BY <1>1 DEF LeaseFields, Hosts
<1>3. Alone(l)
  BY <1>1 DEF LeaseFields, Alone, Apart
<1>4. Ordered(l)' /\ Ahead(l)'
  BY <1>1 DEF LeaseFields, Ordered, Ahead, BeforeRun
<1>5. QED
  BY <1>2, <1>3, <1>4, AloneKeeps

LEMMA LeaseCrashKeeps ==
  ASSUME LeaseInv, NEW l \in Leases, HostDies(l)
  PROVE  LeaseInv'
<1> USE LeaseFacts
<1>1. /\ at[l] # "none" /\ at' = [at EXCEPT ![l] = "gone"] /\ known' = [known EXCEPT ![l] = 0]
      /\ beaten' = beaten \ {l} /\ stalled' = stalled \ {l} /\ synced' = synced \ {l}
      /\ job' = [job EXCEPT ![l] = NoJob] /\ UNCHANGED <<status, ttl, inflight>>
  BY DEF HostDies, GoesTo, Set
<1>2. NoJob \in JobStates /\ NoJob.at = "idle"
  BY DEF NoJob, JobStates
<1>3. LeaseFields'
  BY <1>1, <1>2 DEF LeaseFields, Hosts
<1>4. Alone(l)
  BY <1>1, <1>2 DEF LeaseFields, Alone, Apart
<1>5. Ordered(l)' /\ Ahead(l)'
  BY <1>1, <1>2 DEF LeaseFields, Ordered, Ahead, BeforeRun
<1>6. QED
  BY <1>3, <1>4, <1>5, AloneKeeps

(* An interval takes one from both sides, and the loop that has not beaten *)
(* in it counts as stalled from now on.                                    *)
LEMMA LeaseTickKeeps ==
  ASSUME LeaseInv, Tick
  PROVE  LeaseInv'
<1>1. /\ \A l \in Leases : at[l] = "starting" => LeaseTTL - ttl[l] < MaxStart
      /\ stalled' = stalled \cup Missed /\ beaten' = {}
      /\ ttl' = Later(ttl) /\ known' = Later(known)
      /\ UNCHANGED <<status, at, synced, inflight, job>>
  BY DEF Tick
<1>2. LeaseFields /\ LeaseConstants
  BY DEF LeaseInv
<1>3. LeaseFields'
  <2>1. Later(ttl) \in [Leases -> 0..LeaseTTL] /\ Later(known) \in [Leases -> 0..LeaseTTL]
    BY <1>2 DEF Later, LeaseFields, LeaseConstants
  <2>2. QED
    BY <1>1, <1>2, <2>1 DEF LeaseFields, Missed
<1>4. ASSUME NEW l \in Leases PROVE Ordered(l)' /\ Ahead(l)'
  <2>1. /\ ttl'[l] = IF ttl[l] > 0 THEN ttl[l] - 1 ELSE 0
        /\ known'[l] = IF known[l] > 0 THEN known[l] - 1 ELSE 0
    BY <1>1 DEF Later
  <2>2. Ordered(l)'
    BY <1>1, LeaseFacts DEF Ordered
  <2>3. at[l] = "running" /\ l \notin stalled' => l \in beaten /\ l \notin stalled
    BY <1>1 DEF Missed
  <2>4. Ahead(l)'
    BY <1>1, <2>1, <2>3, LeaseFacts DEF Ahead
  <2>5. QED
    BY <2>2, <2>4
<1>5. FewLive'
  BY <1>1, LiveShrinks DEF LeaseInv
<1>6. QED
  BY <1>3, <1>4, <1>5 DEF LeaseInv, LeaseConstants

-----------------------------------------------------------------------------
LEMMA LeaseStep == LeaseInv /\ [RuntimeLeaseNext]_rowVars => LeaseInv'
<1> SUFFICES ASSUME LeaseInv, [RuntimeLeaseNext]_rowVars PROVE LeaseInv'
  OBVIOUS
<1>1. CASE ReaperStep
  BY <1>1, JobKeeps DEF ReaperStep, Actors
<1>2. CASE Tick
  BY <1>2, LeaseTickKeeps
<1>3. ASSUME NEW l \in Leases, Start(l) \/ HostStep(l) \/ StopProtocolInstance(l) \/ HostDies(l)
      PROVE  LeaseInv'
  <2>1. CASE JobStep(l)
    BY <2>1, JobKeeps DEF Actors
  <2>2. QED
    BY <1>3, <2>1, StartKeeps, IssueKeeps, HeartbeatKeeps, SettleKeeps, RevokeKeeps, StopKeeps,
       LeaseCrashKeeps DEF HostStep
<1>4. CASE UNCHANGED rowVars
  <2>1. UNCHANGED <<status, ttl, at, known, synced, beaten, inflight, job, stalled>>
    BY <1>4 DEF rowVars, hosts
  <2>2. QED
    BY <2>1 DEF LeaseInv, LeaseConstants, LeaseFields, Ordered, Ahead, FewLive, LiveLeases
<1>5. QED
  BY <1>1, <1>2, <1>3, <1>4 DEF RuntimeLeaseNext

(* Rows, roles and hosts stay in their states, one renewal at most is      *)
(* unsettled, and an extension never has more live leases than it may.     *)
LEMMA LeasesTyped == LeaseInv => LeaseTypes
<1> SUFFICES ASSUME LeaseInv PROVE LeaseTypes
  OBVIOUS
<1>1. LeaseFields /\ FewLive
  BY DEF LeaseInv
<1>2. Cardinality(inflight) <= 1
  <2>1. Cardinality({}) = 0 /\ \A l \in Leases : Cardinality({l}) = 1
    BY FS_EmptySet, FS_Singleton
  <2>2. QED
    BY <1>1, <2>1 DEF LeaseFields
<1>3. \A a \in Actors : job[a].at \in {"idle", "fence", "list", "clean"}
  BY <1>1 DEF LeaseFields, JobStates
<1>4. QED
  BY <1>1, <1>2, <1>3 DEF LeaseTypes, LeaseFields, RowStates, FewLive

(* Rows, roles and hosts stay in their states, one renewal at most is      *)
(* unsettled, and the live leases of an extension stay within what         *)
(* ensureExtensionDatabaseRuntimeLeaseCapacity allows.                     *)
THEOREM LeasesStayBounded == LeaseConstants /\ RuntimeLeaseSpec => []LeaseTypes
<1>1. QED
  BY LeasesTyped, LeaseStart, LeaseStep, PTL DEF RuntimeLeaseSpec

(* However renewals fail, are lost or committed late, a process whose      *)
(* heartbeat is scheduled is killed before its role stops to log in.       *)
THEOREM ProcessesEndFirst == LeaseConstants /\ RuntimeLeaseSpec => []KilledBeforeExpiry
<1>1. LeaseInv => KilledBeforeExpiry
  <2> SUFFICES ASSUME LeaseInv, NEW l \in Leases, at[l] = "running", l \notin stalled
               PROVE  status[l] = "active" /\ ttl[l] > 0
    BY LeasesTyped DEF KilledBeforeExpiry
  <2>1. QED
    BY LeaseFacts DEF Ahead
<1>2. QED
  BY <1>1, LeaseStart, LeaseStep, PTL DEF RuntimeLeaseSpec
=============================================================================
