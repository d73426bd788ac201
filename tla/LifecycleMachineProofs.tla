----------------------- MODULE LifecycleMachineProofs -----------------------
(***************************************************************************)
(* The lifecycle state machine (LifecycleMachineRun): whatever transitions *)
(* are asked for, the snapshot stays one that validateLifecycleMachine     *)
(* accepts, and no gate is left out.  Its constants are the six paths, so  *)
(* these theorems have no hypothesis.                                      *)
(***************************************************************************)
EXTENDS LifecycleMachineRun, TLAPS

-----------------------------------------------------------------------------
(* Paths.                                                                  *)
IsPath(path) ==
    /\ Len(path) \in Nat /\ Len(path) > 3 /\ DOMAIN path = 1..Len(path)
    /\ \A i \in 1..Len(path) : path[i].state \in GateStates
    /\ path[1] = HostGate("planned")

LEMMA PathNames ==
  /\ Operations = {"install", "enable", "disable", "upgrade", "rollback", "uninstall"}
  /\ \A op \in Operations : IsPath(lifecycleRecommendedPaths[op])
<1> USE DEF lifecycleRecommendedPaths, GateStates, IsPath, Gate, HostGate, PluginGate
<1>1. IsPath(lifecycleRecommendedPaths["install"])
  OBVIOUS
<1>2. IsPath(lifecycleRecommendedPaths["enable"])
  OBVIOUS
<1>3. IsPath(lifecycleRecommendedPaths["disable"])
  OBVIOUS
<1>4. IsPath(lifecycleRecommendedPaths["upgrade"])
  OBVIOUS
<1>5. IsPath(lifecycleRecommendedPaths["rollback"])
  OBVIOUS
<1>6. IsPath(lifecycleRecommendedPaths["uninstall"])
  OBVIOUS
<1>7. Operations = {"install", "enable", "disable", "upgrade", "rollback", "uninstall"}
  BY DEF Operations
<1> HIDE DEF lifecycleRecommendedPaths, GateStates, IsPath, Gate, HostGate, PluginGate
<1>8. QED
  BY <1>1, <1>2, <1>3, <1>4, <1>5, <1>6, <1>7

(* Every path has a first gate, which the host runs, and a later last one; *)
(* its gates have the states and actions of gates.                         *)
LEMMA Paths ==
  ASSUME NEW op \in Operations
  PROVE  /\ LastPosition(op) \in Nat /\ LastPosition(op) > 0
         /\ \A p \in PathOf(op) : GateAt(op, p).state \in GateStates /\ GateAt(op, p).action \in GateActions
         /\ GateAt(op, 0).state = "planned" /\ GateAt(op, 0).action = NoAction /\ IsHostGate(op, 0)
<1>1. IsPath(lifecycleRecommendedPaths[op])
  BY PathNames
<1>2. LastPosition(op) \in Nat /\ LastPosition(op) > 0
  BY <1>1 DEF IsPath, LastPosition
<1>3. ASSUME NEW p \in PathOf(op)
      PROVE  GateAt(op, p).state \in GateStates /\ GateAt(op, p).action \in GateActions
  <2>1. p + 1 \in 1..Len(lifecycleRecommendedPaths[op])
    BY <1>1, <1>2 DEF IsPath, LastPosition, PathOf
  <2>2. QED
    BY <1>1, <2>1 DEF IsPath, GateAt, GateActions
<1>4. GateAt(op, 0) = HostGate("planned")
  BY <1>1 DEF IsPath, GateAt
<1>5. QED
  BY <1>2, <1>3, <1>4 DEF HostGate, Gate, IsHostGate

(* The paths of the first version were as long or shorter.                 *)
LEMMA OldPaths ==
  ASSUME NEW op \in Operations
  PROVE  /\ V1LastPosition[op] \in 1..LastPosition(op)
         /\ op = "upgrade" => V1LastPosition[op] = 8 /\ LastPosition(op) = 10
<1>1. LastPosition(op) \in Nat /\ LastPosition(op) > 0
  BY Paths
<1>2. CASE op = "disable"
  <2>1. LastPosition(op) = 3 /\ V1LastPosition[op] = 2
    BY <1>2 DEF LastPosition, V1LastPosition, lifecycleRecommendedPaths
  <2>2. QED
    BY <1>2, <2>1
<1>3. CASE op = "upgrade"
  <2>1. LastPosition(op) = 10 /\ V1LastPosition[op] = 8
    BY <1>3 DEF LastPosition, V1LastPosition, lifecycleRecommendedPaths
  <2>2. QED
    BY <1>3, <2>1
<1>4. CASE op = "uninstall"
  <2>1. LastPosition(op) = 6 /\ V1LastPosition[op] = 5
    BY <1>4 DEF LastPosition, V1LastPosition, lifecycleRecommendedPaths
  <2>2. QED
    BY <1>4, <2>1
<1>5. CASE op \notin {"disable", "upgrade", "uninstall"}
  BY <1>1, <1>5 DEF V1LastPosition
<1>6. QED
  BY <1>2, <1>3, <1>4, <1>5

-----------------------------------------------------------------------------
(* Transitions.                                                            *)
Valid(m) == m.operation \in Operations /\ m \in Snapshots(m.operation) /\ validateLifecycleMachine(m)

IsTransition(t) ==
    /\ {t.complete, t.retry, t.skip, t.escalate} \subseteq BOOLEAN
    /\ t.terminal \in MachineTerminals /\ t.units \in Int

(* What counts of a valid machine, gate by gate.                           *)
LEMMA ValidFacts ==
  ASSUME NEW m, Valid(m)
  PROVE  LET gate == GateAt(m.operation, m.position) IN
         /\ m.operation \in Operations /\ LastPosition(m.operation) \in Nat /\ LastPosition(m.operation) > 0
         /\ m.position \in PathOf(m.operation) /\ m.recovery \in PathOf(m.operation)
         /\ m.units \in PathOf(m.operation) /\ m.total = LastPosition(m.operation)
         /\ m.marker \in PathOf(m.operation) \cup {NoMarker} /\ m.action \in GateActions
         /\ {m.complete, m.forced, m.sideEffects} \subseteq BOOLEAN /\ m.terminal \in MachineTerminals
         /\ gate.state \in GateStates /\ gate.action \in GateActions /\ NoAction \in GateActions
         /\ m.forced => m.operation = "uninstall"
         /\ m.marker # NoMarker => IsHostGate(m.operation, m.marker)
         /\ m.state \in GateStates =>
              /\ m.state = gate.state /\ m.action = gate.action /\ m.terminal \notin FailureTerminals
              /\ m.terminal = "succeeded" =>
                   m.position = LastPosition(m.operation) /\ m.complete /\ m.units = m.total
              /\ m.terminal = "skipped" => m.position = 0 /\ m.complete /\ ~m.sideEffects
         /\ m.state \notin GateStates =>
              /\ m.recovery = m.position /\ ~m.complete
              /\ \/ m.state = "failed" /\ m.terminal \in FailureTerminals /\ m.action = gate.action
                 \/ m.state = "recovery" /\ m.terminal = NoTerminal /\ m.action = NoAction
<1>1. /\ m.operation \in Operations /\ LastPosition(m.operation) \in Nat /\ LastPosition(m.operation) > 0
      /\ m.position \in PathOf(m.operation) /\ m.recovery \in PathOf(m.operation)
      /\ m.units \in PathOf(m.operation) /\ m.total = LastPosition(m.operation)
      /\ m.marker \in PathOf(m.operation) \cup {NoMarker} /\ m.action \in GateActions
      /\ {m.complete, m.forced, m.sideEffects} \subseteq BOOLEAN /\ m.terminal \in MachineTerminals
  BY Paths DEF Valid, Snapshots
<1>2. /\ GateAt(m.operation, m.position).state \in GateStates
      /\ GateAt(m.operation, m.position).action \in GateActions
      /\ NoAction \in GateActions
  <2>1. 0 \in PathOf(m.operation)
    BY <1>1 DEF PathOf
  <2>2. QED
    BY <1>1, <2>1, Paths
<1>3. "failed" \notin GateStates /\ "recovery" \notin GateStates
  BY DEF GateStates
<1>4. QED
  BY <1>1, <1>2, <1>3 DEF Valid, validateLifecycleMachine

(* The other way round.                                                    *)
LEMMA ValidBy ==
  ASSUME NEW op \in Operations, NEW k \in Snapshots(op),
         k.forced => op = "uninstall",
         k.marker # NoMarker => IsHostGate(op, k.marker),
         \/ /\ k.state = "failed" /\ k.terminal \in FailureTerminals
            /\ k.recovery = k.position /\ k.action = GateAt(op, k.position).action /\ ~k.complete
         \/ /\ k.state = "recovery" /\ k.terminal = NoTerminal
            /\ k.recovery = k.position /\ k.action = NoAction /\ ~k.complete
         \/ /\ k.state = GateAt(op, k.position).state /\ k.action = GateAt(op, k.position).action
            /\ k.terminal \notin FailureTerminals
            /\ k.terminal = "succeeded" =>
                 k.position = LastPosition(op) /\ k.complete /\ k.units = LastPosition(op)
            /\ k.terminal = "skipped" => k.position = 0 /\ k.complete /\ ~k.sideEffects
  PROVE  Valid(k)
<1>1. /\ k.operation = op /\ k.position \in 0..LastPosition(op) /\ k.units \in 0..LastPosition(op)
      /\ k.marker \in 0..LastPosition(op) \cup {NoMarker} /\ k.total = LastPosition(op)
      /\ LastPosition(op) \in Nat
  BY Paths DEF Snapshots, PathOf
<1>2. validateLifecycleMachine(k)
  BY <1>1 DEF validateLifecycleMachine
<1>3. QED
  BY <1>1, <1>2 DEF Valid

(* A valid transition of a valid machine yields a valid machine of the same*)
(* operation; it moves on by one from a complete gate only, and completes a*)
(* gate only when asked to, or by skipping one that may be skipped.        *)
LEMMA TransitionKeepsValid ==
  ASSUME NEW m, NEW t, Valid(m), IsTransition(t), ValidateLifecycleTransition(m, t)
  PROVE  LET k == ApplyLifecycleTransition(m, t) IN
         /\ Valid(k) /\ k.operation = m.operation
         /\ k.forced = (m.forced \/ t.escalate) /\ k.marker = m.marker
         /\ \/ k.position = m.position /\ (k.complete => m.complete \/ t.complete \/ t.skip)
            \/ k.position = m.position + 1 /\ m.complete /\ ~k.complete
         /\ t.complete => ~m.complete /\ m.state \in GateStates
         /\ t.skip => /\ m.recovery = m.position /\ MaySkip(m, t, GateAt(m.operation, m.position))
<1> DEFINE op == m.operation
           here == GateAt(op, m.position)
           n == [m EXCEPT !.units = t.units, !.forced = @ \/ t.escalate]
           k == ApplyLifecycleTransition(m, t)
           Shape(x) == /\ x \in Snapshots(op) /\ x.forced = (m.forced \/ t.escalate)
                       /\ x.marker = m.marker /\ x.sideEffects = m.sideEffects
<1>1. /\ op \in Operations /\ LastPosition(op) \in Nat /\ LastPosition(op) > 0
      /\ m \in Snapshots(op) /\ m.total = LastPosition(op)
      /\ m.position \in PathOf(op) /\ m.units \in PathOf(op)
      /\ here.state \in GateStates /\ here.action \in GateActions /\ NoAction \in GateActions
      /\ m.forced => op = "uninstall"
      /\ m.marker # NoMarker => IsHostGate(op, m.marker)
  BY ValidFacts DEF Valid
<1>2. /\ t.units \in PathOf(op) /\ t.units <= LastPosition(op) /\ (t.escalate => op = "uninstall")
  BY <1>1 DEF ValidateLifecycleTransition, validateLifecycleMachineProgress, IsTransition, PathOf
<1>3. /\ Shape(n) /\ n.operation = op /\ n.position = m.position /\ n.recovery = m.recovery
      /\ n.complete = m.complete /\ n.terminal = m.terminal /\ n.state = m.state /\ n.action = m.action
      /\ n.units = t.units
  BY <1>1, <1>2 DEF Snapshots, IsTransition
<1>4. "failed" \notin GateStates /\ "recovery" \notin GateStates /\ NoTerminal \notin FailureTerminals
      /\ "succeeded" \notin FailureTerminals /\ "skipped" \notin FailureTerminals
      /\ FailureTerminals \subseteq MachineTerminals /\ NoTerminal \in MachineTerminals
      /\ GateStates \subseteq MachineStates /\ {"failed", "recovery"} \subseteq MachineStates
      /\ NoTerminal \notin {"succeeded", "skipped"}
  BY DEF GateStates, FailureTerminals, NoTerminal, MachineStates, MachineTerminals
<1>5. t.complete \in BOOLEAN /\ t.skip \in BOOLEAN /\ t.escalate \in BOOLEAN
  BY DEF IsTransition
<1> HIDE DEF n
<1>6. CASE m.terminal # NoTerminal
  <2>1. k = Retried(n) /\ validateLifecycleRetry(m, t)
    BY <1>6 DEF ApplyLifecycleTransition, ValidateLifecycleTransition, n
  <2>2. m.terminal \in FailureTerminals /\ ~t.complete /\ ~t.skip
    BY <2>1 DEF validateLifecycleRetry
  <2>3. m.recovery = m.position
    BY <2>2, ValidFacts, <1>4
  <2> HIDE DEF k
  <2>4. /\ Shape(k) /\ k.state = "recovery" /\ k.action = NoAction /\ k.terminal = NoTerminal
        /\ ~k.complete /\ k.position = m.position /\ k.recovery = m.position
    BY <1>1, <1>3, <1>4, <2>1, <2>3 DEF Retried, Snapshots
  <2>5. Valid(k)
    BY <1>1, <1>2, <2>4, ValidBy
  <2>6. QED
    BY <1>1, <2>2, <2>4, <2>5 DEF k, Snapshots
<1>7. CASE m.terminal = NoTerminal /\ m.state = "recovery"
  <2>1. k = Reentered(n, t) /\ validateLifecycleRecovery(m, t)
    BY <1>7 DEF ApplyLifecycleTransition, ValidateLifecycleTransition, n
  <2>2. m.recovery = m.position
    BY <1>4, <1>7, ValidFacts
  <2>3. ~t.complete /\ (t.skip => MaySkip(m, t, here))
    BY <2>1, <2>2 DEF validateLifecycleRecovery
  <2> HIDE DEF k
  <2>4. /\ Shape(k) /\ k.state = here.state /\ k.action = here.action /\ k.terminal = NoTerminal
        /\ k.complete = t.skip /\ k.position = m.position
    BY <1>1, <1>3, <1>4, <1>5, <1>7, <2>1, <2>2 DEF Reentered, Snapshots
  <2>5. Valid(k)
    BY <1>1, <1>2, <1>4, <2>4, ValidBy
  <2>6. QED
    BY <1>1, <2>2, <2>3, <2>4, <2>5 DEF k, Snapshots
<1>8. ASSUME m.terminal = NoTerminal, m.state # "recovery"
      PROVE  m.state = here.state /\ m.action = here.action /\ m.state \in GateStates
  BY <1>4, <1>8, ValidFacts
<1>9. CASE m.terminal = NoTerminal /\ m.state # "recovery" /\ t.terminal # NoTerminal
  <2>1. k = Closed(n, t) /\ validateLifecycleTerminal(m, t)
    BY <1>9 DEF ApplyLifecycleTransition, ValidateLifecycleTransition, n
  <2>2. ~t.complete /\ ~t.skip
    BY <2>1 DEF validateLifecycleTerminal
  <2> HIDE DEF k
  <2>3. CASE t.terminal \in FailureTerminals
    <3>1. ~m.complete
      BY <1>4, <2>1, <2>3 DEF validateLifecycleTerminal
    <3>2. /\ Shape(k) /\ k.state = "failed" /\ k.action = here.action /\ k.terminal = t.terminal
          /\ ~k.complete /\ k.position = m.position /\ k.recovery = m.position
      BY <1>1, <1>3, <1>4, <1>8, <1>9, <2>1, <2>3 DEF Closed, Snapshots
    <3>3. Valid(k)
      BY <1>1, <1>2, <2>3, <3>2, ValidBy
    <3>4. QED
      BY <1>1, <2>2, <3>2, <3>3 DEF k, Snapshots
  <2>4. CASE t.terminal \notin FailureTerminals
    <3>1. /\ t.terminal \in {"succeeded", "skipped"}
          /\ t.terminal = "succeeded" => m.position = LastPosition(op) /\ m.complete /\ t.units = LastPosition(op)
          /\ t.terminal = "skipped" => m.position = 0 /\ m.complete /\ ~m.sideEffects
      BY <1>1, <2>1, <2>4 DEF validateLifecycleTerminal
    <3>2. /\ Shape(k) /\ k.state = here.state /\ k.action = here.action /\ k.terminal = t.terminal
          /\ k.complete = m.complete /\ k.position = m.position /\ k.units = t.units
      BY <1>1, <1>3, <1>4, <1>8, <1>9, <2>1, <2>4, <3>1 DEF Closed, Snapshots, MachineTerminals
    <3>3. Valid(k)
      BY <1>1, <1>2, <2>4, <3>1, <3>2, ValidBy
    <3>4. QED
      BY <1>1, <2>2, <3>2, <3>3 DEF k, Snapshots
  <2>5. QED
    BY <2>3, <2>4
<1>10. CASE /\ m.terminal = NoTerminal /\ m.state # "recovery" /\ t.terminal = NoTerminal
            /\ SameGate(m, t)
  <2>1. k = [n EXCEPT !.complete = t.complete] /\ ~m.complete /\ ~t.skip
    BY <1>10 DEF ApplyLifecycleTransition, ValidateLifecycleTransition, n
  <2> HIDE DEF k
  <2>2. /\ Shape(k) /\ k.state = here.state /\ k.action = here.action /\ k.terminal = NoTerminal
        /\ k.complete = t.complete /\ k.position = m.position
    BY <1>1, <1>3, <1>5, <1>8, <1>10, <2>1 DEF Snapshots
  <2>3. Valid(k)
    BY <1>1, <1>2, <1>4, <2>2, ValidBy
  <2>4. QED
    BY <1>1, <1>8, <1>10, <2>1, <2>2, <2>3 DEF k, Snapshots
<1>11. CASE /\ m.terminal = NoTerminal /\ m.state # "recovery" /\ t.terminal = NoTerminal
            /\ ~SameGate(m, t)
  <2>1. k = Advanced(n, t) /\ MayAdvance(m, t) /\ ~t.skip
    BY <1>11 DEF ApplyLifecycleTransition, ValidateLifecycleTransition, n
  <2>2. /\ m.complete /\ m.position + 1 \in PathOf(op) /\ ~t.complete
        /\ t.state = GateAt(op, m.position + 1).state /\ t.action = GateAt(op, m.position + 1).action
    BY <1>1, <2>1 DEF MayAdvance, PathOf
  <2>3. t.state \in GateStates /\ t.action \in GateActions
    BY <1>1, <2>2, Paths
  <2> HIDE DEF k
  <2>4. /\ Shape(k) /\ k.state = t.state /\ k.action = t.action /\ k.terminal = NoTerminal
        /\ ~k.complete /\ k.position = m.position + 1
    BY <1>1, <1>3, <1>4, <1>11, <2>1, <2>2, <2>3 DEF Advanced, Snapshots
  <2>5. Valid(k)
    BY <1>1, <1>2, <1>4, <2>2, <2>4, ValidBy
  <2>6. QED
    BY <1>1, <2>1, <2>2, <2>4, <2>5 DEF k, Snapshots
<1>12. QED
  BY <1>6, <1>7, <1>9, <1>10, <1>11

-----------------------------------------------------------------------------
(* Snapshots of the first version: a gate of its path that is complete,    *)
(* running, failed, or recovered, or an operation that is over.            *)
OldSnapshots(op) ==
    [operation : {op}, state : MachineStates, action : GateActions, position : PathOf(op),
     complete : BOOLEAN, terminal : MachineTerminals, forced : BOOLEAN, recovery : PathOf(op),
     marker : {NoMarker}, sideEffects : {FALSE}, units : PathOf(op), total : Int]
OldShape(op, v) ==
    LET gate == V1GateAt(op, v.position) IN
    /\ v \in OldSnapshots(op) /\ v.position <= V1LastPosition[op] /\ (v.forced => op = "uninstall")
    /\ \/ /\ v.state = "failed" /\ v.terminal \in FailureTerminals /\ v.action = gate.action
          /\ v.recovery = v.position /\ ~v.complete /\ v.position > 0
       \/ /\ v.state = "recovery" /\ v.terminal = NoTerminal /\ v.action = NoAction
          /\ v.recovery = v.position /\ ~v.complete /\ v.position > 0
       \/ /\ v.state = gate.state /\ v.action = gate.action /\ v.terminal \notin FailureTerminals
          /\ v.position = 0 => v.complete
          /\ v.terminal = "succeeded" =>
               v.position = V1LastPosition[op] /\ v.complete /\ v.units = v.position
          /\ v.terminal = "skipped" => v.position = 0 /\ v.complete

LEMMA OldGates ==
  ASSUME NEW op \in Operations, NEW p \in 0..V1LastPosition[op]
  PROVE  /\ p \in PathOf(op) /\ V1GateAt(op, p).state \in GateStates
         /\ V1GateAt(op, p).action \in GateActions
<1>1. p \in PathOf(op) /\ (op = "upgrade" => 9 \in PathOf(op))
  BY Paths, OldPaths DEF PathOf
<1>2. QED
  BY <1>1, Paths DEF V1GateAt

OldAt(op, f, v) ==
    /\ v \in OldSnapshots(op) /\ v.forced = f /\ v.position <= V1LastPosition[op]
    /\ v.action = V1GateAt(op, v.position).action
OldHere(op, f, v) ==
    OldAt(op, f, v) /\ v.state = V1GateAt(op, v.position).state /\ v.terminal = NoTerminal

LEMMA OldFacts ==
  ASSUME NEW op \in Operations, NEW f \in BOOLEAN, f => op = "uninstall",
         NEW v \in V1Snapshots(op, f)
  PROVE  OldShape(op, v)
<1> DEFINE Complete == {V1Complete(op, f, p) : p \in 0..V1LastPosition[op]}
           Running == {V1Running(w) : w \in {w \in Complete : w.position > 0}}
           Failed == {V1Failed(w, t) : w \in Running, t \in FailureTerminals}
           Recovered == {V1Retried(w) : w \in Failed}
           Over == {V1Closed(w) : w \in {w \in Complete : w.position \in {0, V1LastPosition[op]}}}
<1>1. /\ LastPosition(op) \in Nat /\ 0 \in PathOf(op) /\ V1LastPosition[op] \in 1..LastPosition(op)
      /\ GateStates \subseteq MachineStates /\ {"failed", "recovery"} \subseteq MachineStates
      /\ NoTerminal \in MachineTerminals /\ FailureTerminals \subseteq MachineTerminals
      /\ NoTerminal \notin FailureTerminals /\ "succeeded" \notin FailureTerminals
      /\ "skipped" \notin FailureTerminals /\ NoTerminal # "succeeded" /\ NoTerminal # "skipped"
      /\ "succeeded" \in MachineTerminals /\ "skipped" \in MachineTerminals /\ NoAction \in GateActions
      /\ GateAt(op, 0).state \in GateStates /\ GateAt(op, 0).action \in GateActions
  <2>1. LastPosition(op) \in Nat /\ 0 \in PathOf(op) /\ V1LastPosition[op] \in 1..LastPosition(op)
    BY Paths, OldPaths DEF PathOf
  <2>2. /\ NoTerminal \notin FailureTerminals /\ NoTerminal # "succeeded" /\ NoTerminal # "skipped"
        /\ "succeeded" \notin FailureTerminals /\ "skipped" \notin FailureTerminals
    BY DEF FailureTerminals, NoTerminal
  <2>3. QED
    BY <2>1, <2>2, Paths DEF MachineStates, MachineTerminals
<1>2. ASSUME NEW w \in Complete PROVE OldHere(op, f, w) /\ w.complete /\ w.units = w.position
  <2>1. PICK p \in 0..V1LastPosition[op] : w = V1Complete(op, f, p)
    OBVIOUS
  <2>2. /\ p \in PathOf(op) /\ V1GateAt(op, p).state \in MachineStates
        /\ V1GateAt(op, p).action \in GateActions /\ p <= V1LastPosition[op]
    BY <1>1, OldGates
  <2> DEFINE fresh == NewLifecycleStateMachine(op, f)
  <2>3. fresh \in OldSnapshots(op) /\ fresh.terminal = NoTerminal /\ fresh.forced = f
    BY <1>1 DEF NewLifecycleStateMachine, OldSnapshots
  <2> HIDE DEF fresh, Complete
  <2>4. V1LastPosition[op] \in Int
    BY <1>1
  <2>5. w = [fresh EXCEPT !.total = V1LastPosition[op], !.complete = TRUE, !.position = p, !.units = p,
               !.state = V1GateAt(op, p).state, !.action = V1GateAt(op, p).action]
    BY <2>1 DEF V1Complete, fresh
  <2>6. QED
    BY <2>2, <2>3, <2>4, <2>5 DEF OldSnapshots, OldHere, OldAt
<1>3. ASSUME NEW w \in Running PROVE OldHere(op, f, w) /\ ~w.complete /\ w.position > 0
  <2>1. PICK x \in Complete : x.position > 0 /\ w = V1Running(x)
    OBVIOUS
  <2>2. OldHere(op, f, x) /\ x.units = x.position
    BY <1>2, <2>1
  <2>3. x.position - 1 \in PathOf(op)
    BY <1>1, <2>1, <2>2 DEF PathOf, OldHere, OldAt, OldSnapshots
  <2> HIDE DEF Complete, Running
  <2>4. QED
    BY <2>1, <2>2, <2>3 DEF V1Running, OldSnapshots, OldHere, OldAt
<1>4. ASSUME NEW w \in Failed
      PROVE  /\ OldAt(op, f, w) /\ w.state = "failed" /\ w.terminal \in FailureTerminals
             /\ w.recovery = w.position /\ ~w.complete /\ w.position > 0
  <2>1. PICK x \in Running, t \in FailureTerminals : w = V1Failed(x, t)
    OBVIOUS
  <2>2. OldHere(op, f, x) /\ ~x.complete /\ x.position > 0
    BY <1>3
  <2> HIDE DEF Complete, Running, Failed
  <2>3. QED
    BY <1>1, <2>1, <2>2 DEF V1Failed, OldSnapshots, OldHere, OldAt
<1>5. ASSUME NEW w \in Recovered
      PROVE  /\ w \in OldSnapshots(op) /\ w.forced = f /\ w.position <= V1LastPosition[op]
             /\ w.action = NoAction /\ w.state = "recovery" /\ w.terminal = NoTerminal
             /\ w.recovery = w.position /\ ~w.complete /\ w.position > 0
  <2>1. PICK x \in Failed : w = V1Retried(x)
    OBVIOUS
  <2>2. OldAt(op, f, x) /\ x.recovery = x.position /\ ~x.complete /\ x.position > 0
    BY <1>4
  <2> HIDE DEF Complete, Running, Failed, Recovered
  <2>3. QED
    BY <1>1, <2>1, <2>2 DEF V1Retried, OldSnapshots, OldAt
<1>6. ASSUME NEW w \in Over
      PROVE  /\ OldAt(op, f, w) /\ w.state = V1GateAt(op, w.position).state /\ w.complete
             /\ w.units = w.position
             /\ \/ w.terminal = "skipped" /\ w.position = 0
                \/ w.terminal = "succeeded" /\ w.position = V1LastPosition[op]
  <2>1. PICK x \in Complete : x.position \in {0, V1LastPosition[op]} /\ w = V1Closed(x)
    OBVIOUS
  <2>2. OldHere(op, f, x) /\ x.complete /\ x.units = x.position
    BY <1>2
  <2> HIDE DEF Complete, Over
  <2>3. QED
    BY <1>1, <2>1, <2>2 DEF V1Closed, OldSnapshots, OldHere, OldAt
<1>7. v \in Complete \cup Running \cup Failed \cup Recovered \cup Over
  BY DEF V1Snapshots
<1> HIDE DEF Complete, Running, Failed, Recovered, Over
<1>8. v \in OldSnapshots(op) /\ v.forced = f /\ v.position <= V1LastPosition[op]
  BY <1>2, <1>3, <1>4, <1>5, <1>6, <1>7 DEF OldHere, OldAt
<1>9. CASE v \in Complete
  BY <1>1, <1>2, <1>8, <1>9 DEF OldShape, OldHere, OldAt
<1>10. CASE v \in Running
  BY <1>1, <1>3, <1>8, <1>10 DEF OldShape, OldHere, OldAt
<1>11. CASE v \in Failed
  BY <1>4, <1>8, <1>11 DEF OldShape, OldAt
<1>12. CASE v \in Recovered
  BY <1>5, <1>8, <1>12 DEF OldShape
<1>13. CASE v \in Over
  BY <1>1, <1>6, <1>8, <1>13 DEF OldShape, OldAt
<1>14. QED
  BY <1>7, <1>9, <1>10, <1>11, <1>12, <1>13

(* What migration makes of them is valid today.                            *)
LEMMA MigrationIsValid ==
  ASSUME NEW op \in Operations, NEW v, OldShape(op, v), NEW ready \in BOOLEAN
  PROVE  Valid(migrateLifecycleCoordinatorV1(v, ready))
<1> DEFINE last == LastPosition(op)
           k == migrateLifecycleCoordinatorV1(v, ready)
           n == IF V1LastPosition[op] # last /\ v.terminal = "succeeded" THEN Finished(v)
                ELSE IF op = "upgrade" /\ v.position = 8 THEN BehindActivation(v)
                ELSE v
           Gate0(w) == GateAt(op, w.position)
           Alike(w) ==
               \/ /\ w.state = "failed" /\ w.terminal \in FailureTerminals /\ w.action = Gate0(w).action
                  /\ w.recovery = w.position /\ ~w.complete /\ w.position > 0
               \/ /\ w.state = "recovery" /\ w.terminal = NoTerminal /\ w.action = NoAction
                  /\ w.recovery = w.position /\ ~w.complete /\ w.position > 0
               \/ /\ w.state = Gate0(w).state /\ w.action = Gate0(w).action
                  /\ w.terminal \notin FailureTerminals
                  /\ w.terminal = "succeeded" => w.position = last /\ w.complete /\ w.units = last
                  /\ w.terminal = "skipped" => w.position = 0 /\ w.complete
<1>1. /\ v \in OldSnapshots(op) /\ v.operation = op /\ last \in Nat /\ last > 0 /\ V1LastPosition[op] \in 1..last
      /\ op = "upgrade" => V1LastPosition[op] = 8 /\ last = 10
      /\ v.position \in 0..V1LastPosition[op] /\ (v.forced => op = "uninstall")
      /\ "succeeded" \notin FailureTerminals /\ "skipped" \notin FailureTerminals
      /\ NoTerminal \notin FailureTerminals /\ NoTerminal # "succeeded"
  <2>1. v \in OldSnapshots(op) /\ v.position <= V1LastPosition[op] /\ (v.forced => op = "uninstall")
    BY DEF OldShape
  <2>2. /\ last \in Nat /\ last > 0 /\ V1LastPosition[op] \in 1..last
        /\ op = "upgrade" => V1LastPosition[op] = 8 /\ last = 10
    BY Paths, OldPaths
  <2>3. v.operation = op /\ v.position \in 0..V1LastPosition[op]
    BY <2>1, <2>2 DEF OldSnapshots, PathOf
  <2>4. QED
    BY <2>1, <2>2, <2>3 DEF FailureTerminals, NoTerminal
<1>2. /\ GateAt(op, last).state \in MachineStates /\ GateAt(op, last).action \in GateActions
      /\ last \in PathOf(op) /\ 0 \in PathOf(op) /\ IsHostGate(op, 0)
  <2>1. last \in PathOf(op) /\ 0 \in PathOf(op)
    BY <1>1 DEF PathOf
  <2>2. QED
    BY <2>1, Paths DEF MachineStates
<1>3. n \in OldSnapshots(op) /\ n.forced = v.forced /\ n.terminal = v.terminal /\ Alike(n)
  <2>1. CASE V1LastPosition[op] # last /\ v.terminal = "succeeded"
    <3>1. n = Finished(v)
      BY <2>1
    <3> HIDE DEF n
    <3>2. /\ n \in OldSnapshots(op) /\ n.forced = v.forced /\ n.terminal = v.terminal /\ n.position = last
          /\ n.state = GateAt(op, last).state /\ n.action = GateAt(op, last).action
          /\ n.complete /\ n.units = last
      BY <1>1, <1>2, <3>1 DEF Finished, OldSnapshots
    <3>3. QED
      BY <1>1, <2>1, <3>2
  <2>2. CASE ~(V1LastPosition[op] # last /\ v.terminal = "succeeded") /\ op = "upgrade" /\ v.position = 8
    <3>1. n = BehindActivation(v)
      BY <2>2
    <3> HIDE DEF n
    <3>2. 9 \in PathOf(op) /\ V1GateAt(op, v.position) = GateAt(op, 9) /\ v.terminal # "succeeded"
      BY <1>1, <2>2 DEF PathOf, V1GateAt
    <3>3. /\ n \in OldSnapshots(op) /\ n.forced = v.forced /\ n.terminal = v.terminal /\ n.position = 9
          /\ n.recovery = 9 /\ n.state = v.state /\ n.action = v.action /\ n.complete = v.complete
      BY <1>1, <3>1, <3>2 DEF BehindActivation, OldSnapshots
    <3>4. QED
      BY <1>1, <2>2, <3>2, <3>3 DEF OldShape
  <2>3. CASE ~(V1LastPosition[op] # last /\ v.terminal = "succeeded") /\ ~(op = "upgrade" /\ v.position = 8)
    <3>1. n = v /\ V1GateAt(op, v.position) = GateAt(op, v.position)
      BY <2>3 DEF V1GateAt
    <3> HIDE DEF n
    <3>2. v.terminal = "succeeded" => v.position = last /\ v.complete /\ v.units = last
      BY <1>1, <2>3 DEF OldShape
    <3>3. QED
      BY <1>1, <3>1, <3>2 DEF OldShape
  <2>4. QED
    BY <2>1, <2>2, <2>3
<1>4. k = [n EXCEPT !.total = last,
                    !.complete = IF /\ v.terminal \notin {"succeeded", "skipped"}
                                    /\ n.position = 0 /\ n.state = "planned" /\ n.action = NoAction
                                 THEN FALSE ELSE @,
                    !.marker = IF v.terminal \notin {"succeeded", "skipped"} /\ n.position > 0 /\ ~ready
                               THEN 0 ELSE @]
  BY <1>1 DEF migrateLifecycleCoordinatorV1, OldSnapshots
<1> HIDE DEF n, k
<1>5. /\ k \in Snapshots(op) /\ k.forced = n.forced /\ k.state = n.state /\ k.action = n.action
      /\ k.position = n.position /\ k.recovery = n.recovery /\ k.terminal = n.terminal
      /\ k.units = n.units /\ ~k.sideEffects /\ k.marker \in {NoMarker, 0}
      /\ k.complete => n.complete
      /\ n.terminal \in {"succeeded", "skipped"} => k.complete = n.complete
  BY <1>1, <1>2, <1>3, <1>4 DEF Snapshots, OldSnapshots
<1>6. QED
  BY <1>1, <1>2, <1>3, <1>5, ValidBy DEF k

-----------------------------------------------------------------------------
(* The run.  A complete gate was passed or skipped, and so was every gate  *)
(* before the current one.                                                 *)
Covered(p) == p \in passed \/ <<p, TRUE>> \in skipped \/ <<p, FALSE>> \in skipped

SkipsAllowed ==
    \A s \in skipped :
        /\ ~IsHostGate(snapshot.operation, s[1]) /\ GateAt(snapshot.operation, s[1]).skippable
        /\ GateAt(snapshot.operation, s[1]).force => s[2]

MachineInv ==
    /\ Valid(snapshot)
    /\ passed \subseteq PathOf(snapshot.operation)
    /\ skipped \subseteq PathOf(snapshot.operation) \X BOOLEAN
    /\ \A p \in PathOf(snapshot.operation) : p < snapshot.position => Covered(p)
    /\ snapshot.complete => Covered(snapshot.position)
    /\ SkipsAllowed

LEMMA NewIsValid ==
  ASSUME NEW op \in Operations, NEW f \in BOOLEAN, f => op = "uninstall"
  PROVE  Valid(Created(op, f))
<1> DEFINE fresh == NewLifecycleStateMachine(op, f)
           k == Created(op, f)
<1>1. /\ 0 \in PathOf(op) /\ GateStates \subseteq MachineStates /\ NoTerminal \in MachineTerminals
      /\ GateAt(op, 0).state \in GateStates /\ GateAt(op, 0).action \in GateActions
      /\ NoTerminal \notin FailureTerminals /\ NoTerminal # "succeeded" /\ NoTerminal # "skipped"
  BY Paths DEF PathOf, MachineStates, MachineTerminals, FailureTerminals, NoTerminal
<1>2. /\ fresh \in [operation : {op}, state : MachineStates, action : GateActions,
           position : PathOf(op), complete : BOOLEAN, terminal : MachineTerminals, forced : BOOLEAN,
           recovery : PathOf(op), marker : PathOf(op) \cup {NoMarker}, sideEffects : BOOLEAN,
           units : PathOf(op), total : Int]
      /\ fresh.position = 0 /\ fresh.terminal = NoTerminal /\ ~fresh.complete /\ fresh.forced = f
      /\ fresh.marker = NoMarker /\ fresh.state = GateAt(op, 0).state /\ fresh.action = GateAt(op, 0).action
  BY <1>1 DEF NewLifecycleStateMachine
<1> HIDE DEF fresh
<1>3. k = [fresh EXCEPT !.total = LastPosition(op)]
  BY DEF Created, fresh
<1> HIDE DEF k
<1>4. /\ k \in Snapshots(op) /\ k.position = 0 /\ k.terminal = NoTerminal /\ ~k.complete
      /\ k.forced = f /\ k.marker = NoMarker
      /\ k.state = GateAt(op, 0).state /\ k.action = GateAt(op, 0).action
  BY <1>2, <1>3 DEF Snapshots
<1>5. QED
  BY <1>1, <1>4, ValidBy DEF k

LEMMA MachineStart == MachineInit => MachineInv
<1> SUFFICES ASSUME MachineInit PROVE MachineInv
  OBVIOUS
<1>1. Valid(snapshot)
  <2>1. PICK op \in Operations, f \in BOOLEAN :
          /\ f => op = "uninstall"
          /\ \/ snapshot = Created(op, f)
             \/ \E v \in V1Snapshots(op, f), ready \in BOOLEAN :
                    snapshot = migrateLifecycleCoordinatorV1(v, ready)
    BY DEF MachineInit
  <2>2. QED
    BY <2>1, NewIsValid, OldFacts, MigrationIsValid
<1>2. /\ snapshot.position \in PathOf(snapshot.operation) /\ LastPosition(snapshot.operation) \in Nat
  BY <1>1, ValidFacts
<1>3. /\ passed = 0..(snapshot.position - 1) \cup (IF snapshot.complete THEN {snapshot.position} ELSE {})
      /\ skipped = {}
  BY DEF MachineInit
<1>4. QED
  BY <1>1, <1>2, <1>3 DEF MachineInv, Covered, SkipsAllowed, PathOf

LEMMA TransitKeeps ==
  ASSUME MachineInv, NEW t \in Transitions, Transit(t)
  PROVE  MachineInv'
<1> DEFINE op == snapshot.operation
           here == snapshot.position
<1>1. Valid(snapshot) /\ ValidateLifecycleTransition(snapshot, t)
  BY DEF MachineInv, Transit
<1>2. here \in PathOf(op) /\ snapshot.units \in PathOf(op) /\ PathOf(op) \subseteq Int /\ op \in Operations
      /\ snapshot.forced \in BOOLEAN
  BY <1>1, ValidFacts DEF PathOf
<1>3. IsTransition(t)
  <2>1. /\ {t.complete, t.retry, t.skip, t.escalate} \subseteq BOOLEAN
        /\ t.terminal \in MachineTerminals /\ t.units \in {snapshot.units, here}
    <3>1. PICK g \in Targets :
            t \in [state : {g[1]}, action : {g[2]}, complete : BOOLEAN, terminal : MachineTerminals,
                  retry : BOOLEAN, skip : BOOLEAN, escalate : {FALSE, op = "uninstall"},
                  units : {snapshot.units, here}]
      BY DEF Transitions
    <3>2. QED
      BY <3>1
  <2>2. QED
    BY <1>2, <2>1 DEF IsTransition
<1> DEFINE k == ApplyLifecycleTransition(snapshot, t)
<1>4. /\ Valid(k) /\ k.operation = op
      /\ \/ k.position = here /\ (k.complete => snapshot.complete \/ t.complete \/ t.skip)
         \/ k.position = here + 1 /\ snapshot.complete /\ ~k.complete
      /\ t.skip => snapshot.recovery = here /\ MaySkip(snapshot, t, GateAt(op, here))
  <2>1. Valid(snapshot) /\ IsTransition(t) /\ ValidateLifecycleTransition(snapshot, t)
    BY <1>1, <1>3
  <2>2. QED
    BY <2>1, TransitionKeepsValid
<1> HIDE DEF k
<1>5. /\ snapshot' = k
      /\ passed' = IF t.complete THEN passed \cup {here} ELSE passed
      /\ skipped' = IF t.skip THEN skipped \cup {<<here, snapshot.forced \/ t.escalate>>} ELSE skipped
  BY <1>4 DEF Transit, k
<1>6. passed \subseteq passed' /\ skipped \subseteq skipped' /\ (snapshot.forced \/ t.escalate) \in BOOLEAN
  BY <1>2, <1>3, <1>5 DEF IsTransition
<1>7. passed' \subseteq PathOf(op) /\ skipped' \subseteq PathOf(op) \X BOOLEAN
  <2>1. passed \subseteq PathOf(op) /\ skipped \subseteq PathOf(op) \X BOOLEAN
    BY DEF MachineInv
  <2>2. <<here, snapshot.forced \/ t.escalate>> \in PathOf(op) \X BOOLEAN
    BY <1>2, <1>6
  <2>3. QED
    BY <1>2, <1>5, <2>1, <2>2
<1> DEFINE After(p) == p \in passed' \/ <<p, TRUE>> \in skipped' \/ <<p, FALSE>> \in skipped'
<1>8. \A p \in PathOf(op) : Covered(p) => After(p)
  BY <1>6 DEF Covered
<1>9. t.complete \/ t.skip => After(here)
  <2>1. CASE t.complete
    BY <1>5, <2>1
  <2>2. CASE t.skip
    <3>1. <<here, snapshot.forced \/ t.escalate>> \in skipped'
      BY <1>5, <2>2
    <3>2. (snapshot.forced \/ t.escalate) = TRUE \/ (snapshot.forced \/ t.escalate) = FALSE
      BY <1>6
    <3>3. QED
      BY <3>1, <3>2
  <2>3. QED
    BY <2>1, <2>2
<1>10. k.complete => After(k.position)
  BY <1>2, <1>4, <1>8, <1>9 DEF MachineInv
<1>11. \A p \in PathOf(op) : p < k.position => After(p)
  <2> SUFFICES ASSUME NEW p \in PathOf(op), p < k.position PROVE After(p)
    OBVIOUS
  <2>1. p < here \/ (p = here /\ snapshot.complete)
    BY <1>2, <1>4 DEF PathOf
  <2>2. QED
    BY <1>8, <2>1 DEF MachineInv
<1>12. SkipsAllowed'
  <2> SUFFICES ASSUME NEW s \in skipped'
               PROVE  /\ ~IsHostGate(op, s[1]) /\ GateAt(op, s[1]).skippable
                      /\ GateAt(op, s[1]).force => s[2]
    BY <1>4, <1>5 DEF SkipsAllowed
  <2>1. CASE s \in skipped
    BY <2>1 DEF MachineInv, SkipsAllowed
  <2>2. CASE s \notin skipped
    <3>1. t.skip /\ s = <<here, snapshot.forced \/ t.escalate>>
      BY <1>5, <2>2
    <3>2. s[1] = here /\ s[2] = (snapshot.forced \/ t.escalate)
      BY <3>1
    <3>3. QED
      BY <1>4, <3>1, <3>2 DEF MaySkip, IsHostGate
  <2>3. QED
    BY <2>1, <2>2
<1>13. QED
  BY <1>4, <1>5, <1>7, <1>10, <1>11, <1>12 DEF MachineInv, Covered

LEMMA HostGateKeeps ==
  ASSUME MachineInv, NEW p \in 0..LastPosition(snapshot.operation), NEW required \in BOOLEAN,
         HostGateResult(p, required)
  PROVE  MachineInv'
<1> DEFINE op == snapshot.operation
           k == [snapshot EXCEPT !.marker = IF required THEN p ELSE @, !.sideEffects = @ \/ p = 0]
<1>1. Valid(snapshot) /\ p \in PathOf(op) /\ snapshot \in Snapshots(op) /\ op \in Operations
  BY DEF MachineInv, Valid, PathOf
<1>2. /\ snapshot.terminal = NoTerminal /\ snapshot.state # "recovery" /\ IsHostGate(op, p)
      /\ snapshot' = k /\ UNCHANGED <<passed, skipped>>
  BY DEF HostGateResult
<1>3. NoTerminal \notin FailureTerminals /\ NoTerminal # "succeeded" /\ NoTerminal # "skipped"
  BY DEF NoTerminal, FailureTerminals
<1>4. /\ snapshot.state = GateAt(op, snapshot.position).state
      /\ snapshot.action = GateAt(op, snapshot.position).action
      /\ snapshot.marker # NoMarker => IsHostGate(op, snapshot.marker)
      /\ snapshot.forced => op = "uninstall"
  BY <1>1, <1>2, <1>3, ValidFacts
<1>5. /\ k \in Snapshots(op) /\ k.position = snapshot.position /\ k.state = snapshot.state
      /\ k.action = snapshot.action /\ k.terminal = NoTerminal /\ k.forced = snapshot.forced
      /\ k.marker \in {snapshot.marker, p} /\ k.complete = snapshot.complete /\ k.operation = op
  BY <1>1, <1>2 DEF Snapshots
<1> HIDE DEF k
<1>6. Valid(k)
  BY <1>1, <1>2, <1>3, <1>4, <1>5, ValidBy
<1>7. QED
  BY <1>2, <1>5, <1>6 DEF MachineInv, Covered, SkipsAllowed

LEMMA MachineStep == MachineInv /\ [MachineNext]_machineVars => MachineInv'
<1> SUFFICES ASSUME MachineInv, [MachineNext]_machineVars PROVE MachineInv'
  OBVIOUS
<1>1. CASE MachineNext
  BY <1>1, TransitKeeps, HostGateKeeps DEF MachineNext
<1>2. CASE UNCHANGED machineVars
  BY <1>2 DEF machineVars, MachineInv, Covered, SkipsAllowed
<1>3. QED
  BY <1>1, <1>2

(* Whatever is retried, skipped, escalated or closed, from a new operation *)
(* or from what version 1 has stored: the snapshot is one that the next    *)
(* invocation accepts (validateLifecycleMachine).                          *)
THEOREM SnapshotsStayValid == MachineSpec => []SnapshotStaysValid
<1>1. MachineInv => SnapshotStaysValid
  BY DEF MachineInv, Valid, SnapshotStaysValid, SnapshotTypes
<1>2. QED
  BY <1>1, MachineStart, MachineStep, PTL DEF MachineSpec

(* No gate is started, and no operation succeeds, before all gates before  *)
(* it were passed, or skipped where the path allows it.                    *)
THEOREM NoGateIsLeftOut == MachineSpec => []SuccessMeansEveryGate
<1>1. MachineInv => SuccessMeansEveryGate
  <2> SUFFICES ASSUME MachineInv PROVE SuccessMeansEveryGate
    OBVIOUS
  <2>1. /\ snapshot.position \in PathOf(snapshot.operation) /\ LastPosition(snapshot.operation) \in Nat
        /\ snapshot.terminal = "succeeded" =>
             snapshot.position = LastPosition(snapshot.operation) /\ snapshot.complete
    BY ValidFacts DEF MachineInv, FailureTerminals, NoTerminal
  <2>2. ASSUME NEW p \in PathOf(snapshot.operation), p < snapshot.position \/ snapshot.terminal = "succeeded"
        PROVE  Covered(p)
    <3>1. p < snapshot.position \/ (p = snapshot.position /\ snapshot.complete)
      BY <2>1, <2>2 DEF PathOf
    <3>2. QED
      BY <3>1 DEF MachineInv
  <2>3. QED
    BY <2>2 DEF SuccessMeansEveryGate, Covered, MachineInv, SkipsAllowed
<1>2. QED
  BY <1>1, MachineStart, MachineStep, PTL DEF MachineSpec
=============================================================================
