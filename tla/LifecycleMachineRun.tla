------------------------ MODULE LifecycleMachineRun ------------------------
(***************************************************************************)
(* Every sequence of valid transitions of the lifecycle state machine, with*)
(* the host's own writes to the snapshot between them                      *)
(* (applyLifecycleHostGateResult in lifecycle_coordinator_bindings.go),    *)
(* from a new operation on or from one the first version has stored.       *)
(***************************************************************************)
EXTENDS LifecycleMachine

VARIABLES
    snapshot,   \* the machine
    passed,     \* history: gates completed by running them
    skipped     \* history: gates skipped in recovery, with forced at that time

machineVars == <<snapshot, passed, skipped>>

-----------------------------------------------------------------------------
(* Snapshots of the first version (lifecycle_coordinator_terminal.go).  Its*)
(* paths ended where the host's finalization was added later: a disable and*)
(* an uninstall after their plugin's last gate, an upgrade at upgrade.after*)
(* without the activation before it.  Its planned gate was complete when   *)
(* the operation was created, no host code was run for it.                 *)
V1LastPosition ==
    [op \in Operations |->
        IF op \in {"disable", "upgrade", "uninstall"}
        THEN [disable |-> 2, upgrade |-> 8, uninstall |-> 5][op] ELSE LastPosition(op)]
V1GateAt(op, p) == GateAt(op, IF op = "upgrade" /\ p = 8 THEN 9 ELSE p)

V1Complete(op, forced, p) ==
    [NewLifecycleStateMachine(op, forced) EXCEPT
        !.total = V1LastPosition[op], !.complete = TRUE, !.position = p, !.units = p,
        !.state = V1GateAt(op, p).state, !.action = V1GateAt(op, p).action]
V1Running(v) == [v EXCEPT !.complete = FALSE, !.units = @ - 1]
V1Failed(v, t) == [v EXCEPT !.state = "failed", !.terminal = t, !.recovery = v.position]
V1Retried(v) == [v EXCEPT !.state = "recovery", !.action = NoAction, !.terminal = NoTerminal]
V1Closed(v) == [v EXCEPT !.terminal = IF v.position = 0 THEN "skipped" ELSE "succeeded"]

V1Snapshots(op, forced) ==
    LET complete == {V1Complete(op, forced, p) : p \in 0..V1LastPosition[op]}
        running == {V1Running(v) : v \in {v \in complete : v.position > 0}}
        failed == {V1Failed(v, t) : v \in running, t \in FailureTerminals}
        closed == {V1Closed(v) : v \in {v \in complete : v.position \in {0, V1LastPosition[op]}}}
    IN  complete \cup running \cup failed \cup {V1Retried(v) : v \in failed} \cup closed

(* What is closed stays closed, at the end of today's path; what is open   *)
(* keeps its gate, executes the planned gate if it had not gone past it,   *)
(* and otherwise has it revalidated unless its runtimes are bound.         *)
Finished(v) ==
    LET last == LastPosition(v.operation)
    IN  [v EXCEPT !.position = last, !.recovery = last, !.state = GateAt(v.operation, last).state,
                  !.action = GateAt(v.operation, last).action, !.complete = TRUE, !.units = last]

BehindActivation(v) ==
    [v EXCEPT !.position = 9, !.recovery = 9, !.units = IF v.complete THEN 9 ELSE @]

migrateLifecycleCoordinatorV1(v, bindingsReady) ==
    LET lengthened == V1LastPosition[v.operation] # LastPosition(v.operation)
        n == IF lengthened /\ v.terminal = "succeeded" THEN Finished(v)
             ELSE IF v.operation = "upgrade" /\ v.position = 8 THEN BehindActivation(v)
             ELSE v
        open == v.terminal \notin {"succeeded", "skipped"}
        planned == n.position = 0 /\ n.state = "planned" /\ n.action = NoAction
    IN  [n EXCEPT !.total = LastPosition(v.operation),
                  !.complete = IF open /\ planned THEN FALSE ELSE @,
                  !.marker = IF open /\ n.position > 0 /\ ~bindingsReady THEN 0 ELSE @]

-----------------------------------------------------------------------------
Created(op, forced) ==
    [NewLifecycleStateMachine(op, forced) EXCEPT !.total = LastPosition(op)]

(* An operation starts anew, or was stored by the first version; the gates *)
(* that version had gone through count as passed.                          *)
MachineInit ==
    /\ \E op \in Operations, f \in BOOLEAN :
         /\ f => op = "uninstall"
         /\ \/ snapshot = Created(op, f)
            \/ \E v \in V1Snapshots(op, f), ready \in BOOLEAN :
                   snapshot = migrateLifecycleCoordinatorV1(v, ready)
    /\ passed = 0..(snapshot.position - 1) \cup (IF snapshot.complete THEN {snapshot.position} ELSE {})
    /\ skipped = {}

(* Any transition a caller could ask for, also the wrong ones: the current,*)
(* the next, the first and the last gate and the states that are no gate,  *)
(* each with every combination of the controls.                            *)
Targets ==
    LET last == LastPosition(snapshot.operation)
        here == IF snapshot.position < last THEN snapshot.position..(snapshot.position + 1) ELSE {last}
    IN {<<GateAt(snapshot.operation, p).state, GateAt(snapshot.operation, p).action>> :
          p \in here \cup {0, last}}
       \cup {<<"failed", snapshot.action>>, <<"recovery", NoAction>>}

Transitions ==
    UNION {[state : {g[1]}, action : {g[2]}, complete : BOOLEAN, terminal : MachineTerminals,
            retry : BOOLEAN, skip : BOOLEAN, escalate : {FALSE, snapshot.operation = "uninstall"},
            units : {snapshot.units, snapshot.position}] : g \in Targets}

Transit(t) ==
    /\ ValidateLifecycleTransition(snapshot, t)
    /\ snapshot' = ApplyLifecycleTransition(snapshot, t)
    /\ passed' = IF t.complete THEN passed \cup {snapshot.position} ELSE passed
    /\ skipped' = IF t.skip THEN skipped \cup {<<snapshot.recovery, snapshot.forced \/ t.escalate>>}
                            ELSE skipped

(* The host ran the current gate, or again the one the marker names, and   *)
(* may report a process-local runtime instance to be revalidated later.    *)
HostGateResult(p, required) ==
    /\ snapshot.terminal = NoTerminal /\ snapshot.state # "recovery"
    /\ p \in {snapshot.position, snapshot.marker} /\ IsHostGate(snapshot.operation, p)
    /\ p = snapshot.position => ~snapshot.complete
    /\ snapshot' = [snapshot EXCEPT !.marker = IF required THEN p ELSE @,
                                    !.sideEffects = @ \/ p = 0]
    /\ UNCHANGED <<passed, skipped>>

MachineNext ==
    \/ \E t \in Transitions : Transit(t)
    \/ \E p \in 0..LastPosition(snapshot.operation), required \in BOOLEAN :
         HostGateResult(p, required)

MachineSpec == MachineInit /\ [][MachineNext]_machineVars

-----------------------------------------------------------------------------
(* The snapshot of lifecycle_state_machine.go:98-116 keeps its shape.      *)
PathOf(op) == 0..LastPosition(op)
Snapshots(op) ==
    [operation : {op}, state : MachineStates, action : GateActions,
     position : PathOf(op), complete : BOOLEAN, terminal : MachineTerminals, forced : BOOLEAN,
     recovery : PathOf(op), marker : PathOf(op) \cup {NoMarker}, sideEffects : BOOLEAN,
     units : PathOf(op), total : {LastPosition(op)}]
SnapshotTypes ==
    /\ snapshot.operation \in Operations /\ snapshot \in Snapshots(snapshot.operation)
    /\ passed \subseteq PathOf(snapshot.operation)
    /\ skipped \subseteq PathOf(snapshot.operation) \X BOOLEAN

(* A valid transition always yields a snapshot the next invocation accepts.*)
(* A rejected snapshot would leave the durable operation unusable.         *)
SnapshotStaysValid == SnapshotTypes /\ validateLifecycleMachine(snapshot)

(* No gate is started before all gates before it were passed or skipped,   *)
(* whatever failures, retries and skips came before, and an operation that *)
(* succeeded has passed or skipped all of its path.  What is skipped is a  *)
(* plugin's gate, and forced where the path says so.                       *)
SuccessMeansEveryGate ==
    /\ \A p \in PathOf(snapshot.operation) :
         p < snapshot.position \/ snapshot.terminal = "succeeded" =>
            p \in passed \/ <<p, TRUE>> \in skipped \/ <<p, FALSE>> \in skipped
    /\ \A s \in skipped :
         /\ ~IsHostGate(snapshot.operation, s[1])
         /\ GateAt(snapshot.operation, s[1]).skippable
         /\ GateAt(snapshot.operation, s[1]).force => s[2]
=============================================================================
