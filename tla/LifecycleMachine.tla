-------------------------- MODULE LifecycleMachine --------------------------
(***************************************************************************)
(* The pure state machine of one plugin lifecycle operation                *)
(* (app/Models/Extensions/lifecycle_state_machine.go): the recommended     *)
(* path of gates of every operation, which transitions are valid and what  *)
(* they make of a snapshot.  A gate with NoAction is run by the host, the  *)
(* others by the plugin.                                                   *)
(***************************************************************************)
EXTENDS Integers, Sequences

NoAction == ""
NoTerminal == ""
NoMarker == -1

Gate(s, a, skippable, force) ==
    [state |-> s, action |-> a, skippable |-> skippable, force |-> force]
HostGate(s) == Gate(s, NoAction, FALSE, FALSE)
PluginGate(s, a) == Gate(s, a, FALSE, FALSE)

lifecycleRecommendedPaths ==
  [install |-> <<HostGate("planned"), PluginGate("planned", "install.plan"),
                 HostGate("migrating"), PluginGate("migrating", "install"),
                 HostGate("starting"), PluginGate("starting", "enable"),
                 HostGate("healthy"), HostGate("registering"), HostGate("enabled")>>,
   enable |-> <<HostGate("planned"), HostGate("starting"),
                PluginGate("starting", "enable"), HostGate("healthy"),
                HostGate("registering"), HostGate("enabled")>>,
   disable |-> <<HostGate("planned"), HostGate("draining"),
                 PluginGate("draining", "disable"), HostGate("draining")>>,
   upgrade |-> <<HostGate("planned"), PluginGate("planned", "upgrade.plan"),
                 HostGate("draining"), PluginGate("draining", "upgrade.before"),
                 HostGate("migrating"), HostGate("starting"), HostGate("healthy"),
                 HostGate("registering"), HostGate("enabled"),
                 Gate("enabled", "upgrade.after", TRUE, FALSE), HostGate("enabled")>>,
   rollback |-> <<HostGate("planned"), HostGate("draining"), HostGate("starting"),
                  PluginGate("starting", "rollback"), HostGate("healthy"),
                  HostGate("registering"), HostGate("enabled")>>,
   uninstall |-> <<HostGate("planned"), PluginGate("planned", "uninstall.plan"),
                   HostGate("draining"), HostGate("uninstalling"),
                   Gate("uninstalling", "uninstall", TRUE, TRUE),
                   Gate("uninstalling", "uninstall.after", TRUE, TRUE),
                   HostGate("uninstalling")>>]

Operations == DOMAIN lifecycleRecommendedPaths
LastPosition(op) == Len(lifecycleRecommendedPaths[op]) - 1
GateAt(op, p) == lifecycleRecommendedPaths[op][p + 1]
IsHostGate(op, p) == GateAt(op, p).action = NoAction

GateStates == {"planned", "migrating", "starting", "healthy", "registering",
               "enabled", "draining", "uninstalling"}
MachineStates == GateStates \cup {"failed", "recovery"}
GateActions ==
    UNION {{lifecycleRecommendedPaths[op][i].action :
              i \in DOMAIN lifecycleRecommendedPaths[op]} : op \in Operations}
FailureTerminals == {"failed", "cancelled"}
MachineTerminals == FailureTerminals \cup {"succeeded", "skipped", NoTerminal}

NewLifecycleStateMachine(op, forced) ==
    [operation |-> op, state |-> GateAt(op, 0).state, action |-> GateAt(op, 0).action,
     position |-> 0, complete |-> FALSE, terminal |-> NoTerminal, forced |-> forced,
     recovery |-> 0, marker |-> NoMarker, sideEffects |-> FALSE,
     units |-> 0, total |-> 0]

(* A transition asks for a gate and says how the current one is left; its  *)
(* progress is the completed units it reports.  No caller ever changes the *)
(* total, and checkpoints are left out.                                    *)
Request(s, a, units) ==
    [state |-> s, action |-> a, complete |-> FALSE, terminal |-> NoTerminal,
     retry |-> FALSE, skip |-> FALSE, escalate |-> FALSE, units |-> units]

validateLifecycleMachineProgress(m, units) ==
    units >= m.units /\ (m.total > 0 => units <= m.total)

-----------------------------------------------------------------------------
(* What a stored snapshot must satisfy to be used at all.                  *)
validateLifecycleMachine(m) ==
    LET last == LastPosition(m.operation)
        gate == GateAt(m.operation, m.position)
    IN
    /\ m.operation \in Operations
    /\ m.position \in 0..last
    /\ m.forced => m.operation = "uninstall"
    /\ m.total > 0 => m.units <= m.total
    /\ m.marker # NoMarker => m.marker \in 0..last /\ IsHostGate(m.operation, m.marker)
    /\ \/ /\ m.state = "failed"
          /\ m.terminal \in FailureTerminals
          /\ m.recovery = m.position /\ m.action = gate.action /\ ~m.complete
       \/ /\ m.state = "recovery"
          /\ m.terminal = NoTerminal
          /\ m.recovery = m.position /\ m.action = NoAction /\ ~m.complete
       \/ /\ m.state = gate.state /\ m.action = gate.action
          /\ m.terminal \notin FailureTerminals
          /\ m.terminal = "succeeded" =>
               m.position = last /\ m.complete /\ (m.total > 0 => m.units = m.total)
          /\ m.terminal = "skipped" =>
               m.position = 0 /\ m.complete /\ ~m.sideEffects

(* Deliberately wrong variants, for checking that the properties notice.   *)
SkipAnyGate(m, t, gate) == gate.force => m.forced \/ t.escalate
ClosedWithoutGate(m, t) ==
    [m EXCEPT !.terminal = t.terminal,
              !.state = IF t.terminal \in FailureTerminals THEN "failed" ELSE @]

(* A closed operation may only be retried, and only after a failure.       *)
validateLifecycleRetry(m, t) ==
    /\ m.terminal \in FailureTerminals
    /\ t.retry /\ t.state = "recovery" /\ t.action = NoAction
    /\ t.terminal = NoTerminal /\ ~t.complete /\ ~t.skip

(* Recovery re-enters its exact gate, or skips it when the gate allows.    *)
MaySkip(m, t, gate) ==
    /\ gate.action # NoAction /\ gate.skippable
    /\ gate.force => m.forced \/ t.escalate

validateLifecycleRecovery(m, t) ==
    LET gate == GateAt(m.operation, m.recovery) IN
    /\ ~t.retry /\ t.terminal = NoTerminal /\ ~t.complete
    /\ t.state = gate.state /\ t.action = gate.action
    /\ t.skip => MaySkip(m, t, gate)

validateLifecycleTerminal(m, t) ==
    /\ ~t.skip /\ ~t.complete /\ t.state # "recovery"
    /\ \/ /\ t.terminal = "succeeded"
          /\ m.position = LastPosition(m.operation) /\ m.complete
          /\ t.state = m.state /\ t.action = m.action
          /\ m.total > 0 => t.units = m.total
       \/ /\ t.terminal = "skipped"
          /\ m.position = 0 /\ m.complete /\ ~m.sideEffects
          /\ t.state = "planned" /\ t.action = NoAction
       \/ /\ t.terminal \in FailureTerminals
          /\ ~m.complete /\ t.state = "failed" /\ t.action = m.action

(* Inside an open operation: stay at the incomplete gate, or step to the   *)
(* next one once the current gate is complete.                             *)
SameGate(m, t) == t.state = m.state /\ t.action = m.action

MayAdvance(m, t) ==
    /\ m.complete /\ m.position < LastPosition(m.operation)
    /\ ~t.complete
    /\ t.state = GateAt(m.operation, m.position + 1).state
    /\ t.action = GateAt(m.operation, m.position + 1).action

ValidateLifecycleTransition(m, t) ==
    /\ validateLifecycleMachine(m)
    /\ validateLifecycleMachineProgress(m, t.units)
    /\ t.escalate => m.operation = "uninstall"
    /\ IF m.terminal # NoTerminal THEN validateLifecycleRetry(m, t)
       ELSE /\ ~t.retry
            /\ IF m.state = "recovery" THEN validateLifecycleRecovery(m, t)
               ELSE /\ ~t.escalate
                    /\ IF t.terminal # NoTerminal THEN validateLifecycleTerminal(m, t)
                       ELSE /\ ~t.skip
                            /\ IF SameGate(m, t) THEN ~m.complete ELSE MayAdvance(m, t)

(* What a valid transition makes of the snapshot.                          *)
Retried(m) ==
    [m EXCEPT !.state = "recovery", !.action = NoAction,
              !.terminal = NoTerminal, !.complete = FALSE]

Reentered(m, t) ==
    LET gate == GateAt(m.operation, m.recovery) IN
    [m EXCEPT !.state = gate.state, !.action = gate.action,
              !.position = m.recovery, !.complete = t.skip]

Closed(m, t) ==
    IF t.terminal \in FailureTerminals
    THEN [m EXCEPT !.terminal = t.terminal, !.state = "failed",
                   !.recovery = m.position, !.complete = FALSE]
    ELSE [m EXCEPT !.terminal = t.terminal]

Advanced(m, t) ==
    [m EXCEPT !.position = @ + 1, !.state = t.state, !.action = t.action,
              !.complete = FALSE]

ApplyLifecycleTransition(m, t) ==
    LET n == [m EXCEPT !.units = t.units, !.forced = @ \/ t.escalate] IN
    CASE m.terminal # NoTerminal   -> Retried(n)
      [] m.terminal = NoTerminal /\ m.state = "recovery" -> Reentered(n, t)
      [] m.terminal = NoTerminal /\ m.state # "recovery" /\ t.terminal # NoTerminal -> Closed(n, t)
      [] OTHER -> IF SameGate(m, t) THEN [n EXCEPT !.complete = t.complete]
                                    ELSE Advanced(n, t)
=============================================================================
