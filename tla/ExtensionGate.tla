---------------------------- MODULE ExtensionGate ----------------------------
(***************************************************************************)
(* The gate between the host and one plugin: at most MaxConcurrent calls at*)
(* a time, and a circuit that opens after FailureThreshold failures in a   *)
(* row (app/Support/Extensions/resilience.go, with its callers SendMail,   *)
(* ExecutePluginJob and the hooks in manager.go).  A call takes a lease of *)
(* the runtime, looks at the circuit, waits for a slot, is executed, gives *)
(* the slot back and is accounted for as its lease goes back; the gate's   *)
(* lock is released between these steps.  A removed plugin's gate is       *)
(* forgotten by the hub and the next call makes a fresh one; calls in the  *)
(* old one finish there.                                                   *)
(***************************************************************************)
EXTENDS Naturals, FiniteSets

CONSTANTS
    Callers,            \* callers, each making one call after the other
    Gates,              \* gates of the plugin in use at once
    MaxConcurrent,
    FailureThreshold,
    NoGate

VARIABLES
    hub,        \* the gate the hub knows for the plugin, NoGate before the first call
    pc,         \* what each caller is doing
    entered,    \* the gate its call waits or runs in
    gate,       \* the gates
    queued      \* history: calls that were waiting for a slot when their circuit opened

hubVars == <<hub, pc, entered, gate, queued>>

(* circuit: closed, open, or cooled (openUntil is set and has passed);     *)
(* consecutiveFails is only ever compared to the threshold; tripped is     *)
(* history: the threshold was reached and nothing has succeeded since.     *)
NewGate == [circuit |-> "closed", fails |-> 0, activeCalls |-> 0, tripped |-> FALSE]

HubInit ==
    /\ hub = NoGate
    /\ pc = [c \in Callers |-> "out"]
    /\ entered = [c \in Callers |-> NoGate]
    /\ gate = [g \in Gates |-> NewGate]
    /\ queued = {}

Callees(steps, g) == {c \in Callers : pc[c] \in steps /\ entered[c] = g}
Slots(g) == Callees({"slot", "running"}, g)
InUse(g) == g = hub \/ \E c \in Callers : entered[c] = g

(* A gate the hub has forgotten is collected with its last call.           *)
Collected(g, last, value) ==
    IF g # hub /\ \A c \in Callers \ last : entered[c] # g THEN NewGate ELSE value

-----------------------------------------------------------------------------
(* Deliberately wrong variants, for checking that the properties notice:   *)
(* one slot too many, a circuit nobody looks at, a probe that starts       *)
(* counting from nothing.                                                  *)
OneMore(g) == Cardinality(Slots(g)) <= MaxConcurrent
NeverRejects(g) == FALSE
ForgetsFails(g) == [gate[g] EXCEPT !.fails = IF gate[g].circuit = "cooled" THEN 0 ELSE @, !.circuit = IF @ = "cooled" THEN "closed" ELSE @]

FreeSlot(g) == Cardinality(Slots(g)) < MaxConcurrent
Rejects(g) == gate[g].circuit = "open"
AccountedIn(c) == entered[c]
HalfOpened(g) == [gate[g] EXCEPT !.circuit = IF @ = "cooled" THEN "closed" ELSE @]
LeaseReturned(c) == "out"

(* AcquireActiveRuntimeCall: the caller holds a lease from here on, and    *)
(* gives it back on every way out.                                         *)
TakeLease(c) ==
    /\ pc[c] = "out"
    /\ pc' = [pc EXCEPT ![c] = "leased"]
    /\ UNCHANGED <<hub, entered, gate, queued>>

(* gate(): the hub's gate of the plugin, made on demand.                   *)
GateFor(g) == IF hub = NoGate THEN ~InUse(g) ELSE g = hub

(* tryEnter, first part: an open circuit turns the call away; one that has *)
(* cooled down is half open, for everybody.                                *)
LookAtCircuit(c, g) ==
    /\ pc[c] = "leased" /\ GateFor(g)
    /\ hub' = g
    /\ IF Rejects(g)
       THEN /\ pc' = [pc EXCEPT ![c] = LeaseReturned(c)]
            /\ UNCHANGED <<entered, gate>>
       ELSE /\ pc' = [pc EXCEPT ![c] = "waiting"]
            /\ entered' = [entered EXCEPT ![c] = g]
            /\ gate' = [gate EXCEPT ![g] = HalfOpened(g)]
    /\ UNCHANGED queued

(* Second part: a slot, or the end of the call's context.  The circuit is  *)
(* not looked at again.                                                    *)
TakeSlot(c) ==
    /\ pc[c] = "waiting" /\ FreeSlot(entered[c])
    /\ pc' = [pc EXCEPT ![c] = "slot"]
    /\ queued' = queued \ {c}
    /\ UNCHANGED <<hub, entered, gate>>

TimeOut(c) ==
    LET g == entered[c] IN
    /\ pc[c] = "waiting"
    /\ pc' = [pc EXCEPT ![c] = "out"]
    /\ entered' = [entered EXCEPT ![c] = NoGate]
    /\ gate' = [gate EXCEPT ![g] = Collected(g, {c}, @)]
    /\ queued' = queued \ {c}
    /\ UNCHANGED hub

CountActive(c) ==
    /\ pc[c] = "slot"
    /\ gate' = [gate EXCEPT ![entered[c]].activeCalls = @ + 1]
    /\ pc' = [pc EXCEPT ![c] = "running"]
    /\ UNCHANGED <<hub, entered, queued>>

(* The call ends, by its answer or its deadline, and frees its slot before *)
(* the gate's lock is taken: the next call may come in first.              *)
FreeTheSlot(c) ==
    /\ pc[c] = "running"
    /\ pc' = [pc EXCEPT ![c] = "freed"]
    /\ UNCHANGED <<hub, entered, gate, queued>>

(* The outcome in the gate's counters: a success closes the circuit, a     *)
(* failure that reaches the threshold opens it.                            *)
Outcome(g, success) ==
    LET fails == IF gate[g].fails < FailureThreshold THEN gate[g].fails + 1 ELSE gate[g].fails
        opens == fails >= FailureThreshold
    IN  [circuit |-> IF success THEN "closed" ELSE IF opens THEN "open" ELSE gate[g].circuit,
         fails |-> IF success THEN 0 ELSE fails,
         activeCalls |-> IF gate[g].activeCalls > 0 THEN gate[g].activeCalls - 1 ELSE 0,
         tripped |-> ~success /\ (gate[g].tripped \/ opens)]

Account(c, success) ==
    LET g == AccountedIn(c)
    IN  /\ pc[c] = "freed"
        /\ gate' = [gate EXCEPT ![g] = Collected(g, {c}, Outcome(g, success))]
        /\ queued' = IF Outcome(g, success).circuit = "open" THEN queued \cup Callees({"waiting"}, g) ELSE queued
        /\ pc' = [pc EXCEPT ![c] = "out"]
        /\ entered' = [entered EXCEPT ![c] = NoGate]
        /\ UNCHANGED hub

(* The time of an open circuit passes.                                     *)
CoolDown(g) ==
    /\ gate[g].circuit = "open"
    /\ gate' = [gate EXCEPT ![g].circuit = "cooled"]
    /\ UNCHANGED <<hub, pc, entered, queued>>

(* Stop, or the removal of the active process: the hub forgets the gate.   *)
(* Bound: not before there is room for the next.                           *)
Remove ==
    /\ hub # NoGate
    /\ \E g \in Gates : ~InUse(g)
    /\ hub' = NoGate
    /\ gate' = IF \A c \in Callers : entered[c] # hub THEN [gate EXCEPT ![hub] = NewGate] ELSE gate
    /\ UNCHANGED <<pc, entered, queued>>

CallStep(c) ==
    \/ \E g \in Gates : LookAtCircuit(c, g)
    \/ TakeSlot(c) \/ TimeOut(c) \/ CountActive(c) \/ FreeTheSlot(c)
    \/ \E success \in BOOLEAN : Account(c, success)

HubNext ==
    \/ \E c \in Callers : TakeLease(c) \/ CallStep(c)
    \/ \E g \in Gates : CoolDown(g)
    \/ Remove

(* A call that has begun goes on: calls have a deadline, in the wait for a *)
(* slot as well as in the plugin.                                          *)
HubFairness == \A c \in Callers : WF_hubVars(CallStep(c))

HubSpec == HubInit /\ [][HubNext]_hubVars /\ HubFairness

-----------------------------------------------------------------------------
(* The values of the gates and the callers; no more calls hold a slot than *)
(* there are.                                                              *)
HubTypes ==
    /\ hub \in Gates \cup {NoGate}
    /\ pc \in [Callers -> {"out", "leased", "waiting", "slot", "running", "freed"}]
    /\ entered \in [Callers -> Gates \cup {NoGate}]
    /\ gate \in [Gates -> [circuit : {"closed", "open", "cooled"}, fails : 0..FailureThreshold,
                           activeCalls : Nat, tripped : BOOLEAN]]
    /\ queued \subseteq Callers
    /\ \A g \in Gates : Cardinality(Slots(g)) <= MaxConcurrent

(* The number of active calls that is reported is that of the calls that   *)
(* have entered this gate and are not accounted for, also when the plugin  *)
(* is stopped and started under them: it never drifts.                     *)
ActiveCallsExact == \A g \in Gates : gate[g].activeCalls = Cardinality(Callees({"running", "freed"}, g))

(* While the circuit is open only those calls come in that were waiting for*)
(* a slot already when it opened.                                          *)
OnlyQueuedEnterOpen ==
    [][\A c \in Callers :
        pc[c] = "waiting" /\ pc'[c] = "slot" /\ gate[entered[c]].circuit = "open" => c \in queued]_hubVars

(* A plugin that goes on failing is not given FailureThreshold more calls  *)
(* after each cool-down: the first failure of a half-open gate opens it.   *)
FirstFailedProbeReopens ==
    [][\A c \in Callers :
        LET g == entered[c]
        IN  pc[c] = "freed" /\ pc'[c] = "out" /\ gate[g].tripped /\ gate'[g].fails # 0
              => gate'[g].circuit = "open"]_hubVars
=============================================================================
