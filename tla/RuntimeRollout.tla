--------------------------- MODULE RuntimeRollout ---------------------------
(***************************************************************************)
(* The staged rollout of one extension over several nodes                  *)
(* (app/Support/RuntimeRollout).  The rows of runtime_rollout_plans are    *)
(* the authority.  Creating a plan is one transaction under an advisory    *)
(* lock; every other call reads a row, edits a copy and saves the copy     *)
(* with a compare-and-swap on its revision, so any number of API processes *)
(* interleave between a read and a save and may die there.                 *)
(*                                                                         *)
(* A rejected call is not always silent: when the edited copy carries a    *)
(* LastError (its own or an older one), transition saves it, and the new   *)
(* revision refuses whoever read the row before.                           *)
(*                                                                         *)
(* DriveRuntimeRolloutForStagedUpgrade is the composite caller: create, on *)
(* conflict look the active plan up, then mark it ready or fail it.        *)
(* Digests, reasons and the list of retained digests are not modelled.     *)
(***************************************************************************)
EXTENDS Integers, FiniteSets

CONSTANTS
    Plans,          \* plan ids, random and never reused
    Nodes,          \* node ids, numbered in the order sort.Strings gives them
    Callers,        \* concurrent callers of the service
    CanaryPercent,
    Messages,       \* what Fail is given: TRUE a text, FALSE the empty one
    MaxRevision     \* bound: no call reads plan i at revision MaxRevision[i]

ASSUME RolloutConstants ==
    /\ Plans # {}
    /\ Nodes \subseteq Nat /\ IsFiniteSet(Nodes)
    /\ CanaryPercent \in 1..100
    /\ Messages \subseteq BOOLEAN
    /\ MaxRevision \in [Plans -> Nat]

VARIABLES
    plan,       \* the table, a row per plan id
    call,       \* what each caller is in the middle of
    newer,      \* the order of updated_at: pairs <<i, j>>, i written after j
    reported    \* history: the health last reported for a node in a saved call

vars == <<plan, call, newer, reported>>

OpenPhases == {"pending", "migrating", "staged", "canary", "draining", "promoting", "rolling_back"}
TerminalPhases == {"active", "failed", "rolled_back"}

(* "unknown" is treated as "unhealthy" wherever health is read.            *)
Health == {"absent", "healthy", "unhealthy"}

NoReport == [n \in Nodes |-> "absent"]
NoAcks == [n \in Nodes |-> [health |-> "absent", canary |-> FALSE]]

NoPlan ==
    [phase |-> "none", ready |-> FALSE, acks |-> NoAcks, snapshot |-> FALSE,
     err |-> FALSE, rev |-> 0]

NewPlan ==
    [phase |-> "pending", ready |-> FALSE, acks |-> NoAcks, snapshot |-> FALSE,
     err |-> FALSE, rev |-> 1]

Idle == [pc |-> "idle", id |-> CHOOSE i \in Plans : TRUE, next |-> NoPlan,
         said |-> NoReport, migrated |-> FALSE]

Exists(p) == p.phase # "none"
Open(p) == p.phase \in OpenPhases
Terminal(p) == p.phase \in TerminalPhases

Init ==
    /\ plan = [i \in Plans |-> NoPlan]
    /\ call = [c \in Callers |-> Idle]
    /\ newer = {}
    /\ reported = [i \in Plans |-> NoReport]

-----------------------------------------------------------------------------
(* What the callbacks of transition check, and what they make of the row.  *)

Known(p) == {n \in Nodes : p.acks[n].health # "absent"}
Cohort(p) == {n \in Known(p) : p.acks[n].canary}
Healthy(p, N) == \A n \in N : p.acks[n].health = "healthy"

(* Deliberately wrong variants, for checking that the properties notice:   *)
(* the phase guard of MarkMigrationReady dropped, a                        *)
(* promotion that asks the cohort only, an acknowledgement that loses the  *)
(* others', a save that ignores the revision.                              *)
AlwaysMarkable(p) == TRUE
PromotableByCohort(p) ==
    p.ready /\ p.phase \in {"draining", "canary"} /\ Known(p) # {} /\ Healthy(p, Cohort(p))
AckedAlone(p, n, h, k) == [p EXCEPT !.acks = [NoAcks EXCEPT ![n] = [health |-> h, canary |-> k]]]
SavesStale(c) == Exists(plan[call[c].id])

MayMarkReady(p) == p.phase \in {"pending", "migrating"}
Migrated(p) == [p EXCEPT !.ready = TRUE, !.phase = "staged"]

Acked(p, n, h, k) == [p EXCEPT !.acks[n] = [health |-> h, canary |-> k]]
Lost(p, n) == [p EXCEPT !.acks[n].health = "unhealthy", !.err = TRUE]

MaySelect(p) == p.ready /\ p.phase = "staged" /\ Known(p) # {}
CohortSize(p) == (Cardinality(Known(p)) * CanaryPercent + 99) \div 100
Selected(p) ==
    LET first == {n \in Known(p) : Cardinality({m \in Known(p) : m < n}) < CohortSize(p)}
    IN  [p EXCEPT !.phase = "canary",
                  !.acks = [n \in Nodes |-> [health |-> p.acks[n].health, canary |-> n \in first]]]

GateOpen(p) == p.phase \in {"canary", "draining", "promoting"}
Gated(p, only) == IF only THEN Cohort(p) ELSE Known(p)

MayDrain(p) == p.phase = "canary" /\ Healthy(p, Cohort(p))

MayPromote(p) == p.ready /\ p.phase \in {"draining", "canary"}
Promotable(p) == MayPromote(p) /\ Known(p) # {} /\ Healthy(p, Known(p))
Promoted(p) == [p EXCEPT !.phase = "active", !.snapshot = TRUE, !.err = FALSE]

MayRollback(p) == p.phase \in {"canary", "draining", "promoting", "active", "failed"}
RolledBack(p) == [p EXCEPT !.phase = "rolled_back", !.snapshot = FALSE]

Failed(p, message) == [p EXCEPT !.phase = "failed", !.err = message]
Noted(p) == [p EXCEPT !.err = TRUE]

-----------------------------------------------------------------------------
(* transition: read the row of plan i; an allowed call will save the copy  *)
(* next, a rejected one will save the copy noted if that carries an error, *)
(* and otherwise just returns.                                             *)
Saving(i, next, said) ==
    [pc |-> "save", id |-> i, next |-> next, said |-> said, migrated |-> FALSE]

Outcome(c, i, allowed, next, noted, said) ==
    /\ Exists(plan[i])
    /\ plan[i].rev < MaxRevision[i]
    /\ \/ allowed /\ call' = [call EXCEPT ![c] = Saving(i, next, said)]
       \/ ~allowed /\ noted.err /\ call' = [call EXCEPT ![c] = Saving(i, noted, NoReport)]
       \/ ~allowed /\ ~noted.err /\ call' = [call EXCEPT ![c] = Idle]
    /\ UNCHANGED <<plan, newer, reported>>

Ready(c) == call[c].pc = "idle"

WrittenLast(i) == (newer \ (Plans \X {i})) \cup ({i} \X (Plans \ {i}))

MarkMigrationReady(c, i) ==
    LET p == plan[i] IN
    Ready(c) /\ Outcome(c, i, MayMarkReady(p), Migrated(p), p, NoReport)

AckNode(c, i, n, h, k) ==
    LET p == plan[i] IN
    Ready(c) /\ Outcome(c, i, TRUE, Acked(p, n, h, k), p, [NoReport EXCEPT ![n] = h])

MarkNodeLost(c, i, n) ==
    LET p == plan[i] IN
    Ready(c) /\ Outcome(c, i, n \in Known(p), Lost(p, n), p, [NoReport EXCEPT ![n] = "unhealthy"])

SelectCanary(c, i) ==
    LET p == plan[i] IN
    Ready(c) /\ Outcome(c, i, MaySelect(p), Selected(p), p, NoReport)

HealthGate(c, i, only) ==
    LET p == plan[i]
        asked == Gated(p, only)
    IN  /\ Ready(c)
        /\ Outcome(c, i, GateOpen(p) /\ asked # {} /\ Healthy(p, asked), p,
                   IF GateOpen(p) /\ ~Healthy(p, asked) THEN Noted(p) ELSE p, NoReport)

BeginDrain(c, i) ==
    LET p == plan[i] IN
    Ready(c) /\ Outcome(c, i, MayDrain(p), [p EXCEPT !.phase = "draining"], p, NoReport)

PromoteAtomic(c, i) ==
    LET p == plan[i] IN
    Ready(c) /\ Outcome(c, i, Promotable(p), Promoted(p),
                        IF MayPromote(p) THEN Noted(p) ELSE p, NoReport)

Rollback(c, i) ==
    LET p == plan[i] IN
    Ready(c) /\ Outcome(c, i, MayRollback(p), RolledBack(p), p, NoReport)

(* The message becomes LastError, even when it is empty.                   *)
Fail(c, i, message) ==
    Ready(c) /\ Outcome(c, i, TRUE, Failed(plan[i], message), plan[i], NoReport)

(* Save: only the copy of the current revision is written.                 *)
Current(c) == plan[call[c].id].rev = call[c].next.rev

Save(c) ==
    /\ call[c].pc = "save"
    /\ LET i == call[c].id
           said == call[c].said
       IN  \/ /\ Current(c)
              /\ plan' = [plan EXCEPT ![i] = [call[c].next EXCEPT !.rev = plan[i].rev + 1]]
              /\ newer' = WrittenLast(i)
              /\ reported' = [reported EXCEPT ![i] =
                     [n \in Nodes |-> IF said[n] # "absent" THEN said[n] ELSE @[n]]]
           \/ ~Current(c) /\ UNCHANGED <<plan, newer, reported>>
    /\ call' = [call EXCEPT ![c] = Idle]

(* The process dies, or its request is cancelled, between read and save.   *)
Abandon(c) ==
    /\ ~Ready(c)
    /\ call' = [call EXCEPT ![c] = Idle]
    /\ UNCHANGED <<plan, newer, reported>>

-----------------------------------------------------------------------------
(* Create: refused while the extension has an open plan.                   *)
Insert(i) ==
    /\ plan[i] = NoPlan
    /\ \A j \in Plans : ~Open(plan[j])
    /\ plan' = [plan EXCEPT ![i] = NewPlan]
    /\ newer' = WrittenLast(i)
    /\ UNCHANGED reported

CreatePlan(i) == Insert(i) /\ UNCHANGED call

Acting(i, ok) == [Idle EXCEPT !.pc = "act", !.id = i, !.migrated = ok]

DriveCreate(c, i, ok) ==
    /\ Ready(c)
    /\ Insert(i)
    /\ call' = [call EXCEPT ![c] = Acting(i, ok)]

DriveConflict(c, ok) ==
    /\ Ready(c)
    /\ \E j \in Plans : Open(plan[j])
    /\ call' = [call EXCEPT ![c] = [Idle EXCEPT !.pc = "lookup", !.migrated = ok]]
    /\ UNCHANGED <<plan, newer, reported>>

(* ActiveForExtension: the row updated last among those that have neither  *)
(* failed nor been rolled back.                                            *)
Live == {i \in Plans : Exists(plan[i]) /\ plan[i].phase \notin {"failed", "rolled_back"}}
ActivePlan(i) == i \in Live /\ \A j \in Live \ {i} : <<i, j>> \in newer

DriveLookup(c) ==
    /\ call[c].pc = "lookup"
    /\ \/ \E i \in Plans : ActivePlan(i)
              /\ call' = [call EXCEPT ![c] = Acting(i, call[c].migrated)]
       \/ Live = {} /\ call' = [call EXCEPT ![c] = Idle]
    /\ UNCHANGED <<plan, newer, reported>>

DriveAct(c) ==
    LET i == call[c].id
        p == plan[i]
    IN  /\ call[c].pc = "act"
        /\ \/ call[c].migrated /\ Outcome(c, i, MayMarkReady(p), Migrated(p), p, NoReport)
           \/ ~call[c].migrated /\ Outcome(c, i, TRUE, Failed(p, TRUE), p, NoReport)

Begin(c, i) ==
    \/ MarkMigrationReady(c, i) \/ SelectCanary(c, i) \/ BeginDrain(c, i)
    \/ PromoteAtomic(c, i) \/ Rollback(c, i)
    \/ \E message \in Messages : Fail(c, i, message)
    \/ \E only \in BOOLEAN : HealthGate(c, i, only)
    \/ \E n \in Nodes : MarkNodeLost(c, i, n)
    \/ \E n \in Nodes, h \in Health \ {"absent"}, k \in BOOLEAN : AckNode(c, i, n, h, k)

Drive(c) ==
    \/ \E i \in Plans, ok \in BOOLEAN : DriveCreate(c, i, ok)
    \/ \E ok \in BOOLEAN : DriveConflict(c, ok)
    \/ DriveLookup(c)
    \/ DriveAct(c)

Next ==
    \/ \E i \in Plans : CreatePlan(i)
    \/ \E c \in Callers : Save(c) \/ Abandon(c) \/ Drive(c)
    \/ \E c \in Callers, i \in Plans : Begin(c, i)

Spec == Init /\ [][Next]_vars

-----------------------------------------------------------------------------
Row ==
    [phase : {"none"} \cup OpenPhases \cup TerminalPhases, ready : BOOLEAN,
     acks : [Nodes -> [health : Health, canary : BOOLEAN]], snapshot : BOOLEAN,
     err : BOOLEAN, rev : Nat]

(* A row that got past migration carries the migration proof, and an       *)
(* active row has its snapshot.                                            *)
RowOK(p) ==
    /\ p.phase \in {"staged", "canary", "draining", "active"} => p.ready
    /\ p.phase = "active" => p.snapshot

(* The types, and that no row is in a phase its flags do not support.      *)
TypeOK ==
    /\ plan \in [Plans -> Row]
    /\ call \in [Callers -> [pc : {"idle", "save", "lookup", "act"}, id : Plans, next : Row,
                             said : [Nodes -> Health], migrated : BOOLEAN]]
    /\ newer \subseteq Plans \X Plans
    /\ reported \in [Plans -> [Nodes -> Health]]
    /\ \A i \in Plans : RowOK(plan[i])

(* At most one plan of the extension is open, however creates, stale saves *)
(* and rollbacks of older plans interleave (Create, postgres.go:31-74; the *)
(* partial unique index of the migration).                                 *)
OneOpenPlan == \A i, j \in Plans : Open(plan[i]) /\ Open(plan[j]) => i = j

(* No accepted report is lost: the health a row holds for a node is the    *)
(* one reported last in a call whose save succeeded, although every save   *)
(* writes all acknowledgements back (Save, postgres.go:78-145).            *)
ReportsSurvive ==
    \A i \in Plans, n \in Nodes : plan[i].acks[n].health = reported[i][n]

(* A plan only becomes active over a migration proof and a last report of  *)
(* "healthy" from every node that ever reported (PromoteAtomic).           *)
PromotedOnlyHealthy ==
    [][\A i \in Plans :
         plan[i].phase # "active" /\ plan'[i].phase = "active" =>
             /\ plan[i].ready
             /\ \E n \in Nodes : reported[i][n] # "absent"
             /\ \A n \in Nodes : reported[i][n] \in {"absent", "healthy"}]_vars

(* A plan that was promoted, failed or was rolled back never opens again,  *)
(* and one that failed or was rolled back never becomes active             *)
(* (transition and its callbacks, service.go:102-287).                     *)
TerminalStaysTerminal ==
    [][\A i \in Plans :
         /\ Terminal(plan[i]) => Terminal(plan'[i])
         /\ plan[i].phase \in {"failed", "rolled_back"} => plan'[i].phase # "active"]_vars

(* store.go:20 and service.go:316 say the lookup returns "the non-terminal *)
(* plan for an extension if any": with an open plan, that one is returned. *)
LookupFindsOpenPlan ==
    \A i, j \in Plans : ActivePlan(i) /\ Open(plan[j]) => i = j
=============================================================================
