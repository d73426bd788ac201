------------------------ MODULE LifecycleCoordinator ------------------------
(***************************************************************************)
(* One durable plugin lifecycle operation, the coordinators that drive it  *)
(* and what the host may do to it from outside (app/Models/Extensions/     *)
(* lifecycle_coordinator*.go and lifecycle_repository*.go).                *)
(*                                                                         *)
(* A repository method runs in one transaction on the locked operation row *)
(* and is one action here; between two of them a coordinator may be slow,  *)
(* lose its lease or die.  Two counters of the schema are kept as what     *)
(* they are compared for: "fresh" says that a coordinator's copy of the row*)
(* still has the row's revision, "seen" that its copy of a step attempt    *)
(* still has the attempt's lease revision.  Both only ever grow.           *)
(***************************************************************************)
EXTENDS LifecycleMachine, FiniteSets

CONSTANTS
    Coordinators,   \* processes that may run the operation
    Operation,      \* which of the recommended paths it follows
    MaxCrashes,     \* how many coordinators may die
    MaxLate,        \* how often the lease of a live coordinator may run out
    MaxRetries,     \* how often a failed operation may be reopened
    Reclaims        \* do the orphan reclaim and the operator's CLI exist

ASSUME OperationAssumption == Operation \in Operations
ASSUME SwitchAssumption ==
    {MaxCrashes, MaxLate, MaxRetries} \subseteq Nat /\ Reclaims \in BOOLEAN

Nobody == "nobody"      \* no lease owner
Gone == "gone"          \* the owner's token died with its process

VARIABLES
    op,         \* row of extension_lifecycle_operations
    steps,      \* latest attempt of every gate in extension_lifecycle_steps
    run,        \* the coordinators' invocations of Run
    candidate,  \* the reclaim listed the operation as an orphan
    crashes,    \* how many coordinators died so far
    late,       \* how often a live coordinator renewed its lease too late
    everDone    \* history: gates whose attempt ever succeeded or was skipped

vars == <<op, steps, run, candidate, crashes, late, everDone>>

Last == LastPosition(Operation)
Positions == 0..Last
OpenStatuses == {"planned", "running"}      \* "waiting" is kept as "running"
ClosedStatuses == {"succeeded", "failed", "skipped"}
NoDecision == "none"

(* lifecycleHostGateKinds: preparing, starting, checking and draining a    *)
(* runtime yield process-local state, the boundary gates durable state.    *)
Ephemeral(p) ==
    /\ IsHostGate(Operation, p)
    /\ p # Last
    /\ GateAt(Operation, p).state \in {"planned", "starting", "healthy", "draining"}

FirstMachine(forced) ==
    [NewLifecycleStateMachine(Operation, forced) EXCEPT !.total = Last]

NoAttempt == [status |-> "none", owner |-> Nobody, live |-> FALSE,
              begun |-> {}, seen |-> {}]

NoOperation ==
    [exists |-> FALSE, state |-> "planned", snap |-> FirstMachine(FALSE),
     stored |-> FALSE, done |-> FALSE, terminal |-> NoTerminal, forced |-> FALSE,
     attempts |-> 1, decision |-> NoDecision, idle |-> FALSE]

NoRequest == [retry |-> FALSE, skip |-> FALSE, escalate |-> FALSE]

NotRunning ==
    [pc |-> "idle", m |-> FirstMachine(FALSE), fresh |-> FALSE, done |-> FALSE,
     terminal |-> NoTerminal, decision |-> NoDecision, req |-> NoRequest,
     revalidate |-> FALSE, inRun |-> FALSE]

Init ==
    /\ op = NoOperation
    /\ steps = [p \in Positions |-> NoAttempt]
    /\ run = [c \in Coordinators |-> NotRunning]
    /\ candidate = FALSE /\ crashes = 0 /\ late = 0 /\ everDone = {}

-----------------------------------------------------------------------------
(* Step attempts.                                                          *)
Open(p) == steps[p].status \in OpenStatuses
Owns(c, p) == Open(p) /\ steps[p].owner = c
Authorized(c, p) == Owns(c, p) /\ steps[p].live

Begun(st, c) ==
    IF st.status \in OpenStatuses
    THEN [st EXCEPT !.begun = @ \cup {c}, !.seen = @ \cup {c}]
    ELSE [status |-> "planned", owner |-> Nobody, live |-> FALSE,
          begun |-> {c}, seen |-> {c}]

(* Deliberately wrong: a lease is taken from a holder that renews it.      *)
ClaimableHeld(c, p) == c \in steps[p].seen

Claimable(c, p) ==
    /\ c \in steps[p].seen
    /\ steps[p].owner = Nobody \/ ~steps[p].live
Claimed(st, c) == [st EXCEPT !.status = "running", !.owner = c, !.live = TRUE, !.seen = {}]
Released(st) == [st EXCEPT !.owner = Nobody, !.live = FALSE, !.seen = {}]
ClosedAs(status) == [NoAttempt EXCEPT !.status = status]

(* The end of an invocation: whatever lease it still has is left to expire.*)
Abandoned(st, c) ==
    [st EXCEPT !.owner = IF @ = c THEN Gone ELSE @,
               !.begun = @ \ {c}, !.seen = @ \ {c}]

(* How an action leaves the invocation of c and the attempts.              *)
Settle(c, r, st) ==
    /\ run' = [run EXCEPT ![c] = IF r.pc = "idle" THEN NotRunning ELSE r]
    /\ steps' = IF r.pc = "idle" THEN [p \in Positions |-> Abandoned(st[p], c)] ELSE st

(* Nothing but c's own state changes.                                      *)
Goto(c, pc) ==
    /\ Settle(c, [run[c] EXCEPT !.pc = pc], steps)
    /\ UNCHANGED <<op, candidate, crashes, late, everDone>>
Return(c) == Goto(c, "idle")

(* Only attempts change.                                                   *)
Ledger(c, p, attempt, pc) ==
    /\ Settle(c, [run[c] EXCEPT !.pc = pc], [steps EXCEPT ![p] = attempt])
    /\ UNCHANGED <<op, candidate, crashes, late>>

(* The row changes: every other copy of it is now stale.                   *)
Write(c, row, r) ==
    /\ op' = row
    /\ run' = [d \in Coordinators |->
                 IF d # c THEN [run[d] EXCEPT !.fresh = FALSE]
                 ELSE IF r.pc = "idle" THEN NotRunning
                 ELSE [r EXCEPT !.fresh = TRUE, !.done = row.done,
                                !.terminal = row.terminal, !.decision = row.decision]]
    /\ steps' = IF r.pc = "idle" THEN [p \in Positions |-> Abandoned(steps[p], c)] ELSE steps
    /\ UNCHANGED <<candidate, crashes, late, everDone>>

-----------------------------------------------------------------------------
(* Where Run goes next, from what it holds of the row and the machine.     *)
DrivePc(m) ==
    CASE m.state = "recovery" -> "recover"
      [] m.state # "recovery" /\ ~m.complete -> "replay"
      [] m.state # "recovery" /\ m.complete /\ m.position = Last -> "succeed"
      [] OTHER -> "advance"

CheckPc(r) ==
    CASE ~r.done /\ r.m.terminal # NoTerminal -> "closeRow"
      [] r.done -> IF r.terminal \in FailureTerminals /\ r.req.retry THEN "resume" ELSE "idle"
      [] OTHER -> IF r.req.retry /\ r.decision = NoDecision THEN "idle" ELSE DrivePc(r.m)

AfterGate(r) == IF r.inRun THEN CheckPc(r) ELSE DrivePc(r.m)

(* Deliberately wrong: a crash inside resume is not repaired.              *)
LoadPcWithoutRepair(r) ==
    LET m == op.snap IN
    IF ~op.stored THEN IF op.state = "planned" THEN "init" ELSE "error"
    ELSE IF m.state # op.state \/ m.forced # op.forced THEN "error"
    ELSE IF ~op.done /\ m.terminal = NoTerminal /\ ~m.complete /\ m.state # "recovery"
         THEN "loadRead" ELSE CheckPc(r)

(* loadOrInitializeMachine; "error" when the row and the snapshot diverged.*)
LoadPc(r) ==
    LET m == op.snap IN
    IF ~op.stored THEN IF op.state = "planned" THEN "init" ELSE "error"
    ELSE IF op.state = "recovery" /\ m.state = "failed" THEN "repair"
    ELSE IF m.state # op.state \/ m.forced # op.forced THEN "error"
    ELSE IF ~op.done /\ m.terminal = NoTerminal /\ ~m.complete /\ m.state # "recovery"
         THEN "loadRead" ELSE CheckPc(r)

-----------------------------------------------------------------------------
(* The transitions the coordinator asks the state machine for.             *)
CompleteGate(m) == [Request(m.state, m.action, m.position) EXCEPT !.complete = TRUE]
FailGate(m) == [Request("failed", m.action, m.units) EXCEPT !.terminal = "failed"]
Succeed(m) == [Request(m.state, m.action, m.units) EXCEPT !.terminal = "succeeded"]
StayAtGate(m) == Request(m.state, m.action, m.units)
NextGate(m) ==
    LET g == GateAt(Operation, m.position + 1) IN Request(g.state, g.action, m.units)
RetryFailed(m, escalate) ==
    [Request("recovery", NoAction, m.units) EXCEPT !.retry = TRUE, !.escalate = escalate]
Reenter(m) ==
    LET g == GateAt(Operation, m.recovery) IN Request(g.state, g.action, m.units)
SkipFailed(m) ==
    LET g == GateAt(Operation, m.recovery) IN
    [Request(g.state, g.action, m.recovery) EXCEPT !.skip = TRUE]

(* Deliberately wrong: the revision the writer read is not compared.       *)
MayWriteStale(c) == run[c].fresh \in BOOLEAN

(* TransitionOperation stores a machine when the row is open and unchanged *)
(* since this coordinator read it.                                         *)
MayWrite(c) == run[c].fresh
Store(c, m, pc) ==
    IF MayWrite(c) /\ ~op.done
    THEN Write(c, [op EXCEPT !.state = m.state, !.snap = m, !.stored = TRUE, !.idle = FALSE],
               [run[c] EXCEPT !.m = m, !.pc = pc])
    ELSE Return(c)

Persist(c, t, pcAfter(_)) ==
    LET m == ApplyLifecycleTransition(run[c].m, t) IN
    IF ValidateLifecycleTransition(run[c].m, t) THEN Store(c, m, pcAfter(m)) ELSE Return(c)

(* CompleteOperation closes the row the same way.                          *)
CloseRow(c, terminal, pcAfter(_)) ==
    IF MayWrite(c) /\ ~op.done
    THEN LET row == [op EXCEPT !.state = run[c].m.state, !.terminal = terminal,
                               !.done = TRUE, !.idle = FALSE]
         IN Write(c, row, [run[c] EXCEPT !.pc =
                pcAfter([run[c] EXCEPT !.done = TRUE, !.terminal = terminal])])
    ELSE Return(c)

-----------------------------------------------------------------------------
(* Run: acquire the row, load the machine, finish what a predecessor left. *)
Requests ==
    {NoRequest} \cup
    {[retry |-> TRUE, skip |-> s, escalate |-> e] :
        s \in BOOLEAN, e \in {FALSE, Operation = "uninstall"}}

Create(c) ==
    /\ ~op.exists
    /\ \E forced \in {FALSE, Operation = "uninstall"} :
         Write(c, [NoOperation EXCEPT !.exists = TRUE, !.forced = forced],
               [NotRunning EXCEPT !.pc = "init", !.inRun = TRUE])

(* An invocation that replays a closed row, or fails to load it, leaves no *)
(* trace.                                                                  *)
Loaded(request) ==
    [NotRunning EXCEPT !.m = op.snap, !.fresh = TRUE, !.done = op.done,
        !.terminal = op.terminal, !.decision = op.decision, !.req = request,
        !.revalidate = TRUE, !.inRun = TRUE]

Reopen(c, request) ==
    LET pc == LoadPc(Loaded(request)) IN
    /\ op.exists /\ pc # "error" /\ (request.retry => op.attempts <= MaxRetries)
    /\ Settle(c, [Loaded(request) EXCEPT !.pc = pc], steps)
    /\ UNCHANGED <<op, candidate, crashes, late, everDone>>

Acquire(c) ==
    /\ run[c].pc = "idle"
    /\ Create(c) \/ \E request \in Requests : Reopen(c, request)

InitializeMachine(c) ==
    /\ run[c].pc = "init"
    /\ Store(c, FirstMachine(op.forced), "loadRead")

RepairRecovery(c) ==
    /\ run[c].pc = "repair"
    /\ LET escalate == op.forced /\ ~run[c].m.forced
       IN Persist(c, RetryFailed(run[c].m, escalate),
                  LAMBDA m : CheckPc([run[c] EXCEPT !.m = m]))

(* reconcilePendingStepTerminal: an attempt that is already closed decides *)
(* the gate, at the start of Run and before every gate.                    *)
HostMarked(m, p) ==
    [m EXCEPT !.marker = IF Ephemeral(p) THEN p ELSE @,
              !.sideEffects = @ \/ p = 0]

Reconcile(c) ==
    LET r == run[c]
        p == r.m.position
        host == IsHostGate(Operation, p)
        pc == CASE steps[p].status \in {"succeeded", "skipped"} -> "gatePersist"
                [] steps[p].status = "failed" -> "failPersist"
                [] OTHER -> IF r.pc = "replay" THEN "claimRead" ELSE CheckPc(r)
    IN /\ r.pc \in {"loadRead", "replay"}
       /\ IF steps[p].status = "skipped" /\ host THEN Return(c)
          ELSE /\ Settle(c, [r EXCEPT !.pc = pc, !.inRun = (r.pc = "loadRead"),
                                !.m = IF pc = "gatePersist" /\ host THEN HostMarked(@, p) ELSE @],
                         steps)
               /\ UNCHANGED <<op, candidate, crashes, late, everDone>>

PersistGate(c) ==
    /\ run[c].pc = "gatePersist"
    /\ Persist(c, CompleteGate(run[c].m), LAMBDA m : AfterGate([run[c] EXCEPT !.m = m]))

(* Deliberately wrong: the row is closed before the machine is stored.     *)
FailureClosedFirst(c) == run[c].pc = "failPersist" /\ Goto(c, "failClose")

(* completeFailure: first the failed machine, then the row.                *)
PersistFailure(c) ==
    /\ run[c].pc = "failPersist"
    /\ Persist(c, FailGate(run[c].m), LAMBDA m : "failClose")

CloseFailed(c) ==
    /\ run[c].pc = "failClose"
    /\ CloseRow(c, "failed", LAMBDA r : IF r.inRun THEN CheckPc(r) ELSE "idle")

ReconcileTerminal(c) ==
    /\ run[c].pc = "closeRow"
    /\ CloseRow(c, run[c].m.terminal, CheckPc)

(* resume: the decision and the reopened row in one transaction, then the  *)
(* machine in another.                                                     *)
Recovered(c) ==
    ApplyLifecycleTransition(run[c].m, RetryFailed(run[c].m, run[c].req.escalate))

Resumable(c) ==
    LET r == run[c]
        reentry == IF r.req.skip THEN [SkipFailed(Recovered(c)) EXCEPT !.units = r.m.units]
                                 ELSE Reenter(Recovered(c))
    IN /\ ValidateLifecycleTransition(r.m, RetryFailed(r.m, r.req.escalate))
       /\ ValidateLifecycleTransition(Recovered(c), reentry)
       /\ op.done /\ op.terminal \in FailureTerminals
       /\ r.req.escalate => Operation = "uninstall" /\ ~op.forced

Resume(c) ==
    /\ run[c].pc = "resume"
    /\ IF MayWrite(c) /\ Resumable(c)
       THEN Write(c, [op EXCEPT !.state = "recovery", !.terminal = NoTerminal, !.done = FALSE,
                          !.attempts = @ + 1,
                          !.decision = IF run[c].req.skip THEN "skip_step" ELSE "retry",
                          !.forced = @ \/ run[c].req.escalate, !.idle = FALSE],
                  [run[c] EXCEPT !.pc = "resumePersist", !.m = Recovered(c)])
       ELSE Return(c)

PersistResumed(c) ==
    /\ run[c].pc = "resumePersist"
    /\ Store(c, run[c].m, DrivePc(run[c].m))

-----------------------------------------------------------------------------
(* drive, at a gate in recovery: skip it or open an attempt to retry it.   *)
RecoverGate(c) ==
    LET r == run[c]
        p == r.m.recovery
        skipped == steps[p].status = "skipped"
    IN /\ r.pc = "recover"
       /\ CASE skipped /\ r.decision = "skip_step" -> Goto(c, "skipPersist")
            [] ~skipped /\ r.decision = "skip_step" ->
                 IF ValidateLifecycleTransition(r.m, [SkipFailed(r.m) EXCEPT !.units = r.m.units])
                 THEN Goto(c, "skipBegin") ELSE Return(c)
            [] ~skipped /\ r.decision = "retry" -> Goto(c, "retryBegin")
            [] OTHER -> Return(c)

(* BeginStepAttempt hands out the open attempt of the step or a new one.   *)
BeginStepAttempt(c, p, pc) ==
    IF op.done THEN Return(c)
    ELSE Ledger(c, p, Begun(steps[p], c), pc) /\ UNCHANGED everDone

(* ClaimStepLease: a compare-and-set on the attempt's lease revision.      *)
ClaimStepLease(c, p, claimed, onClosed, onConflict) ==
    IF op.done THEN Goto(c, onConflict)
    ELSE IF c \notin steps[p].begun THEN Goto(c, onClosed)
    ELSE IF ~Claimable(c, p) THEN Goto(c, onConflict)
    ELSE Ledger(c, p, Claimed(steps[p], c), claimed) /\ UNCHANGED everDone

(* CompleteStepAttempt closes the attempt under an unexpired own lease.    *)
CompleteStepAttempt(c, p, status, pc, onError) ==
    IF ~op.done /\ Authorized(c, p)
    THEN /\ Ledger(c, p, ClosedAs(status), pc)
         /\ everDone' = IF status = "failed" THEN everDone ELSE everDone \cup {p}
    ELSE Goto(c, onError)

SkipBegin(c) ==
    run[c].pc = "skipBegin" /\ BeginStepAttempt(c, run[c].m.recovery, "skipClaim")
SkipClaim(c) ==
    run[c].pc = "skipClaim" /\ ClaimStepLease(c, run[c].m.recovery, "skipDone", "idle", "idle")
SkipDone(c) ==
    /\ run[c].pc = "skipDone"
    /\ CompleteStepAttempt(c, run[c].m.recovery, "skipped", "skipPersist", "idle")
PersistRecoverySkip(c) ==
    run[c].pc = "skipPersist" /\ Persist(c, SkipFailed(run[c].m), DrivePc)
RetryBegin(c) ==
    run[c].pc = "retryBegin" /\ BeginStepAttempt(c, run[c].m.recovery, "retryPersist")
RetryPersist(c) ==
    run[c].pc = "retryPersist" /\ Persist(c, Reenter(run[c].m), DrivePc)

-----------------------------------------------------------------------------
(* drive, at an incomplete gate: claimCurrentLifecycleGate.                *)
ClaimRead(c) ==
    /\ run[c].pc = "claimRead"
    /\ Goto(c, IF steps[run[c].m.position].status \in ClosedStatuses THEN "replay" ELSE "begin")

BeginGate(c) ==
    run[c].pc = "begin" /\ BeginStepAttempt(c, run[c].m.position, "claim")

Revalidates(r) == r.revalidate /\ r.m.marker \notin {NoMarker, r.m.position}

ClaimGate(c) ==
    /\ run[c].pc = "claim"
    /\ ClaimStepLease(c, run[c].m.position,
                      IF Revalidates(run[c]) THEN "revalRead" ELSE "exec", "replay", "idle")

(* revalidateLifecycleHostState, under the claim on the current gate: the  *)
(* marked gate is run again, unless its latest attempt says otherwise.     *)
RevalidateRead(c) ==
    /\ run[c].pc = "revalRead"
    /\ Goto(c, CASE steps[run[c].m.marker].status \in {"none", "succeeded"} -> "revalBegin"
                 [] steps[run[c].m.marker].status = "failed" -> "replayRelease"
                 [] OTHER -> "dropClaim")

RevalidateBegin(c) ==
    /\ run[c].pc = "revalBegin"
    /\ IF op.done THEN Goto(c, "dropClaim")
       ELSE BeginStepAttempt(c, run[c].m.marker, "revalClaim")

RevalidateClaim(c) ==
    /\ run[c].pc = "revalClaim"
    /\ ClaimStepLease(c, run[c].m.marker, "revalRun", "dropClaim", "dropClaim")

(* lifecycleHostActionResults: a host gate runs only if every plugin gate  *)
(* before it ended well.                                                   *)
PriorActionsDone(p) ==
    \A q \in 0..(p - 1) :
        IsHostGate(Operation, q) \/ steps[q].status \in {"succeeded", "skipped"}

RevalidateRun(c) ==
    /\ run[c].pc = "revalRun"
    /\ \/ PriorActionsDone(run[c].m.marker) /\ Goto(c, "revalDone")
       \/ Goto(c, "revalFail")

RevalidateDone(c) ==
    /\ run[c].pc = "revalDone"
    /\ CompleteStepAttempt(c, run[c].m.marker, "succeeded", "revalPersist", "dropClaim")

(* A snapshot that cannot be stored drops the claim before the error.      *)
RevalidatePersist(c) ==
    /\ run[c].pc = "revalPersist"
    /\ IF MayWrite(c) /\ ~op.done
       THEN Persist(c, StayAtGate(run[c].m), LAMBDA m : "exec")
       ELSE Goto(c, "dropClaim")

(* Before a failed revalidation is recorded the current gate is released.  *)
ReleaseStepLease(c, pc, onError) ==
    LET p == run[c].m.position IN
    IF ~op.done /\ Owns(c, p)
    THEN Ledger(c, p, Released(steps[p]), pc) /\ UNCHANGED everDone
    ELSE Goto(c, onError)

RevalidateFail(c) ==
    run[c].pc = "revalFail" /\ ReleaseStepLease(c, "revalFailDone", "dropClaim")
RevalidateFailDone(c) ==
    /\ run[c].pc = "revalFailDone"
    /\ CompleteStepAttempt(c, run[c].m.marker, "failed", "failPersist", "idle")
ReplayRelease(c) ==
    run[c].pc = "replayRelease" /\ ReleaseStepLease(c, "failPersist", "dropClaim")
DropClaim(c) ==
    run[c].pc = "dropClaim" /\ ReleaseStepLease(c, "idle", "idle")

-----------------------------------------------------------------------------
(* The gate itself, run by the host or the plugin under the lease, which   *)
(* the heartbeat renews.  Cancelled runs take the path of failed ones.     *)
(* Only the first gate of an invocation revalidates.                       *)
GateEnds(c) ==
    LET r == run[c]
        p == r.m.position
        host == IsHostGate(Operation, p)
    IN /\ r.pc = "exec"
       /\ \/ /\ host => PriorActionsDone(p)
             /\ Settle(c, [r EXCEPT !.pc = "stepDone", !.inRun = FALSE, !.revalidate = FALSE,
                                   !.m = IF host THEN HostMarked(@, p) ELSE @], steps)
          \/ Settle(c, [r EXCEPT !.pc = "stepFail", !.inRun = FALSE], steps)
       /\ UNCHANGED <<op, candidate, crashes, late, everDone>>

StepDone(c) ==
    /\ run[c].pc = "stepDone"
    /\ CompleteStepAttempt(c, run[c].m.position, "succeeded", "gatePersist", "idle")
StepFail(c) ==
    /\ run[c].pc = "stepFail"
    /\ CompleteStepAttempt(c, run[c].m.position, "failed", "failPersist", "idle")

(* A plugin reports progress, in whatever open status it likes; then the   *)
(* machine is stored with the new checkpoint.                              *)
ReportProgress(c) ==
    LET p == run[c].m.position IN
    /\ run[c].pc = "exec" /\ ~IsHostGate(Operation, p)
    /\ \E status \in OpenStatuses :
         IF ~op.done /\ Authorized(c, p)
         THEN Ledger(c, p, [steps[p] EXCEPT !.status = status], "progress") /\ UNCHANGED everDone
         ELSE Return(c)
PersistProgress(c) ==
    run[c].pc = "progress" /\ Persist(c, StayAtGate(run[c].m), LAMBDA m : "exec")

Heartbeat(c) ==
    \E p \in Positions :
        /\ ~op.done /\ Authorized(c, p)
        /\ steps' = [steps EXCEPT ![p].seen = {}]
        /\ UNCHANGED <<op, run, candidate, crashes, late, everDone>>

(* drive, at a complete gate: on to the next one, or to success.           *)
AdvanceGate(c) ==
    run[c].pc = "advance" /\ Persist(c, NextGate(run[c].m), DrivePc)
PersistSuccess(c) ==
    run[c].pc = "succeed" /\ Persist(c, Succeed(run[c].m), LAMBDA m : "close")
CloseSucceeded(c) ==
    run[c].pc = "close" /\ CloseRow(c, "succeeded", LAMBDA r : "idle")

-----------------------------------------------------------------------------
(* What happens to the operation from outside.  An invocation that gives up*)
(* on a database error leaves what one that dies leaves.                   *)
Crash(c) ==
    /\ run[c].pc # "idle" /\ crashes < MaxCrashes
    /\ crashes' = crashes + 1
    /\ Settle(c, NotRunning, steps)
    /\ UNCHANGED <<op, candidate, late, everDone>>

LeaseExpires(p) ==
    /\ Open(p) /\ steps[p].live
    /\ \/ steps[p].owner = Gone /\ UNCHANGED late
       \/ steps[p].owner # Gone /\ late < MaxLate /\ late' = late + 1
    /\ steps' = [steps EXCEPT ![p].live = FALSE]
    /\ UNCHANGED <<op, run, candidate, crashes, everDone>>

(* The row was not written for the 45 seconds of the idle grace.           *)
GoesIdle ==
    /\ Reclaims /\ op.exists /\ ~op.done /\ ~op.idle
    /\ op' = [op EXCEPT !.idle = TRUE]
    /\ UNCHANGED <<steps, run, candidate, crashes, late, everDone>>

(* Deliberately wrong: only attempts somebody once held make an orphan.    *)
ListOnlyHeld ==
    /\ Reclaims /\ ~candidate /\ op.exists /\ ~op.done
    /\ \A p \in Positions : ~(steps[p].status = "running" /\ steps[p].live)
    /\ \E p \in Positions : Open(p) /\ steps[p].owner # Nobody
    /\ candidate' = TRUE
    /\ UNCHANGED <<op, steps, run, crashes, late, everDone>>

ListOrphan ==
    /\ Reclaims /\ ~candidate /\ op.exists /\ ~op.done
    /\ \A p \in Positions : ~(steps[p].status = "running" /\ steps[p].live)
    /\ op.idle \/ \E p \in Positions : Open(p) /\ steps[p].owner # Nobody
    /\ candidate' = TRUE
    /\ UNCHANGED <<op, steps, run, crashes, late, everDone>>

(* Both ways of closing the row from outside fail its open attempts and    *)
(* leave its snapshot alone.                                               *)
CloseFromOutside ==
    /\ op' = [op EXCEPT !.state = "failed", !.terminal = "cancelled", !.done = TRUE, !.idle = FALSE]
    /\ steps' = [p \in Positions |-> IF Open(p) THEN ClosedAs("failed") ELSE steps[p]]
    /\ run' = [c \in Coordinators |-> [run[c] EXCEPT !.fresh = FALSE]]
    /\ UNCHANGED <<crashes, late, everDone>>

(* Deliberately wrong: the row is not read again under its lock.           *)
ReclaimBlindly == candidate /\ candidate' = FALSE /\ CloseFromOutside

ReclaimOrphan ==
    /\ candidate /\ candidate' = FALSE
    /\ IF op.done THEN UNCHANGED <<op, steps, run, crashes, late, everDone>> ELSE CloseFromOutside

CloseByOperator ==
    /\ Reclaims /\ op.exists /\ ~op.done
    /\ \E force \in BOOLEAN : force \/ \A p \in Positions : ~(Open(p) /\ steps[p].live)
    /\ CloseFromOutside /\ UNCHANGED candidate

-----------------------------------------------------------------------------
Proceed(c) ==
    \/ InitializeMachine(c) \/ RepairRecovery(c) \/ Reconcile(c) \/ PersistGate(c)
    \/ PersistFailure(c) \/ CloseFailed(c) \/ ReconcileTerminal(c)
    \/ Resume(c) \/ PersistResumed(c) \/ RecoverGate(c)
    \/ SkipBegin(c) \/ SkipClaim(c) \/ SkipDone(c) \/ PersistRecoverySkip(c)
    \/ RetryBegin(c) \/ RetryPersist(c)
    \/ ClaimRead(c) \/ BeginGate(c) \/ ClaimGate(c)
    \/ RevalidateRead(c) \/ RevalidateBegin(c) \/ RevalidateClaim(c) \/ RevalidateRun(c)
    \/ RevalidateDone(c) \/ RevalidatePersist(c) \/ RevalidateFail(c)
    \/ RevalidateFailDone(c) \/ ReplayRelease(c) \/ DropClaim(c)
    \/ GateEnds(c) \/ StepDone(c) \/ StepFail(c) \/ PersistProgress(c)
    \/ AdvanceGate(c) \/ PersistSuccess(c) \/ CloseSucceeded(c)

Next ==
    \/ \E c \in Coordinators :
         Acquire(c) \/ Proceed(c) \/ ReportProgress(c) \/ Heartbeat(c) \/ Crash(c)
    \/ \E p \in Positions : LeaseExpires(p)
    \/ GoesIdle \/ ListOrphan \/ ReclaimOrphan \/ CloseByOperator

Spec == Init /\ [][Next]_vars

-----------------------------------------------------------------------------
(* Rows, attempts and invocations keep their shape                         *)
(* (lifecycle_repository.go:150-260, lifecycle_coordinator.go:159-180).    *)
MachineOK(m) ==
    /\ m.operation = Operation /\ m.position \in Positions /\ m.recovery \in Positions
    /\ m.state \in MachineStates /\ m.action \in GateActions
    /\ m.terminal \in MachineTerminals /\ m.marker \in Positions \cup {NoMarker}
    /\ m.units \in Positions /\ m.total = Last
    /\ {m.complete, m.forced, m.sideEffects} \subseteq BOOLEAN

TypeOK ==
    /\ MachineOK(op.snap) /\ op.state \in MachineStates
    /\ op.terminal \in FailureTerminals \cup {"succeeded", NoTerminal}
    /\ op.decision \in {NoDecision, "retry", "skip_step"}
    /\ op.done = (op.terminal # NoTerminal) /\ op.attempts \in 1..(MaxRetries + 1)
    /\ op.decision = NoDecision <=> op.attempts = 1
    /\ \A p \in Positions :
         /\ steps[p].status \in OpenStatuses \cup ClosedStatuses \cup {"none"}
         /\ steps[p].owner \in Coordinators \cup {Nobody, Gone}
         /\ steps[p].seen \subseteq steps[p].begun /\ steps[p].begun \subseteq Coordinators
         /\ steps[p].live => steps[p].owner # Nobody
         /\ ~Open(p) => steps[p].owner = Nobody /\ steps[p].begun = {}
    /\ \A c \in Coordinators : MachineOK(run[c].m)
    /\ candidate \in BOOLEAN /\ crashes \in 0..MaxCrashes /\ late \in 0..MaxLate
    /\ everDone \subseteq Positions

(* The next invocation can always load what crashes and races left: all of *)
(* it keeps its shape, every machine that is stored or worked on is one    *)
(* that is accepted (validateLifecycleMachine), and the row and its        *)
(* snapshot, written by two transactions, never diverge beyond what        *)
(* loadOrInitializeMachine repairs (lifecycle_coordinator.go:305 and :350).*)
RowStaysLoadable ==
    /\ TypeOK
    /\ op.stored => validateLifecycleMachine(op.snap)
    /\ \A c \in Coordinators : validateLifecycleMachine(run[c].m)
    /\ op.exists => LoadPc(Loaded(NoRequest)) # "error"

(* The ledger is written ahead of the snapshot: a gate the snapshot has    *)
(* passed was really executed or skipped, and a gate still ahead of it was *)
(* not touched, whoever crashed or raced in between.                       *)
Passed(m, p) == p < m.position \/ (p = m.position /\ m.complete)
LedgerLeadsSnapshot ==
    /\ \A p \in Positions : Passed(op.snap, p) => p \in everDone
    /\ \A p \in Positions : p > op.snap.position => steps[p].status = "none"

(* A row closes only with the outcome its snapshot reached: success means  *)
(* every gate was executed or skipped (CompleteOperation is the second of  *)
(* two writes, lifecycle_coordinator_terminal.go:10 and _drive.go:750).    *)
ClosedAsReached ==
    op.done => /\ op.terminal = op.snap.terminal \/ op.terminal = "cancelled"
               /\ op.terminal = "succeeded" => Positions \subseteq everDone

(* As long as live coordinators have renewed their leases in time, no gate *)
(* was ever executed by two coordinators at once (lease and heartbeat of   *)
(* lifecycle_coordinator_lease.go).                                        *)
Executing(c, p) ==
    \/ run[c].pc \in {"exec", "progress", "stepDone", "stepFail"} /\ run[c].m.position = p
    \/ run[c].pc \in {"revalRun", "revalDone", "revalFail"} /\ run[c].m.marker = p
OneExecutor ==
    late = 0 =>
        \A c, d \in Coordinators, p \in Positions : Executing(c, p) /\ Executing(d, p) => c = d

(* The row, the ledger and all coordinators together are one operation that*)
(* keeps its contract.                                                     *)
Result ==
    CASE ~op.exists -> "none"
      [] op.exists /\ ~op.done -> "open"
      [] op.exists /\ op.done /\ op.terminal = "succeeded" -> "succeeded"
      [] OTHER -> "failed"
Contract == INSTANCE LifecycleContract WITH
    LastGate <- Last, result <- Result, finished <- Cardinality(everDone)
KeepsContract == Contract!Spec /\ [](everDone = 0..(Cardinality(everDone) - 1))

(* The orphan reclaim never touches an operation with an unexpired lease:  *)
(* lifecycle_repository_orphan.go:36-37.                                   *)
ReclaimSparesLiveLease ==
    [][candidate /\ ~candidate' /\ op # op' =>
         \A p \in Positions : ~(steps[p].status = "running" /\ steps[p].live)]_vars

-----------------------------------------------------------------------------
(* The program takes its steps, a gate that is run ends, somebody repeats  *)
(* the request, leases of dead processes run out, a row nobody writes any  *)
(* more turns idle, and the reclaim polls.                                 *)
Invoke(c) == run[c].pc = "idle" /\ (Create(c) \/ Reopen(c, NoRequest))

Fairness ==
    /\ \A c \in Coordinators :
         WF_vars(Proceed(c)) /\ SF_vars(GateEnds(c)) /\ WF_vars(Invoke(c))
    /\ \A p \in Positions : WF_vars(steps[p].owner = Gone /\ LeaseExpires(p))
    /\ []<><<~op'.idle>>_op \/ WF_vars(GoesIdle)
    /\ SF_vars(ListOrphan) /\ WF_vars(ReclaimOrphan)

FairSpec == Spec /\ Fairness

(* An accepted operation reaches an outcome, whatever crashed or raced,    *)
(* because what the coordinators cannot finish the reclaim closes.         *)
OperationCloses == op.exists ~> op.done

(* A later invocation revalidates or recreates the marked host state: the  *)
(* attempt a dead predecessor opened for it does not stay open             *)
(* (lifecycle_coordinator.go:145-148).                                     *)
RevalidationEnds ==
    \A p \in Positions : op.snap.marker = p /\ Open(p) ~> op.done \/ ~Open(p)
=============================================================================
