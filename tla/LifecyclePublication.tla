------------------------ MODULE LifecyclePublication ------------------------
(* The gate of a lifecycle operation that publishes: how the composed host  *)
(* boundary moves an extension from its source artifact to its target.      *)
(* Three database transactions (extension state, jobs and schedules,        *)
(* registries) each stand at the source or at the target and can be moved   *)
(* back; then one marker commits the publication, and from there it only    *)
(* goes forward.  The runtime instances of both artifacts live in this      *)
(* process: the active pointer, their admission gates and the registries'   *)
(* local snapshots, all lost in a crash.                                    *)
(*                                                                          *)
(* mode: "install" stands for every activation without a source (install,   *)
(* enable), "upgrade" for those with one (upgrade, rollback), "disable" for *)
(* the deactivations (disable, uninstall).  One executor at a time.  Every  *)
(* move, and the commit, locks the publication's row; a transaction whose   *)
(* connection is lost while it commits is pending: it holds the row until   *)
(* the database has settled it, while plain reads still see the old state.  *)
EXTENDS Naturals, Sequences

CONSTANTS
    Modes,      \* the operations to look at, of "install", "upgrade", "disable"
    MaxFaults   \* bound: failing calls, refusals and crashes in one behaviour

ASSUME PublicationAssumption ==
    Modes \subseteq {"install", "upgrade", "disable"} /\ MaxFaults \in Nat

VARIABLES
    mode,
    phase,       \* where each of the three transactions stands
    marker,      \* the publication's commit marker
    reconciled,  \* the jobs' reconciliation has succeeded
    pending,     \* the transaction the database has yet to settle, or None
    active,      \* the instance the manager's active pointer names
    gate,        \* the admission gate of each side's instance
    local,       \* what the local registries serve
    pc, left, clean, committed,  \* the executor: step, moves left, restores so far, marker as read
    faults

durable == <<phase, marker, reconciled, pending>>
process == <<active, gate, local>>
walk == <<left, clean, committed>>
publicationVars == <<mode, durable, process, walk, pc, faults>>

Sides == {"source", "target"}
Parts == {"state", "jobs", "registries"}
Publishing == <<"state", "jobs", "registries">>
Restoring == <<"registries", "jobs", "state">>
None == [part |-> "none", to |-> "source"]
Marker == [part |-> "marker", to |-> "target"]
Pending == [part : Parts, to : Sides] \cup {None, Marker}
Steps == {"rest", "drain", "early", "drainTarget", "prepare", "residual", "runtime", "move",
          "require", "commit", "inspect", "undo", "close", "reconcile", "resume", "retire", "done"}

Activation == mode # "disable"
Has(side) == IF side = "source" THEN mode # "install" ELSE Activation
AllAt(side) == \A p \in Parts : phase[p] = side

PublicationInit ==
    /\ mode \in Modes
    /\ phase = [p \in Parts |-> "source"]
    /\ marker = FALSE /\ reconciled = FALSE /\ pending = None
    /\ active = IF Has("source") THEN "source" ELSE "none"
    /\ gate = [source |-> IF Has("source") THEN "open" ELSE "stopped",
               target |-> IF Has("target") THEN "closed" ELSE "stopped"]
    /\ local = "source"
    /\ pc = "rest" /\ left = <<>> /\ clean = TRUE /\ committed = FALSE
    /\ faults = 0

(* A call that fails: refused, timed out, cancelled, or its answer lost.    *)
Fault == faults < MaxFaults /\ faults' = faults + 1

(* drainRuntime: admission closes at once; an instance that is gone is fine.*)
Shut(side) == IF gate[side] = "open" THEN [gate EXCEPT ![side] = "closed"] ELSE gate

(* closeFailedTargetRuntime, and failCommittedActivation without a source:  *)
(* the target drains, and without a source is stopped, which may fail.      *)
CloseTarget ==
    \/ gate' = Shut("target") /\ UNCHANGED active
    \/ /\ mode = "install"
       /\ gate' = [gate EXCEPT !["target"] = "stopped"]
       /\ active' = IF active = "target" THEN "none" ELSE active

(* Resuming the source, as openSourceLifecycleJobs does it: authorized by   *)
(* the marker and the jobs' phase alone, for the active, drained instance.  *)
(* An instance that is not active any more has nothing to open, and any     *)
(* other failure closes it again.                                           *)
ResumeAllowed == ~marker /\ phase["jobs"] = "source"

SourceResumed(pointer) ==
    IF ResumeAllowed /\ pointer = "source" /\ gate["source"] = "closed"
    THEN [Shut("target") EXCEPT !["source"] = "open"]
    ELSE [r \in Sides |-> IF gate[r] = "open" THEN "closed" ELSE gate[r]]

(* Deliberately wrong: a restore does not ask for the marker.               *)
WrittenWhenever(part, to) ==
    /\ pending = None
    /\ phase' = [phase EXCEPT ![part] = to]
    /\ local' = IF part = "registries" THEN to ELSE local
    /\ UNCHANGED <<pending, faults>>

(* Restoring and publishing transactions.  A restore is refused once the    *)
(* marker stands.  The registries change their local snapshots while the    *)
(* row is locked, before the move commits: a move that fails may leave them *)
(* changed, or half changed.                                                *)
Written(part, to) ==
    /\ pending = None
    /\ to = "source" => ~marker
    /\ phase' = [phase EXCEPT ![part] = to]
    /\ local' = IF part = "registries" THEN to ELSE local
    /\ UNCHANGED <<pending, faults>>

Refused(to) == pending = None /\ to = "source" /\ marker /\ UNCHANGED <<phase, pending, local, faults>>

Failed(part, to) ==
    /\ Fault
    /\ pending = None => pending' \in {None, [part |-> part, to |-> to]} /\ (to = "source" => ~marker)
    /\ pending # None => pending' = pending
    /\ local' \in IF part = "registries" /\ pending = None /\ local # to
                  THEN {local, "torn", to} ELSE {local}
    /\ UNCHANGED phase

(* failActivationPhase and failDeactivationPhase: after the marker nothing  *)
(* is restored; before it, everything is.                                   *)
PhaseFails ==
    IF committed
    THEN pc' = (IF Activation THEN "close" ELSE "rest") /\ UNCHANGED <<left, clean>>
    ELSE pc' = "undo" /\ left' = Restoring /\ clean' = TRUE

-----------------------------------------------------------------------------
(* The coordinator runs the gate, or runs it again; the revalidation before *)
(* a retry stages processes that are gone, drained and not active.          *)
Begin ==
    /\ pc = "rest" /\ pc' = "drain"
    /\ gate' = [r \in Sides |-> IF gate[r] = "stopped" /\ Has(r) THEN "closed" ELSE gate[r]]
    /\ UNCHANGED <<mode, durable, active, local, walk, faults>>

DrainSource ==
    /\ pc = "drain"
    /\ \/ /\ gate' = Shut("source") /\ pc' = (IF Activation THEN "drainTarget" ELSE "prepare")
          /\ UNCHANGED faults
       \/ Has("source") /\ Fault /\ gate' \in {gate, Shut("source")} /\ pc' = "early"
    /\ UNCHANGED <<mode, durable, active, local, walk>>

(* failBeforePublication: unless the marker stands, the source reopens.     *)
FailBeforePublication ==
    /\ pc = "early" /\ pc' = "rest"
    /\ \/ marker /\ UNCHANGED <<gate, faults>>
       \/ ~marker /\ gate' = SourceResumed(active) /\ UNCHANGED faults
       \/ Fault /\ gate' \in {gate, Shut("source")}
    /\ UNCHANGED <<mode, durable, active, local, walk>>

DrainTarget ==
    /\ pc = "drainTarget"
    /\ \/ gate' = Shut("target") /\ pc' = "prepare" /\ UNCHANGED <<active, faults>>
       \/ Fault /\ CloseTarget /\ pc' = "rest"
    /\ UNCHANGED <<mode, durable, local, walk>>

(* Deliberately wrong: what is committed need not be published again.       *)
PrepareUnlessCommitted ==
    /\ pc = "prepare" /\ pending = None
    /\ committed' = marker /\ clean' = TRUE
    /\ IF ~marker /\ ~AllAt("source")
       THEN pc' = "residual" /\ left' = Restoring
       ELSE pc' = (IF marker /\ Activation THEN "require" ELSE IF Activation THEN "runtime" ELSE "move")
            /\ left' = Publishing
    /\ active' = IF marker /\ Activation THEN "target" ELSE active
    /\ UNCHANGED <<mode, durable, gate, local, faults>>

(* Deliberately wrong: moves of an uncommitted attempt are a conflict.      *)
PrepareCleanOnly ==
    /\ pc = "prepare" /\ pending = None
    /\ committed' = marker /\ clean' = TRUE
    /\ IF ~marker /\ ~AllAt("source")
       THEN pc' = "rest" /\ UNCHANGED left
       ELSE pc' = (IF Activation THEN "runtime" ELSE "move") /\ left' = Publishing
    /\ UNCHANGED <<mode, durable, process, faults>>

(* preparePublication: an attempt that finds moves of an uncommitted one    *)
(* restores them before it starts its own.                                  *)
Prepare ==
    /\ pc = "prepare"
    /\ \/ /\ pending = None /\ committed' = marker /\ clean' = TRUE
          /\ IF ~marker /\ ~AllAt("source")
             THEN pc' = "residual" /\ left' = Restoring
             ELSE pc' = (IF Activation THEN "runtime" ELSE "move") /\ left' = Publishing
          /\ UNCHANGED faults
       \/ Fault /\ pc' = "rest" /\ UNCHANGED walk
    /\ UNCHANGED <<mode, durable, process>>

(* Deliberately wrong: the last restore decides whether they succeeded.     *)
RestoreLastDecides ==
    /\ pc \in {"residual", "undo"} /\ left # <<>>
    /\ left' = Tail(left)
    /\ \/ Written(Head(left), "source") /\ clean' = TRUE
       \/ (Failed(Head(left), "source") \/ Refused("source")) /\ clean' = FALSE
    /\ UNCHANGED <<mode, marker, reconciled, active, gate, committed, pc>>

(* restoreLifecycleTransactions tries every one of them.                    *)
Restore ==
    /\ pc \in {"residual", "undo"} /\ left # <<>>
    /\ left' = Tail(left)
    /\ \/ Written(Head(left), "source") /\ UNCHANGED clean
       \/ (Failed(Head(left), "source") \/ Refused("source")) /\ clean' = FALSE
    /\ UNCHANGED <<mode, marker, reconciled, active, gate, committed, pc>>

(* The rest of restoreUncommittedPublication.  A deactivation names no      *)
(* target instance, so draining that fails: the next attempt goes on.       *)
ResidualRestored ==
    /\ pc = "residual" /\ left = <<>>
    /\ \/ (~clean \/ ~Activation) /\ pc' = "rest" /\ UNCHANGED <<active, gate, left, faults>>
       \/ /\ clean /\ Activation
          /\ gate' = Shut("target") /\ active' = (IF Has("source") THEN "source" ELSE active)
          /\ pc' = "runtime" /\ left' = Publishing /\ UNCHANGED faults
       \/ /\ clean /\ Activation /\ Fault
          /\ gate' = Shut("target") /\ active' \in {active} \cup {s \in {"source"} : Has(s)}
          /\ pc' = "rest" /\ UNCHANGED left
    /\ UNCHANGED <<mode, durable, local, clean, committed>>

PublishDrainedRuntime ==
    /\ pc = "runtime"
    /\ \/ /\ gate["target"] = "closed" /\ gate["source"] # "open"
          /\ active' = "target" /\ pc' = "move" /\ UNCHANGED <<left, clean, faults>>
       \/ Fault /\ PhaseFails /\ UNCHANGED active
    /\ UNCHANGED <<mode, durable, gate, local, committed>>

(* Publishing the registries of an activation needs the drained target      *)
(* published.                                                               *)
Publish ==
    /\ pc = "move"
    /\ \/ /\ Head(left) = "registries" /\ Activation => active = "target" /\ gate["target"] = "closed"
          /\ Written(Head(left), "target")
          /\ left' = Tail(left) /\ pc' = (IF Len(left) = 1 THEN "require" ELSE "move") /\ UNCHANGED clean
       \/ Failed(Head(left), "target") /\ PhaseFails
    /\ UNCHANGED <<mode, marker, reconciled, active, gate, committed>>

RequireTarget ==
    /\ pc = "require"
    /\ \/ pending = None /\ AllAt("target") /\ pc' = "commit" /\ UNCHANGED <<left, clean, faults>>
       \/ Fault /\ PhaseFails
    /\ UNCHANGED <<mode, durable, process, committed>>

Commit ==
    /\ pc = "commit"
    /\ \/ pending = None /\ marker' = TRUE /\ pc' = "reconcile" /\ UNCHANGED <<pending, faults>>
       \/ /\ Fault /\ pending' \in {pending} \cup {m \in {Marker} : pending = None}
          /\ pc' = "inspect" /\ UNCHANGED marker
    /\ UNCHANGED <<mode, phase, reconciled, process, walk>>

(* commitPublication after an error: a fresh, plain read of the marker      *)
(* decides; if that fails too, nothing is opened or restored.               *)
InspectMarker ==
    /\ pc = "inspect"
    /\ \/ marker /\ pc' = "reconcile" /\ UNCHANGED <<left, clean, faults>>
       \/ ~marker /\ pc' = "undo" /\ left' = Restoring /\ clean' = TRUE /\ UNCHANGED faults
       \/ Fault /\ pc' = "rest" /\ UNCHANGED <<left, clean>>
    /\ UNCHANGED <<mode, durable, process, committed>>

(* failActivation and failDeactivation once every restore has been tried:   *)
(* only if none failed does the source come back.                           *)
Compensate ==
    /\ pc = "undo" /\ left = <<>> /\ pc' = "rest"
    /\ \/ /\ ~clean /\ UNCHANGED faults
          /\ IF Activation THEN CloseTarget ELSE UNCHANGED <<active, gate>>
       \/ clean /\ mode = "install" /\ CloseTarget /\ UNCHANGED faults
       \/ clean /\ mode = "upgrade" /\ active' = "source" /\ gate' = SourceResumed("source") /\ UNCHANGED faults
       \/ clean /\ mode = "disable" /\ UNCHANGED <<active, faults>> /\ gate' = SourceResumed(active)
       \/ /\ clean /\ Has("source") /\ Fault
          /\ active' \in {active} \cup {s \in {"source"} : Activation} /\ gate' = Shut("target")
    /\ UNCHANGED <<mode, durable, local, walk>>

FailCommittedActivation ==
    /\ pc = "close" /\ pc' = "rest"
    /\ gate' = Shut("target")
    /\ UNCHANGED <<mode, durable, active, local, walk, faults>>

ReconcileJobs ==
    /\ pc = "reconcile"
    /\ \/ /\ marker /\ phase["jobs"] = "target" /\ reconciled' = TRUE
          /\ pc' = (IF Activation THEN "resume" ELSE "retire") /\ UNCHANGED faults
       \/ /\ Fault /\ reconciled' \in {reconciled, TRUE}
          /\ pc' = (IF Activation THEN "close" ELSE "rest")
    /\ UNCHANGED <<mode, phase, marker, pending, process, walk>>

(* ResumeLifecycleJobs of the target, the one step that opens it.           *)
ResumeTarget ==
    /\ pc = "resume"
    /\ \/ /\ marker /\ reconciled /\ phase["jobs"] = "target"
          /\ active = "target" /\ gate["target"] = "closed"
          /\ gate' = [gate EXCEPT !["target"] = "open"]
          /\ pc' = (IF Has("source") THEN "retire" ELSE "done") /\ UNCHANGED faults
       \/ Fault /\ pc' = "close" /\ UNCHANGED gate
    /\ UNCHANGED <<mode, durable, active, local, walk>>

(* Cleanup and stopSourceRuntime: in the gate of a disable, in a later gate *)
(* of an upgrade.                                                           *)
RetireSource ==
    /\ pc = "retire"
    /\ \/ /\ gate' = [gate EXCEPT !["source"] = "stopped"]
          /\ active' = (IF active = "source" THEN "none" ELSE active)
          /\ pc' = "done" /\ UNCHANGED faults
       \/ /\ Fault /\ gate' = Shut("source") /\ pc' = (IF Activation THEN "retire" ELSE "rest")
          /\ UNCHANGED active
    /\ UNCHANGED <<mode, durable, local, walk>>

(* The process dies; nothing is active in the next one until the operation  *)
(* is run again.                                                            *)
PublisherCrashes ==
    /\ pc # "done" /\ Fault
    /\ active' = "none" /\ gate' = [r \in Sides |-> "stopped"] /\ local' = "none"
    /\ pc' = "rest" /\ left' = <<>> /\ clean' = TRUE /\ committed' = FALSE
    /\ UNCHANGED <<mode, durable>>

(* The database settles a transaction whose connection was lost.            *)
SettleCommit ==
    /\ pending # None /\ pending' = None
    /\ \/ UNCHANGED <<phase, marker>>
       \/ pending = Marker /\ marker' = TRUE /\ UNCHANGED phase
       \/ pending # Marker /\ phase' = [phase EXCEPT ![pending.part] = pending.to] /\ UNCHANGED marker
    /\ UNCHANGED <<mode, reconciled, process, walk, pc, faults>>

PublicationNext ==
    \/ Begin \/ DrainSource \/ FailBeforePublication \/ DrainTarget
    \/ Prepare \/ Restore \/ ResidualRestored
    \/ PublishDrainedRuntime \/ Publish \/ RequireTarget \/ Commit \/ InspectMarker
    \/ Compensate \/ FailCommittedActivation
    \/ ReconcileJobs \/ ResumeTarget \/ RetireSource
    \/ PublisherCrashes \/ SettleCommit

PublicationSpec == PublicationInit /\ [][PublicationNext]_publicationVars

-----------------------------------------------------------------------------
(* The shape of what the database, the process and its executor hold.       *)
PublicationTypes ==
    /\ mode \in Modes
    /\ phase \in [Parts -> Sides]
    /\ marker \in BOOLEAN /\ reconciled \in BOOLEAN /\ pending \in Pending
    /\ active \in Sides \cup {"none"}
    /\ gate \in [Sides -> {"open", "closed", "stopped"}]
    /\ local \in Sides \cup {"torn", "none"}
    /\ pc \in Steps /\ clean \in BOOLEAN /\ committed \in BOOLEAN
    /\ faults \in 0..MaxFaults

(* The marker decides: once it stands, whenever its transaction settled and *)
(* whatever the executor believed meanwhile, all three transactions are at  *)
(* the target and the source admits no call in the process that ran the     *)
(* operation; and all of it keeps its shape.                                *)
MarkerDecides ==
    /\ PublicationTypes
    /\ marker => AllAt("target") /\ gate["source"] # "open"

(* The target admits calls only when its publication is committed and its   *)
(* jobs reconciled, and only as the active instance under its registries.   *)
TargetOpensOnlyCommitted ==
    gate["target"] = "open" =>
        marker /\ reconciled /\ AllAt("target") /\ active = "target" /\ local = "target"

(* "Reopening source code against an unknown database/registry state would  *)
(* be an unsafe fallback" (the comment of closeFailedTargetRuntime): the    *)
(* source admits calls only with every transaction, and the registries of   *)
(* this process, back at the source.                                        *)
SourceOpensOnlyRestored == gate["source"] = "open" => AllAt("source") /\ local = "source"

(* Activations keep it: a source whose restore failed is not the active     *)
(* instance any more.                                                       *)
ActivationReopensRestored == Activation => SourceOpensOnlyRestored
=============================================================================
