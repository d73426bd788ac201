-------------------------- MODULE PluginRuntimeSet --------------------------
(* How one process follows the published set of plugins.  Every lifecycle   *)
(* operation and every revocation of trust appends a whole set to the       *)
(* publications; the process's coordinator reads the latest one, waits for  *)
(* open operations, applies the set to the running processes and records    *)
(* the revision as applied.  The applier, a revocation made on this node and*)
(* the operations executed here share the runtimes under one barrier.       *)
(*                                                                          *)
(* Other nodes are an environment that runs operations and revokes trust.   *)
(* One operation is open at a time.  An incident may quarantine a process   *)
(* without the barrier.  A crash, or a heartbeat that fails, ends the boot: *)
(* the next one starts without processes and without progress.              *)
EXTENDS Naturals, Sequences

CONSTANTS
    Plugins, Versions,
    None,               \* a plugin that is not in the set, or does not run
    Genesis,            \* the members of the first publication
    Subjects,           \* bound: the plugins that are operated on or revoked
    MaxEvents           \* bound: further publications, failing calls, incidents and crashes

Members == [Plugins -> Versions \cup {None}]

VARIABLES
    pubs, grant, op,              \* durable: publications, live grants, the open operation
    lastApplied, ack,             \* durable: this boot's progress, its newest acknowledgement
    active, admission, astray, hooks,  \* the manager's processes and gates, where the
                                  \* transport differs from them, the registries' revision
    barrier, fence,               \* the runtime set transition, a revocation in progress
    step, want, changed, shut,    \* the coordinator: step, revision, plan, gates it closed
    whole, elsewhere, restored,   \* observations, see below
    faults

durable == <<pubs, grant, op>>
progress == <<lastApplied, ack>>
process == <<active, admission, astray, hooks>>
plan == <<want, changed, shut>>
coordinator == <<step, plan>>
excused == <<elsewhere, restored>>
runtimeSetVars == <<durable, progress, process, barrier, fence, coordinator, whole, excused, faults>>

Latest == pubs[Len(pubs)]
Publications == 1..(MaxEvents + 1)
Room == Len(pubs) - 1 + faults < MaxEvents
Running(p) == active[p] # None
NoOperation == [at |-> "none"]
NoFence == [at |-> "none"]
NotBegun == [revision |-> 0, is |-> "none"]

RuntimeSetInit ==
    /\ pubs = <<Genesis>> /\ grant = [p \in Plugins |-> TRUE] /\ op = NoOperation
    /\ lastApplied = 0 /\ ack = NotBegun
    /\ active = [p \in Plugins |-> None] /\ admission = [p \in Plugins |-> "none"]
    /\ astray = {} /\ hooks = 0
    /\ barrier = "free" /\ fence = NoFence
    /\ step = "idle" /\ want = 0 /\ changed = {} /\ shut = {}
    /\ whole = {} /\ elsewhere = {} /\ restored = {}
    /\ faults = 0

(* A call that fails: refused, timed out, cancelled, or its answer lost.    *)
Fault == Room /\ faults' = faults + 1
NoFault == UNCHANGED faults

(* BeginDrain leaves an incident as it is; Resume refuses to lift one.      *)
Drained(ps) == [p \in Plugins |-> IF p \in ps /\ admission[p] = "open" THEN "drained" ELSE admission[p]]
Resumed(ps) == [p \in Plugins |-> IF p \in ps /\ admission[p] = "drained" THEN "open" ELSE admission[p]]

-----------------------------------------------------------------------------
(* The coordinator (reconcileOnce).  Nothing is kept between two attempts.  *)
NoPlan == changed' = {} /\ shut' = {}
BackToIdle == step' = "idle" /\ want' = 0 /\ NoPlan

(* A poll that finds nothing new changes nothing.                           *)
Poll == step = "idle" /\ lastApplied = Len(pubs) /\ UNCHANGED runtimeSetVars

ReadLatest ==
    /\ step = "idle" /\ lastApplied < Len(pubs)
    /\ want' = Len(pubs) /\ step' = "check"
    /\ UNCHANGED <<durable, progress, process, barrier, fence, changed, shut, excused, faults>>

(* Deliberately wrong: an attempt that was begun is left to whoever began it*)
BeginsAgainOnly(is) == is \in {"none", "failed"}

(* An acknowledgement that failed begins again, and one that was begun by an*)
(* attempt whose end could not be recorded is taken over.                   *)
BeginsOrTakesOver(is) == is \in {"none", "failed", "applying"}

Acknowledged(is) == [revision |-> want, is |-> is]

BeginApply ==
    /\ step = "check"
    /\ IF \/ op.at # "none" \/ lastApplied >= want
          \/ ack.revision = want /\ ~BeginsOrTakesOver(ack.is)
       THEN BackToIdle /\ NoFault /\ UNCHANGED ack
       ELSE \/ ack' = Acknowledged("applying") /\ step' = "enter" /\ NoFault /\ UNCHANGED plan
            \/ Fault /\ BackToIdle /\ ack' \in {ack, Acknowledged("applying")}
    /\ UNCHANGED <<durable, lastApplied, process, barrier, fence, excused>>

(* Deliberately wrong: the apply does not look at the publications again.   *)
NeverSuperseded == FALSE

(* Under the barrier the publication must still be the latest one, and the  *)
(* process not be ahead of it.                                              *)
Superseded == want # Len(pubs) \/ hooks > want

(* The plan: what is not reused is replaced or removed.  A process is reused*)
(* when it is the wanted artifact, open and healthy.                        *)
Differs(members, sick) ==
    {p \in Plugins : \/ active[p] # members[p]
                     \/ Running(p) /\ (admission[p] # "open" \/ p \in sick)}

Visible(replaced) == replaced = {} /\ astray = {} /\ hooks = want

EnterApply ==
    /\ step = "enter" /\ barrier = "free"
    /\ IF Superseded
       THEN step' = "fail" /\ NoFault /\ UNCHANGED <<barrier, changed>>
       ELSE \E sick \in SUBSET {p \in Plugins : Running(p)} :
              /\ IF sick = {} THEN NoFault ELSE Fault
              /\ changed' = Differs(pubs[want], sick)
              /\ IF Visible(changed')
                 THEN step' = "complete" /\ UNCHANGED barrier
                 ELSE step' = "close" /\ barrier' = "apply"
    /\ UNCHANGED <<durable, progress, process, fence, want, shut, excused>>

(* Replacements are staged and found healthy, then everything that leaves is*)
(* drained: before the first replacement is published.                      *)
CloseOld ==
    LET old == {p \in changed : Running(p)}
    IN  /\ step = "close"
        /\ \/ Fault /\ step' = "fail" /\ barrier' = "free" /\ NoPlan /\ UNCHANGED admission
           \/ \E part \in SUBSET old :
                /\ Fault /\ step' = "rollback"
                /\ shut' = part /\ admission' = Drained(part) /\ UNCHANGED <<barrier, changed>>
           \/ /\ NoFault /\ step' = "publish"
              /\ shut' = old /\ admission' = Drained(old) /\ UNCHANGED <<barrier, changed>>
        /\ UNCHANGED <<durable, progress, active, astray, hooks, fence, want, excused>>

(* The transport takes the complete set at once, whatever it held before.   *)
PublishSet ==
    /\ step = "publish"
    /\ \/ Fault /\ step' = "rollback" /\ UNCHANGED astray
       \/ NoFault /\ step' = "commit" /\ astray' = changed
    /\ UNCHANGED <<durable, progress, active, admission, hooks, barrier, fence, plan, excused>>

(* Deliberately wrong: what is reused is not looked at again.               *)
ReusedUnseen == TRUE

(* Gates, pointers and registries change in one critical section, unless    *)
(* what is reused is no longer open.                                        *)
StillReusable == \A p \in Plugins \ changed : Running(p) => admission[p] = "open"

CommitSet ==
    /\ step = "commit"
    /\ \/ /\ StillReusable
          /\ active' = pubs[want]
          /\ admission' = [p \in Plugins |-> IF pubs[want][p] = None THEN "none"
                                             ELSE IF p \in changed THEN "open" ELSE admission[p]]
          /\ astray' = {} /\ hooks' = want
          /\ step' = "complete" /\ barrier' = "free" /\ NoPlan /\ NoFault
       \/ /\ IF StillReusable THEN Fault ELSE NoFault
          /\ step' = "restore" /\ UNCHANGED <<process, barrier, changed, shut>>
    /\ UNCHANGED <<durable, progress, fence, want, excused>>

(* resumePluginRuntimeFullSetPreviousAtomically: all of the gates this apply*)
(* has closed, or none of them.                                             *)
ResumePrevious ==
    \/ (\A p \in shut : admission[p] = "drained") /\ admission' = Resumed(shut) /\ NoFault
    \/ (\E p \in shut : admission[p] # "drained") /\ NoFault /\ UNCHANGED admission
    \/ shut # {} /\ Fault /\ UNCHANGED admission

(* rollbackPluginRuntimeFullSet: a set that was published is taken back     *)
(* first, and if that fails the gates stay shut.                            *)
Rollback ==
    /\ \/ step = "rollback" /\ ResumePrevious /\ UNCHANGED astray
       \/ step = "restore" /\ astray' = {} /\ ResumePrevious
       \/ step = "restore" /\ Fault /\ UNCHANGED <<admission, astray>>
    /\ step' = "fail" /\ barrier' = "free" /\ NoPlan
    /\ restored' = restored \cup
         {p \in shut \ elsewhere : admission'[p] = "open" /\ ~grant[p]}
    /\ UNCHANGED <<durable, progress, active, hooks, fence, want, elsewhere>>

(* Acknowledgement and progress advance in one transaction; a lost answer   *)
(* is resolved by reading the progress again.                               *)
Complete ==
    /\ step = "complete" /\ BackToIdle
    /\ \/ lastApplied' = want /\ ack' = Acknowledged("applied") /\ NoFault
       \/ Fault /\ UNCHANGED progress
    /\ UNCHANGED <<durable, process, barrier, fence, excused>>

RecordFailure ==
    /\ step = "fail" /\ BackToIdle
    /\ \/ ack' = Acknowledged("failed") /\ NoFault
       \/ Fault /\ UNCHANGED ack
    /\ UNCHANGED <<durable, lastApplied, process, barrier, fence, excused>>

-----------------------------------------------------------------------------
(* A revocation on this node (ExecutableTrustRevocationFence): the gate is  *)
(* closed before the durable part, and the barrier held until the end.      *)
FenceBegin(p) ==
    /\ fence.at = "none" /\ barrier = "free" /\ grant[p]
    /\ barrier' = "fence"
    /\ fence' = [at |-> "fenced", plugin |-> p, closed |-> admission[p] = "open"]
    /\ admission' = Drained({p})
    /\ UNCHANGED <<durable, progress, active, astray, hooks, coordinator, excused, faults>>

(* RevokeAll: no live grant remains, and a member leaves the set with it.   *)
Without(members, p) == [members EXCEPT ![p] = None]

Revoke(p) ==
    /\ grant' = [grant EXCEPT ![p] = FALSE]
    /\ IF Latest[p] = None
       THEN UNCHANGED pubs
       ELSE Room /\ pubs' = Append(pubs, Without(Latest, p))
    /\ UNCHANGED op

(* The transaction commits, fails, or its outcome remains unknown, which is *)
(* treated as committed.                                                    *)
FenceDurable ==
    /\ fence.at = "fenced"
    /\ \/ /\ Revoke(fence.plugin) /\ fence' = [fence EXCEPT !.at = "revoked"]
          /\ elsewhere' = elsewhere \ {fence.plugin} /\ NoFault
       \/ /\ Fault /\ fence' \in {[fence EXCEPT !.at = "revoked"], [fence EXCEPT !.at = "failed"]}
          /\ UNCHANGED <<durable, elsewhere>>
       \/ /\ Latest[fence.plugin] # None /\ ~Room /\ fence' = [fence EXCEPT !.at = "failed"]
          /\ UNCHANGED <<durable, elsewhere, faults>>
    /\ UNCHANGED <<progress, process, barrier, coordinator, restored>>

FenceEnd ==
    /\ fence.at \in {"revoked", "failed"}
    /\ \/ /\ fence.at = "revoked" /\ NoFault
          /\ admission' = [admission EXCEPT ![fence.plugin] = IF @ = "none" THEN @ ELSE "quarantined"]
       \/ /\ fence.at = "failed" /\ NoFault
          /\ admission' = IF fence.closed THEN Resumed({fence.plugin}) ELSE admission
       \/ fence.at = "failed" /\ fence.closed /\ Fault /\ UNCHANGED admission
    /\ fence' = NoFence /\ barrier' = "free"
    /\ UNCHANGED <<durable, progress, active, astray, hooks, coordinator, excused>>

RevokeElsewhere(p) ==
    /\ grant[p] /\ Revoke(p)
    /\ elsewhere' = elsewhere \cup {p}
    /\ UNCHANGED <<progress, process, barrier, fence, coordinator, restored, faults>>

GrantAgain(p) ==
    /\ ~grant[p] /\ Room
    /\ grant' = [grant EXCEPT ![p] = TRUE]
    /\ elsewhere' = elsewhere \ {p} /\ restored' = restored \ {p}
    /\ UNCHANGED <<pubs, op, progress, process, barrier, fence, coordinator, faults>>

-----------------------------------------------------------------------------
(* A lifecycle operation, here or on another node: the row is open from its *)
(* acceptance until its end.  LifecyclePublication has its inside.          *)
OpenOperation(p, target, here) ==
    /\ op.at = "none" /\ Room
    /\ target # Latest[p] /\ (target # None => grant[p])
    /\ here => active[p] = Latest[p]
    /\ op' = [at |-> "open", plugin |-> p, from |-> Latest[p], to |-> target, here |-> here]
    /\ UNCHANGED <<pubs, grant, progress, process, barrier, fence, coordinator, excused, faults>>

(* The source is drained and the target published beside it, still closed;  *)
(* the registries no longer stand at a revision.                            *)
MoveHere ==
    /\ op.at = "open" /\ op.here /\ barrier = "free"
    /\ active[op.plugin] = op.from /\ admission[op.plugin] # "quarantined"
    /\ active' = IF op.to = None THEN active ELSE [active EXCEPT ![op.plugin] = op.to]
    /\ admission' = IF Running(op.plugin) \/ op.to # None
                    THEN [admission EXCEPT ![op.plugin] = "drained"] ELSE admission
    /\ astray' = IF op.to = None THEN astray ELSE astray \ {op.plugin}
    /\ hooks' = 0
    /\ op' = [op EXCEPT !.at = "moved"]
    /\ UNCHANGED <<pubs, grant, progress, barrier, fence, coordinator, excused, faults>>

(* The marker's transaction: the target still has its grant, the set still  *)
(* holds the source or already the target.                                  *)
Committable ==
    /\ Room
    /\ op.to # None => grant[op.plugin]
    /\ Latest[op.plugin] \in {op.from, op.to, None}

CommitOperation ==
    /\ op.at \in {"open", "moved"} /\ (op.at = "moved") = op.here
    /\ Committable
    /\ pubs' = Append(pubs, [Latest EXCEPT ![op.plugin] = op.to])
    /\ op' = [op EXCEPT !.at = "committed"]
    /\ UNCHANGED <<grant, progress, process, barrier, fence, coordinator, excused, faults>>

(* What was committed is opened, or stopped; an artifact that an incident   *)
(* closed, or that is not active any more, stays as it is.                  *)
Finish(ok) ==
    /\ op.at = "committed" /\ (op.here => barrier = "free")
    /\ IF ok THEN NoFault ELSE op.here /\ Fault
    /\ IF ~op.here \/ ~ok THEN UNCHANGED <<active, admission>>
       ELSE IF op.to # None
       THEN /\ admission' = IF active[op.plugin] = op.to THEN Resumed({op.plugin}) ELSE admission
            /\ UNCHANGED active
       ELSE IF active[op.plugin] = op.from
       THEN /\ active' = [active EXCEPT ![op.plugin] = None]
            /\ admission' = [admission EXCEPT ![op.plugin] = "none"]
       ELSE UNCHANGED <<active, admission>>
    /\ op' = NoOperation
    /\ UNCHANGED <<pubs, grant, progress, astray, hooks, barrier, fence, coordinator, excused>>

(* The operation gives up, because a step is refused or fails.  Here it     *)
(* compensates: the target is stopped, or the source published again and    *)
(* opened; the marker and the jobs decide that, not the grant.              *)
Refused ==
    \/ op.at = "open" /\ op.here /\ (active[op.plugin] # op.from \/ admission[op.plugin] = "quarantined")
    \/ (op.at = "moved" \/ ~op.here) /\ ~Committable

Compensate ==
    LET p == op.plugin
        back == op.at = "moved" /\ admission[p] # "open" /\ (op.to = None => active[p] = op.from)
    IN  /\ active' = IF back THEN [active EXCEPT ![p] = op.from] ELSE active
        /\ admission' = IF ~back THEN admission
                   ELSE IF op.from = None THEN [admission EXCEPT ![p] = "none"]
                   ELSE IF op.to = None THEN Resumed({p})
                   ELSE [admission EXCEPT ![p] = "open"]
        /\ astray' = IF back /\ op.to # None THEN astray \ {p} ELSE astray
        /\ restored' = IF ~grant[p] /\ admission'[p] = "open" THEN restored \cup {p} ELSE restored

Abort ==
    /\ op.at \in {"open", "moved"} /\ (op.here => barrier = "free")
    /\ \/ (IF Refused THEN NoFault ELSE Fault) /\ Compensate
       \/ op.at = "moved" /\ Fault /\ UNCHANGED <<active, admission, astray, restored>>
    /\ hooks' = IF op.here /\ op.at = "moved" THEN 0 ELSE hooks
    /\ op' = NoOperation
    /\ UNCHANGED <<pubs, grant, progress, barrier, fence, coordinator, elsewhere>>

-----------------------------------------------------------------------------
(* QuarantineRuntimeInstance waits for nobody.                              *)
Incident(p) ==
    /\ Running(p) /\ admission[p] # "quarantined" /\ Fault
    /\ admission' = [admission EXCEPT ![p] = "quarantined"]
    /\ UNCHANGED <<durable, progress, active, astray, hooks, barrier, fence, coordinator, excused>>

(* The process ends, by itself or because its lease was lost, and a new boot*)
(* begins.  An operation it was executing is run again or closed elsewhere. *)
NewBoot ==
    /\ Fault
    /\ lastApplied' = 0 /\ ack' = NotBegun
    /\ active' = [p \in Plugins |-> None] /\ admission' = [p \in Plugins |-> "none"]
    /\ astray' = {} /\ hooks' = 0
    /\ barrier' = "free" /\ fence' = NoFence
    /\ BackToIdle
    /\ op' = IF op.at = "none" \/ ~op.here THEN op
             ELSE [op EXCEPT !.here = FALSE, !.at = IF @ = "committed" THEN @ ELSE "open"]
    /\ restored' = {} /\ whole' = {}
    /\ UNCHANGED <<pubs, grant, elsewhere>>

(* What the process was seen to be: entirely, openly and consistently at a  *)
(* revision.                                                                *)
Whole(r) ==
    /\ active = pubs[r] /\ astray = {}
    /\ \A p \in Plugins : Running(p) => admission[p] = "open"

Observe ==
    whole' = {r \in DOMAIN pubs' : r >= lastApplied' /\ (r \in whole \/ Whole(r)')}

CoordinatorStep ==
    ReadLatest \/ BeginApply \/ CloseOld \/ PublishSet \/ CommitSet \/ Rollback \/ Complete \/ RecordFailure
FenceStep == FenceDurable \/ FenceEnd
OperationStep == MoveHere \/ CommitOperation \/ Abort \/ \E ok \in BOOLEAN : Finish(ok)

Step ==
    \/ CoordinatorStep \/ EnterApply
    \/ FenceStep \/ \E p \in Subjects : FenceBegin(p) \/ RevokeElsewhere(p) \/ GrantAgain(p)
    \/ \E p \in Subjects, target \in Versions \cup {None}, here \in BOOLEAN : OpenOperation(p, target, here)
    \/ OperationStep
    \/ \E p \in Plugins : Incident(p)

RuntimeSetNext == Poll \/ (Step /\ Observe) \/ NewBoot

(* The coordinator polls, callers of the barrier queue for it, and an open  *)
(* operation is executed, run again or reclaimed.                           *)
RuntimeSetFairness ==
    /\ WF_runtimeSetVars(CoordinatorStep /\ Observe) /\ SF_runtimeSetVars(EnterApply /\ Observe)
    /\ WF_runtimeSetVars(FenceStep /\ Observe) /\ SF_runtimeSetVars(OperationStep /\ Observe)

RuntimeSetSpec == RuntimeSetInit /\ [][RuntimeSetNext]_runtimeSetVars /\ RuntimeSetFairness

-----------------------------------------------------------------------------
RuntimeSetTypes ==
    /\ pubs \in Seq(Members) /\ Len(pubs) \in Publications
    /\ grant \in [Plugins -> BOOLEAN]
    /\ op.at \in {"none", "open", "moved", "committed"} /\ (op.at = "moved" => op.here)
    /\ lastApplied \in 0..Len(pubs)
    /\ ack \in [revision : 0..Len(pubs), is : {"none", "applying", "failed", "applied"}]
    /\ active \in Members
    /\ admission \in [Plugins -> {"none", "open", "drained", "quarantined"}]
    /\ \A p \in Plugins : admission[p] = "none" <=> ~Running(p)
    /\ astray \subseteq Plugins /\ hooks \in 0..Len(pubs)
    /\ barrier = IF fence.at # "none" THEN "fence"
                 ELSE IF step \in {"close", "publish", "commit", "rollback", "restore"} THEN "apply" ELSE "free"
    /\ want \in 0..Len(pubs) /\ changed \subseteq Plugins /\ shut \subseteq changed
    /\ elsewhere \cup restored \subseteq {p \in Plugins : ~grant[p]}

(* A revoked plugin stays shut on the node that revoked it: no full set that*)
(* was waiting, no retry and no operation opens it.  Only what another node *)
(* has revoked runs on, until this one has caught up with the publications; *)
(* and what a failed operation or a rolled back apply has put back.         *)
RevokedStaysShut ==
    \A p \in Plugins :
        admission[p] = "open" /\ ~grant[p] =>
            p \in restored \/ (p \in elsewhere /\ lastApplied < Len(pubs))

(* A node only reports what it was: the revision it recorded as applied was *)
(* at one instant all of what ran in the process, open, with the transport  *)
(* at the same processes, whatever was ambiguous, retried or rolled back.   *)
AppliedWasWhole == lastApplied \in whole \cup {0}

(* The node catches up: failures, lost answers, superseded attempts, aborted*)
(* operations and restarts do not wedge it behind the last publication,     *)
(* unless operations go on being opened for ever, for which it waits.       *)
CatchesUp == <>[](op.at = "none") => <>[](lastApplied = Len(pubs))
=============================================================================
