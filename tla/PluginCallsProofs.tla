-------------------------- MODULE PluginCallsProofs --------------------------
(***************************************************************************)
(* The set of plugins a process runs (PluginRuntimeSet), proved for any    *)
(* plugins, versions, subjects, first publication and number of events;    *)
(* and the run's composition of it with the two gates of a call, whose     *)
(* invariants are proved in RuntimeGuardsProofs.                           *)
(***************************************************************************)
EXTENDS MCPluginCalls, RuntimeGuardsProofs

(* An absent plugin is told from every version, the first publication is a *)
(* set of plugins, and what is operated on is a plugin.                    *)
SetConstants ==
    /\ None \notin Versions /\ Genesis \in Members
    /\ Subjects \subseteq Plugins /\ MaxEvents \in Nat

-----------------------------------------------------------------------------
(* THE INDUCTIVE INVARIANT                                                 *)

Operations ==
    [at : {"open", "moved", "committed"}, plugin : Plugins, here : BOOLEAN,
     from : Versions \cup {None}, to : Versions \cup {None}]
Fences == [at : {"fenced", "revoked", "failed"}, plugin : Plugins, closed : BOOLEAN]
Applying == {"close", "publish", "commit", "rollback", "restore"}
CoordinatorSteps == {"idle", "check", "enter", "complete", "fail"} \cup Applying

(* The records of operations and fences; an operation changes its plugin.  *)
Fields ==
    /\ faults \in Nat
    /\ step \in CoordinatorSteps
    /\ op = NoOperation \/ op \in Operations
    /\ fence = NoFence \/ fence \in Fences
    /\ op.at # "none" => op.from # op.to

(* An attempt past its check is about a revision not yet applied.          *)
Attempt == step \notin {"idle", "check"} => lastApplied < want

(* The plan made under the barrier stays right while it is held: no fence  *)
(* runs, what is not replaced is the wanted artifact, and what was revoked *)
(* is not wanted, unless another node revoked it meanwhile.                *)
Planned ==
    /\ step \in Applying =>
         /\ fence.at = "none"
         /\ \A p \in Plugins \ changed : active[p] = pubs[want][p]
         /\ \A p \in Plugins \ elsewhere : ~grant[p] => pubs[want][p] = None
    /\ step \in Applying \ {"close"} \/ shut = {}

(* What was revoked is not in the latest set.                              *)
RevokedLeft == \A p \in Plugins : ~grant[p] => Latest[p] = None

(* A publication this node has not applied, nor is about to record.        *)
Behind == lastApplied < Len(pubs) /\ (step \notin {"idle", "check"} => want < Len(pubs))

(* An operation past its marker, or overtaken by a revocation, has         *)
(* published what no attempt under way can have seen.                      *)
OpAhead == op.at = "committed" \/ (op.at # "none" /\ Latest[op.plugin] # op.from) => Behind

(* A gate that is open, or that a failed fence opens again.                *)
MayOpen(p) == admission[p] = "open" \/ (fence.at # "none" /\ fence.plugin = p /\ fence.closed)

(* A plugin that runs openly and has left the latest set still has to go,  *)
(* so this node has not caught up.                                         *)
Leaving ==
    \A p \in Plugins : MayOpen(p) /\ Latest[p] = None =>
        lastApplied < Len(pubs) /\ (step = "complete" => want < Len(pubs))

(* A fence keeps its gate shut, and until it has revoked the grant is live,*)
(* unless another node was faster.                                         *)
FenceHolds ==
    /\ fence.at # "none" => admission[fence.plugin] # "open"
    /\ fence.at \in {"fenced", "failed"} => grant[fence.plugin] \/ fence.plugin \in elsewhere

(* What this node revoked is shut, and where it is only drained there is   *)
(* nobody left who would open it: the fence is about to quarantine it, and *)
(* no operation here has committed to it.                                  *)
RevokedHere ==
    \A p \in Plugins \ (elsewhere \cup restored) : ~grant[p] =>
        /\ admission[p] # "open"
        /\ admission[p] = "drained" =>
             \/ fence.at = "revoked" /\ fence.plugin = p
             \/ ~(op.at = "committed" /\ op.here /\ op.plugin = p /\ op.to # None)

(* A revision about to be recorded was seen whole.                         *)
WholeInv ==
    /\ whole \subseteq DOMAIN pubs
    /\ step = "complete" => want \in whole
    /\ AppliedWasWhole

SetGateInv ==
    /\ RuntimeSetTypes /\ Fields /\ Attempt /\ Planned /\ RevokedLeft
    /\ OpAhead /\ Leaving /\ FenceHolds /\ RevokedHere
SetInv == SetConstants /\ SetGateInv /\ WholeInv

-----------------------------------------------------------------------------
(* The publications are never empty, and a set appended is the latest one. *)
LEMMA PubFacts ==
  ASSUME SetConstants, RuntimeSetTypes
  PROVE  /\ Len(pubs) \in Nat /\ Len(pubs) > 0 /\ DOMAIN pubs = 1..Len(pubs)
         /\ \A r \in 1..Len(pubs) : pubs[r] \in Members
         /\ Latest \in Members /\ Latest = pubs[Len(pubs)]
         /\ lastApplied \in Nat /\ want \in Nat /\ hooks \in Nat
  BY DEF SetConstants, RuntimeSetTypes, Publications, Latest

LEMMA AppendFacts ==
  ASSUME SetConstants, RuntimeSetTypes, NEW m \in Members, pubs' = Append(pubs, m), Room, Fields
  PROVE  /\ pubs' \in Seq(Members) /\ Len(pubs)' = Len(pubs) + 1 /\ Len(pubs)' \in Publications
         /\ \A r \in 1..Len(pubs) : pubs'[r] = pubs[r]
         /\ Latest' = m
<1>1. Len(pubs) \in Nat /\ Len(pubs) > 0
  BY PubFacts
<1>2. pubs' \in Seq(Members) /\ Len(pubs)' = Len(pubs) + 1
  BY <1>1 DEF RuntimeSetTypes
<1>3. \A r \in 1..Len(pubs) : pubs'[r] = pubs[r]
  BY <1>1 DEF RuntimeSetTypes
<1>4. Latest' = m
  BY <1>1, <1>2 DEF RuntimeSetTypes, Latest
<1>5. Len(pubs)' \in Publications
  BY <1>1, <1>2 DEF Room, Publications, Fields, SetConstants
<1>6. QED
  BY <1>2, <1>3, <1>4, <1>5

LEMMA SetInit == SetConstants /\ RuntimeSetInit => SetInv
<1> SUFFICES ASSUME SetConstants, RuntimeSetInit PROVE SetInv
  OBVIOUS
<1>1. Len(pubs) = 1 /\ pubs \in Seq(Members) /\ Latest = Genesis /\ pubs[1] = Genesis
  BY DEF RuntimeSetInit, Latest, SetConstants
<1>2. RuntimeSetTypes
  BY <1>1 DEF RuntimeSetTypes, RuntimeSetInit, SetConstants, NoOperation, NoFence, NotBegun,
     Members, Publications, Running
<1>3. Fields
  BY DEF Fields, RuntimeSetInit, CoordinatorSteps, NoOperation
<1>4. Attempt /\ Planned /\ RevokedLeft /\ OpAhead /\ Leaving /\ FenceHolds /\ RevokedHere
  BY DEF RuntimeSetInit, Attempt, Planned, Applying, RevokedLeft, OpAhead, NoOperation, Leaving,
     MayOpen, NoFence, FenceHolds, RevokedHere
<1>5. WholeInv
  BY DEF WholeInv, RuntimeSetInit, AppliedWasWhole
<1>6. QED
  BY <1>2, <1>3, <1>4, <1>5 DEF SetInv, SetGateInv

-----------------------------------------------------------------------------
(* THE COORDINATOR: each of its steps keeps the invariant, the plan made   *)
(* when the barrier was entered being what CommitSet needs.               *)
LEMMA ReadLatestKeeps == ASSUME SetConstants, SetGateInv, ReadLatest PROVE SetGateInv'
<1>1. /\ step = "idle" /\ step' = "check" /\ want' = Len(pubs) /\ lastApplied < Len(pubs)
      /\ UNCHANGED <<pubs, grant, op, lastApplied, ack, active, admission, astray, hooks, barrier,
                     fence, changed, shut, elsewhere, restored, faults>>
  BY DEF ReadLatest, durable, progress, process, excused
<1> USE DEF SetGateInv
<1>2. RuntimeSetTypes'
  BY <1>1, PubFacts DEF RuntimeSetTypes, Applying, Running
<1>3. Fields'
  BY <1>1 DEF Fields, CoordinatorSteps
<1>4. Attempt' /\ Planned' /\ RevokedLeft' /\ FenceHolds' /\ RevokedHere'
  BY <1>1 DEF Attempt, Planned, Applying, RevokedLeft, Latest, FenceHolds, RevokedHere
<1>5. OpAhead' /\ Leaving'
  BY <1>1 DEF OpAhead, Behind, Latest, Leaving, MayOpen
<1>6. QED
  BY <1>2, <1>3, <1>4, <1>5

LEMMA BeginApplyKeeps == ASSUME SetConstants, SetGateInv, BeginApply PROVE SetGateInv'
<1>1. /\ step = "check"
      /\ UNCHANGED <<pubs, grant, op, lastApplied, active, admission, astray, hooks, barrier, fence,
                     elsewhere, restored>>
  BY DEF BeginApply, durable, process, excused
<1>2. /\ ack' \in {ack, Acknowledged("applying")} /\ faults' \in {faults, faults + 1}
      /\ \/ step' = "idle" /\ want' = 0 /\ changed' = {} /\ shut' = {}
         \/ /\ step' = "enter" /\ op.at = "none" /\ lastApplied < want
            /\ UNCHANGED <<want, changed, shut>>
  BY PubFacts DEF BeginApply, BackToIdle, NoPlan, NoFault, Fault, plan, SetGateInv
<1> USE DEF SetGateInv
<1>3. RuntimeSetTypes'
  <2>1. ack' \in [revision : 0..Len(pubs), is : {"none", "applying", "failed", "applied"}]
    BY <1>2 DEF RuntimeSetTypes, Acknowledged
  <2>2. barrier' = IF fence'.at # "none" THEN "fence"
                   ELSE IF step' \in {"close", "publish", "commit", "rollback", "restore"}
                   THEN "apply" ELSE "free"
    BY <1>1, <1>2 DEF RuntimeSetTypes
  <2>3. QED
    BY <1>1, <1>2, <2>1, <2>2, PubFacts DEF RuntimeSetTypes, Running
<1>4. Fields'
  BY <1>1, <1>2 DEF Fields, CoordinatorSteps
<1>5. Attempt' /\ Planned' /\ RevokedLeft' /\ FenceHolds' /\ RevokedHere'
  BY <1>1, <1>2 DEF Attempt, Planned, Applying, RevokedLeft, Latest, FenceHolds, RevokedHere
<1>6. OpAhead' /\ Leaving'
  BY <1>1, <1>2 DEF OpAhead, Behind, Latest, Leaving, MayOpen
<1>7. QED
  BY <1>3, <1>4, <1>5, <1>6

LEMMA EnterApplyKeeps == ASSUME SetConstants, SetGateInv, EnterApply PROVE SetGateInv'
<1>1. /\ step = "enter" /\ barrier = "free"
      /\ UNCHANGED <<pubs, grant, op, lastApplied, ack, active, admission, astray, hooks, fence,
                     want, shut,
                     elsewhere, restored>>
      /\ faults' \in {faults, faults + 1}
  BY DEF EnterApply, durable, progress, process, excused, Fault, NoFault
<1> USE DEF SetGateInv
<1>2. CASE Superseded
  <2>1. step' = "fail" /\ UNCHANGED <<barrier, changed>>
    BY <1>2 DEF EnterApply
  <2>2. RuntimeSetTypes'
    BY <1>1, <2>1, PubFacts DEF RuntimeSetTypes, Running
  <2>3. Fields' /\ Attempt' /\ Planned' /\ RevokedLeft' /\ FenceHolds' /\ RevokedHere'
    BY <1>1, <2>1 DEF Fields, CoordinatorSteps, Attempt, Planned, Applying, RevokedLeft, Latest,
       FenceHolds, RevokedHere
  <2>4. OpAhead' /\ Leaving'
    BY <1>1, <2>1 DEF OpAhead, Behind, Latest, Leaving, MayOpen
  <2>5. QED
    BY <2>2, <2>3, <2>4
<1>3. CASE ~Superseded
  <2>1. want = Len(pubs) /\ pubs[want] = Latest /\ fence.at = "none"
    BY <1>1, <1>3 DEF Superseded, Latest, RuntimeSetTypes
  <2>2. PICK sick \in SUBSET {p \in Plugins : Running(p)} :
          /\ changed' = Differs(pubs[want], sick)
          /\ IF Visible(changed')
             THEN step' = "complete" /\ UNCHANGED barrier
             ELSE step' = "close" /\ barrier' = "apply"
    BY <1>3 DEF EnterApply
  <2>3. /\ changed' \subseteq Plugins
        /\ \A p \in Plugins \ changed' :
             active[p] = Latest[p] /\ (Running(p) => admission[p] = "open")
    BY <2>1, <2>2 DEF Differs
  <2>4. shut = {}
    BY <1>1 DEF Planned, Applying
  <2>5. RuntimeSetTypes'
    BY <1>1, <2>1, <2>2, <2>3, <2>4, PubFacts DEF RuntimeSetTypes, Running
  <2>6. Fields' /\ Attempt' /\ Planned' /\ RevokedLeft' /\ FenceHolds' /\ RevokedHere'
    BY <1>1, <2>1, <2>2, <2>3, <2>4
       DEF Fields, CoordinatorSteps, Attempt, Planned, Applying, RevokedLeft, Latest, FenceHolds,
          RevokedHere
  <2>7. OpAhead'
    BY <1>1, <2>1, <2>2 DEF OpAhead, Behind, Latest
  <2>8. Leaving'
    BY <1>1, <2>1, <2>2, <2>3 DEF Leaving, MayOpen, Latest, Attempt, RuntimeSetTypes, Running,
       Visible
  <2>9. QED
    BY <2>5, <2>6, <2>7, <2>8
<1>4. QED
  BY <1>2, <1>3

LEMMA CloseOldKeeps == ASSUME SetConstants, SetGateInv, CloseOld PROVE SetGateInv'
<1>1. /\ step = "close" /\ faults' \in {faults, faults + 1}
      /\ UNCHANGED <<pubs, grant, op, lastApplied, ack, active, astray, hooks, fence, want,
                     elsewhere, restored>>
  BY DEF CloseOld, durable, progress, excused, Fault, NoFault
<1>2. \/ /\ step' = "fail" /\ barrier' = "free" /\ changed' = {} /\ shut' = {}
              /\ admission' = admission
      \/ /\ step' \in {"rollback", "publish"} /\ UNCHANGED <<barrier, changed>>
         /\ shut' \subseteq changed /\ admission' = Drained(shut')
  BY DEF CloseOld, NoPlan
<1>3. \A p \in Plugins : admission'[p] = admission[p]
        \/ (admission[p] = "open" /\ admission'[p] = "drained")
  BY <1>2 DEF Drained
<1> USE DEF SetGateInv
<1>4. admission' \in [Plugins -> {"none", "open", "drained", "quarantined"}]
  BY <1>2 DEF RuntimeSetTypes, Drained
<1>5. fence.at = "none"
  BY <1>1 DEF Planned, Applying
<1>6. RuntimeSetTypes'
  <2>1. barrier' = IF fence'.at # "none" THEN "fence"
                   ELSE IF step' \in {"close", "publish", "commit", "rollback", "restore"}
                   THEN "apply" ELSE "free"
    BY <1>1, <1>2, <1>5 DEF RuntimeSetTypes
  <2>2. QED
    BY <1>1, <1>2, <1>3, <1>4, <2>1, PubFacts DEF RuntimeSetTypes, Running
<1>7. Fields' /\ Attempt' /\ Planned' /\ RevokedLeft' /\ FenceHolds' /\ RevokedHere'
  BY <1>1, <1>2, <1>3, <1>5
     DEF Fields, CoordinatorSteps, Attempt, Planned, Applying, RevokedLeft, Latest, FenceHolds,
        RevokedHere
<1>8. OpAhead' /\ Leaving'
  BY <1>1, <1>2, <1>3 DEF OpAhead, Behind, Latest, Leaving, MayOpen
<1>9. QED
  BY <1>6, <1>7, <1>8

LEMMA PublishSetKeeps == ASSUME SetConstants, SetGateInv, PublishSet PROVE SetGateInv'
<1>1. /\ step = "publish" /\ step' \in {"rollback", "commit"} /\ astray' \in {astray, changed}
      /\ faults' \in {faults, faults + 1}
      /\ UNCHANGED <<pubs, grant, op, lastApplied, ack, active, admission, hooks, barrier, fence,
                     want, changed, shut, elsewhere, restored>>
  BY DEF PublishSet, durable, progress, plan, excused, Fault, NoFault
<1> USE DEF SetGateInv
<1>2. RuntimeSetTypes'
  BY <1>1, PubFacts DEF RuntimeSetTypes, Running
<1>3. Fields' /\ Attempt' /\ Planned' /\ RevokedLeft' /\ FenceHolds' /\ RevokedHere'
  BY <1>1 DEF Fields, CoordinatorSteps, Attempt, Planned, Applying, RevokedLeft, Latest, FenceHolds,
     RevokedHere
<1>4. OpAhead' /\ Leaving'
  BY <1>1 DEF OpAhead, Behind, Latest, Leaving, MayOpen
<1>5. QED
  BY <1>2, <1>3, <1>4

LEMMA CommitSetKeeps == ASSUME SetConstants, SetGateInv, CommitSet PROVE SetGateInv'
<1>1. /\ step = "commit" /\ faults' \in {faults, faults + 1}
      /\ UNCHANGED <<pubs, grant, op, lastApplied, ack, fence, want, elsewhere, restored>>
  BY DEF CommitSet, durable, progress, excused, Fault, NoFault
<1> USE DEF SetGateInv
<1>2. fence.at = "none" /\ want \in 1..Len(pubs) /\ lastApplied < want
  BY <1>1, PubFacts DEF RuntimeSetTypes, Attempt, Planned, Applying
<1>3. CASE step' = "restore" /\ UNCHANGED <<process, barrier, changed, shut>>
  <2>1. RuntimeSetTypes'
    BY <1>1, <1>3, PubFacts DEF RuntimeSetTypes, Running, process
  <2>2. Fields' /\ Attempt' /\ Planned' /\ RevokedLeft' /\ FenceHolds' /\ RevokedHere'
    BY <1>1, <1>3
       DEF Fields, CoordinatorSteps, Attempt, Planned, Applying, RevokedLeft, Latest, FenceHolds,
          RevokedHere, process
  <2>3. OpAhead' /\ Leaving'
    BY <1>1, <1>3 DEF OpAhead, Behind, Latest, Leaving, MayOpen, process
  <2>4. QED
    BY <2>1, <2>2, <2>3
<1>4. CASE /\ StillReusable
           /\ active' = pubs[want]
           /\ admission' = [p \in Plugins |-> IF pubs[want][p] = None THEN "none"
                                         ELSE IF p \in changed THEN "open" ELSE admission[p]]
           /\ astray' = {} /\ hooks' = want
           /\ step' = "complete" /\ barrier' = "free" /\ NoPlan
  <2>1. changed' = {} /\ shut' = {}
    BY <1>4 DEF NoPlan
  <2>2. \A p \in Plugins : admission'[p] = IF pubs[want][p] = None THEN "none" ELSE "open"
    BY <1>1, <1>4 DEF Planned, Applying, StillReusable, Running
  <2>3. admission' \in [Plugins -> {"none", "open", "drained", "quarantined"}]
    BY <1>4, <2>2
  <2>4. RuntimeSetTypes'
    BY <1>1, <1>2, <1>4, <2>1, <2>2, <2>3, PubFacts DEF RuntimeSetTypes, Running
  <2>5. Fields' /\ Attempt' /\ Planned' /\ RevokedLeft' /\ FenceHolds'
    BY <1>1, <1>2, <1>4, <2>1
       DEF Fields, CoordinatorSteps, Attempt, Planned, Applying, RevokedLeft, Latest, FenceHolds
  <2>6. RevokedHere'
    BY <1>1, <1>4, <2>2 DEF RevokedHere, Planned, Applying
  <2>7. OpAhead'
    BY <1>1, <1>4 DEF OpAhead, Behind, Latest
  <2>8. Leaving'
    BY <1>1, <1>2, <1>4, <2>2, PubFacts DEF Leaving, MayOpen, Latest
  <2>9. QED
    BY <2>4, <2>5, <2>6, <2>7, <2>8
<1>5. QED
  BY <1>3, <1>4 DEF CommitSet

LEMMA RollbackKeeps == ASSUME SetConstants, SetGateInv, Rollback PROVE SetGateInv'
<1>1. /\ step \in {"rollback", "restore"} /\ step' = "fail" /\ barrier' = "free"
      /\ changed' = {} /\ shut' = {}
      /\ restored' = restored \cup {p \in shut \ elsewhere : admission'[p] = "open" /\ ~grant[p]}
      /\ astray' \in {astray, {}} /\ faults' \in {faults, faults + 1}
      /\ admission' \in {admission, Resumed(shut)}
      /\ UNCHANGED <<pubs, grant, op, lastApplied, ack, active, hooks, fence, want, elsewhere>>
  BY DEF Rollback, ResumePrevious, durable, progress, NoPlan, Fault, NoFault
<1>2. \A p \in Plugins : admission'[p] = admission[p]
        \/ (p \in shut /\ admission[p] = "drained" /\ admission'[p] = "open")
  BY <1>1 DEF Resumed
<1> USE DEF SetGateInv
<1>3. /\ fence.at = "none" /\ want \in 1..Len(pubs) /\ lastApplied < want
      /\ shut \subseteq Plugins
  BY <1>1, PubFacts DEF RuntimeSetTypes, Attempt, Planned, Applying
<1>4. admission' \in [Plugins -> {"none", "open", "drained", "quarantined"}]
  BY <1>1 DEF RuntimeSetTypes, Resumed
<1>5. RuntimeSetTypes'
  BY <1>1, <1>2, <1>3, <1>4, PubFacts DEF RuntimeSetTypes, Running
<1>6. Fields' /\ Attempt' /\ Planned' /\ RevokedLeft' /\ FenceHolds'
  BY <1>1, <1>3 DEF Fields, CoordinatorSteps, Attempt, Planned, Applying, RevokedLeft, Latest,
     FenceHolds
<1>7. RevokedHere'
  BY <1>1, <1>2, <1>3 DEF RevokedHere
<1>8. OpAhead'
  BY <1>1 DEF OpAhead, Behind, Latest, Applying
<1>9. Leaving'
  BY <1>1, <1>2, <1>3, PubFacts DEF Leaving, MayOpen, Latest
<1>10. QED
  BY <1>5, <1>6, <1>7, <1>8, <1>9

LEMMA CompleteKeeps == ASSUME SetConstants, SetGateInv, Complete \/ RecordFailure PROVE SetGateInv'
<1>1. /\ step \in {"complete", "fail"} /\ step' = "idle" /\ want' = 0 /\ changed' = {} /\ shut' = {}
      /\ lastApplied' = lastApplied \/ (step = "complete" /\ lastApplied' = want)
      /\ ack' \in {ack, Acknowledged("applied"), Acknowledged("failed")}
      /\ faults' \in {faults, faults + 1}
      /\ UNCHANGED <<pubs, grant, op, active, admission, astray, hooks, barrier, fence, elsewhere,
                     restored>>
  BY DEF Complete, RecordFailure, BackToIdle, NoPlan, durable, progress, process, excused, Fault,
     NoFault
<1> USE DEF SetGateInv
<1>2. ack' \in [revision : 0..Len(pubs), is : {"none", "applying", "failed", "applied"}]
  BY <1>1 DEF RuntimeSetTypes, Acknowledged
<1>3. RuntimeSetTypes'
  BY <1>1, <1>2, PubFacts DEF RuntimeSetTypes, Running
<1>4. Fields' /\ Attempt' /\ Planned' /\ RevokedLeft' /\ FenceHolds' /\ RevokedHere'
  BY <1>1 DEF Fields, CoordinatorSteps, Attempt, Planned, Applying, RevokedLeft, Latest, FenceHolds,
     RevokedHere
<1>5. OpAhead'
  BY <1>1 DEF OpAhead, Behind, Latest
<1>6. Leaving'
  BY <1>1 DEF Leaving, MayOpen, Latest
<1>7. QED
  BY <1>3, <1>4, <1>5, <1>6

-----------------------------------------------------------------------------
(* REVOCATIONS AND GRANTS                                                  *)
LEMMA FenceBeginKeeps ==
  ASSUME SetConstants, SetGateInv, NEW p \in Subjects, FenceBegin(p)
  PROVE  SetGateInv'
<1>1. /\ fence.at = "none" /\ barrier = "free" /\ grant[p] /\ barrier' = "fence"
      /\ fence' = [at |-> "fenced", plugin |-> p, closed |-> admission[p] = "open"]
      /\ admission' = Drained({p})
      /\ UNCHANGED <<pubs, grant, op, lastApplied, ack, active, astray, hooks, step, want, changed,
                     shut, elsewhere, restored, faults>>
  BY DEF FenceBegin, durable, progress, coordinator, plan, excused
<1>2. p \in Plugins
  BY DEF SetConstants
<1>3. fence' \in Fences /\ fence'.at = "fenced" /\ fence'.plugin = p
        /\ fence'.closed = (admission[p] = "open")
  BY <1>1, <1>2 DEF Fences
<1> USE DEF SetGateInv
<1>4. admission' \in [Plugins -> {"none", "open", "drained", "quarantined"}]
  BY <1>1 DEF RuntimeSetTypes, Drained
<1>5. \A q \in Plugins :
        /\ q # p => admission'[q] = admission[q]
        /\ admission'[q] = admission[q] \/ (admission[q] = "open" /\ admission'[q] = "drained")
  BY <1>1 DEF Drained
<1>6. admission'[p] # "open"
  BY <1>1, <1>2 DEF Drained
<1>7. step \notin Applying
  BY <1>1 DEF RuntimeSetTypes, Applying
<1>8. RuntimeSetTypes'
  BY <1>1, <1>3, <1>4, <1>5, PubFacts DEF RuntimeSetTypes, Running
<1>9. Fields' /\ Attempt' /\ Planned' /\ RevokedLeft' /\ FenceHolds'
  BY <1>1, <1>2, <1>3, <1>6, <1>7 DEF Fields, Attempt, Planned, Applying, RevokedLeft, Latest,
     FenceHolds
<1>10. RevokedHere'
  BY <1>1, <1>5 DEF RevokedHere
<1>11. OpAhead' /\ Leaving'
  BY <1>1, <1>3, <1>5 DEF OpAhead, Behind, Latest, Leaving, MayOpen
<1>12. QED
  BY <1>8, <1>9, <1>10, <1>11

(* A revocation takes the plugin out of the latest set, and nothing else.  *)
LEMMA RevokeFacts ==
  ASSUME SetConstants, RuntimeSetTypes, Fields, NEW p \in Plugins, Revoke(p)
  PROVE  /\ grant' = [grant EXCEPT ![p] = FALSE] /\ op' = op
         /\ pubs' \in Seq(Members) /\ Len(pubs)' \in Publications
         /\ \A r \in 1..Len(pubs) : pubs'[r] = pubs[r]
         /\ \/ Len(pubs)' = Len(pubs) /\ Latest[p] = None /\ Latest' = Latest
            \/ Len(pubs)' = Len(pubs) + 1
         /\ Latest'[p] = None /\ \A q \in Plugins : q # p => Latest'[q] = Latest[q]
<1>1. grant' = [grant EXCEPT ![p] = FALSE] /\ op' = op
  BY DEF Revoke
<1>2. CASE Latest[p] = None
  <2>1. pubs' = pubs
    BY <1>2 DEF Revoke
  <2>2. QED
    BY <1>1, <1>2, <2>1 DEF RuntimeSetTypes, Latest
<1>3. CASE Latest[p] # None
  <2>1. Room /\ pubs' = Append(pubs, Without(Latest, p))
    BY <1>3 DEF Revoke
  <2>2. Without(Latest, p) \in Members
    BY PubFacts DEF Without, Members
  <2>3. Without(Latest, p)[p] = None
          /\ \A q \in Plugins : q # p => Without(Latest, p)[q] = Latest[q]
    BY PubFacts DEF Without, Members
  <2>4. QED
    BY <1>1, <2>1, <2>2, <2>3, AppendFacts
<1>4. QED
  BY <1>2, <1>3

LEMMA FenceDurableKeeps == ASSUME SetConstants, SetGateInv, FenceDurable PROVE SetGateInv'
<1> DEFINE p == fence.plugin
<1>1. /\ fence.at = "fenced" /\ faults' \in {faults, faults + 1}
      /\ UNCHANGED <<lastApplied, ack, active, admission, astray, hooks, barrier, step, want,
                     changed, shut, restored>>
  BY DEF FenceDurable, progress, process, coordinator, plan, Fault, NoFault
<1> USE DEF SetGateInv
<1>2. fence \in Fences /\ p \in Plugins /\ op.at \in {"none", "open", "moved", "committed"}
  BY <1>1 DEF Fields, Fences, NoFence, RuntimeSetTypes
<1>3. admission[p] # "open" /\ step \notin Applying
  BY <1>1 DEF FenceHolds, Planned
<1>4. CASE /\ fence' \in {[fence EXCEPT !.at = "revoked"], [fence EXCEPT !.at = "failed"]}
           /\ UNCHANGED <<pubs, grant, op, elsewhere>>
  <2>1. fence' \in Fences /\ fence'.at \in {"revoked", "failed"}
        /\ fence'.plugin = p /\ fence'.closed = fence.closed
    BY <1>2, <1>4 DEF Fences
  <2>2. RuntimeSetTypes'
    BY <1>1, <1>4, <2>1, PubFacts DEF RuntimeSetTypes, Running
  <2>3. Fields' /\ Attempt' /\ Planned' /\ RevokedLeft'
    BY <1>1, <1>3, <1>4, <2>1 DEF Fields, Attempt, Planned, Applying, RevokedLeft, Latest
  <2>4. FenceHolds' /\ RevokedHere'
    BY <1>1, <1>3, <1>4, <2>1 DEF FenceHolds, RevokedHere
  <2>5. OpAhead' /\ Leaving'
    BY <1>1, <1>4, <2>1 DEF OpAhead, Behind, Latest, Leaving, MayOpen
  <2>6. QED
    BY <2>2, <2>3, <2>4, <2>5
<1>5. CASE /\ Revoke(p) /\ fence' = [fence EXCEPT !.at = "revoked"]
           /\ elsewhere' = elsewhere \ {p}
  <2>1. fence' \in Fences /\ fence'.at = "revoked"
        /\ fence'.plugin = p /\ fence'.closed = fence.closed
    BY <1>2, <1>5 DEF Fences
  <2>2. /\ grant' = [grant EXCEPT ![p] = FALSE] /\ op' = op
        /\ pubs' \in Seq(Members) /\ Len(pubs)' \in Publications
        /\ \A r \in 1..Len(pubs) : pubs'[r] = pubs[r]
        /\ \/ Len(pubs)' = Len(pubs) /\ Latest[p] = None /\ Latest' = Latest
           \/ Len(pubs)' = Len(pubs) + 1
        /\ Latest'[p] = None /\ \A q \in Plugins : q # p => Latest'[q] = Latest[q]
    BY <1>2, <1>5, RevokeFacts
  <2>3. /\ grant' \in [Plugins -> BOOLEAN] /\ ~grant'[p]
        /\ \A q \in Plugins : q # p => grant'[q] = grant[q]
    BY <1>2, <2>2 DEF RuntimeSetTypes
  <2>4. RuntimeSetTypes'
    BY <1>1, <1>5, <2>1, <2>2, <2>3, PubFacts DEF RuntimeSetTypes, Running
  <2>5. Fields' /\ Attempt' /\ Planned' /\ RevokedLeft'
    BY <1>1, <1>2, <1>3, <2>1, <2>2, <2>3 DEF Fields, Attempt, Planned, Applying, RevokedLeft
  <2>6. FenceHolds' /\ RevokedHere'
    BY <1>1, <1>3, <1>5, <2>1, <2>2, <2>3 DEF FenceHolds, RevokedHere
  <2>7. OpAhead' /\ Leaving'
    BY <1>1, <1>2, <2>1, <2>2, PubFacts DEF OpAhead, Behind, Leaving, MayOpen, RuntimeSetTypes,
       Fields, Operations, NoOperation
  <2>8. QED
    BY <2>4, <2>5, <2>6, <2>7
<1>6. QED
  BY <1>4, <1>5 DEF FenceDurable, durable

LEMMA FenceEndKeeps == ASSUME SetConstants, SetGateInv, FenceEnd PROVE SetGateInv'
<1> DEFINE p == fence.plugin
<1>1. /\ fence.at \in {"revoked", "failed"} /\ fence' = NoFence /\ barrier' = "free"
      /\ faults' \in {faults, faults + 1}
      /\ UNCHANGED <<pubs, grant, op, lastApplied, ack, active, astray, hooks, step, want, changed,
                     shut, elsewhere, restored>>
  BY DEF FenceEnd, durable, progress, coordinator, plan, excused, Fault, NoFault
<1> USE DEF SetGateInv
<1>2. fence \in Fences /\ p \in Plugins /\ fence'.at = "none"
  BY <1>1 DEF Fields, Fences, NoFence
<1>3. step \notin Applying /\ admission[p] # "open"
  BY <1>1 DEF Planned, FenceHolds
<1>4. /\ admission' \in [Plugins -> {"none", "open", "drained", "quarantined"}]
      /\ \A q \in Plugins : q # p => admission'[q] = admission[q]
      /\ admission'[p] = "none" <=> admission[p] = "none"
      /\ fence.at = "revoked" => admission'[p] \in {"none", "quarantined"}
      /\ fence.at = "failed" => admission'[p] = admission[p]
           \/ (fence.closed /\ admission[p] = "drained" /\ admission'[p] = "open")
  BY <1>1, <1>2 DEF FenceEnd, Resumed, RuntimeSetTypes
<1>5. RuntimeSetTypes'
  BY <1>1, <1>2, <1>3, <1>4, PubFacts DEF RuntimeSetTypes, Running, Applying
<1>6. Fields' /\ Attempt' /\ Planned' /\ RevokedLeft' /\ FenceHolds'
  BY <1>1, <1>2, <1>3 DEF Fields, Attempt, Planned, Applying, RevokedLeft, Latest, FenceHolds
<1>7. RevokedHere'
  BY <1>1, <1>2, <1>4 DEF RevokedHere, FenceHolds
<1>8. OpAhead'
  BY <1>1 DEF OpAhead, Behind, Latest
<1>9. Leaving'
  BY <1>1, <1>2, <1>4 DEF Leaving, MayOpen, Latest
<1>10. QED
  BY <1>5, <1>6, <1>7, <1>8, <1>9

LEMMA RevokeElsewhereKeeps ==
  ASSUME SetConstants, SetGateInv, NEW p \in Subjects, RevokeElsewhere(p)
  PROVE  SetGateInv'
<1>1. /\ Revoke(p) /\ elsewhere' = elsewhere \cup {p}
      /\ UNCHANGED <<lastApplied, ack, active, admission, astray, hooks, barrier, fence, step, want,
                     changed, shut,
                     restored, faults>>
  BY DEF RevokeElsewhere, progress, process, coordinator, plan
<1> USE DEF SetGateInv
<1>2. p \in Plugins
  BY DEF SetConstants
<1>3. /\ grant' = [grant EXCEPT ![p] = FALSE] /\ op' = op
      /\ pubs' \in Seq(Members) /\ Len(pubs)' \in Publications
      /\ \A r \in 1..Len(pubs) : pubs'[r] = pubs[r]
      /\ \/ Len(pubs)' = Len(pubs) /\ Latest[p] = None /\ Latest' = Latest
         \/ Len(pubs)' = Len(pubs) + 1
      /\ Latest'[p] = None /\ \A q \in Plugins : q # p => Latest'[q] = Latest[q]
  BY <1>1, <1>2, RevokeFacts
<1>4. /\ grant' \in [Plugins -> BOOLEAN] /\ ~grant'[p]
      /\ \A q \in Plugins : q # p => grant'[q] = grant[q]
  BY <1>2, <1>3 DEF RuntimeSetTypes
<1>5. RuntimeSetTypes'
  BY <1>1, <1>2, <1>3, <1>4, PubFacts DEF RuntimeSetTypes, Running
<1>6. Fields' /\ Attempt' /\ RevokedLeft'
  BY <1>1, <1>3, <1>4 DEF Fields, Attempt, RevokedLeft
<1>7. Planned'
  BY <1>1, <1>3, <1>4, PubFacts DEF Planned, Applying, Attempt, RuntimeSetTypes
<1>8. FenceHolds' /\ RevokedHere'
  BY <1>1, <1>3, <1>4 DEF FenceHolds, RevokedHere, Fields, Fences, NoFence
<1>9. OpAhead' /\ Leaving'
  BY <1>1, <1>3, PubFacts DEF OpAhead, Behind, Leaving, MayOpen, RuntimeSetTypes, Fields,
     Operations, NoOperation
<1>10. QED
  BY <1>5, <1>6, <1>7, <1>8, <1>9

LEMMA GrantAgainKeeps ==
  ASSUME SetConstants, SetGateInv, NEW p \in Subjects, GrantAgain(p)
  PROVE  SetGateInv'
<1>1. /\ grant' = [grant EXCEPT ![p] = TRUE]
      /\ elsewhere' = elsewhere \ {p} /\ restored' = restored \ {p}
      /\ UNCHANGED <<pubs, op, lastApplied, ack, active, admission, astray, hooks, barrier, fence,
                     step, want, changed, shut, faults>>
  BY DEF GrantAgain, progress, process, coordinator, plan
<1> USE DEF SetGateInv
<1>2. p \in Plugins
  BY DEF SetConstants
<1>3. /\ grant' \in [Plugins -> BOOLEAN] /\ grant'[p]
      /\ \A q \in Plugins : q # p => grant'[q] = grant[q]
  BY <1>1, <1>2 DEF RuntimeSetTypes
<1>4. RuntimeSetTypes'
  BY <1>1, <1>3, PubFacts DEF RuntimeSetTypes, Running
<1>5. Fields' /\ Attempt' /\ Planned' /\ RevokedLeft'
  BY <1>1, <1>3 DEF Fields, Attempt, Planned, Applying, RevokedLeft, Latest
<1>6. FenceHolds' /\ RevokedHere'
  BY <1>1, <1>3 DEF FenceHolds, RevokedHere, Fields, Fences, NoFence
<1>7. OpAhead' /\ Leaving'
  BY <1>1 DEF OpAhead, Behind, Leaving, MayOpen, Latest
<1>8. QED
  BY <1>4, <1>5, <1>6, <1>7

-----------------------------------------------------------------------------
(* OPERATIONS                                                              *)
LEMMA OpenOperationKeeps ==
  ASSUME SetConstants, SetGateInv, NEW p \in Subjects, NEW target \in Versions \cup {None},
           NEW here \in BOOLEAN,
         OpenOperation(p, target, here)
  PROVE  SetGateInv'
<1>1. /\ op.at = "none" /\ target # Latest[p]
      /\ op' = [at |-> "open", plugin |-> p, from |-> Latest[p], to |-> target, here |-> here]
      /\ UNCHANGED <<pubs, grant, lastApplied, ack, active, admission, astray, hooks, barrier,
                     fence, step, want, changed, shut, elsewhere, restored, faults>>
  BY DEF OpenOperation, progress, process, coordinator, plan, excused
<1> USE DEF SetGateInv
<1>2. p \in Plugins /\ Latest[p] \in Versions \cup {None}
  BY PubFacts DEF SetConstants, Members
<1>3. op' \in Operations /\ op'.at = "open" /\ op'.plugin = p /\ op'.from = Latest[p]
        /\ op'.to = target
  BY <1>1, <1>2 DEF Operations
<1>4. RuntimeSetTypes'
  BY <1>1, <1>3, PubFacts DEF RuntimeSetTypes, Running
<1>5. Fields' /\ Attempt' /\ Planned' /\ RevokedLeft' /\ FenceHolds' /\ RevokedHere'
  BY <1>1, <1>3 DEF Fields, Attempt, Planned, Applying, RevokedLeft, Latest, FenceHolds, RevokedHere
<1>6. OpAhead' /\ Leaving'
  BY <1>1, <1>3 DEF OpAhead, Behind, Leaving, MayOpen, Latest
<1>7. QED
  BY <1>4, <1>5, <1>6

(* A barrier that is free.                                                  *)
LEMMA FreeFacts ==
  ASSUME RuntimeSetTypes, barrier = "free"
  PROVE  fence.at = "none" /\ step \notin Applying
  BY DEF RuntimeSetTypes, Applying

LEMMA MoveHereKeeps == ASSUME SetConstants, SetGateInv, MoveHere PROVE SetGateInv'
<1> DEFINE p == op.plugin
<1>1. /\ op.at = "open" /\ op.here /\ barrier = "free" /\ active[p] = op.from
      /\ active' = IF op.to = None THEN active ELSE [active EXCEPT ![p] = op.to]
      /\ admission' = IF Running(p) \/ op.to # None THEN [admission EXCEPT ![p] = "drained"]
           ELSE admission
      /\ astray' \in {astray, astray \ {p}} /\ hooks' = 0
      /\ op' = [op EXCEPT !.at = "moved"]
      /\ UNCHANGED <<pubs, grant, lastApplied, ack, barrier, fence, step, want, changed, shut,
                     elsewhere, restored, faults>>
  BY DEF MoveHere, progress, coordinator, plan, excused
<1> USE DEF SetGateInv
<1>2. op \in Operations /\ p \in Plugins /\ op.from # op.to
  BY <1>1 DEF Fields, NoOperation, Operations
<1>3. /\ op' \in Operations /\ op'.at = "moved" /\ op'.plugin = p /\ op'.from = op.from
      /\ op'.to = op.to /\ op'.here
  BY <1>1, <1>2 DEF Operations
<1>4. fence.at = "none" /\ step \notin Applying
  BY <1>1, FreeFacts
<1>5. /\ active' \in Members
      /\ admission' \in [Plugins -> {"none", "open", "drained", "quarantined"}]
      /\ \A q \in Plugins : admission'[q] \in {admission[q], "drained"}
      /\ \A q \in Plugins : admission'[q] = "none" <=> active'[q] = None
  BY <1>1, <1>2 DEF RuntimeSetTypes, Members, Operations, Running
<1>6. RuntimeSetTypes'
  BY <1>1, <1>3, <1>5, PubFacts DEF RuntimeSetTypes, Running
<1>7. Fields' /\ Attempt' /\ Planned' /\ RevokedLeft' /\ FenceHolds'
  BY <1>1, <1>2, <1>3, <1>4, <1>5 DEF Fields, Attempt, Planned, RevokedLeft, Latest, FenceHolds
<1>8. RevokedHere'
  BY <1>1, <1>3, <1>5 DEF RevokedHere
<1>9. OpAhead' /\ Leaving'
  BY <1>1, <1>3, <1>4, <1>5 DEF OpAhead, Behind, Leaving, MayOpen, Latest
<1>10. QED
  BY <1>6, <1>7, <1>8, <1>9

LEMMA CommitOperationKeeps == ASSUME SetConstants, SetGateInv, CommitOperation PROVE SetGateInv'
<1> DEFINE p == op.plugin
<1>1. /\ op.at \in {"open", "moved"} /\ Room /\ (op.to # None => grant[p])
      /\ pubs' = Append(pubs, [Latest EXCEPT ![p] = op.to])
      /\ op' = [op EXCEPT !.at = "committed"]
      /\ UNCHANGED <<grant, lastApplied, ack, active, admission, astray, hooks, barrier, fence,
                     step, want, changed, shut, elsewhere, restored, faults>>
  BY DEF CommitOperation, Committable, progress, process, coordinator, plan, excused
<1> USE DEF SetGateInv
<1>2. op \in Operations /\ p \in Plugins /\ op.to \in Versions \cup {None} /\ op.from # op.to
  BY <1>1 DEF Fields, NoOperation, Operations
<1>3. /\ op' \in Operations /\ op'.at = "committed" /\ op'.plugin = p /\ op'.from = op.from
      /\ op'.to = op.to /\ op'.here = op.here
  BY <1>1, <1>2 DEF Operations
<1>4. [Latest EXCEPT ![p] = op.to] \in Members
  BY <1>2, PubFacts DEF Members
<1>5. /\ pubs' \in Seq(Members) /\ Len(pubs)' = Len(pubs) + 1 /\ Len(pubs)' \in Publications
      /\ \A r \in 1..Len(pubs) : pubs'[r] = pubs[r]
      /\ Latest' = [Latest EXCEPT ![p] = op.to]
  BY <1>1, <1>4, AppendFacts
<1>6. RuntimeSetTypes'
  BY <1>1, <1>3, <1>5, PubFacts DEF RuntimeSetTypes, Running
<1>7. Fields' /\ Attempt' /\ FenceHolds'
  BY <1>1, <1>2, <1>3 DEF Fields, Attempt, FenceHolds
<1>8. Planned'
  BY <1>1, <1>5, PubFacts DEF Planned, Applying, Attempt, RuntimeSetTypes
<1>9. RevokedLeft'
  BY <1>1, <1>2, <1>5, PubFacts DEF RevokedLeft, Members
<1>10. RevokedHere'
  BY <1>1, <1>3 DEF RevokedHere
<1>11. OpAhead' /\ Leaving'
  BY <1>1, <1>5, PubFacts DEF OpAhead, Behind, Leaving, RuntimeSetTypes
<1>12. QED
  BY <1>6, <1>7, <1>8, <1>9, <1>10, <1>11

LEMMA FinishKeeps == ASSUME SetConstants, SetGateInv, NEW ok \in BOOLEAN, Finish(ok)
  PROVE SetGateInv'
<1> DEFINE p == op.plugin
<1>1. /\ op.at = "committed" /\ (op.here => barrier = "free") /\ op' = NoOperation
      /\ faults' \in {faults, faults + 1}
      /\ \/ UNCHANGED <<active, admission>>
         \/ /\ op.here /\ op.to # None /\ active[p] = op.to
            /\ admission' = Resumed({p}) /\ active' = active
         \/ /\ op.here /\ active' = [active EXCEPT ![p] = None]
                 /\ admission' = [admission EXCEPT ![p] = "none"]
      /\ UNCHANGED <<pubs, grant, lastApplied, ack, astray, hooks, barrier, fence,
                     step, want, changed, shut, elsewhere, restored>>
  BY DEF Finish, progress, coordinator, plan, excused, Fault, NoFault
<1> USE DEF SetGateInv
<1>2. op \in Operations /\ p \in Plugins /\ op'.at = "none"
  BY <1>1 DEF Fields, NoOperation, Operations
<1>3. op.here => fence.at = "none" /\ step \notin Applying
  BY <1>1, FreeFacts
<1>4. /\ active' \in Members
      /\ admission' \in [Plugins -> {"none", "open", "drained", "quarantined"}]
      /\ \A q \in Plugins : admission'[q] = "none" <=> active'[q] = None
      /\ \A q \in Plugins :
           \/ admission'[q] \in {admission[q], "none"}
           \/ q = p /\ op.here /\ op.to # None /\ admission[q] = "drained" /\ admission'[q] = "open"
  <2>1. CASE UNCHANGED <<active, admission>>
    BY <2>1 DEF RuntimeSetTypes, Running
  <2>2. CASE op.here /\ op.to # None /\ admission' = Resumed({p}) /\ active' = active
    BY <2>2 DEF RuntimeSetTypes, Running, Resumed
  <2>3. CASE active' = [active EXCEPT ![p] = None] /\ admission' = [admission EXCEPT ![p] = "none"]
    BY <1>2, <2>3 DEF RuntimeSetTypes, Running, Members
  <2>4. QED
    BY <1>1, <2>1, <2>2, <2>3
<1>5. RuntimeSetTypes'
  BY <1>1, <1>2, <1>4, PubFacts DEF RuntimeSetTypes, Running
<1>6. Planned'
  BY <1>1, <1>3 DEF Planned, Applying
<1>7. Fields' /\ Attempt' /\ RevokedLeft'
  BY <1>1, <1>2 DEF Fields, Attempt, RevokedLeft, Latest
<1>8. FenceHolds'
  BY <1>1, <1>3, <1>4 DEF FenceHolds, Fields, Fences, NoFence
<1>9. RevokedHere'
  BY <1>1, <1>2, <1>3, <1>4 DEF RevokedHere
<1>10. OpAhead' /\ Leaving'
  BY <1>1, <1>2, <1>4 DEF OpAhead, Behind, Leaving, MayOpen, Latest
<1>11. QED
  BY <1>5, <1>6, <1>7, <1>8, <1>9, <1>10

LEMMA AbortKeeps == ASSUME SetConstants, SetGateInv, Abort PROVE SetGateInv'
<1> DEFINE p == op.plugin
<1>1. /\ op.at \in {"open", "moved"} /\ (op.here => barrier = "free") /\ op' = NoOperation
      /\ faults' \in {faults, faults + 1} /\ hooks' \in {0, hooks}
      /\ Compensate \/ UNCHANGED <<active, admission, astray, restored>>
      /\ UNCHANGED <<pubs, grant, lastApplied, ack, barrier, fence, step, want, changed, shut,
                     elsewhere>>
  BY DEF Abort, progress, coordinator, plan, Fault, NoFault
<1> USE DEF SetGateInv
<1>2. op \in Operations /\ p \in Plugins /\ op'.at = "none" /\ (op.at = "moved" => op.here)
  BY <1>1 DEF Fields, NoOperation, Operations, RuntimeSetTypes
<1>3. op.here => fence.at = "none" /\ step \notin Applying
  BY <1>1, FreeFacts
<1>4. /\ active' \in Members
      /\ admission' \in [Plugins -> {"none", "open", "drained", "quarantined"}]
      /\ \A q \in Plugins : admission'[q] = "none" <=> active'[q] = None
      /\ \A q \in Plugins :
           \/ admission'[q] \in {admission[q], "none"}
           \/ q = p /\ op.here /\ op.from # None /\ admission'[q] = "open"
      /\ (\E q \in Plugins : admission'[q] # admission[q] \/ active'[q] # active[q]) => op.here
      /\ astray' \subseteq Plugins
  <2>1. CASE UNCHANGED <<active, admission, astray>>
    BY <2>1 DEF RuntimeSetTypes, Running
  <2>2. CASE /\ op.at = "moved" /\ (op.to = None => active[p] = op.from)
             /\ active' = [active EXCEPT ![p] = op.from]
             /\ admission' = IF op.from = None THEN [admission EXCEPT ![p] = "none"]
                        ELSE IF op.to = None THEN Resumed({p})
                        ELSE [admission EXCEPT ![p] = "open"]
             /\ astray' \in {astray, astray \ {p}}
    <3>1. active' \in Members /\ active'[p] = op.from
            /\ \A q \in Plugins : q # p => active'[q] = active[q]
      BY <1>2, <2>2 DEF RuntimeSetTypes, Members, Operations
    <3>2. CASE op.from = None
      BY <1>2, <2>2, <3>1, <3>2 DEF RuntimeSetTypes, Running
    <3>3. CASE op.from # None /\ op.to = None
      BY <1>2, <2>2, <3>1, <3>3 DEF RuntimeSetTypes, Running, Resumed
    <3>4. CASE op.from # None /\ op.to # None
      BY <1>2, <2>2, <3>1, <3>4 DEF RuntimeSetTypes, Running
    <3>5. QED
      BY <3>2, <3>3, <3>4
  <2>3. QED
    BY <1>1, <2>1, <2>2 DEF Compensate
<1>5. /\ restored \subseteq restored'
           /\ restored' \subseteq restored \cup {q \in Plugins : ~grant[q]}
      /\ admission'[p] = "open" /\ ~grant[p] => admission[p] = "open" \/ p \in restored'
  BY <1>1, <1>2 DEF Compensate
<1>6. RuntimeSetTypes'
  BY <1>1, <1>2, <1>4, <1>5, PubFacts DEF RuntimeSetTypes, Running
<1>7. Planned'
  BY <1>1, <1>3, <1>4 DEF Planned, Applying
<1>8. Fields' /\ Attempt' /\ RevokedLeft'
  BY <1>1, <1>2 DEF Fields, Attempt, RevokedLeft, Latest
<1>9. FenceHolds'
  BY <1>1, <1>3, <1>4 DEF FenceHolds, Fields, Fences, NoFence
<1>10. RevokedHere'
  BY <1>1, <1>2, <1>4, <1>5 DEF RevokedHere
<1>11. OpAhead' /\ Leaving'
  BY <1>1, <1>2, <1>4 DEF OpAhead, Behind, Leaving, MayOpen, Latest
<1>12. QED
  BY <1>6, <1>7, <1>8, <1>9, <1>10, <1>11

-----------------------------------------------------------------------------
(* INCIDENTS, A NEW BOOT, AND ALL STEPS TOGETHER                           *)
LEMMA IncidentKeeps == ASSUME SetConstants, SetGateInv, NEW p \in Plugins, Incident(p)
  PROVE SetGateInv'
<1>1. /\ Running(p) /\ admission' = [admission EXCEPT ![p] = "quarantined"] /\ faults' = faults + 1
      /\ UNCHANGED <<pubs, grant, op, lastApplied, ack, active, astray, hooks, barrier, fence,
                     step, want, changed, shut, elsewhere, restored>>
  BY DEF Incident, durable, progress, coordinator, plan, excused, Fault
<1> USE DEF SetGateInv
<1>2. /\ admission' \in [Plugins -> {"none", "open", "drained", "quarantined"}]
           /\ admission'[p] = "quarantined"
      /\ \A q \in Plugins : q # p => admission'[q] = admission[q]
  BY <1>1 DEF RuntimeSetTypes
<1>3. RuntimeSetTypes'
  BY <1>1, <1>2, PubFacts DEF RuntimeSetTypes, Running
<1>4. Fields' /\ Attempt' /\ Planned' /\ RevokedLeft'
  BY <1>1 DEF Fields, Attempt, Planned, RevokedLeft, Latest
<1>5. FenceHolds' /\ RevokedHere'
  BY <1>1, <1>2 DEF FenceHolds, RevokedHere, Fields, Fences, NoFence
<1>6. OpAhead' /\ Leaving'
  BY <1>1, <1>2 DEF OpAhead, Behind, Leaving, MayOpen, Latest
<1>7. QED
  BY <1>3, <1>4, <1>5, <1>6

LEMMA NewBootKeeps == ASSUME SetConstants, SetGateInv, NewBoot PROVE SetGateInv'
<1>1. /\ lastApplied' = 0 /\ ack' = NotBegun
      /\ active' = [p \in Plugins |-> None] /\ admission' = [p \in Plugins |-> "none"]
      /\ astray' = {} /\ hooks' = 0 /\ barrier' = "free" /\ fence' = NoFence
      /\ step' = "idle" /\ want' = 0 /\ changed' = {} /\ shut' = {} /\ restored' = {}
      /\ faults' = faults + 1 /\ UNCHANGED <<pubs, grant, elsewhere>>
      /\ \/ op' = op /\ (op.at = "none" \/ ~op.here)
         \/ /\ op.at # "none"
            /\ op' = [op EXCEPT !.here = FALSE, !.at = IF @ = "committed" THEN @ ELSE "open"]
  BY DEF NewBoot, BackToIdle, NoPlan, Fault
<1> USE DEF SetGateInv
<1>2. /\ op' = NoOperation \/ op' \in Operations
      /\ op'.at \in {"none", "open", "moved", "committed"} /\ op'.at # "moved"
      /\ op'.at # "none" => op'.from # op'.to
      /\ op'.at = "committed" => ~op'.here
  <2>1. CASE op' = op /\ (op.at = "none" \/ ~op.here)
    BY <2>1 DEF Fields, RuntimeSetTypes
  <2>2. CASE /\ op.at # "none"
             /\ op' = [op EXCEPT !.here = FALSE, !.at = IF @ = "committed" THEN @ ELSE "open"]
    <3>1. op \in Operations
      BY <2>2 DEF Fields, NoOperation
    <3>2. op' \in Operations
      BY <2>2, <3>1 DEF Operations
    <3>3. op'.from = op.from /\ op'.to = op.to /\ ~op'.here /\ op'.at \in {"committed", "open"}
      BY <2>2, <3>1 DEF Operations
    <3>4. QED
      BY <2>2, <3>2, <3>3 DEF Fields
  <2>3. QED
    BY <1>1, <2>1, <2>2
<1>3. RuntimeSetTypes'
  BY <1>1, <1>2, PubFacts DEF RuntimeSetTypes, Running, NotBegun, NoFence, Members
<1>4. Fields' /\ Attempt' /\ Planned' /\ RevokedLeft'
  BY <1>1, <1>2 DEF Fields, CoordinatorSteps, Attempt, Planned, Applying, RevokedLeft, Latest
<1>5. FenceHolds' /\ RevokedHere'
  BY <1>1 DEF FenceHolds, RevokedHere, NoFence
<1>6. OpAhead' /\ Leaving'
  BY <1>1, PubFacts DEF OpAhead, Behind, Leaving, MayOpen, NoFence
<1>7. QED
  BY <1>3, <1>4, <1>5, <1>6

LEMMA SetGateStep == ASSUME SetConstants, SetGateInv, RuntimeSetNext PROVE SetGateInv'
<1>1. CASE Poll
  BY <1>1 DEF Poll, runtimeSetVars, durable, progress, process, coordinator, plan, excused,
     SetGateInv, RuntimeSetTypes, Fields,
              Attempt, Planned, RevokedLeft, OpAhead, Behind, Leaving, MayOpen, FenceHolds,
                RevokedHere, Latest, Running
<1>2. CASE CoordinatorStep
  BY <1>2, ReadLatestKeeps, BeginApplyKeeps, CloseOldKeeps, PublishSetKeeps, CommitSetKeeps,
     RollbackKeeps,
     CompleteKeeps DEF CoordinatorStep
<1>3. CASE EnterApply
  BY <1>3, EnterApplyKeeps
<1>4. CASE FenceStep
  BY <1>4, FenceDurableKeeps, FenceEndKeeps DEF FenceStep
<1>5. CASE \E p \in Subjects : FenceBegin(p) \/ RevokeElsewhere(p) \/ GrantAgain(p)
  BY <1>5, FenceBeginKeeps, RevokeElsewhereKeeps, GrantAgainKeeps
<1>6. CASE \E p \in Subjects, target \in Versions \cup {None}, here \in BOOLEAN :
             OpenOperation(p, target, here)
  BY <1>6, OpenOperationKeeps
<1>7. CASE OperationStep
  BY <1>7, MoveHereKeeps, CommitOperationKeeps, AbortKeeps, FinishKeeps DEF OperationStep
<1>8. CASE \E p \in Plugins : Incident(p)
  BY <1>8, IncidentKeeps
<1>9. CASE NewBoot
  BY <1>9, NewBootKeeps
<1>10. QED
  BY <1>1, <1>2, <1>3, <1>4, <1>5, <1>6, <1>7, <1>8, <1>9 DEF RuntimeSetNext, Step

(* Where the coordinator stands after a step, and which publications there  *)
(* are, as far as what was seen of the process depends on it.               *)
Progress ==
    /\ \A r \in DOMAIN pubs : r \in DOMAIN pubs'
    /\ lastApplied' = lastApplied \/ (step = "complete" /\ lastApplied' = want)
    /\ step' = "complete" =>
         \/ step = "complete" /\ want' = want /\ lastApplied' = lastApplied
         \/ want' \in DOMAIN pubs' /\ want' >= lastApplied' /\ Whole(want)'

(* What the observation adds is enough for what the coordinator records.   *)
LEMMA WholeStep ==
  ASSUME SetConstants, SetGateInv, WholeInv, SetGateInv', Progress, Observe
  PROVE  WholeInv'
<1>1. whole' = {r \in DOMAIN pubs' : r >= lastApplied' /\ (r \in whole \/ Whole(r)')}
  BY DEF Observe
<1>2. RuntimeSetTypes /\ RuntimeSetTypes' /\ Attempt
  BY DEF SetGateInv
<1>3. lastApplied \in Nat /\ want \in Nat /\ lastApplied' \in Nat /\ want' \in Nat
  BY <1>2, PubFacts DEF RuntimeSetTypes, SetConstants, Publications
<1>4. whole' \subseteq DOMAIN pubs'
  BY <1>1
<1>5. step' = "complete" => want' \in whole'
  <2> SUFFICES ASSUME step' = "complete" PROVE want' \in whole'
    OBVIOUS
  <2>1. CASE step = "complete" /\ want' = want /\ lastApplied' = lastApplied
    BY <1>1, <1>2, <1>3, <2>1 DEF WholeInv, Progress, Attempt
  <2>2. CASE want' \in DOMAIN pubs' /\ want' >= lastApplied' /\ Whole(want)'
    BY <1>1, <2>2 DEF Whole, Running
  <2>3. QED
    BY <2>1, <2>2 DEF Progress
<1>6. AppliedWasWhole'
  BY <1>1, <1>2, <1>3 DEF WholeInv, AppliedWasWhole, Progress, Attempt
<1>7. QED
  BY <1>4, <1>5, <1>6 DEF WholeInv

LEMMA StepProgress ==
  ASSUME SetConstants, SetGateInv, SetGateInv', Step
  PROVE  Progress
<1> DEFINE Still == UNCHANGED <<lastApplied, step, want>>
<1>1. RuntimeSetTypes /\ RuntimeSetTypes' /\ Fields /\ Attempt
  BY DEF SetGateInv
<1>2. DOMAIN pubs = 1..Len(pubs) /\ DOMAIN pubs' = 1..Len(pubs)' /\ Len(pubs) \in Nat
        /\ Len(pubs)' \in Nat
  BY <1>1, PubFacts DEF RuntimeSetTypes
<1>3. ASSUME UNCHANGED pubs \/ (Len(pubs)' >= Len(pubs)), Still PROVE Progress
  BY <1>2, <1>3 DEF Progress
<1>4. CASE ReadLatest \/ CloseOld \/ PublishSet \/ Rollback \/ RecordFailure \/ BeginApply
  BY <1>4 DEF ReadLatest, CloseOld, PublishSet, Rollback, RecordFailure, BeginApply, BackToIdle,
              Progress, durable, progress
<1>5. CASE Complete
  BY <1>5 DEF Complete, BackToIdle, Progress, durable, progress
<1>6. CASE CommitSet
  <2>1. pubs' = pubs /\ lastApplied' = lastApplied /\ want' = want /\ lastApplied < want
          /\ want \in 1..Len(pubs)
    BY <1>1, <1>2, <1>6, PubFacts DEF CommitSet, durable, progress, Attempt, RuntimeSetTypes
  <2>2. ASSUME step' = "complete" PROVE Whole(want)'
    <3>1. /\ StillReusable /\ active' = pubs[want] /\ astray' = {}
          /\ admission' = [p \in Plugins |-> IF pubs[want][p] = None THEN "none"
                                        ELSE IF p \in changed THEN "open" ELSE admission[p]]
      BY <1>6, <2>2 DEF CommitSet
    <3>2. \A p \in Plugins : active'[p] # None => admission'[p] = "open"
      BY <1>6, <3>1 DEF SetGateInv, Planned, Applying, StillReusable, Running, CommitSet
    <3>3. QED
      BY <2>1, <3>1, <3>2 DEF Whole, Running
  <2>3. QED
    BY <1>2, <2>1, <2>2, PubFacts, <1>1 DEF Progress
<1>7. CASE EnterApply
  <2>1. /\ UNCHANGED <<pubs, lastApplied, want, active, admission, astray>>
        /\ lastApplied < want /\ want \in 1..Len(pubs)
    BY <1>1, <1>2, <1>7, PubFacts DEF EnterApply, durable, progress, process, Attempt,
       RuntimeSetTypes
  <2>2. ASSUME step' = "complete" PROVE Whole(want)'
    <3>1. PICK sick \in SUBSET {p \in Plugins : Running(p)} : Visible(Differs(pubs[want], sick))
      BY <1>7, <2>2 DEF EnterApply
    <3>2. /\ astray = {}
          /\ \A p \in Plugins : active[p] = pubs[want][p] /\ (Running(p) => admission[p] = "open")
      BY <3>1 DEF Visible, Differs
    <3>3. active = pubs[want]
      BY <1>1, <2>1, <3>2, PubFacts DEF RuntimeSetTypes, Members
    <3>4. QED
      BY <2>1, <3>2, <3>3 DEF Whole, Running
  <2>3. QED
    BY <1>2, <2>1, <2>2, PubFacts, <1>1 DEF Progress
<1>8. CASE FenceDurable
  <2>1. Still /\ (UNCHANGED pubs \/ Revoke(fence.plugin))
    BY <1>8 DEF FenceDurable, progress, coordinator, plan, durable
  <2>2. fence.plugin \in Plugins
    BY <1>1, <1>8 DEF Fields, FenceDurable, Fences, NoFence
  <2>3. Revoke(fence.plugin) => Len(pubs)' >= Len(pubs)
    <3>1. Revoke(fence.plugin) => Len(pubs)' = Len(pubs) \/ Len(pubs)' = Len(pubs) + 1
      BY <1>1, <2>2, RevokeFacts
    <3>2. Len(pubs) \in Nat
      BY <1>2
    <3>3. QED
      BY <3>1, <3>2
  <2>4. QED
    BY <1>3, <2>1, <2>3
<1>9. CASE FenceEnd
  BY <1>3, <1>9 DEF FenceEnd, durable, progress, coordinator, plan
<1>10. ASSUME NEW p \in Subjects, FenceBegin(p) \/ GrantAgain(p) PROVE Progress
  BY <1>3, <1>10 DEF FenceBegin, GrantAgain, durable, progress, coordinator, plan
<1>11. ASSUME NEW p \in Subjects, RevokeElsewhere(p) PROVE Progress
  <2>1. Still /\ Revoke(p) /\ p \in Plugins
    BY <1>11 DEF RevokeElsewhere, progress, coordinator, plan, SetConstants
  <2>2. Len(pubs)' >= Len(pubs)
    <3>1. Len(pubs)' = Len(pubs) \/ Len(pubs)' = Len(pubs) + 1
      BY <1>1, <2>1, RevokeFacts
    <3>2. Len(pubs) \in Nat
      BY <1>2
    <3>3. QED
      BY <3>1, <3>2
  <2>3. QED
    BY <1>3, <2>1, <2>2
<1>12. CASE \E p \in Subjects, target \in Versions \cup {None}, here \in BOOLEAN :
              OpenOperation(p, target, here)
  BY <1>3, <1>12 DEF OpenOperation, progress, coordinator, plan
<1>13. CASE MoveHere \/ Abort \/ \E ok \in BOOLEAN : Finish(ok)
  BY <1>3, <1>13 DEF MoveHere, Abort, Finish, progress, coordinator, plan
<1>14. CASE CommitOperation
  <2>1. Still /\ Len(pubs)' = Len(pubs) + 1
    BY <1>1, <1>14 DEF CommitOperation, progress, coordinator, plan, RuntimeSetTypes
  <2>2. QED
    BY <1>2, <1>3, <2>1
<1>15. ASSUME NEW p \in Plugins, Incident(p) PROVE Progress
  BY <1>3, <1>15 DEF Incident, durable, progress, coordinator, plan
<1>16. QED
  BY <1>4, <1>5, <1>6, <1>7, <1>8, <1>9, <1>10, <1>11, <1>12, <1>13, <1>14, <1>15
     DEF Step, CoordinatorStep, FenceStep, OperationStep

-----------------------------------------------------------------------------
LEMMA SetStep == SetInv /\ [RuntimeSetNext]_runtimeSetVars => SetInv'
<1> SUFFICES ASSUME SetInv, [RuntimeSetNext]_runtimeSetVars PROVE SetInv'
  OBVIOUS
<1>0. SetConstants /\ SetConstants'
  BY DEF SetInv, SetConstants
<1> USE <1>0 DEF SetInv
<1>1. CASE Step /\ Observe
  <2>1. SetGateInv'
    BY <1>1, SetGateStep DEF RuntimeSetNext
  <2>2. WholeInv'
    BY <1>1, <2>1, StepProgress, WholeStep
  <2>3. QED
    BY <2>1, <2>2
<1>2. CASE Poll
  <2>1. SetGateInv' /\ UNCHANGED runtimeSetVars
    BY <1>2, SetGateStep DEF RuntimeSetNext, Poll
  <2>2. WholeInv'
    BY <2>1 DEF WholeInv, AppliedWasWhole, runtimeSetVars, durable, progress, coordinator, plan
  <2>3. QED
    BY <2>1, <2>2
<1>3. CASE NewBoot
  <2>1. SetGateInv'
    BY <1>3, SetGateStep DEF RuntimeSetNext
  <2>2. WholeInv'
    BY <1>3 DEF WholeInv, AppliedWasWhole, NewBoot, BackToIdle
  <2>3. QED
    BY <2>1, <2>2
<1>4. CASE UNCHANGED runtimeSetVars
  BY <1>4 DEF runtimeSetVars, durable, progress, process, coordinator, plan, excused, SetGateInv,
     RuntimeSetTypes, Fields, Attempt,
     Planned, RevokedLeft, OpAhead, Behind, Leaving, MayOpen, FenceHolds, RevokedHere, Latest,
       Running, WholeInv,
     AppliedWasWhole
<1>5. QED
  BY <1>1, <1>2, <1>3, <1>4 DEF RuntimeSetNext

(* A gate that is open without a grant was closed elsewhere only, and what *)
(* left the latest set and is open has not been applied yet.               *)
LEMMA ShutFromInv == SetInv => RevokedStaysShut
<1> SUFFICES ASSUME SetInv, NEW p \in Plugins, admission[p] = "open", ~grant[p], p \notin restored
             PROVE  p \in elsewhere /\ lastApplied < Len(pubs)
  BY DEF RevokedStaysShut
<1>1. p \in elsewhere
  BY DEF SetInv, SetGateInv, RevokedHere
<1>2. Latest[p] = None /\ MayOpen(p)
  BY DEF SetInv, SetGateInv, RevokedLeft, MayOpen
<1>3. QED
  BY <1>1, <1>2 DEF SetInv, SetGateInv, Leaving

-----------------------------------------------------------------------------
(***************************************************************************)
(* The three parts side by side: a step of one of them is a step or a      *)
(* stutter of each, so each keeps its own invariant.                       *)
(***************************************************************************)
PartsConstants == GateConstants /\ SetConstants

PartsInv == AdmissionInv /\ GateInv /\ BoundInv /\ SetInv

LEMMA PartsStart == PartsConstants /\ PartsInit => PartsInv
BY AdmissionInit, GateInit, BoundInit, SetInit DEF PartsConstants, PartsInit, PartsInv

LEMMA PartsStep == PartsInv /\ [PartsNext]_allVars => PartsInv'
<1>1. [PartsNext]_allVars => [Next]_vars /\ [HubNext]_hubVars /\ [RuntimeSetNext]_runtimeSetVars
  BY DEF PartsNext, AdmissionPart, GatePart, SetPart, allVars
<1>2. GateInv /\ BoundInv /\ [HubNext]_hubVars => GateInv' /\ BoundInv'
  BY GateStep, BoundStep
<1>3. QED
  BY <1>1, <1>2, AdmissionKeeps, SetStep DEF PartsInv

(* The inductive invariant of the parts holds in every reachable state.    *)
THEOREM PartsCorrect == PartsConstants /\ PartsSpec => []PartsInv
BY PartsStart, PartsStep, PTL DEF PartsSpec

(* Both gates and the coordinator keep the types of their fields: a step of*)
(* the coordinator never applies a revision that was not published, the    *)
(* barrier is held exactly by who is inside the runtime set transition, and*)
(* no more calls run than the extension has slots.                         *)
THEOREM CallTypes == PartsConstants /\ PartsSpec => []TypesOK
<1>1. PartsInv => TypesOK
  BY HubTypesFromInv DEF PartsInv, TypesOK, AdmissionInv, SetInv, SetGateInv
<1>2. QED
  BY <1>1, PartsCorrect, PTL

(* A plugin whose trust was revoked stays shut on the node that revoked it,*)
(* for any plugins, versions, publications and failures: full sets, retries*)
(* and operations do not open it, except what a compensation or a rollback *)
(* puts back, and what another node revoked until this one has caught up.  *)
THEOREM RevokedPluginsStayShut == PartsConstants /\ PartsSpec => []RevokedStaysShut
<1>1. PartsInv => RevokedStaysShut
  BY ShutFromInv DEF PartsInv
<1>2. QED
  BY <1>1, PartsCorrect, PTL

(* The revision a node recorded as applied was, at one instant, all of what*)
(* ran in the process, whatever was superseded, rolled back or retried.    *)
THEOREM AppliedRevisionsWereWhole == PartsConstants /\ PartsSpec => []AppliedWasWhole
<1>1. PartsInv => AppliedWasWhole
  BY DEF PartsInv, SetInv, WholeInv
<1>2. QED
  BY <1>1, PartsCorrect, PTL
=============================================================================
