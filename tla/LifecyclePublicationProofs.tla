--------------------- MODULE LifecyclePublicationProofs ---------------------
(* What the run of MCLifecycleOperation shows of the publication for six   *)
(* faults, proved for any number of them and any choice of operations.     *)
EXTENDS LifecyclePublication, TLAPS

(* Where the executor stands tells what is left to move.                   *)
Suffix1 == <<"jobs", "registries">>
Suffix2 == <<"registries">>
Rest1 == <<"jobs", "state">>
Rest2 == <<"state">>

WalkInv ==
    /\ pc \in {"runtime", "move"} => left \in {Publishing, Suffix1, Suffix2}
    /\ pc \in {"residual", "undo"} => left \in {Restoring, Rest1, Rest2, <<>>}
    /\ left \in {Publishing, Suffix1, Suffix2, Restoring, Rest1, Rest2, <<>>}

(* A side the operation does not have has no instance.                     *)
SidesInv == \A s \in Sides : ~Has(s) => gate[s] = "stopped"

(* Once the commit may be under way nothing is left at the source, nothing *)
(* moves back, and the source is closed.                                   *)
MarkerInv ==
    /\ pc = "commit" => pending = None
    /\ pc = "commit" \/ pending = Marker \/ marker => AllAt("target") /\ gate["source"] # "open"
    /\ marker => pending = None \/ pending.to = "target"
    /\ pc = "reconcile" => marker

(* While the executor is past its drains the source admits nothing.        *)
DrainedInv == pc \notin {"rest", "drain", "early", "done"} => gate["source"] # "open"

(* The target is opened by the last step of its publication only, over the *)
(* registries' snapshots that publication has left.                        *)
TargetInv ==
    /\ gate["target"] = "open" => pc \in {"retire", "done"}
    /\ pc \in {"require", "commit", "inspect", "reconcile", "resume"} => local = "target"
    /\ TargetOpensOnlyCommitted

(* A restore without a failure has put back everything it has tried.       *)
RestoreInv ==
    pc \in {"residual", "undo"} /\ clean /\ left # Restoring =>
        /\ pending = None /\ local = "source" /\ phase["registries"] = "source"
        /\ left # Rest1 => phase["jobs"] = "source"
        /\ left \notin {Rest1, Rest2} => phase["state"] = "source"

(* In an upgrade the source is named active only with everything at the    *)
(* source and nothing on its way elsewhere, and it is open only if active. *)
SourceInv ==
    mode = "upgrade" =>
        /\ active = "source" => AllAt("source") /\ local = "source" /\ pending.to = "source"
        /\ gate["source"] = "open" => active = "source"
        /\ pc = "move" => active = "target"

PublicationInv ==
    /\ PublicationTypes /\ WalkInv /\ SidesInv
    /\ MarkerInv /\ DrainedInv /\ TargetInv /\ RestoreInv /\ SourceInv
LEMMA SequenceFacts ==
  /\ Head(Publishing) = "state" /\ Tail(Publishing) = Suffix1 /\ Len(Publishing) = 3
  /\ Head(Suffix1) = "jobs" /\ Tail(Suffix1) = Suffix2 /\ Len(Suffix1) = 2
  /\ Head(Suffix2) = "registries" /\ Tail(Suffix2) = <<>> /\ Len(Suffix2) = 1
  /\ Head(Restoring) = "registries" /\ Tail(Restoring) = Rest1
  /\ Head(Rest1) = "jobs" /\ Tail(Rest1) = Rest2
  /\ Head(Rest2) = "state" /\ Tail(Rest2) = <<>>
  /\ Restoring # Rest1 /\ Restoring # Rest2 /\ Restoring # <<>>
  /\ Rest1 # Rest2 /\ Rest1 # <<>> /\ Rest2 # <<>>
  /\ Publishing # <<>> /\ Suffix1 # <<>> /\ Suffix2 # <<>>
BY DEF Publishing, Suffix1, Suffix2, Restoring, Rest1, Rest2

(* What is left to move is one of the moves, and what follows it is known. *)
LEMMA LeftFacts ==
  ASSUME WalkInv
  PROVE  /\ pc = "move" => Head(left) \in Parts
         /\ pc \in {"residual", "undo"} /\ left # <<>> => Head(left) \in Parts
<1>1. ASSUME pc = "move" PROVE Head(left) \in Parts
  BY <1>1, SequenceFacts DEF WalkInv, Parts
<1>2. ASSUME pc \in {"residual", "undo"}, left # <<>> PROVE Head(left) \in Parts
  BY <1>2, SequenceFacts DEF WalkInv, Parts
<1> QED BY <1>1, <1>2 DEF WalkInv

(* The parts of the type invariant, for the steps to prove one at a time.  *)
FlagsOK == marker \in BOOLEAN /\ reconciled \in BOOLEAN /\ clean \in BOOLEAN /\ committed \in BOOLEAN
StepsOK == mode \in Modes /\ pc \in Steps /\ faults \in 0..MaxFaults
DurableOK == phase \in [Parts -> Sides] /\ pending \in Pending
ProcessOK ==
    /\ active \in Sides \cup {"none"}
    /\ gate \in [Sides -> {"open", "closed", "stopped"}]
    /\ local \in Sides \cup {"torn", "none"}

(* Every step keeps the flags Boolean.                                     *)
LEMMA NextFlags ==
  ASSUME FlagsOK, [PublicationNext]_publicationVars
  PROVE  FlagsOK'
<1> USE DEF FlagsOK, durable, process, walk
<1>1. CASE Prepare BY <1>1 DEF Prepare, Fault, AllAt, Activation
<1>2. CASE Restore BY <1>2 DEF Restore, Written, Failed, Refused, Fault
<1>3. CASE PublishDrainedRuntime
  BY <1>3 DEF PublishDrainedRuntime, Fault, PhaseFails, Activation
<1>4. CASE Publish
  BY <1>4 DEF Publish, Written, Failed, Fault, PhaseFails, Activation
<1>5. CASE RequireTarget
  BY <1>5 DEF RequireTarget, AllAt, Fault, PhaseFails, Activation
<1>6. CASE Commit BY <1>6 DEF Commit, Fault
<1>7. CASE InspectMarker BY <1>7 DEF InspectMarker, Fault
<1>8. CASE ReconcileJobs BY <1>8 DEF ReconcileJobs, Activation, Fault
<1>9. CASE PublisherCrashes BY <1>9 DEF PublisherCrashes, Fault
<1>10. CASE SettleCommit BY <1>10 DEF SettleCommit
<1>11. CASE Begin \/ DrainSource \/ FailBeforePublication \/ DrainTarget \/
         ResidualRestored \/ Compensate \/ FailCommittedActivation \/
         ResumeTarget \/ RetireSource \/ UNCHANGED publicationVars
  BY <1>11 DEF Begin, Has, DrainSource, Shut, Fault, Activation,
             FailBeforePublication, SourceResumed, ResumeAllowed, DrainTarget,
             CloseTarget, ResidualRestored, Compensate, FailCommittedActivation,
             ResumeTarget, RetireSource, publicationVars
<1> QED BY <1>1, <1>2, <1>3, <1>4, <1>5, <1>6, <1>7, <1>8, <1>9, <1>10,
      <1>11 DEF PublicationNext

(* Every step goes to a known step and counts its faults within the bound. *)
LEMMA NextSteps ==
  ASSUME StepsOK, [PublicationNext]_publicationVars
  PROVE  StepsOK'
<1> USE DEF StepsOK, Steps, durable, process, walk
<1>1. CASE Begin BY <1>1, PublicationAssumption DEF Begin, Has
<1>2. CASE DrainSource
  BY <1>2, PublicationAssumption DEF DrainSource, Shut, Fault, Activation, Has
<1>3. CASE FailBeforePublication
  BY <1>3, PublicationAssumption DEF FailBeforePublication, SourceResumed,
      ResumeAllowed, Shut, Fault, Has
<1>4. CASE DrainTarget
  BY <1>4, PublicationAssumption DEF DrainTarget, Shut, Fault, CloseTarget
<1>5. CASE Prepare
  BY <1>5, PublicationAssumption DEF Prepare, Fault, AllAt, Activation
<1>6. CASE Restore
  BY <1>6, PublicationAssumption DEF Restore, Written, Failed, Refused, Fault
<1>7. CASE ResidualRestored
  BY <1>7, PublicationAssumption DEF ResidualRestored, Shut, Has, Fault,
      Activation
<1>8. CASE PublishDrainedRuntime
  BY <1>8, PublicationAssumption DEF PublishDrainedRuntime, Fault, PhaseFails,
      Activation
<1>9. CASE Publish
  BY <1>9, PublicationAssumption DEF Publish, Written, Failed, Fault, PhaseFails,
      Activation
<1>10. CASE RequireTarget
  BY <1>10, PublicationAssumption DEF RequireTarget, AllAt, Fault, PhaseFails,
      Activation
<1>11. CASE Commit BY <1>11, PublicationAssumption DEF Commit, Fault
<1>12. CASE InspectMarker
  BY <1>12, PublicationAssumption DEF InspectMarker, Fault
<1>13. CASE Compensate
  BY <1>13, PublicationAssumption DEF Compensate, CloseTarget, SourceResumed,
      ResumeAllowed, Shut, Has, Fault, Activation
<1>14. CASE FailCommittedActivation
  BY <1>14, PublicationAssumption DEF FailCommittedActivation, Shut
<1>15. CASE ReconcileJobs
  <2>1. pc' \in Steps /\ mode' \in Modes
    <3>1. pc' \in {"resume", "retire", "close", "rest"} /\ mode' = mode
      BY <1>15 DEF ReconcileJobs
    <3> QED BY <3>1
  <2>2. faults' \in 0..MaxFaults
    <3>1. faults' = faults \/ Fault BY <1>15 DEF ReconcileJobs
    <3> QED BY <3>1, PublicationAssumption DEF Fault
  <2> QED BY <2>1, <2>2
<1>16. CASE ResumeTarget
  BY <1>16, PublicationAssumption DEF ResumeTarget, Has, Fault
<1>17. CASE RetireSource
  BY <1>17, PublicationAssumption DEF RetireSource, Fault, Shut, Activation
<1>18. CASE PublisherCrashes BY <1>18, PublicationAssumption DEF PublisherCrashes, Fault
<1>19. CASE SettleCommit BY <1>19, PublicationAssumption DEF SettleCommit
<1>20. CASE UNCHANGED publicationVars BY <1>20 DEF publicationVars
<1> QED BY <1>1, <1>2, <1>3, <1>4, <1>5, <1>6, <1>7, <1>8, <1>9, <1>10, <1>11,
      <1>12, <1>13, <1>14, <1>15, <1>16, <1>17, <1>18, <1>19, <1>20 DEF PublicationNext

(* The moves keep what the database holds well formed.                     *)
LEMMA NextDurable ==
  ASSUME DurableOK, WalkInv, [PublicationNext]_publicationVars
  PROVE  DurableOK'
<1> USE DEF DurableOK, Sides, durable, process, walk
<1>1. CASE Restore
  BY <1>1, LeftFacts DEF Restore, Written, Failed, Refused, Fault, Pending, None,
      Marker
<1>2. CASE Publish
  BY <1>2, LeftFacts DEF Publish, Written, Failed, Fault, PhaseFails, Activation,
      Pending, None, Marker
<1>3. CASE Commit BY <1>3 DEF Commit, Fault, Pending, None
<1>4. CASE SettleCommit BY <1>4 DEF SettleCommit, Pending, None, Parts, Marker
<1>5. CASE Begin \/ DrainSource \/ FailBeforePublication \/ DrainTarget \/
         Prepare \/ ResidualRestored \/ PublishDrainedRuntime \/
         RequireTarget \/ InspectMarker \/ Compensate \/
         FailCommittedActivation \/ ReconcileJobs \/ ResumeTarget \/
         RetireSource \/ PublisherCrashes \/ UNCHANGED publicationVars
  BY <1>5 DEF Begin, Has, DrainSource, Shut, Fault, Activation,
             FailBeforePublication, SourceResumed, ResumeAllowed, DrainTarget,
             CloseTarget, Prepare, AllAt, ResidualRestored,
             PublishDrainedRuntime, PhaseFails, RequireTarget, InspectMarker,
             Compensate, FailCommittedActivation, ReconcileJobs, ResumeTarget,
             RetireSource, PublisherCrashes, publicationVars
<1> QED BY <1>1, <1>2, <1>3, <1>4, <1>5 DEF PublicationNext

(* The gates, the active pointer and the local snapshots stay well formed. *)
LEMMA NextProcess ==
  ASSUME ProcessOK, [PublicationNext]_publicationVars
  PROVE  ProcessOK'
<1> USE DEF ProcessOK, Sides, durable, process, walk
<1>1. CASE Begin BY <1>1 DEF Begin, Has
<1>2. CASE DrainSource BY <1>2 DEF DrainSource, Shut, Fault, Activation, Has
<1>3. CASE FailBeforePublication
  BY <1>3 DEF FailBeforePublication, SourceResumed, ResumeAllowed, Shut, Fault,
      Has
<1>4. CASE DrainTarget BY <1>4 DEF DrainTarget, Shut, Fault, CloseTarget
<1>5. CASE Restore BY <1>5 DEF Restore, Written, Failed, Refused, Fault
<1>6. CASE ResidualRestored
  BY <1>6 DEF ResidualRestored, Shut, Has, Fault, Activation
<1>7. CASE PublishDrainedRuntime
  BY <1>7 DEF PublishDrainedRuntime, Fault, PhaseFails, Activation
<1>8. CASE Publish
  BY <1>8 DEF Publish, Written, Failed, Fault, PhaseFails, Activation
<1>9. CASE Compensate
  BY <1>9 DEF Compensate, CloseTarget, SourceResumed, ResumeAllowed, Shut, Has,
      Fault, Activation
<1>10. CASE FailCommittedActivation BY <1>10 DEF FailCommittedActivation, Shut
<1>11. CASE ResumeTarget BY <1>11 DEF ResumeTarget, Has, Fault
<1>12. CASE RetireSource BY <1>12 DEF RetireSource, Fault, Shut, Activation
<1>13. CASE PublisherCrashes BY <1>13 DEF PublisherCrashes, Fault
<1>14. CASE Prepare \/ RequireTarget \/ Commit \/ InspectMarker \/ ReconcileJobs \/
         SettleCommit \/ UNCHANGED publicationVars
  BY <1>14 DEF Prepare, Fault, AllAt, Activation, RequireTarget, PhaseFails,
             Commit, InspectMarker, ReconcileJobs, SettleCommit, publicationVars
<1> QED BY <1>1, <1>2, <1>3, <1>4, <1>5, <1>6, <1>7, <1>8, <1>9, <1>10, <1>11,
      <1>12, <1>13, <1>14 DEF PublicationNext

(* What is left shrinks from the front and starts over with the step.      *)
LEMMA NextWalk ==
  ASSUME WalkInv, [PublicationNext]_publicationVars
  PROVE  WalkInv'
<1> USE DEF WalkInv, durable, process, walk
<1>1. CASE Begin BY <1>1 DEF Begin, Has
<1>2. CASE DrainSource BY <1>2 DEF DrainSource, Shut, Fault, Activation, Has
<1>3. CASE FailBeforePublication
  BY <1>3 DEF FailBeforePublication, SourceResumed, ResumeAllowed, Shut, Fault,
      Has
<1>4. CASE DrainTarget BY <1>4 DEF DrainTarget, Shut, Fault, CloseTarget
<1>5. CASE Prepare BY <1>5 DEF Prepare, Fault, AllAt, Activation
<1>6. CASE Restore
  BY <1>6, SequenceFacts DEF Restore, Written, Failed, Refused, Fault
<1>7. CASE ResidualRestored
  BY <1>7 DEF ResidualRestored, Shut, Has, Fault, Activation
<1>8. CASE PublishDrainedRuntime
  BY <1>8 DEF PublishDrainedRuntime, Fault, PhaseFails, Activation
<1>9. CASE Publish
  BY <1>9, SequenceFacts DEF Publish, Written, Failed, Fault, PhaseFails,
      Activation
<1>10. CASE RequireTarget
  BY <1>10 DEF RequireTarget, AllAt, Fault, PhaseFails, Activation
<1>11. CASE Commit BY <1>11 DEF Commit, Fault
<1>12. CASE InspectMarker BY <1>12 DEF InspectMarker, Fault
<1>13. CASE Compensate
  BY <1>13 DEF Compensate, CloseTarget, SourceResumed, ResumeAllowed, Shut, Has,
      Fault, Activation
<1>14. CASE FailCommittedActivation BY <1>14 DEF FailCommittedActivation, Shut
<1>15. CASE ReconcileJobs BY <1>15 DEF ReconcileJobs, Activation, Fault
<1>16. CASE ResumeTarget BY <1>16 DEF ResumeTarget, Has, Fault
<1>17. CASE RetireSource BY <1>17 DEF RetireSource, Fault, Shut, Activation
<1>18. CASE PublisherCrashes BY <1>18 DEF PublisherCrashes, Fault
<1>19. CASE SettleCommit BY <1>19 DEF SettleCommit
<1>20. CASE UNCHANGED publicationVars BY <1>20 DEF publicationVars
<1> QED BY <1>1, <1>2, <1>3, <1>4, <1>5, <1>6, <1>7, <1>8, <1>9, <1>10, <1>11,
      <1>12, <1>13, <1>14, <1>15, <1>16, <1>17, <1>18, <1>19, <1>20 DEF PublicationNext

(* No step makes an instance of a side the operation does not have.        *)
LEMMA NextSides ==
  ASSUME ProcessOK, SidesInv, [PublicationNext]_publicationVars
  PROVE  SidesInv'
<1> USE DEF ProcessOK, SidesInv, Sides, Has, Activation, durable, process, walk
<1>1. CASE Begin BY <1>1 DEF Begin, Has
<1>2. CASE DrainSource BY <1>2 DEF DrainSource, Shut, Fault, Activation, Has
<1>3. CASE FailBeforePublication
  BY <1>3 DEF FailBeforePublication, SourceResumed, ResumeAllowed, Shut, Fault,
      Has
<1>4. CASE DrainTarget BY <1>4 DEF DrainTarget, Shut, Fault, CloseTarget
<1>5. CASE ResidualRestored
  BY <1>5 DEF ResidualRestored, Shut, Has, Fault, Activation
<1>6. CASE Compensate
  BY <1>6 DEF Compensate, CloseTarget, SourceResumed, ResumeAllowed, Shut, Has,
      Fault, Activation
<1>7. CASE FailCommittedActivation BY <1>7 DEF FailCommittedActivation, Shut
<1>8. CASE ResumeTarget BY <1>8 DEF ResumeTarget, Has, Fault
<1>9. CASE RetireSource BY <1>9 DEF RetireSource, Fault, Shut, Activation
<1>10. CASE PublisherCrashes BY <1>10 DEF PublisherCrashes, Fault
<1>11. CASE Prepare \/ Restore \/ PublishDrainedRuntime \/ Publish \/
         RequireTarget \/ Commit \/ InspectMarker \/ ReconcileJobs \/ SettleCommit \/
         UNCHANGED publicationVars
  BY <1>11 DEF Prepare, Fault, AllAt, Restore, Written, Failed, Refused,
             PublishDrainedRuntime, PhaseFails, Publish, RequireTarget, Commit,
             InspectMarker, ReconcileJobs, SettleCommit, publicationVars
<1> QED BY <1>1, <1>2, <1>3, <1>4, <1>5, <1>6, <1>7, <1>8, <1>9, <1>10,
      <1>11 DEF PublicationNext

(* The marker, or its transaction, is written over three targets only, and *)
(* from there no move leads back.                                          *)
LEMMA NextMarker ==
  ASSUME PublicationTypes, WalkInv, MarkerInv, DrainedInv, [PublicationNext]_publicationVars
  PROVE  MarkerInv'
<1> USE DEF PublicationTypes, MarkerInv, DrainedInv, AllAt, Parts, Sides, durable, process, walk
<1>1. CASE Begin BY <1>1 DEF Begin, Has
<1>2. CASE DrainSource BY <1>2 DEF DrainSource, Shut, Fault, Activation, Has
<1>3. CASE FailBeforePublication
  BY <1>3 DEF FailBeforePublication, SourceResumed, ResumeAllowed, Shut, Fault,
      Has
<1>4. CASE DrainTarget BY <1>4 DEF DrainTarget, Shut, Fault, CloseTarget
<1>5. CASE Prepare BY <1>5 DEF Prepare, Fault, AllAt, Activation
<1>6. CASE Restore
  BY <1>6, LeftFacts DEF Restore, Written, Failed, Refused, Fault, None, Marker
<1>7. CASE ResidualRestored
  BY <1>7 DEF ResidualRestored, Shut, Has, Fault, Activation
<1>8. CASE PublishDrainedRuntime
  BY <1>8 DEF PublishDrainedRuntime, Fault, PhaseFails, Activation
<1>9. CASE Publish
  BY <1>9, LeftFacts DEF Publish, Written, Failed, Fault, PhaseFails, Activation,
      None, Marker
<1>10. CASE RequireTarget
  BY <1>10 DEF RequireTarget, AllAt, Fault, PhaseFails, Activation
<1>11. CASE Commit BY <1>11 DEF Commit, Fault, None, Marker
<1>12. CASE InspectMarker BY <1>12 DEF InspectMarker, Fault
<1>13. CASE Compensate
  BY <1>13 DEF Compensate, CloseTarget, SourceResumed, ResumeAllowed, Shut, Has,
      Fault, Activation
<1>14. CASE FailCommittedActivation BY <1>14 DEF FailCommittedActivation, Shut
<1>15. CASE ReconcileJobs BY <1>15 DEF ReconcileJobs, Activation, Fault
<1>16. CASE ResumeTarget BY <1>16 DEF ResumeTarget, Has, Fault
<1>17. CASE RetireSource BY <1>17 DEF RetireSource, Fault, Shut, Activation
<1>18. CASE PublisherCrashes BY <1>18 DEF PublisherCrashes, Fault
<1>19. CASE SettleCommit BY <1>19 DEF SettleCommit, Pending, None, Marker
<1>20. CASE UNCHANGED publicationVars BY <1>20 DEF publicationVars
<1> QED BY <1>1, <1>2, <1>3, <1>4, <1>5, <1>6, <1>7, <1>8, <1>9, <1>10, <1>11,
      <1>12, <1>13, <1>14, <1>15, <1>16, <1>17, <1>18, <1>19, <1>20 DEF PublicationNext

(* Only the compensations, which end the attempt, open the source.         *)
LEMMA NextDrained ==
  ASSUME ProcessOK, DrainedInv, [PublicationNext]_publicationVars
  PROVE  DrainedInv'
<1> USE DEF ProcessOK, Sides, DrainedInv, durable, process, walk
<1>1. CASE Begin BY <1>1 DEF Begin, Has
<1>2. CASE DrainSource BY <1>2 DEF DrainSource, Shut, Fault, Activation, Has
<1>3. CASE FailBeforePublication
  BY <1>3 DEF FailBeforePublication, SourceResumed, ResumeAllowed, Shut, Fault,
      Has
<1>4. CASE DrainTarget BY <1>4 DEF DrainTarget, Shut, Fault, CloseTarget
<1>5. CASE Prepare BY <1>5 DEF Prepare, Fault, AllAt, Activation
<1>6. CASE Restore BY <1>6 DEF Restore, Written, Failed, Refused, Fault
<1>7. CASE ResidualRestored
  BY <1>7 DEF ResidualRestored, Shut, Has, Fault, Activation
<1>8. CASE PublishDrainedRuntime
  BY <1>8 DEF PublishDrainedRuntime, Fault, PhaseFails, Activation
<1>9. CASE Publish
  BY <1>9 DEF Publish, Written, Failed, Fault, PhaseFails, Activation
<1>10. CASE RequireTarget
  BY <1>10 DEF RequireTarget, AllAt, Fault, PhaseFails, Activation
<1>11. CASE Commit BY <1>11 DEF Commit, Fault
<1>12. CASE InspectMarker BY <1>12 DEF InspectMarker, Fault
<1>13. CASE Compensate
  BY <1>13 DEF Compensate, CloseTarget, SourceResumed, ResumeAllowed, Shut, Has,
      Fault, Activation
<1>14. CASE FailCommittedActivation BY <1>14 DEF FailCommittedActivation, Shut
<1>15. CASE ReconcileJobs BY <1>15 DEF ReconcileJobs, Activation, Fault
<1>16. CASE ResumeTarget BY <1>16 DEF ResumeTarget, Has, Fault
<1>17. CASE RetireSource BY <1>17 DEF RetireSource, Fault, Shut, Activation
<1>18. CASE PublisherCrashes BY <1>18 DEF PublisherCrashes, Fault
<1>19. CASE SettleCommit BY <1>19 DEF SettleCommit
<1>20. CASE UNCHANGED publicationVars BY <1>20 DEF publicationVars
<1> QED BY <1>1, <1>2, <1>3, <1>4, <1>5, <1>6, <1>7, <1>8, <1>9, <1>10, <1>11,
      <1>12, <1>13, <1>14, <1>15, <1>16, <1>17, <1>18, <1>19, <1>20 DEF PublicationNext

(* Only ResumeTarget opens the target, after everything it rests on.       *)
LEMMA NextTarget ==
  ASSUME PublicationTypes, WalkInv, SidesInv, MarkerInv, TargetInv, [PublicationNext]_publicationVars
  PROVE  TargetInv'
<1> USE DEF PublicationTypes, MarkerInv, TargetInv, TargetOpensOnlyCommitted, AllAt, Parts, Sides, durable, process, walk
<1>1. CASE Begin BY <1>1 DEF Begin, Has
<1>2. CASE DrainSource BY <1>2 DEF DrainSource, Shut, Fault, Activation, Has
<1>3. CASE FailBeforePublication
  BY <1>3 DEF FailBeforePublication, SourceResumed, ResumeAllowed, Shut, Fault,
      Has
<1>4. CASE DrainTarget BY <1>4 DEF DrainTarget, Shut, Fault, CloseTarget
<1>5. CASE Prepare BY <1>5 DEF Prepare, Fault, AllAt, Activation
<1>6. CASE Restore
  BY <1>6, LeftFacts DEF Restore, Written, Failed, Refused, Fault, None
<1>7. CASE ResidualRestored
  BY <1>7 DEF ResidualRestored, Shut, Has, Fault, Activation
<1>8. CASE PublishDrainedRuntime
  BY <1>8 DEF PublishDrainedRuntime, Fault, PhaseFails, Activation
<1>9. CASE Publish
  BY <1>9, SequenceFacts DEF Publish, Written, Failed, Fault, PhaseFails,
      Activation, WalkInv, None
<1>10. CASE RequireTarget
  BY <1>10 DEF RequireTarget, AllAt, Fault, PhaseFails, Activation
<1>11. CASE Commit BY <1>11 DEF Commit, Fault
<1>12. CASE InspectMarker BY <1>12 DEF InspectMarker, Fault
<1>13. CASE Compensate
  BY <1>13 DEF Compensate, CloseTarget, SourceResumed, ResumeAllowed, Shut, Has,
      Fault, Activation
<1>14. CASE FailCommittedActivation BY <1>14 DEF FailCommittedActivation, Shut
<1>15. CASE ReconcileJobs BY <1>15 DEF ReconcileJobs, Activation, Fault
<1>16. CASE ResumeTarget BY <1>16 DEF ResumeTarget, Has, Fault
<1>17. CASE RetireSource
  BY <1>17 DEF RetireSource, Fault, Shut, Activation, SidesInv, Has
<1>18. CASE PublisherCrashes BY <1>18 DEF PublisherCrashes, Fault
<1>19. CASE SettleCommit BY <1>19 DEF SettleCommit, Pending, None, Marker
<1>20. CASE UNCHANGED publicationVars BY <1>20 DEF publicationVars
<1> QED BY <1>1, <1>2, <1>3, <1>4, <1>5, <1>6, <1>7, <1>8, <1>9, <1>10, <1>11,
      <1>12, <1>13, <1>14, <1>15, <1>16, <1>17, <1>18, <1>19, <1>20 DEF PublicationNext

(* A restore without a failure puts its part back and leaves none pending. *)
LEMMA NextRestore ==
  ASSUME PublicationTypes, WalkInv, RestoreInv, [PublicationNext]_publicationVars
  PROVE  RestoreInv'
<1> USE DEF PublicationTypes, RestoreInv, Parts, Sides, durable, process, walk
<1>1. CASE Begin BY <1>1 DEF Begin, Has
<1>2. CASE DrainSource BY <1>2 DEF DrainSource, Shut, Fault, Activation, Has
<1>3. CASE FailBeforePublication
  BY <1>3 DEF FailBeforePublication, SourceResumed, ResumeAllowed, Shut, Fault,
      Has
<1>4. CASE DrainTarget BY <1>4 DEF DrainTarget, Shut, Fault, CloseTarget
<1>5. CASE Prepare BY <1>5 DEF Prepare, Fault, AllAt, Activation
<1>6. CASE Restore
  BY <1>6, SequenceFacts DEF Restore, Written, Failed, Refused, Fault, WalkInv,
      None
<1>7. CASE ResidualRestored
  BY <1>7 DEF ResidualRestored, Shut, Has, Fault, Activation
<1>8. CASE PublishDrainedRuntime
  BY <1>8 DEF PublishDrainedRuntime, Fault, PhaseFails, Activation
<1>9. CASE Publish
  BY <1>9 DEF Publish, Written, Failed, Fault, PhaseFails, Activation
<1>10. CASE RequireTarget
  BY <1>10 DEF RequireTarget, AllAt, Fault, PhaseFails, Activation
<1>11. CASE Commit BY <1>11 DEF Commit, Fault
<1>12. CASE InspectMarker BY <1>12 DEF InspectMarker, Fault
<1>13. CASE Compensate
  BY <1>13 DEF Compensate, CloseTarget, SourceResumed, ResumeAllowed, Shut, Has,
      Fault, Activation
<1>14. CASE FailCommittedActivation BY <1>14 DEF FailCommittedActivation, Shut
<1>15. CASE ReconcileJobs BY <1>15 DEF ReconcileJobs, Activation, Fault
<1>16. CASE ResumeTarget BY <1>16 DEF ResumeTarget, Has, Fault
<1>17. CASE RetireSource BY <1>17 DEF RetireSource, Fault, Shut, Activation
<1>18. CASE PublisherCrashes BY <1>18 DEF PublisherCrashes, Fault
<1>19. CASE SettleCommit BY <1>19 DEF SettleCommit
<1>20. CASE UNCHANGED publicationVars BY <1>20 DEF publicationVars
<1> QED BY <1>1, <1>2, <1>3, <1>4, <1>5, <1>6, <1>7, <1>8, <1>9, <1>10, <1>11,
      <1>12, <1>13, <1>14, <1>15, <1>16, <1>17, <1>18, <1>19, <1>20 DEF PublicationNext

(* In an upgrade the pointer returns to the source only after every restore*)
(* has succeeded, so what reopens it finds everything at the source.       *)
LEMMA NextSource ==
  ASSUME PublicationTypes, WalkInv, SidesInv, MarkerInv, DrainedInv, RestoreInv, SourceInv, [PublicationNext]_publicationVars
  PROVE  SourceInv'
<1> USE DEF PublicationTypes, SourceInv, Parts, Sides, AllAt, durable, process, walk
<1>1. CASE Begin BY <1>1 DEF Begin, Has
<1>2. CASE DrainSource BY <1>2 DEF DrainSource, Shut, Fault, Activation, Has
<1>3. CASE FailBeforePublication
  BY <1>3 DEF FailBeforePublication, SourceResumed, ResumeAllowed, Shut, Fault,
      Has
<1>4. CASE DrainTarget BY <1>4 DEF DrainTarget, Shut, Fault, CloseTarget
<1>5. CASE Prepare BY <1>5 DEF Prepare, Fault, AllAt, Activation
<1>6. CASE Restore
  BY <1>6, LeftFacts DEF Restore, Written, Failed, Refused, Fault, None
<1>7. CASE ResidualRestored
  BY <1>7, SequenceFacts DEF ResidualRestored, Shut, Has, Fault, Activation,
      RestoreInv, None
<1>8. CASE PublishDrainedRuntime
  BY <1>8 DEF PublishDrainedRuntime, Fault, PhaseFails, Activation
<1>9. CASE Publish
  BY <1>9, LeftFacts DEF Publish, Written, Failed, Fault, PhaseFails, Activation,
      None
<1>10. CASE RequireTarget
  BY <1>10 DEF RequireTarget, AllAt, Fault, PhaseFails, Activation
<1>11. CASE Commit BY <1>11 DEF Commit, Fault, MarkerInv, None, Marker
<1>12. CASE InspectMarker BY <1>12 DEF InspectMarker, Fault
<1>13. CASE Compensate
  BY <1>13, SequenceFacts DEF Compensate, CloseTarget, SourceResumed,
      ResumeAllowed, Shut, Has, Fault, Activation, RestoreInv, None
<1>14. CASE FailCommittedActivation BY <1>14 DEF FailCommittedActivation, Shut
<1>15. CASE ReconcileJobs BY <1>15 DEF ReconcileJobs, Activation, Fault
<1>16. CASE ResumeTarget BY <1>16 DEF ResumeTarget, Has, Fault
<1>17. CASE RetireSource BY <1>17 DEF RetireSource, Fault, Shut, Activation
<1>18. CASE PublisherCrashes BY <1>18 DEF PublisherCrashes, Fault
<1>19. CASE SettleCommit BY <1>19 DEF SettleCommit, Pending, None, Marker
<1>20. CASE UNCHANGED publicationVars BY <1>20 DEF publicationVars
<1> QED BY <1>1, <1>2, <1>3, <1>4, <1>5, <1>6, <1>7, <1>8, <1>9, <1>10, <1>11,
      <1>12, <1>13, <1>14, <1>15, <1>16, <1>17, <1>18, <1>19, <1>20 DEF PublicationNext

LEMMA TypeParts == PublicationTypes <=> FlagsOK /\ StepsOK /\ DurableOK /\ ProcessOK
BY DEF PublicationTypes, FlagsOK, StepsOK, DurableOK, ProcessOK

LEMMA InitInv == PublicationInit => PublicationInv
<1> SUFFICES ASSUME PublicationInit PROVE PublicationInv OBVIOUS
<1> USE DEF PublicationInit
<1>1. FlagsOK BY DEF FlagsOK
<1>2. StepsOK BY PublicationAssumption DEF StepsOK, Steps
<1>3. DurableOK BY DEF DurableOK, Pending, None, Sides
<1>4. ProcessOK BY DEF ProcessOK, Sides
<1>5. WalkInv BY DEF WalkInv
<1>6. SidesInv BY DEF SidesInv, Sides, Has, Activation
<1>7. MarkerInv BY DEF MarkerInv, None, Marker
<1>8. DrainedInv BY DEF DrainedInv
<1>9. TargetInv BY DEF TargetInv, TargetOpensOnlyCommitted
<1>10. RestoreInv BY DEF RestoreInv
<1>11. SourceInv BY DEF SourceInv, Has, AllAt, None
<1> QED BY <1>1, <1>2, <1>3, <1>4, <1>5, <1>6, <1>7, <1>8, <1>9, <1>10, <1>11,
      TypeParts DEF PublicationInv

LEMMA NextInv == PublicationInv /\ [PublicationNext]_publicationVars => PublicationInv'
<1> SUFFICES ASSUME PublicationInv, [PublicationNext]_publicationVars PROVE PublicationInv' OBVIOUS
<1>1. PublicationTypes'
  <2>1. FlagsOK /\ StepsOK /\ DurableOK /\ ProcessOK /\ WalkInv
    BY TypeParts DEF PublicationInv
  <2>2. FlagsOK' BY <2>1, NextFlags
  <2>3. StepsOK' BY <2>1, NextSteps
  <2>4. DurableOK' BY <2>1, NextDurable
  <2>5. ProcessOK' BY <2>1, NextProcess
  <2> QED BY <2>2, <2>3, <2>4, <2>5 DEF PublicationTypes, FlagsOK, StepsOK, DurableOK,
        ProcessOK
<1>2. ProcessOK BY TypeParts DEF PublicationInv
<1>3. WalkInv' BY NextWalk DEF PublicationInv
<1>4. SidesInv' BY <1>2, NextSides DEF PublicationInv
<1>5. MarkerInv' BY NextMarker DEF PublicationInv
<1>6. DrainedInv' BY <1>2, NextDrained DEF PublicationInv
<1>7. TargetInv' BY NextTarget DEF PublicationInv
<1>8. RestoreInv' BY NextRestore DEF PublicationInv
<1>9. SourceInv' BY NextSource DEF PublicationInv
<1> QED BY <1>1, <1>3, <1>4, <1>5, <1>6, <1>7, <1>8, <1>9 DEF PublicationInv

LEMMA Inductive == PublicationSpec => []PublicationInv
BY InitInv, NextInv, PTL DEF PublicationSpec

(* Whatever fails and however often: the publication's transactions, its   *)
(* marker and the process it runs in keep their shape.                     *)
THEOREM PublicationTyped == PublicationSpec => []PublicationTypes
<1>1. PublicationInv => PublicationTypes BY DEF PublicationInv
<1> QED BY <1>1, Inductive, PTL

(* The commit marker decides (commitPublication): once it stands, all three*)
(* transactions are at the target and the source is closed, for any number *)
(* of failures, lost commits and crashes.                                  *)
THEOREM MarkerDecidesAlways == PublicationSpec => []MarkerDecides
<1>1. PublicationInv => MarkerDecides
  BY DEF PublicationInv, MarkerInv, MarkerDecides, AllAt
<1> QED BY <1>1, Inductive, PTL

(* ResumeLifecycleJobs opens the target over a committed, reconciled and   *)
(* fully published operation only.                                         *)
THEOREM TargetOpensCommitted == PublicationSpec => []TargetOpensOnlyCommitted
<1>1. PublicationInv => TargetOpensOnlyCommitted
  BY DEF PublicationInv, TargetInv
<1> QED BY <1>1, Inductive, PTL

(* An upgrade or a rollback that failed reopens its source only when every *)
(* restore has succeeded (failActivation, failBeforePublication).          *)
THEOREM ActivationReopens == PublicationSpec => []ActivationReopensRestored
<1>1. PublicationInv => ActivationReopensRestored
  <2> SUFFICES ASSUME PublicationInv, Activation, gate["source"] = "open"
               PROVE  AllAt("source") /\ local = "source"
    BY DEF ActivationReopensRestored, SourceOpensOnlyRestored
  <2>1. mode = "upgrade"
    <3>1. mode \in {"install", "upgrade", "disable"}
      BY PublicationAssumption DEF PublicationInv, PublicationTypes
    <3>2. mode # "install" BY DEF PublicationInv, SidesInv, Has, Sides
    <3> QED BY <3>1, <3>2 DEF Activation
  <2> QED BY <2>1 DEF PublicationInv, SourceInv
<1> QED BY <1>1, Inductive, PTL
=============================================================================
