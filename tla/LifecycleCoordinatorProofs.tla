--------------------- MODULE LifecycleCoordinatorProofs ---------------------
(* What the runs of MCLifecycleCoordinator show for one or two processes   *)
(* on two of the paths, proved for any number of processes on every path,  *)
(* with any number of crashes, late leases and retries.                    *)
EXTENDS LifecycleCoordinator, LifecycleMachineProofs, FiniteSetTheorems

(* A process is told from the absence of one.                              *)
CoordinatorConstants == Nobody \notin Coordinators /\ Gone \notin Coordinators

MachineType ==
    [operation : {Operation}, state : MachineStates, action : GateActions, position : Positions,
     complete : BOOLEAN, terminal : {NoTerminal, "failed", "succeeded"}, forced : BOOLEAN,
     recovery : Positions, marker : Positions \cup {NoMarker}, sideEffects : BOOLEAN,
     units : Int, total : {Last}]

(* What counts of a request; its gate is the state machine's to judge.     *)
IsRequest(t) ==
    /\ {t.complete, t.retry, t.skip, t.escalate} \subseteq BOOLEAN
    /\ t.terminal \in {NoTerminal, "failed", "succeeded"} /\ t.units \in Int

(* A machine that some coordinator may hold when the gates of done have    *)
(* been executed or skipped.                                               *)
Legal(m, done) ==
    /\ m \in MachineType
    /\ m.recovery <= m.position /\ m.marker <= m.position
    /\ m.terminal = "succeeded" => m.position = Last /\ m.complete
    /\ \A p \in Positions : Passed(m, p) => p \in done

-----------------------------------------------------------------------------
(* Paths.                                                                  *)
WellPath(path) == Len(path) \in Nat \ {0} /\ DOMAIN path = 1..Len(path) /\ \A i \in 1..Len(path) : path[i].state \in GateStates

(* Gates of a path are gates, and a path has one.                         *)
LEMMA PathFacts ==
  /\ Last \in Nat /\ NoAction \in GateActions
  /\ \A p \in Positions : GateAt(Operation, p).state \in GateStates /\ GateAt(Operation, p).action \in GateActions
<1> USE DEF lifecycleRecommendedPaths, GateStates, WellPath, Gate, HostGate, PluginGate
<1>1. WellPath(lifecycleRecommendedPaths["install"])
  OBVIOUS
<1>2. WellPath(lifecycleRecommendedPaths["enable"])
  OBVIOUS
<1>3. WellPath(lifecycleRecommendedPaths["disable"])
  OBVIOUS
<1>4. WellPath(lifecycleRecommendedPaths["upgrade"])
  OBVIOUS
<1>5. WellPath(lifecycleRecommendedPaths["rollback"])
  OBVIOUS
<1>6. WellPath(lifecycleRecommendedPaths["uninstall"])
  OBVIOUS
<1>7. Operations = {"install", "enable", "disable", "upgrade", "rollback", "uninstall"}
  BY DEF Operations
<1>8. /\ "disable" \in Operations /\ 1 \in DOMAIN lifecycleRecommendedPaths["disable"]
      /\ lifecycleRecommendedPaths["disable"][1].action = NoAction
  BY DEF Operations
<1> HIDE DEF lifecycleRecommendedPaths, GateStates, WellPath, Gate, HostGate, PluginGate
<1>9. WellPath(lifecycleRecommendedPaths[Operation])
  BY <1>1, <1>2, <1>3, <1>4, <1>5, <1>6, <1>7, OperationAssumption
<1>10. Last \in Nat
  BY <1>9 DEF WellPath, Last, LastPosition
<1>11. ASSUME NEW q \in Operations, NEW i \in DOMAIN lifecycleRecommendedPaths[q]
       PROVE  lifecycleRecommendedPaths[q][i].action \in GateActions
  BY DEF GateActions
<1>12. NoAction \in GateActions
  BY <1>8, <1>11
<1>13. ASSUME NEW p \in Positions
      PROVE  GateAt(Operation, p).state \in GateStates /\ GateAt(Operation, p).action \in GateActions
  <2>1. p + 1 \in 1..Len(lifecycleRecommendedPaths[Operation])
    BY <1>9, <1>10 DEF WellPath, Positions, Last, LastPosition
  <2>2. QED
    BY <1>9, <1>11, <2>1, OperationAssumption DEF WellPath, GateAt
<1>14. QED
  BY <1>10, <1>12, <1>13

(* The requests of the coordinator.                                        *)
LEMMA RequestFacts ==
  ASSUME NEW m \in MachineType, NEW escalate \in BOOLEAN
  PROVE  /\ IsRequest(CompleteGate(m)) /\ ~CompleteGate(m).skip
         /\ IsRequest(FailGate(m)) /\ ~FailGate(m).skip /\ ~FailGate(m).complete
         /\ FailGate(m).terminal = "failed"
         /\ IsRequest(Succeed(m)) /\ ~Succeed(m).skip /\ ~Succeed(m).complete
         /\ Succeed(m).terminal = "succeeded"
         /\ IsRequest(StayAtGate(m)) /\ ~StayAtGate(m).skip /\ ~StayAtGate(m).complete
         /\ IsRequest(NextGate(m)) /\ ~NextGate(m).skip /\ ~NextGate(m).complete
         /\ IsRequest(RetryFailed(m, escalate)) /\ ~RetryFailed(m, escalate).skip
         /\ ~RetryFailed(m, escalate).complete /\ RetryFailed(m, escalate).retry
         /\ IsRequest(Reenter(m)) /\ ~Reenter(m).skip /\ ~Reenter(m).complete
         /\ IsRequest(SkipFailed(m)) /\ ~SkipFailed(m).complete
<1>1. m.units \in Int /\ m.position \in Int /\ m.recovery \in Int
  BY PathFacts DEF MachineType, Positions
<1>2. QED
  BY <1>1 DEF IsRequest, Request, CompleteGate, FailGate, Succeed, StayAtGate, NextGate,
       RetryFailed, Reenter, SkipFailed

(* What the state machine makes of a legal machine is legal: a gate counts *)
(* as passed only if the request completes or skips it, and the machine    *)
(* moves on only from a complete gate.                                     *)
LEMMA ApplyLegal ==
  ASSUME NEW m, NEW t, NEW done, IsRequest(t),
         Legal(m, done), ValidateLifecycleTransition(m, t),
         t.complete => m.position \in done,
         t.skip => m.recovery \in done
  PROVE  /\ Legal(ApplyLifecycleTransition(m, t), done)
         /\ ApplyLifecycleTransition(m, t).position >= m.position
         /\ SameGate(m, t) \/ t.retry \/ t.terminal # NoTerminal
              => ApplyLifecycleTransition(m, t).position = m.position
         /\ ApplyLifecycleTransition(m, t).marker = m.marker
         /\ t.terminal # NoTerminal => ApplyLifecycleTransition(m, t).terminal = t.terminal
<1> DEFINE n == [m EXCEPT !.units = t.units, !.forced = @ \/ t.escalate]
           k == ApplyLifecycleTransition(m, t)
<1> USE DEF FailureTerminals
<1>0. NoTerminal \notin {"failed", "cancelled", "succeeded"}
  BY DEF NoTerminal
<1>1. m \in MachineType /\ Last \in Nat /\ m.operation = Operation /\ m.position \in Positions
      /\ m.recovery \in Positions
  BY PathFacts DEF Legal, MachineType
<1>2. /\ n \in MachineType /\ n.position = m.position /\ n.recovery = m.recovery
      /\ n.marker = m.marker /\ n.complete = m.complete /\ n.terminal = m.terminal
      /\ n.operation = Operation
  BY <1>1 DEF MachineType, IsRequest
<1>3. m.state \in {"recovery", "failed"} => m.recovery = m.position
  BY <1>1, PathFacts DEF ValidateLifecycleTransition, validateLifecycleMachine, GateStates, Positions
<1>4. /\ {"failed", "recovery"} \subseteq MachineStates /\ GateStates \subseteq MachineStates
      /\ NoAction \in GateActions
  BY PathFacts DEF MachineStates
<1>5. /\ t.skip \in BOOLEAN /\ t.complete \in BOOLEAN
      /\ t.terminal \in {NoTerminal, "failed", "succeeded"}
  BY DEF IsRequest
<1>6. CASE m.terminal # NoTerminal
  <2>1. k = Retried(n)
    BY <1>0, <1>6 DEF ApplyLifecycleTransition
  <2> HIDE DEF n, k
  <2>2. /\ k \in MachineType /\ k.position = m.position /\ k.recovery = m.recovery
        /\ k.marker = m.marker /\ ~k.complete /\ k.terminal = NoTerminal
    BY <1>0, <1>2, <1>4, <2>1 DEF Retried, MachineType
  <2>3. t.terminal = NoTerminal
    BY <1>0, <1>6 DEF ValidateLifecycleTransition, validateLifecycleRetry
  <2>4. Legal(k, done)
    BY <1>0, <1>1, <2>2 DEF Legal, Passed, Positions
  <2>5. k.position >= m.position
    BY <1>0, <1>1, <2>2 DEF Positions
  <2>6. QED
    BY <2>2, <2>3, <2>4, <2>5 DEF k
<1>7. CASE m.terminal = NoTerminal /\ m.state = "recovery"
  <2>1. k = Reentered(n, t)
    BY <1>0, <1>7 DEF ApplyLifecycleTransition
  <2>2. /\ t.terminal = NoTerminal
        /\ t.state = GateAt(Operation, m.recovery).state /\ t.action = GateAt(Operation, m.recovery).action
    BY <1>0, <1>1, <1>7 DEF ValidateLifecycleTransition, validateLifecycleRecovery
  <2> HIDE DEF n, k
  <2>3. /\ k \in MachineType /\ k.position = m.recovery /\ k.recovery = m.recovery
        /\ k.marker = m.marker /\ k.complete = t.skip /\ k.terminal = NoTerminal
    BY <1>0, <1>1, <1>2, <1>4, <1>5, <1>7, <2>1, <2>2, PathFacts DEF Reentered, MachineType
  <2>4. QED
    BY <1>0, <1>1, <1>3, <1>7, <2>2, <2>3 DEF Legal, Passed, Positions, k
<1>8. CASE m.terminal = NoTerminal /\ m.state # "recovery" /\ t.terminal # NoTerminal
  <2>1. k = Closed(n, t)
    BY <1>0, <1>8 DEF ApplyLifecycleTransition
  <2>2. validateLifecycleTerminal(m, t) /\ t.terminal \in {"failed", "succeeded"}
    BY <1>0, <1>5, <1>8 DEF ValidateLifecycleTransition
  <2> HIDE DEF n, k
  <2>3. /\ k \in MachineType /\ k.position = m.position /\ k.recovery \in {m.recovery, m.position}
        /\ k.marker = m.marker /\ (k.complete => m.complete) /\ k.terminal = t.terminal
        /\ t.terminal = "succeeded" => k.complete = m.complete
    BY <1>0, <1>1, <1>2, <1>4, <2>1, <2>2 DEF Closed, MachineType
  <2>4. t.terminal = "succeeded" => m.position = Last /\ m.complete
    BY <1>0, <1>1, <2>2 DEF validateLifecycleTerminal, Last
  <2>5. QED
    BY <1>0, <1>1, <2>2, <2>3, <2>4 DEF Legal, Passed, Positions, k
<1>9. CASE m.terminal = NoTerminal /\ m.state # "recovery" /\ t.terminal = NoTerminal /\ SameGate(m, t)
  <2>1. k = [n EXCEPT !.complete = t.complete]
    BY <1>0, <1>9 DEF ApplyLifecycleTransition
  <2> HIDE DEF n, k
  <2>2. /\ k \in MachineType /\ k.position = m.position /\ k.recovery = m.recovery
        /\ k.marker = m.marker /\ k.complete = t.complete /\ k.terminal = NoTerminal
    BY <1>0, <1>2, <1>5, <1>9, <2>1 DEF MachineType
  <2>3. Legal(k, done)
    BY <1>0, <1>1, <1>9, <2>2 DEF Legal, Passed, Positions
  <2>4. QED
    BY <1>0, <1>1, <1>9, <2>2, <2>3 DEF Positions, k
<1>10. CASE m.terminal = NoTerminal /\ m.state # "recovery" /\ t.terminal = NoTerminal /\ ~SameGate(m, t)
  <2>1. k = Advanced(n, t)
    BY <1>0, <1>10 DEF ApplyLifecycleTransition
  <2>2. m.complete /\ m.position < Last
    BY <1>0, <1>1, <1>10 DEF ValidateLifecycleTransition, MayAdvance, Last
  <2> HIDE DEF n, k
  <2>3. /\ m.position + 1 \in Positions /\ t.state \in GateStates /\ t.action \in GateActions
    <3>1. m.position + 1 \in Positions
      BY <1>1, <2>2 DEF Positions
    <3>2. /\ t.state = GateAt(Operation, m.position + 1).state
          /\ t.action = GateAt(Operation, m.position + 1).action
      BY <1>0, <1>1, <1>10 DEF ValidateLifecycleTransition, MayAdvance
    <3>3. QED
      BY <3>1, <3>2, PathFacts
  <2>4. /\ k \in MachineType /\ k.position = m.position + 1 /\ k.recovery = m.recovery
        /\ k.marker = m.marker /\ ~k.complete /\ k.terminal = NoTerminal
    BY <1>0, <1>1, <1>2, <1>4, <1>10, <2>1, <2>3 DEF Advanced, MachineType
  <2>5. m.marker \in Positions \cup {NoMarker}
    BY <1>0, <1>1 DEF MachineType
  <2>6. Legal(k, done)
    BY <1>0, <1>1, <1>10, <2>2, <2>4, <2>5 DEF Legal, Passed, Positions, NoMarker
  <2>7. ~SameGate(m, t) /\ ~t.retry /\ t.terminal = NoTerminal
    BY <1>10 DEF ValidateLifecycleTransition
  <2>8. k.position >= m.position /\ k.marker = m.marker
    BY <1>1, <2>4 DEF Positions
  <2>9. QED
    BY <2>6, <2>7, <2>8 DEF k
<1>11. QED
  BY <1>0, <1>6, <1>7, <1>8, <1>9, <1>10
-----------------------------------------------------------------------------
Pcs ==
    {"idle", "init", "repair", "loadRead", "closeRow", "resume", "recover", "replay",
     "succeed", "advance", "gatePersist", "failPersist", "failClose", "claimRead", "begin",
     "claim", "exec", "revalRead", "revalBegin", "revalClaim", "revalRun", "revalDone",
     "revalPersist", "revalFail", "revalFailDone", "replayRelease", "dropClaim", "stepDone",
     "stepFail", "progress", "close", "resumePersist", "skipBegin", "skipClaim", "skipDone",
     "skipPersist", "retryBegin", "retryPersist"}
Outcomes == {NoTerminal, "failed", "cancelled", "succeeded"}
Decisions == {NoDecision, "retry", "skip_step"}
RunType ==
    [pc : Pcs, m : MachineType, fresh : BOOLEAN, done : BOOLEAN, terminal : Outcomes,
     decision : Decisions, req : [retry : BOOLEAN, skip : BOOLEAN, escalate : BOOLEAN],
     revalidate : BOOLEAN, inRun : BOOLEAN]
RowType ==
    [exists : BOOLEAN, state : MachineStates, snap : MachineType, stored : BOOLEAN,
     done : BOOLEAN, terminal : Outcomes, forced : BOOLEAN, attempts : Nat,
     decision : Decisions, idle : BOOLEAN]
AttemptType ==
    [status : OpenStatuses \cup ClosedStatuses \cup {"none"},
     owner : Coordinators \cup {Nobody, Gone}, live : BOOLEAN,
     begun : SUBSET Coordinators, seen : SUBSET Coordinators]
LedgerType == [Positions -> AttemptType]

CoordinatorTypes ==
    /\ CoordinatorConstants
    /\ op \in RowType /\ steps \in LedgerType /\ run \in [Coordinators -> RunType]
    /\ everDone \subseteq Positions

(* Where an invocation has just read or written the row, and so holds the  *)
(* row's own machine as long as its copy is current.                       *)
Synced == {"loadRead", "closeRow", "failClose", "close"}

(* Where an invocation runs a marked gate again.                           *)
Revalidating ==
    {"revalRead", "revalBegin", "revalClaim", "revalRun", "revalDone", "revalPersist",
     "revalFail", "revalFailDone"}

(* What an invocation r may rely on.  Stale ones are behind the row, a     *)
(* current one is where the row is.                                        *)
RunOK(r, row, done) ==
    /\ Legal(r.m, done)
    /\ r.m.position <= row.snap.position
    /\ r.fresh => row.exists /\ r.m.position = row.snap.position
    /\ r.fresh /\ r.pc \in Synced => r.m = row.snap
    /\ r.pc = "gatePersist" => r.m.position \in done
    /\ r.pc = "skipPersist" => r.m.recovery \in done
    /\ r.pc = "failClose" => r.m.terminal = "failed"
    /\ r.pc = "close" => r.m.terminal = "succeeded"
    /\ r.pc = "init" => r.m.position = 0
    /\ r.pc \in Revalidating => r.m.marker \notin {NoMarker, r.m.position}

LedgerOK(st, snap, done) ==
    \A p \in Positions :
        /\ st[p].status \in {"succeeded", "skipped"} => p \in done
        /\ p > snap.position => st[p].status = "none"

(* A row closes with the outcome of its machine, or is cancelled, and is   *)
(* at the first gate until a machine is stored.                            *)
RowOK(row, done) ==
    /\ ~row.exists => ~row.stored
    /\ ~row.stored => row.snap.position = 0
    /\ row.done => /\ row.terminal = row.snap.terminal \/ row.terminal = "cancelled"
                   /\ row.terminal = "succeeded" => Positions \subseteq done

SafetyInv ==
    /\ CoordinatorTypes
    /\ Legal(op.snap, everDone)
    /\ \A c \in Coordinators : RunOK(run[c], op, everDone)
    /\ LedgerOK(steps, op.snap, everDone)
    /\ RowOK(op, everDone)

(* What a step may do to an accepted operation: finish a gate the row has  *)
(* reached while it is open, close it, or reopen what did not succeed; and *)
(* the row's machine never goes back.                                      *)
SameOutcome == op'.done = op.done /\ op'.terminal = op.terminal
FinishesGate == ~op.done /\ \E p \in 0..op.snap.position : everDone' = everDone \cup {p}
OneMove ==
    op.exists =>
        /\ op'.exists
        /\ \/ SameOutcome /\ (everDone' = everDone \/ FinishesGate)
           \/ ~op.done /\ op'.done /\ everDone' = everDone
           \/ op.done /\ op.terminal # "succeeded" /\ ~op'.done /\ everDone' = everDone

(* The rows that a writer may leave.                                       *)
MayBecome(row) ==
    \/ ~op.exists
    \/ row.done = op.done /\ row.terminal = op.terminal
    \/ ~op.done /\ row.done
    \/ op.done /\ op.terminal # "succeeded" /\ ~row.done

SafeStep == SafetyInv' /\ op'.snap.position >= op.snap.position /\ OneMove

(* More gates executed make no machine illegal.                            *)
LEMMA LegalGrows ==
  ASSUME NEW m, NEW less, NEW more, less \subseteq more, Legal(m, less)
  PROVE  Legal(m, more)
BY DEF Legal

(* A machine at the start of the path is legal.                            *)
LEMMA FirstFacts ==
  ASSUME NEW forced \in BOOLEAN, NEW done
  PROVE  /\ FirstMachine(forced) \in MachineType /\ FirstMachine(forced).position = 0
         /\ FirstMachine(forced).terminal = NoTerminal /\ ~FirstMachine(forced).complete
         /\ Legal(FirstMachine(forced), done)
<1> DEFINE k == FirstMachine(forced)
<1>1. Last \in Nat /\ 0 \in Positions /\ GateStates \subseteq MachineStates
  BY PathFacts DEF Positions, MachineStates
<1>2. GateAt(Operation, 0).state \in MachineStates /\ GateAt(Operation, 0).action \in GateActions
  BY <1>1, PathFacts
<1> DEFINE n == NewLifecycleStateMachine(Operation, forced)
<1>3. /\ n \in [operation : {Operation}, state : MachineStates, action : GateActions,
                position : Positions, complete : BOOLEAN,
                terminal : {NoTerminal, "failed", "succeeded"}, forced : BOOLEAN,
                recovery : Positions, marker : Positions \cup {NoMarker}, sideEffects : BOOLEAN,
                units : Int, total : Int]
      /\ n.position = 0 /\ n.terminal = NoTerminal /\ ~n.complete /\ n.recovery = 0 /\ n.marker = -1
  BY <1>1, <1>2 DEF NewLifecycleStateMachine, NoMarker
<1> HIDE DEF n
<1>4. /\ k \in MachineType /\ k.position = 0 /\ k.terminal = NoTerminal /\ ~k.complete
      /\ k.recovery = 0 /\ k.marker = -1
  BY <1>3 DEF FirstMachine, MachineType, n
<1> HIDE DEF k
<1>5. NoTerminal # "succeeded"
  BY DEF NoTerminal
<1>6. Legal(k, done)
  BY <1>1, <1>4, <1>5 DEF Legal, Passed, Positions
<1>7. QED
  BY <1>4, <1>6 DEF k

(* An invocation that is over relies on nothing.                           *)
LEMMA IdleFacts ==
  ASSUME NEW row \in RowType, NEW done
  PROVE  NotRunning \in RunType /\ NotRunning.pc = "idle" /\ ~NotRunning.fresh
         /\ RunOK(NotRunning, row, done)
<1>1. "idle" \in Pcs
  BY DEF Pcs
<1>2. FirstMachine(FALSE) \in MachineType /\ FirstMachine(FALSE).position = 0 /\ Legal(FirstMachine(FALSE), done)
  BY FirstFacts
<1>3. NoRequest \in [retry : BOOLEAN, skip : BOOLEAN, escalate : BOOLEAN]
  BY DEF NoRequest
<1>4. NotRunning \in RunType /\ NotRunning.pc = "idle" /\ ~NotRunning.fresh /\ NotRunning.m = FirstMachine(FALSE)
  BY <1>1, <1>2, <1>3 DEF NotRunning, RunType, Outcomes, Decisions
<1>5. 0 <= row.snap.position
  BY PathFacts DEF RowType, MachineType, Positions
<1>6. QED
  BY <1>2, <1>4, <1>5 DEF RunOK, Synced, Revalidating

(* The end of an invocation leaves the status of every attempt.            *)
LEMMA AbandonedFacts ==
  ASSUME NEW st \in AttemptType, NEW c \in Coordinators
  PROVE  /\ Abandoned(st, c) \in AttemptType /\ Abandoned(st, c).status = st.status
         /\ Abandoned(st, c).live = st.live
         /\ st.owner # c => Abandoned(st, c).owner = st.owner
BY DEF AttemptType, Abandoned

(* The same for all attempts at once.                                      *)
LEMMA AbandonedLedger ==
  ASSUME NEW st \in LedgerType, NEW c \in Coordinators
  PROVE  /\ [p \in Positions |-> Abandoned(st[p], c)] \in LedgerType
         /\ \A p \in Positions : Abandoned(st[p], c).status = st[p].status
<1>1. \A p \in Positions : Abandoned(st[p], c) \in AttemptType /\ Abandoned(st[p], c).status = st[p].status
  <2> SUFFICES ASSUME NEW p \in Positions
               PROVE  Abandoned(st[p], c) \in AttemptType /\ Abandoned(st[p], c).status = st[p].status
    OBVIOUS
  <2> DEFINE a == st[p]
  <2>1. a \in AttemptType
    BY DEF LedgerType
  <2> HIDE DEF a
  <2>2. Abandoned(a, c) \in AttemptType /\ Abandoned(a, c).status = a.status
    BY <2>1, AbandonedFacts
  <2>3. QED
    BY <2>2 DEF a
<1>2. QED
  BY <1>1 DEF LedgerType

(* What a step of one invocation has to show that leaves the row alone:    *)
(* that r may continue, and that the ledger is right.                      *)
LEMMA SettleKeeps ==
  ASSUME SafetyInv, NEW c \in Coordinators, NEW r \in RunType, NEW st \in LedgerType,
         Settle(c, r, st), op' = op,
         everDone' = everDone \/ FinishesGate,
         RunOK(r, op, everDone'), LedgerOK(st, op.snap, everDone')
  PROVE  SafeStep
<1> USE DEF SafetyInv
<1>1. /\ CoordinatorTypes /\ op \in RowType /\ op.snap \in MachineType
      /\ op.snap.position \in Positions
  BY DEF CoordinatorTypes, RowType, MachineType
<1>1a. everDone \subseteq everDone' /\ everDone' \subseteq Positions
  <2>1. everDone \subseteq Positions /\ op.snap.position <= Last
    BY <1>1, PathFacts DEF CoordinatorTypes, Positions
  <2>2. 0..op.snap.position \subseteq Positions
    BY <1>1, <2>1, PathFacts DEF Positions
  <2>3. QED
    BY <2>1, <2>2 DEF FinishesGate
<1>2. NotRunning \in RunType /\ RunOK(NotRunning, op, everDone')
  BY <1>1, IdleFacts
<1>3. run' \in [Coordinators -> RunType] /\ RunOK(run'[c], op, everDone')
      /\ \A d \in Coordinators \ {c} : run'[d] = run[d]
  BY <1>1, <1>2 DEF Settle, CoordinatorTypes
<1>4. steps' \in LedgerType /\ \A p \in Positions : steps'[p].status = st[p].status
  BY <1>1, AbandonedLedger DEF Settle
<1>5. \A d \in Coordinators : RunOK(run'[d], op, everDone')
  <2> SUFFICES ASSUME NEW d \in Coordinators, d # c PROVE RunOK(run'[d], op, everDone')
    BY <1>3
  <2>1. RunOK(run[d], op, everDone)
    OBVIOUS
  <2>2. QED
    BY <1>1a, <1>3, <2>1, LegalGrows DEF RunOK
<1>6. Legal(op.snap, everDone')
  BY <1>1a, LegalGrows
<1>7. LedgerOK(steps', op.snap, everDone')
  BY <1>4 DEF LedgerOK
<1>8. RowOK(op, everDone')
  BY <1>1a DEF RowOK
<1>9. SafetyInv'
  BY <1>1a, <1>1, <1>3, <1>4, <1>5, <1>6, <1>7, <1>8 DEF CoordinatorTypes, CoordinatorConstants
<1>10. op'.snap.position >= op.snap.position /\ OneMove
  BY <1>1, PathFacts DEF OneMove, SameOutcome, Positions
<1>11. QED
  BY <1>9, <1>10 DEF SafeStep

(* What a step of one invocation has to show that writes the row: the row  *)
(* moves on, and the writer is where the row is.                           *)
LEMMA WriteKeeps ==
  ASSUME SafetyInv, NEW c \in Coordinators, NEW row \in RowType, NEW r \in RunType,
         Write(c, row, r),
         Legal(row.snap, everDone), row.snap.position >= op.snap.position,
         RowOK(row, everDone), row.exists,
         MayBecome(row),
         RunOK(r, row, everDone), r.m.position = row.snap.position,
         r.pc \in Synced => r.m = row.snap
  PROVE  SafeStep
<1> USE DEF SafetyInv
<1>1. CoordinatorTypes /\ row.snap \in MachineType /\ op.snap \in MachineType
  BY DEF CoordinatorTypes, RowType
<1>2. NotRunning \in RunType /\ RunOK(NotRunning, row, everDone)
  BY <1>1, IdleFacts
<1> DEFINE k == [r EXCEPT !.fresh = TRUE, !.done = row.done, !.terminal = row.terminal, !.decision = row.decision]
<1>3. k \in RunType /\ k.pc = r.pc /\ k.m = r.m
  BY DEF RunType, RowType
<1>4. RunOK(k, row, everDone)
  <2> HIDE DEF k
  <2>1. QED
    BY <1>3 DEF RunOK
<1>5. \A d \in Coordinators \ {c} :
        /\ [run[d] EXCEPT !.fresh = FALSE] \in RunType
        /\ RunOK([run[d] EXCEPT !.fresh = FALSE], row, everDone)
  <2> SUFFICES ASSUME NEW d \in Coordinators \ {c}
               PROVE  /\ [run[d] EXCEPT !.fresh = FALSE] \in RunType
                      /\ RunOK([run[d] EXCEPT !.fresh = FALSE], row, everDone)
    OBVIOUS
  <2> DEFINE q == [run[d] EXCEPT !.fresh = FALSE]
  <2>1. q \in RunType /\ q.pc = run[d].pc /\ q.m = run[d].m /\ ~q.fresh
    BY <1>1 DEF CoordinatorTypes, RunType
  <2>2. RunOK(run[d], op, everDone)
    OBVIOUS
  <2>3. run[d].m.position \in Int /\ op.snap.position \in Int /\ row.snap.position \in Int
    BY <1>1, PathFacts DEF CoordinatorTypes, RunType, MachineType, Positions
  <2> HIDE DEF q
  <2>4. RunOK(q, row, everDone)
    BY <2>1, <2>2, <2>3 DEF RunOK
  <2>5. QED
    BY <2>1, <2>4 DEF q
<1> HIDE DEF k
<1>6. \A d \in Coordinators : run'[d] \in RunType /\ RunOK(run'[d], row, everDone)
  BY <1>2, <1>3, <1>4, <1>5 DEF Write, k
<1>7. run' \in [Coordinators -> RunType]
  BY <1>6 DEF Write
<1>8. steps' \in LedgerType /\ \A p \in Positions : steps'[p].status = steps[p].status
  BY <1>1, AbandonedLedger DEF Write, CoordinatorTypes
<1>9. LedgerOK(steps', row.snap, everDone)
  BY <1>1, <1>8, PathFacts DEF LedgerOK, MachineType, Positions
<1>10. op' = row /\ everDone' = everDone
  BY DEF Write
<1>11. SafetyInv'
  BY <1>1, <1>6, <1>7, <1>8, <1>9, <1>10 DEF CoordinatorTypes, CoordinatorConstants
<1>12. QED
  BY <1>10, <1>11 DEF SafeStep, OneMove, SameOutcome, MayBecome

-----------------------------------------------------------------------------
(* Where an invocation stands needs nothing more, so that it may be there  *)
(* with any legal machine.                                                 *)
Plain == Pcs \ (Synced \cup Revalidating \cup {"gatePersist", "skipPersist", "init"})

(* The invocation of c moves on to pc and relies on what it has there.     *)
MayStand(c, pc, done) ==
    /\ pc \in Pcs \ (Synced \cup {"init"})
    /\ pc = "gatePersist" => run[c].m.position \in done
    /\ pc = "skipPersist" => run[c].m.recovery \in done
    /\ pc \in Revalidating => run[c].m.marker \notin {NoMarker, run[c].m.position}

(* A plain place may be entered by anybody, and the end is one.            *)
LEMMA PlainFacts ==
  /\ Plain \subseteq Pcs /\ "idle" \in Plain
  /\ \A c, done, pc : pc \in Plain => MayStand(c, pc, done)
BY DEF Plain, Pcs, Synced, Revalidating, MayStand

(* Who may stand somewhere relies there on what is true.                   *)
LEMMA StandFacts ==
  ASSUME SafetyInv, NEW c \in Coordinators, NEW pc, NEW done,
         everDone \subseteq done, MayStand(c, pc, done)
  PROVE  LET r == [run[c] EXCEPT !.pc = pc]
         IN r \in RunType /\ RunOK(r, op, done)
<1> DEFINE r == [run[c] EXCEPT !.pc = pc]
<1>1. run[c] \in RunType /\ RunOK(run[c], op, everDone)
  BY DEF SafetyInv, CoordinatorTypes
<1>2. /\ r \in RunType /\ r.pc = pc /\ r.m = run[c].m /\ r.fresh = run[c].fresh
  BY <1>1 DEF RunType, MayStand
<1>3. Legal(run[c].m, done)
  BY <1>1, LegalGrows DEF RunOK
<1> HIDE DEF r
<1>4. RunOK(r, op, done)
  BY <1>1, <1>2, <1>3 DEF RunOK, MayStand, Synced
<1>5. QED
  BY <1>2, <1>4 DEF r

(* Going somewhere without writing anything.                               *)
LEMMA GotoKeeps ==
  ASSUME SafetyInv, NEW c \in Coordinators, NEW pc, Goto(c, pc), MayStand(c, pc, everDone)
  PROVE  SafeStep
<1> DEFINE r == [run[c] EXCEPT !.pc = pc]
<1>1. r \in RunType /\ RunOK(r, op, everDone)
  BY StandFacts
<1>2. Settle(c, r, steps) /\ op' = op /\ everDone' = everDone
  BY DEF Goto
<1>3. steps \in LedgerType /\ everDone \subseteq Positions /\ LedgerOK(steps, op.snap, everDone)
  BY DEF SafetyInv, CoordinatorTypes
<1> HIDE DEF r
<1>4. QED
  BY <1>1, <1>2, <1>3, SettleKeeps

(* Giving up keeps the operation safe.                                     *)
LEMMA ReturnKeeps ==
  ASSUME SafetyInv, NEW c \in Coordinators, Return(c)
  PROVE  SafeStep
BY PlainFacts, GotoKeeps DEF Return

(* Changing the attempt of a gate the row has reached.                     *)
LEMMA LedgerKeeps ==
  ASSUME SafetyInv, NEW c \in Coordinators, NEW p \in Positions, p <= op.snap.position,
         NEW attempt \in AttemptType, NEW pc, Ledger(c, p, attempt, pc),
         everDone' = everDone \/ FinishesGate,
         attempt.status \in {"succeeded", "skipped"} => p \in everDone',
         MayStand(c, pc, everDone')
  PROVE  SafeStep
<1> DEFINE r == [run[c] EXCEPT !.pc = pc]
           st == [steps EXCEPT ![p] = attempt]
<1>1. r \in RunType /\ RunOK(r, op, everDone')
  BY StandFacts DEF FinishesGate
<1>2. Settle(c, r, st) /\ op' = op
  BY DEF Ledger
<1>3. steps \in LedgerType /\ LedgerOK(steps, op.snap, everDone) /\ op.snap.position \in Positions
  BY DEF SafetyInv, CoordinatorTypes, RowType, MachineType
<1>4. st \in LedgerType /\ st[p] = attempt /\ \A q \in Positions \ {p} : st[q] = steps[q]
  BY <1>3 DEF LedgerType
<1> HIDE DEF r, st
<1>5. LedgerOK(st, op.snap, everDone')
  BY <1>3, <1>4, PathFacts DEF LedgerOK, Positions, FinishesGate
<1>6. QED
  BY <1>1, <1>2, <1>4, <1>5, SettleKeeps

(* The gates an invocation works on are gates the row has reached.         *)
LEMMA ReachedFacts ==
  ASSUME SafetyInv, NEW c \in Coordinators
  PROVE  /\ run[c] \in RunType /\ run[c].m \in MachineType /\ op \in RowType
         /\ op.snap \in MachineType /\ op.snap.position \in Positions
         /\ RunOK(run[c], op, everDone)
         /\ run[c].m.position \in Positions /\ run[c].m.position <= op.snap.position
         /\ run[c].m.recovery \in Positions /\ run[c].m.recovery <= op.snap.position
         /\ run[c].m.marker \in Positions \cup {NoMarker} /\ run[c].m.marker <= op.snap.position
<1>1. /\ run[c] \in RunType /\ RunOK(run[c], op, everDone) /\ op \in RowType
      /\ op.snap \in MachineType
  BY DEF SafetyInv, CoordinatorTypes, RowType
<1>2. run[c].m \in MachineType /\ op.snap.position \in Positions
  BY <1>1 DEF RunType, MachineType
<1>3. /\ run[c].m.position \in Positions /\ run[c].m.recovery \in Positions
      /\ run[c].m.marker \in Positions \cup {NoMarker}
  BY <1>2 DEF MachineType
<1>4. /\ run[c].m.position <= op.snap.position
      /\ run[c].m.recovery <= run[c].m.position /\ run[c].m.marker <= run[c].m.position
  BY <1>1 DEF RunOK, Legal
<1>5. QED
  BY <1>1, <1>2, <1>3, <1>4, PathFacts DEF Positions, NoMarker

(* The four things that happen to an attempt, each under one transaction.  *)
LEMMA BeginKeeps ==
  ASSUME SafetyInv, NEW c \in Coordinators, NEW p \in Positions, p <= op.snap.position,
         NEW pc, BeginStepAttempt(c, p, pc), MayStand(c, pc, everDone)
  PROVE  SafeStep
<1>1. CASE op.done
  BY <1>1, ReturnKeeps DEF BeginStepAttempt
<1>2. CASE ~op.done
  <2> DEFINE a == Begun(steps[p], c)
  <2>1. steps[p] \in AttemptType /\ everDone \subseteq Positions /\ CoordinatorTypes
    BY DEF SafetyInv, CoordinatorTypes, LedgerType
  <2>2. a \in AttemptType /\ a.status \in OpenStatuses
    BY <2>1 DEF AttemptType, Begun, OpenStatuses, ClosedStatuses
  <2>3. Ledger(c, p, a, pc) /\ everDone' = everDone
    BY <1>2 DEF BeginStepAttempt
  <2> HIDE DEF a
  <2>4. QED
    BY <2>1, <2>2, <2>3, LedgerKeeps DEF OpenStatuses
<1>3. QED
  BY <1>1, <1>2

(* Taking the lease.                                                       *)
LEMMA ClaimKeeps ==
  ASSUME SafetyInv, NEW c \in Coordinators, NEW p \in Positions, p <= op.snap.position,
         NEW claimed, NEW onClosed, NEW onConflict,
         ClaimStepLease(c, p, claimed, onClosed, onConflict),
         MayStand(c, claimed, everDone), MayStand(c, onClosed, everDone),
         MayStand(c, onConflict, everDone)
  PROVE  SafeStep
<1>1. CASE op.done \/ c \notin steps[p].begun \/ ~Claimable(c, p)
  BY <1>1, GotoKeeps DEF ClaimStepLease
<1>2. CASE ~op.done /\ c \in steps[p].begun /\ Claimable(c, p)
  <2> DEFINE a == Claimed(steps[p], c)
  <2>1. steps[p] \in AttemptType /\ everDone \subseteq Positions
    BY DEF SafetyInv, CoordinatorTypes, LedgerType
  <2>2. a \in AttemptType /\ a.status = "running"
    BY <2>1 DEF AttemptType, Claimed, OpenStatuses
  <2>3. Ledger(c, p, a, claimed) /\ everDone' = everDone
    BY <1>2 DEF ClaimStepLease
  <2> HIDE DEF a
  <2>4. QED
    BY <2>1, <2>2, <2>3, LedgerKeeps
<1>3. QED
  BY <1>1, <1>2

(* Closing the attempt under the lease.                                    *)
LEMMA CompleteKeeps ==
  ASSUME SafetyInv, NEW c \in Coordinators, NEW p \in Positions, p <= op.snap.position,
         NEW status \in {"succeeded", "skipped", "failed"}, NEW pc, NEW onError,
         CompleteStepAttempt(c, p, status, pc, onError),
         MayStand(c, pc, IF status = "failed" THEN everDone ELSE everDone \cup {p}),
         MayStand(c, onError, everDone)
  PROVE  SafeStep
<1>1. CASE ~(~op.done /\ Authorized(c, p))
  BY <1>1, GotoKeeps DEF CompleteStepAttempt
<1>2. CASE ~op.done /\ Authorized(c, p)
  <2> DEFINE a == ClosedAs(status)
  <2>1. everDone \subseteq Positions
    BY DEF SafetyInv, CoordinatorTypes
  <2>2. a \in AttemptType /\ a.status = status
    BY DEF AttemptType, ClosedAs, NoAttempt, ClosedStatuses
  <2>3. /\ Ledger(c, p, a, pc)
        /\ everDone' = IF status = "failed" THEN everDone ELSE everDone \cup {p}
    BY <1>2 DEF CompleteStepAttempt
  <2> HIDE DEF a
  <2>4. everDone' = everDone \/ FinishesGate
    BY <1>2, <2>3, ReachedFacts, PathFacts DEF FinishesGate, Positions
  <2>5. QED
    BY <2>1, <2>2, <2>3, <2>4, LedgerKeeps
<1>3. QED
  BY <1>1, <1>2

(* Giving the lease back.                                                  *)
LEMMA ReleaseKeeps ==
  ASSUME SafetyInv, NEW c \in Coordinators, NEW pc, NEW onError,
         ReleaseStepLease(c, pc, onError),
         MayStand(c, pc, everDone), MayStand(c, onError, everDone)
  PROVE  SafeStep
<1> DEFINE p == run[c].m.position
<1>1. CASE ~(~op.done /\ Owns(c, p))
  BY <1>1, GotoKeeps DEF ReleaseStepLease
<1>2. CASE ~op.done /\ Owns(c, p)
  <2> DEFINE a == Released(steps[p])
  <2>1. /\ steps[p] \in AttemptType /\ everDone \subseteq Positions
        /\ p \in Positions /\ p <= op.snap.position
    BY ReachedFacts DEF SafetyInv, CoordinatorTypes, LedgerType
  <2>2. a \in AttemptType /\ a.status \in OpenStatuses
    BY <1>2, <2>1 DEF AttemptType, Released, Owns, Open
  <2>3. Ledger(c, p, a, pc) /\ everDone' = everDone
    BY <1>2 DEF ReleaseStepLease
  <2> HIDE DEF a, p
  <2>4. QED
    BY <2>1, <2>2, <2>3, LedgerKeeps DEF OpenStatuses
<1>3. QED
  BY <1>1, <1>2

-----------------------------------------------------------------------------
(* Storing a machine that is legal and not behind the row's.               *)
LEMMA StoreKeeps ==
  ASSUME SafetyInv, NEW c \in Coordinators, NEW m, NEW pc, Store(c, m, pc),
         Legal(m, everDone), run[c].fresh => m.position >= op.snap.position,
         pc \in Pcs \ (Revalidating \cup {"gatePersist", "skipPersist", "init"}),
         pc = "failClose" => m.terminal = "failed",
         pc = "close" => m.terminal = "succeeded"
  PROVE  SafeStep
<1>1. CASE ~(MayWrite(c) /\ ~op.done)
  BY <1>1, ReturnKeeps DEF Store
<1>2. CASE MayWrite(c) /\ ~op.done
  <2> DEFINE row == [op EXCEPT !.state = m.state, !.snap = m, !.stored = TRUE, !.idle = FALSE]
             r == [run[c] EXCEPT !.m = m, !.pc = pc]
  <2>1. run[c] \in RunType /\ op \in RowType /\ op.exists
    BY <1>2, ReachedFacts DEF RunOK, MayWrite
  <2>2. m \in MachineType /\ m.state \in MachineStates /\ m.position \in Positions
    BY DEF Legal, MachineType
  <2>3. /\ row \in RowType /\ row.snap = m /\ ~row.done /\ row.stored /\ row.exists = op.exists
        /\ row.done = op.done /\ row.terminal = op.terminal
    BY <1>2, <2>1, <2>2 DEF RowType
  <2>4. r \in RunType /\ r.m = m /\ r.pc = pc
    BY <2>1, <2>2 DEF RunType
  <2>5. Write(c, row, r)
    BY <1>2 DEF Store
  <2> HIDE DEF row, r
  <2>6. RunOK(r, row, everDone)
    BY <2>1, <2>2, <2>3, <2>4, PathFacts DEF RunOK, Positions
  <2>7. row.snap.position >= op.snap.position /\ RowOK(row, everDone) /\ row.exists
    BY <1>2, <2>1, <2>3 DEF MayWrite, RowOK
  <2>8. QED
    BY <2>3, <2>4, <2>5, <2>6, <2>7, WriteKeeps DEF MayBecome
<1>3. QED
  BY <1>1, <1>2

(* Storing what the state machine makes of the machine that c holds.       *)
LEMMA PersistKeeps ==
  ASSUME SafetyInv, NEW c \in Coordinators, NEW t, IsRequest(t), NEW pc,
         ValidateLifecycleTransition(run[c].m, t)
            => Store(c, ApplyLifecycleTransition(run[c].m, t), pc),
         ~ValidateLifecycleTransition(run[c].m, t) => Return(c),
         t.complete => run[c].m.position \in everDone,
         t.skip => run[c].m.recovery \in everDone,
         pc \in Pcs \ (Revalidating \cup {"gatePersist", "skipPersist", "init"}),
         pc = "failClose" => t.terminal = "failed",
         pc = "close" => t.terminal = "succeeded"
  PROVE  SafeStep
<1> DEFINE m == ApplyLifecycleTransition(run[c].m, t)
<1>1. CASE ~ValidateLifecycleTransition(run[c].m, t)
  BY <1>1, ReturnKeeps
<1>2. CASE ValidateLifecycleTransition(run[c].m, t)
  <2>1. Legal(run[c].m, everDone) /\ (run[c].fresh => run[c].m.position = op.snap.position)
    BY ReachedFacts DEF RunOK
  <2>2. /\ Legal(m, everDone) /\ m.position >= run[c].m.position
        /\ t.terminal # NoTerminal => m.terminal = t.terminal
    BY <1>2, <2>1, ApplyLegal
  <2>3. "failed" # NoTerminal /\ "succeeded" # NoTerminal
    BY DEF NoTerminal
  <2>4. Store(c, m, pc)
    BY <1>2
  <2> HIDE DEF m
  <2>5. QED
    BY <2>1, <2>2, <2>3, <2>4, StoreKeeps
<1>3. QED
  BY <1>1, <1>2

(* Closing the row with the outcome of the row's own machine.              *)
LEMMA CloseKeeps ==
  ASSUME SafetyInv, NEW c \in Coordinators, run[c].pc \in Synced,
         NEW terminal, terminal = run[c].m.terminal, NEW pc,
         pc \in (Pcs \ (Revalidating \cup {"gatePersist", "skipPersist", "init", "failClose", "close"})),
         IF MayWrite(c) /\ ~op.done
         THEN Write(c, [op EXCEPT !.state = run[c].m.state, !.terminal = terminal,
                                  !.done = TRUE, !.idle = FALSE],
                    [run[c] EXCEPT !.pc = pc])
         ELSE Return(c)
  PROVE  SafeStep
<1>1. CASE ~(MayWrite(c) /\ ~op.done)
  BY <1>1, ReturnKeeps
<1>2. CASE MayWrite(c) /\ ~op.done
  <2> DEFINE row == [op EXCEPT !.state = run[c].m.state, !.terminal = terminal,
                               !.done = TRUE, !.idle = FALSE]
             r == [run[c] EXCEPT !.pc = pc]
  <2>1. /\ run[c] \in RunType /\ op \in RowType /\ run[c].m \in MachineType
        /\ op.snap \in MachineType /\ run[c].m = op.snap /\ Legal(op.snap, everDone)
        /\ op.exists
    BY <1>2, ReachedFacts DEF RunOK, MayWrite, SafetyInv
  <2>2. run[c].m.state \in MachineStates /\ terminal \in Outcomes
    BY <2>1 DEF MachineType, Outcomes
  <2>3. row \in RowType /\ row.snap = op.snap /\ row.terminal = terminal /\ row.stored = op.stored
        /\ row.exists = op.exists /\ row.done
    BY <2>1, <2>2 DEF RowType
  <2>4. r \in RunType /\ r.m = op.snap /\ r.pc = pc
    BY <2>1 DEF RunType
  <2>5. Write(c, row, r)
    BY <1>2
  <2> HIDE DEF row, r
  <2>6. RunOK(r, row, everDone)
    BY <2>1, <2>3, <2>4, PathFacts DEF RunOK, Positions, MachineType
  <2>7. terminal = "succeeded" => Positions \subseteq everDone
    BY <2>1, PathFacts DEF Legal, Passed, Positions
  <2>8. row.snap.position >= op.snap.position /\ RowOK(row, everDone) /\ row.exists
    BY <1>2, <2>1, <2>3, <2>7, PathFacts DEF SafetyInv, RowOK, MachineType, Positions
  <2>9. QED
    BY <1>2, <2>1, <2>3, <2>4, <2>5, <2>6, <2>8, WriteKeeps DEF MayBecome
<1>3. QED
  BY <1>1, <1>2

(* Where Run goes from what it holds.                                      *)
LEMMA PcFacts ==
  ASSUME NEW r, NEW m
  PROVE  /\ DrivePc(m) \in {"recover", "replay", "succeed", "advance"}
         /\ CheckPc(r) \in {"closeRow", "resume", "idle", "recover", "replay", "succeed", "advance"}
         /\ AfterGate(r) \in {"closeRow", "resume", "idle", "recover", "replay", "succeed", "advance"}
<1>1. \A x : DrivePc(x) \in {"recover", "replay", "succeed", "advance"}
  BY DEF DrivePc
<1>2. CheckPc(r) \in {"closeRow", "resume", "idle", "recover", "replay", "succeed", "advance"}
  BY <1>1 DEF CheckPc
<1>3. QED
  BY <1>1, <1>2 DEF AfterGate

(* Every place named by the actions is one.                                *)
LEMMA PcNames ==
  /\ {"recover", "replay", "succeed", "advance", "resume", "idle", "failPersist", "claimRead",
      "begin", "claim", "exec", "replayRelease", "dropClaim", "stepDone", "stepFail",
      "progress", "resumePersist", "skipBegin", "skipClaim", "skipDone", "retryBegin",
      "retryPersist", "repair"} \subseteq Plain
  /\ Plain \cup Synced \subseteq Pcs \ (Revalidating \cup {"gatePersist", "skipPersist", "init"})
  /\ {"closeRow", "failClose", "close", "loadRead"} = Synced
  /\ Plain \cap Synced = {} /\ {"gatePersist", "skipPersist"} \cup Revalidating \subseteq Pcs \ (Synced \cup {"init"})
BY DEF Plain, Pcs, Synced, Revalidating

-----------------------------------------------------------------------------
(* The steps that store a machine.                                         *)
Stores(c) ==
    \/ InitializeMachine(c) \/ RepairRecovery(c) \/ PersistGate(c) \/ PersistFailure(c)
    \/ PersistResumed(c) \/ PersistRecoverySkip(c) \/ RetryPersist(c) \/ RevalidatePersist(c)
    \/ PersistProgress(c) \/ AdvanceGate(c) \/ PersistSuccess(c)

(* Every step that stores a machine keeps the operation safe.              *)
LEMMA StoresKeep ==
  ASSUME SafetyInv, NEW c \in Coordinators, Stores(c)
  PROVE  SafeStep
<1> DEFINE m == run[c].m
           After(t) == ApplyLifecycleTransition(m, t)
           Kept(t, pc) == /\ ValidateLifecycleTransition(m, t) => Store(c, After(t), pc)
                          /\ ~ValidateLifecycleTransition(m, t) => Return(c)
<1>1. /\ m \in MachineType /\ Legal(m, everDone) /\ op.forced \in BOOLEAN /\ m.forced \in BOOLEAN
      /\ RunOK(run[c], op, everDone)
  BY ReachedFacts DEF MachineType, RowType, RunOK
<1>2. ASSUME NEW t, IsRequest(t), ~t.skip, ~t.complete, NEW pc \in Plain, Kept(t, pc)
      PROVE  SafeStep
  BY <1>2, PersistKeeps, PcNames
<1>3. "failed" # NoTerminal /\ "succeeded" # NoTerminal
  BY DEF NoTerminal
<1>4. \A k : DrivePc(k) \in Plain
  BY PcFacts, PcNames
<1>5. \A k : CheckPc(k) \in Plain \cup {"closeRow"} /\ AfterGate(k) \in Plain \cup {"closeRow"}
  BY PcFacts, PcNames
<1>6. CASE InitializeMachine(c)
  <2>1. Store(c, FirstMachine(op.forced), "loadRead") /\ run[c].pc = "init"
    BY <1>6 DEF InitializeMachine
  <2>2. Legal(FirstMachine(op.forced), everDone) /\ FirstMachine(op.forced).position = 0
    BY <1>1, FirstFacts
  <2>3. run[c].fresh => FirstMachine(op.forced).position >= op.snap.position
    BY <1>1, <2>1, <2>2 DEF RunOK
  <2>4. QED
    BY <2>1, <2>2, <2>3, StoreKeeps, PcNames
<1>7. CASE RepairRecovery(c)
  <2> DEFINE t == RetryFailed(m, op.forced /\ ~m.forced)
             pc == CheckPc([run[c] EXCEPT !.m = After(t)])
  <2>1. Kept(t, pc)
    BY <1>7 DEF RepairRecovery, Persist
  <2>2. pc \in Plain \cup {"closeRow"}
    BY <1>5
  <2>3. IsRequest(t) /\ ~t.skip /\ ~t.complete
    BY <1>1, RequestFacts
  <2> HIDE DEF t, pc
  <2>4. QED
    BY <2>1, <2>2, <2>3, PersistKeeps, PcNames
<1>8. CASE PersistGate(c)
  <2> DEFINE t == CompleteGate(m)
             pc == AfterGate([run[c] EXCEPT !.m = After(t)])
  <2>1. Kept(t, pc) /\ run[c].pc = "gatePersist"
    BY <1>8 DEF PersistGate, Persist
  <2>2. pc \in Plain \cup {"closeRow"}
    BY <1>5
  <2>3. IsRequest(t) /\ ~t.skip
    BY <1>1, RequestFacts
  <2>4. m.position \in everDone
    BY <1>1, <2>1 DEF RunOK
  <2> HIDE DEF t, pc
  <2>5. QED
    BY <2>1, <2>2, <2>3, <2>4, PersistKeeps, PcNames
<1>9. CASE PersistFailure(c)
  <2> DEFINE t == FailGate(m)
  <2>1. Kept(t, "failClose")
    BY <1>9 DEF PersistFailure, Persist
  <2>2. IsRequest(t) /\ ~t.skip /\ ~t.complete /\ t.terminal = "failed"
    BY <1>1, RequestFacts
  <2> HIDE DEF t
  <2>3. QED
    BY <2>1, <2>2, PersistKeeps, PcNames
<1>10. CASE PersistResumed(c)
  <2>1. Store(c, m, DrivePc(m))
    BY <1>10 DEF PersistResumed
  <2>2. run[c].fresh => m.position >= op.snap.position
    BY <1>1, PathFacts DEF RunOK, MachineType, Positions
  <2>3. QED
    BY <1>1, <1>4, <2>1, <2>2, StoreKeeps, PcNames
<1>11. CASE PersistRecoverySkip(c)
  <2> DEFINE t == SkipFailed(m)
             pc == DrivePc(After(t))
  <2>1. Kept(t, pc) /\ run[c].pc = "skipPersist"
    BY <1>11 DEF PersistRecoverySkip, Persist
  <2>2. pc \in Plain
    BY <1>4
  <2>3. IsRequest(t) /\ ~t.complete
    BY <1>1, RequestFacts
  <2>4. m.recovery \in everDone
    BY <1>1, <2>1 DEF RunOK
  <2> HIDE DEF t, pc
  <2>5. QED
    BY <2>1, <2>2, <2>3, <2>4, PersistKeeps, PcNames
<1>12. CASE RetryPersist(c)
  <2>1. Kept(Reenter(m), DrivePc(After(Reenter(m))))
    BY <1>12 DEF RetryPersist, Persist
  <2>2. QED
    BY <1>1, <1>2, <1>4, <2>1, RequestFacts
<1>13. CASE RevalidatePersist(c)
  <2>1. CASE MayWrite(c) /\ ~op.done
    <3>1. Kept(StayAtGate(m), "exec")
      BY <1>13, <2>1 DEF RevalidatePersist, Persist
    <3>2. QED
      BY <1>1, <1>2, <3>1, RequestFacts, PcNames
  <2>2. CASE ~(MayWrite(c) /\ ~op.done)
    BY <1>13, <2>2, GotoKeeps, PlainFacts, PcNames DEF RevalidatePersist
  <2>3. QED
    BY <2>1, <2>2
<1>14. CASE PersistProgress(c)
  <2>1. Kept(StayAtGate(m), "exec")
    BY <1>14 DEF PersistProgress, Persist
  <2>2. QED
    BY <1>1, <1>2, <2>1, RequestFacts, PcNames
<1>15. CASE AdvanceGate(c)
  <2>1. Kept(NextGate(m), DrivePc(After(NextGate(m))))
    BY <1>15 DEF AdvanceGate, Persist
  <2>2. QED
    BY <1>1, <1>2, <1>4, <2>1, RequestFacts
<1>16. CASE PersistSuccess(c)
  <2> DEFINE t == Succeed(m)
  <2>1. Kept(t, "close")
    BY <1>16 DEF PersistSuccess, Persist
  <2>2. IsRequest(t) /\ ~t.skip /\ ~t.complete /\ t.terminal = "succeeded"
    BY <1>1, RequestFacts
  <2> HIDE DEF t
  <2>3. QED
    BY <2>1, <2>2, PersistKeeps, PcNames
<1>17. QED
  BY <1>6, <1>7, <1>8, <1>9, <1>10, <1>11, <1>12, <1>13, <1>14, <1>15, <1>16 DEF Stores

-----------------------------------------------------------------------------
(* The steps on one attempt, at the gate, in recovery and at the marker.   *)
Attempts(c) ==
    \/ SkipBegin(c) \/ SkipClaim(c) \/ SkipDone(c) \/ RetryBegin(c)
    \/ ClaimRead(c) \/ BeginGate(c) \/ ClaimGate(c) \/ StepDone(c) \/ StepFail(c)
    \/ RevalidateRead(c) \/ RevalidateBegin(c) \/ RevalidateClaim(c) \/ RevalidateRun(c)
    \/ RevalidateDone(c) \/ RevalidateFail(c) \/ RevalidateFailDone(c)
    \/ ReplayRelease(c) \/ DropClaim(c) \/ ReportProgress(c)

(* Every step on an attempt keeps the operation safe.                      *)
LEMMA AttemptsKeep ==
  ASSUME SafetyInv, NEW c \in Coordinators, Attempts(c)
  PROVE  SafeStep
<1> DEFINE m == run[c].m
<1>1. /\ m.position \in Positions /\ m.position <= op.snap.position
      /\ m.recovery \in Positions /\ m.recovery <= op.snap.position
      /\ m.marker <= op.snap.position /\ m.marker \in Positions \cup {NoMarker}
      /\ RunOK(run[c], op, everDone)
  BY ReachedFacts
<1>2. ASSUME NEW pc \in Plain, NEW done
      PROVE  MayStand(c, pc, done)
  BY <1>2, PlainFacts
<1>3. CASE SkipBegin(c)
  BY <1>1, <1>2, <1>3, BeginKeeps, PcNames DEF SkipBegin
<1>4. CASE SkipClaim(c)
  BY <1>1, <1>2, <1>4, ClaimKeeps, PcNames DEF SkipClaim
<1>5. CASE SkipDone(c)
  <2>1. MayStand(c, "skipPersist", everDone \cup {m.recovery})
    BY PcNames DEF MayStand, Revalidating
  <2>2. CompleteStepAttempt(c, m.recovery, "skipped", "skipPersist", "idle")
    BY <1>5 DEF SkipDone
  <2>3. QED
    BY <1>1, <1>2, <2>1, <2>2, CompleteKeeps, PcNames
<1>6. CASE RetryBegin(c)
  BY <1>1, <1>2, <1>6, BeginKeeps, PcNames DEF RetryBegin
<1>7. CASE ClaimRead(c)
  BY <1>2, <1>7, GotoKeeps, PcNames DEF ClaimRead
<1>8. CASE BeginGate(c)
  BY <1>1, <1>2, <1>8, BeginKeeps, PcNames DEF BeginGate
<1>9. CASE ClaimGate(c)
  <2> DEFINE pc == IF Revalidates(run[c]) THEN "revalRead" ELSE "exec"
  <2>1. MayStand(c, pc, everDone)
    BY PcNames DEF MayStand, Revalidates, Revalidating
  <2>2. ClaimStepLease(c, m.position, pc, "replay", "idle")
    BY <1>9 DEF ClaimGate
  <2> HIDE DEF pc
  <2>3. QED
    BY <1>1, <1>2, <2>1, <2>2, ClaimKeeps, PcNames
<1>10. CASE StepDone(c)
  <2>1. MayStand(c, "gatePersist", everDone \cup {m.position})
    BY PcNames DEF MayStand, Revalidating
  <2>2. CompleteStepAttempt(c, m.position, "succeeded", "gatePersist", "idle")
    BY <1>10 DEF StepDone
  <2>3. QED
    BY <1>1, <1>2, <2>1, <2>2, CompleteKeeps, PcNames
<1>11. CASE StepFail(c)
  BY <1>1, <1>2, <1>11, CompleteKeeps, PcNames DEF StepFail
<1>12. run[c].pc \in Revalidating =>
         /\ m.marker \in Positions
         /\ \A pc \in Revalidating : \A done : MayStand(c, pc, done)
  BY <1>1, PcNames DEF RunOK, MayStand, Revalidating
<1>13. CASE RevalidateRead(c)
  <2> DEFINE pc == CASE steps[m.marker].status \in {"none", "succeeded"} -> "revalBegin"
                     [] steps[m.marker].status = "failed" -> "replayRelease"
                     [] OTHER -> "dropClaim"
  <2>1. Goto(c, pc) /\ run[c].pc = "revalRead"
    BY <1>13 DEF RevalidateRead
  <2>2. pc \in {"revalBegin", "replayRelease", "dropClaim"}
    OBVIOUS
  <2> HIDE DEF pc
  <2>3. MayStand(c, pc, everDone)
    BY <1>2, <1>12, <2>1, <2>2, PcNames DEF Revalidating
  <2>4. QED
    BY <2>1, <2>3, GotoKeeps
<1>14. CASE RevalidateBegin(c)
  <2>1. CASE op.done
    BY <1>2, <1>14, <2>1, GotoKeeps, PcNames DEF RevalidateBegin
  <2>2. CASE ~op.done
    <3>1. BeginStepAttempt(c, m.marker, "revalClaim") /\ run[c].pc = "revalBegin"
      BY <1>14, <2>2 DEF RevalidateBegin
    <3>2. m.marker \in Positions /\ MayStand(c, "revalClaim", everDone)
      BY <1>12, <3>1 DEF Revalidating
    <3>3. QED
      BY <1>1, <3>1, <3>2, BeginKeeps
  <2>3. QED
    BY <2>1, <2>2
<1>15. CASE RevalidateClaim(c)
  <2>1. ClaimStepLease(c, m.marker, "revalRun", "dropClaim", "dropClaim") /\ run[c].pc = "revalClaim"
    BY <1>15 DEF RevalidateClaim
  <2>2. m.marker \in Positions /\ MayStand(c, "revalRun", everDone)
    BY <1>12, <2>1 DEF Revalidating
  <2>3. QED
    BY <1>1, <1>2, <2>1, <2>2, ClaimKeeps, PcNames
<1>16. CASE RevalidateRun(c)
  <2>1. run[c].pc = "revalRun" /\ (Goto(c, "revalDone") \/ Goto(c, "revalFail"))
    BY <1>16 DEF RevalidateRun
  <2>2. MayStand(c, "revalDone", everDone) /\ MayStand(c, "revalFail", everDone)
    BY <1>12, <2>1 DEF Revalidating
  <2>3. QED
    BY <2>1, <2>2, GotoKeeps
<1>17. CASE RevalidateDone(c)
  <2>1. /\ CompleteStepAttempt(c, m.marker, "succeeded", "revalPersist", "dropClaim")
        /\ run[c].pc = "revalDone"
    BY <1>17 DEF RevalidateDone
  <2>2. m.marker \in Positions /\ MayStand(c, "revalPersist", everDone \cup {m.marker})
    BY <1>12, <2>1 DEF Revalidating
  <2>3. QED
    BY <1>1, <1>2, <2>1, <2>2, CompleteKeeps, PcNames
<1>18. CASE RevalidateFail(c)
  <2>1. ReleaseStepLease(c, "revalFailDone", "dropClaim") /\ run[c].pc = "revalFail"
    BY <1>18 DEF RevalidateFail
  <2>2. MayStand(c, "revalFailDone", everDone)
    BY <1>12, <2>1 DEF Revalidating
  <2>3. QED
    BY <1>2, <2>1, <2>2, ReleaseKeeps, PcNames
<1>19. CASE RevalidateFailDone(c)
  <2>1. /\ CompleteStepAttempt(c, m.marker, "failed", "failPersist", "idle")
        /\ run[c].pc = "revalFailDone"
    BY <1>19 DEF RevalidateFailDone
  <2>2. m.marker \in Positions
    BY <1>12, <2>1 DEF Revalidating
  <2>3. QED
    BY <1>1, <1>2, <2>1, <2>2, CompleteKeeps, PcNames
<1>20. CASE ReplayRelease(c)
  BY <1>2, <1>20, ReleaseKeeps, PcNames DEF ReplayRelease
<1>21. CASE DropClaim(c)
  BY <1>2, <1>21, ReleaseKeeps, PcNames DEF DropClaim
<1>22. CASE ReportProgress(c)
  <2>1. PICK status \in OpenStatuses :
          IF ~op.done /\ Authorized(c, m.position)
          THEN /\ Ledger(c, m.position, [steps[m.position] EXCEPT !.status = status], "progress")
               /\ UNCHANGED everDone
          ELSE Return(c)
    BY <1>22 DEF ReportProgress
  <2> DEFINE a == [steps[m.position] EXCEPT !.status = status]
  <2>2. steps[m.position] \in AttemptType /\ everDone \subseteq Positions
    BY <1>1 DEF SafetyInv, CoordinatorTypes, LedgerType
  <2>3. a \in AttemptType /\ a.status \in OpenStatuses
    BY <2>2 DEF AttemptType
  <2> HIDE DEF a
  <2>4. CASE ~op.done /\ Authorized(c, m.position)
    <3>1. Ledger(c, m.position, a, "progress") /\ everDone' = everDone
      BY <2>1, <2>4 DEF a
    <3>2. QED
      BY <1>1, <1>2, <2>2, <2>3, <3>1, LedgerKeeps, PcNames DEF OpenStatuses
  <2>5. CASE ~(~op.done /\ Authorized(c, m.position))
    BY <2>1, <2>5, ReturnKeeps
  <2>6. QED
    BY <2>4, <2>5
<1>23. QED
  BY <1>3, <1>4, <1>5, <1>6, <1>7, <1>8, <1>9, <1>10, <1>11, <1>13, <1>14, <1>15, <1>16,
     <1>17, <1>18, <1>19, <1>20, <1>21, <1>22 DEF Attempts

-----------------------------------------------------------------------------
(* The steps that load, close or reopen the row, or run a gate.            *)
LEMMA HostMarkedFacts ==
  ASSUME NEW m, NEW done, Legal(m, done)
  PROVE  Legal(HostMarked(m, m.position), done) /\ HostMarked(m, m.position).position = m.position
<1> DEFINE k == HostMarked(m, m.position)
<1>1. m \in MachineType /\ m.position \in Positions /\ m.marker <= m.position
  BY DEF Legal, MachineType
<1>2. /\ k \in MachineType /\ k.position = m.position /\ k.recovery = m.recovery
      /\ k.marker \in {m.marker, m.position} /\ k.terminal = m.terminal /\ k.complete = m.complete
  BY <1>1, PathFacts DEF HostMarked, MachineType, Positions
<1> HIDE DEF k
<1>3. k.marker <= k.position
  BY <1>1, <1>2, PathFacts DEF Positions
<1>4. Legal(k, done)
  BY <1>2, <1>3 DEF Legal, Passed
<1>5. QED
  BY <1>2, <1>4 DEF k

(* An attempt that is closed decides its gate.                             *)
LEMMA ReconcileKeeps ==
  ASSUME SafetyInv, NEW c \in Coordinators, Reconcile(c)
  PROVE  SafeStep
<1> DEFINE m == run[c].m
           p == m.position
           host == IsHostGate(Operation, p)
           pc == CASE steps[p].status \in {"succeeded", "skipped"} -> "gatePersist"
                   [] steps[p].status = "failed" -> "failPersist"
                   [] OTHER -> IF run[c].pc = "replay" THEN "claimRead" ELSE CheckPc(run[c])
           k == IF pc = "gatePersist" /\ host THEN HostMarked(m, p) ELSE m
           r == [run[c] EXCEPT !.pc = pc, !.inRun = (run[c].pc = "loadRead"), !.m = k]
<1>1. CASE steps[p].status = "skipped" /\ host
  BY <1>1, ReturnKeeps DEF Reconcile
<1>2. CASE ~(steps[p].status = "skipped" /\ host)
  <2>1. /\ Settle(c, r, steps) /\ op' = op /\ everDone' = everDone
        /\ run[c].pc \in {"loadRead", "replay"}
    BY <1>2 DEF Reconcile
  <2>2. /\ run[c] \in RunType /\ p \in Positions /\ Legal(m, everDone) /\ p <= op.snap.position
        /\ RunOK(run[c], op, everDone) /\ LedgerOK(steps, op.snap, everDone)
        /\ steps \in LedgerType /\ everDone \subseteq Positions
    BY ReachedFacts DEF RunOK, SafetyInv, CoordinatorTypes
  <2>3. Legal(k, everDone) /\ k.position = p
    BY <2>2, HostMarkedFacts
  <2>4. /\ pc \in {"gatePersist", "closeRow"} \cup Plain
        /\ pc = "gatePersist" => p \in everDone
        /\ pc = "closeRow" => k = m /\ run[c].pc = "loadRead"
    BY <2>1, <2>2, PcFacts, PcNames DEF LedgerOK
  <2> HIDE DEF k, pc
  <2>5. r \in RunType /\ r.pc = pc /\ r.m = k /\ r.fresh = run[c].fresh
    BY <2>2, <2>3, <2>4, PcNames DEF RunType, Legal
  <2> HIDE DEF r
  <2>6. RunOK(r, op, everDone)
    BY <2>2, <2>3, <2>4, <2>5 DEF RunOK, Plain, Synced, Revalidating
  <2>7. QED
    BY <2>1, <2>2, <2>5, <2>6, SettleKeeps
<1>3. QED
  BY <1>1, <1>2

(* A gate that ends has changed nothing durable yet.                       *)
LEMMA GateEndsKeeps ==
  ASSUME SafetyInv, NEW c \in Coordinators, GateEnds(c)
  PROVE  SafeStep
<1> DEFINE m == run[c].m
           k == IF IsHostGate(Operation, m.position) THEN HostMarked(m, m.position) ELSE m
           r == [run[c] EXCEPT !.pc = "stepDone", !.inRun = FALSE, !.revalidate = FALSE, !.m = k]
           s == [run[c] EXCEPT !.pc = "stepFail", !.inRun = FALSE]
<1>1. /\ run[c] \in RunType /\ Legal(m, everDone)
      /\ RunOK(run[c], op, everDone) /\ LedgerOK(steps, op.snap, everDone)
      /\ steps \in LedgerType /\ everDone \subseteq Positions
  BY ReachedFacts DEF RunOK, SafetyInv, CoordinatorTypes
<1>2. /\ Settle(c, r, steps) \/ Settle(c, s, steps)
      /\ op' = op /\ everDone' = everDone
  BY DEF GateEnds
<1>3. Legal(k, everDone) /\ k.position = m.position
  BY <1>1, HostMarkedFacts
<1> HIDE DEF k
<1>4. r \in RunType /\ r.pc = "stepDone" /\ r.m = k /\ r.fresh = run[c].fresh
  BY <1>1, <1>3, PcNames DEF RunType, Legal, Plain
<1>5. s \in RunType /\ s.pc = "stepFail" /\ s.m = m /\ s.fresh = run[c].fresh
  BY <1>1, PcNames DEF RunType, Plain
<1> HIDE DEF r, s
<1>6. RunOK(r, op, everDone) /\ RunOK(s, op, everDone)
  BY <1>1, <1>3, <1>4, <1>5 DEF RunOK, Synced, Revalidating
<1>7. QED
  BY <1>1, <1>2, <1>4, <1>5, <1>6, SettleKeeps

(* The three ways a coordinator closes the row.                            *)
LEMMA ClosesKeep ==
  ASSUME SafetyInv, NEW c \in Coordinators,
         CloseFailed(c) \/ ReconcileTerminal(c) \/ CloseSucceeded(c)
  PROVE  SafeStep
<1> DEFINE m == run[c].m
           Ended(terminal) == [run[c] EXCEPT !.done = TRUE, !.terminal = terminal]
           Closes(terminal, pc) ==
               IF MayWrite(c) /\ ~op.done
               THEN Write(c, [op EXCEPT !.state = m.state, !.terminal = terminal,
                                        !.done = TRUE, !.idle = FALSE],
                          [run[c] EXCEPT !.pc = pc])
               ELSE Return(c)
<1>1. RunOK(run[c], op, everDone)
  BY ReachedFacts
<1>2. \A r : CheckPc(r) \in Plain \cup {"closeRow"}
  BY PcFacts, PcNames
<1>3. CASE CloseFailed(c)
  <2> DEFINE pc == IF Ended("failed").inRun THEN CheckPc(Ended("failed")) ELSE "idle"
  <2>1. Closes("failed", pc) /\ run[c].pc = "failClose"
    BY <1>3 DEF CloseFailed, CloseRow
  <2>2. pc \in Plain \cup {"closeRow"}
    BY <1>2, PcNames
  <2>3. m.terminal = "failed"
    BY <1>1, <2>1 DEF RunOK
  <2> HIDE DEF pc
  <2>4. QED
    BY <2>1, <2>2, <2>3, CloseKeeps, PcNames DEF Plain, Synced
<1>4. CASE ReconcileTerminal(c)
  <2> DEFINE pc == CheckPc(Ended(m.terminal))
  <2>1. Closes(m.terminal, pc) /\ run[c].pc = "closeRow"
    BY <1>4 DEF ReconcileTerminal, CloseRow
  <2>2. pc \in Plain \cup {"closeRow"}
    BY <1>2
  <2> HIDE DEF pc
  <2>3. QED
    BY <2>1, <2>2, CloseKeeps, PcNames DEF Plain, Synced
<1>5. CASE CloseSucceeded(c)
  <2>1. Closes("succeeded", "idle") /\ run[c].pc = "close"
    BY <1>5 DEF CloseSucceeded, CloseRow
  <2>2. m.terminal = "succeeded"
    BY <1>1, <2>1 DEF RunOK
  <2>3. QED
    BY <2>1, <2>2, CloseKeeps, PcNames DEF Plain, Synced
<1>6. QED
  BY <1>3, <1>4, <1>5

(* A reopened row keeps its machine; the one that reopens it holds what    *)
(* the retry makes of it.                                                  *)
LEMMA ResumeKeeps ==
  ASSUME SafetyInv, NEW c \in Coordinators, Resume(c)
  PROVE  SafeStep
<1> DEFINE m == run[c].m
           t == RetryFailed(m, run[c].req.escalate)
           k == Recovered(c)
           row == [op EXCEPT !.state = "recovery", !.terminal = NoTerminal, !.done = FALSE,
                       !.attempts = @ + 1,
                       !.decision = IF run[c].req.skip THEN "skip_step" ELSE "retry",
                       !.forced = @ \/ run[c].req.escalate, !.idle = FALSE]
           r == [run[c] EXCEPT !.pc = "resumePersist", !.m = k]
<1>1. CASE ~(MayWrite(c) /\ Resumable(c))
  BY <1>1, ReturnKeeps DEF Resume
<1>2. CASE MayWrite(c) /\ Resumable(c)
  <2>1. Write(c, row, r) /\ ValidateLifecycleTransition(m, t)
    BY <1>2 DEF Resume, Resumable
  <2>2. /\ run[c] \in RunType /\ op \in RowType /\ m \in MachineType /\ Legal(m, everDone)
        /\ RunOK(run[c], op, everDone) /\ op.exists /\ m.position = op.snap.position
        /\ run[c].req.escalate \in BOOLEAN /\ Legal(op.snap, everDone)
        /\ op.snap.position \in Positions /\ RowOK(op, everDone)
    BY <1>2, ReachedFacts DEF RunOK, MayWrite, RunType, SafetyInv
  <2>3. IsRequest(t) /\ ~t.skip /\ ~t.complete /\ t.retry
    BY <2>2, RequestFacts
  <2>4. k = ApplyLifecycleTransition(m, t)
    BY DEF Recovered
  <2> HIDE DEF t
  <2>5. Legal(k, everDone) /\ k.position = m.position
    BY <2>1, <2>2, <2>3, <2>4, ApplyLegal
  <2> HIDE DEF k
  <2>6. r \in RunType /\ r.pc = "resumePersist" /\ r.m = k
    BY <2>2, <2>5, PcNames DEF RunType, Legal, Plain
  <2>7. /\ row \in RowType /\ row.snap = op.snap /\ ~row.done /\ row.exists
        /\ row.stored = op.stored
    <3> DEFINE d == IF run[c].req.skip THEN "skip_step" ELSE "retry"
               f == op.forced \/ run[c].req.escalate
    <3>1. /\ "recovery" \in MachineStates /\ NoTerminal \in Outcomes /\ d \in Decisions
          /\ f \in BOOLEAN /\ op.attempts + 1 \in Nat
      BY <2>2 DEF MachineStates, Outcomes, Decisions, RowType
    <3>2. row = [op EXCEPT !.state = "recovery", !.terminal = NoTerminal, !.done = FALSE,
                           !.attempts = op.attempts + 1, !.decision = d, !.forced = f,
                           !.idle = FALSE]
      BY DEF row
    <3> HIDE DEF d, f, row
    <3>3. QED
      BY <2>2, <3>1, <3>2 DEF RowType
  <2> HIDE DEF row, r
  <2>8. RunOK(r, row, everDone)
    BY <2>2, <2>5, <2>6, <2>7, PathFacts DEF RunOK, Synced, Revalidating, Positions
  <2>9. row.snap.position >= op.snap.position /\ RowOK(row, everDone)
    BY <2>2, <2>7, PathFacts DEF RowOK, Positions
  <2>10. op.done /\ op.terminal # "succeeded"
    BY <1>2 DEF Resumable, FailureTerminals
  <2>11. QED
    BY <2>1, <2>2, <2>5, <2>6, <2>7, <2>8, <2>9, <2>10, WriteKeeps DEF Synced, MayBecome
<1>3. QED
  BY <1>1, <1>2

(* A skipped attempt is evidence for a recovery that skips.                *)
LEMMA RecoverKeeps ==
  ASSUME SafetyInv, NEW c \in Coordinators, RecoverGate(c)
  PROVE  SafeStep
<1> DEFINE p == run[c].m.recovery
<1>1. /\ \/ Goto(c, "skipPersist") /\ steps[p].status = "skipped"
         \/ Goto(c, "skipBegin") \/ Goto(c, "retryBegin") \/ Return(c)
  BY DEF RecoverGate
<1>2. steps[p].status = "skipped" => p \in everDone
  BY ReachedFacts DEF SafetyInv, LedgerOK
<1>3. steps[p].status = "skipped" => MayStand(c, "skipPersist", everDone)
  BY <1>2, PcNames DEF MayStand, Revalidating
<1>4. QED
  BY <1>1, <1>3, GotoKeeps, ReturnKeeps, PlainFacts, PcNames

(* A new row starts at the first gate, an old one where its machine is.    *)
LEMMA AcquireKeeps ==
  ASSUME SafetyInv, NEW c \in Coordinators, Acquire(c)
  PROVE  SafeStep
<1>1. /\ op \in RowType /\ op.snap \in MachineType /\ Legal(op.snap, everDone)
      /\ RowOK(op, everDone) /\ op.snap.position \in Positions
      /\ steps \in LedgerType /\ everDone \subseteq Positions /\ LedgerOK(steps, op.snap, everDone)
  BY ReachedFacts DEF SafetyInv, CoordinatorTypes
<1>2. /\ NotRunning \in RunType /\ NotRunning.m = FirstMachine(FALSE)
      /\ FirstMachine(FALSE) \in MachineType /\ FirstMachine(FALSE).position = 0
      /\ Legal(FirstMachine(FALSE), everDone)
  BY <1>1, IdleFacts, FirstFacts DEF NotRunning
<1>3. CASE Create(c)
  <2>1. PICK forced \in BOOLEAN :
          Write(c, [NoOperation EXCEPT !.exists = TRUE, !.forced = forced],
                [NotRunning EXCEPT !.pc = "init", !.inRun = TRUE])
    BY <1>3 DEF Create
  <2> DEFINE row == [NoOperation EXCEPT !.exists = TRUE, !.forced = forced]
             r == [NotRunning EXCEPT !.pc = "init", !.inRun = TRUE]
             first == FirstMachine(FALSE)
  <2>2. Write(c, row, r)
    BY <2>1
  <2>3. op.snap.position = 0
    BY <1>1, <1>3 DEF RowOK, Create
  <2>4. /\ row \in RowType /\ row.snap = first /\ row.exists /\ ~row.stored
        /\ ~row.done
    BY <1>2 DEF NoOperation, RowType, MachineStates, GateStates, Outcomes, Decisions
  <2>5. r \in RunType /\ r.pc = "init" /\ r.m = first
    BY <1>2 DEF RunType, Pcs
  <2>6. first.position = 0 /\ Legal(first, everDone) /\ "init" \notin Synced \cup Revalidating
    BY <1>2 DEF Synced, Revalidating
  <2> HIDE DEF row, r, first
  <2>7. r.m.position = 0 /\ row.snap.position = 0
    BY <2>4, <2>5, <2>6
  <2>8. RunOK(r, row, everDone)
    BY <2>4, <2>5, <2>6, <2>7 DEF RunOK
  <2>9. RowOK(row, everDone) /\ Legal(row.snap, everDone)
    BY <2>4, <2>6, <2>7 DEF RowOK
  <2>10. QED
    BY <1>3, <2>2, <2>3, <2>4, <2>5, <2>6, <2>7, <2>8, <2>9, WriteKeeps DEF Create, MayBecome
<1>4. ASSUME NEW request \in Requests, Reopen(c, request)
      PROVE  SafeStep
  <2> DEFINE l == Loaded(request)
             pc == LoadPc(l)
             r == [l EXCEPT !.pc = pc]
  <2>1. request \in [retry : BOOLEAN, skip : BOOLEAN, escalate : BOOLEAN]
    <3>1. NoRequest \in [retry : BOOLEAN, skip : BOOLEAN, escalate : BOOLEAN]
      BY DEF NoRequest
    <3>2. CASE request # NoRequest
      <4>1. PICK s \in BOOLEAN, e \in {FALSE, Operation = "uninstall"} :
              request = [retry |-> TRUE, skip |-> s, escalate |-> e]
        BY <3>2 DEF Requests
      <4>2. e \in BOOLEAN
        OBVIOUS
      <4>3. QED
        BY <4>1, <4>2
    <3>3. QED
      BY <3>1, <3>2
  <2>2. l \in RunType /\ l.m = op.snap /\ l.fresh
    BY <1>1, <1>2, <2>1 DEF Loaded, RunType, RowType
  <2>3. /\ Settle(c, r, steps) /\ op.exists /\ pc # "error"
        /\ op' = op /\ everDone' = everDone
    BY <1>4 DEF Reopen
  <2>4. /\ pc \in {"error", "init", "loadRead", "closeRow"} \cup Plain
        /\ pc = "init" => op.snap.position = 0
    BY <1>1, PcFacts, PcNames DEF LoadPc, RowOK
  <2> HIDE DEF l, pc
  <2>5. pc \in Pcs \ (Revalidating \cup {"gatePersist", "skipPersist", "failClose", "close"})
    BY <2>3, <2>4, PcNames DEF Plain, Synced, Pcs, Revalidating
  <2>6. r \in RunType /\ r.pc = pc /\ r.m = op.snap /\ r.fresh
    BY <2>2, <2>5 DEF RunType
  <2> HIDE DEF r
  <2>7. RunOK(r, op, everDone)
    BY <1>1, <2>3, <2>4, <2>5, <2>6, PathFacts, PcNames DEF RunOK, Positions
  <2>8. QED
    BY <1>1, <2>3, <2>6, <2>7, SettleKeeps
<1>5. QED
  BY <1>3, <1>4 DEF Acquire

-----------------------------------------------------------------------------
(* Steps from outside that leave machines, outcomes and statuses alone.    *)
LEMMA QuietKeeps ==
  ASSUME SafetyInv, run' = run, everDone' = everDone, op' \in RowType,
         op'.snap = op.snap, op'.exists = op.exists, op'.stored = op.stored,
         op'.done = op.done, op'.terminal = op.terminal,
         steps' \in LedgerType, \A p \in Positions : steps'[p].status = steps[p].status
  PROVE  SafeStep
<1>1. CoordinatorTypes' /\ Legal(op'.snap, everDone') /\ RowOK(op', everDone')
  BY DEF SafetyInv, CoordinatorTypes, CoordinatorConstants, RowOK
<1>2. LedgerOK(steps', op'.snap, everDone')
  BY DEF SafetyInv, LedgerOK
<1>3. \A c \in Coordinators : RunOK(run'[c], op', everDone')
  BY DEF SafetyInv, RunOK
<1>4. op.snap.position \in Positions
  BY DEF SafetyInv, CoordinatorTypes, RowType, MachineType
<1>5. op'.snap.position >= op.snap.position
  BY <1>4, PathFacts DEF Positions
<1>6. QED
  BY <1>1, <1>2, <1>3, <1>5 DEF SafetyInv, SafeStep, OneMove, SameOutcome

(* One attempt keeps its status.                                           *)
LEMMA AttemptKeeps ==
  ASSUME SafetyInv, NEW p \in Positions, NEW a \in AttemptType, a.status = steps[p].status,
         steps' = [steps EXCEPT ![p] = a], run' = run, everDone' = everDone, op' = op
  PROVE  SafeStep
<1>1. steps \in LedgerType /\ op \in RowType
  BY DEF SafetyInv, CoordinatorTypes
<1>2. steps' \in LedgerType /\ \A q \in Positions : steps'[q].status = steps[q].status
  BY <1>1 DEF LedgerType
<1>3. QED
  BY <1>1, <1>2, QuietKeeps

(* Closing from outside cancels the row and fails what was open.           *)
LEMMA OutsideKeeps ==
  ASSUME SafetyInv, CloseFromOutside, ~op.done
  PROVE  SafeStep
<1>1. /\ op \in RowType /\ op.snap \in MachineType /\ steps \in LedgerType
      /\ run \in [Coordinators -> RunType] /\ RowOK(op, everDone) /\ everDone' = everDone
  BY DEF SafetyInv, CoordinatorTypes, RowType, CloseFromOutside
<1>2. /\ op' \in RowType /\ op'.snap = op.snap /\ op'.exists = op.exists
      /\ op'.stored = op.stored /\ op'.terminal = "cancelled" /\ op'.done
  BY <1>1 DEF CloseFromOutside, RowType, MachineStates, Outcomes
<1>3. ClosedAs("failed") \in AttemptType /\ ClosedAs("failed").status = "failed"
  BY DEF ClosedAs, NoAttempt, AttemptType, ClosedStatuses
<1>4. /\ steps' \in LedgerType
      /\ \A p \in Positions : \/ steps'[p].status = steps[p].status
                              \/ steps[p].status \in OpenStatuses /\ steps'[p].status = "failed"
  BY <1>1, <1>3 DEF CloseFromOutside, LedgerType, Open
<1>5. ASSUME NEW c \in Coordinators
      PROVE  run'[c] \in RunType /\ RunOK(run'[c], op', everDone)
  <2>1. run[c] \in RunType /\ RunOK(run[c], op, everDone)
    BY <1>1 DEF SafetyInv
  <2>2. /\ run'[c] \in RunType /\ run'[c].m = run[c].m /\ run'[c].pc = run[c].pc
        /\ ~run'[c].fresh
    BY <2>1 DEF CloseFromOutside, RunType
  <2>3. QED
    BY <1>2, <2>1, <2>2 DEF RunOK
<1>6. run' \in [Coordinators -> RunType]
  BY <1>5 DEF CloseFromOutside
<1>7. LedgerOK(steps', op'.snap, everDone)
  BY <1>2, <1>4 DEF SafetyInv, LedgerOK, OpenStatuses
<1>8. "cancelled" # "succeeded"
  OBVIOUS
<1>9. RowOK(op', everDone) /\ Legal(op'.snap, everDone)
  BY <1>1, <1>2, <1>8 DEF RowOK, SafetyInv
<1>10. SafetyInv'
  BY <1>1, <1>2, <1>4, <1>5, <1>6, <1>7, <1>9
     DEF SafetyInv, CoordinatorTypes, CoordinatorConstants
<1>11. op'.snap.position >= op.snap.position
  BY <1>1, <1>2, PathFacts DEF MachineType, Positions
<1>12. QED
  BY <1>1, <1>2, <1>10, <1>11 DEF SafeStep, OneMove

-----------------------------------------------------------------------------
(* Nothing exists at first.                                                *)
LEMMA InitSafe == CoordinatorConstants /\ Init => SafetyInv
<1> SUFFICES ASSUME CoordinatorConstants, Init PROVE SafetyInv
  OBVIOUS
<1>1. /\ FirstMachine(FALSE) \in MachineType /\ FirstMachine(FALSE).position = 0
      /\ ~FirstMachine(FALSE).complete /\ Legal(FirstMachine(FALSE), everDone)
  BY FirstFacts
<1>2. /\ op \in RowType /\ op.snap = FirstMachine(FALSE) /\ ~op.exists /\ ~op.stored /\ ~op.done
  BY <1>1 DEF Init, NoOperation, RowType, MachineStates, GateStates, Outcomes, Decisions
<1>3. NotRunning \in RunType /\ RunOK(NotRunning, op, everDone)
  BY <1>2, IdleFacts
<1>4. NoAttempt \in AttemptType /\ NoAttempt.status = "none"
  BY DEF NoAttempt, AttemptType
<1>5. steps \in LedgerType /\ LedgerOK(steps, op.snap, everDone)
  BY <1>4 DEF Init, LedgerType, LedgerOK
<1>6. RowOK(op, everDone)
  BY <1>1, <1>2 DEF RowOK
<1>7. QED
  BY <1>1, <1>2, <1>3, <1>5, <1>6 DEF Init, SafetyInv, CoordinatorTypes

(* Every step of every coordinator and from outside keeps the operation    *)
(* safe.                                                                   *)
LEMMA NextSafe == SafetyInv /\ [Next]_vars => SafeStep
<1> SUFFICES ASSUME SafetyInv, [Next]_vars PROVE SafeStep
  OBVIOUS
<1>1. steps \in LedgerType /\ op \in RowType /\ everDone \subseteq Positions
  BY DEF SafetyInv, CoordinatorTypes
<1>2. CASE UNCHANGED vars
  BY <1>1, <1>2, QuietKeeps DEF vars
<1>3. ASSUME NEW c \in Coordinators, Acquire(c)
      PROVE  SafeStep
  BY <1>3, AcquireKeeps
<1>4. ASSUME NEW c \in Coordinators, Proceed(c)
      PROVE  SafeStep
  <2>1. \/ Stores(c) \/ Attempts(c) \/ Reconcile(c) \/ GateEnds(c) \/ Resume(c)
        \/ RecoverGate(c) \/ CloseFailed(c) \/ ReconcileTerminal(c) \/ CloseSucceeded(c)
    BY <1>4 DEF Proceed, Stores, Attempts
  <2>2. QED
    BY <2>1, StoresKeep, AttemptsKeep, ReconcileKeeps, GateEndsKeeps, ResumeKeeps,
       RecoverKeeps, ClosesKeep
<1>5. ASSUME NEW c \in Coordinators, ReportProgress(c)
      PROVE  SafeStep
  BY <1>5, AttemptsKeep DEF Attempts
<1>6. ASSUME NEW c \in Coordinators, Heartbeat(c)
      PROVE  SafeStep
  <2>1. PICK p \in Positions : /\ steps' = [steps EXCEPT ![p].seen = {}]
                              /\ UNCHANGED <<op, run, everDone>>
    BY <1>6 DEF Heartbeat
  <2>2. steps[p] \in AttemptType
    BY <1>1 DEF LedgerType
  <2> DEFINE a == [steps[p] EXCEPT !.seen = {}]
  <2>3. a \in AttemptType /\ a.status = steps[p].status
    BY <2>2 DEF AttemptType
  <2>4. steps' = [steps EXCEPT ![p] = a]
    BY <2>1
  <2> HIDE DEF a
  <2>5. QED
    BY <2>1, <2>3, <2>4, AttemptKeeps
<1>7. ASSUME NEW c \in Coordinators, Crash(c)
      PROVE  SafeStep
  <2>1. Settle(c, NotRunning, steps) /\ op' = op /\ everDone' = everDone
    BY <1>7 DEF Crash
  <2>2. NotRunning \in RunType /\ RunOK(NotRunning, op, everDone)
    BY <1>1, IdleFacts
  <2>3. LedgerOK(steps, op.snap, everDone)
    BY DEF SafetyInv
  <2>4. QED
    BY <1>1, <2>1, <2>2, <2>3, SettleKeeps
<1>8. ASSUME NEW p \in Positions, LeaseExpires(p)
      PROVE  SafeStep
  <2>1. /\ steps' = [steps EXCEPT ![p].live = FALSE]
        /\ UNCHANGED <<op, run, everDone>>
    BY <1>8 DEF LeaseExpires
  <2>2. steps[p] \in AttemptType
    BY <1>1 DEF LedgerType
  <2> DEFINE a == [steps[p] EXCEPT !.live = FALSE]
  <2>3. a \in AttemptType /\ a.status = steps[p].status
    BY <2>2 DEF AttemptType
  <2>4. steps' = [steps EXCEPT ![p] = a]
    BY <2>1
  <2> HIDE DEF a
  <2>5. QED
    BY <2>1, <2>3, <2>4, AttemptKeeps
<1>9. CASE GoesIdle
  <2>1. op' = [op EXCEPT !.idle = TRUE] /\ UNCHANGED <<steps, run, everDone>>
    BY <1>9 DEF GoesIdle
  <2>2. /\ op' \in RowType /\ op'.snap = op.snap /\ op'.exists = op.exists
        /\ op'.stored = op.stored /\ op'.done = op.done /\ op'.terminal = op.terminal
    BY <1>1, <2>1 DEF RowType
  <2>3. QED
    BY <1>1, <2>1, <2>2, QuietKeeps
<1>10. CASE ListOrphan
  BY <1>1, <1>10, QuietKeeps DEF ListOrphan
<1>11. CASE ReclaimOrphan
  BY <1>1, <1>11, QuietKeeps, OutsideKeeps DEF ReclaimOrphan
<1>12. CASE CloseByOperator
  BY <1>12, OutsideKeeps DEF CloseByOperator
<1>13. QED
  BY <1>2, <1>3, <1>4, <1>5, <1>6, <1>7, <1>8, <1>9, <1>10, <1>11, <1>12 DEF Next

(* The inductive invariant holds in every reachable state.                 *)
THEOREM AlwaysSafetyInv == CoordinatorConstants /\ Spec => []SafetyInv
<1>1. SafetyInv /\ [Next]_vars => SafetyInv'
  BY NextSafe DEF SafeStep
<1>2. QED
  BY <1>1, InitSafe, PTL DEF Spec

(* A row closes with the outcome of its machine or cancelled, and succeeds *)
(* only when every gate was executed or skipped.                           *)
THEOREM RowsCloseAsReached == CoordinatorConstants /\ Spec => []ClosedAsReached
<1>1. SafetyInv => ClosedAsReached
  BY DEF SafetyInv, ClosedAsReached, RowOK
<1>2. QED
  BY <1>1, AlwaysSafetyInv, PTL

-----------------------------------------------------------------------------
(* The contract.  What the row's machine has passed, and at most the gate  *)
(* it stands at, is finished; nothing happens before the row exists.       *)
AbsentInv ==
    ~op.exists =>
        /\ everDone = {} /\ ~candidate /\ ~op.done
        /\ \A c \in Coordinators : run[c].pc = "idle"
ContractInv == everDone \subseteq 0..op.snap.position /\ AbsentInv

(* The finished gates are the first ones of the path.                      *)
FirstGates ==
    LET n == Cardinality(everDone)
    IN  n \in Nat /\ n <= Last + 1 /\ everDone = 0..(n - 1)

LEMMA FinishedAreFirst == SafetyInv /\ ContractInv => FirstGates
<1> DEFINE n == Cardinality(everDone)
           pos == op.snap.position
<1> SUFFICES ASSUME SafetyInv, ContractInv PROVE FirstGates
  OBVIOUS
<1>1. pos \in Positions /\ Last \in Nat /\ pos \in Nat /\ pos <= Last
  BY ReachedFacts, PathFacts DEF SafetyInv, CoordinatorTypes, RowType, MachineType, Positions
<1>2. \A p \in Positions : p < pos => p \in everDone
  BY DEF SafetyInv, Legal, Passed
<1>3. everDone \subseteq 0..pos
  BY DEF ContractInv
<1> HIDE DEF pos
<1>4. \E k \in 0..(Last + 1) : everDone = 0..(k - 1)
  <2>1. CASE pos \in everDone
    <3>1. everDone = 0..((pos + 1) - 1)
      <4>1. ASSUME NEW x \in 0..pos
            PROVE  x \in everDone
        <5>1. x \in Positions /\ (x < pos \/ x = pos)
          BY <1>1 DEF Positions
        <5>2. QED
          BY <1>2, <2>1, <5>1
      <4>2. (pos + 1) - 1 = pos
        BY <1>1
      <4>3. QED
        BY <1>3, <4>1, <4>2
    <3>2. pos + 1 \in 0..(Last + 1)
      BY <1>1
    <3>3. QED
      BY <3>1, <3>2
  <2>2. CASE pos \notin everDone
    <3>1. everDone = 0..(pos - 1)
      <4>1. ASSUME NEW x \in 0..(pos - 1)
            PROVE  x \in everDone
        BY <1>1, <1>2 DEF Positions
      <4>2. ASSUME NEW x \in everDone
            PROVE  x \in 0..(pos - 1)
        <5>1. x \in 0..pos /\ x # pos
          BY <1>3, <2>2
        <5>2. QED
          BY <1>1, <5>1
      <4>3. QED
        BY <4>1, <4>2
    <3>2. pos \in 0..(Last + 1)
      BY <1>1
    <3>3. QED
      BY <3>1, <3>2
  <2>3. QED
    BY <2>1, <2>2
<1>5. PICK k \in 0..(Last + 1) : everDone = 0..(k - 1)
  BY <1>4
<1>6. k \in Nat /\ k <= Last + 1
  BY <1>1, <1>5
<1>7. Cardinality(0..(k - 1)) = k
  BY <1>6, FS_Interval
<1>8. QED
  BY <1>5, <1>6, <1>7 DEF FirstGates

(* Where the row does not exist, it is created or nothing happens.         *)
LEMMA AbsentStep ==
  ASSUME SafetyInv, ContractInv, ~op.exists, [Next]_vars
  PROVE  \/ UNCHANGED <<op, run, candidate, everDone>>
         \/ op'.exists /\ ~op'.done /\ everDone' = {}
<1> USE DEF ContractInv, AbsentInv
<1>1. ASSUME NEW c \in Coordinators, Acquire(c)
      PROVE  op'.exists /\ ~op'.done /\ everDone' = {}
  <2>1. Create(c)
    BY <1>1 DEF Acquire, Reopen
  <2>2. QED
    BY <2>1 DEF Create, Write, NoOperation
<1>2. ASSUME NEW c \in Coordinators
      PROVE  ~Proceed(c) /\ ~ReportProgress(c) /\ ~Crash(c)
  <2>1. run[c].pc = "idle"
    OBVIOUS
  <2>2. ~Stores(c) /\ ~Attempts(c)
    BY <2>1 DEF Stores, InitializeMachine, RepairRecovery, PersistGate, PersistFailure, PersistResumed,
         PersistRecoverySkip, RetryPersist, RevalidatePersist, PersistProgress, AdvanceGate, PersistSuccess,
         Attempts, SkipBegin, SkipClaim, SkipDone, RetryBegin, ClaimRead, BeginGate, ClaimGate, StepDone,
         StepFail, RevalidateRead, RevalidateBegin, RevalidateClaim, RevalidateRun, RevalidateDone,
         RevalidateFail, RevalidateFailDone, ReplayRelease, DropClaim, ReportProgress
  <2>3. /\ ~Reconcile(c) /\ ~GateEnds(c) /\ ~Resume(c) /\ ~RecoverGate(c) /\ ~CloseFailed(c)
        /\ ~ReconcileTerminal(c) /\ ~CloseSucceeded(c) /\ ~Crash(c)
    BY <2>1 DEF Reconcile, GateEnds, Resume, RecoverGate, CloseFailed, ReconcileTerminal, CloseSucceeded, Crash
  <2>4. QED
    BY <2>2, <2>3 DEF Proceed, Stores, Attempts
<1>3. ASSUME NEW c \in Coordinators, Heartbeat(c)
      PROVE  UNCHANGED <<op, run, candidate, everDone>>
  BY <1>3 DEF Heartbeat
<1>4. ASSUME NEW p \in Positions, LeaseExpires(p)
      PROVE  UNCHANGED <<op, run, candidate, everDone>>
  BY <1>4 DEF LeaseExpires
<1>5. ~GoesIdle /\ ~ListOrphan /\ ~ReclaimOrphan /\ ~CloseByOperator
  BY DEF GoesIdle, ListOrphan, ReclaimOrphan, CloseByOperator
<1>6. QED
  BY <1>1, <1>2, <1>3, <1>4, <1>5 DEF Next, vars

LEMMA NextContract == SafetyInv /\ ContractInv /\ [Next]_vars => ContractInv'
<1> SUFFICES ASSUME SafetyInv, ContractInv, [Next]_vars PROVE ContractInv'
  OBVIOUS
<1>1. SafeStep
  BY NextSafe
<1>2. op.snap.position \in Nat /\ op'.snap.position \in Nat
  BY <1>1, PathFacts DEF SafeStep, SafetyInv, CoordinatorTypes, RowType, MachineType, Positions
<1>3. CASE ~op.exists
  BY <1>2, <1>3, AbsentStep DEF ContractInv, AbsentInv
<1>4. CASE op.exists
  <2>1. op'.exists /\ (everDone' = everDone \/ FinishesGate) /\ op'.snap.position >= op.snap.position
    BY <1>1, <1>4 DEF SafeStep, OneMove
  <2>2. everDone' \subseteq 0..op.snap.position
    BY <2>1 DEF FinishesGate, ContractInv
  <2>3. everDone' \subseteq 0..op'.snap.position
    BY <1>2, <2>1, <2>2
  <2>4. QED
    BY <2>1, <2>3 DEF ContractInv, AbsentInv
<1>5. QED
  BY <1>3, <1>4

\* Adding one number to the first n of them gives the first k only when it is the next one.
LEMMA LongerByOne ==
  ASSUME NEW n \in Nat, NEW k \in Nat, NEW p \in Int,
         p >= 0, p \notin 0..(n - 1), 0..(k - 1) = 0..(n - 1) \cup {p}
  PROVE k = n + 1
<1>1. \A x \in Int : (0 <= x /\ x <= k - 1) <=> ((0 <= x /\ x <= n - 1) \/ x = p)
  <2>1. TAKE x \in Int
  <2>2. x \in 0..(k - 1) <=> (x \in 0..(n - 1) \/ x = p)
    OBVIOUS
  <2>3. QED
    BY <2>2
<1>2. p >= n /\ p <= k - 1
  BY <1>1
<1>3. p = n
  <2>1. n \in Int /\ 0 <= n /\ n <= k - 1
    BY <1>2
  <2>2. QED
    BY <1>1, <2>1
<1>4. k - 1 = n
  <2>1. k - 1 \in Int /\ 0 <= k - 1
    BY <1>2, <1>3
  <2>2. k - 1 <= n - 1 \/ k - 1 = p
    BY <1>1, <2>1
  <2>3. QED
    BY <1>2, <1>3, <2>2
<1>5. QED
  BY <1>4

(* Every step is one of the contract's, or none of its business.           *)
LEMMA ContractStep ==
  ASSUME SafetyInv, SafetyInv', ContractInv, ContractInv', [Next]_vars
  PROVE  [Contract!Next]_(Contract!vars)
<1> DEFINE n == Cardinality(everDone)
           k == Cardinality(everDone')
<1>1. /\ n \in Nat /\ n <= Last + 1 /\ everDone = 0..(n - 1)
      /\ k \in Nat /\ k <= Last + 1 /\ everDone' = 0..(k - 1)
  <2>1. FirstGates /\ FirstGates'
    BY FinishedAreFirst, PTL
  <2>2. QED
    BY <2>1 DEF FirstGates
<1>2. SafeStep /\ Last \in Nat
  BY NextSafe, PathFacts
<1> USE DEF Contract!Next, Contract!vars, Contract!Start, Contract!FinishGate, Contract!Fail,
            Contract!Succeed, Contract!Retry
<1> HIDE DEF n, k
<1>3. CASE ~op.exists
  <2>1. CASE UNCHANGED <<op, run, candidate, everDone>>
    BY <2>1 DEF Result
  <2>2. CASE op'.exists /\ ~op'.done /\ everDone' = {}
    <3>1. Result = "none" /\ Result' = "open"
      BY <1>3, <2>2 DEF Result
    <3>2. everDone' = everDone
      BY <1>3, <2>2 DEF ContractInv, AbsentInv
    <3>3. QED
      BY <3>1, <3>2
  <2>3. QED
    BY <1>3, <2>1, <2>2, AbsentStep
<1>4. CASE op.exists
  <2>1. /\ op'.exists
        /\ \/ SameOutcome /\ (everDone' = everDone \/ FinishesGate)
           \/ ~op.done /\ op'.done /\ everDone' = everDone
           \/ op.done /\ op.terminal # "succeeded" /\ ~op'.done /\ everDone' = everDone
    BY <1>2, <1>4 DEF SafeStep, OneMove
  <2>2. CASE SameOutcome /\ everDone' = everDone
    <3>1. Result' = Result
      BY <1>4, <2>1, <2>2 DEF SameOutcome, Result
    <3>2. QED
      BY <2>2, <3>1
  <2>3. CASE SameOutcome /\ FinishesGate /\ everDone' # everDone
    <3>1. Result = "open" /\ Result' = "open"
      BY <1>4, <2>1, <2>3 DEF SameOutcome, FinishesGate, Result
    <3>2. PICK p \in 0..op.snap.position : everDone' = everDone \cup {p}
      BY <2>3 DEF FinishesGate
    <3>3. p \notin 0..(n - 1) /\ 0..(k - 1) = 0..(n - 1) \cup {p} /\ p \in Int /\ p >= 0
      BY <1>1, <2>3, <3>2
    <3>4. n \in Nat /\ k \in Nat
      BY <1>1
    <3>5. k = n + 1
      BY <3>3, <3>4, LongerByOne
    <3>6. QED
      BY <1>1, <1>2, <3>1, <3>5 DEF n, k
  <2>4. CASE ~op.done /\ op'.done /\ everDone' = everDone
    <3>1. Result = "open" /\ Result' = IF op'.terminal = "succeeded" THEN "succeeded" ELSE "failed"
      BY <1>4, <2>1, <2>4 DEF Result
    <3>2. op'.terminal = "succeeded" => n = Last + 1
      <4>1. SUFFICES ASSUME op'.terminal = "succeeded" PROVE n = Last + 1
        OBVIOUS
      <4>2. Last \in everDone
        BY <1>2, <2>4, <4>1 DEF SafetyInv, RowOK, Positions
      <4>3. QED
        BY <1>1, <1>2, <4>2
    <3>3. CASE op'.terminal = "succeeded"
      BY <2>4, <3>1, <3>2, <3>3 DEF n
    <3>4. CASE op'.terminal # "succeeded"
      BY <2>4, <3>1, <3>4
    <3>5. QED
      BY <3>3, <3>4
  <2>5. CASE op.done /\ op.terminal # "succeeded" /\ ~op'.done /\ everDone' = everDone
    <3>1. Result = "failed" /\ Result' = "open"
      BY <1>4, <2>1, <2>5 DEF Result
    <3>2. QED
      BY <2>5, <3>1
  <2>6. QED
    BY <2>1, <2>2, <2>3, <2>4, <2>5
<1>5. QED
  BY <1>3, <1>4

(* One operation, whoever executes it, crashes or closes it, keeps the     *)
(* contract of LifecycleContract: the gates of its path finish one after   *)
(* the other, it succeeds once all are finished, a success is final, and a *)
(* failure is only left by a retry, which keeps what was finished          *)
(* (lifecycle_coordinator_drive.go, lifecycle_repository_operations.go).   *)
THEOREM ContractIsKept == CoordinatorConstants /\ Spec => KeepsContract
<1> DEFINE Inv == SafetyInv /\ ContractInv
<1>1. CoordinatorConstants /\ Init => Inv
  <2> SUFFICES ASSUME CoordinatorConstants, Init PROVE Inv
    OBVIOUS
  <2>1. SafetyInv
    BY InitSafe
  <2>2. ContractInv
    BY DEF Init, ContractInv, AbsentInv, NoOperation, NotRunning
  <2>3. QED
    BY <2>1, <2>2
<1>2. Inv /\ [Next]_vars => Inv'
  BY NextSafe, NextContract DEF SafeStep
<1>3. Inv /\ Inv' /\ [Next]_vars => [Contract!Next]_(Contract!vars)
  BY ContractStep
<1>4. Init => Contract!Init
  <2> SUFFICES ASSUME Init PROVE Contract!Init
    OBVIOUS
  <2>1. Result = "none"
    BY DEF Init, NoOperation, Result
  <2>2. Cardinality(everDone) = 0
    BY FS_EmptySet DEF Init
  <2>3. QED
    BY <2>1, <2>2 DEF Contract!Init
<1>5. Inv => everDone = 0..(Cardinality(everDone) - 1)
  BY FinishedAreFirst DEF FirstGates
<1> HIDE DEF Inv
<1>6. QED
  BY <1>1, <1>2, <1>3, <1>4, <1>5, PTL DEF Spec, KeepsContract, Contract!Spec

-----------------------------------------------------------------------------
(* Shapes, and what makes a row loadable.  Once an invocation has started a*)
(* gate, it is not the first part of Run any more.                         *)
AtGate ==
    Revalidating \cup
    {"claimRead", "begin", "claim", "exec", "replayRelease", "dropClaim", "stepDone", "stepFail",
     "progress"}

(* An invocation that was asked to retry and may still come to resume.     *)
BeforeResume(r) ==
    \/ r.pc = "resume"
    \/ r.pc \in {"init", "repair", "loadRead", "closeRow"} /\ r.req.retry
    \/ r.pc \in {"gatePersist", "failPersist", "failClose"} /\ r.inRun /\ r.req.retry

(* What an invocation r knows of the row besides RunOK: a current copy has *)
(* the row's decision to force, but for a resume that is to be repaired.   *)
Holds(r, row) ==
    /\ Valid(r.m)
    /\ r.pc = "closeRow" => r.m.terminal # NoTerminal
    /\ r.pc \in AtGate => ~r.inRun
    /\ r.pc \notin {"idle", "init"} => row.stored
    /\ r.fresh => /\ BeforeResume(r) => row.attempts <= MaxRetries
                  /\ r.m.forced => row.forced
                  /\ r.pc \notin {"init", "repair"} => r.m.forced = row.forced
                  /\ r.pc = "resume" => r.m = row.snap

(* Row and snapshot agree, or a resume has written only the row.           *)
Agrees(row) ==
    /\ ~row.stored => row.state = "planned"
    /\ row.stored =>
         \/ row.state = row.snap.state /\ row.forced = row.snap.forced
         \/ row.state = "recovery" /\ row.snap.state = "failed"

RowShape(row) ==
    /\ Valid(row.snap) /\ (row.forced => Operation = "uninstall") /\ (row.snap.forced => row.forced)
    /\ row.done = (row.terminal # NoTerminal) /\ row.attempts \in 1..(MaxRetries + 1)
    /\ row.decision = NoDecision <=> row.attempts = 1
    /\ Reclaims \/ Agrees(row)

AttemptShape(st) ==
    /\ st.seen \subseteq st.begun /\ (st.live => st.owner # Nobody)
    /\ st.status \notin OpenStatuses => st.owner = Nobody /\ st.begun = {}

Counts ==
    /\ candidate \in BOOLEAN /\ crashes \in 0..MaxCrashes /\ late \in 0..MaxLate
    /\ ~Reclaims => ~candidate

ShapeInv ==
    /\ RowShape(op) /\ Counts
    /\ \A p \in Positions : AttemptShape(steps[p])
    /\ \A c \in Coordinators : Holds(run[c], op)

(* The first machine of an operation.                                      *)
LEMMA FirstIsValid ==
  ASSUME NEW forced \in BOOLEAN, forced => Operation = "uninstall"
  PROVE  Valid(FirstMachine(forced)) /\ FirstMachine(forced).forced = forced
<1>1. FirstMachine(forced) = Created(Operation, forced)
  BY DEF FirstMachine, Created, Last
<1>2. FirstMachine(forced).forced = forced
  BY DEF FirstMachine, NewLifecycleStateMachine
<1>3. QED
  BY <1>1, <1>2, NewIsValid, OperationAssumption

(* Who is not running knows nothing.                                       *)
LEMMA IdleHolds ==
  ASSUME NEW row
  PROVE  Holds(NotRunning, row)
<1>1. NotRunning.pc = "idle" /\ ~NotRunning.fresh /\ NotRunning.m = FirstMachine(FALSE)
  BY DEF NotRunning
<1>2. "idle" \notin AtGate
  BY DEF AtGate, Revalidating
<1>3. QED
  BY <1>1, <1>2, FirstIsValid DEF Holds

(* The end of an invocation leaves every attempt in shape.                 *)
LEMMA AbandonedShape ==
  ASSUME CoordinatorConstants, NEW st \in AttemptType, NEW c \in Coordinators, AttemptShape(st)
  PROVE  AttemptShape(Abandoned(st, c))
<1>1. c # Nobody /\ Gone # Nobody
  BY DEF CoordinatorConstants, Nobody, Gone
<1>2. /\ Abandoned(st, c).status = st.status /\ Abandoned(st, c).live = st.live
      /\ Abandoned(st, c).owner = IF st.owner = c THEN Gone ELSE st.owner
      /\ Abandoned(st, c).begun = st.begun \ {c} /\ Abandoned(st, c).seen = st.seen \ {c}
  BY DEF Abandoned, AttemptType
<1>3. QED
  BY <1>1, <1>2 DEF AttemptShape

LEMMA AbandonedShapes ==
  ASSUME CoordinatorConstants, NEW st \in LedgerType, NEW c \in Coordinators,
         \A p \in Positions : AttemptShape(st[p])
  PROVE  \A p \in Positions : AttemptShape(Abandoned(st[p], c))
<1> SUFFICES ASSUME NEW p \in Positions PROVE AttemptShape(Abandoned(st[p], c))
  OBVIOUS
<1>1. st[p] \in AttemptType
  BY DEF LedgerType
<1>2. QED
  BY <1>1, AbandonedShape

(* A step of one invocation that leaves the row alone.                     *)
LEMMA SettleShapes ==
  ASSUME SafetyInv, ShapeInv, NEW c \in Coordinators, NEW r, NEW st \in LedgerType,
         Settle(c, r, st), op' = op, Counts',
         \A p \in Positions : AttemptShape(st[p]),
         r.pc # "idle" => Holds(r, op)
  PROVE  ShapeInv'
<1>1. CoordinatorConstants /\ run \in [Coordinators -> RunType]
  BY DEF SafetyInv, CoordinatorTypes
<1>2. \A p \in Positions : AttemptShape(steps'[p])
  BY <1>1, AbandonedShapes DEF Settle
<1>3. \A d \in Coordinators : Holds(run'[d], op)
  BY <1>1, IdleHolds DEF Settle, ShapeInv
<1>4. QED
  BY <1>2, <1>3 DEF ShapeInv

(* A step of one invocation that writes the row.                           *)
LEMMA WriteShapes ==
  ASSUME SafetyInv, ShapeInv, NEW c \in Coordinators, NEW row \in RowType, NEW r \in RunType,
         Write(c, row, r), RowShape(row), op.stored => row.stored,
         r.pc # "idle" => Holds([r EXCEPT !.fresh = TRUE], row)
  PROVE  ShapeInv'
<1>1. CoordinatorConstants /\ run \in [Coordinators -> RunType] /\ steps \in LedgerType
  BY DEF SafetyInv, CoordinatorTypes
<1>2. \A p \in Positions : AttemptShape(steps'[p])
  BY <1>1, AbandonedShapes DEF Write, ShapeInv
<1> DEFINE k == [r EXCEPT !.fresh = TRUE, !.done = row.done, !.terminal = row.terminal,
                        !.decision = row.decision]
<1>3. r.pc # "idle" => Holds(k, row)
  <2> DEFINE q == [r EXCEPT !.fresh = TRUE]
  <2>1. /\ q.pc = r.pc /\ q.m = r.m /\ q.inRun = r.inRun /\ q.req = r.req /\ q.fresh
        /\ k.pc = r.pc /\ k.m = r.m /\ k.inRun = r.inRun /\ k.req = r.req /\ k.fresh
    BY DEF RunType
  <2>2. r.pc # "idle" => Holds(q, row)
    OBVIOUS
  <2> HIDE DEF q, k
  <2>3. QED
    BY <2>1, <2>2 DEF Holds, BeforeResume
<1>4. ASSUME NEW d \in Coordinators \ {c}
      PROVE  Holds([run[d] EXCEPT !.fresh = FALSE], row)
  <2> DEFINE q == [run[d] EXCEPT !.fresh = FALSE]
  <2>1. q.pc = run[d].pc /\ q.m = run[d].m /\ q.inRun = run[d].inRun /\ ~q.fresh
    BY <1>1 DEF RunType
  <2>2. Holds(run[d], op)
    BY DEF ShapeInv
  <2> HIDE DEF q
  <2>3. Holds(q, row)
    BY <2>1, <2>2 DEF Holds
  <2>4. QED
    BY <2>3 DEF q
<1> HIDE DEF k
<1>5. \A d \in Coordinators : Holds(run'[d], row)
  BY <1>3, <1>4, IdleHolds DEF Write, k
<1>6. op' = row /\ Counts'
  BY DEF Write, Counts, ShapeInv
<1>7. QED
  BY <1>2, <1>5, <1>6 DEF ShapeInv

(* Where an invocation goes on to from a gate it has started, and from one *)
(* in recovery.                                                            *)
Leads(from, to) ==
    \/ from \in AtGate /\ to \in AtGate \cup {"replay", "gatePersist", "failPersist"}
    \/ /\ from \in {"recover", "skipBegin", "skipClaim", "skipDone", "retryBegin"}
       /\ to \in {"skipBegin", "skipClaim", "skipDone", "skipPersist", "retryBegin", "retryPersist"}
    \/ to = "idle"

LEMMA LeadsFacts ==
  ASSUME SafetyInv, ShapeInv, NEW c \in Coordinators, NEW pc, Leads(run[c].pc, pc)
  PROVE  LET r == [run[c] EXCEPT !.pc = pc] IN r.pc # "idle" => Holds(r, op)
<1> DEFINE r == [run[c] EXCEPT !.pc = pc]
<1>1. run[c] \in RunType /\ Holds(run[c], op)
  BY DEF SafetyInv, CoordinatorTypes, ShapeInv
<1>2. r.pc = pc /\ r.m = run[c].m /\ r.inRun = run[c].inRun /\ r.req = run[c].req
      /\ r.fresh = run[c].fresh
  BY <1>1 DEF RunType
<1> HIDE DEF r
<1>3. ASSUME pc # "idle" PROVE Holds(r, op)
  <2>1. CASE run[c].pc \in AtGate /\ pc \in AtGate \cup {"replay", "gatePersist", "failPersist"}
    <3>1. /\ run[c].pc \notin {"idle", "init", "repair"} /\ pc \notin {"init", "repair", "closeRow", "resume", "loadRead"}
          /\ ~run[c].inRun
      BY <1>1, <2>1 DEF AtGate, Revalidating, Holds
    <3>2. QED
      BY <1>1, <1>2, <3>1 DEF Holds, BeforeResume
  <2>2. CASE /\ run[c].pc \in {"recover", "skipBegin", "skipClaim", "skipDone", "retryBegin"}
             /\ pc \in {"skipBegin", "skipClaim", "skipDone", "skipPersist", "retryBegin", "retryPersist"}
    <3>1. /\ run[c].pc \notin {"idle", "init", "repair"} /\ pc \notin AtGate
          /\ pc \notin {"init", "repair", "closeRow", "resume", "loadRead", "gatePersist", "failPersist", "failClose"}
      BY <2>2 DEF AtGate, Revalidating
    <3>2. QED
      BY <1>1, <1>2, <3>1 DEF Holds, BeforeResume
  <2>3. QED
    BY <1>3, <2>1, <2>2 DEF Leads
<1>4. QED
  BY <1>3 DEF r

LEMMA GotoShapes ==
  ASSUME SafetyInv, ShapeInv, NEW c \in Coordinators, NEW pc, Goto(c, pc), Leads(run[c].pc, pc)
  PROVE  ShapeInv'
<1> DEFINE r == [run[c] EXCEPT !.pc = pc]
<1>1. r.pc # "idle" => Holds(r, op)
  BY LeadsFacts
<1>2. Settle(c, r, steps) /\ op' = op /\ Counts' /\ steps \in LedgerType
  BY DEF Goto, ShapeInv, Counts, SafetyInv, CoordinatorTypes
<1> HIDE DEF r
<1>3. QED
  BY <1>1, <1>2, SettleShapes DEF ShapeInv

LEMMA ReturnShapes ==
  ASSUME SafetyInv, ShapeInv, NEW c \in Coordinators, Return(c)
  PROVE  ShapeInv'
BY GotoShapes DEF Return, Leads

LEMMA LedgerShapes ==
  ASSUME SafetyInv, ShapeInv, NEW c \in Coordinators, NEW p \in Positions,
         NEW a \in AttemptType, AttemptShape(a), NEW pc, Ledger(c, p, a, pc), Leads(run[c].pc, pc)
  PROVE  ShapeInv'
<1> DEFINE r == [run[c] EXCEPT !.pc = pc]
           st == [steps EXCEPT ![p] = a]
<1>1. r.pc # "idle" => Holds(r, op)
  BY LeadsFacts
<1>2. Settle(c, r, st) /\ op' = op /\ Counts'
  BY DEF Ledger, ShapeInv, Counts
<1>3. st \in LedgerType /\ \A q \in Positions : AttemptShape(st[q])
  BY DEF ShapeInv, SafetyInv, CoordinatorTypes, LedgerType
<1> HIDE DEF r, st
<1>4. QED
  BY <1>1, <1>2, <1>3, SettleShapes

(* The four things that happen to an attempt.                              *)
LEMMA BeginShapes ==
  ASSUME SafetyInv, ShapeInv, NEW c \in Coordinators, NEW p \in Positions, NEW pc,
         BeginStepAttempt(c, p, pc), Leads(run[c].pc, pc)
  PROVE  ShapeInv'
<1>1. CASE op.done
  BY <1>1, ReturnShapes DEF BeginStepAttempt
<1>2. CASE ~op.done
  <2> DEFINE st == steps[p]
             a == Begun(st, c)
  <2>1. st \in AttemptType /\ AttemptShape(st) /\ Ledger(c, p, a, pc)
    BY <1>2 DEF SafetyInv, CoordinatorTypes, LedgerType, ShapeInv, BeginStepAttempt
  <2> HIDE DEF st
  <2>2. a \in AttemptType /\ AttemptShape(a)
    BY <2>1 DEF AttemptType, AttemptShape, Begun, OpenStatuses, ClosedStatuses
  <2> HIDE DEF a
  <2>3. QED
    BY <2>1, <2>2, LedgerShapes
<1>3. QED
  BY <1>1, <1>2

LEMMA ClaimShapes ==
  ASSUME SafetyInv, ShapeInv, NEW c \in Coordinators, NEW p \in Positions,
         NEW claimed, NEW onClosed, NEW onConflict,
         ClaimStepLease(c, p, claimed, onClosed, onConflict),
         Leads(run[c].pc, claimed), Leads(run[c].pc, onClosed), Leads(run[c].pc, onConflict)
  PROVE  ShapeInv'
<1>1. CASE op.done \/ c \notin steps[p].begun \/ ~Claimable(c, p)
  BY <1>1, GotoShapes DEF ClaimStepLease
<1>2. CASE ~op.done /\ c \in steps[p].begun /\ Claimable(c, p)
  <2> DEFINE st == steps[p]
             a == Claimed(st, c)
  <2>1. st \in AttemptType /\ AttemptShape(st) /\ Ledger(c, p, a, claimed) /\ c # Nobody
    BY <1>2 DEF SafetyInv, CoordinatorTypes, CoordinatorConstants, LedgerType, ShapeInv, ClaimStepLease
  <2> HIDE DEF st
  <2>2. a \in AttemptType /\ AttemptShape(a)
    BY <2>1 DEF AttemptType, AttemptShape, Claimed, OpenStatuses, ClosedStatuses
  <2> HIDE DEF a
  <2>3. QED
    BY <2>1, <2>2, LedgerShapes
<1>3. QED
  BY <1>1, <1>2

LEMMA CompleteShapes ==
  ASSUME SafetyInv, ShapeInv, NEW c \in Coordinators, NEW p \in Positions,
         NEW status \in {"succeeded", "skipped", "failed"}, NEW pc, NEW onError,
         CompleteStepAttempt(c, p, status, pc, onError),
         Leads(run[c].pc, pc), Leads(run[c].pc, onError)
  PROVE  ShapeInv'
<1>1. CASE ~(~op.done /\ Authorized(c, p))
  BY <1>1, GotoShapes DEF CompleteStepAttempt
<1>2. CASE ~op.done /\ Authorized(c, p)
  <2> DEFINE a == ClosedAs(status)
  <2>1. Ledger(c, p, a, pc)
    BY <1>2 DEF CompleteStepAttempt
  <2>2. a \in AttemptType /\ AttemptShape(a)
    BY DEF AttemptType, AttemptShape, ClosedAs, NoAttempt, ClosedStatuses
  <2> HIDE DEF a
  <2>3. QED
    BY <2>1, <2>2, LedgerShapes
<1>3. QED
  BY <1>1, <1>2

LEMMA ReleaseShapes ==
  ASSUME SafetyInv, ShapeInv, NEW c \in Coordinators, NEW pc, NEW onError,
         ReleaseStepLease(c, pc, onError), Leads(run[c].pc, pc), Leads(run[c].pc, onError)
  PROVE  ShapeInv'
<1> DEFINE p == run[c].m.position
<1>1. CASE ~(~op.done /\ Owns(c, p))
  BY <1>1, GotoShapes DEF ReleaseStepLease
<1>2. CASE ~op.done /\ Owns(c, p)
  <2> DEFINE st == steps[p]
             a == Released(st)
  <2>1. st \in AttemptType /\ AttemptShape(st) /\ Ledger(c, p, a, pc) /\ p \in Positions
        /\ st.status \in OpenStatuses
    BY <1>2, ReachedFacts
       DEF SafetyInv, CoordinatorTypes, LedgerType, ShapeInv, ReleaseStepLease, Owns, Open
  <2> HIDE DEF st, p
  <2>2. a \in AttemptType /\ AttemptShape(a)
    BY <2>1 DEF AttemptType, AttemptShape, Released
  <2> HIDE DEF a
  <2>3. QED
    BY <2>1, <2>2, LedgerShapes
<1>3. QED
  BY <1>1, <1>2

(* The steps on one attempt.                                               *)
LEMMA LeadsNames ==
  /\ \A from \in AtGate, to \in AtGate \cup {"replay", "gatePersist", "failPersist", "idle"} : Leads(from, to)
  /\ {"claimRead", "begin", "claim", "exec", "stepDone", "stepFail", "progress", "replayRelease",
      "dropClaim", "revalRead", "revalBegin", "revalClaim", "revalRun", "revalDone", "revalPersist",
      "revalFail", "revalFailDone"} \subseteq AtGate
  /\ \A from \in {"recover", "skipBegin", "skipClaim", "skipDone", "retryBegin"},
        to \in {"skipBegin", "skipClaim", "skipDone", "skipPersist", "retryBegin", "retryPersist", "idle"} :
       Leads(from, to)
BY DEF Leads, AtGate, Revalidating

LEMMA AttemptsShapes ==
  ASSUME SafetyInv, ShapeInv, NEW c \in Coordinators, Attempts(c)
  PROVE  ShapeInv'
<1> DEFINE m == run[c].m
<1>1. m.position \in Positions /\ m.recovery \in Positions
  BY ReachedFacts
<1>2. run[c].pc \in Revalidating => m.marker \in Positions
  BY ReachedFacts DEF RunOK
<1>3. CASE SkipBegin(c)
  BY <1>1, <1>3, BeginShapes, LeadsNames DEF SkipBegin
<1>4. CASE SkipClaim(c)
  BY <1>1, <1>4, ClaimShapes, LeadsNames DEF SkipClaim
<1>5. CASE SkipDone(c)
  BY <1>1, <1>5, CompleteShapes, LeadsNames DEF SkipDone
<1>6. CASE RetryBegin(c)
  BY <1>1, <1>6, BeginShapes, LeadsNames DEF RetryBegin
<1>7. CASE ClaimRead(c)
  BY <1>7, GotoShapes, LeadsNames DEF ClaimRead
<1>8. CASE BeginGate(c)
  BY <1>1, <1>8, BeginShapes, LeadsNames DEF BeginGate
<1>9. CASE ClaimGate(c)
  BY <1>1, <1>9, ClaimShapes, LeadsNames DEF ClaimGate
<1>10. CASE StepDone(c)
  BY <1>1, <1>10, CompleteShapes, LeadsNames DEF StepDone
<1>11. CASE StepFail(c)
  BY <1>1, <1>11, CompleteShapes, LeadsNames DEF StepFail
<1>12. CASE RevalidateRead(c)
  <2> DEFINE pc == CASE steps[m.marker].status \in {"none", "succeeded"} -> "revalBegin"
                     [] steps[m.marker].status = "failed" -> "replayRelease"
                     [] OTHER -> "dropClaim"
  <2>1. Goto(c, pc) /\ run[c].pc = "revalRead"
    BY <1>12 DEF RevalidateRead
  <2>2. pc \in {"revalBegin", "replayRelease", "dropClaim"}
    OBVIOUS
  <2> HIDE DEF pc
  <2>3. QED
    BY <2>1, <2>2, GotoShapes, LeadsNames
<1>13. CASE RevalidateBegin(c)
  <2>1. m.marker \in Positions
    BY <1>2, <1>13 DEF RevalidateBegin, Revalidating
  <2>2. QED
    BY <1>13, <2>1, GotoShapes, BeginShapes, LeadsNames DEF RevalidateBegin
<1>14. CASE RevalidateClaim(c)
  <2>1. m.marker \in Positions
    BY <1>2, <1>14 DEF RevalidateClaim, Revalidating
  <2>2. QED
    BY <1>14, <2>1, ClaimShapes, LeadsNames DEF RevalidateClaim
<1>15. CASE RevalidateRun(c)
  BY <1>15, GotoShapes, LeadsNames DEF RevalidateRun
<1>16. CASE RevalidateDone(c)
  <2>1. m.marker \in Positions
    BY <1>2, <1>16 DEF RevalidateDone, Revalidating
  <2>2. QED
    BY <1>16, <2>1, CompleteShapes, LeadsNames DEF RevalidateDone
<1>17. CASE RevalidateFail(c)
  BY <1>17, ReleaseShapes, LeadsNames DEF RevalidateFail
<1>18. CASE RevalidateFailDone(c)
  <2>1. m.marker \in Positions
    BY <1>2, <1>18 DEF RevalidateFailDone, Revalidating
  <2>2. QED
    BY <1>18, <2>1, CompleteShapes, LeadsNames DEF RevalidateFailDone
<1>19. CASE ReplayRelease(c)
  BY <1>19, ReleaseShapes, LeadsNames DEF ReplayRelease
<1>20. CASE DropClaim(c)
  BY <1>20, ReleaseShapes, LeadsNames DEF DropClaim
<1>21. CASE ReportProgress(c)
  <2> DEFINE st == steps[m.position]
  <2>1. PICK status \in OpenStatuses :
          IF ~op.done /\ Authorized(c, m.position)
          THEN Ledger(c, m.position, [st EXCEPT !.status = status], "progress")
          ELSE Return(c)
    BY <1>21 DEF ReportProgress
  <2> DEFINE a == [st EXCEPT !.status = status]
  <2>2. CASE ~op.done /\ Authorized(c, m.position)
    <3>1. st \in AttemptType /\ AttemptShape(st)
      BY <1>1 DEF SafetyInv, CoordinatorTypes, LedgerType, ShapeInv
    <3>2. Ledger(c, m.position, a, "progress") /\ run[c].pc = "exec"
      BY <1>21, <2>1, <2>2 DEF ReportProgress
    <3> HIDE DEF st
    <3>3. a \in AttemptType /\ AttemptShape(a)
      BY <3>1 DEF AttemptType, AttemptShape
    <3> HIDE DEF a
    <3>4. QED
      BY <1>1, <3>2, <3>3, LedgerShapes, LeadsNames
  <2>3. CASE ~(~op.done /\ Authorized(c, m.position))
    BY <2>1, <2>3, ReturnShapes
  <2>4. QED
    BY <2>2, <2>3
<1>22. QED
  BY <1>3, <1>4, <1>5, <1>6, <1>7, <1>8, <1>9, <1>10, <1>11, <1>12, <1>13, <1>14, <1>15,
     <1>16, <1>17, <1>18, <1>19, <1>20, <1>21 DEF Attempts

-----------------------------------------------------------------------------
(* Where storing a machine leads to: never further from a resume than the  *)
(* writer was.                                                             *)
Stored(c, m, pc) ==
    /\ pc \in Pcs \ (AtGate \cup {"init", "repair"}) \/ (pc \in AtGate /\ run[c].pc \in AtGate)
    /\ pc = "closeRow" => m.terminal # NoTerminal
    /\ BeforeResume([run[c] EXCEPT !.m = m, !.pc = pc]) => BeforeResume(run[c])

LEMMA StoreShapes ==
  ASSUME SafetyInv, ShapeInv, NEW c \in Coordinators, NEW m \in MachineType, NEW pc,
         Store(c, m, pc), Valid(m), run[c].fresh => m.forced = op.forced, Stored(c, m, pc)
  PROVE  ShapeInv'
<1>1. CASE ~(MayWrite(c) /\ ~op.done)
  BY <1>1, ReturnShapes DEF Store
<1>2. CASE MayWrite(c) /\ ~op.done
  <2> DEFINE row == [op EXCEPT !.state = m.state, !.snap = m, !.stored = TRUE, !.idle = FALSE]
             r == [run[c] EXCEPT !.m = m, !.pc = pc]
             k == [r EXCEPT !.fresh = TRUE]
  <2>1. /\ run[c] \in RunType /\ op \in RowType /\ m.forced = op.forced
        /\ Holds(run[c], op) /\ RowShape(op) /\ run[c].fresh
    BY <1>2 DEF MayWrite, SafetyInv, CoordinatorTypes, ShapeInv
  <2>2. m.state \in MachineStates
    BY DEF MachineType
  <2>3. /\ row \in RowType /\ row.snap = m /\ row.stored /\ row.state = m.state
        /\ row.forced = op.forced /\ row.done = op.done /\ row.terminal = op.terminal
        /\ row.attempts = op.attempts /\ row.decision = op.decision
    BY <2>1, <2>2 DEF RowType
  <2>4. pc \in Pcs /\ pc \notin {"init", "repair"}
    BY DEF Stored, AtGate, Revalidating, Pcs
  <2>5. /\ r \in RunType /\ r.pc = pc /\ k.pc = pc /\ k.m = m /\ k.inRun = run[c].inRun
        /\ k.req = run[c].req /\ r.inRun = run[c].inRun /\ r.req = run[c].req /\ k.fresh
    BY <2>1, <2>4 DEF RunType
  <2>6. Write(c, row, r)
    BY <1>2 DEF Store
  <2>7. BeforeResume(r) => BeforeResume(run[c])
    BY DEF Stored
  <2> HIDE DEF row, r, k
  <2>8. RowShape(row)
    BY <2>1, <2>3 DEF RowShape, Agrees
  <2>9. BeforeResume(k) => op.attempts <= MaxRetries
    BY <2>1, <2>5, <2>7 DEF Holds, BeforeResume
  <2>10. pc \in AtGate => ~run[c].inRun
    BY <2>1 DEF Stored, Holds
  <2>11. Holds(k, row)
    BY <2>1, <2>3, <2>4, <2>5, <2>9, <2>10 DEF Holds, Stored
  <2>12. QED
    BY <2>3, <2>5, <2>6, <2>8, <2>11, WriteShapes DEF k
<1>3. QED
  BY <1>1, <1>2

(* Storing what the state machine makes of the machine that c holds.       *)
LEMMA PersistShapes ==
  ASSUME SafetyInv, ShapeInv, NEW c \in Coordinators, NEW t, IsRequest(t), NEW pc,
         ValidateLifecycleTransition(run[c].m, t)
            => /\ Store(c, ApplyLifecycleTransition(run[c].m, t), pc)
               /\ ApplyLifecycleTransition(run[c].m, t) \in MachineType
               /\ Stored(c, ApplyLifecycleTransition(run[c].m, t), pc),
         ~ValidateLifecycleTransition(run[c].m, t) => Return(c),
         run[c].fresh => (run[c].m.forced \/ t.escalate) = op.forced
  PROVE  ShapeInv'
<1> DEFINE m == ApplyLifecycleTransition(run[c].m, t)
<1>1. CASE ~ValidateLifecycleTransition(run[c].m, t)
  BY <1>1, ReturnShapes
<1>2. CASE ValidateLifecycleTransition(run[c].m, t)
  <2>1. Valid(run[c].m) /\ IsTransition(t)
    BY DEF ShapeInv, Holds, IsRequest, IsTransition, MachineTerminals, FailureTerminals
  <2>2. Valid(m) /\ m.forced = (run[c].m.forced \/ t.escalate)
    BY <1>2, <2>1, TransitionKeepsValid
  <2>3. Store(c, m, pc) /\ m \in MachineType /\ Stored(c, m, pc)
    BY <1>2
  <2> HIDE DEF m
  <2>4. QED
    BY <2>2, <2>3, StoreShapes
<1>3. QED
  BY <1>1, <1>2

(* The places a machine may be stored on the way to.                       *)
LEMMA StoredFacts ==
  ASSUME SafetyInv, NEW c \in Coordinators, NEW m, NEW pc,
         \/ pc \in {"recover", "replay", "succeed", "advance", "close", "idle"}
         \/ pc = "exec" /\ run[c].pc \in {"revalPersist", "progress"}
         \/ pc = "failClose" /\ run[c].pc = "failPersist"
         \/ /\ pc \in {"closeRow", "resume", "loadRead"} /\ (pc = "closeRow" => m.terminal # NoTerminal)
            /\ pc = "resume" => run[c].req.retry
            /\ run[c].pc \in {"init", "repair"} \/ (run[c].pc = "gatePersist" /\ run[c].inRun)
  PROVE  Stored(c, m, pc)
<1> DEFINE r == [run[c] EXCEPT !.m = m, !.pc = pc]
<1>1. run[c] \in RunType
  BY DEF SafetyInv, CoordinatorTypes
<1>2. r.pc = pc /\ r.inRun = run[c].inRun /\ r.req = run[c].req
  BY <1>1 DEF RunType
<1> HIDE DEF r
<1>3. BeforeResume(r) => BeforeResume(run[c])
  BY <1>2 DEF BeforeResume
<1>4. \/ pc \in Pcs \ (AtGate \cup {"init", "repair"})
      \/ pc \in AtGate /\ run[c].pc \in AtGate
  BY DEF Pcs, AtGate, Revalidating
<1>5. QED
  BY <1>3, <1>4 DEF Stored, r

LEMMA CheckFacts ==
  ASSUME NEW r
  PROVE  /\ CheckPc(r) = "closeRow" => r.m.terminal # NoTerminal
         /\ AfterGate(r) = "closeRow" => r.m.terminal # NoTerminal
         /\ AfterGate(r) \in {"closeRow", "resume"} => r.inRun
         /\ CheckPc(r) = "resume" \/ AfterGate(r) = "resume" => r.req.retry
<1>1. \A x : DrivePc(x) \in {"recover", "replay", "succeed", "advance"}
  BY DEF DrivePc
<1>2. /\ CheckPc(r) = "closeRow" => r.m.terminal # NoTerminal
      /\ CheckPc(r) = "resume" => r.req.retry
  BY <1>1 DEF CheckPc
<1>3. QED
  BY <1>1, <1>2 DEF AfterGate

(* The steps that store a machine.                                         *)
LEMMA StoresShapes ==
  ASSUME SafetyInv, ShapeInv, NEW c \in Coordinators, Stores(c)
  PROVE  ShapeInv'
<1> DEFINE m == run[c].m
           After(t) == ApplyLifecycleTransition(m, t)
           Kept(t, pc) == /\ ValidateLifecycleTransition(m, t) => Store(c, After(t), pc)
                          /\ ~ValidateLifecycleTransition(m, t) => Return(c)
           Moved(k) == [run[c] EXCEPT !.m = k]
<1>1. /\ run[c] \in RunType /\ m \in MachineType /\ Legal(m, everDone)
      /\ op \in RowType /\ op.forced \in BOOLEAN /\ m.forced \in BOOLEAN
      /\ RunOK(run[c], op, everDone) /\ Holds(run[c], op) /\ Valid(m)
      /\ op.forced => Operation = "uninstall"
  BY ReachedFacts DEF MachineType, RowType, RunOK, ShapeInv, RowShape, Holds
<1>2. /\ \A x : DrivePc(x) \in {"recover", "replay", "succeed", "advance"}
      /\ \A x : /\ CheckPc(x) \in {"closeRow", "resume", "idle", "recover", "replay", "succeed", "advance"}
                /\ AfterGate(x) \in {"closeRow", "resume", "idle", "recover", "replay", "succeed", "advance"}
                /\ CheckPc(x) = "closeRow" => x.m.terminal # NoTerminal
                /\ AfterGate(x) = "closeRow" => x.m.terminal # NoTerminal
                /\ AfterGate(x) \in {"closeRow", "resume"} => x.inRun
                /\ CheckPc(x) = "resume" \/ AfterGate(x) = "resume" => x.req.retry
  BY PcFacts, CheckFacts
<1>3. \A k : Moved(k).m = k /\ Moved(k).inRun = run[c].inRun /\ Moved(k).req = run[c].req
  BY <1>1 DEF RunType
<1>4. run[c].fresh /\ run[c].pc \notin {"init", "repair"} => m.forced = op.forced
  BY <1>1 DEF Holds
<1>5. ASSUME NEW t, IsRequest(t), NEW pc, Kept(t, pc),
             t.complete => m.position \in everDone, t.skip => m.recovery \in everDone,
             ValidateLifecycleTransition(m, t) => Stored(c, After(t), pc),
             run[c].fresh => (m.forced \/ t.escalate) = op.forced
      PROVE  ShapeInv'
  <2>1. ValidateLifecycleTransition(m, t) => Legal(After(t), everDone)
    BY <1>1, <1>5, ApplyLegal
  <2>2. ValidateLifecycleTransition(m, t) => After(t) \in MachineType
    BY <2>1 DEF Legal
  <2> HIDE DEF m
  <2>3. QED
    BY <1>5, <2>2, PersistShapes DEF m
<1>6. CASE InitializeMachine(c)
  <2> DEFINE k == FirstMachine(op.forced)
  <2>1. Store(c, k, "loadRead") /\ run[c].pc = "init"
    BY <1>6 DEF InitializeMachine
  <2>2. k \in MachineType /\ Valid(k) /\ k.forced = op.forced
    BY <1>1, FirstFacts, FirstIsValid
  <2> HIDE DEF k
  <2>3. Stored(c, k, "loadRead")
    BY <2>1, StoredFacts
  <2>4. QED
    BY <2>1, <2>2, <2>3, StoreShapes
<1>7. CASE RepairRecovery(c)
  <2> DEFINE e == op.forced /\ ~m.forced
             t == RetryFailed(m, e)
             pc == CheckPc(Moved(After(t)))
  <2>1. Kept(t, pc) /\ run[c].pc = "repair"
    BY <1>7 DEF RepairRecovery, Persist
  <2>2. IsRequest(t) /\ ~t.skip /\ ~t.complete /\ t.escalate = e
    BY <1>1, RequestFacts DEF RetryFailed, Request
  <2>3. run[c].fresh => (m.forced \/ e) = op.forced
    BY <1>1 DEF Holds
  <2> HIDE DEF m, t, e
  <2>4. Stored(c, After(t), pc)
    <3> DEFINE k == After(t)
    <3> HIDE DEF k
    <3>1. Stored(c, k, CheckPc(Moved(k)))
      BY <1>2, <1>3, <2>1, StoredFacts
    <3>2. QED
      BY <3>1 DEF k
  <2> HIDE DEF pc
  <2>5. QED
    BY <1>5, <2>1, <2>2, <2>3, <2>4
<1>8. CASE PersistGate(c)
  <2> DEFINE t == CompleteGate(m)
             pc == AfterGate(Moved(After(t)))
  <2>1. Kept(t, pc) /\ run[c].pc = "gatePersist"
    BY <1>8 DEF PersistGate, Persist
  <2>2. IsRequest(t) /\ ~t.skip /\ ~t.escalate
    BY <1>1, RequestFacts DEF CompleteGate, Request
  <2>3. m.position \in everDone
    BY <1>1, <2>1 DEF RunOK
  <2> HIDE DEF m, t
  <2>4. Stored(c, After(t), pc)
    <3> DEFINE k == After(t)
    <3> HIDE DEF k
    <3>1. Stored(c, k, AfterGate(Moved(k)))
      BY <1>2, <1>3, <2>1, StoredFacts
    <3>2. QED
      BY <3>1 DEF k
  <2>5. run[c].fresh => (m.forced \/ t.escalate) = op.forced
    BY <1>1, <1>4, <2>1, <2>2
  <2> HIDE DEF pc
  <2>6. QED
    BY <1>5, <2>1, <2>2, <2>3, <2>4, <2>5
<1>9. ASSUME NEW t, IsRequest(t), ~t.skip, ~t.complete, ~t.escalate, NEW pc, Kept(t, pc),
             Stored(c, After(t), pc), run[c].pc \notin {"init", "repair"}
      PROVE  ShapeInv'
  <2>1. run[c].fresh => (m.forced \/ t.escalate) = op.forced
    BY <1>1, <1>4, <1>9
  <2>2. QED
    BY <1>5, <1>9, <2>1
<1>10. CASE PersistFailure(c)
  <2> DEFINE t == FailGate(m)
  <2>1. Kept(t, "failClose") /\ run[c].pc = "failPersist"
    BY <1>10 DEF PersistFailure, Persist
  <2>2. IsRequest(t) /\ ~t.skip /\ ~t.complete /\ ~t.escalate
    BY <1>1, RequestFacts DEF FailGate, Request
  <2> HIDE DEF m, t
  <2>3. Stored(c, After(t), "failClose")
    BY <2>1, StoredFacts
  <2>4. QED
    BY <1>9, <2>1, <2>2, <2>3
<1>11. CASE PersistResumed(c)
  <2>1. Store(c, m, DrivePc(m)) /\ run[c].pc = "resumePersist"
    BY <1>11 DEF PersistResumed
  <2>2. Stored(c, m, DrivePc(m))
    BY <1>2, StoredFacts
  <2>3. QED
    BY <1>1, <1>4, <2>1, <2>2, StoreShapes
<1>12. CASE PersistRecoverySkip(c)
  <2> DEFINE t == SkipFailed(m)
             pc == DrivePc(After(t))
  <2>1. Kept(t, pc) /\ run[c].pc = "skipPersist"
    BY <1>12 DEF PersistRecoverySkip, Persist
  <2>2. IsRequest(t) /\ ~t.complete /\ ~t.escalate
    BY <1>1, RequestFacts DEF SkipFailed, Request
  <2>3. m.recovery \in everDone
    BY <1>1, <2>1 DEF RunOK
  <2> HIDE DEF m, t
  <2>4. Stored(c, After(t), pc)
    BY <1>2, StoredFacts
  <2>5. run[c].fresh => (m.forced \/ t.escalate) = op.forced
    BY <1>1, <1>4, <2>1, <2>2
  <2> HIDE DEF pc
  <2>6. QED
    BY <1>5, <2>1, <2>2, <2>3, <2>4, <2>5
<1>13. CASE RetryPersist(c)
  <2> DEFINE t == Reenter(m)
             pc == DrivePc(After(t))
  <2>1. Kept(t, pc) /\ run[c].pc = "retryPersist"
    BY <1>13 DEF RetryPersist, Persist
  <2>2. IsRequest(t) /\ ~t.skip /\ ~t.complete /\ ~t.escalate
    BY <1>1, RequestFacts DEF Reenter, Request
  <2> HIDE DEF m, t
  <2>3. Stored(c, After(t), pc)
    BY <1>2, StoredFacts
  <2> HIDE DEF pc
  <2>4. QED
    BY <1>9, <2>1, <2>2, <2>3
<1>14. IsRequest(StayAtGate(m)) /\ ~StayAtGate(m).skip /\ ~StayAtGate(m).complete /\ ~StayAtGate(m).escalate
  BY <1>1, RequestFacts DEF StayAtGate, Request
<1>15. CASE RevalidatePersist(c)
  <2>1. CASE MayWrite(c) /\ ~op.done
    <3>1. Kept(StayAtGate(m), "exec") /\ run[c].pc = "revalPersist"
      BY <1>15, <2>1 DEF RevalidatePersist, Persist
    <3>2. Stored(c, After(StayAtGate(m)), "exec")
      BY <3>1, StoredFacts
    <3>3. QED
      BY <1>9, <1>14, <3>1, <3>2
  <2>2. CASE ~(MayWrite(c) /\ ~op.done)
    BY <1>15, <2>2, GotoShapes, LeadsNames DEF RevalidatePersist
  <2>3. QED
    BY <2>1, <2>2
<1>16. CASE PersistProgress(c)
  <2>1. Kept(StayAtGate(m), "exec") /\ run[c].pc = "progress"
    BY <1>16 DEF PersistProgress, Persist
  <2>2. Stored(c, After(StayAtGate(m)), "exec")
    BY <2>1, StoredFacts
  <2>3. QED
    BY <1>9, <1>14, <2>1, <2>2
<1>17. CASE AdvanceGate(c)
  <2> DEFINE t == NextGate(m)
             pc == DrivePc(After(t))
  <2>1. Kept(t, pc) /\ run[c].pc = "advance"
    BY <1>17 DEF AdvanceGate, Persist
  <2>2. IsRequest(t) /\ ~t.skip /\ ~t.complete /\ ~t.escalate
    BY <1>1, RequestFacts DEF NextGate, Request
  <2> HIDE DEF m, t
  <2>3. Stored(c, After(t), pc)
    BY <1>2, StoredFacts
  <2> HIDE DEF pc
  <2>4. QED
    BY <1>9, <2>1, <2>2, <2>3
<1>18. CASE PersistSuccess(c)
  <2> DEFINE t == Succeed(m)
  <2>1. Kept(t, "close") /\ run[c].pc = "succeed"
    BY <1>18 DEF PersistSuccess, Persist
  <2>2. IsRequest(t) /\ ~t.skip /\ ~t.complete /\ ~t.escalate
    BY <1>1, RequestFacts DEF Succeed, Request
  <2> HIDE DEF m, t
  <2>3. Stored(c, After(t), "close")
    BY <2>1, StoredFacts
  <2>4. QED
    BY <1>9, <2>1, <2>2, <2>3
<1>19. QED
  BY <1>6, <1>7, <1>8, <1>10, <1>11, <1>12, <1>13, <1>15, <1>16, <1>17, <1>18 DEF Stores

(* A gate that the host ran leaves a valid machine.                        *)
LEMMA HostMarkedValid ==
  ASSUME NEW m, Valid(m), m.operation = Operation, IsHostGate(Operation, m.position),
         m.terminal # "skipped"
  PROVE  LET k == HostMarked(m, m.position) IN
         Valid(k) /\ k.forced = m.forced /\ k.terminal = m.terminal
<1> DEFINE p == m.position
           k == HostMarked(m, p)
<1>1. /\ m \in Snapshots(Operation) /\ p \in PathOf(Operation) /\ Operation \in Operations
      /\ m.forced => Operation = "uninstall"
      /\ m.marker # NoMarker => IsHostGate(Operation, m.marker)
  BY ValidFacts DEF Valid
<1>2. /\ k \in Snapshots(Operation) /\ k.forced = m.forced /\ k.terminal = m.terminal
      /\ k.position = p /\ k.state = m.state /\ k.action = m.action /\ k.recovery = m.recovery
      /\ k.complete = m.complete /\ k.units = m.units /\ k.marker \in {p, m.marker}
  BY <1>1 DEF HostMarked, Snapshots
<1> HIDE DEF k
<1>3. k.marker # NoMarker => IsHostGate(Operation, k.marker)
  BY <1>1, <1>2
<1>4. \/ m.state = "failed" /\ m.terminal \in FailureTerminals /\ m.recovery = p
         /\ m.action = GateAt(Operation, p).action /\ ~m.complete
      \/ m.state = "recovery" /\ m.terminal = NoTerminal /\ m.recovery = p
         /\ m.action = NoAction /\ ~m.complete
      \/ /\ m.state = GateAt(Operation, p).state /\ m.action = GateAt(Operation, p).action
         /\ m.terminal \notin FailureTerminals
         /\ m.terminal = "succeeded" =>
              p = LastPosition(Operation) /\ m.complete /\ m.units = LastPosition(Operation)
  BY ValidFacts
<1>5. Valid(k)
  BY <1>1, <1>2, <1>3, <1>4, ValidBy
<1>6. QED
  BY <1>2, <1>5 DEF k

(* The machine of an invocation.                                           *)
LEMMA MachineFacts ==
  ASSUME SafetyInv, ShapeInv, NEW c \in Coordinators
  PROVE  /\ Valid(run[c].m) /\ Holds(run[c], op) /\ RowShape(op)
         /\ run[c].m.operation = Operation /\ run[c].m.terminal # "skipped"
         /\ run[c].m.forced \in BOOLEAN /\ op.forced \in BOOLEAN
<1>1. run[c].m \in MachineType /\ op \in RowType
  BY ReachedFacts
<1>2. Holds(run[c], op) /\ RowShape(op)
  BY DEF ShapeInv
<1>3. QED
  BY <1>1, <1>2 DEF Holds, MachineType, RowType, NoTerminal

LEMMA ReconcileShapes ==
  ASSUME SafetyInv, ShapeInv, NEW c \in Coordinators, Reconcile(c)
  PROVE  ShapeInv'
<1> DEFINE m == run[c].m
           p == m.position
           host == IsHostGate(Operation, p)
           pc == CASE steps[p].status \in {"succeeded", "skipped"} -> "gatePersist"
                   [] steps[p].status = "failed" -> "failPersist"
                   [] OTHER -> IF run[c].pc = "replay" THEN "claimRead" ELSE CheckPc(run[c])
           k == IF pc = "gatePersist" /\ host THEN HostMarked(m, p) ELSE m
           r == [run[c] EXCEPT !.pc = pc, !.inRun = (run[c].pc = "loadRead"), !.m = k]
<1>1. CASE steps[p].status = "skipped" /\ host
  BY <1>1, ReturnShapes DEF Reconcile
<1>2. CASE ~(steps[p].status = "skipped" /\ host)
  <2>1. /\ Settle(c, r, steps) /\ op' = op /\ UNCHANGED <<candidate, crashes, late>>
        /\ run[c].pc \in {"loadRead", "replay"}
    BY <1>2 DEF Reconcile
  <2>2. /\ run[c] \in RunType /\ RunOK(run[c], op, everDone) /\ steps \in LedgerType
        /\ Valid(m) /\ Holds(run[c], op) /\ m.operation = Operation /\ m.terminal # "skipped"
    BY ReachedFacts, MachineFacts DEF SafetyInv, CoordinatorTypes
  <2>3. Valid(k) /\ k.forced = m.forced
    BY <2>2, HostMarkedValid
  <2>4. /\ pc \in {"gatePersist", "failPersist", "claimRead", "closeRow", "resume", "idle",
                   "recover", "replay", "succeed", "advance"}
        /\ pc = "claimRead" => run[c].pc = "replay"
        /\ pc \in {"closeRow", "resume"} => k = m /\ run[c].pc = "loadRead"
        /\ pc = "closeRow" => m.terminal # NoTerminal
        /\ pc = "resume" => run[c].req.retry
    BY <2>1, PcFacts, CheckFacts
  <2> HIDE DEF k, pc
  <2>5. /\ r.pc = pc /\ r.m = k /\ r.fresh = run[c].fresh /\ r.req = run[c].req
        /\ r.inRun = (run[c].pc = "loadRead")
    BY <2>2 DEF RunType
  <2>6. run[c].pc = "loadRead" /\ run[c].fresh => m = op.snap
    BY <2>2 DEF RunOK, Synced
  <2>7. pc \notin AtGate \cup {"init", "repair"} \/ pc = "claimRead"
    BY <2>4 DEF AtGate, Revalidating
  <2>8. BeforeResume(r) => BeforeResume(run[c])
    BY <2>1, <2>4, <2>5 DEF BeforeResume
  <2> HIDE DEF r, m
  <2>9. op.stored /\ (run[c].fresh => run[c].m.forced = op.forced)
    BY <2>1, <2>2 DEF Holds
  <2>10. Holds(r, op)
    BY <2>1, <2>2, <2>3, <2>4, <2>5, <2>6, <2>7, <2>8, <2>9 DEF Holds, m
  <2>11. QED
    BY <2>1, <2>2, <2>10, SettleShapes DEF ShapeInv, Counts
<1>3. QED
  BY <1>1, <1>2

LEMMA GateEndsShapes ==
  ASSUME SafetyInv, ShapeInv, NEW c \in Coordinators, GateEnds(c)
  PROVE  ShapeInv'
<1> DEFINE m == run[c].m
           k == IF IsHostGate(Operation, m.position) THEN HostMarked(m, m.position) ELSE m
           r == [run[c] EXCEPT !.pc = "stepDone", !.inRun = FALSE, !.revalidate = FALSE, !.m = k]
           s == [run[c] EXCEPT !.pc = "stepFail", !.inRun = FALSE]
<1>1. /\ run[c] \in RunType /\ steps \in LedgerType /\ run[c].pc = "exec"
      /\ Valid(m) /\ Holds(run[c], op) /\ m.operation = Operation /\ m.terminal # "skipped"
  BY ReachedFacts, MachineFacts DEF SafetyInv, CoordinatorTypes, GateEnds
<1>2. /\ Settle(c, r, steps) \/ Settle(c, s, steps)
      /\ op' = op /\ UNCHANGED <<candidate, crashes, late>>
  BY DEF GateEnds
<1>3. Valid(k) /\ k.forced = m.forced
  BY <1>1, HostMarkedValid
<1> HIDE DEF k
<1>4. /\ r.pc = "stepDone" /\ r.m = k /\ r.fresh = run[c].fresh /\ r.req = run[c].req /\ ~r.inRun
      /\ s.pc = "stepFail" /\ s.m = m /\ s.fresh = run[c].fresh /\ s.req = run[c].req /\ ~s.inRun
  BY <1>1 DEF RunType
<1> HIDE DEF r, s
<1>5. ~BeforeResume(r) /\ ~BeforeResume(s)
  BY <1>4 DEF BeforeResume
<1>6. op.stored /\ (run[c].fresh => m.forced = op.forced)
  BY <1>1 DEF Holds
<1> HIDE DEF m
<1>7. Holds(r, op) /\ Holds(s, op)
  BY <1>1, <1>3, <1>4, <1>5, <1>6 DEF Holds
<1>8. QED
  BY <1>1, <1>2, <1>7, SettleShapes DEF ShapeInv, Counts

(* Closing the row, with the outcome of the machine that c has stored.     *)
LEMMA CloseShapes ==
  ASSUME SafetyInv, ShapeInv, NEW c \in Coordinators, run[c].pc \in Synced,
         NEW terminal, terminal = run[c].m.terminal, terminal # NoTerminal,
         NEW pc, pc \in {"idle", "resume"}, pc = "resume" => BeforeResume(run[c]),
         IF MayWrite(c) /\ ~op.done
         THEN Write(c, [op EXCEPT !.state = run[c].m.state, !.terminal = terminal,
                                  !.done = TRUE, !.idle = FALSE],
                    [run[c] EXCEPT !.pc = pc])
         ELSE Return(c)
  PROVE  ShapeInv'
<1>1. CASE ~(MayWrite(c) /\ ~op.done)
  BY <1>1, ReturnShapes
<1>2. CASE MayWrite(c) /\ ~op.done
  <2> DEFINE row == [op EXCEPT !.state = run[c].m.state, !.terminal = terminal,
                               !.done = TRUE, !.idle = FALSE]
             r == [run[c] EXCEPT !.pc = pc]
             k == [r EXCEPT !.fresh = TRUE]
  <2>1. /\ run[c] \in RunType /\ op \in RowType /\ run[c].m \in MachineType
        /\ run[c].m = op.snap /\ Holds(run[c], op) /\ RowShape(op) /\ run[c].fresh
    BY <1>2, ReachedFacts, MachineFacts DEF RunOK, MayWrite
  <2>2. run[c].m.state \in MachineStates /\ terminal \in Outcomes /\ run[c].m.forced \in BOOLEAN
    BY <2>1 DEF MachineType, Outcomes
  <2>3. /\ row \in RowType /\ row.snap = op.snap /\ row.terminal = terminal /\ row.done
        /\ row.stored = op.stored /\ row.state = run[c].m.state /\ row.forced = op.forced
        /\ row.attempts = op.attempts /\ row.decision = op.decision
    BY <2>1, <2>2 DEF RowType
  <2>4. pc \in Pcs
    BY DEF Pcs
  <2>5. r \in RunType /\ r.pc = pc /\ k.m = op.snap /\ k.pc = pc /\ k.fresh
    BY <2>1, <2>4 DEF RunType
  <2>6. Write(c, row, r)
    BY <1>2
  <2>7. run[c].pc \notin {"idle", "init", "repair"}
    BY DEF Synced
  <2>8. op.stored /\ op.snap.forced = op.forced
    BY <2>1, <2>7 DEF Holds
  <2> HIDE DEF row, r, k
  <2>9. RowShape(row)
    BY <2>1, <2>3, <2>8 DEF RowShape, Agrees
  <2>10. pc = "resume" => Holds(k, row)
    BY <2>1, <2>3, <2>5, <2>8 DEF Holds, RowShape, AtGate, Revalidating
  <2>11. QED
    BY <2>3, <2>5, <2>6, <2>8, <2>9, <2>10, WriteShapes DEF k
<1>3. QED
  BY <1>1, <1>2

LEMMA ClosesShapes ==
  ASSUME SafetyInv, ShapeInv, NEW c \in Coordinators,
         CloseFailed(c) \/ ReconcileTerminal(c) \/ CloseSucceeded(c)
  PROVE  ShapeInv'
<1> DEFINE m == run[c].m
           Ended(terminal) == [run[c] EXCEPT !.done = TRUE, !.terminal = terminal]
           Closes(terminal, pc) ==
               IF MayWrite(c) /\ ~op.done
               THEN Write(c, [op EXCEPT !.state = m.state, !.terminal = terminal,
                                        !.done = TRUE, !.idle = FALSE],
                          [run[c] EXCEPT !.pc = pc])
               ELSE Return(c)
<1>1. RunOK(run[c], op, everDone) /\ run[c] \in RunType /\ Holds(run[c], op)
  BY ReachedFacts, MachineFacts
<1>2. ASSUME NEW terminal
      PROVE  /\ CheckPc(Ended(terminal)) \in {"idle", "resume"}
             /\ CheckPc(Ended(terminal)) = "resume" => run[c].req.retry
             /\ Ended(terminal).inRun = run[c].inRun
  <2>1. /\ Ended(terminal).done /\ Ended(terminal).inRun = run[c].inRun
        /\ Ended(terminal).req = run[c].req
    BY <1>1 DEF RunType
  <2> HIDE DEF Ended
  <2>2. QED
    BY <2>1 DEF CheckPc
<1>3. CASE CloseFailed(c)
  <2> DEFINE pc == IF Ended("failed").inRun THEN CheckPc(Ended("failed")) ELSE "idle"
  <2>1. Closes("failed", pc) /\ run[c].pc = "failClose"
    BY <1>3 DEF CloseFailed, CloseRow
  <2>2. pc \in {"idle", "resume"} /\ (pc = "resume" => BeforeResume(run[c]))
    BY <1>2, <2>1 DEF BeforeResume
  <2>3. m.terminal = "failed"
    BY <1>1, <2>1 DEF RunOK
  <2> HIDE DEF pc
  <2>4. QED
    BY <2>1, <2>2, <2>3, CloseShapes DEF Synced, NoTerminal
<1>4. CASE ReconcileTerminal(c)
  <2> DEFINE pc == CheckPc(Ended(m.terminal))
  <2>1. Closes(m.terminal, pc) /\ run[c].pc = "closeRow"
    BY <1>4 DEF ReconcileTerminal, CloseRow
  <2>2. pc \in {"idle", "resume"} /\ (pc = "resume" => BeforeResume(run[c]))
    BY <1>2, <2>1 DEF BeforeResume
  <2>3. m.terminal # NoTerminal
    BY <1>1, <2>1 DEF Holds
  <2> HIDE DEF pc
  <2>4. QED
    BY <2>1, <2>2, <2>3, CloseShapes DEF Synced
<1>5. CASE CloseSucceeded(c)
  <2>1. Closes("succeeded", "idle") /\ run[c].pc = "close"
    BY <1>5 DEF CloseSucceeded, CloseRow
  <2>2. m.terminal = "succeeded"
    BY <1>1, <2>1 DEF RunOK
  <2>3. QED
    BY <2>1, <2>2, CloseShapes DEF Synced, NoTerminal
<1>6. QED
  BY <1>3, <1>4, <1>5

(* A resume leaves a row in recovery whose machine still failed.           *)
LEMMA ResumeShapes ==
  ASSUME SafetyInv, ShapeInv, NEW c \in Coordinators, Resume(c)
  PROVE  ShapeInv'
<1> DEFINE m == run[c].m
           t == RetryFailed(m, run[c].req.escalate)
           k == Recovered(c)
           decision == IF run[c].req.skip THEN "skip_step" ELSE "retry"
           forced == op.forced \/ run[c].req.escalate
           row == [op EXCEPT !.state = "recovery", !.terminal = NoTerminal, !.done = FALSE,
                       !.attempts = op.attempts + 1, !.decision = decision, !.forced = forced,
                       !.idle = FALSE]
           r == [run[c] EXCEPT !.pc = "resumePersist", !.m = k]
           f == [r EXCEPT !.fresh = TRUE]
<1>1. CASE ~(MayWrite(c) /\ Resumable(c))
  BY <1>1, ReturnShapes DEF Resume
<1>2. CASE MayWrite(c) /\ Resumable(c)
  <2>1. /\ Write(c, row, r) /\ ValidateLifecycleTransition(m, t) /\ run[c].pc = "resume"
        /\ run[c].req.escalate => Operation = "uninstall"
    BY <1>2 DEF Resume, Resumable
  <2>2. /\ run[c] \in RunType /\ op \in RowType /\ m \in MachineType /\ Legal(m, everDone)
        /\ run[c].fresh /\ run[c].req.escalate \in BOOLEAN /\ op.forced \in BOOLEAN
        /\ Valid(m) /\ Holds(run[c], op) /\ RowShape(op) /\ m.operation = Operation
    BY <1>2, ReachedFacts, MachineFacts DEF RunOK, MayWrite, RunType
  <2>3. IsRequest(t) /\ ~t.skip /\ ~t.complete /\ t.retry /\ t.escalate = run[c].req.escalate
    BY <2>2, RequestFacts DEF RetryFailed, Request
  <2>4. IsTransition(t)
    BY <2>3 DEF IsRequest, IsTransition, MachineTerminals, FailureTerminals
  <2>5. m.terminal \in FailureTerminals
    BY <2>1, <2>3 DEF ValidateLifecycleTransition, validateLifecycleRetry
  <2>6. m.state = "failed"
    BY <2>2, <2>5, ValidFacts DEF NoTerminal, FailureTerminals
  <2>7. /\ m = op.snap /\ m.forced = op.forced /\ op.stored /\ op.attempts <= MaxRetries
    BY <2>1, <2>2 DEF Holds, BeforeResume
  <2>8. k = ApplyLifecycleTransition(m, t)
    BY DEF Recovered
  <2> HIDE DEF t
  <2>9. Legal(k, everDone)
    BY <2>1, <2>2, <2>3, <2>8, ApplyLegal
  <2>10. Valid(k) /\ k.forced = (m.forced \/ run[c].req.escalate)
    BY <2>1, <2>2, <2>3, <2>4, <2>8, TransitionKeepsValid
  <2> HIDE DEF k
  <2>11. /\ "recovery" \in MachineStates /\ NoTerminal \in Outcomes /\ decision \in Decisions
         /\ forced \in BOOLEAN /\ op.attempts + 1 \in Nat /\ decision # NoDecision
    BY <2>2 DEF MachineStates, Outcomes, Decisions, RowType, NoDecision
  <2> HIDE DEF decision
  <2>12. k \in MachineType /\ "resumePersist" \in Pcs
    BY <2>9 DEF Legal, Pcs
  <2>13. /\ r \in RunType /\ f.pc = "resumePersist" /\ f.m = k /\ f.fresh /\ r.pc = "resumePersist"
    BY <2>2, <2>12 DEF RunType
  <2>14. /\ row \in RowType /\ row.snap = op.snap /\ row.done = FALSE /\ row.terminal = NoTerminal
         /\ row.stored /\ row.state = "recovery" /\ row.forced = forced
         /\ row.attempts = op.attempts + 1 /\ row.decision = decision
    BY <2>2, <2>7, <2>11 DEF RowType
  <2> HIDE DEF row, r, f
  <2>15. MaxRetries \in Nat /\ op.attempts \in Nat /\ op.attempts >= 1
    BY <2>2, SwitchAssumption DEF RowShape, RowType
  <2>16. RowShape(row)
    <3>1. Valid(row.snap) /\ (row.forced => Operation = "uninstall") /\ (row.snap.forced => row.forced)
      BY <2>1, <2>2, <2>7, <2>14 DEF RowShape
    <3>2. row.done = (row.terminal # NoTerminal)
      BY <2>14
    <3>3. row.attempts \in 1..(MaxRetries + 1) /\ (row.decision = NoDecision <=> row.attempts = 1)
      BY <2>7, <2>11, <2>14, <2>15
    <3>4. Agrees(row)
      BY <2>6, <2>7, <2>14 DEF Agrees
    <3>5. QED
      BY <3>1, <3>2, <3>3, <3>4 DEF RowShape
  <2>17. Holds(f, row)
    BY <2>7, <2>10, <2>13, <2>14 DEF Holds, BeforeResume, AtGate, Revalidating
  <2>18. QED
    BY <2>1, <2>13, <2>14, <2>16, <2>17, WriteShapes DEF f
<1>3. QED
  BY <1>1, <1>2

LEMMA RecoverShapes ==
  ASSUME SafetyInv, ShapeInv, NEW c \in Coordinators, RecoverGate(c)
  PROVE  ShapeInv'
<1>1. /\ run[c].pc = "recover"
      /\ Goto(c, "skipPersist") \/ Goto(c, "skipBegin") \/ Goto(c, "retryBegin") \/ Return(c)
  BY DEF RecoverGate
<1>2. QED
  BY <1>1, GotoShapes, ReturnShapes, LeadsNames

(* A new row is in shape, and an old one is loaded as it is.               *)
LEMMA AcquireShapes ==
  ASSUME SafetyInv, ShapeInv, NEW c \in Coordinators, Acquire(c)
  PROVE  ShapeInv'
<1>1. /\ op \in RowType /\ RowOK(op, everDone) /\ steps \in LedgerType /\ RowShape(op)
      /\ NotRunning \in RunType
  BY IdleFacts DEF SafetyInv, CoordinatorTypes, ShapeInv
<1>2. /\ FirstMachine(FALSE) \in MachineType /\ Valid(FirstMachine(FALSE))
      /\ ~FirstMachine(FALSE).forced
  BY FirstFacts, FirstIsValid
<1>3. CASE Create(c)
  <2>1. PICK forced \in {FALSE, Operation = "uninstall"} :
          Write(c, [NoOperation EXCEPT !.exists = TRUE, !.forced = forced],
                [NotRunning EXCEPT !.pc = "init", !.inRun = TRUE])
    BY <1>3 DEF Create
  <2> DEFINE row == [NoOperation EXCEPT !.exists = TRUE, !.forced = forced]
             r == [NotRunning EXCEPT !.pc = "init", !.inRun = TRUE]
             k == [r EXCEPT !.fresh = TRUE]
             first == FirstMachine(FALSE)
  <2>2. Write(c, row, r) /\ ~op.stored /\ forced \in BOOLEAN /\ (forced => Operation = "uninstall")
    BY <1>1, <1>3, <2>1 DEF RowOK, Create
  <2>3. /\ row \in RowType /\ row.snap = first /\ ~row.stored /\ row.state = "planned"
        /\ row.done = FALSE /\ row.terminal = NoTerminal /\ row.attempts = 1
        /\ row.decision = NoDecision /\ row.forced = forced
    BY <1>2, <2>2 DEF NoOperation, RowType, MachineStates, GateStates, Outcomes, Decisions
  <2>4. /\ r \in RunType /\ r.pc = "init" /\ k.pc = "init" /\ k.m = first /\ k.fresh
        /\ ~k.req.retry
    BY <1>1, <1>2 DEF RunType, Pcs, NotRunning, NoRequest
  <2> HIDE DEF row, r, k, first
  <2>5. RowShape(row)
    <3>1. Valid(row.snap) /\ (row.forced => Operation = "uninstall") /\ (row.snap.forced => row.forced)
      BY <1>2, <2>2, <2>3 DEF first
    <3>2. row.done = (row.terminal # NoTerminal)
      BY <2>3
    <3>3. row.attempts \in 1..(MaxRetries + 1) /\ (row.decision = NoDecision <=> row.attempts = 1)
      BY <2>3, SwitchAssumption
    <3>4. Agrees(row)
      BY <2>3 DEF Agrees
    <3>5. QED
      BY <3>1, <3>2, <3>3, <3>4 DEF RowShape
  <2>6. Holds(k, row)
    BY <1>2, <2>4 DEF Holds, BeforeResume, AtGate, Revalidating, first
  <2>7. QED
    BY <2>2, <2>3, <2>4, <2>5, <2>6, WriteShapes DEF k
<1>4. ASSUME NEW request \in Requests, Reopen(c, request)
      PROVE  ShapeInv'
  <2> DEFINE l == Loaded(request)
             pc == LoadPc(l)
             r == [l EXCEPT !.pc = pc]
  <2>1. /\ l.m = op.snap /\ l.fresh /\ l.req = request /\ l.inRun
        /\ r.pc = pc /\ r.m = op.snap /\ r.req = request /\ r.inRun
    BY DEF Loaded, NotRunning
  <2>2. /\ Settle(c, r, steps) /\ pc # "error" /\ (request.retry => op.attempts <= MaxRetries)
        /\ op' = op /\ UNCHANGED <<candidate, crashes, late>>
    BY <1>4 DEF Reopen
  <2>3. /\ pc \in {"init", "repair", "loadRead", "closeRow", "resume", "idle", "recover",
                   "replay", "succeed", "advance"}
        /\ pc \notin {"init", "repair"} => op.snap.forced = op.forced
        /\ pc # "init" => op.stored
        /\ pc = "closeRow" => l.m.terminal # NoTerminal
        /\ pc = "resume" => l.req.retry
    BY <2>2, PcFacts, CheckFacts DEF LoadPc
  <2> HIDE DEF l, pc, r
  <2>4. pc \notin AtGate
    BY <2>3 DEF AtGate, Revalidating
  <2>5. BeforeResume(r) => op.attempts <= MaxRetries
    BY <2>1, <2>2, <2>3 DEF BeforeResume
  <2>6. Holds(r, op)
    BY <1>1, <2>1, <2>3, <2>4, <2>5 DEF Holds, RowShape
  <2>7. QED
    BY <1>1, <2>2, <2>6, SettleShapes DEF ShapeInv, Counts
<1>5. QED
  BY <1>3, <1>4 DEF Acquire

(* Steps from outside.                                                     *)
LEMMA OutsideShapes ==
  ASSUME SafetyInv, ShapeInv, CloseFromOutside, Reclaims, candidate' \in BOOLEAN
  PROVE  ShapeInv'
<1>1. op \in RowType /\ steps \in LedgerType /\ run \in [Coordinators -> RunType] /\ RowShape(op)
  BY DEF SafetyInv, CoordinatorTypes, ShapeInv
<1>2. /\ op'.snap = op.snap /\ op'.forced = op.forced /\ op'.attempts = op.attempts /\ op'.done
      /\ op'.decision = op.decision /\ op'.terminal = "cancelled" /\ op'.stored = op.stored
  BY <1>1 DEF CloseFromOutside, RowType
<1>3. RowShape(op')
  BY <1>1, <1>2 DEF RowShape, NoTerminal
<1>4. AttemptShape(ClosedAs("failed"))
  BY DEF AttemptShape, ClosedAs, NoAttempt, OpenStatuses, Nobody
<1>5. \A p \in Positions : AttemptShape(steps'[p])
  BY <1>4 DEF CloseFromOutside, ShapeInv
<1>6. ASSUME NEW c \in Coordinators
      PROVE  Holds(run'[c], op')
  <2>1. run[c] \in RunType /\ Holds(run[c], op)
    BY <1>1 DEF ShapeInv
  <2>2. /\ run'[c].m = run[c].m /\ run'[c].pc = run[c].pc /\ run'[c].inRun = run[c].inRun
        /\ ~run'[c].fresh
    BY <2>1 DEF CloseFromOutside, RunType
  <2>3. QED
    BY <1>2, <2>1, <2>2 DEF Holds
<1>7. Counts'
  BY DEF CloseFromOutside, Counts, ShapeInv
<1>8. QED
  BY <1>3, <1>5, <1>6, <1>7 DEF ShapeInv

LEMMA AttemptChanges ==
  ASSUME SafetyInv, ShapeInv, NEW p \in Positions, NEW a, AttemptShape(a),
         steps' = [steps EXCEPT ![p] = a], run' = run, op' = op, Counts'
  PROVE  ShapeInv'
<1>1. steps \in LedgerType
  BY DEF SafetyInv, CoordinatorTypes
<1>2. \A q \in Positions : AttemptShape(steps'[q])
  BY <1>1 DEF LedgerType, ShapeInv
<1>3. QED
  BY <1>2 DEF ShapeInv

LEMMA InitShapes == CoordinatorConstants /\ Init => ShapeInv
<1> SUFFICES ASSUME CoordinatorConstants, Init PROVE ShapeInv
  OBVIOUS
<1>1. Valid(FirstMachine(FALSE)) /\ ~FirstMachine(FALSE).forced
  BY FirstIsValid
<1>2. RowShape(op)
  <2>1. /\ op.snap = FirstMachine(FALSE) /\ op.forced = FALSE /\ op.done = FALSE
        /\ op.terminal = NoTerminal /\ op.attempts = 1 /\ op.decision = NoDecision
        /\ op.stored = FALSE /\ op.state = "planned"
    BY DEF Init, NoOperation
  <2>2. Agrees(op)
    BY <2>1 DEF Agrees
  <2>3. op.attempts \in 1..(MaxRetries + 1) /\ (op.decision = NoDecision <=> op.attempts = 1)
    BY <2>1, SwitchAssumption
  <2>4. op.done = (op.terminal # NoTerminal)
    BY <2>1
  <2>5. QED
    BY <1>1, <2>1, <2>2, <2>3, <2>4 DEF RowShape
<1>3. AttemptShape(NoAttempt)
  BY DEF AttemptShape, NoAttempt, OpenStatuses, Nobody
<1>4. Counts
  <2>1. MaxCrashes \in Nat /\ MaxLate \in Nat
    BY SwitchAssumption
  <2>2. candidate = FALSE /\ crashes = 0 /\ late = 0
    BY DEF Init
  <2>3. crashes \in 0..MaxCrashes /\ late \in 0..MaxLate
    BY <2>1, <2>2
  <2>4. candidate \in BOOLEAN /\ ~candidate
    BY <2>2
  <2>5. QED
    BY <2>3, <2>4 DEF Counts
<1>5. QED
  BY <1>2, <1>3, <1>4, IdleHolds DEF Init, ShapeInv

LEMMA NextShapes == SafetyInv /\ ShapeInv /\ [Next]_vars => ShapeInv'
<1> SUFFICES ASSUME SafetyInv, ShapeInv, [Next]_vars PROVE ShapeInv'
  OBVIOUS
<1>1. steps \in LedgerType /\ op \in RowType /\ Counts /\ RowShape(op)
  BY DEF SafetyInv, CoordinatorTypes, ShapeInv
<1>2. CASE UNCHANGED vars
  BY <1>2 DEF vars, ShapeInv, Counts
<1>3. ASSUME NEW c \in Coordinators, Acquire(c)
      PROVE  ShapeInv'
  BY <1>3, AcquireShapes
<1>4. ASSUME NEW c \in Coordinators, Proceed(c)
      PROVE  ShapeInv'
  <2>1. \/ Stores(c) \/ Attempts(c) \/ Reconcile(c) \/ GateEnds(c) \/ Resume(c)
        \/ RecoverGate(c) \/ CloseFailed(c) \/ ReconcileTerminal(c) \/ CloseSucceeded(c)
    BY <1>4 DEF Proceed, Stores, Attempts
  <2>2. QED
    BY <2>1, StoresShapes, AttemptsShapes, ReconcileShapes, GateEndsShapes, ResumeShapes,
       RecoverShapes, ClosesShapes
<1>5. ASSUME NEW c \in Coordinators, ReportProgress(c)
      PROVE  ShapeInv'
  BY <1>5, AttemptsShapes DEF Attempts
<1>6. ASSUME NEW c \in Coordinators, Heartbeat(c)
      PROVE  ShapeInv'
  <2>1. PICK p \in Positions : /\ steps' = [steps EXCEPT ![p].seen = {}]
                              /\ UNCHANGED <<op, run, candidate, crashes, late>>
    BY <1>6 DEF Heartbeat
  <2> DEFINE a == [steps[p] EXCEPT !.seen = {}]
  <2>2. steps[p] \in AttemptType /\ AttemptShape(steps[p])
    BY <1>1 DEF LedgerType, ShapeInv
  <2>3. AttemptShape(a)
    BY <2>2 DEF AttemptShape, AttemptType
  <2>4. steps' = [steps EXCEPT ![p] = a] /\ Counts'
    BY <1>1, <2>1 DEF Counts
  <2> HIDE DEF a
  <2>5. QED
    BY <2>1, <2>3, <2>4, AttemptChanges
<1>7. ASSUME NEW c \in Coordinators, Crash(c)
      PROVE  ShapeInv'
  <2>1. /\ Settle(c, NotRunning, steps) /\ op' = op /\ crashes < MaxCrashes
        /\ crashes' = crashes + 1 /\ UNCHANGED <<candidate, late>>
    BY <1>7 DEF Crash
  <2>2. Counts' /\ NotRunning.pc = "idle"
    BY <1>1, <2>1, SwitchAssumption DEF Counts, NotRunning
  <2>3. QED
    BY <1>1, <2>1, <2>2, SettleShapes DEF ShapeInv
<1>8. ASSUME NEW p \in Positions, LeaseExpires(p)
      PROVE  ShapeInv'
  <2>1. /\ steps' = [steps EXCEPT ![p].live = FALSE]
        /\ UNCHANGED late \/ (late < MaxLate /\ late' = late + 1)
        /\ UNCHANGED <<op, run, candidate, crashes>>
    BY <1>8 DEF LeaseExpires
  <2> DEFINE a == [steps[p] EXCEPT !.live = FALSE]
  <2>2. steps[p] \in AttemptType /\ AttemptShape(steps[p])
    BY <1>1 DEF LedgerType, ShapeInv
  <2>3. AttemptShape(a)
    BY <2>2 DEF AttemptShape, AttemptType
  <2>4. steps' = [steps EXCEPT ![p] = a] /\ Counts'
    BY <1>1, <2>1, SwitchAssumption DEF Counts
  <2> HIDE DEF a
  <2>5. QED
    BY <2>1, <2>3, <2>4, AttemptChanges
<1>9. CASE GoesIdle
  <2>1. op' = [op EXCEPT !.idle = TRUE] /\ UNCHANGED <<steps, run, candidate, crashes, late>>
    BY <1>9 DEF GoesIdle
  <2>2. /\ op'.snap = op.snap /\ op'.forced = op.forced /\ op'.state = op.state
        /\ op'.stored = op.stored /\ op'.done = op.done /\ op'.terminal = op.terminal
        /\ op'.attempts = op.attempts /\ op'.decision = op.decision
    BY <1>1, <2>1 DEF RowType
  <2>3. RowShape(op') /\ \A c \in Coordinators : Holds(run[c], op')
    BY <1>1, <2>2 DEF RowShape, Agrees, Holds, ShapeInv
  <2>4. QED
    BY <2>1, <2>3 DEF ShapeInv, Counts
<1>10. CASE ListOrphan
  BY <1>10 DEF ListOrphan, ShapeInv, Counts
<1>11. CASE ReclaimOrphan
  <2>1. Reclaims
    BY <1>1, <1>11, SwitchAssumption DEF ReclaimOrphan, Counts
  <2>2. QED
    BY <1>11, <2>1, OutsideShapes DEF ReclaimOrphan, ShapeInv, Counts
<1>12. CASE CloseByOperator
  BY <1>1, <1>12, OutsideShapes DEF CloseByOperator, Counts
<1>13. QED
  BY <1>2, <1>3, <1>4, <1>5, <1>6, <1>7, <1>8, <1>9, <1>10, <1>11, <1>12 DEF Next

(* What valid machines are.                                                *)
LEMMA ValidShape ==
  ASSUME NEW m, Valid(m), m.operation = Operation
  PROVE  MachineOK(m) /\ validateLifecycleMachine(m)
<1>1. PathOf(Operation) = Positions
  BY DEF PathOf, Positions, Last
<1>2. m \in Snapshots(Operation)
  BY DEF Valid
<1>3. QED
  BY <1>1, <1>2 DEF Valid, Snapshots, MachineOK, Last

LEMMA ShapesTyped == SafetyInv /\ ShapeInv => TypeOK
<1> SUFFICES ASSUME SafetyInv, ShapeInv PROVE TypeOK
  OBVIOUS
<1>1. op \in RowType /\ op.snap \in MachineType /\ RowShape(op) /\ steps \in LedgerType
  BY DEF SafetyInv, CoordinatorTypes, RowType, ShapeInv
<1>2. MachineOK(op.snap)
  BY <1>1, ValidShape DEF RowShape, MachineType
<1>3. \A c \in Coordinators : MachineOK(run[c].m)
  BY MachineFacts, ValidShape
<1>4. /\ op.state \in MachineStates /\ op.terminal \in FailureTerminals \cup {"succeeded", NoTerminal}
      /\ op.decision \in {NoDecision, "retry", "skip_step"}
      /\ op.done = (op.terminal # NoTerminal) /\ op.attempts \in 1..(MaxRetries + 1)
      /\ op.decision = NoDecision <=> op.attempts = 1
  BY <1>1 DEF RowShape, RowType, Outcomes, Decisions, FailureTerminals
<1>5. ASSUME NEW p \in Positions
      PROVE  /\ steps[p].status \in OpenStatuses \cup ClosedStatuses \cup {"none"}
             /\ steps[p].owner \in Coordinators \cup {Nobody, Gone}
             /\ steps[p].seen \subseteq steps[p].begun /\ steps[p].begun \subseteq Coordinators
             /\ steps[p].live => steps[p].owner # Nobody
             /\ ~Open(p) => steps[p].owner = Nobody /\ steps[p].begun = {}
  <2>1. steps[p] \in AttemptType /\ AttemptShape(steps[p])
    BY <1>1 DEF LedgerType, ShapeInv
  <2>2. QED
    BY <2>1 DEF AttemptType, AttemptShape, Open
<1>6. Counts /\ everDone \subseteq Positions
  BY DEF ShapeInv, SafetyInv, CoordinatorTypes
<1>7. QED
  BY <1>2, <1>3, <1>4, <1>5, <1>6 DEF TypeOK, Counts

LEMMA AlwaysShapes == CoordinatorConstants /\ Spec => [](SafetyInv /\ ShapeInv)
<1>1. SafetyInv /\ ShapeInv /\ [Next]_vars => (SafetyInv /\ ShapeInv)'
  BY NextSafe, NextShapes DEF SafeStep
<1>2. QED
  BY <1>1, InitSafe, InitShapes, PTL DEF Spec

(* Rows, attempts, machines and copies keep their shape, with the reclaim  *)
(* and without it.                                                         *)
THEOREM ShapesAreKept == CoordinatorConstants /\ Spec => []TypeOK
  BY ShapesTyped, AlwaysShapes, PTL

(* The ledger leads the snapshot, whoever crashed or raced: a gate that the*)
(* stored machine has passed was executed or skipped, and one ahead of it  *)
(* was not touched.                                                        *)
THEOREM LedgerAlwaysLeads == CoordinatorConstants /\ Spec => []LedgerLeadsSnapshot
<1>1. SafetyInv => LedgerLeadsSnapshot
  BY DEF SafetyInv, LedgerLeadsSnapshot, Legal, LedgerOK
<1>2. QED
  BY <1>1, AlwaysSafetyInv, PTL

(* Without the reclaim and the operator's CLI everything keeps its shape   *)
(* and every row that exists can be loaded: the machines are valid, and    *)
(* what a crash inside resume left apart is what loadOrInitializeMachine   *)
(* repairs.                                                                *)
THEOREM RowsStayLoadable == ~Reclaims /\ CoordinatorConstants /\ Spec => []RowStaysLoadable
<1> SUFFICES ASSUME ~Reclaims PROVE CoordinatorConstants /\ Spec => []RowStaysLoadable
  OBVIOUS
<1>1. SafetyInv /\ ShapeInv => RowStaysLoadable
  <2> SUFFICES ASSUME SafetyInv, ShapeInv PROVE RowStaysLoadable
    OBVIOUS
  <2>1. op \in RowType /\ op.snap \in MachineType /\ RowShape(op) /\ Agrees(op)
    BY DEF SafetyInv, CoordinatorTypes, RowType, ShapeInv, RowShape
  <2>2. validateLifecycleMachine(op.snap)
    BY <2>1, ValidShape DEF RowShape, MachineType
  <2>3. \A c \in Coordinators : validateLifecycleMachine(run[c].m)
    BY MachineFacts, ValidShape
  <2>4. \A r : CheckPc(r) # "error"
    BY PcFacts
  <2>5. LoadPc(Loaded(NoRequest)) # "error"
    BY <2>1, <2>4 DEF LoadPc, Agrees
  <2>6. QED
    BY <2>2, <2>3, <2>5, ShapesTyped DEF RowStaysLoadable
<1>2. QED
  BY <1>1, AlwaysShapes, PTL

-----------------------------------------------------------------------------
(* One executor.  Where an invocation works under its lease on the current *)
(* gate, and where under its lease on the marked gate as well.             *)
MarkerHolding == {"revalRun", "revalDone", "revalFail"}
Holding ==
    {"exec", "progress", "stepDone", "stepFail", "revalRead", "revalBegin", "revalClaim",
     "revalPersist"} \cup MarkerHolding

Held(attempt, c) == attempt.status \in OpenStatuses /\ attempt.owner = c /\ attempt.live
Leased(r, st, c) ==
    /\ r.pc \in Holding => Held(st[r.m.position], c)
    /\ r.pc \in MarkerHolding => Held(st[r.m.marker], c)

ExclusiveInv ==
    /\ candidate = FALSE /\ late \in Nat
    /\ late = 0 => \A c \in Coordinators : Leased(run[c], steps, c)

(* Where a lease is needed and where it is not.                            *)
LEMMA HoldingFacts ==
  /\ "idle" \notin Holding /\ Synced \cap Holding = {} /\ MarkerHolding \subseteq Holding
  /\ MarkerHolding \subseteq Revalidating /\ {"exec", "progress"} \cap MarkerHolding = {}
  /\ {"recover", "replay", "succeed", "advance", "resume", "idle", "failPersist", "claimRead",
      "begin", "claim", "replayRelease", "dropClaim", "resumePersist", "skipBegin", "skipClaim",
      "skipDone", "retryBegin", "retryPersist", "init", "repair", "gatePersist", "skipPersist",
      "revalFailDone", "error"} \cap Holding = {}
BY DEF Holding, MarkerHolding, Synced, Revalidating

(* A step of one invocation takes no lease from another.                   *)
LEMMA SettleLeased ==
  ASSUME SafetyInv, ExclusiveInv, NEW c \in Coordinators, NEW r, NEW st \in LedgerType,
         Settle(c, r, st), late' = late, candidate' = candidate,
         \A d \in Coordinators \ {c}, p \in Positions : Held(steps[p], d) => Held(st[p], d),
         late = 0 => Leased(r, st, c)
  PROVE  ExclusiveInv'
<1>1. run \in [Coordinators -> RunType] /\ steps \in LedgerType
  BY DEF SafetyInv, CoordinatorTypes
<1>2. ASSUME late = 0, NEW d \in Coordinators \ {c}
      PROVE  Leased(run'[d], steps', d)
  <2>1. run'[d] = run[d] /\ Leased(run[d], steps, d)
    BY <1>1, <1>2 DEF Settle, ExclusiveInv
  <2>2. \A p \in Positions : Held(st[p], d) => Held(steps'[p], d)
    <3> SUFFICES ASSUME NEW p \in Positions, Held(st[p], d) PROVE Held(steps'[p], d)
      OBVIOUS
    <3> DEFINE a == st[p]
    <3>1. a \in AttemptType
      BY DEF LedgerType
    <3>2. steps'[p] \in {a, Abandoned(a, c)}
      BY DEF Settle
    <3>3. Held(a, d)
      OBVIOUS
    <3> HIDE DEF a
    <3>4. QED
      BY <3>1, <3>2, <3>3, AbandonedFacts DEF Held
  <2>3. /\ run[d].m.position \in Positions
        /\ run[d].pc \in MarkerHolding => run[d].m.marker \in Positions
    BY ReachedFacts, HoldingFacts DEF RunOK
  <2>4. QED
    BY <2>1, <2>2, <2>3, HoldingFacts DEF Leased
<1>3. ASSUME late = 0
      PROVE  Leased(run'[c], steps', c)
  <2>1. CASE r.pc = "idle"
    <3>1. run'[c].pc = "idle"
      BY <1>1, <2>1 DEF Settle, NotRunning
    <3>2. QED
      BY <3>1, HoldingFacts DEF Leased
  <2>2. CASE r.pc # "idle"
    BY <1>1, <1>3, <2>2 DEF Settle
  <2>3. QED
    BY <2>1, <2>2
<1>4. QED
  BY <1>2, <1>3 DEF ExclusiveInv

(* Writing the row takes no lease from another.                            *)
LEMMA WriteLeased ==
  ASSUME SafetyInv, ExclusiveInv, NEW c \in Coordinators, NEW row, NEW r,
         Write(c, row, r), late = 0 => Leased(r, steps, c),
         r.pc # "idle" => run'[c].pc = r.pc /\ (r.pc \in Holding => run'[c].m = r.m)
  PROVE  ExclusiveInv'
<1>1. run \in [Coordinators -> RunType] /\ steps \in LedgerType /\ late' = late /\ candidate' = candidate
  BY DEF SafetyInv, CoordinatorTypes, Write
<1>2. ASSUME late = 0, NEW d \in Coordinators \ {c}
      PROVE  Leased(run'[d], steps', d)
  <2>1. /\ run[d] \in RunType /\ run'[d] = [run[d] EXCEPT !.fresh = FALSE]
        /\ Leased(run[d], steps, d)
    BY <1>1, <1>2 DEF Write, ExclusiveInv
  <2>2. run'[d].pc = run[d].pc /\ run'[d].m = run[d].m
    BY <2>1 DEF RunType
  <2>3. \A p \in Positions : Held(steps[p], d) => Held(steps'[p], d)
    <3> SUFFICES ASSUME NEW p \in Positions, Held(steps[p], d) PROVE Held(steps'[p], d)
      OBVIOUS
    <3> DEFINE a == steps[p]
    <3>1. a \in AttemptType
      BY <1>1 DEF LedgerType
    <3>2. steps'[p] \in {a, Abandoned(a, c)}
      BY DEF Write
    <3>3. Held(a, d)
      OBVIOUS
    <3> HIDE DEF a
    <3>4. QED
      BY <3>1, <3>2, <3>3, AbandonedFacts DEF Held
  <2>4. /\ run[d].m.position \in Positions
        /\ run[d].pc \in MarkerHolding => run[d].m.marker \in Positions
    BY ReachedFacts, HoldingFacts DEF RunOK
  <2>5. QED
    BY <2>1, <2>2, <2>3, <2>4, HoldingFacts DEF Leased
<1>3. ASSUME late = 0
      PROVE  Leased(run'[c], steps', c)
  <2>1. CASE r.pc = "idle"
    <3>1. run'[c].pc = "idle"
      BY <1>1, <2>1 DEF Write, NotRunning
    <3>2. QED
      BY <3>1, HoldingFacts DEF Leased
  <2>2. CASE r.pc # "idle"
    <3>1. steps' = steps
      BY <2>2 DEF Write
    <3>2. QED
      BY <1>3, <2>2, <3>1, HoldingFacts DEF Leased
  <2>3. QED
    BY <2>1, <2>2
<1>4. QED
  BY <1>1, <1>2, <1>3 DEF ExclusiveInv

(* Moving on without a new lease.                                          *)
LEMMA GotoLeased ==
  ASSUME SafetyInv, ExclusiveInv, NEW c \in Coordinators, NEW pc, Goto(c, pc),
         pc \in Holding => run[c].pc \in Holding,
         pc \in MarkerHolding => run[c].pc \in MarkerHolding
  PROVE  ExclusiveInv'
<1> DEFINE r == [run[c] EXCEPT !.pc = pc]
<1>1. /\ Settle(c, r, steps) /\ late' = late /\ candidate' = candidate
      /\ run[c] \in RunType /\ steps \in LedgerType
  BY DEF Goto, SafetyInv, CoordinatorTypes
<1>2. r.pc = pc /\ r.m = run[c].m
  BY <1>1 DEF RunType
<1> HIDE DEF r
<1>3. late = 0 => Leased(r, steps, c)
  BY <1>2 DEF ExclusiveInv, Leased
<1>4. QED
  BY <1>1, <1>3, SettleLeased

(* Giving up needs no lease.                                               *)
LEMMA ReturnLeased ==
  ASSUME SafetyInv, ExclusiveInv, NEW c \in Coordinators, Return(c)
  PROVE  ExclusiveInv'
BY GotoLeased, HoldingFacts DEF Return

(* Changing an attempt nobody else holds.                                  *)
LEMMA LedgerLeased ==
  ASSUME SafetyInv, ExclusiveInv, NEW c \in Coordinators, NEW p \in Positions,
         NEW attempt \in AttemptType, NEW pc, Ledger(c, p, attempt, pc),
         \A d \in Coordinators \ {c} : Held(steps[p], d) => Held(attempt, d),
         late = 0 /\ pc \in Holding => Held([steps EXCEPT ![p] = attempt][run[c].m.position], c),
         late = 0 /\ pc \in MarkerHolding => Held([steps EXCEPT ![p] = attempt][run[c].m.marker], c)
  PROVE  ExclusiveInv'
<1> DEFINE r == [run[c] EXCEPT !.pc = pc]
           st == [steps EXCEPT ![p] = attempt]
<1>1. /\ Settle(c, r, st) /\ late' = late /\ candidate' = candidate
      /\ run[c] \in RunType /\ steps \in LedgerType
  BY DEF Ledger, SafetyInv, CoordinatorTypes
<1>2. r.pc = pc /\ r.m = run[c].m
  BY <1>1 DEF RunType
<1>3. st \in LedgerType /\ \A d \in Coordinators \ {c}, q \in Positions : Held(steps[q], d) => Held(st[q], d)
  BY <1>1 DEF LedgerType
<1>4. late = 0 => Leased(r, st, c)
  <2> HIDE DEF r, st
  <2>1. QED
    BY <1>2 DEF Leased, st
<1> HIDE DEF r, st
<1>5. QED
  BY <1>1, <1>3, <1>4, SettleLeased

(* Opening an attempt, which takes no lease.                               *)
LEMMA BeginLeased ==
  ASSUME SafetyInv, ExclusiveInv, NEW c \in Coordinators, NEW p \in Positions,
         NEW pc, BeginStepAttempt(c, p, pc), pc \notin MarkerHolding,
         pc \in Holding => run[c].pc \in Holding
  PROVE  ExclusiveInv'
<1>1. CASE op.done
  BY <1>1, ReturnLeased DEF BeginStepAttempt
<1>2. CASE ~op.done
  <2> DEFINE a == Begun(steps[p], c)
  <2>1. steps[p] \in AttemptType /\ steps \in LedgerType
    BY DEF SafetyInv, CoordinatorTypes, LedgerType
  <2>2. a \in AttemptType /\ \A d : Held(steps[p], d) => Held(a, d)
    BY <2>1 DEF AttemptType, Begun, OpenStatuses, ClosedStatuses, Held
  <2>3. Ledger(c, p, a, pc)
    BY <1>2 DEF BeginStepAttempt
  <2> HIDE DEF a
  <2>4. late = 0 /\ pc \in Holding => Held([steps EXCEPT ![p] = a][run[c].m.position], c)
    BY <2>1, <2>2, ReachedFacts DEF ExclusiveInv, Leased, LedgerType
  <2>5. QED
    BY <2>2, <2>3, <2>4, LedgerLeased
<1>3. QED
  BY <1>1, <1>2

(* A lease is taken from nobody, or from who let it run out.               *)
LEMMA ClaimLeased ==
  ASSUME SafetyInv, ExclusiveInv, NEW c \in Coordinators, NEW p \in Positions,
         NEW claimed, NEW onClosed, onClosed \notin Holding, NEW onConflict, onConflict \notin Holding,
         ClaimStepLease(c, p, claimed, onClosed, onConflict),
         claimed \in Holding => run[c].m.position = p \/ run[c].pc \in Holding,
         claimed \in MarkerHolding => run[c].m.marker = p
  PROVE  ExclusiveInv'
<1>1. CASE op.done \/ c \notin steps[p].begun \/ ~Claimable(c, p)
  BY <1>1, GotoLeased, HoldingFacts DEF ClaimStepLease
<1>2. CASE ~op.done /\ c \in steps[p].begun /\ Claimable(c, p)
  <2> DEFINE a == Claimed(steps[p], c)
  <2>1. steps[p] \in AttemptType /\ steps \in LedgerType
    BY DEF SafetyInv, CoordinatorTypes, LedgerType
  <2>2. a \in AttemptType /\ Held(a, c)
    BY <2>1 DEF AttemptType, Claimed, OpenStatuses, Held
  <2>3. Ledger(c, p, a, claimed)
    BY <1>2 DEF ClaimStepLease
  <2>4. \A d \in Coordinators : ~Held(steps[p], d)
    BY <1>2 DEF Claimable, Held, SafetyInv, CoordinatorTypes, CoordinatorConstants
  <2> HIDE DEF a
  <2>5. late = 0 /\ claimed \in Holding => Held([steps EXCEPT ![p] = a][run[c].m.position], c)
    BY <2>1, <2>2, ReachedFacts DEF ExclusiveInv, Leased, LedgerType
  <2>6. late = 0 /\ claimed \in MarkerHolding => Held([steps EXCEPT ![p] = a][run[c].m.marker], c)
    BY <2>1, <2>2 DEF LedgerType
  <2>7. QED
    BY <2>2, <2>3, <2>4, <2>5, <2>6, LedgerLeased
<1>3. QED
  BY <1>1, <1>2

(* Closing the attempt one owns.                                           *)
LEMMA CompleteLeased ==
  ASSUME SafetyInv, ExclusiveInv, NEW c \in Coordinators, NEW p \in Positions,
         NEW status \in {"succeeded", "skipped", "failed"}, NEW pc, NEW onError, onError \notin Holding,
         CompleteStepAttempt(c, p, status, pc, onError), pc \notin MarkerHolding,
         pc \in Holding => run[c].m.position # p /\ run[c].pc \in Holding
  PROVE  ExclusiveInv'
<1>1. CASE ~(~op.done /\ Authorized(c, p))
  BY <1>1, GotoLeased, HoldingFacts DEF CompleteStepAttempt
<1>2. CASE ~op.done /\ Authorized(c, p)
  <2> DEFINE a == ClosedAs(status)
  <2>1. steps[p] \in AttemptType /\ steps \in LedgerType
    BY DEF SafetyInv, CoordinatorTypes, LedgerType
  <2>2. a \in AttemptType
    BY DEF AttemptType, ClosedAs, NoAttempt, ClosedStatuses
  <2>3. Ledger(c, p, a, pc)
    BY <1>2 DEF CompleteStepAttempt
  <2>4. \A d \in Coordinators \ {c} : ~Held(steps[p], d)
    BY <1>2 DEF Authorized, Owns, Held
  <2> HIDE DEF a
  <2>5. late = 0 /\ pc \in Holding => Held([steps EXCEPT ![p] = a][run[c].m.position], c)
    BY <2>1, <2>2, ReachedFacts DEF ExclusiveInv, Leased, LedgerType
  <2>6. QED
    BY <2>2, <2>3, <2>4, <2>5, LedgerLeased
<1>3. QED
  BY <1>1, <1>2

(* Giving back the attempt one owns.                                       *)
LEMMA ReleaseLeased ==
  ASSUME SafetyInv, ExclusiveInv, NEW c \in Coordinators,
         NEW pc, pc \notin Holding, NEW onError, onError \notin Holding, ReleaseStepLease(c, pc, onError)
  PROVE  ExclusiveInv'
<1> DEFINE p == run[c].m.position
<1>1. CASE ~(~op.done /\ Owns(c, p))
  BY <1>1, GotoLeased, HoldingFacts DEF ReleaseStepLease
<1>2. CASE ~op.done /\ Owns(c, p)
  <2> DEFINE a == Released(steps[p])
  <2>1. steps[p] \in AttemptType /\ steps \in LedgerType /\ p \in Positions
    BY ReachedFacts DEF SafetyInv, CoordinatorTypes, LedgerType
  <2>2. a \in AttemptType
    BY <2>1 DEF AttemptType, Released
  <2>3. Ledger(c, p, a, pc)
    BY <1>2 DEF ReleaseStepLease
  <2>4. \A d \in Coordinators \ {c} : ~Held(steps[p], d)
    BY <1>2 DEF Owns, Held
  <2> HIDE DEF a, p
  <2>5. QED
    BY <2>1, <2>2, <2>3, <2>4, HoldingFacts, LedgerLeased
<1>3. QED
  BY <1>1, <1>2

(* Writing the row and going where no lease is needed, and writing it      *)
(* without leaving the gate.                                               *)
LEMMA RestLeased ==
  ASSUME SafetyInv, ExclusiveInv, NEW c \in Coordinators, NEW row, NEW m, NEW pc,
         Write(c, row, [run[c] EXCEPT !.m = m, !.pc = pc]), pc \notin Holding
  PROVE  ExclusiveInv'
<1> DEFINE r == [run[c] EXCEPT !.m = m, !.pc = pc]
<1>1. run \in [Coordinators -> RunType] /\ run[c] \in RunType
  BY DEF SafetyInv, CoordinatorTypes
<1>2. /\ r.pc = pc
      /\ [r EXCEPT !.fresh = TRUE, !.done = row.done, !.terminal = row.terminal,
                  !.decision = row.decision].pc = pc
  BY <1>1 DEF RunType
<1>3. pc # "idle" => run'[c].pc = pc
  BY <1>2 DEF Write
<1>4. Leased(r, steps, c)
  BY <1>2, HoldingFacts DEF Leased
<1>5. Write(c, row, r)
  OBVIOUS
<1> HIDE DEF r
<1>6. QED
  BY <1>2, <1>3, <1>4, <1>5, WriteLeased

(* Storing a machine and going where no lease is needed.                   *)
LEMMA StoreLeased ==
  ASSUME SafetyInv, ExclusiveInv, NEW c \in Coordinators, NEW m, NEW pc,
         Store(c, m, pc), pc \notin Holding
  PROVE  ExclusiveInv'
<1>1. CASE ~(MayWrite(c) /\ ~op.done)
  BY <1>1, ReturnLeased DEF Store
<1>2. CASE MayWrite(c) /\ ~op.done
  <2> DEFINE row == [op EXCEPT !.state = m.state, !.snap = m, !.stored = TRUE, !.idle = FALSE]
  <2>1. Write(c, row, [run[c] EXCEPT !.m = m, !.pc = pc])
    BY <1>2 DEF Store
  <2> HIDE DEF row
  <2>2. QED
    BY <2>1, RestLeased
<1>3. QED
  BY <1>1, <1>2

(* Storing a machine at the gate whose lease is held.                      *)
LEMMA StayLeased ==
  ASSUME SafetyInv, ExclusiveInv, NEW c \in Coordinators,
         run[c].pc \in Holding,
         IF ValidateLifecycleTransition(run[c].m, StayAtGate(run[c].m))
         THEN Store(c, ApplyLifecycleTransition(run[c].m, StayAtGate(run[c].m)), "exec")
         ELSE Return(c)
  PROVE  ExclusiveInv'
<1> DEFINE m == run[c].m
           t == StayAtGate(m)
           k == ApplyLifecycleTransition(m, t)
           row == [op EXCEPT !.state = k.state, !.snap = k, !.stored = TRUE, !.idle = FALSE]
           r == [run[c] EXCEPT !.m = k, !.pc = "exec"]
<1>1. CASE ~(ValidateLifecycleTransition(m, t) /\ MayWrite(c) /\ ~op.done)
  BY <1>1, ReturnLeased DEF Store
<1>2. CASE ValidateLifecycleTransition(m, t) /\ MayWrite(c) /\ ~op.done
  <2>1. run[c] \in RunType /\ m \in MachineType /\ Legal(m, everDone)
    BY ReachedFacts DEF RunOK
  <2>2. IsRequest(t) /\ ~t.skip /\ ~t.complete /\ SameGate(m, t)
    BY <2>1, RequestFacts DEF SameGate, StayAtGate, Request
  <2>3. Write(c, row, r)
    BY <1>2 DEF Store
  <2> HIDE DEF t, row
  <2>4. Legal(k, everDone) /\ k.position = m.position
    BY <1>2, <2>1, <2>2, ApplyLegal
  <2> HIDE DEF k
  <2>5. r \in RunType /\ r.pc = "exec" /\ r.m = k
    BY <2>1, <2>4, PcNames DEF RunType, Legal, Plain
  <2>6. late = 0 => Leased(r, steps, c)
    <3> HIDE DEF r
    <3>1. QED
      BY <2>4, <2>5, HoldingFacts DEF Leased, ExclusiveInv
  <2>7. run'[c] = [r EXCEPT !.fresh = TRUE, !.done = row.done,
                          !.terminal = row.terminal, !.decision = row.decision]
    BY <2>3, <2>5 DEF Write
  <2> HIDE DEF r
  <2>8. run'[c].pc = r.pc /\ run'[c].m = r.m
    BY <2>5, <2>7 DEF RunType
  <2>9. QED
    BY <2>3, <2>6, <2>8, WriteLeased
<1>3. QED
  BY <1>1, <1>2

(* Closing the row.                                                        *)
LEMMA CloseLeased ==
  ASSUME SafetyInv, ExclusiveInv, NEW c \in Coordinators, NEW terminal, NEW pc, pc \notin Holding,
         IF MayWrite(c) /\ ~op.done
         THEN Write(c, [op EXCEPT !.state = run[c].m.state, !.terminal = terminal,
                                  !.done = TRUE, !.idle = FALSE],
                    [run[c] EXCEPT !.pc = pc])
         ELSE Return(c)
  PROVE  ExclusiveInv'
<1>1. CASE ~(MayWrite(c) /\ ~op.done)
  BY <1>1, ReturnLeased
<1>2. CASE MayWrite(c) /\ ~op.done
  <2> DEFINE row == [op EXCEPT !.state = run[c].m.state, !.terminal = terminal,
                               !.done = TRUE, !.idle = FALSE]
             r == [run[c] EXCEPT !.pc = pc]
  <2>1. run[c] \in RunType /\ run \in [Coordinators -> RunType]
    BY DEF SafetyInv, CoordinatorTypes
  <2>2. /\ r.pc = pc
        /\ [r EXCEPT !.fresh = TRUE, !.done = row.done, !.terminal = row.terminal,
                    !.decision = row.decision].pc = pc
    BY <2>1 DEF RunType
  <2>3. Write(c, row, r)
    BY <1>2
  <2>4. pc # "idle" => run'[c].pc = pc
    BY <2>2, <2>3 DEF Write
  <2>5. Leased(r, steps, c)
    BY <2>2, HoldingFacts DEF Leased
  <2> HIDE DEF row, r
  <2>6. QED
    BY <2>2, <2>3, <2>4, <2>5, WriteLeased
<1>3. QED
  BY <1>1, <1>2

(* The steps that store a machine.                                         *)
LEMMA StoresLeased ==
  ASSUME SafetyInv, ExclusiveInv, NEW c \in Coordinators, Stores(c)
  PROVE  ExclusiveInv'
<1> DEFINE m == run[c].m
           After(t) == ApplyLifecycleTransition(m, t)
           Kept(t, pc) == /\ ValidateLifecycleTransition(m, t) => Store(c, After(t), pc)
                          /\ ~ValidateLifecycleTransition(m, t) => Return(c)
<1>1. /\ \A k : DrivePc(k) \notin Holding /\ CheckPc(k) \notin Holding /\ AfterGate(k) \notin Holding
      /\ "loadRead" \notin Holding /\ "failClose" \notin Holding /\ "close" \notin Holding
  BY PcFacts, PcNames, HoldingFacts
<1>2. ASSUME NEW t, NEW pc, pc \notin Holding, Kept(t, pc)
      PROVE  ExclusiveInv'
  BY <1>2, StoreLeased, ReturnLeased
<1>3. CASE InitializeMachine(c)
  BY <1>1, <1>3, StoreLeased DEF InitializeMachine
<1>4. CASE RepairRecovery(c)
  <2> DEFINE t == RetryFailed(m, op.forced /\ ~m.forced)
  <2>1. Kept(t, CheckPc([run[c] EXCEPT !.m = After(t)]))
    BY <1>4 DEF RepairRecovery, Persist
  <2>2. QED
    BY <1>1, <1>2, <2>1
<1>5. CASE PersistGate(c)
  <2>1. Kept(CompleteGate(m), AfterGate([run[c] EXCEPT !.m = After(CompleteGate(m))]))
    BY <1>5 DEF PersistGate, Persist
  <2>2. QED
    BY <1>1, <1>2, <2>1
<1>6. CASE PersistFailure(c)
  <2>1. Kept(FailGate(m), "failClose")
    BY <1>6 DEF PersistFailure, Persist
  <2>2. QED
    BY <1>1, <1>2, <2>1
<1>7. CASE PersistResumed(c)
  BY <1>1, <1>7, StoreLeased DEF PersistResumed
<1>8. CASE PersistRecoverySkip(c)
  <2>1. Kept(SkipFailed(m), DrivePc(After(SkipFailed(m))))
    BY <1>8 DEF PersistRecoverySkip, Persist
  <2>2. QED
    BY <1>1, <1>2, <2>1
<1>9. CASE RetryPersist(c)
  <2>1. Kept(Reenter(m), DrivePc(After(Reenter(m))))
    BY <1>9 DEF RetryPersist, Persist
  <2>2. QED
    BY <1>1, <1>2, <2>1
<1>10. CASE RevalidatePersist(c)
  <2>1. CASE MayWrite(c) /\ ~op.done
    BY <1>10, <2>1, StayLeased DEF RevalidatePersist, Persist, Holding
  <2>2. CASE ~(MayWrite(c) /\ ~op.done)
    BY <1>10, <2>2, GotoLeased, HoldingFacts DEF RevalidatePersist
  <2>3. QED
    BY <2>1, <2>2
<1>11. CASE PersistProgress(c)
  BY <1>11, StayLeased DEF PersistProgress, Persist, Holding
<1>12. CASE AdvanceGate(c)
  <2>1. Kept(NextGate(m), DrivePc(After(NextGate(m))))
    BY <1>12 DEF AdvanceGate, Persist
  <2>2. QED
    BY <1>1, <1>2, <2>1
<1>13. CASE PersistSuccess(c)
  <2>1. Kept(Succeed(m), "close")
    BY <1>13 DEF PersistSuccess, Persist
  <2>2. QED
    BY <1>1, <1>2, <2>1
<1>14. QED
  BY <1>3, <1>4, <1>5, <1>6, <1>7, <1>8, <1>9, <1>10, <1>11, <1>12, <1>13 DEF Stores

(* The steps on an attempt.                                                *)
LEMMA AttemptsLeased ==
  ASSUME SafetyInv, ExclusiveInv, NEW c \in Coordinators, Attempts(c)
  PROVE  ExclusiveInv'
<1> DEFINE m == run[c].m
<1>1. m.position \in Positions /\ m.recovery \in Positions
  BY ReachedFacts
<1>2. run[c].pc \in Revalidating => m.marker \in Positions /\ m.marker # m.position
  BY ReachedFacts DEF RunOK
<1>3. CASE SkipBegin(c)
  BY <1>1, <1>3, BeginLeased, HoldingFacts DEF SkipBegin
<1>4. CASE SkipClaim(c)
  BY <1>1, <1>4, ClaimLeased, HoldingFacts DEF SkipClaim
<1>5. CASE SkipDone(c)
  BY <1>1, <1>5, CompleteLeased, HoldingFacts DEF SkipDone
<1>6. CASE RetryBegin(c)
  BY <1>1, <1>6, BeginLeased, HoldingFacts DEF RetryBegin
<1>7. CASE ClaimRead(c)
  BY <1>7, GotoLeased, HoldingFacts DEF ClaimRead
<1>8. CASE BeginGate(c)
  BY <1>1, <1>8, BeginLeased, HoldingFacts DEF BeginGate
<1>9. CASE ClaimGate(c)
  <2> DEFINE pc == IF Revalidates(run[c]) THEN "revalRead" ELSE "exec"
  <2>1. ClaimStepLease(c, m.position, pc, "replay", "idle") /\ pc \notin MarkerHolding
    BY <1>9 DEF ClaimGate, MarkerHolding
  <2> HIDE DEF pc
  <2>2. QED
    BY <1>1, <2>1, ClaimLeased, HoldingFacts
<1>10. CASE StepDone(c)
  BY <1>1, <1>10, CompleteLeased, HoldingFacts DEF StepDone
<1>11. CASE StepFail(c)
  BY <1>1, <1>11, CompleteLeased, HoldingFacts DEF StepFail
<1>12. CASE RevalidateRead(c)
  <2> DEFINE pc == CASE steps[m.marker].status \in {"none", "succeeded"} -> "revalBegin"
                     [] steps[m.marker].status = "failed" -> "replayRelease"
                     [] OTHER -> "dropClaim"
  <2>1. Goto(c, pc) /\ run[c].pc \in Holding
    BY <1>12 DEF RevalidateRead, Holding
  <2>2. pc \notin MarkerHolding
    BY DEF MarkerHolding
  <2> HIDE DEF pc
  <2>3. QED
    BY <2>1, <2>2, GotoLeased
<1>13. CASE RevalidateBegin(c)
  <2>1. run[c].pc \in Holding \cap Revalidating /\ "revalClaim" \notin MarkerHolding
    BY <1>13 DEF RevalidateBegin, Holding, MarkerHolding, Revalidating
  <2>2. QED
    BY <1>2, <1>13, <2>1, BeginLeased, GotoLeased, HoldingFacts DEF RevalidateBegin
<1>14. CASE RevalidateClaim(c)
  <2>1. /\ ClaimStepLease(c, m.marker, "revalRun", "dropClaim", "dropClaim")
        /\ run[c].pc \in Holding \cap Revalidating
    BY <1>14 DEF RevalidateClaim, Holding, Revalidating
  <2>2. QED
    BY <1>2, <2>1, ClaimLeased, HoldingFacts
<1>15. CASE RevalidateRun(c)
  <2>1. /\ Goto(c, "revalDone") \/ Goto(c, "revalFail")
        /\ run[c].pc \in Holding \cap MarkerHolding
    BY <1>15 DEF RevalidateRun, Holding, MarkerHolding
  <2>2. QED
    BY <2>1, GotoLeased
<1>16. CASE RevalidateDone(c)
  <2>1. /\ CompleteStepAttempt(c, m.marker, "succeeded", "revalPersist", "dropClaim")
        /\ run[c].pc \in Holding \cap Revalidating /\ "revalPersist" \notin MarkerHolding
    BY <1>16 DEF RevalidateDone, Holding, MarkerHolding, Revalidating
  <2>2. QED
    BY <1>2, <2>1, CompleteLeased, HoldingFacts
<1>17. CASE RevalidateFail(c)
  BY <1>17, ReleaseLeased, HoldingFacts DEF RevalidateFail
<1>18. CASE RevalidateFailDone(c)
  <2>1. /\ CompleteStepAttempt(c, m.marker, "failed", "failPersist", "idle")
        /\ run[c].pc \in Revalidating
    BY <1>18 DEF RevalidateFailDone, Revalidating
  <2>2. QED
    BY <1>2, <2>1, CompleteLeased, HoldingFacts
<1>19. CASE ReplayRelease(c)
  BY <1>19, ReleaseLeased, HoldingFacts DEF ReplayRelease
<1>20. CASE DropClaim(c)
  BY <1>20, ReleaseLeased, HoldingFacts DEF DropClaim
<1>21. CASE ReportProgress(c)
  <2>1. PICK status \in OpenStatuses :
          IF ~op.done /\ Authorized(c, m.position)
          THEN Ledger(c, m.position, [steps[m.position] EXCEPT !.status = status], "progress")
          ELSE Return(c)
    BY <1>21 DEF ReportProgress
  <2> DEFINE a == [steps[m.position] EXCEPT !.status = status]
  <2>2. steps[m.position] \in AttemptType /\ steps \in LedgerType
    BY <1>1 DEF SafetyInv, CoordinatorTypes, LedgerType
  <2>3. a \in AttemptType /\ \A d : Held(steps[m.position], d) => Held(a, d)
    BY <2>2 DEF AttemptType, Held
  <2> HIDE DEF a
  <2>4. CASE ~op.done /\ Authorized(c, m.position)
    <3>1. Ledger(c, m.position, a, "progress") /\ Held(steps[m.position], c)
      BY <2>1, <2>4 DEF a, Authorized, Owns, Open, Held
    <3>2. Held([steps EXCEPT ![m.position] = a][m.position], c)
      BY <1>1, <2>2, <2>3, <3>1 DEF LedgerType
    <3>3. QED
      BY <1>1, <2>2, <2>3, <3>1, <3>2, LedgerLeased, HoldingFacts
  <2>5. CASE ~(~op.done /\ Authorized(c, m.position))
    BY <2>1, <2>5, ReturnLeased
  <2>6. QED
    BY <2>4, <2>5
<1>22. QED
  BY <1>3, <1>4, <1>5, <1>6, <1>7, <1>8, <1>9, <1>10, <1>11, <1>12, <1>13, <1>14, <1>15,
     <1>16, <1>17, <1>18, <1>19, <1>20, <1>21 DEF Attempts

(* The steps that reconcile or end a gate.                                 *)
LEMMA GateLeased ==
  ASSUME SafetyInv, ExclusiveInv, NEW c \in Coordinators, Reconcile(c) \/ GateEnds(c)
  PROVE  ExclusiveInv'
<1>1. run[c] \in RunType /\ steps \in LedgerType
  BY DEF SafetyInv, CoordinatorTypes
<1>2. CASE Reconcile(c)
  <2> DEFINE m == run[c].m
             p == m.position
             host == IsHostGate(Operation, p)
             pc == CASE steps[p].status \in {"succeeded", "skipped"} -> "gatePersist"
                     [] steps[p].status = "failed" -> "failPersist"
                     [] OTHER -> IF run[c].pc = "replay" THEN "claimRead" ELSE CheckPc(run[c])
             k == IF pc = "gatePersist" /\ host THEN HostMarked(m, p) ELSE m
             r == [run[c] EXCEPT !.pc = pc, !.inRun = (run[c].pc = "loadRead"), !.m = k]
  <2>1. CASE steps[p].status = "skipped" /\ host
    BY <1>2, <2>1, ReturnLeased DEF Reconcile
  <2>2. CASE ~(steps[p].status = "skipped" /\ host)
    <3>1. Settle(c, r, steps) /\ late' = late /\ candidate' = candidate
      BY <1>2, <2>2 DEF Reconcile
    <3>2. pc \notin Holding
      BY PcFacts, PcNames, HoldingFacts
    <3> HIDE DEF pc, k
    <3>3. r.pc = pc
      BY <1>1 DEF RunType
    <3> HIDE DEF r
    <3>4. Leased(r, steps, c)
      BY <3>2, <3>3, HoldingFacts DEF Leased
    <3>5. QED
      BY <1>1, <3>1, <3>4, SettleLeased
  <2>3. QED
    BY <2>1, <2>2
<1>3. CASE GateEnds(c)
  <2> DEFINE m == run[c].m
             k == IF IsHostGate(Operation, m.position) THEN HostMarked(m, m.position) ELSE m
             r == [run[c] EXCEPT !.pc = "stepDone", !.inRun = FALSE, !.revalidate = FALSE, !.m = k]
             s == [run[c] EXCEPT !.pc = "stepFail", !.inRun = FALSE]
  <2>1. /\ Settle(c, r, steps) \/ Settle(c, s, steps)
        /\ late' = late /\ candidate' = candidate /\ run[c].pc \in Holding
    BY <1>3 DEF GateEnds, Holding
  <2>2. Legal(m, everDone)
    BY ReachedFacts DEF RunOK
  <2>3. k.position = m.position
    BY <2>2, HostMarkedFacts
  <2> HIDE DEF k
  <2>4. r.pc = "stepDone" /\ r.m = k /\ s.pc = "stepFail" /\ s.m = m
    BY <1>1 DEF RunType
  <2>5. {"stepDone", "stepFail"} \cap MarkerHolding = {}
    BY DEF MarkerHolding
  <2> HIDE DEF r, s
  <2>6. late = 0 => Leased(r, steps, c) /\ Leased(s, steps, c)
    BY <2>1, <2>3, <2>4, <2>5 DEF Leased, ExclusiveInv
  <2>7. QED
    BY <1>1, <2>1, <2>6, SettleLeased
<1>4. QED
  BY <1>2, <1>3

(* The steps that load, close or reopen the row.                           *)
LEMMA RowLeased ==
  ASSUME SafetyInv, ExclusiveInv, NEW c \in Coordinators,
         \/ CloseFailed(c) \/ ReconcileTerminal(c) \/ CloseSucceeded(c)
         \/ Resume(c) \/ RecoverGate(c) \/ Acquire(c)
  PROVE  ExclusiveInv'
<1> DEFINE Ended(terminal) == [run[c] EXCEPT !.done = TRUE, !.terminal = terminal]
           Closes(terminal, pc) ==
               IF MayWrite(c) /\ ~op.done
               THEN Write(c, [op EXCEPT !.state = run[c].m.state, !.terminal = terminal,
                                        !.done = TRUE, !.idle = FALSE],
                          [run[c] EXCEPT !.pc = pc])
               ELSE Return(c)
<1>1. \A k : CheckPc(k) \notin Holding
  BY PcFacts, PcNames, HoldingFacts
<1>2. ASSUME NEW terminal, NEW pc, pc \notin Holding, Closes(terminal, pc)
      PROVE  ExclusiveInv'
  BY <1>2, CloseLeased
<1>3. CASE CloseFailed(c)
  <2> DEFINE pc == IF Ended("failed").inRun THEN CheckPc(Ended("failed")) ELSE "idle"
  <2>1. Closes("failed", pc)
    BY <1>3 DEF CloseFailed, CloseRow
  <2>2. pc \notin Holding
    BY <1>1, HoldingFacts
  <2> HIDE DEF pc
  <2>3. QED
    BY <1>2, <2>1, <2>2
<1>4. CASE ReconcileTerminal(c)
  <2>1. Closes(run[c].m.terminal, CheckPc(Ended(run[c].m.terminal)))
    BY <1>4 DEF ReconcileTerminal, CloseRow
  <2>2. QED
    BY <1>1, <1>2, <2>1
<1>5. CASE CloseSucceeded(c)
  <2>1. Closes("succeeded", "idle")
    BY <1>5 DEF CloseSucceeded, CloseRow
  <2>2. QED
    BY <1>2, <2>1, HoldingFacts
<1>6. CASE Resume(c)
  <2>1. \/ Return(c)
        \/ \E row : Write(c, row, [run[c] EXCEPT !.pc = "resumePersist", !.m = Recovered(c)])
    BY <1>6 DEF Resume
  <2>2. ASSUME NEW row, Write(c, row, [run[c] EXCEPT !.pc = "resumePersist", !.m = Recovered(c)])
        PROVE  ExclusiveInv'
    <3> DEFINE k == Recovered(c)
               r == [run[c] EXCEPT !.pc = "resumePersist", !.m = k]
    <3>1. run[c] \in RunType
      BY DEF SafetyInv, CoordinatorTypes
    <3>2. Write(c, row, r)
      BY <2>2
    <3> HIDE DEF k
    <3>3. /\ r.pc = "resumePersist"
          /\ [r EXCEPT !.fresh = TRUE, !.done = row.done, !.terminal = row.terminal,
                      !.decision = row.decision].pc = "resumePersist"
      BY <3>1 DEF RunType
    <3>4. run'[c].pc = "resumePersist"
      BY <3>2, <3>3 DEF Write
    <3> HIDE DEF r
    <3>5. QED
      BY <3>2, <3>3, <3>4, WriteLeased, HoldingFacts DEF Leased
  <2>3. QED
    BY <2>1, <2>2, ReturnLeased
<1>7. CASE RecoverGate(c)
  <2>1. Goto(c, "skipPersist") \/ Goto(c, "skipBegin") \/ Goto(c, "retryBegin") \/ Return(c)
    BY <1>7 DEF RecoverGate
  <2>2. QED
    BY <2>1, GotoLeased, ReturnLeased, HoldingFacts
<1>8. CASE Create(c)
  <2>1. PICK row : Write(c, row, [NotRunning EXCEPT !.pc = "init", !.inRun = TRUE])
    BY <1>8 DEF Create
  <2> DEFINE r == [NotRunning EXCEPT !.pc = "init", !.inRun = TRUE]
  <2>2. /\ r.pc = "init"
        /\ [r EXCEPT !.fresh = TRUE, !.done = row.done, !.terminal = row.terminal,
                    !.decision = row.decision].pc = "init"
    BY DEF NotRunning
  <2>3. Write(c, row, r)
    BY <2>1
  <2>4. run'[c].pc = "init"
    BY <2>2, <2>3 DEF Write
  <2> HIDE DEF r
  <2>5. QED
    BY <2>2, <2>3, <2>4, WriteLeased, HoldingFacts DEF Leased
<1>9. ASSUME NEW request \in Requests, Reopen(c, request)
      PROVE  ExclusiveInv'
  <2> DEFINE l == Loaded(request)
             pc == LoadPc(l)
             r == [l EXCEPT !.pc = pc]
  <2>1. Settle(c, r, steps) /\ late' = late /\ candidate' = candidate /\ steps \in LedgerType
    BY <1>9 DEF Reopen, SafetyInv, CoordinatorTypes
  <2>2. pc \in {"init", "error", "repair", "loadRead"} \/ pc = CheckPc(l)
    BY DEF LoadPc
  <2>3. pc \notin Holding
    BY <1>1, <2>2, HoldingFacts, PcNames
  <2>4. r.pc = pc
    <3> HIDE DEF pc
    <3>1. QED
      BY DEF Loaded, NotRunning
  <2> HIDE DEF r, pc
  <2>5. Leased(r, steps, c)
    BY <2>3, <2>4, HoldingFacts DEF Leased
  <2>6. QED
    BY <2>1, <2>5, SettleLeased
<1>10. QED
  BY <1>3, <1>4, <1>5, <1>6, <1>7, <1>8, <1>9 DEF Acquire

(* Nobody holds anything at first.                                         *)
LEMMA InitExclusive == CoordinatorConstants /\ Init => ExclusiveInv
<1> SUFFICES ASSUME Init PROVE ExclusiveInv
  OBVIOUS
<1>1. \A c \in Coordinators : run[c].pc = "idle"
  BY DEF Init, NotRunning
<1>2. QED
  BY <1>1, HoldingFacts DEF Init, ExclusiveInv, Leased

(* The attempts of the gates that live coordinators run stay theirs.       *)
LEMMA AttemptLeased ==
  ASSUME SafetyInv, ExclusiveInv, NEW p \in Positions, NEW a,
         steps' = [steps EXCEPT ![p] = a], run' = run, candidate' = candidate, late' = late,
         \A c \in Coordinators : Held(steps[p], c) => Held(a, c)
  PROVE  ExclusiveInv'
<1>1. \A q \in Positions, c \in Coordinators : Held(steps[q], c) => Held(steps'[q], c)
  BY DEF SafetyInv, CoordinatorTypes, LedgerType
<1>2. \A c \in Coordinators :
        /\ run[c].m.position \in Positions
        /\ run[c].pc \in MarkerHolding => run[c].m.marker \in Positions
  BY ReachedFacts, HoldingFacts DEF RunOK
<1>3. QED
  BY <1>1, <1>2, HoldingFacts DEF ExclusiveInv, Leased

(* Every step leaves the leases of live coordinators with them.            *)
LEMMA NextExclusive == ~Reclaims /\ SafetyInv /\ ExclusiveInv /\ [Next]_vars => ExclusiveInv'
<1> SUFFICES ASSUME ~Reclaims, SafetyInv, ExclusiveInv, [Next]_vars PROVE ExclusiveInv'
  OBVIOUS
<1>1. CASE UNCHANGED vars
  BY <1>1 DEF vars, ExclusiveInv, Leased
<1>2. ASSUME NEW c \in Coordinators, Acquire(c) \/ Proceed(c) \/ ReportProgress(c)
      PROVE  ExclusiveInv'
  <2>1. \/ Stores(c) \/ Attempts(c) \/ Reconcile(c) \/ GateEnds(c) \/ Resume(c) \/ Acquire(c)
        \/ RecoverGate(c) \/ CloseFailed(c) \/ ReconcileTerminal(c) \/ CloseSucceeded(c)
    BY <1>2 DEF Proceed, Stores, Attempts
  <2>2. QED
    BY <2>1, StoresLeased, AttemptsLeased, GateLeased, RowLeased
<1>3. ASSUME NEW c \in Coordinators, Heartbeat(c)
      PROVE  ExclusiveInv'
  <2>1. PICK p \in Positions : /\ steps' = [steps EXCEPT ![p].seen = {}]
                              /\ UNCHANGED <<run, candidate, late>>
    BY <1>3 DEF Heartbeat
  <2> DEFINE a == [steps[p] EXCEPT !.seen = {}]
  <2>2. \A d \in Coordinators : Held(steps[p], d) => Held(a, d)
    BY DEF SafetyInv, CoordinatorTypes, LedgerType, AttemptType, Held
  <2>3. steps' = [steps EXCEPT ![p] = a]
    BY <2>1
  <2> HIDE DEF a
  <2>4. QED
    BY <2>1, <2>2, <2>3, AttemptLeased
<1>4. ASSUME NEW c \in Coordinators, Crash(c)
      PROVE  ExclusiveInv'
  <2>1. /\ Settle(c, NotRunning, steps) /\ late' = late /\ candidate' = candidate
        /\ steps \in LedgerType
    BY <1>4 DEF Crash, SafetyInv, CoordinatorTypes
  <2>2. Leased(NotRunning, steps, c)
    BY HoldingFacts DEF Leased, NotRunning
  <2>3. QED
    BY <2>1, <2>2, SettleLeased
<1>5. ASSUME NEW p \in Positions, LeaseExpires(p)
      PROVE  ExclusiveInv'
  <2>1. CASE steps[p].owner = Gone /\ UNCHANGED late
    <3>1. steps' = [steps EXCEPT ![p].live = FALSE] /\ UNCHANGED <<run, candidate, late>>
      BY <1>5, <2>1 DEF LeaseExpires
    <3> DEFINE a == [steps[p] EXCEPT !.live = FALSE]
    <3>2. \A d \in Coordinators : ~Held(steps[p], d)
      BY <2>1 DEF SafetyInv, CoordinatorTypes, CoordinatorConstants, Held
    <3>3. steps' = [steps EXCEPT ![p] = a]
      BY <3>1
    <3> HIDE DEF a
    <3>4. QED
      BY <3>1, <3>2, <3>3, AttemptLeased
  <2>2. CASE late' = late + 1
    <3>1. candidate' = candidate /\ late' \in Nat /\ late' # 0
      BY <1>5, <2>2 DEF LeaseExpires, ExclusiveInv
    <3>2. QED
      BY <3>1 DEF ExclusiveInv
  <2>3. QED
    BY <1>5, <2>1, <2>2 DEF LeaseExpires
<1>6. CASE ReclaimOrphan
  BY <1>6 DEF ReclaimOrphan, ExclusiveInv
<1>7. QED
  BY <1>1, <1>2, <1>3, <1>4, <1>5, <1>6 DEF Next, GoesIdle, ListOrphan, CloseByOperator

(* Without the reclaim and the operator's command, no gate is executed by  *)
(* two coordinators at once as long as live coordinators have renewed their*)
(* leases in time (lease and heartbeat of lifecycle_coordinator_lease.go). *)
THEOREM OneExecutorWithoutReclaim == ~Reclaims /\ CoordinatorConstants /\ Spec => []OneExecutor
<1> SUFFICES ASSUME ~Reclaims PROVE CoordinatorConstants /\ Spec => []OneExecutor
  OBVIOUS
<1>1. CoordinatorConstants /\ Init => SafetyInv /\ ExclusiveInv
  BY InitSafe, InitExclusive
<1>2. (SafetyInv /\ ExclusiveInv) /\ [Next]_vars => (SafetyInv /\ ExclusiveInv)'
  BY NextSafe, NextExclusive DEF SafeStep
<1>3. SafetyInv /\ ExclusiveInv => OneExecutor
  <2> SUFFICES ASSUME SafetyInv, ExclusiveInv, late = 0,
                      NEW c \in Coordinators, NEW d \in Coordinators, NEW p \in Positions,
                      Executing(c, p), Executing(d, p)
               PROVE  c = d
    BY DEF OneExecutor
  <2>1. Held(steps[p], c) /\ Held(steps[p], d)
    BY DEF Executing, ExclusiveInv, Leased, Holding, MarkerHolding
  <2>2. QED
    BY <2>1 DEF Held
<1>4. QED
  BY <1>1, <1>2, <1>3, PTL DEF Spec
=============================================================================
