------------------------ MODULE RuntimeRolloutProofs ------------------------
(* What the runs of MCRuntimeRollout show for two plans, two nodes and two *)
(* callers, proved for any number of them.                                 *)
EXTENDS RuntimeRollout, TLAPS

(* What any callback of transition may make of the row p it read: q, when  *)
(* the report said is accepted with it.                                    *)
Legal(p, q, said) ==
    /\ q.rev = p.rev
    /\ Exists(q)
    /\ RowOK(p) => RowOK(q)
    /\ Terminal(p) => Terminal(q)
    /\ p.phase \in {"failed", "rolled_back"} => q.phase # "active"
    /\ p.phase # "active" /\ q.phase = "active" => Promotable(p)
    /\ \A n \in Nodes :
         q.acks[n].health = IF said[n] # "absent" THEN said[n] ELSE p.acks[n].health

(* A copy waiting to be saved is a legal edit of the row, unless the row   *)
(* has got a later revision since.                                         *)
SaveInv ==
    \A c \in Callers :
        call[c].pc = "save" =>
            LET p == plan[call[c].id]
                q == call[c].next
            IN  /\ Exists(p)
                /\ q.rev <= p.rev
                /\ q.rev = p.rev => Legal(p, q, call[c].said)

RolloutInv ==
    /\ TypeOK
    /\ SaveInv
    /\ OneOpenPlan
    /\ ReportsSurvive

Call ==
    [pc : {"idle", "save", "lookup", "act"}, id : Plans, next : Row,
     said : [Nodes -> Health], migrated : BOOLEAN]

(* Every phase name is in exactly one class.                               *)
LEMMA Phases ==
  ASSUME NEW p \in Row
  PROVE  /\ Exists(p) <=> Open(p) \/ Terminal(p)
         /\ ~(Open(p) /\ Terminal(p))
BY DEF Row, Exists, Open, Terminal, OpenPhases, TerminalPhases

LEMMA BlankTypes ==
  /\ NoReport \in [Nodes -> Health]
  /\ NoPlan \in Row
  /\ ~Exists(NoPlan) /\ ~Open(NoPlan) /\ RowOK(NoPlan)
  /\ \A n \in Nodes : NoReport[n] = "absent" /\ NoPlan.acks[n].health = "absent"
<1>1. NoReport \in [Nodes -> Health]
  BY DEF NoReport, Health
<1>2. NoAcks \in [Nodes -> [health : Health, canary : BOOLEAN]]
  BY DEF NoAcks, Health
<1>3. NoPlan \in Row
  BY <1>2 DEF NoPlan, Row
<1>4. ~Exists(NoPlan) /\ ~Open(NoPlan) /\ RowOK(NoPlan)
  BY DEF NoPlan, Exists, Open, RowOK, OpenPhases
<1>5. \A n \in Nodes : NoReport[n] = "absent" /\ NoPlan.acks[n].health = "absent"
  BY DEF NoReport, NoPlan, NoAcks
<1>6. QED
  BY <1>1, <1>3, <1>4, <1>5

LEMMA IdleType == Idle \in Call
<1>1. (CHOOSE j \in Plans : TRUE) \in Plans
  BY RolloutConstants
<1>2. QED
  BY <1>1, BlankTypes DEF Idle, Call

LEMMA RolloutInit == Init => RolloutInv
<1> SUFFICES ASSUME Init PROVE RolloutInv
  OBVIOUS
<1>1. plan \in [Plans -> Row] /\ \A i \in Plans : RowOK(plan[i])
  BY BlankTypes DEF Init
<1>2. call \in [Callers -> Call]
  BY IdleType DEF Init
<1>3. newer \subseteq Plans \X Plans /\ reported \in [Plans -> [Nodes -> Health]]
  BY BlankTypes DEF Init
<1>4. TypeOK
  BY <1>1, <1>2, <1>3 DEF TypeOK, Call
<1>5. SaveInv
  BY DEF SaveInv, Init, Idle
<1>6. OneOpenPlan
  BY BlankTypes DEF OneOpenPlan, Init
<1>7. ReportsSurvive
  BY BlankTypes DEF ReportsSurvive, Init
<1>8. QED
  BY <1>4, <1>5, <1>6, <1>7 DEF RolloutInv

-----------------------------------------------------------------------------
(* Every callback of transition makes a legal edit of the row it read.     *)

LEMMA Unedited ==
  ASSUME NEW p \in Row, Exists(p)
  PROVE  /\ Legal(p, p, NoReport)
         /\ Noted(p) \in Row
         /\ Legal(p, Noted(p), NoReport)
BY BlankTypes DEF Legal, Row, Noted, Exists, RowOK, Terminal

LEMMA PhaseEdits ==
  ASSUME NEW p \in Row, Exists(p), NEW message \in BOOLEAN
  PROVE  /\ MayMarkReady(p) => Migrated(p) \in Row /\ Legal(p, Migrated(p), NoReport)
         /\ MayDrain(p) => LET q == [p EXCEPT !.phase = "draining"]
                           IN  q \in Row /\ Legal(p, q, NoReport)
         /\ Promotable(p) => Promoted(p) \in Row /\ Legal(p, Promoted(p), NoReport)
         /\ MayRollback(p) => RolledBack(p) \in Row /\ Legal(p, RolledBack(p), NoReport)
         /\ Failed(p, message) \in Row /\ Legal(p, Failed(p, message), NoReport)
<1> USE BlankTypes DEF Legal, Row, Exists, RowOK, Terminal, OpenPhases, TerminalPhases
<1>1. MayMarkReady(p) => Migrated(p) \in Row /\ Legal(p, Migrated(p), NoReport)
  BY DEF MayMarkReady, Migrated
<1>2. ASSUME MayDrain(p)
      PROVE  LET q == [p EXCEPT !.phase = "draining"]
             IN  q \in Row /\ Legal(p, q, NoReport)
  BY <1>2 DEF MayDrain
<1>3. Promotable(p) => Promoted(p) \in Row /\ Legal(p, Promoted(p), NoReport)
  BY DEF Promotable, MayPromote, Promoted
<1>4. MayRollback(p) => RolledBack(p) \in Row /\ Legal(p, RolledBack(p), NoReport)
  BY DEF MayRollback, RolledBack
<1>5. Failed(p, message) \in Row /\ Legal(p, Failed(p, message), NoReport)
  BY DEF Failed
<1>6. QED
  BY <1>1, <1>2, <1>3, <1>4, <1>5

LEMMA AckEdit ==
  ASSUME NEW p \in Row, Exists(p), NEW n \in Nodes,
         NEW h \in Health \ {"absent"}, NEW k \in BOOLEAN
  PROVE  /\ [NoReport EXCEPT ![n] = h] \in [Nodes -> Health]
         /\ Acked(p, n, h, k) \in Row
         /\ Legal(p, Acked(p, n, h, k), [NoReport EXCEPT ![n] = h])
<1> USE DEF Legal, Row, Exists, RowOK, Terminal, NoReport, Health
<1>1. [NoReport EXCEPT ![n] = h] \in [Nodes -> Health]
  OBVIOUS
<1>2. Acked(p, n, h, k) \in Row
  BY DEF Acked
<1>3. Legal(p, Acked(p, n, h, k), [NoReport EXCEPT ![n] = h])
  BY DEF Acked
<1>4. QED
  BY <1>1, <1>2, <1>3

LEMMA LossEdit ==
  ASSUME NEW p \in Row, Exists(p), NEW n \in Nodes
  PROVE  /\ [NoReport EXCEPT ![n] = "unhealthy"] \in [Nodes -> Health]
         /\ Lost(p, n) \in Row
         /\ Legal(p, Lost(p, n), [NoReport EXCEPT ![n] = "unhealthy"])
<1> USE DEF Legal, Row, Exists, RowOK, Terminal, NoReport, Health
<1>1. [NoReport EXCEPT ![n] = "unhealthy"] \in [Nodes -> Health]
  OBVIOUS
<1>2. Lost(p, n) \in Row
  BY DEF Lost
<1>3. Legal(p, Lost(p, n), [NoReport EXCEPT ![n] = "unhealthy"])
  BY DEF Lost
<1>4. QED
  BY <1>1, <1>2, <1>3

LEMMA CanaryEdit ==
  ASSUME NEW p \in Row, MaySelect(p)
  PROVE  Selected(p) \in Row /\ Legal(p, Selected(p), NoReport)
<1> DEFINE size == CohortSize(p)
           first == {n \in Known(p) : Cardinality({m \in Known(p) : m < n}) < size}
           acks == [n \in Nodes |-> [health |-> p.acks[n].health, canary |-> n \in first]]
<1>1. Selected(p) = [p EXCEPT !.phase = "canary", !.acks = acks]
  BY DEF Selected
<1> HIDE DEF first
<1>2. acks \in [Nodes -> [health : Health, canary : BOOLEAN]]
  BY DEF Row
<1>3. \A n \in Nodes : acks[n].health = p.acks[n].health
  OBVIOUS
<1> HIDE DEF acks
<1>4. Selected(p) \in Row
  BY <1>1, <1>2 DEF Row, OpenPhases
<1>5. Legal(p, Selected(p), NoReport)
  BY <1>1, <1>3, BlankTypes DEF Legal, Row, MaySelect, Exists, RowOK, Terminal, OpenPhases, TerminalPhases
<1>6. QED
  BY <1>4, <1>5

-----------------------------------------------------------------------------
(* A call that reads a row.                                                *)
LEMMA OutcomeStep ==
  ASSUME RolloutInv, NEW c \in Callers, NEW i \in Plans,
         NEW allowed \in BOOLEAN, NEW next, NEW noted, NEW said \in [Nodes -> Health],
         Exists(plan[i]) => (allowed => next \in Row /\ Legal(plan[i], next, said)),
         Exists(plan[i]) => noted \in Row /\ Legal(plan[i], noted, NoReport),
         Outcome(c, i, allowed, next, noted, said)
  PROVE  RolloutInv'
<1>1. UNCHANGED <<plan, newer, reported>> /\ Exists(plan[i])
  BY DEF Outcome
<1>2. PICK q \in Row, told \in [Nodes -> Health] :
        /\ Legal(plan[i], q, told)
        /\ \/ call' = [call EXCEPT ![c] = Saving(i, q, told)]
           \/ call' = [call EXCEPT ![c] = Idle]
  <2>1. CASE allowed
    BY <2>1, <1>1 DEF Outcome
  <2>2. CASE ~allowed
    BY <2>2, <1>1, BlankTypes DEF Outcome
  <2>3. QED
    BY <2>1, <2>2
<1>3. Saving(i, q, told) \in Call /\ Idle \in Call
  BY IdleType DEF Saving, Call
<1>4. call' \in [Callers -> Call]
  BY <1>2, <1>3 DEF RolloutInv, TypeOK, Call
<1>5. TypeOK'
  BY <1>1, <1>4 DEF RolloutInv, TypeOK, Call, RowOK
<1>6. SaveInv'
  <2> SUFFICES ASSUME NEW d \in Callers, call'[d].pc = "save"
               PROVE  /\ Exists(plan[call'[d].id])
                      /\ call'[d].next.rev <= plan[call'[d].id].rev
                      /\ call'[d].next.rev = plan[call'[d].id].rev
                           => Legal(plan[call'[d].id], call'[d].next, call'[d].said)
    BY <1>1 DEF SaveInv, Legal, Exists, RowOK, Terminal, Promotable, MayPromote, Known, Healthy
  <2>1. CASE d # c
    BY <2>1, <1>2 DEF RolloutInv, SaveInv, TypeOK
  <2>2. CASE d = c
    <3>1. call'[c] = Saving(i, q, told)
      BY <2>2, <1>2 DEF Idle, RolloutInv, TypeOK
    <3>2. q.rev = plan[i].rev /\ q.rev \in Nat
      BY <1>2 DEF Legal, Row
    <3>3. QED
      BY <2>2, <3>1, <3>2, <1>1, <1>2 DEF Saving
  <2>3. QED
    BY <2>1, <2>2
<1>7. OneOpenPlan' /\ ReportsSurvive'
  BY <1>1 DEF RolloutInv, OneOpenPlan, ReportsSurvive, Open
<1>8. QED
  BY <1>5, <1>6, <1>7 DEF RolloutInv

LEMMA BeginStep ==
  ASSUME RolloutInv, NEW c \in Callers, NEW i \in Plans, Begin(c, i)
  PROVE  RolloutInv'
<1> DEFINE p == plan[i]
<1>1. p \in Row /\ NoReport \in [Nodes -> Health]
  BY BlankTypes DEF RolloutInv, TypeOK
<1>2. Exists(p) => /\ Legal(p, p, NoReport)
                   /\ Noted(p) \in Row
                   /\ Legal(p, Noted(p), NoReport)
  BY <1>1, Unedited
<1> HIDE DEF p
<1>3. CASE MarkMigrationReady(c, i)
  <2>1. MayMarkReady(p) \in BOOLEAN
    BY DEF MayMarkReady
  <2>2. Outcome(c, i, MayMarkReady(p), Migrated(p), p, NoReport)
    BY <1>3 DEF MarkMigrationReady, p
  <2>3. QED
    BY <1>1, <1>2, <2>1, <2>2, PhaseEdits, OutcomeStep DEF p
<1>4. CASE SelectCanary(c, i)
  <2>1. MaySelect(p) \in BOOLEAN
    BY <1>1 DEF MaySelect, Row
  <2>2. Outcome(c, i, MaySelect(p), Selected(p), p, NoReport)
    BY <1>4 DEF SelectCanary, p
  <2>3. QED
    BY <1>1, <1>2, <2>1, <2>2, CanaryEdit, OutcomeStep DEF p
<1>5. CASE BeginDrain(c, i)
  <2>1. MayDrain(p) \in BOOLEAN
    BY DEF MayDrain, Healthy
  <2>2. Outcome(c, i, MayDrain(p), [p EXCEPT !.phase = "draining"], p, NoReport)
    BY <1>5 DEF BeginDrain, p
  <2>3. QED
    BY <1>1, <1>2, <2>1, <2>2, PhaseEdits, OutcomeStep DEF p
<1>6. CASE PromoteAtomic(c, i)
  <2> DEFINE noted == IF MayPromote(p) THEN Noted(p) ELSE p
  <2>1. Promotable(p) \in BOOLEAN
    BY <1>1 DEF Promotable, MayPromote, Healthy, Row
  <2>2. Outcome(c, i, Promotable(p), Promoted(p), noted, NoReport)
    BY <1>6 DEF PromoteAtomic, p
  <2>3. Exists(p) => noted \in Row /\ Legal(p, noted, NoReport)
    BY <1>1, <1>2
  <2> HIDE DEF noted
  <2>4. QED
    BY <1>1, <2>1, <2>2, <2>3, PhaseEdits, OutcomeStep DEF p
<1>7. CASE Rollback(c, i)
  <2>1. MayRollback(p) \in BOOLEAN
    BY DEF MayRollback
  <2>2. Outcome(c, i, MayRollback(p), RolledBack(p), p, NoReport)
    BY <1>7 DEF Rollback, p
  <2>3. QED
    BY <1>1, <1>2, <2>1, <2>2, PhaseEdits, OutcomeStep DEF p
<1>8. CASE \E message \in Messages : Fail(c, i, message)
  <2>1. PICK message \in Messages : Outcome(c, i, TRUE, Failed(p, message), p, NoReport)
    BY <1>8 DEF Fail, p
  <2>2. message \in BOOLEAN
    BY RolloutConstants
  <2>3. QED
    BY <1>1, <1>2, <2>1, <2>2, PhaseEdits, OutcomeStep DEF p
<1>9. CASE \E only \in BOOLEAN : HealthGate(c, i, only)
  <2>1. PICK only \in BOOLEAN : HealthGate(c, i, only)
    BY <1>9
  <2> DEFINE asked == Gated(p, only)
             allowed == GateOpen(p) /\ asked # {} /\ Healthy(p, asked)
             noted == IF GateOpen(p) /\ ~Healthy(p, asked) THEN Noted(p) ELSE p
  <2>2. allowed \in BOOLEAN
    BY DEF GateOpen, Healthy
  <2>3. Outcome(c, i, allowed, p, noted, NoReport)
    BY <2>1 DEF HealthGate, p
  <2>4. Exists(p) => noted \in Row /\ Legal(p, noted, NoReport)
    BY <1>1, <1>2
  <2> HIDE DEF allowed, noted
  <2>5. QED
    BY <1>1, <1>2, <2>2, <2>3, <2>4, OutcomeStep DEF p
<1>10. CASE \E n \in Nodes : MarkNodeLost(c, i, n)
  <2>1. PICK n \in Nodes : MarkNodeLost(c, i, n)
    BY <1>10
  <2>2. Outcome(c, i, n \in Known(p), Lost(p, n), p, [NoReport EXCEPT ![n] = "unhealthy"])
    BY <2>1 DEF MarkNodeLost, p
  <2>3. [NoReport EXCEPT ![n] = "unhealthy"] \in [Nodes -> Health]
    BY DEF NoReport, Health
  <2>4. Exists(p) => /\ Lost(p, n) \in Row
                     /\ Legal(p, Lost(p, n), [NoReport EXCEPT ![n] = "unhealthy"])
    BY <1>1, LossEdit
  <2>5. (n \in Known(p)) \in BOOLEAN
    OBVIOUS
  <2>6. QED
    BY <1>1, <1>2, <2>2, <2>3, <2>4, <2>5, OutcomeStep DEF p
<1>11. CASE \E n \in Nodes, h \in Health \ {"absent"}, k \in BOOLEAN : AckNode(c, i, n, h, k)
  <2>1. PICK n \in Nodes, h \in Health \ {"absent"}, k \in BOOLEAN : AckNode(c, i, n, h, k)
    BY <1>11
  <2>2. Outcome(c, i, TRUE, Acked(p, n, h, k), p, [NoReport EXCEPT ![n] = h])
    BY <2>1 DEF AckNode, p
  <2>3. [NoReport EXCEPT ![n] = h] \in [Nodes -> Health]
    BY DEF NoReport, Health
  <2>4. Exists(p) => /\ Acked(p, n, h, k) \in Row
                     /\ Legal(p, Acked(p, n, h, k), [NoReport EXCEPT ![n] = h])
    BY <1>1, AckEdit
  <2>5. QED
    BY <1>1, <1>2, <2>2, <2>3, <2>4, OutcomeStep DEF p
<1>12. QED
  BY <1>3, <1>4, <1>5, <1>6, <1>7, <1>8, <1>9, <1>10, <1>11 DEF Begin

-----------------------------------------------------------------------------
(* A save writes a legal edit of the very row it replaces, or nothing.     *)
LEMMA RevisionEdit ==
  ASSUME NEW p \in Row, NEW r \in Nat
  PROVE  LET q == [p EXCEPT !.rev = r]
         IN  q \in Row /\ q.rev = r /\ q.acks = p.acks /\ q.phase = p.phase
             /\ q.ready = p.ready /\ q.snapshot = p.snapshot
BY DEF Row

LEMMA SaveEdit ==
  ASSUME RolloutInv, NEW c \in Callers, Save(c), plan' # plan
  PROVE  LET i == call[c].id IN
         /\ i \in Plans
         /\ Exists(plan[i])
         /\ Current(c)
         /\ Legal(plan[i], call[c].next, call[c].said)
         /\ plan' = [plan EXCEPT ![i] = [call[c].next EXCEPT !.rev = plan[i].rev + 1]]
         /\ newer' = WrittenLast(i)
         /\ reported' = [reported EXCEPT ![i] =
                [n \in Nodes |-> IF call[c].said[n] # "absent" THEN call[c].said[n]
                                 ELSE reported[i][n]]]
BY DEF Save, Current, RolloutInv, SaveInv, TypeOK

(* Saves of other callers that read the row before it was replaced are now *)
(* behind its revision.                                                    *)
LEMMA OthersBehind ==
  ASSUME RolloutInv, NEW i \in Plans, NEW q \in Row,
         plan' = [plan EXCEPT ![i] = q], Exists(q), q.rev > plan[i].rev,
         NEW d \in Callers, call'[d] = call[d]
  PROVE  call'[d].pc = "save" =>
            /\ Exists(plan'[call'[d].id])
            /\ call'[d].next.rev <= plan'[call'[d].id].rev
            /\ call'[d].next.rev = plan'[call'[d].id].rev
                 => Legal(plan'[call'[d].id], call'[d].next, call'[d].said)
<1> SUFFICES ASSUME call[d].pc = "save"
             PROVE  /\ Exists(plan'[call[d].id])
                    /\ call[d].next.rev <= plan'[call[d].id].rev
                    /\ call[d].next.rev = plan'[call[d].id].rev
                         => Legal(plan'[call[d].id], call[d].next, call[d].said)
  OBVIOUS
<1>1. call[d].id \in Plans /\ call[d].next.rev \in Nat /\ q.rev \in Nat
      /\ plan[call[d].id].rev \in Nat
  BY DEF RolloutInv, TypeOK, Row
<1>2. /\ Exists(plan[call[d].id])
      /\ call[d].next.rev <= plan[call[d].id].rev
      /\ call[d].next.rev = plan[call[d].id].rev
           => Legal(plan[call[d].id], call[d].next, call[d].said)
  BY DEF RolloutInv, SaveInv
<1>3. CASE call[d].id = i
  BY <1>1, <1>2, <1>3 DEF RolloutInv, TypeOK
<1>4. CASE call[d].id # i
  BY <1>1, <1>2, <1>4
<1>5. QED
  BY <1>3, <1>4

LEMMA SaveStep ==
  ASSUME RolloutInv, NEW c \in Callers, Save(c)
  PROVE  RolloutInv'
<1>1. call' = [call EXCEPT ![c] = Idle] /\ call' \in [Callers -> Call]
  BY IdleType DEF Save, RolloutInv, TypeOK, Call
<1>2. CASE plan' = plan
  <2>1. UNCHANGED <<newer, reported>>
    BY <1>2 DEF Save, RolloutInv, TypeOK, Row, Current
  <2>2. TypeOK'
    BY <1>1, <1>2, <2>1 DEF RolloutInv, TypeOK, Call, RowOK
  <2>3. SaveInv'
    BY <1>1, <1>2 DEF RolloutInv, TypeOK, SaveInv, Legal, Exists, RowOK, Terminal,
                      Promotable, MayPromote, Known, Healthy, Idle
  <2>4. QED
    BY <1>2, <2>1, <2>2, <2>3 DEF RolloutInv, OneOpenPlan, ReportsSurvive, Open
<1>3. CASE plan' # plan
  <2> DEFINE i == call[c].id
             q == [call[c].next EXCEPT !.rev = plan[i].rev + 1]
  <2>1. /\ i \in Plans /\ Exists(plan[i]) /\ Legal(plan[i], call[c].next, call[c].said)
        /\ plan' = [plan EXCEPT ![i] = q] /\ newer' = WrittenLast(i)
        /\ reported' = [reported EXCEPT ![i] =
              [n \in Nodes |-> IF call[c].said[n] # "absent" THEN call[c].said[n]
                               ELSE reported[i][n]]]
    BY <1>3, SaveEdit
  <2>2. plan[i] \in Row /\ call[c].next \in Row /\ call[c].said \in [Nodes -> Health]
        /\ RowOK(plan[i]) /\ reported \in [Plans -> [Nodes -> Health]]
    BY <2>1 DEF RolloutInv, TypeOK
  <2>3. q \in Row /\ q.rev > plan[i].rev
    <3>1. plan[i].rev \in Nat /\ plan[i].rev + 1 \in Nat
      BY <2>2 DEF Row
    <3>2. QED
      BY <2>2, <3>1, RevisionEdit
  <2>4. Exists(q) /\ RowOK(q) /\ (Terminal(plan[i]) => Terminal(q))
    BY <2>1, <2>2 DEF Row, Legal, Exists, RowOK, Terminal
  <2>5. \A n \in Nodes : q.acks[n].health =
              IF call[c].said[n] # "absent" THEN call[c].said[n] ELSE plan[i].acks[n].health
    <3>1. q.acks = call[c].next.acks
      BY <2>2 DEF Row
    <3>2. QED
      BY <2>1, <3>1 DEF Legal
  <2> HIDE DEF q, i
  <2>6. TypeOK'
    <3>1. newer' \subseteq Plans \X Plans
      BY <2>1 DEF WrittenLast, RolloutInv, TypeOK
    <3>2. reported' \in [Plans -> [Nodes -> Health]]
      BY <2>1, <2>2
    <3>3. \A j \in Plans : RowOK(plan[j])'
      BY <2>1, <2>4 DEF RolloutInv, TypeOK, RowOK
    <3>4. plan' \in [Plans -> Row]
      BY <2>1, <2>3 DEF RolloutInv, TypeOK
    <3>5. QED
      BY <1>1, <3>1, <3>2, <3>3, <3>4 DEF TypeOK, Call
  <2>7. SaveInv'
    <3>1. \A d \in Callers : d # c => call'[d] = call[d]
      BY <1>1 DEF RolloutInv, TypeOK
    <3>2. call'[c].pc = "idle"
      BY <1>1 DEF Idle, RolloutInv, TypeOK
    <3>3. QED
      BY <2>1, <2>3, <2>4, <3>1, <3>2, OthersBehind DEF SaveInv, Exists, Legal, RowOK, Terminal,
            Promotable, MayPromote, Known, Healthy
  <2>8. OneOpenPlan'
    BY <2>1, <2>2, <2>3, <2>4, Phases DEF RolloutInv, OneOpenPlan, TypeOK, Open, Terminal, Exists
  <2>9. ReportsSurvive'
    BY <2>1, <2>2, <2>5 DEF RolloutInv, ReportsSurvive, TypeOK
  <2>10. QED
    BY <2>6, <2>7, <2>8, <2>9 DEF RolloutInv
<1>4. QED
  BY <1>2, <1>3

-----------------------------------------------------------------------------
(* A step that leaves the table alone and puts no caller into a save.      *)
LEMMA NoSaveStep ==
  ASSUME RolloutInv, NEW c \in Callers, UNCHANGED <<plan, newer, reported>>,
         NEW k \in Call, k.pc # "save", call' = [call EXCEPT ![c] = k]
  PROVE  RolloutInv'
<1>1. call' \in [Callers -> Call]
  BY DEF RolloutInv, TypeOK, Call
<1>2. TypeOK'
  BY <1>1 DEF RolloutInv, TypeOK, Call, RowOK
<1>3. SaveInv'
  BY DEF RolloutInv, TypeOK, SaveInv, Legal, Exists, RowOK, Terminal,
         Promotable, MayPromote, Known, Healthy
<1>4. QED
  BY <1>2, <1>3 DEF RolloutInv, OneOpenPlan, ReportsSurvive, Open

(* A new plan: no open one, and no save of its row can be under way.       *)
LEMMA InsertStep ==
  ASSUME RolloutInv, NEW i \in Plans, Insert(i),
         call' \in [Callers -> Call],
         \A d \in Callers : call'[d] = call[d] \/ call'[d].pc # "save"
  PROVE  RolloutInv'
<1>1. /\ NewPlan \in Row /\ RowOK(NewPlan) /\ Exists(NewPlan)
      /\ NewPlan.rev > plan[i].rev
      /\ \A n \in Nodes : NewPlan.acks[n].health = "absent"
  <2>1. plan[i] = NoPlan
    BY DEF Insert
  <2>2. NoAcks \in [Nodes -> [health : Health, canary : BOOLEAN]]
        /\ \A n \in Nodes : NoAcks[n].health = "absent"
    BY DEF NoAcks, Health
  <2>3. QED
    BY <2>1, <2>2 DEF Row, RowOK, Exists, OpenPhases, NoPlan, NewPlan
<1>2. plan' = [plan EXCEPT ![i] = NewPlan] /\ newer' = WrittenLast(i) /\ reported' = reported
  BY DEF Insert
<1>3. TypeOK'
  <2>1. plan' \in [Plans -> Row] /\ \A j \in Plans : RowOK(plan[j])'
    BY <1>1, <1>2 DEF RolloutInv, TypeOK, RowOK
  <2>2. newer' \subseteq Plans \X Plans
    BY <1>2 DEF WrittenLast, RolloutInv, TypeOK
  <2>3. QED
    BY <1>2, <2>1, <2>2 DEF RolloutInv, TypeOK, Call
<1>4. SaveInv'
  BY <1>1, <1>2, OthersBehind DEF SaveInv, Exists, Legal, RowOK, Terminal,
        Promotable, MayPromote, Known, Healthy
<1>5. OneOpenPlan'
  BY <1>2 DEF RolloutInv, OneOpenPlan, TypeOK, Insert, Open
<1>6. ReportsSurvive'
  BY <1>1, <1>2, BlankTypes DEF RolloutInv, ReportsSurvive, TypeOK, Insert
<1>7. QED
  BY <1>3, <1>4, <1>5, <1>6 DEF RolloutInv

LEMMA DriveStep ==
  ASSUME RolloutInv, NEW c \in Callers, Drive(c)
  PROVE  RolloutInv'
<1>1. \A i \in Plans, ok \in BOOLEAN : Acting(i, ok) \in Call /\ Acting(i, ok).pc = "act"
  BY IdleType DEF Acting, Call, Idle
<1>2. CASE \E i \in Plans, ok \in BOOLEAN : DriveCreate(c, i, ok)
  <2>1. PICK i \in Plans, ok \in BOOLEAN : DriveCreate(c, i, ok)
    BY <1>2
  <2>2. /\ call' \in [Callers -> Call]
        /\ \A d \in Callers : call'[d] = call[d] \/ call'[d].pc # "save"
    BY <1>1, <2>1 DEF DriveCreate, RolloutInv, TypeOK, Call
  <2>3. QED
    BY <2>1, <2>2, InsertStep DEF DriveCreate
<1>3. CASE \E ok \in BOOLEAN : DriveConflict(c, ok)
  <2>1. PICK ok \in BOOLEAN : DriveConflict(c, ok)
    BY <1>3
  <2> DEFINE k == [Idle EXCEPT !.pc = "lookup", !.migrated = ok]
  <2>2. k \in Call /\ k.pc # "save"
    BY IdleType DEF Idle, Call
  <2>3. QED
    BY <2>1, <2>2, NoSaveStep DEF DriveConflict
<1>4. CASE DriveLookup(c)
  <2>1. call[c].migrated \in BOOLEAN
    BY DEF RolloutInv, TypeOK
  <2>2. PICK k \in Call : k.pc # "save" /\ call' = [call EXCEPT ![c] = k]
    <3>1. CASE Live = {} /\ call' = [call EXCEPT ![c] = Idle]
      BY <3>1, IdleType DEF Idle
    <3>2. CASE \E i \in Plans : call' = [call EXCEPT ![c] = Acting(i, call[c].migrated)]
      BY <1>1, <2>1, <3>2
    <3>3. QED
      BY <1>4, <3>1, <3>2 DEF DriveLookup
  <2>3. QED
    BY <1>4, <2>2, NoSaveStep DEF DriveLookup
<1>5. CASE DriveAct(c)
  <2> DEFINE i == call[c].id
             p == plan[i]
  <2>1. i \in Plans /\ p \in Row /\ NoReport \in [Nodes -> Health]
    BY BlankTypes DEF RolloutInv, TypeOK
  <2>2. Exists(p) => Legal(p, p, NoReport)
    BY <2>1, Unedited
  <2>3. MayMarkReady(p) \in BOOLEAN
    BY DEF MayMarkReady
  <2>4. \/ Outcome(c, i, MayMarkReady(p), Migrated(p), p, NoReport)
        \/ Outcome(c, i, TRUE, Failed(p, TRUE), p, NoReport)
    BY <1>5 DEF DriveAct
  <2>5. CASE Outcome(c, i, MayMarkReady(p), Migrated(p), p, NoReport)
    <3> HIDE DEF i
    <3>1. QED
      BY <2>1, <2>2, <2>3, <2>5, PhaseEdits, OutcomeStep
  <2>6. CASE Outcome(c, i, TRUE, Failed(p, TRUE), p, NoReport)
    <3> HIDE DEF i
    <3>1. QED
      BY <2>1, <2>2, <2>6, PhaseEdits, OutcomeStep
  <2>7. QED
    BY <2>4, <2>5, <2>6
<1>6. QED
  BY <1>2, <1>3, <1>4, <1>5 DEF Drive

LEMMA RolloutStep == RolloutInv /\ [Next]_vars => RolloutInv'
<1> SUFFICES ASSUME RolloutInv, [Next]_vars PROVE RolloutInv'
  OBVIOUS
<1>1. ASSUME NEW i \in Plans, CreatePlan(i)
      PROVE  RolloutInv'
  <2>1. call' = call /\ call \in [Callers -> Call]
    BY <1>1 DEF CreatePlan, RolloutInv, TypeOK, Call
  <2>2. QED
    BY <1>1, <2>1, InsertStep DEF CreatePlan
<1>2. ASSUME NEW c \in Callers, Abandon(c)
      PROVE  RolloutInv'
  <2>1. Idle \in Call /\ Idle.pc # "save"
    BY IdleType DEF Idle
  <2>2. QED
    BY <1>2, <2>1, NoSaveStep DEF Abandon
<1>3. CASE UNCHANGED vars
  BY <1>3 DEF vars, RolloutInv, TypeOK, SaveInv, OneOpenPlan, ReportsSurvive, Legal, Exists,
              RowOK, Terminal, Open, Promotable, MayPromote, Known, Healthy
<1>4. QED
  BY <1>1, <1>2, <1>3, SaveStep, DriveStep, BeginStep DEF Next

-----------------------------------------------------------------------------
LEMMA AlwaysRolloutInv == Spec => []RolloutInv
BY RolloutInit, RolloutStep, PTL DEF Spec

(* Rows and calls keep their types, and no row is in a phase its flags do  *)
(* not support, whatever edits race.                                       *)
THEOREM RolloutTypes == Spec => []TypeOK
<1>1. RolloutInv => TypeOK
  BY DEF RolloutInv
<1>2. QED
  BY <1>1, AlwaysRolloutInv, PTL

(* An extension never has two open plans: a stale copy of a closed plan is *)
(* behind its revision, and no legal edit reopens one.                     *)
THEOREM OnePlanAtATime == Spec => []OneOpenPlan
<1>1. RolloutInv => OneOpenPlan
  BY DEF RolloutInv
<1>2. QED
  BY <1>1, AlwaysRolloutInv, PTL

(* No accepted acknowledgement or loss is overwritten by a racing save.    *)
THEOREM NoReportLost == Spec => []ReportsSurvive
<1>1. RolloutInv => ReportsSurvive
  BY DEF RolloutInv
<1>2. QED
  BY <1>1, AlwaysRolloutInv, PTL

(* How a step may change the row of one plan.                              *)
LEMMA RowChange ==
  ASSUME RolloutInv, Next, NEW i \in Plans, plan'[i] # plan[i]
  PROVE  \/ plan[i] = NoPlan /\ plan'[i] = NewPlan
         \/ \E q \in Row, said \in [Nodes -> Health] :
              /\ Exists(plan[i])
              /\ Legal(plan[i], q, said)
              /\ plan'[i].phase = q.phase
<1>1. ASSUME NEW j \in Plans, Insert(j)
      PROVE  plan[i] = NoPlan /\ plan'[i] = NewPlan
  BY <1>1 DEF Insert, RolloutInv, TypeOK
<1>2. ASSUME NEW c \in Callers, Save(c)
      PROVE  \E q \in Row, said \in [Nodes -> Health] :
               Exists(plan[i]) /\ Legal(plan[i], q, said) /\ plan'[i].phase = q.phase
  <2> DEFINE j == call[c].id
             q == call[c].next
  <2>1. /\ j \in Plans /\ Exists(plan[j]) /\ Legal(plan[j], q, call[c].said)
        /\ plan' = [plan EXCEPT ![j] = [q EXCEPT !.rev = plan[j].rev + 1]]
    BY <1>2, SaveEdit
  <2>2. q \in Row /\ call[c].said \in [Nodes -> Health] /\ plan[j].rev + 1 \in Nat
    BY <2>1 DEF RolloutInv, TypeOK, Row
  <2>3. i = j /\ plan'[i] = [q EXCEPT !.rev = plan[j].rev + 1]
    BY <2>1 DEF RolloutInv, TypeOK
  <2>4. plan'[i].phase = q.phase
    BY <2>2, <2>3, RevisionEdit
  <2>5. QED
    BY <2>1, <2>2, <2>3, <2>4
<1>3. \/ \E j \in Plans : Insert(j)
      \/ \E c \in Callers : Save(c)
      \/ plan' = plan
  <2>1. ASSUME NEW c, NEW j, NEW allowed, NEW next, NEW noted, NEW said,
               Outcome(c, j, allowed, next, noted, said)
        PROVE  plan' = plan
    BY <2>1 DEF Outcome
  <2>2. ASSUME NEW c \in Callers, NEW j \in Plans, Begin(c, j)
        PROVE  plan' = plan
    <3>1. CASE MarkMigrationReady(c, j)
      BY <3>1, <2>1 DEF MarkMigrationReady
    <3>2. CASE SelectCanary(c, j)
      BY <3>2, <2>1 DEF SelectCanary
    <3>3. CASE BeginDrain(c, j)
      BY <3>3, <2>1 DEF BeginDrain
    <3>4. CASE PromoteAtomic(c, j)
      BY <3>4, <2>1 DEF PromoteAtomic
    <3>5. CASE Rollback(c, j)
      BY <3>5, <2>1 DEF Rollback
    <3>6. CASE \E message \in Messages : Fail(c, j, message)
      BY <3>6, <2>1 DEF Fail
    <3>7. CASE \E only \in BOOLEAN : HealthGate(c, j, only)
      BY <3>7, <2>1 DEF HealthGate
    <3>8. CASE \E n \in Nodes : MarkNodeLost(c, j, n)
      BY <3>8, <2>1 DEF MarkNodeLost
    <3>9. CASE \E n \in Nodes, h \in Health \ {"absent"}, k \in BOOLEAN : AckNode(c, j, n, h, k)
      BY <3>9, <2>1 DEF AckNode
    <3>10. QED
      BY <2>2, <3>1, <3>2, <3>3, <3>4, <3>5, <3>6, <3>7, <3>8, <3>9 DEF Begin
  <2>3. ASSUME NEW c \in Callers, Drive(c)
        PROVE  plan' = plan \/ \E j \in Plans : Insert(j)
    <3>1. CASE DriveAct(c)
      BY <3>1, <2>1 DEF DriveAct
    <3>2. CASE \E j \in Plans, ok \in BOOLEAN : DriveCreate(c, j, ok)
      BY <3>2 DEF DriveCreate
    <3>3. CASE DriveLookup(c) \/ \E ok \in BOOLEAN : DriveConflict(c, ok)
      BY <3>3 DEF DriveLookup, DriveConflict
    <3>4. QED
      BY <2>3, <3>1, <3>2, <3>3 DEF Drive
  <2>4. ASSUME NEW c \in Callers, Abandon(c)
        PROVE  plan' = plan
    BY <2>4 DEF Abandon
  <2>5. QED
    BY <2>2, <2>3, <2>4 DEF Next, CreatePlan
<1>4. QED
  BY <1>1, <1>2, <1>3

(* A promotion rests on the last saved report of every node.               *)
THEOREM PromotionNeedsHealth == Spec => PromotedOnlyHealthy
<1> DEFINE Promotes(i) ==
      plan[i].phase # "active" /\ plan'[i].phase = "active" =>
        /\ plan[i].ready
        /\ \E n \in Nodes : reported[i][n] # "absent"
        /\ \A n \in Nodes : reported[i][n] \in {"absent", "healthy"}
<1>1. RolloutInv /\ [Next]_vars => [\A i \in Plans : Promotes(i)]_vars
  <2> SUFFICES ASSUME RolloutInv, Next, NEW i \in Plans,
                      plan[i].phase # "active", plan'[i].phase = "active"
               PROVE  /\ plan[i].ready
                      /\ \E n \in Nodes : reported[i][n] # "absent"
                      /\ \A n \in Nodes : reported[i][n] \in {"absent", "healthy"}
    OBVIOUS
  <2>1. Promotable(plan[i])
    BY RowChange DEF Legal, NewPlan
  <2>2. \A n \in Nodes : plan[i].acks[n].health = reported[i][n]
    BY DEF RolloutInv, ReportsSurvive
  <2>3. QED
    BY <2>1, <2>2 DEF Promotable, MayPromote, Known, Healthy
<1>2. QED
  BY <1>1, AlwaysRolloutInv, PTL DEF Spec, PromotedOnlyHealthy

(* A closed plan never opens again, and a failure or rollback is final.    *)
THEOREM ClosedPlansStayClosed == Spec => TerminalStaysTerminal
<1> DEFINE Stays(i) ==
      /\ Terminal(plan[i]) => Terminal(plan'[i])
      /\ plan[i].phase \in {"failed", "rolled_back"} => plan'[i].phase # "active"
<1>1. RolloutInv /\ [Next]_vars => [\A i \in Plans : Stays(i)]_vars
  <2> SUFFICES ASSUME RolloutInv, Next, NEW i \in Plans, plan'[i] # plan[i]
               PROVE  Stays(i)
    BY DEF Terminal
  <2>1. CASE plan[i] = NoPlan
    BY <2>1 DEF NoPlan, Terminal, TerminalPhases
  <2>2. CASE plan[i] # NoPlan
    BY <2>2, RowChange DEF Legal, Terminal
  <2>3. QED
    BY <2>1, <2>2
<1>2. QED
  BY <1>1, AlwaysRolloutInv, PTL DEF Spec, TerminalStaysTerminal
=============================================================================
