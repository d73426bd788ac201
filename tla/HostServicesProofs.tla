-------------------------- MODULE HostServicesProofs --------------------------
(* What the run of MCHostServices shows for three requests with one key,   *)
(* proved for any number of requests, expiries, rounds, visits and faults: *)
(* first the plugin routes with required replay, then the plain middleware *)
(* (the instance Plain), then the topic views, and last the three side by  *)
(* side as in the run.                                                     *)
EXTENDS MCHostServices, FiniteSetTheorems, TLAPS

(* A holder has claimed the key and may have run, or still run, its plugin.*)
Holder(r) == pc[r] \in {"owner", "running"} \/ r \in observed

(* In the TTL of its claim the record names the holder, pending or         *)
(* completed; nobody ran before claiming; two holders never share a TTL.   *)
HolderInv ==
    /\ \A r \in Requests : Holder(r) /\ claimedAt[r] = epoch => rec \in {Pending(r), Completed(r)}
    /\ \A r \in observed : pc[r] \notin {"get", "setnx", "owner"}
    /\ \A q, r \in Requests : Holder(q) /\ Holder(r) /\ claimedAt[q] = claimedAt[r] => q = r
    /\ \A r \in Requests : claimedAt[r] <= epoch

(* Only a request that completed left a completed record.                  *)
ReplayableInv ==
    \A q \in Requests : rec = Completed(q) => pc[q] \in {"answered", "unavailable"}

ReplayInv ==
    /\ TypeOK
    /\ HolderInv
    /\ ReplayableInv
    /\ OwnerKeepsRecord
    /\ ReplayIsGenuine

(* Records tell their state and their writer.                              *)
LEMMA RecordFacts ==
  /\ NoRecord \in Records
  /\ \A r \in Requests : Pending(r) \in Records /\ Completed(r) \in Records
  /\ \A q, r \in Requests :
       /\ Pending(r) # NoRecord /\ Completed(r) # NoRecord /\ Pending(q) # Completed(r)
       /\ (Pending(q) = Pending(r) => q = r)
       /\ (Completed(q) = Completed(r) => q = r)
  /\ \A x \in Records :
       /\ (x.state = "none" <=> x = NoRecord)
       /\ (x.state = "pending" => x.by \in Requests /\ x = Pending(x.by))
       /\ (x.state = "completed" => x.by \in Requests /\ x = Completed(x.by))
<1>1. NoRecord \in Records /\ \A r \in Requests : Pending(r) \in Records /\ Completed(r) \in Records
  BY DEF Records
<1>2. \A q, r \in Requests :
        /\ Pending(r) # NoRecord /\ Completed(r) # NoRecord /\ Pending(q) # Completed(r)
        /\ (Pending(q) = Pending(r) => q = r)
        /\ (Completed(q) = Completed(r) => q = r)
  BY DEF NoRecord, Pending, Completed
<1>3. ASSUME NEW x \in Records
      PROVE  /\ (x.state = "none" <=> x = NoRecord)
             /\ (x.state = "pending" => x.by \in Requests /\ x = Pending(x.by))
             /\ (x.state = "completed" => x.by \in Requests /\ x = Completed(x.by))
  <2>1. CASE x = NoRecord
    BY <2>1 DEF NoRecord
  <2>2. ASSUME NEW r \in Requests, x = Pending(r)
        PROVE  /\ x.state = "pending" /\ x.by = r
    BY <2>2 DEF Pending
  <2>3. ASSUME NEW r \in Requests, x = Completed(r)
        PROVE  /\ x.state = "completed" /\ x.by = r
    BY <2>3 DEF Completed
  <2>4. QED
    BY <1>2, <2>1, <2>2, <2>3 DEF Records
<1>4. QED
  BY <1>1, <1>2, <1>3

LEMMA ReplayInit == Init => ReplayInv
<1> SUFFICES ASSUME Init PROVE ReplayInv
  OBVIOUS
<1>1. TypeOK
  BY RecordFacts, ReplayConstants, RecordConstants DEF Init, TypeOK, Steps
<1>2. HolderInv
  BY DEF Init, HolderInv, Holder
<1>3. ReplayableInv
  BY RecordFacts DEF Init, ReplayableInv
<1>4. OwnerKeepsRecord
  BY DEF Init, OwnerKeepsRecord
<1>5. ReplayIsGenuine
  BY DEF Init, ReplayIsGenuine
<1>6. QED
  BY <1>1, <1>2, <1>3, <1>4, <1>5 DEF ReplayInv

LEMMA TypeStep ==
  ASSUME ReplayInv, [Next]_vars
  PROVE  TypeOK'
<1> USE RecordFacts, RecordConstants, ReplayConstants
    DEF ReplayInv, TypeOK, Steps, Ended, own, Goto
<1>1. ASSUME NEW r \in Requests, Get(r)
      PROVE  TypeOK'
  <2>1. rec.state # "none" => rec.by \in Requests
    BY <1>1 DEF Records, NoRecord, Pending, Completed
  <2>2. UNCHANGED <<rec, epoch, print, rounds, observed, claimedAt>>
    BY <1>1 DEF Get
  <2>3. \E where \in {"setnx", "mismatch", "inProgress", "replayed"} : Goto(r, where)
    BY <1>1 DEF Get
  <2>4. pc' \in [Requests -> Steps \cup Ended]
    BY <2>3
  <2>5. pc[r] = "get" /\ \A q \in Requests : pc'[q] \in {"get", "setnx"} => rounds[q] > 0
    BY <1>1, <2>3 DEF Get
  <2>6. replayed' \in [Requests -> Requests \cup {Nobody}]
    BY <1>1, <2>1 DEF Get
  <2>7. QED
    BY <2>2, <2>4, <2>5, <2>6
<1>2. ASSUME NEW r \in Requests, SetNX(r)
      PROVE  TypeOK'
  <2>1. UNCHANGED <<epoch, print, observed, replayed>> /\ pc[r] = "setnx"
    BY <1>2 DEF SetNX
  <2>2. CASE rec = NoRecord
    <3>1. rec' = Pending(r) /\ claimedAt' = [claimedAt EXCEPT ![r] = epoch]
          /\ pc' = [pc EXCEPT ![r] = "owner"] /\ rounds' = rounds
      BY <1>2, <2>2 DEF SetNX
    <3>2. rec' \in Records /\ claimedAt' \in [Requests -> 0..MaxExpiries]
      BY <3>1
    <3>3. QED
      BY <2>1, <3>1, <3>2
  <2>3. CASE rec # NoRecord
    <3>1. rounds' = [rounds EXCEPT ![r] = @ - 1] /\ UNCHANGED <<rec, claimedAt>>
          /\ pc' = [pc EXCEPT ![r] = IF rounds[r] = 1 THEN "unavailable" ELSE "get"]
      BY <1>2, <2>3 DEF SetNX, LastRound
    <3>2. rounds' \in [Requests -> 0..Rounds]
      BY <2>1, <3>1
    <3>3. pc' \in [Requests -> Steps \cup Ended]
      BY <3>1
    <3>4. \A q \in Requests : pc'[q] \in {"get", "setnx"} => rounds'[q] > 0
      BY <2>1, <3>1
    <3>5. QED
      BY <2>1, <3>1, <3>2, <3>3, <3>4
  <2>4. QED
    BY <2>2, <2>3
<1>3. ASSUME NEW r \in Requests, BeginUnavailable(r)
      PROVE  TypeOK'
  BY <1>3 DEF BeginUnavailable
<1>4. ASSUME NEW r \in Requests, Invoke(r)
      PROVE  TypeOK'
  BY <1>4 DEF Invoke
<1>5. ASSUME NEW r \in Requests, FailDispatch(r)
      PROVE  TypeOK'
  BY <1>5 DEF FailDispatch, Release
<1>6. ASSUME NEW r \in Requests, Complete(r) \/ CompleteUnavailable(r)
      PROVE  TypeOK'
  BY <1>6 DEF Complete, CompleteUnavailable
<1>7. ASSUME NEW r \in Requests, Crash(r)
      PROVE  TypeOK'
  BY <1>7 DEF Crash
<1>8. CASE RecordExpires
  BY <1>8 DEF RecordExpires, Expire
<1>9. CASE UNCHANGED vars
  BY <1>9 DEF vars
<1>10. QED
  BY <1>1, <1>2, <1>3, <1>4, <1>5, <1>6, <1>7, <1>8, <1>9 DEF Next, Step

LEMMA HolderStep ==
  ASSUME ReplayInv, [Next]_vars
  PROVE  HolderInv' /\ OwnerKeepsRecord'
<1> USE RecordFacts DEF ReplayInv, TypeOK, HolderInv, Holder, OwnerKeepsRecord, ReplayableInv,
      own, Goto, Steps
<1>1. ASSUME NEW r \in Requests, Get(r)
      PROVE  HolderInv' /\ OwnerKeepsRecord'
  BY <1>1 DEF Get
<1>2. ASSUME NEW r \in Requests, SetNX(r)
      PROVE  HolderInv' /\ OwnerKeepsRecord'
  <2>1. CASE rec = NoRecord
    <3>1. rec' = Pending(r) /\ claimedAt' = [claimedAt EXCEPT ![r] = epoch]
          /\ pc' = [pc EXCEPT ![r] = "owner"] /\ UNCHANGED <<epoch, observed>>
      BY <1>2, <2>1 DEF SetNX
    <3>2. \A q \in Requests : ~(Holder(q) /\ claimedAt[q] = epoch)
      BY <2>1
    <3>3. ~Holder(r)
      BY <1>2 DEF SetNX
    <3>4. QED
      BY <3>1, <3>2, <3>3
  <2>2. CASE rec # NoRecord
    BY <1>2, <2>2 DEF SetNX, LastRound
  <2>3. QED
    BY <2>1, <2>2
<1>3. ASSUME NEW r \in Requests, BeginUnavailable(r)
      PROVE  HolderInv' /\ OwnerKeepsRecord'
  BY <1>3 DEF BeginUnavailable
<1>4. ASSUME NEW r \in Requests, Invoke(r)
      PROVE  HolderInv' /\ OwnerKeepsRecord'
  BY <1>4 DEF Invoke
<1>5. ASSUME NEW r \in Requests, FailDispatch(r)
      PROVE  HolderInv' /\ OwnerKeepsRecord'
  BY <1>5 DEF FailDispatch, Release, MayRelease, Swaps
<1>6. ASSUME NEW r \in Requests, Complete(r) \/ CompleteUnavailable(r)
      PROVE  HolderInv' /\ OwnerKeepsRecord'
  BY <1>6 DEF Complete, CompleteUnavailable, Swaps
<1>7. ASSUME NEW r \in Requests, Crash(r)
      PROVE  HolderInv' /\ OwnerKeepsRecord'
  BY <1>7 DEF Crash
<1>8. CASE RecordExpires
  BY <1>8, RecordConstants DEF RecordExpires, Expire
<1>9. CASE UNCHANGED vars
  BY <1>9 DEF vars
<1>10. QED
  BY <1>1, <1>2, <1>3, <1>4, <1>5, <1>6, <1>7, <1>8, <1>9 DEF Next, Step

LEMMA GenuineStep ==
  ASSUME ReplayInv, [Next]_vars
  PROVE  ReplayableInv' /\ ReplayIsGenuine'
<1> USE RecordFacts, RecordConstants
    DEF ReplayInv, TypeOK, ReplayableInv, ReplayIsGenuine, own, Goto, Steps
<1>1. ASSUME NEW r \in Requests, Get(r)
      PROVE  ReplayableInv' /\ ReplayIsGenuine'
  BY <1>1 DEF Get, SamePrint
<1>2. ASSUME NEW r \in Requests, SetNX(r)
      PROVE  ReplayableInv' /\ ReplayIsGenuine'
  BY <1>2 DEF SetNX, LastRound
<1>3. ASSUME NEW r \in Requests, BeginUnavailable(r)
      PROVE  ReplayableInv' /\ ReplayIsGenuine'
  BY <1>3 DEF BeginUnavailable
<1>4. ASSUME NEW r \in Requests, Invoke(r)
      PROVE  ReplayableInv' /\ ReplayIsGenuine'
  BY <1>4 DEF Invoke
<1>5. ASSUME NEW r \in Requests, FailDispatch(r)
      PROVE  ReplayableInv' /\ ReplayIsGenuine'
  BY <1>5 DEF FailDispatch, Release
<1>6. ASSUME NEW r \in Requests, Complete(r) \/ CompleteUnavailable(r)
      PROVE  ReplayableInv' /\ ReplayIsGenuine'
  BY <1>6 DEF Complete, CompleteUnavailable, Swaps
<1>7. ASSUME NEW r \in Requests, Crash(r)
      PROVE  ReplayableInv' /\ ReplayIsGenuine'
  BY <1>7 DEF Crash
<1>8. CASE RecordExpires
  BY <1>8 DEF RecordExpires, Expire
<1>9. CASE UNCHANGED vars
  BY <1>9 DEF vars
<1>10. QED
  BY <1>1, <1>2, <1>3, <1>4, <1>5, <1>6, <1>7, <1>8, <1>9 DEF Next, Step

LEMMA AlwaysReplayInv == Spec => []ReplayInv
<1>1. Init => ReplayInv
  BY ReplayInit
<1>2. ReplayInv /\ [Next]_vars => ReplayInv'
  BY TypeStep, HolderStep, GenuineStep DEF ReplayInv
<1>3. QED
  BY <1>1, <1>2, PTL DEF Spec

(* The fields keep their types and the lookups are bounded.                *)
THEOREM ReplayTypes == Spec => []TypeOK
<1>1. ReplayInv => TypeOK
  BY DEF ReplayInv
<1>2. QED
  BY <1>1, AlwaysReplayInv, PTL

(* Within a TTL nobody completes or releases another owner's record.       *)
THEOREM OwnershipHolds == Spec => []OwnerKeepsRecord
<1>1. ReplayInv => OwnerKeepsRecord
  BY DEF ReplayInv
<1>2. QED
  BY <1>1, AlwaysReplayInv, PTL

(* Within a TTL at most one request leaves execution evidence.             *)
THEOREM AtMostOneExecution == Spec => []ExecutedOncePerTTL
<1>1. ReplayInv => ExecutedOncePerTTL
  BY DEF ReplayInv, HolderInv, Holder, ExecutedOncePerTTL, TypeOK
<1>2. QED
  BY <1>1, AlwaysReplayInv, PTL

(* Every replay is the response of a completed request of equal content.   *)
THEOREM GenuineReplays == Spec => []ReplayIsGenuine
<1>1. ReplayInv => ReplayIsGenuine
  BY DEF ReplayInv
<1>2. QED
  BY <1>1, AlwaysReplayInv, PTL

(* A completed record changes only by expiry.                              *)
THEOREM StandingAnswers == Spec => AnswerStands
<1> DEFINE Stands == rec.state = "completed" /\ rec' # rec => rec' = NoRecord /\ epoch' # epoch
<1>1. ReplayInv /\ [Next]_vars => [Stands]_vars
  <2> SUFFICES ASSUME ReplayInv, Next, rec.state = "completed", rec' # rec
               PROVE  rec' = NoRecord /\ epoch' # epoch
    OBVIOUS
  <2>1. rec # NoRecord /\ \A r \in Requests : rec # Pending(r)
    BY DEF NoRecord, Pending
  <2>2. ASSUME NEW r \in Requests, Step(r) \/ Crash(r)
        PROVE  rec' = rec
    BY <2>1, <2>2 DEF Step, Crash, Get, SetNX, BeginUnavailable, Invoke, FailDispatch, Release,
                      Complete, CompleteUnavailable, Swaps
  <2>3. RecordExpires
    BY <2>2 DEF Next
  <2>4. QED
    BY <2>3, RecordConstants DEF RecordExpires, Expire, ReplayInv, TypeOK
<1>2. QED
  BY <1>1, AlwaysReplayInv, PTL DEF Spec, AnswerStands

-----------------------------------------------------------------------------
(* A running registered request claimed in the current TTL.                *)
RunningInv == \A r \in PlainRequests : plainPc[r] = "running" => plainClaimedAt[r] = plainEpoch

(* A registered success is over, and in the TTL of its claim the record is *)
(* still its own, whether or not its response was stored.                  *)
SuccessInv ==
    \A r \in plainCached :
        /\ plainPc[r] = "answered" /\ plainClaimedAt[r] <= plainEpoch
        /\ plainClaimedAt[r] = plainEpoch => plainRec \in {Plain!Pending(r), Plain!Completed(r)}

(* Only a success leaves a completed record.                               *)
CompletedInv == \A r \in PlainRequests : plainRec = Plain!Completed(r) => r \in plainCached

MiddlewareInv == Plain!TypeOK /\ RunningInv /\ SuccessInv /\ CompletedInv /\ Plain!SucceedsOncePerTTL

(* The same of the records of the plain middleware.                       *)
LEMMA PlainRecordFacts ==
  /\ \A q, r \in PlainRequests :
       /\ Plain!Pending(r) # Plain!NoRecord /\ Plain!Completed(r) # Plain!NoRecord
       /\ Plain!Pending(q) # Plain!Completed(r)
       /\ (Plain!Pending(q) = Plain!Pending(r) => q = r)
       /\ (Plain!Completed(q) = Plain!Completed(r) => q = r)
  /\ \A x \in Plain!Records : x.state = "completed" => x.by \in PlainRequests /\ x = Plain!Completed(x.by)
  /\ Plain!NoRecord \in Plain!Records
  /\ \A r \in PlainRequests : {Plain!Pending(r), Plain!Completed(r)} \subseteq Plain!Records
<1>1. \A q, r \in PlainRequests :
        /\ Plain!Pending(r) # Plain!NoRecord /\ Plain!Completed(r) # Plain!NoRecord
        /\ Plain!Pending(q) # Plain!Completed(r)
        /\ (Plain!Pending(q) = Plain!Pending(r) => q = r)
        /\ (Plain!Completed(q) = Plain!Completed(r) => q = r)
  BY DEF Plain!NoRecord, Plain!Pending, Plain!Completed
<1>2. ASSUME NEW x \in Plain!Records, x.state = "completed"
      PROVE  x.by \in PlainRequests /\ x = Plain!Completed(x.by)
  <2>1. x # Plain!NoRecord /\ \A r \in PlainRequests : x # Plain!Pending(r)
    BY <1>2 DEF Plain!NoRecord, Plain!Pending
  <2>2. PICK r \in PlainRequests : x = Plain!Completed(r)
    BY <2>1 DEF Plain!Records
  <2>3. QED
    BY <2>2 DEF Plain!Completed
<1>3. /\ Plain!NoRecord \in Plain!Records
      /\ \A r \in PlainRequests : {Plain!Pending(r), Plain!Completed(r)} \subseteq Plain!Records
  BY DEF Plain!Records
<1>4. QED
  BY <1>1, <1>2, <1>3

LEMMA MiddlewareInit == Plain!Init => MiddlewareInv
<1> SUFFICES ASSUME Plain!Init PROVE MiddlewareInv
  OBVIOUS
<1>1. plainRec = Plain!NoRecord /\ plainEpoch = 0 /\ plainCached = {} /\ MaxExpiries \in Nat
  BY RecordConstants, PlainConstants DEF Plain!Init
<1>2. Plain!TypeOK
  BY <1>1, PlainRecordFacts DEF Plain!Init, Plain!TypeOK, Plain!Steps, Plain!Ended
<1>3. QED
  BY <1>1, <1>2, PlainRecordFacts DEF Plain!Init, MiddlewareInv, RunningInv, SuccessInv, CompletedInv, Plain!SucceedsOncePerTTL

(* A step of one request that leaves the record and the successes alone.   *)
Quiet(r) ==
    /\ plainPc[r] # "answered"
    /\ \E where \in (Plain!Steps \cup Plain!Ended) \ {"running"} : plainPc' = [plainPc EXCEPT ![r] = where]
    /\ UNCHANGED <<plainRec, plainEpoch, plainClaimedAt, plainCached>>
    /\ \/ plainReplayed' = plainReplayed
       \/ plainRec.state = "completed" /\ plainReplayed' = [plainReplayed EXCEPT ![r] = plainRec.by]

LEMMA QuietStep == ASSUME MiddlewareInv, NEW r \in PlainRequests, Quiet(r) PROVE MiddlewareInv'
<1>1. Plain!TypeOK /\ RunningInv /\ SuccessInv /\ CompletedInv /\ Plain!SucceedsOncePerTTL
  BY DEF MiddlewareInv
<1>2. PICK where \in (Plain!Steps \cup Plain!Ended) \ {"running"} : plainPc' = [plainPc EXCEPT ![r] = where]
  BY DEF Quiet
<1>3. /\ plainPc[r] # "answered" /\ UNCHANGED <<plainRec, plainEpoch, plainClaimedAt, plainCached>>
      /\ \/ plainReplayed' = plainReplayed
         \/ plainRec.state = "completed" /\ plainReplayed' = [plainReplayed EXCEPT ![r] = plainRec.by]
  BY DEF Quiet
<1>4. plainRec.state = "completed" => plainRec.by \in plainCached /\ plainRec.by \in PlainRequests
  BY <1>1, PlainRecordFacts DEF Plain!TypeOK, CompletedInv
<1>5. Plain!TypeOK'
  BY <1>1, <1>4, <1>2, <1>3 DEF Plain!TypeOK
<1>6. RunningInv' /\ CompletedInv'
  BY <1>1, <1>2, <1>3 DEF RunningInv, CompletedInv, Plain!TypeOK
<1>7. SuccessInv'
  BY <1>1, <1>2, <1>3 DEF SuccessInv, Plain!TypeOK
<1>8. Plain!SucceedsOncePerTTL'
  BY <1>1, <1>4, <1>2, <1>3 DEF Plain!SucceedsOncePerTTL, Plain!TypeOK
<1>9. QED
  BY <1>5, <1>6, <1>7, <1>8 DEF MiddlewareInv

LEMMA MiddlewareStep == MiddlewareInv /\ [Plain!Next]_plainVars => MiddlewareInv'
<1> SUFFICES ASSUME MiddlewareInv, [Plain!Next]_plainVars PROVE MiddlewareInv'
  OBVIOUS
<1>0. Plain!TypeOK /\ RunningInv /\ SuccessInv /\ CompletedInv /\ Plain!SucceedsOncePerTTL
  BY DEF MiddlewareInv
<1> USE <1>0
<1>1. ASSUME NEW r \in PlainRequests, Plain!Get(r) PROVE MiddlewareInv'
  <2>1. Quiet(r)
    BY <1>1 DEF Plain!Get, Quiet, Plain!Goto, Plain!Steps, Plain!Ended
  <2>2. QED
    BY <2>1, QuietStep
<1>2. ASSUME NEW r \in PlainRequests, Plain!SetNX(r) PROVE MiddlewareInv'
  <2>1. CASE Plain!Claims
    <3>1. /\ plainRec = Plain!NoRecord /\ plainRec' = Plain!Pending(r)
          /\ plainPc[r] = "setnx" /\ plainPc' = [plainPc EXCEPT ![r] = "running"]
          /\ plainClaimedAt' = [plainClaimedAt EXCEPT ![r] = plainEpoch]
          /\ UNCHANGED <<plainEpoch, plainCached, plainReplayed>>
      BY <1>2, <2>1 DEF Plain!SetNX, Plain!Goto, Plain!Claims
    <3>2. Plain!TypeOK'
      BY <3>1, PlainRecordFacts DEF Plain!TypeOK, Plain!Steps, Plain!Ended
    <3>3. \A q \in plainCached :
            /\ q # r /\ plainClaimedAt[q] # plainEpoch
            /\ plainClaimedAt'[q] = plainClaimedAt[q] /\ plainPc'[q] = plainPc[q]
      BY <3>1, PlainRecordFacts DEF SuccessInv, Plain!TypeOK
    <3>4. RunningInv' /\ CompletedInv' /\ SuccessInv' /\ Plain!SucceedsOncePerTTL'
      BY <3>1, <3>3, PlainRecordFacts DEF RunningInv, CompletedInv, SuccessInv, Plain!SucceedsOncePerTTL, Plain!TypeOK
    <3>5. QED
      BY <3>2, <3>4 DEF MiddlewareInv
  <2>2. CASE ~Plain!Claims
    <3>1. Quiet(r)
      BY <1>2, <2>2 DEF Plain!SetNX, Quiet, Plain!Goto, Plain!Steps, Plain!Ended
    <3>2. QED
      BY <3>1, QuietStep
  <2>3. QED
    BY <2>1, <2>2
<1>3. ASSUME NEW r \in PlainRequests, Plain!Reread(r) PROVE MiddlewareInv'
  <2>1. Quiet(r)
    BY <1>3 DEF Plain!Reread, Quiet, Plain!Goto, Plain!Steps, Plain!Ended
  <2>2. QED
    BY <2>1, QuietStep
<1>4. ASSUME NEW r \in PlainRequests, Plain!BeginFailsOpen(r) PROVE MiddlewareInv'
  <2>1. CASE UNCHANGED plainRec
    <3>1. Quiet(r)
      BY <1>4, <2>1 DEF Plain!BeginFailsOpen, Quiet, Plain!Goto, Plain!Steps, Plain!Ended
    <3>2. QED
      BY <3>1, QuietStep
  <2>2. CASE plainRec = Plain!NoRecord /\ plainRec' = Plain!Pending(r)
    <3>1. /\ plainPc[r] \in {"get", "setnx", "reread"} /\ plainPc' = [plainPc EXCEPT ![r] = "bare"]
          /\ UNCHANGED <<plainEpoch, plainClaimedAt, plainCached, plainReplayed>>
      BY <1>4 DEF Plain!BeginFailsOpen, Plain!Goto
    <3>2. \A q \in PlainRequests : plainPc'[q] # "running"
      BY <2>2, <3>1, PlainRecordFacts DEF Plain!TypeOK
    <3>3. Plain!TypeOK'
      BY <2>2, <3>1, <3>2, PlainRecordFacts DEF Plain!TypeOK, Plain!Steps, Plain!Ended
    <3>4. \A q \in plainCached : q # r /\ plainClaimedAt[q] # plainEpoch
      BY <2>2, <3>1, PlainRecordFacts DEF SuccessInv, Plain!TypeOK
    <3>5. RunningInv' /\ CompletedInv' /\ SuccessInv' /\ Plain!SucceedsOncePerTTL'
      BY <2>2, <3>1, <3>2, <3>4, PlainRecordFacts
         DEF RunningInv, CompletedInv, SuccessInv, Plain!SucceedsOncePerTTL, Plain!TypeOK
    <3>6. QED
      BY <3>3, <3>5 DEF MiddlewareInv
  <2>3. QED
    BY <1>4, <2>1, <2>2 DEF Plain!BeginFailsOpen, Plain!Claims
<1>5. ASSUME NEW r \in PlainRequests, NEW ok \in BOOLEAN, Plain!Handle(r, ok) PROVE MiddlewareInv'
  <2>1. /\ plainPc[r] = "running" /\ plainPc' = [plainPc EXCEPT ![r] = IF ok THEN "answered" ELSE "failed"]
        /\ plainCached' = IF ok THEN plainCached \cup {r} ELSE plainCached
        /\ UNCHANGED <<plainEpoch, plainClaimedAt, plainReplayed>>
        /\ plainRec' \in {IF ok THEN Plain!Completed(r) ELSE Plain!NoRecord, Plain!Pending(r)}
    BY <1>5 DEF Plain!Handle, Plain!Goto, Plain!MayCache, Plain!TypeOK
  <2>2. plainRec = Plain!Pending(r) /\ plainClaimedAt[r] = plainEpoch
    BY <2>1 DEF Plain!TypeOK, RunningInv
  <2>3. \A q \in PlainRequests : plainPc'[q] # "running"
    BY <2>1, <2>2, PlainRecordFacts DEF Plain!TypeOK
  <2>4. Plain!TypeOK'
    BY <2>1, <2>3, PlainRecordFacts DEF Plain!TypeOK, Plain!Steps, Plain!Ended
  <2>5. \A q \in plainCached : q # r /\ plainClaimedAt[q] # plainEpoch
    BY <2>1, <2>2, PlainRecordFacts DEF SuccessInv, Plain!TypeOK
  <2>6. RunningInv' /\ CompletedInv' /\ SuccessInv' /\ Plain!SucceedsOncePerTTL'
    BY <2>1, <2>2, <2>3, <2>5, PlainRecordFacts
       DEF RunningInv, CompletedInv, SuccessInv, Plain!SucceedsOncePerTTL, Plain!TypeOK
  <2>7. QED
    BY <2>4, <2>6 DEF MiddlewareInv
<1>6. ASSUME NEW r \in PlainRequests, NEW ok \in BOOLEAN, Plain!HandleBare(r, ok) PROVE MiddlewareInv'
  <2>1. Quiet(r)
    BY <1>6 DEF Plain!HandleBare, Quiet, Plain!Goto, Plain!Steps, Plain!Ended
  <2>2. QED
    BY <2>1, QuietStep
<1>7. ASSUME NEW r \in PlainRequests, Plain!Crash(r) PROVE MiddlewareInv'
  <2>1. Quiet(r)
    BY <1>7 DEF Plain!Crash, Quiet, Plain!Goto, Plain!Steps, Plain!Ended
  <2>2. QED
    BY <2>1, QuietStep
<1>8. ASSUME Plain!RecordExpires PROVE MiddlewareInv'
  <2>1. /\ plainRec' = Plain!NoRecord /\ plainEpoch' = plainEpoch + 1 /\ plainEpoch < MaxExpiries
        /\ UNCHANGED <<plainPc, plainClaimedAt, plainCached, plainReplayed>>
        /\ \A r \in PlainRequests : plainPc[r] # "running"
    BY <1>8 DEF Plain!RecordExpires, Plain!Expire
  <2>2. plainEpoch \in Nat /\ MaxExpiries \in Nat /\ \A r \in PlainRequests : plainClaimedAt[r] \in Nat
    BY RecordConstants, PlainConstants DEF Plain!TypeOK
  <2>3. plainEpoch' \in 0..MaxExpiries
    BY <2>1, <2>2
  <2>4. Plain!TypeOK'
    BY <2>1, <2>3, PlainRecordFacts DEF Plain!TypeOK
  <2>5. \A r \in plainCached : plainClaimedAt[r] <= plainEpoch' /\ plainClaimedAt[r] # plainEpoch'
    BY <2>1, <2>2 DEF SuccessInv, Plain!TypeOK
  <2>6. RunningInv' /\ CompletedInv' /\ SuccessInv' /\ Plain!SucceedsOncePerTTL'
    BY <2>1, <2>5, PlainRecordFacts DEF RunningInv, CompletedInv, SuccessInv, Plain!SucceedsOncePerTTL
  <2>7. QED
    BY <2>4, <2>6 DEF MiddlewareInv
<1>9. CASE UNCHANGED plainVars
  BY <1>9 DEF MiddlewareInv, plainVars, Plain!TypeOK, RunningInv, CompletedInv, SuccessInv, Plain!SucceedsOncePerTTL
<1>10. QED
  BY <1>1, <1>2, <1>3, <1>4, <1>5, <1>6, <1>7, <1>8, <1>9 DEF Plain!Next

-----------------------------------------------------------------------------
(* Topic views (ViewCounter).  What runs hold of a topic is counted  *)
(* view by view: each worker has a block of as many views as it has taken. *)
Blocks(f) == UNION {{w} \X (1..f[w]) : w \in Workers}

LEMMA BlocksFinite ==
  ASSUME NEW f \in [Workers -> Nat]
  PROVE  IsFiniteSet(Blocks(f))
<1> DEFINE block == [w \in Workers |-> {w} \X (1..f[w])]
           all == {{w} \X (1..f[w]) : w \in Workers}
<1>1. block \in Surjection(Workers, all)
  BY DEF Surjection
<1>2. IsFiniteSet(all)
  BY <1>1, FS_Surjection, ViewConstants
<1>3. ASSUME NEW w \in Workers PROVE IsFiniteSet({w} \X (1..f[w]))
  <2>1. IsFiniteSet({w})
    BY FS_Singleton
  <2>2. IsFiniteSet(1..f[w])
    BY f[w] \in Int, FS_Interval
  <2>3. QED
    BY <2>1, <2>2, FS_Product
<1>4. \A b \in all : IsFiniteSet(b)
  BY <1>3
<1> HIDE DEF all
<1>5. IsFiniteSet(UNION all)
  BY <1>2, <1>4, FS_UNION
<1>6. QED
  BY <1>5 DEF Blocks, all

(* The block of one worker and the blocks of the others add up.            *)
Others(f, w) == {x \in Blocks(f) : x[1] # w}

LEMMA BlocksAddUp ==
  ASSUME NEW f \in [Workers -> Nat], NEW w \in Workers
  PROVE  /\ Cardinality(Others(f, w)) \in Nat
         /\ Cardinality(Blocks(f)) = Cardinality(Others(f, w)) + f[w]
<1> DEFINE mine == {w} \X (1..f[w])
           rest == Others(f, w)
<1>1. Blocks(f) = rest \cup mine /\ rest \cap mine = {}
  <2>1. \A x : x \in Blocks(f) <=> \E v \in Workers : x \in {v} \X (1..f[v])
    BY DEF Blocks
  <2>2. \A v \in Workers : \A x \in {v} \X (1..f[v]) : x[1] = v
    OBVIOUS
  <2>3. QED
    BY <2>1, <2>2 DEF Others
<1>2. IsFiniteSet(rest)
  BY BlocksFinite, FS_Subset DEF Others
<1>3. IsFiniteSet(mine) /\ Cardinality(mine) = f[w]
  <2>1. IsFiniteSet({w}) /\ Cardinality({w}) = 1
    BY FS_Singleton
  <2>2. IsFiniteSet(1..f[w]) /\ Cardinality(1..f[w]) = f[w]
    BY FS_Interval
  <2>3. QED
    BY <2>1, <2>2, FS_Product
<1> HIDE DEF mine, rest
<1>4. Cardinality(rest) \in Nat /\ Cardinality(rest \cap mine) = 0
  BY <1>1, <1>2, FS_CardinalityType, FS_EmptySet
<1>5. Cardinality(rest \cup mine) = Cardinality(rest) + Cardinality(mine) - Cardinality(rest \cap mine)
  BY <1>2, <1>3, FS_Union
<1>6. QED
  BY <1>1, <1>3, <1>4, <1>5 DEF rest

(* If only worker w's block changes, all blocks change by as much.         *)
LEMMA BlocksChange ==
  ASSUME NEW f \in [Workers -> Nat], NEW g \in [Workers -> Nat], NEW w \in Workers,
         \A v \in Workers \ {w} : g[v] = f[v]
  PROVE  /\ Cardinality(Blocks(f)) \in Nat /\ Cardinality(Blocks(g)) \in Nat
         /\ Cardinality(Blocks(g)) = Cardinality(Blocks(f)) - f[w] + g[w]
<1>1. Others(f, w) = Others(g, w)
  <2>1. \A x : x \in Others(f, w) <=> \E v \in Workers \ {w} : x \in {v} \X (1..f[v])
    BY DEF Others, Blocks
  <2>2. \A x : x \in Others(g, w) <=> \E v \in Workers \ {w} : x \in {v} \X (1..g[v])
    BY DEF Others, Blocks
  <2>3. QED
    BY <2>1, <2>2
<1>2. QED
  BY <1>1, BlocksAddUp

(* Blocks of at most n views each are at most n views per worker.          *)
LEMMA BlocksBounded ==
  ASSUME NEW f \in [Workers -> Nat], NEW n \in Nat, \A w \in Workers : f[w] <= n
  PROVE  Cardinality(Blocks(f)) <= Cardinality(Workers) * n
<1>1. Blocks(f) \subseteq Workers \X (1..n)
  <2> SUFFICES ASSUME NEW w \in Workers, NEW k \in 1..f[w]
               PROVE  k \in 1..n
    BY DEF Blocks
  <2>1. f[w] \in Nat /\ f[w] <= n
    OBVIOUS
  <2>2. QED
    BY <2>1
<1>2. IsFiniteSet(1..n) /\ Cardinality(1..n) = n
  BY n \in Int, FS_Interval
<1>3. IsFiniteSet(Workers \X (1..n)) /\ Cardinality(Workers \X (1..n)) = Cardinality(Workers) * Cardinality(1..n)
  BY <1>2, FS_Product, ViewConstants
<1>4. Cardinality(Blocks(f)) <= Cardinality(Workers \X (1..n))
  BY <1>1, <1>3, FS_Subset
<1>5. QED
  BY <1>2, <1>3, <1>4

(* What the runs of each worker hold of a topic, and what they have shown  *)
(* and hold together.                                                      *)
Outs(t) == [w \in Workers |-> flush[w].out[t]]
Sums(t) == [w \in Workers |-> shown[w][t] + flush[w].out[t]]

LEMMA InFlightBlocks ==
  ASSUME NEW t \in Topics, \A v \in Workers : flush[v].out \in [Topics -> Nat]
  PROVE  InFlight(t) = Cardinality(Blocks(Outs(t))) /\ Outs(t) \in [Workers -> Nat] /\ InFlight(t) \in Nat
<1>1. InFlight(t) = Cardinality(Blocks(Outs(t)))
  BY DEF InFlight, Taken, Blocks, Outs
<1>2. Outs(t) \in [Workers -> Nat]
  BY DEF Outs
<1>3. QED
  BY <1>1, <1>2, BlocksFinite, FS_CardinalityType

(* The runs of the job and the page views, step by step.                   *)
Outputs == [Topics -> Nat]
Runs ==
    [step : {"idle", "next", "apply"}, todo : SUBSET Topics, out : Outputs]
      \cup [step : {"take"}, todo : SUBSET Topics, topic : Topics, n : Nat \ {0}, out : Outputs]
      \cup [step : {"unmark", "delete"}, todo : SUBSET Topics, topic : Topics, n : Int, out : Outputs]
Views ==
    [step : {"absent", "done"}]
      \cup [step : {"incr", "sadd"}, topic : Topics, visitor : Visitors]

ViewShapes ==
    /\ viewed \subseteq Keys /\ dirty \subseteq Topics /\ raced \subseteq Topics
    /\ delta \in [Topics -> Int] /\ viewCount \in [Topics -> Nat] /\ counted \in [Topics -> Nat]
    /\ perKey \in [Keys -> Nat] /\ shown \in [Workers -> Outputs]
    /\ visit \in [Visits -> Views] /\ flush \in [Workers -> Runs]

(* A view about to be counted holds its visitor's key, as the only one, and*)
(* nothing was counted since that key was set.                             *)
Counting(v, key) == visit[v].step = "incr" /\ key = <<visit[v].topic, visit[v].visitor>>
VisitorInv ==
    /\ \A v \in Visits, key \in Keys : Counting(v, key) => key \in viewed /\ perKey[key] = 0
    /\ \A v, u \in Visits, key \in Keys : Counting(v, key) /\ Counting(u, key) => u = v
    /\ \A key \in Keys : perKey[key] <= 1

(* What a run has read of a topic and not taken yet fits beside what its   *)
(* worker has shown and taken; while nobody else has read it, it fits      *)
(* beside all that is shown or taken.                                      *)
HoldInv(t) ==
    \A w \in Workers : Holds(w, t) =>
        /\ shown[w][t] + flush[w].out[t] + flush[w].n <= counted[t]
        /\ t \notin raced =>
             /\ viewCount[t] + InFlight(t) + flush[w].n <= counted[t]
             /\ \A v \in Workers : Holds(v, t) => v = w

(* The database shows what the workers have shown.                         *)
SumInv(t) == viewCount[t] + InFlight(t) = Cardinality(Blocks(Sums(t)))

TopicInv(t) == OncePerWorker(t) /\ OnceUnlessRaced(t) /\ HoldInv(t) /\ SumInv(t)

ViewInv == ViewShapes /\ VisitorInv /\ \A t \in Topics : TopicInv(t)

(* What the types say of a run and of a page view.                         *)
LEMMA RunFacts ==
  ASSUME ViewShapes, NEW w \in Workers
  PROVE  /\ flush[w] \in Runs
         /\ flush[w].step \in {"idle", "next", "take", "unmark", "delete", "apply"}
         /\ flush[w].todo \in SUBSET Topics /\ flush[w].out \in Outputs
         /\ flush[w].step \in {"take", "unmark", "delete"} => flush[w].topic \in Topics /\ flush[w].n \in Int
         /\ flush[w].step = "take" => flush[w].n \in Nat \ {0}
  BY DEF ViewShapes, Runs

LEMMA VisitFacts ==
  ASSUME ViewShapes, NEW v \in Visits
  PROVE  /\ visit[v] \in Views /\ visit[v].step \in {"absent", "incr", "sadd", "done"}
         /\ visit[v].step \in {"incr", "sadd"} => visit[v].topic \in Topics /\ visit[v].visitor \in Visitors
  BY DEF ViewShapes, Views

LEMMA NoRunFacts ==
  /\ Nothing \in Outputs /\ NoRun \in Runs
  /\ NoRun.step = "idle" /\ NoRun.out = Nothing /\ \A t \in Topics : Nothing[t] = 0
  BY DEF Nothing, NoRun, Runs, Outputs

(* The numbers a topic's invariant is about.                               *)
LEMMA Numbers ==
  ASSUME ViewShapes, NEW t \in Topics
  PROVE  /\ delta[t] \in Int /\ viewCount[t] \in Nat /\ counted[t] \in Nat
         /\ InFlight(t) \in Nat /\ Waiting(t) \in Nat /\ delta[t] <= Waiting(t)
         /\ Sums(t) \in [Workers -> Nat]
         /\ \A w \in Workers : shown[w][t] \in Nat /\ flush[w].out[t] \in Nat
         /\ \A w \in Workers : Holds(w, t) => flush[w].n \in Nat \ {0}
<1>1. \A w \in Workers : shown[w] \in [Topics -> Nat] /\ flush[w].out \in [Topics -> Nat]
  BY RunFacts DEF ViewShapes, Outputs
<1>2. delta[t] \in Int /\ viewCount[t] \in Nat /\ counted[t] \in Nat
  BY DEF ViewShapes
<1>3. Waiting(t) \in Nat /\ delta[t] <= Waiting(t)
  BY <1>2 DEF Waiting
<1>4. \A w \in Workers : shown[w][t] \in Nat /\ flush[w].out[t] \in Nat
  BY <1>1
<1>5. Sums(t) \in [Workers -> Nat]
  BY <1>4 DEF Sums
<1>6. InFlight(t) \in Nat
  BY <1>1, InFlightBlocks
<1>7. \A w \in Workers : Holds(w, t) => flush[w].n \in Nat \ {0}
  BY RunFacts DEF Holds
<1>8. QED
  BY <1>2, <1>3, <1>4, <1>5, <1>6, <1>7

LEMMA ViewStart == ViewInit => ViewInv
<1> SUFFICES ASSUME ViewInit PROVE ViewInv
  OBVIOUS
<1>1. ViewShapes
  <2>1. visit \in [Visits -> Views]
    BY DEF ViewInit, Views
  <2>2. flush \in [Workers -> Runs] /\ shown \in [Workers -> Outputs]
    BY NoRunFacts DEF ViewInit
  <2>3. /\ delta \in [Topics -> Int] /\ viewCount \in [Topics -> Nat] /\ counted \in [Topics -> Nat]
        /\ perKey \in [Keys -> Nat]
    BY DEF ViewInit
  <2>4. QED
    BY <2>1, <2>2, <2>3 DEF ViewInit, ViewShapes
<1>2. VisitorInv
  BY DEF ViewInit, VisitorInv, Counting
<1>3. ASSUME NEW t \in Topics PROVE TopicInv(t)
  <2>1. /\ viewCount[t] = 0 /\ delta[t] = 0 /\ counted[t] = 0
        /\ \A w \in Workers : flush[w].step = "idle" /\ flush[w].out[t] = 0 /\ shown[w][t] = 0
    BY NoRunFacts DEF ViewInit
  <2>2. Taken(t) = {} /\ Blocks(Sums(t)) = {}
    <3>1. \A w \in Workers : {w} \X (1..flush[w].out[t]) = {}
      BY <2>1
    <3>2. \A w \in Workers : Sums(t)[w] = 0
      BY <2>1 DEF Sums
    <3>3. \A w \in Workers : {w} \X (1..Sums(t)[w]) = {}
      BY <3>2
    <3>4. QED
      BY <3>1, <3>3 DEF Taken, Blocks
  <2>3. InFlight(t) = 0 /\ Cardinality(Blocks(Sums(t))) = 0
    BY <2>2, FS_EmptySet DEF InFlight
  <2>4. \A w \in Workers : ~Holds(w, t)
    BY <2>1 DEF Holds
  <2>5. QED
    BY <2>1, <2>3, <2>4 DEF TopicInv, OncePerWorker, OnceUnlessRaced, HoldInv, SumInv, Waiting
<1>4. QED
  BY <1>1, <1>2, <1>3 DEF ViewInv

(* A step of worker w that leaves the visits alone: what it changes of the *)
(* run and of what its worker has shown, and nothing of the others'.       *)
RunMoves(w, r, s) ==
    /\ flush' = [flush EXCEPT ![w] = r] /\ shown' = [shown EXCEPT ![w] = s]
    /\ UNCHANGED <<visit, viewed, perKey, counted>>
    /\ dirty' \subseteq Topics /\ raced \subseteq raced' /\ raced' \subseteq Topics
    /\ delta' \in [Topics -> Int] /\ viewCount' \in [Topics -> Nat]
    /\ \A t \in Topics : viewCount'[t] = viewCount[t] - shown[w][t] + s[t]

LEMMA RunFrame ==
  ASSUME ViewInv, NEW w \in Workers, NEW r \in Runs, NEW s \in Outputs, RunMoves(w, r, s)
  PROVE  /\ ViewShapes' /\ VisitorInv'
         /\ flush'[w] = r /\ shown'[w] = s
         /\ \A v \in Workers \ {w} : flush'[v] = flush[v] /\ shown'[v] = shown[v]
         /\ \A t \in Topics : SumInv(t)'
         /\ \A t \in Topics : InFlight(t)' = InFlight(t) - flush[w].out[t] + r.out[t]
<1>1. ViewShapes /\ ViewShapes'
  BY DEF ViewInv, ViewShapes, RunMoves
<1>2. VisitorInv'
  BY DEF ViewInv, VisitorInv, Counting, RunMoves
<1>3. /\ flush'[w] = r /\ shown'[w] = s
      /\ \A v \in Workers \ {w} : flush'[v] = flush[v] /\ shown'[v] = shown[v]
  BY <1>1 DEF ViewShapes, RunMoves
<1>4. ASSUME NEW t \in Topics
      PROVE  SumInv(t)' /\ InFlight(t)' = InFlight(t) - flush[w].out[t] + r.out[t]
  <2> DEFINE f == Outs(t)
             g == Outs(t)'
             x == Sums(t)
             y == Sums(t)'
  <2>1. \A v \in Workers : flush[v].out \in [Topics -> Nat] /\ flush'[v].out \in [Topics -> Nat]
    BY <1>1, <1>3, RunFacts DEF Runs, Outputs
  <2>2. \A v \in Workers : shown[v][t] \in Nat /\ shown'[v][t] \in Nat
    BY <1>1 DEF ViewShapes, Outputs
  <2>3. /\ f \in [Workers -> Nat] /\ InFlight(t) = Cardinality(Blocks(f))
        /\ g \in [Workers -> Nat] /\ InFlight(t)' = Cardinality(Blocks(g))
    <3>1. f \in [Workers -> Nat] /\ InFlight(t) = Cardinality(Blocks(f))
      BY <2>1, InFlightBlocks
    <3>2. g \in [Workers -> Nat]
      BY <2>1 DEF Outs
    <3>3. InFlight(t)' = Cardinality(Taken(t)')
      BY DEF InFlight
    <3>4. Taken(t)' = Blocks(g)
      BY DEF Taken, Blocks, Outs
    <3>5. QED
      BY <3>1, <3>2, <3>3, <3>4
  <2>4. /\ f[w] = flush[w].out[t] /\ g[w] = r.out[t]
        /\ \A v \in Workers \ {w} : g[v] = f[v]
    BY <1>3 DEF Outs
  <2>5. /\ x \in [Workers -> Nat] /\ y \in [Workers -> Nat]
        /\ x[w] = shown[w][t] + flush[w].out[t] /\ y[w] = s[t] + r.out[t]
        /\ \A v \in Workers \ {w} : y[v] = x[v]
    BY <1>3, <2>1, <2>2 DEF Sums
  <2>6. viewCount[t] + InFlight(t) = Cardinality(Blocks(x))
    BY DEF ViewInv, TopicInv, SumInv
  <2>7. /\ viewCount[t] \in Nat /\ shown[w][t] \in Nat /\ s[t] \in Nat
        /\ flush[w].out[t] \in Nat /\ r.out[t] \in Nat
        /\ viewCount'[t] = viewCount[t] - shown[w][t] + s[t]
    BY <1>1, <1>3, <2>1, <2>2 DEF ViewShapes, RunMoves
  <2> HIDE DEF f, g, x, y
  <2>8. Cardinality(Blocks(f)) \in Nat /\ Cardinality(Blocks(g)) = Cardinality(Blocks(f)) - f[w] + g[w]
    BY <2>3, <2>4, BlocksChange
  <2>9. Cardinality(Blocks(x)) \in Nat /\ Cardinality(Blocks(y)) = Cardinality(Blocks(x)) - x[w] + y[w]
    BY <2>5, BlocksChange
  <2>10. InFlight(t)' = InFlight(t) - flush[w].out[t] + r.out[t]
    BY <2>3, <2>4, <2>8
  <2>11. viewCount'[t] + InFlight(t)' = Cardinality(Blocks(y))
    BY <2>3, <2>5, <2>6, <2>7, <2>8, <2>9, <2>10
  <2>12. QED
    BY <2>10, <2>11 DEF SumInv, y
<1>5. QED
  BY <1>1, <1>2, <1>3, <1>4

(* A step of a run keeps the invariant if it takes nothing from a key: it  *)
(* adds nothing to what is shown and taken, leaves no more on a key, and   *)
(* if it reads one, reads no more than is there and not unnoticed.         *)
LEMMA RunStepKeeps ==
  ASSUME ViewInv, NEW w \in Workers, NEW r \in Runs, NEW s \in Outputs, RunMoves(w, r, s),
         \A t \in Topics : /\ s[t] + r.out[t] <= shown[w][t] + flush[w].out[t]
                           /\ Waiting(t)' <= Waiting(t),
         r.step = "take" =>
            /\ r.n <= Waiting(r.topic)
            /\ (\E v \in Workers : Holds(v, r.topic)) => r.topic \in raced'
  PROVE  ViewInv'
<1>1. /\ ViewShapes' /\ VisitorInv'
      /\ flush'[w] = r /\ shown'[w] = s
      /\ \A v \in Workers \ {w} : flush'[v] = flush[v] /\ shown'[v] = shown[v]
      /\ \A t \in Topics : SumInv(t)'
      /\ \A t \in Topics : InFlight(t)' = InFlight(t) - flush[w].out[t] + r.out[t]
  BY RunFrame
<1>2. ViewShapes /\ counted' = counted /\ raced \subseteq raced'
  BY DEF ViewInv, RunMoves
<1>3. ASSUME NEW t \in Topics PROVE TopicInv(t)'
  <2>1. TopicInv(t)
    BY DEF ViewInv
  <2>2. /\ viewCount[t] \in Nat /\ counted[t] \in Nat /\ InFlight(t) \in Nat /\ Waiting(t) \in Nat
        /\ \A v \in Workers : shown[v][t] \in Nat /\ flush[v].out[t] \in Nat
        /\ \A v \in Workers : Holds(v, t) => flush[v].n \in Nat
    BY <1>2, Numbers
  <2>3. /\ Waiting(t)' \in Nat /\ InFlight(t)' \in Nat /\ viewCount'[t] \in Nat
        /\ s[t] \in Nat /\ r.out[t] \in Nat
    <3>1. Waiting(t)' \in Nat
      BY <1>1 DEF ViewShapes, Waiting
    <3>2. viewCount'[t] \in Nat /\ s[t] \in Nat
      BY <1>1 DEF ViewShapes, Outputs
    <3>3. r.out[t] \in Nat
      BY DEF Runs, Outputs
    <3>4. InFlight(t)' \in Nat
      <4>1. \A v \in Workers : flush'[v].out \in [Topics -> Nat]
        BY <1>1, RunFacts, <1>2 DEF Runs, Outputs
      <4>2. Outs(t)' \in [Workers -> Nat]
        BY <4>1 DEF Outs
      <4>3. InFlight(t)' = Cardinality(Blocks(Outs(t)'))
        BY DEF InFlight, Taken, Blocks, Outs
      <4>4. QED
        BY <4>2, <4>3, BlocksFinite, FS_CardinalityType
    <3>5. QED
      BY <3>1, <3>2, <3>3, <3>4
  <2>4. /\ Waiting(t)' <= Waiting(t) /\ s[t] + r.out[t] <= shown[w][t] + flush[w].out[t]
        /\ viewCount'[t] + InFlight(t)' <= viewCount[t] + InFlight(t)
    BY <1>1, <2>2, <2>3 DEF RunMoves
  <2>5. OncePerWorker(t)'
    <3> SUFFICES ASSUME NEW v \in Workers
                 PROVE  shown'[v][t] + flush'[v].out[t] + Waiting(t)' <= counted'[t]
      BY DEF OncePerWorker
    <3>1. shown'[v][t] + flush'[v].out[t] <= shown[v][t] + flush[v].out[t]
      <4>1. CASE v = w
        BY <1>1, <2>4, <4>1
      <4>2. CASE v # w
        BY <1>1, <2>2, <4>2
      <4>3. QED
        BY <4>1, <4>2
    <3>2. shown'[v][t] \in Nat /\ flush'[v].out[t] \in Nat
      BY <1>1, <2>2, <2>3
    <3>3. shown[v][t] + flush[v].out[t] + Waiting(t) <= counted[t]
      BY <2>1 DEF TopicInv, OncePerWorker
    <3>4. QED
      BY <1>2, <2>2, <2>3, <2>4, <3>1, <3>2, <3>3
  <2>6. OnceUnlessRaced(t)'
    BY <1>2, <2>1, <2>2, <2>3, <2>4 DEF TopicInv, OnceUnlessRaced
  <2>7. HoldInv(t)'
    <3> SUFFICES ASSUME NEW v \in Workers, Holds(v, t)'
                 PROVE  /\ shown'[v][t] + flush'[v].out[t] + flush'[v].n <= counted'[t]
                        /\ t \notin raced' =>
                             /\ viewCount'[t] + InFlight(t)' + flush'[v].n <= counted'[t]
                             /\ \A u \in Workers : Holds(u, t)' => u = v
      BY DEF HoldInv
    <3>1. CASE v = w
      <4>1. r.step = "take" /\ r.topic = t
        BY <1>1, <3>1 DEF Holds
      <4>2. r.n \in Nat /\ r.n <= Waiting(t)
        BY <4>1 DEF Runs
      <4>3. s[t] + r.out[t] + r.n <= counted[t]
        BY <2>1, <2>2, <2>3, <2>4, <4>2 DEF TopicInv, OncePerWorker
      <4>4. t \notin raced' => viewCount'[t] + InFlight(t)' + r.n <= counted[t]
        BY <1>2, <2>1, <2>2, <2>3, <2>4, <4>2 DEF TopicInv, OnceUnlessRaced
      <4>5. ASSUME t \notin raced', NEW u \in Workers, Holds(u, t)' PROVE u = w
        BY <1>1, <4>1, <4>5 DEF Holds
      <4>6. QED
        BY <1>1, <1>2, <3>1, <4>3, <4>4, <4>5
    <3>2. CASE v # w
      <4>1. Holds(v, t) /\ flush'[v] = flush[v] /\ shown'[v] = shown[v]
        BY <1>1, <3>2 DEF Holds
      <4>2. /\ shown[v][t] + flush[v].out[t] + flush[v].n <= counted[t]
            /\ t \notin raced =>
                 /\ viewCount[t] + InFlight(t) + flush[v].n <= counted[t]
                 /\ \A u \in Workers : Holds(u, t) => u = v
        BY <2>1, <4>1 DEF TopicInv, HoldInv
      <4>3. t \notin raced' => viewCount'[t] + InFlight(t)' + flush[v].n <= counted[t]
        BY <1>2, <2>2, <2>3, <2>4, <4>1, <4>2
      <4>4. ASSUME t \notin raced', NEW u \in Workers, Holds(u, t)' PROVE u = v
        <5>1. CASE u = w
          BY <1>1, <4>1, <4>4, <5>1 DEF Holds
        <5>2. CASE u # w
          BY <1>1, <1>2, <4>2, <4>4, <5>2 DEF Holds
        <5>3. QED
          BY <5>1, <5>2
      <4>5. QED
        BY <1>2, <4>1, <4>2, <4>3, <4>4
    <3>3. QED
      BY <3>1, <3>2
  <2>8. QED
    BY <1>1, <2>5, <2>6, <2>7 DEF TopicInv
<1>4. QED
  BY <1>1, <1>3 DEF ViewInv

(* The steps of a run, one by one.                                         *)
LEMMA SameShown ==
  ASSUME ViewShapes, NEW w \in Workers, shown' = shown, viewCount' = viewCount
  PROVE  /\ shown[w] \in Outputs /\ shown' = [shown EXCEPT ![w] = shown[w]]
         /\ viewCount' \in [Topics -> Nat]
         /\ \A t \in Topics : viewCount'[t] = viewCount[t] - shown[w][t] + shown[w][t]
  BY DEF ViewShapes, Outputs

LEMMA DrainBeginKeeps == ASSUME ViewInv, NEW w \in Workers, DrainBegin(w) PROVE ViewInv'
<1> DEFINE r == [step |-> "next", todo |-> dirty, out |-> Nothing]
<1>1. ViewShapes /\ flush[w] = NoRun
  BY DEF ViewInv, DrainBegin
<1>2. r \in Runs /\ r.step = "next" /\ \A t \in Topics : r.out[t] = 0 /\ flush[w].out[t] = 0
  BY <1>1, NoRunFacts DEF Runs, ViewShapes
<1>3. /\ flush' = [flush EXCEPT ![w] = r] /\ UNCHANGED <<redisVars, visit, viewCount, historyVars>>
  BY DEF DrainBegin
<1> HIDE DEF r
<1>4. RunMoves(w, r, shown[w]) /\ shown[w] \in Outputs
  BY <1>1, <1>3, SameShown DEF RunMoves, ViewShapes, redisVars, historyVars
<1>5. \A t \in Topics : /\ shown[w][t] + r.out[t] <= shown[w][t] + flush[w].out[t]
                        /\ Waiting(t)' <= Waiting(t)
  BY <1>1, <1>2, <1>3, Numbers DEF Waiting, redisVars
<1>6. QED
  BY <1>2, <1>4, <1>5, RunStepKeeps

LEMMA DrainReadKeeps ==
  ASSUME ViewInv, NEW w \in Workers, NEW t \in Topics, NEW ok \in BOOLEAN, DrainRead(w, t, ok)
  PROVE  ViewInv'
<1> DEFINE n == IF ok THEN delta[t] ELSE 0
           r == At(w, IF NothingRead(n) THEN "unmark" ELSE "take", t, n, flush[w].out)
<1>1. ViewShapes
  BY DEF ViewInv
<1>2. n \in Int /\ n <= Waiting(t)
  BY <1>1, Numbers
<1>3. /\ flush' = [flush EXCEPT ![w] = r] /\ UNCHANGED <<redisVars, visit, viewCount, counted, perKey, shown>>
      /\ raced' = IF ~NothingRead(n) /\ \E other \in Workers : Holds(other, t) THEN raced \cup {t} ELSE raced
  BY DEF DrainRead
<1> HIDE DEF n
<1>4. flush[w].todo \ {t} \in SUBSET Topics /\ flush[w].out \in Outputs
  BY <1>1, RunFacts
<1>5. /\ r \in Runs /\ r.out = flush[w].out
      /\ r.step = "take" => r.n = n /\ r.topic = t /\ ~NothingRead(n)
  <2>1. CASE NothingRead(n)
    BY <1>2, <1>4, <2>1 DEF At, Runs
  <2>2. CASE ~NothingRead(n)
    BY <1>2, <1>4, <2>2 DEF At, Runs, NothingRead
  <2>3. QED
    BY <2>1, <2>2
<1> HIDE DEF r
<1>6. RunMoves(w, r, shown[w]) /\ shown[w] \in Outputs
  BY <1>1, <1>3, SameShown DEF RunMoves, ViewShapes, redisVars
<1>7. \A u \in Topics : /\ shown[w][u] + r.out[u] <= shown[w][u] + flush[w].out[u]
                        /\ Waiting(u)' <= Waiting(u)
  BY <1>1, <1>3, <1>5, Numbers DEF Waiting, redisVars
<1>8. r.step = "take" =>
         /\ r.n <= Waiting(r.topic)
         /\ (\E v \in Workers : Holds(v, r.topic)) => r.topic \in raced'
  BY <1>2, <1>3, <1>5
<1>9. QED
  BY <1>5, <1>6, <1>7, <1>8, RunStepKeeps

(* Taking from a key is the one step that adds to what a run holds.        *)
LEMMA DrainTakeKeeps ==
  ASSUME ViewInv, NEW w \in Workers, DrainTake(w) PROVE ViewInv'
<1> DEFINE t == flush[w].topic
           n == flush[w].n
           left == LeftAfter(t, n)
           out == [flush[w].out EXCEPT ![t] = n]
           r == At(w, IF left <= 0 THEN "delete" ELSE "next", t, n, out)
<1>1. ViewShapes /\ flush[w].step = "take" /\ Holds(w, t)
  BY DEF ViewInv, DrainTake, Holds
<1>2. t \in Topics /\ n \in Nat \ {0} /\ flush[w].out \in Outputs /\ flush[w].todo \in SUBSET Topics
  BY <1>1, RunFacts
<1>3. left = delta[t] - n /\ left \in Int
  BY <1>1, <1>2 DEF LeftAfter, ViewShapes
<1>4. /\ flush' = [flush EXCEPT ![w] = r] /\ delta' = [delta EXCEPT ![t] = left]
      /\ UNCHANGED <<viewed, dirty, visit, viewCount, historyVars>>
  BY DEF DrainTake
<1>5. out \in Outputs /\ out[t] = n /\ \A u \in Topics \ {t} : out[u] = flush[w].out[u]
  BY <1>2 DEF Outputs
<1>6. \A u \in Topics \ {t} : ~Holds(w, u)
  BY DEF Holds
<1>7. HoldInv(t) => /\ shown[w][t] + flush[w].out[t] + n <= counted[t]
                    /\ t \notin raced =>
                         /\ viewCount[t] + InFlight(t) + n <= counted[t]
                         /\ \A v \in Workers : Holds(v, t) => v = w
  BY <1>1 DEF HoldInv
<1> HIDE DEF t, n, left, out
<1>8. r \in Runs /\ r.out = out /\ r.step \in {"next", "delete"}
  <2>1. CASE left <= 0
    BY <1>2, <1>5, <2>1 DEF At, Runs
  <2>2. CASE ~(left <= 0)
    BY <1>2, <1>5, <2>2 DEF At, Runs
  <2>3. QED
    BY <2>1, <2>2
<1> HIDE DEF r
<1>9. delta' \in [Topics -> Int] /\ delta'[t] = left /\ \A u \in Topics \ {t} : delta'[u] = delta[u]
  BY <1>1, <1>2, <1>3, <1>4 DEF ViewShapes
<1>10. RunMoves(w, r, shown[w]) /\ shown[w] \in Outputs
  BY <1>1, <1>4, <1>9, SameShown DEF RunMoves, ViewShapes, historyVars
<1>11. /\ ViewShapes' /\ VisitorInv' /\ flush'[w] = r
       /\ \A v \in Workers \ {w} : flush'[v] = flush[v]
       /\ \A u \in Topics : SumInv(u)'
       /\ \A u \in Topics : InFlight(u)' = InFlight(u) - flush[w].out[u] + r.out[u]
  BY <1>8, <1>10, RunFrame
<1>12. UNCHANGED <<viewCount, counted, shown, raced>>
  BY <1>4 DEF historyVars
<1>13. ASSUME NEW u \in Topics PROVE TopicInv(u)'
  <2>1. TopicInv(u)
    BY DEF ViewInv
  <2>2. /\ delta[u] \in Int /\ viewCount[u] \in Nat /\ counted[u] \in Nat /\ InFlight(u) \in Nat
        /\ \A v \in Workers : shown[v][u] \in Nat /\ flush[v].out[u] \in Nat
        /\ \A v \in Workers : Holds(v, u) => flush[v].n \in Nat
    BY <1>1, Numbers
  <2>3. \A v \in Workers : Holds(v, u)' => v # w /\ Holds(v, u) /\ flush'[v] = flush[v]
    BY <1>8, <1>11 DEF Holds
  <2>4. CASE u # t
    <3>1. Waiting(u)' = Waiting(u) /\ InFlight(u)' = InFlight(u)
      BY <1>5, <1>8, <1>9, <1>11, <2>2, <2>4 DEF Waiting
    <3>2. \A v \in Workers : flush'[v].out[u] = flush[v].out[u]
      BY <1>5, <1>8, <1>11, <2>4
    <3>3. OncePerWorker(u)' /\ OnceUnlessRaced(u)'
      BY <1>12, <2>1, <3>1, <3>2 DEF TopicInv, OncePerWorker, OnceUnlessRaced
    <3>4. HoldInv(u)'
      BY <1>12, <2>1, <2>3, <3>1 DEF TopicInv, HoldInv
    <3>5. QED
      BY <1>11, <3>3, <3>4 DEF TopicInv
  <2>5. CASE u = t
    <3>1. /\ r.out[u] = n /\ InFlight(u)' = InFlight(u) - flush[w].out[u] + n
      BY <1>2, <1>5, <1>8, <1>11, <2>5
    <3>2. \/ Waiting(u)' = 0
          \/ Waiting(u)' = delta[u] - n /\ Waiting(u) = delta[u]
      BY <1>2, <1>3, <1>9, <2>2, <2>5 DEF Waiting
    <3>3. Waiting(u)' \in Nat /\ Waiting(u)' <= Waiting(u)
      BY <1>2, <1>3, <1>9, <2>2, <2>5 DEF Waiting
    <3>4. /\ shown[w][u] + flush[w].out[u] + n <= counted[u]
          /\ u \notin raced =>
               /\ viewCount[u] + InFlight(u) + n <= counted[u]
               /\ \A v \in Workers : Holds(v, u) => v = w
      BY <1>7, <2>1, <2>5 DEF TopicInv
    <3>5. OncePerWorker(u)'
      <4> SUFFICES ASSUME NEW v \in Workers
                   PROVE  shown[v][u] + flush'[v].out[u] + Waiting(u)' <= counted[u]
        BY <1>12 DEF OncePerWorker
      <4>1. shown[v][u] + flush[v].out[u] + Waiting(u) <= counted[u]
        BY <2>1, <2>5 DEF TopicInv, OncePerWorker
      <4>2. /\ shown[v][u] \in Nat /\ flush[v].out[u] \in Nat /\ delta[u] \in Int /\ counted[u] \in Nat
            /\ Waiting(u) \in Nat
        BY <1>1, <1>2, Numbers
      <4>3. CASE v = w
        <5>1. flush'[v].out[u] = n
          BY <1>11, <3>1, <4>3
        <5>2. QED
          BY <1>2, <3>2, <3>4, <4>1, <4>2, <4>3, <5>1
      <4>4. CASE v # w
        BY <1>11, <3>3, <4>1, <4>2, <4>4
      <4>5. QED
        BY <4>3, <4>4
    <3>6. OnceUnlessRaced(u)'
      <4>1. /\ viewCount[u] \in Nat /\ InFlight(u) \in Nat /\ delta[u] \in Int /\ counted[u] \in Nat
            /\ flush[w].out[u] \in Nat
        BY <2>2, <2>5
      <4>2. u \notin raced => viewCount[u] + InFlight(u) + Waiting(u) <= counted[u]
        BY <2>1, <2>5 DEF TopicInv, OnceUnlessRaced
      <4>3. u \notin raced => viewCount[u] + InFlight(u)' + Waiting(u)' <= counted[u]
        BY <1>2, <3>1, <3>2, <3>4, <4>1, <4>2
      <4>4. QED
        BY <1>12, <4>3 DEF OnceUnlessRaced
    <3>7. HoldInv(u)'
      <4> SUFFICES ASSUME NEW v \in Workers, Holds(v, u)'
                   PROVE  /\ shown[v][u] + flush'[v].out[u] + flush'[v].n <= counted[u]
                          /\ u \in raced
        BY <1>12 DEF HoldInv
      <4>1. v # w /\ Holds(v, u) /\ flush'[v] = flush[v]
        BY <2>3, <2>5
      <4>2. QED
        BY <2>1, <2>5, <3>4, <4>1 DEF TopicInv, HoldInv
    <3>8. QED
      BY <1>11, <2>5, <3>5, <3>6, <3>7 DEF TopicInv
  <2>6. QED
    BY <2>4, <2>5
<1>14. QED
  BY <1>11, <1>13 DEF ViewInv

LEMMA DrainClearKeeps ==
  ASSUME ViewInv, NEW w \in Workers, NEW ok \in BOOLEAN, DrainClear(w, ok) PROVE ViewInv'
<1> DEFINE t == flush[w].topic
           out == flush[w].out
           taken == out[t] > 0
           next == CASE flush[w].step = "unmark" /\ ~taken -> "delete"
                     [] flush[w].step = "delete" /\ taken  -> "unmark"
                     [] OTHER -> "next"
           r == At(w, next, t, flush[w].n, out)
<1>1. ViewShapes /\ flush[w].step \in {"unmark", "delete"}
  BY DEF ViewInv, DrainClear
<1>2. t \in Topics /\ flush[w].n \in Int /\ out \in Outputs /\ flush[w].todo \in SUBSET Topics
  BY <1>1, RunFacts
<1>3. /\ flush' = [flush EXCEPT ![w] = r]
      /\ dirty' = dirty \/ dirty' = dirty \ {t}
      /\ delta' = delta \/ delta' = [delta EXCEPT ![t] = 0]
      /\ UNCHANGED <<viewed, visit, viewCount, counted, perKey, shown, raced>>
  BY DEF DrainClear, Unmarked
<1>4. next \in {"next", "unmark", "delete"}
  OBVIOUS
<1> HIDE DEF t, next, out
<1>5. r \in Runs /\ r.out = out /\ r.step \in {"next", "unmark", "delete"}
  <2>1. CASE next = "next"
    BY <1>2, <2>1 DEF At, Runs
  <2>2. CASE next \in {"unmark", "delete"}
    BY <1>2, <2>2 DEF At, Runs
  <2>3. QED
    BY <1>4, <2>1, <2>2
<1> HIDE DEF r
<1>6. delta' \in [Topics -> Int] /\ \A u \in Topics : delta'[u] = delta[u] \/ delta'[u] = 0
  BY <1>1, <1>2, <1>3 DEF ViewShapes
<1>7. RunMoves(w, r, shown[w]) /\ shown[w] \in Outputs
  BY <1>1, <1>3, <1>6, SameShown DEF RunMoves, ViewShapes
<1>8. \A u \in Topics : Waiting(u)' <= Waiting(u)
  BY <1>1, <1>6, Numbers DEF Waiting
<1>9. \A u \in Topics : shown[w][u] + r.out[u] <= shown[w][u] + flush[w].out[u]
  BY <1>1, <1>5, Numbers DEF out
<1>10. QED
  BY <1>5, <1>7, <1>8, <1>9, RunStepKeeps

LEMMA DrainEndKeeps == ASSUME ViewInv, NEW w \in Workers, DrainEnd(w) PROVE ViewInv'
<1> DEFINE out == flush[w].out
           r == IF out = Nothing THEN NoRun ELSE [step |-> "apply", todo |-> {}, out |-> out]
<1>1. ViewShapes /\ out \in Outputs
  BY RunFacts DEF ViewInv
<1>2. flush' = [flush EXCEPT ![w] = r] /\ UNCHANGED <<redisVars, visit, viewCount, historyVars>>
  BY <1>1 DEF DrainEnd, ViewShapes
<1> HIDE DEF out
<1>3. r \in Runs /\ r.out = out /\ r.step \in {"idle", "apply"}
  BY <1>1, NoRunFacts DEF Runs
<1> HIDE DEF r
<1>4. RunMoves(w, r, shown[w]) /\ shown[w] \in Outputs
  BY <1>1, <1>2, SameShown DEF RunMoves, ViewShapes, redisVars, historyVars
<1>5. \A t \in Topics : /\ shown[w][t] + r.out[t] <= shown[w][t] + flush[w].out[t]
                        /\ Waiting(t)' <= Waiting(t)
  BY <1>1, <1>2, <1>3, Numbers DEF Waiting, redisVars, out
<1>6. QED
  BY <1>3, <1>4, <1>5, RunStepKeeps

LEMMA ApplyKeeps ==
  ASSUME ViewInv, NEW w \in Workers, NEW t \in Topics, Apply(w, t) PROVE ViewInv'
<1> DEFINE out == flush[w].out
           rest == [out EXCEPT ![t] = 0]
           r == IF rest = Nothing THEN NoRun ELSE [step |-> "apply", todo |-> {}, out |-> rest]
           s == [shown[w] EXCEPT ![t] = shown[w][t] + out[t]]
<1>1. ViewShapes /\ out \in Outputs /\ shown[w] \in Outputs
  BY RunFacts DEF ViewInv, ViewShapes
<1>2. /\ flush' = [flush EXCEPT ![w] = r] /\ viewCount' = [viewCount EXCEPT ![t] = viewCount[t] + out[t]]
      /\ shown' = [shown EXCEPT ![w] = s]
      /\ UNCHANGED <<redisVars, visit, counted, perKey, raced>>
  BY DEF Apply
<1>3. rest \in Outputs /\ rest[t] = 0 /\ \A u \in Topics \ {t} : rest[u] = out[u]
  BY <1>1 DEF Outputs
<1>4. s \in Outputs /\ s[t] = shown[w][t] + out[t] /\ \A u \in Topics \ {t} : s[u] = shown[w][u]
  BY <1>1 DEF Outputs
<1>5. out[t] \in Nat /\ \A u \in Topics : out[u] = flush[w].out[u]
  BY <1>1 DEF Outputs
<1> HIDE DEF out, rest, s
<1>6. r \in Runs /\ r.out = rest /\ r.step \in {"idle", "apply"}
  BY <1>3, NoRunFacts DEF Runs
<1> HIDE DEF r
<1>7. /\ viewCount' \in [Topics -> Nat] /\ viewCount'[t] = viewCount[t] + out[t]
      /\ \A u \in Topics \ {t} : viewCount'[u] = viewCount[u]
  BY <1>1, <1>2, <1>5 DEF ViewShapes
<1>8. ASSUME NEW u \in Topics
      PROVE  /\ viewCount'[u] = viewCount[u] - shown[w][u] + s[u]
             /\ s[u] + r.out[u] <= shown[w][u] + flush[w].out[u]
             /\ Waiting(u)' <= Waiting(u)
  <2>1. viewCount[u] \in Nat /\ shown[w][u] \in Nat /\ flush[w].out[u] \in Nat /\ Waiting(u) \in Nat
    BY <1>1, Numbers
  <2>2. Waiting(u)' = Waiting(u)
    BY <1>2 DEF Waiting, redisVars
  <2>3. CASE u = t
    BY <1>3, <1>4, <1>5, <1>6, <1>7, <2>1, <2>2, <2>3
  <2>4. CASE u # t
    BY <1>3, <1>4, <1>5, <1>6, <1>7, <2>1, <2>2, <2>4
  <2>5. QED
    BY <2>3, <2>4
<1>9. RunMoves(w, r, s)
  BY <1>1, <1>2, <1>7, <1>8 DEF RunMoves, ViewShapes, redisVars
<1>10. QED
  BY <1>4, <1>6, <1>8, <1>9, RunStepKeeps

LEMMA RunFailsKeeps == ASSUME ViewInv, NEW w \in Workers, RunFails(w) PROVE ViewInv'
<1>1. ViewShapes
  BY DEF ViewInv
<1>2. flush' = [flush EXCEPT ![w] = NoRun]
      /\ UNCHANGED <<redisVars, visit, viewCount, counted, perKey, shown, raced>>
  BY DEF RunFails
<1>3. RunMoves(w, NoRun, shown[w]) /\ shown[w] \in Outputs
  BY <1>1, <1>2, SameShown DEF RunMoves, ViewShapes, redisVars
<1>4. \A t \in Topics : /\ shown[w][t] + NoRun.out[t] <= shown[w][t] + flush[w].out[t]
                        /\ Waiting(t)' <= Waiting(t)
  BY <1>1, <1>2, NoRunFacts, Numbers DEF Waiting, redisVars
<1>5. QED
  BY <1>3, <1>4, NoRunFacts, RunStepKeeps

(* A page view changes no run: what is in flight stays.  It may add to a   *)
(* key what it counts.                                                     *)
LEMMA RunsUntouched ==
  ASSUME ViewShapes, NEW t \in Topics, TopicInv(t),
         UNCHANGED <<flush, viewCount, shown, raced>>, counted'[t] \in Nat, Waiting(t)' \in Nat,
         counted[t] <= counted'[t], Waiting(t)' - Waiting(t) <= counted'[t] - counted[t]
  PROVE  TopicInv(t)'
<1>1. InFlight(t)' = InFlight(t) /\ \A w \in Workers : Holds(w, t)' = Holds(w, t)
  BY DEF InFlight, Taken, Holds
<1>2. /\ viewCount[t] \in Nat /\ counted[t] \in Nat /\ InFlight(t) \in Nat /\ Waiting(t) \in Nat
      /\ \A w \in Workers : shown[w][t] \in Nat /\ flush[w].out[t] \in Nat
      /\ \A w \in Workers : Holds(w, t) => flush[w].n \in Nat
  BY Numbers
<1>3. OncePerWorker(t)'
  BY <1>2 DEF TopicInv, OncePerWorker
<1>4. OnceUnlessRaced(t)'
  BY <1>1, <1>2 DEF TopicInv, OnceUnlessRaced
<1>5. HoldInv(t)'
  <2> SUFFICES ASSUME NEW w \in Workers, Holds(w, t)
               PROVE  /\ shown[w][t] + flush[w].out[t] + flush[w].n <= counted'[t]
                      /\ t \notin raced =>
                           /\ viewCount[t] + InFlight(t) + flush[w].n <= counted'[t]
                           /\ \A v \in Workers : Holds(v, t) => v = w
    BY <1>1 DEF HoldInv
  <2>1. /\ shown[w][t] + flush[w].out[t] + flush[w].n <= counted[t]
        /\ t \notin raced =>
             /\ viewCount[t] + InFlight(t) + flush[w].n <= counted[t]
             /\ \A v \in Workers : Holds(v, t) => v = w
    BY DEF TopicInv, HoldInv
  <2>2. QED
    BY <1>2, <2>1
<1>6. SumInv(t)'
  BY <1>1 DEF TopicInv, SumInv, Sums, Blocks
<1>7. QED
  BY <1>3, <1>4, <1>5, <1>6 DEF TopicInv

(* In particular if it counts nothing.                                     *)
LEMMA TopicsUntouched ==
  ASSUME ViewInv, UNCHANGED <<flush, viewCount, shown, raced, delta, counted>>
  PROVE  \A t \in Topics : TopicInv(t)'
<1> SUFFICES ASSUME NEW t \in Topics PROVE TopicInv(t)'
  OBVIOUS
<1>1. ViewShapes /\ TopicInv(t)
  BY DEF ViewInv
<1>2. counted[t] \in Nat /\ Waiting(t) \in Nat /\ Waiting(t)' = Waiting(t)
  BY <1>1, Numbers DEF Waiting
<1>3. QED
  BY <1>1, <1>2, RunsUntouched

(* Visitor keys and their visits.                                          *)
LEMMA MarkVisitorKeeps ==
  ASSUME ViewInv, NEW v \in Visits, NEW t \in Topics, NEW u \in Visitors, MarkVisitor(v, t, u)
  PROVE  ViewInv'
<1> DEFINE key == <<t, u>>
           x == [step |-> "incr", topic |-> t, visitor |-> u]
           done == [step |-> "done"]
<1>1. ViewShapes /\ VisitorInv /\ key \in Keys
  BY DEF ViewInv, Keys
<1>2. /\ flush' = flush /\ delta' = delta /\ viewCount' = viewCount /\ counted' = counted
      /\ dirty' = dirty /\ shown' = shown /\ raced' = raced /\ viewed' = viewed \cup {key}
  BY DEF MarkVisitor
<1>3. x \in Views /\ done \in Views /\ done.step = "done" /\ x.step = "incr"
      /\ <<x.topic, x.visitor>> = key
  BY DEF Views
<1>4. \/ /\ key \notin viewed /\ visit' = [visit EXCEPT ![v] = x]
         /\ perKey' = [perKey EXCEPT ![key] = 0]
      \/ visit' = [visit EXCEPT ![v] = done] /\ perKey' = perKey
  BY DEF MarkVisitor, FirstVisit
<1> HIDE DEF x, done, key
<1>5. ViewShapes'
  BY <1>1, <1>2, <1>3, <1>4 DEF ViewShapes
<1>6. VisitorInv'
  <2>1. CASE /\ key \notin viewed /\ visit' = [visit EXCEPT ![v] = x]
             /\ perKey' = [perKey EXCEPT ![key] = 0]
    <3>1. visit'[v] = x /\ \A o \in Visits \ {v} : visit'[o] = visit[o]
      BY <1>1, <2>1 DEF ViewShapes
    <3>2. perKey'[key] = 0 /\ \A k \in Keys \ {key} : perKey'[k] = perKey[k]
      BY <1>1, <2>1 DEF ViewShapes
    <3>3. \A k \in Keys : Counting(v, k)' <=> k = key
      BY <1>3, <3>1 DEF Counting
    <3>4. \A o \in Visits \ {v}, k \in Keys : Counting(o, k)' <=> Counting(o, k)
      BY <3>1 DEF Counting
    <3>5. \A o \in Visits : ~Counting(o, key)
      BY <1>1, <2>1 DEF VisitorInv
    <3>6. QED
      BY <1>1, <1>2, <3>2, <3>3, <3>4, <3>5 DEF VisitorInv
  <2>2. CASE visit' = [visit EXCEPT ![v] = done] /\ perKey' = perKey
    <3>1. visit'[v] = done /\ \A o \in Visits \ {v} : visit'[o] = visit[o]
      BY <1>1, <2>2 DEF ViewShapes
    <3>2. \A o \in Visits, k \in Keys : Counting(o, k)' => Counting(o, k)
      BY <1>3, <3>1 DEF Counting
    <3>3. QED
      BY <1>1, <1>2, <2>2, <3>2 DEF VisitorInv
  <2>3. QED
    BY <1>4, <2>1, <2>2
<1>7. \A k \in Topics : TopicInv(k)'
  BY <1>2, TopicsUntouched
<1>8. QED
  BY <1>5, <1>6, <1>7 DEF ViewInv

LEMMA CountVisitKeeps == ASSUME ViewInv, NEW v \in Visits, CountVisit(v) PROVE ViewInv'
<1> DEFINE t == visit[v].topic
           key == <<t, visit[v].visitor>>
           x == [visit[v] EXCEPT !.step = "sadd"]
<1>1. ViewShapes /\ VisitorInv /\ visit[v].step = "incr"
  BY DEF ViewInv, CountVisit
<1>2. t \in Topics /\ key \in Keys /\ x \in Views /\ x.step = "sadd" /\ Counting(v, key)
  BY <1>1, VisitFacts DEF Keys, Views, Counting
<1>3. /\ flush' = flush /\ viewCount' = viewCount /\ dirty' = dirty /\ shown' = shown /\ raced' = raced
      /\ viewed' = viewed /\ visit' = [visit EXCEPT ![v] = x]
      /\ delta' = [delta EXCEPT ![t] = delta[t] + 1]
      /\ counted' = [counted EXCEPT ![t] = counted[t] + 1]
      /\ perKey' = [perKey EXCEPT ![key] = perKey[key] + 1]
  BY DEF CountVisit
<1> HIDE DEF x, key, t
<1>4. ViewShapes'
  BY <1>1, <1>2, <1>3 DEF ViewShapes
<1>5. VisitorInv'
  <2>1. visit'[v] = x /\ \A o \in Visits \ {v} : visit'[o] = visit[o]
    BY <1>1, <1>3 DEF ViewShapes
  <2>2. perKey[key] = 0 /\ \A o \in Visits \ {v} : ~Counting(o, key)
    BY <1>1, <1>2 DEF VisitorInv
  <2>3. perKey'[key] = 1 /\ \A k \in Keys \ {key} : perKey'[k] = perKey[k]
    BY <1>1, <1>2, <1>3, <2>2 DEF ViewShapes
  <2>4. \A o \in Visits, k \in Keys : Counting(o, k)' => Counting(o, k) /\ k # key
    BY <1>2, <2>1, <2>2 DEF Counting
  <2>5. QED
    BY <1>1, <1>3, <2>3, <2>4 DEF VisitorInv
<1>6. ASSUME NEW u \in Topics PROVE TopicInv(u)'
  <2>1. /\ delta[u] \in Int /\ counted[u] \in Nat /\ delta'[u] \in Int /\ counted'[u] \in Nat
        /\ \/ delta'[u] = delta[u] + 1 /\ counted'[u] = counted[u] + 1
           \/ delta'[u] = delta[u] /\ counted'[u] = counted[u]
    BY <1>1, <1>2, <1>3, <1>4 DEF ViewShapes
  <2>2. Waiting(u)' \in Nat /\ Waiting(u)' - Waiting(u) <= counted'[u] - counted[u]
    BY <2>1 DEF Waiting
  <2>3. counted[u] <= counted'[u]
    BY <2>1
  <2>4. QED
    BY <1>1, <1>3, <2>1, <2>2, <2>3, RunsUntouched DEF ViewInv
<1>7. QED
  BY <1>4, <1>5, <1>6 DEF ViewInv

(* A visit that goes on to mark its topic, or ends.                        *)
LEMMA VisitEndsKeeps ==
  ASSUME ViewInv, NEW v \in Visits, visit' = [visit EXCEPT ![v] = [step |-> "done"]],
         UNCHANGED <<viewed, delta, flush, viewCount, counted, perKey, shown, raced>>,
         dirty' \subseteq Topics
  PROVE  ViewInv'
<1>1. ViewShapes /\ VisitorInv
  BY DEF ViewInv
<1>2. [step |-> "done"] \in Views
  BY DEF Views
<1>3. ViewShapes'
  BY <1>1, <1>2 DEF ViewShapes
<1>4. \A o \in Visits, k \in Keys : Counting(o, k)' => Counting(o, k)
  BY <1>1 DEF Counting, ViewShapes
<1>5. VisitorInv'
  BY <1>1, <1>4 DEF VisitorInv
<1>6. \A t \in Topics : TopicInv(t)'
  BY TopicsUntouched
<1>7. QED
  BY <1>3, <1>5, <1>6 DEF ViewInv

LEMMA ExpireKeeps == ASSUME ViewInv, NEW key \in viewed, ExpireVisitor(key) PROVE ViewInv'
<1>1. ViewShapes /\ VisitorInv /\ \A v \in Visits : ~Counting(v, key)
  BY DEF ViewInv, ExpireVisitor, Counting
<1>2. /\ viewed' = viewed \ {key}
      /\ UNCHANGED <<delta, dirty, visit, flush, viewCount, counted, perKey, shown, raced>>
  BY DEF ExpireVisitor, historyVars
<1>3. ViewShapes'
  BY <1>1, <1>2 DEF ViewShapes
<1>4. \A o \in Visits, k \in Keys : Counting(o, k)' = Counting(o, k)
  BY <1>2 DEF Counting
<1>5. VisitorInv'
  BY <1>1, <1>2, <1>4 DEF VisitorInv
<1>6. \A t \in Topics : TopicInv(t)'
  BY <1>2, TopicsUntouched
<1>7. QED
  BY <1>3, <1>5, <1>6 DEF ViewInv

LEMMA ViewStep == ViewInv /\ [ViewNext]_viewVars => ViewInv'
<1> SUFFICES ASSUME ViewInv, [ViewNext]_viewVars PROVE ViewInv'
  OBVIOUS
<1>1. ASSUME NEW v \in Visits, VisitStep(v) PROVE ViewInv'
  <2>1. CASE \E t \in Topics, u \in Visitors : MarkVisitor(v, t, u)
    BY <2>1, MarkVisitorKeeps
  <2>2. CASE CountVisit(v)
    BY <2>2, CountVisitKeeps
  <2>3. CASE MarkDirty(v)
    <3>1. ViewShapes /\ visit[v].step = "sadd"
      BY <2>3 DEF ViewInv, MarkDirty
    <3>2. dirty' \subseteq Topics
      BY <2>3, <3>1, VisitFacts DEF ViewShapes, MarkDirty
    <3>3. QED
      BY <2>3, <3>2, VisitEndsKeeps DEF MarkDirty, historyVars
  <2>4. CASE VisitFails(v)
    BY <2>4, VisitEndsKeeps DEF VisitFails, redisVars, ViewInv, ViewShapes
  <2>5. QED
    BY <1>1, <2>1, <2>2, <2>3, <2>4 DEF VisitStep
<1>2. ASSUME NEW w \in Workers, FlushStep(w) \/ FlushFault(w) PROVE ViewInv'
  <2>1. CASE \E ok \in BOOLEAN, t \in Topics : DrainRead(w, t, ok)
    BY <2>1, DrainReadKeeps
  <2>2. CASE \E ok \in BOOLEAN : DrainClear(w, ok)
    BY <2>2, DrainClearKeeps
  <2>3. CASE \E t \in Topics : Apply(w, t)
    BY <2>3, ApplyKeeps
  <2>4. CASE DrainBegin(w) \/ DrainTake(w) \/ DrainEnd(w) \/ RunFails(w)
    BY <2>4, DrainBeginKeeps, DrainTakeKeeps, DrainEndKeeps, RunFailsKeeps
  <2>5. QED
    BY <1>2, <2>1, <2>2, <2>3, <2>4 DEF FlushStep, FlushFault
<1>3. ASSUME NEW key \in viewed, ExpireVisitor(key) PROVE ViewInv'
  BY <1>3, ExpireKeeps
<1>4. CASE UNCHANGED viewVars
  <2>1. UNCHANGED <<viewed, delta, dirty, visit, flush, viewCount, counted, perKey, shown, raced>>
    BY <1>4 DEF viewVars, redisVars, historyVars
  <2>2. ViewShapes' = ViewShapes
    BY <2>1 DEF ViewShapes
  <2>3. \A o \in Visits, k \in Keys : Counting(o, k)' = Counting(o, k)
    BY <2>1 DEF Counting
  <2>4. VisitorInv' = VisitorInv
    BY <2>1, <2>3 DEF VisitorInv
  <2>5. \A t \in Topics : TopicInv(t)'
    BY <2>1, TopicsUntouched
  <2>6. QED
    BY <2>2, <2>4, <2>5 DEF ViewInv
<1>5. QED
  BY <1>1, <1>2, <1>3, <1>4 DEF ViewNext

(* The invariant implies what the run checks.                              *)
LEMMA ViewsBounded == ViewInv => ShownAsOftenAsTaken
<1> SUFFICES ASSUME ViewInv PROVE ShownAsOftenAsTaken
  OBVIOUS
<1>1. ViewShapes /\ VisitorInv /\ \A t \in Topics : TopicInv(t)
  BY DEF ViewInv
<1>2. \A v \in Visits : visit[v].step \in {"absent", "incr", "sadd", "done"}
  BY <1>1, VisitFacts
<1>3. ViewTypes
  BY <1>1, <1>2, RunFacts DEF ViewTypes, ViewShapes, Outputs
<1>4. ASSUME NEW t \in Topics
      PROVE  viewCount[t] + InFlight(t) <= Cardinality(Workers) * counted[t]
  <2>1. /\ counted[t] \in Nat /\ Waiting(t) \in Nat /\ Sums(t) \in [Workers -> Nat]
        /\ \A w \in Workers : shown[w][t] \in Nat /\ flush[w].out[t] \in Nat
    BY <1>1, Numbers
  <2>2. \A w \in Workers : shown[w][t] + flush[w].out[t] + Waiting(t) <= counted[t]
    BY <1>1 DEF TopicInv, OncePerWorker
  <2>3. \A w \in Workers : Sums(t)[w] <= counted[t]
    BY <2>1, <2>2 DEF Sums
  <2>4. QED
    BY <1>1, <2>1, <2>3, BlocksBounded DEF TopicInv, SumInv
<1>5. QED
  BY <1>1, <1>3, <1>4 DEF ShownAsOftenAsTaken, VisitorInv, TopicInv

-----------------------------------------------------------------------------
(* The parts keep their invariants whichever of them a step belongs to.    *)
PartsInv == ReplayInv /\ MiddlewareInv /\ ViewInv

LEMMA AlwaysPartsInv == PartsSpec => []PartsInv
<1>1. PartsInit => PartsInv
  BY ReplayInit, MiddlewareInit, ViewStart DEF PartsInit, PartsInv
<1>2. PartsInv /\ [PartsNext]_allVars => PartsInv'
  <2> SUFFICES ASSUME PartsInv, [PartsNext]_allVars
               PROVE  PartsInv'
    OBVIOUS
  <2>1. [Next]_vars
    BY DEF PartsNext, PlainPart, ViewPart, allVars
  <2>2. [Plain!Next]_plainVars
    BY DEF PartsNext, ReplayPart, ViewPart, allVars
  <2>3. ReplayInv'
    BY <2>1, TypeStep, HolderStep, GenuineStep DEF PartsInv, ReplayInv
  <2>4. MiddlewareInv'
    BY <2>2, MiddlewareStep DEF PartsInv
  <2>5. [ViewNext]_viewVars
    BY DEF PartsNext, ReplayPart, PlainPart, allVars
  <2>6. QED
    BY <2>3, <2>4, <2>5, ViewStep DEF PartsInv
<1>3. QED
  BY <1>1, <1>2, PTL DEF PartsSpec

(* At most one registered request succeeds in one TTL, and replays repeat  *)
(* only such successes, whatever Redis loses and whoever dies              *)
(* (middleware.go, Begin of store.go).                                     *)
THEOREM OneSuccessPerTTL == PartsSpec => []SucceedsOncePerTTL
<1>1. PartsInv => SucceedsOncePerTTL
  BY DEF PartsInv, ReplayInv, MiddlewareInv, SucceedsOncePerTTL
<1>2. QED
  BY <1>1, AlwaysPartsInv, PTL

(* However commands fail, runs of the job overlap or workers die: the runs *)
(* of one worker show a view once; all of them together do, unless two held*)
(* its topic between GET and DECRBY at once, and even then not more often  *)
(* than there are workers; and of one visitor's requests one is counted in *)
(* the life of the visitor's key (RecordView and DrainDeltas of            *)
(* view_counter.go, ApplyViewCountDeltas).                                 *)
THEOREM ViewsAreShownAsTaken == PartsSpec => []ShownAsOftenAsTaken
<1>1. PartsInv => ShownAsOftenAsTaken
  BY ViewsBounded DEF PartsInv
<1>2. QED
  BY <1>1, AlwaysPartsInv, PTL
=============================================================================
