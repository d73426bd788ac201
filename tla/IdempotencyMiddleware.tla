----------------------- MODULE IdempotencyMiddleware -----------------------
(***************************************************************************)
(* Optional idempotency of core write routes: requests with one            *)
(* Idempotency-Key pass Middleware around the handler (middleware.go, Begin*)
(* / Complete / Abort of store.go).  When Redis fails in Begin the request *)
(* runs without a record; the outcome of Complete and Abort is ignored, so *)
(* a record may be left pending after its request has ended.               *)
(*                                                                         *)
(* Set and Delete are unconditional.  That is harmless only while the TTL  *)
(* (24 h) outlasts every request, so the record does not expire here while *)
(* a registered request is running.                                        *)
(***************************************************************************)
EXTENDS IdempotencyRecord

VARIABLES
    pc,         \* what each request is doing, or how it ended
    claimedAt,  \* history: the epoch in which a request registered
    cached,     \* history: registered requests that ended with 2xx
    replayed    \* history: whose response a replay returned

vars == <<rec, epoch, pc, claimedAt, cached, replayed>>

Steps == {"get", "setnx", "reread", "running", "bare"}
Ended == {"answered", "failed", "conflict", "replayed", "crashed"}

Init ==
    /\ rec = NoRecord /\ epoch = 0
    /\ pc = [r \in Requests |-> "get"]
    /\ claimedAt = [r \in Requests |-> 0]
    /\ cached = {}
    /\ replayed = [r \in Requests |-> Nobody]

Goto(r, where) == pc' = [pc EXCEPT ![r] = where]

-----------------------------------------------------------------------------
(* Deliberately wrong variants, for checking that the properties notice: a *)
(* claim that takes a pending record over.                                 *)
ClaimsOverPending == rec.state # "completed"



(* Begin, first lookup.                                                    *)
Free == rec.state = "none"

Get(r) ==
    /\ pc[r] = "get"
    /\ \/ Free /\ Goto(r, "setnx") /\ UNCHANGED replayed
       \/ rec.state = "pending" /\ ~Free /\ Goto(r, "conflict") /\ UNCHANGED replayed
       \/ /\ rec.state = "completed"
          /\ Goto(r, "replayed")
          /\ replayed' = [replayed EXCEPT ![r] = rec.by]
    /\ UNCHANGED <<rec, epoch, claimedAt, cached>>

Claims == rec = NoRecord

SetNX(r) ==
    /\ pc[r] = "setnx"
    /\ \/ /\ Claims
          /\ rec' = Pending(r)
          /\ claimedAt' = [claimedAt EXCEPT ![r] = epoch]
          /\ Goto(r, "running")
       \/ ~Claims /\ Goto(r, "reread") /\ UNCHANGED <<rec, claimedAt>>
    /\ UNCHANGED <<epoch, cached, replayed>>

(* After a lost claim: anything but a completed record is a conflict.      *)
Reread(r) ==
    /\ pc[r] = "reread"
    /\ \/ rec.state # "completed" /\ Goto(r, "conflict") /\ UNCHANGED replayed
       \/ /\ rec.state = "completed"
          /\ Goto(r, "replayed")
          /\ replayed' = [replayed EXCEPT ![r] = rec.by]
    /\ UNCHANGED <<rec, epoch, claimedAt, cached>>

(* Redis fails in Begin, perhaps after storing the claim: fail open.       *)
BeginFailsOpen(r) ==
    /\ \/ pc[r] \in {"get", "setnx", "reread"} /\ UNCHANGED rec
       \/ pc[r] = "setnx" /\ Claims /\ rec' = Pending(r)
    /\ Goto(r, "bare")
    /\ UNCHANGED <<epoch, claimedAt, cached, replayed>>

MayCache(ok) == ok

(* The handler returns; ok: no error and a 2xx status.  The write of the   *)
(* record may fail without anybody noticing.                               *)
Handle(r, ok) ==
    /\ pc[r] = "running"
    /\ \/ MayCache(ok) /\ rec' = Completed(r)
       \/ ~MayCache(ok) /\ rec' = NoRecord
       \/ UNCHANGED rec
    /\ cached' = IF ok THEN cached \cup {r} ELSE cached
    /\ Goto(r, IF ok THEN "answered" ELSE "failed")
    /\ UNCHANGED <<epoch, claimedAt, replayed>>

HandleBare(r, ok) ==
    /\ pc[r] = "bare"
    /\ Goto(r, IF ok THEN "answered" ELSE "failed")
    /\ UNCHANGED <<rec, epoch, claimedAt, cached, replayed>>

Crash(r) ==
    /\ pc[r] \in Steps
    /\ Goto(r, "crashed")
    /\ UNCHANGED <<rec, epoch, claimedAt, cached, replayed>>

RecordExpires ==
    /\ Expire
    /\ \A r \in Requests : pc[r] # "running"
    /\ UNCHANGED <<pc, claimedAt, cached, replayed>>

Next ==
    \/ \E r \in Requests :
         Get(r) \/ SetNX(r) \/ Reread(r) \/ BeginFailsOpen(r) \/ Crash(r)
    \/ \E r \in Requests, ok \in BOOLEAN : Handle(r, ok) \/ HandleBare(r, ok)
    \/ RecordExpires

Spec == Init /\ [][Next]_vars

-----------------------------------------------------------------------------
(* The types; a running registered request is the one its record names.    *)
TypeOK ==
    /\ rec \in Records
    /\ epoch \in 0..MaxExpiries
    /\ pc \in [Requests -> Steps \cup Ended]
    /\ claimedAt \in [Requests -> 0..MaxExpiries]
    /\ cached \subseteq Requests
    /\ replayed \in [Requests -> Requests \cup {Nobody}]
    /\ \A r \in Requests : pc[r] = "running" => rec = Pending(r)

(* At most one registered request succeeds in one TTL, although a record   *)
(* can be left behind and claims can be lost (Begin, store.go:110), and    *)
(* nothing but such a success is ever replayed (middleware.go:55).         *)
SucceedsOncePerTTL ==
    /\ \A q, r \in cached : claimedAt[q] = claimedAt[r] => q = r
    /\ \A r \in Requests : replayed[r] \in cached \cup {Nobody}
=============================================================================
