--------------------------- MODULE RequiredReplay ---------------------------
(***************************************************************************)
(* Required idempotency of unsafe plugin routes: requests with one key,    *)
(* dispatched by any API process (Support/Idempotency/required_replay.go   *)
(* and the lease handling of Support/Routes/dispatcher_dispatch.go).       *)
(*                                                                         *)
(* A request looks the record up and claims it with SETNX, at most four    *)
(* times.  The owner either fails before anything ran, and releases the    *)
(* record, or runs the plugin; once execution evidence was observed the    *)
(* record is never released, only completed with a 2xx response.  Both     *)
(* compare the record with the owner's own pending bytes first.  Redis may *)
(* lose a command or only its reply, and the process may die anywhere.     *)
(***************************************************************************)
EXTENDS IdempotencyRecord

CONSTANTS
    Fingerprints,   \* digests of method, path, query, body and plan
    Rounds          \* lookups of one request: 4 in the code

ASSUME ReplayConstants == Fingerprints # {} /\ Rounds \in Nat \ {0}

VARIABLES
    print,      \* each request's fingerprint
    pc,         \* what each request is doing, or how it ended
    rounds,     \* how many lookups it has left
    observed,   \* requests whose plugin reported a side effect or a response
    claimedAt,  \* history: the epoch in which a request claimed the record
    replayed    \* history: whose response a replay returned

vars == <<rec, epoch, print, pc, rounds, observed, claimedAt, replayed>>
own == <<print, observed, claimedAt, replayed>>

Ended == {"answered", "replayed", "inProgress", "mismatch", "unavailable", "failed", "crashed"}
Steps == {"get", "setnx", "owner", "running"}

Init ==
    /\ rec = NoRecord /\ epoch = 0
    /\ print \in [Requests -> Fingerprints]
    /\ pc = [r \in Requests |-> "get"]
    /\ rounds = [r \in Requests |-> Rounds]
    /\ observed = {}
    /\ claimedAt = [r \in Requests |-> 0]
    /\ replayed = [r \in Requests |-> Nobody]

Goto(r, where) == pc' = [pc EXCEPT ![r] = where]

-----------------------------------------------------------------------------
(* Deliberately wrong variants, for checking that the properties notice:   *)
(* swaps that look for any pending record or for any record, a replay      *)
(* whatever the fingerprint, a release after evidence.                     *)
SwapsAnyPending(r) == rec.state = "pending"
ReplaysAnyPrint(r) == TRUE
ReleasesAlways(r) == TRUE
SwapsAnything(r) == rec # NoRecord


(* The compare-and-swap of an owner succeeds on its own pending record.    *)
Swaps(r) == rec = Pending(r)

SamePrint(r) == print[rec.by] = print[r]

(* beginRequiredReplay: what a lookup decides.                             *)
Get(r) ==
    /\ pc[r] = "get"
    /\ \/ rec.state = "none" /\ Goto(r, "setnx") /\ UNCHANGED replayed
       \/ rec.state # "none" /\ ~SamePrint(r) /\ Goto(r, "mismatch") /\ UNCHANGED replayed
       \/ rec.state = "pending" /\ SamePrint(r) /\ Goto(r, "inProgress") /\ UNCHANGED replayed
       \/ /\ rec.state = "completed" /\ SamePrint(r)
          /\ Goto(r, "replayed")
          /\ replayed' = [replayed EXCEPT ![r] = rec.by]
    /\ UNCHANGED <<rec, epoch, print, rounds, observed, claimedAt>>

LastRound(r) == rounds[r] = 1

SetNX(r) ==
    /\ pc[r] = "setnx"
    /\ \/ /\ rec = NoRecord
          /\ rec' = Pending(r)
          /\ claimedAt' = [claimedAt EXCEPT ![r] = epoch]
          /\ Goto(r, "owner")
          /\ UNCHANGED rounds
       \/ /\ rec # NoRecord
          /\ rounds' = [rounds EXCEPT ![r] = @ - 1]
          /\ Goto(r, IF LastRound(r) THEN "unavailable" ELSE "get")
          /\ UNCHANGED <<rec, claimedAt>>
    /\ UNCHANGED <<epoch, print, observed, replayed>>

(* Redis fails a lookup, or a claim that it may all the same have stored.  *)
BeginUnavailable(r) ==
    /\ \/ pc[r] \in {"get", "setnx"} /\ UNCHANGED rec
       \/ pc[r] = "setnx" /\ rec = NoRecord /\ rec' = Pending(r)
    /\ Goto(r, "unavailable")
    /\ UNCHANGED <<epoch, rounds, own>>

(* The plugin is called; the evidence it reports may arrive or not.        *)
Invoke(r) ==
    /\ pc[r] = "owner"
    /\ Goto(r, "running")
    /\ observed' \in {observed, observed \cup {r}}
    /\ UNCHANGED <<rec, epoch, print, rounds, claimedAt, replayed>>

(* The deferred Abort of Dispatch runs only without execution evidence;    *)
(* it may fail, and its error is ignored.                                  *)
MayRelease(r) == r \notin observed

Release(r) ==
    \/ MayRelease(r) /\ Swaps(r) /\ rec' = NoRecord
    \/ UNCHANGED rec

(* A guard, the transport or a schema check fails, or the status is not 2xx*)
FailDispatch(r) ==
    /\ pc[r] \in {"owner", "running"}
    /\ Release(r)
    /\ Goto(r, "failed")
    /\ UNCHANGED <<epoch, rounds, own>>

(* CompleteRequiredReplay: only a stored response is given to the client.  *)
Complete(r) ==
    /\ pc[r] = "running"
    /\ \/ Swaps(r) /\ rec' = Completed(r) /\ Goto(r, "answered")
       \/ ~Swaps(r) /\ UNCHANGED rec /\ Goto(r, "unavailable")
    /\ UNCHANGED <<epoch, rounds, own>>

(* Redis fails the completion, which may all the same have been stored.    *)
CompleteUnavailable(r) ==
    /\ pc[r] = "running"
    /\ \/ UNCHANGED rec
       \/ Swaps(r) /\ rec' = Completed(r)
    /\ Goto(r, "unavailable")
    /\ UNCHANGED <<epoch, rounds, own>>

Crash(r) ==
    /\ pc[r] \in Steps
    /\ Goto(r, "crashed")
    /\ UNCHANGED <<rec, epoch, rounds, own>>

Step(r) ==
    \/ Get(r) \/ SetNX(r) \/ BeginUnavailable(r)
    \/ Invoke(r) \/ FailDispatch(r) \/ Complete(r) \/ CompleteUnavailable(r)

RecordExpires == Expire /\ UNCHANGED <<pc, rounds, own>>

Next ==
    \/ \E r \in Requests : Step(r) \/ Crash(r)
    \/ RecordExpires

Spec == Init /\ [][Next]_vars

-----------------------------------------------------------------------------
(* The types; a request never looks the record up once too often.          *)
TypeOK ==
    /\ rec \in Records
    /\ epoch \in 0..MaxExpiries
    /\ print \in [Requests -> Fingerprints]
    /\ pc \in [Requests -> Steps \cup Ended]
    /\ rounds \in [Requests -> 0..Rounds]
    /\ \A r \in Requests : pc[r] \in {"get", "setnx"} => rounds[r] > 0
    /\ observed \subseteq Requests
    /\ claimedAt \in [Requests -> 0..MaxExpiries]
    /\ replayed \in [Requests -> Requests \cup {Nobody}]

(* Until the TTL runs out, an owner that is still at work finds its own    *)
(* pending record: no late owner of an earlier TTL completes or releases   *)
(* it (store.go:46, CompareAndSwap).                                       *)
OwnerKeepsRecord ==
    \A r \in Requests :
        pc[r] \in {"owner", "running"} /\ claimedAt[r] = epoch => rec = Pending(r)

(* Of the requests that claimed the key within one TTL, at most one leaves *)
(* execution evidence, whatever fails or dies in between.                  *)
ExecutedOncePerTTL ==
    \A q, r \in observed : claimedAt[q] = claimedAt[r] => q = r

(* A replay hands out the response of a request with the same fingerprint  *)
(* that ran, and that was not reported to its client as a plain failure.   *)
ReplayIsGenuine ==
    \A r \in Requests :
        LET q == replayed[r]
        IN  q # Nobody => print[q] = print[r] /\ pc[q] \in {"answered", "unavailable"}

(* A response that a client got stays the answer to the key until the TTL  *)
(* runs out.                                                               *)
AnswerStands ==
    [][rec.state = "completed" /\ rec' # rec => rec' = NoRecord /\ epoch' # epoch]_vars
=============================================================================
