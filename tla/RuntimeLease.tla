---------------------------- MODULE RuntimeLease ----------------------------
(***************************************************************************)
(* The database leases of one extension                                    *)
(* (app/Support/Extensions/extension_database_runtime_lease*.go,           *)
(* protocol_database_lease.go).  A plugin that needs the database is given *)
(* a login role of its own for the life of its process: the lease is issued*)
(* before the process starts, renewed while it runs and revoked after it;  *)
(* a reaper retires what nobody came back for.                             *)
(*                                                                         *)
(* Every transaction takes the extension's lock and changes the row and the*)
(* role together, so the role is what the row's status says: it can log in *)
(* while the row is active or draining, it exists without login while its  *)
(* cleanup is pending, and it is dropped at the end.  A transaction may    *)
(* fail, or be committed while its caller sees an error; a renewal that was*)
(* cancelled may be settled later and holds the lock until then.           *)
(*                                                                         *)
(* Time passes in intervals of the heartbeat.  A loop that is scheduled    *)
(* beats once in each of them; a stalled one misses it.                    *)
(***************************************************************************)
EXTENDS Naturals, FiniteSets

CONSTANTS
    Leases,         \* one per start of a plugin process
    Reaper,         \* the periodic reaper, which is no start
    LeaseTTL,       \* intervals a lease lasts: 4 in the code
    MaxStart,       \* assumption: whole intervals in a start at most, two in the code's four
    MaxLive,        \* live leases of one extension: 8 in the code
    MaxLeaseFaults  \* bound: failing transactions, crashes and stalls

VARIABLES
    status,     \* each row, with the role that goes with it
    ttl,        \* intervals until the row, and the role's login, expire
    at,         \* what the host does about each lease
    known,      \* intervals until the expiry the host knows of
    synced,     \* leases whose revision the host knows
    beaten,     \* loops that have beaten in this interval
    inflight,   \* leases with a renewal that nobody waits for any more
    job,        \* a reconciliation: the reaper's, or the one before an issue
    stalled,    \* history: loops that have missed a beat
    leaseFaults

hosts == <<at, known, synced, beaten>>
rowVars == <<status, ttl, hosts, inflight, job, stalled, leaseFaults>>

Live == {"active", "draining"}
AwaitingCleanup == {"revokePending", "expiredPending"}
Retired == {"revoked", "expired"}
Actors == Leases \cup {Reaper}
NoJob == [at |-> "idle", todo |-> {}, failed |-> FALSE]

LeaseInit ==
    /\ status = [l \in Leases |-> "none"] /\ ttl = [l \in Leases |-> 0]
    /\ at = [l \in Leases |-> "none"] /\ known = [l \in Leases |-> 0]
    /\ synced = {} /\ beaten = {} /\ inflight = {} /\ stalled = {}
    /\ job = [a \in Actors |-> NoJob]
    /\ leaseFaults = 0

(* The extension's lock is taken by a renewal that is not settled.         *)
Free == inflight = {}
LeaseFault == leaseFaults < MaxLeaseFaults /\ leaseFaults' = leaseFaults + 1
NoLeaseFault == UNCHANGED leaseFaults
Set(f, l, value) == [f EXCEPT ![l] = value]
GoesTo(l, step) == at' = Set(at, l, step)

(* The process is gone, and its heartbeat with it.                         *)
ProcessEnds(l) ==
    /\ GoesTo(l, "inspect") /\ known' = Set(known, l, 0)
    /\ beaten' = beaten \ {l} /\ stalled' = stalled \ {l} /\ synced' = synced \ {l}

-----------------------------------------------------------------------------
(* Deliberately wrong variants, for checking that the properties notice: a *)
(* loop that tries until the lease is over, a reaper that only looks for   *)
(* what it has fenced itself.                                              *)
TriesToTheEnd(l) == known[l] = 0
OnlyExpired == {l \in Leases : status[l] = "expiredPending"}

-----------------------------------------------------------------------------
(* Reconciliation, by the reaper or before a lease is issued: fence what   *)
(* has expired, list what is pending, clean up one after the other.        *)
Expired == {l \in Leases : status[l] \in Live /\ ttl[l] = 0}
CleanupPending == {l \in Leases : status[l] \in AwaitingCleanup}

Fenced(S) == [l \in Leases |-> IF l \in S THEN "expiredPending" ELSE status[l]]
CleanedUp(l) ==
    CASE status[l] = "revokePending" -> "revoked"
      [] status[l] = "expiredPending" -> "expired"
      [] OTHER -> status[l]

ReaperWakes ==
    /\ job[Reaper].at = "idle" /\ Expired \cup CleanupPending # {}
    /\ job' = Set(job, Reaper, [NoJob EXCEPT !.at = "fence"])
    /\ UNCHANGED <<status, ttl, hosts, inflight, stalled, leaseFaults>>

(* The fence fails as a whole, or is committed and its answer lost: either *)
(* ends the reconciliation, and the start that asked for it.               *)
GiveUpJob(a) ==
    /\ job' = Set(job, a, NoJob)
    /\ at' = IF a = Reaper THEN at ELSE Set(at, a, "over")

FenceExpired(a) ==
    /\ job[a].at = "fence" /\ Free
    /\ \/ /\ status' = Fenced(Expired) /\ job' = Set(job, a, [NoJob EXCEPT !.at = "list"])
          /\ NoLeaseFault /\ UNCHANGED at
       \/ LeaseFault /\ status' \in {status, Fenced(Expired)} /\ GiveUpJob(a)
    /\ UNCHANGED <<ttl, known, synced, beaten, inflight, stalled>>

ListPending(a) ==
    /\ job[a].at = "list"
    /\ \/ /\ job' = Set(job, a, [NoJob EXCEPT !.at = "clean", !.todo = CleanupPending])
          /\ NoLeaseFault /\ UNCHANGED at
       \/ LeaseFault /\ GiveUpJob(a)
    /\ UNCHANGED <<status, ttl, known, synced, beaten, inflight, stalled>>

CleanUpListed(a, l) ==
    /\ job[a].at = "clean" /\ l \in job[a].todo /\ Free
    /\ \/ status' = Set(status, l, CleanedUp(l)) /\ NoLeaseFault
          /\ job' = [job EXCEPT ![a].todo = @ \ {l}]
       \/ /\ LeaseFault /\ status' \in {status, Set(status, l, CleanedUp(l))}
          /\ job' = [job EXCEPT ![a].todo = @ \ {l}, ![a].failed = TRUE]
    /\ UNCHANGED <<ttl, hosts, inflight, stalled>>

JobDone(a) ==
    /\ job[a].at = "clean" /\ job[a].todo = {}
    /\ job' = Set(job, a, NoJob)
    /\ at' = IF a = Reaper THEN at ELSE Set(at, a, IF job[a].failed THEN "over" ELSE "issue")
    /\ UNCHANGED <<status, ttl, known, synced, beaten, inflight, stalled, leaseFaults>>

-----------------------------------------------------------------------------
(* The start of a process: reconcile, issue, start; from here on the host  *)
(* has a process and a lease to take care of.                              *)
Start(l) ==
    /\ at[l] = "none"
    /\ GoesTo(l, "reconcile") /\ job' = Set(job, l, [NoJob EXCEPT !.at = "fence"])
    /\ UNCHANGED <<status, ttl, known, synced, beaten, inflight, stalled, leaseFaults>>

LiveLeases == {k \in Leases : status[k] \in Live}
MayIssue == CleanupPending = {} /\ Cardinality(LiveLeases) < MaxLive

(* The role and the row are made in one transaction.  When its answer is   *)
(* lost the start fails, and nobody but the reaper knows of the lease.     *)
Issued(l) == status' = Set(status, l, "active") /\ ttl' = Set(ttl, l, LeaseTTL)
IssueRuntimeLease(l) ==
    /\ at[l] = "issue" /\ Free
    /\ \/ /\ MayIssue /\ Issued(l) /\ NoLeaseFault
          /\ GoesTo(l, "starting") /\ known' = Set(known, l, LeaseTTL) /\ synced' = synced \cup {l}
       \/ /\ ~MayIssue /\ NoLeaseFault
          /\ GoesTo(l, "over") /\ UNCHANGED <<status, ttl, known, synced>>
       \/ /\ LeaseFault /\ ((MayIssue /\ Issued(l)) \/ UNCHANGED <<status, ttl>>)
          /\ GoesTo(l, "over") /\ UNCHANGED <<known, synced>>
    /\ UNCHANGED <<beaten, inflight, job, stalled>>

(* The heartbeat begins when the process has been started and retained;    *)
(* its first beat is an interval away.  A failed start revokes the lease.  *)
FinishStart(l) ==
    /\ at[l] = "starting"
    /\ \/ /\ GoesTo(l, "running") /\ beaten' = beaten \cup {l}
          /\ UNCHANGED <<known, synced, stalled>>
       \/ ProcessEnds(l)
    /\ UNCHANGED <<status, ttl, inflight, job, leaseFaults>>

-----------------------------------------------------------------------------
(* The renewal of a running process's lease.                               *)
Renewable(l) == status[l] = "active" /\ l \in synced /\ ttl[l] > 0
GivesUp(l) == known[l] <= 2

Renewed(l) == ttl' = Set(ttl, l, LeaseTTL)
Unanswered(l) == IF Free /\ Renewable(l) THEN {l} ELSE inflight

(* A conflict kills the process at once; another failure, which includes a *)
(* renewal nobody waits for any more, only when the next one may be late.  *)
SendHeartbeat(l) ==
    /\ at[l] = "running" /\ l \notin beaten
    /\ \/ /\ Free /\ Renewable(l) /\ Renewed(l) /\ NoLeaseFault
          /\ known' = Set(known, l, LeaseTTL) /\ beaten' = beaten \cup {l}
          /\ UNCHANGED <<at, synced, inflight, stalled>>
       \/ /\ Free /\ ~Renewable(l) /\ NoLeaseFault
          /\ ProcessEnds(l) /\ UNCHANGED <<ttl, inflight>>
       \/ /\ LeaseFault /\ (inflight' = Unanswered(l) \/ UNCHANGED inflight) /\ UNCHANGED ttl
          /\ IF GivesUp(l) THEN ProcessEnds(l)
             ELSE beaten' = beaten \cup {l} /\ UNCHANGED <<at, known, synced, stalled>>
    /\ UNCHANGED <<status, job>>

(* The database settles it: if it is committed, the host's revision is old.*)
SettleRenewal(l) ==
    /\ l \in inflight
    /\ inflight' = {}
    /\ \/ Renewed(l) /\ synced' = synced \ {l}
       \/ UNCHANGED <<ttl, synced>>
    /\ UNCHANGED <<status, at, known, beaten, job, stalled, leaseFaults>>

(* The process is stopped or exits: the heartbeat is cancelled, perhaps in *)
(* the middle of a renewal, and the lease is revoked.                      *)
StopProtocolInstance(l) ==
    /\ at[l] = "running" /\ ProcessEnds(l)
    /\ inflight' \in {inflight} \cup {Unanswered(k) : k \in {l} \ beaten}
    /\ UNCHANGED <<status, ttl, job, leaseFaults>>

-----------------------------------------------------------------------------
(* The revocation, one transaction after the other; it is not tried again. *)
(* What reads failed or revoked leaves the rest to whoever fenced it.      *)
InspectRuntimeLease(l) ==
    /\ at[l] = "inspect"
    /\ \/ /\ NoLeaseFault /\ synced' = synced \cup {l}
          /\ GoesTo(l, CASE status[l] = "active" -> "drain"
                       [] status[l] = "draining" -> "fence"
                       [] OTHER -> "over")
       \/ LeaseFault /\ GoesTo(l, "over") /\ UNCHANGED synced
    /\ UNCHANGED <<status, ttl, known, beaten, inflight, job, stalled>>

BegunDrain(l) == IF status[l] = "active" /\ l \in synced THEN "draining" ELSE status[l]
BeginRuntimeLeaseDrain(l) ==
    /\ at[l] = "drain" /\ Free
    /\ \/ /\ NoLeaseFault /\ status' = Set(status, l, BegunDrain(l))
          /\ GoesTo(l, IF BegunDrain(l) = "draining" THEN "fence" ELSE "over")
       \/ LeaseFault /\ status' \in {status, Set(status, l, BegunDrain(l))} /\ GoesTo(l, "over")
    /\ UNCHANGED <<ttl, known, synced, beaten, inflight, job, stalled>>

RevokeFenced(l) == IF status[l] \in Live THEN "revokePending" ELSE status[l]
FenceForRevoke(l) ==
    /\ at[l] = "fence" /\ Free
    /\ \/ /\ NoLeaseFault /\ status' = Set(status, l, RevokeFenced(l))
          /\ GoesTo(l, IF RevokeFenced(l) \in AwaitingCleanup THEN "cleanup" ELSE "over")
       \/ LeaseFault /\ status' \in {status, Set(status, l, RevokeFenced(l))} /\ GoesTo(l, "over")
    /\ UNCHANGED <<ttl, known, synced, beaten, inflight, job, stalled>>

CleanUpRevoked(l) ==
    /\ at[l] = "cleanup" /\ Free /\ GoesTo(l, "over")
    /\ \/ NoLeaseFault /\ status' = Set(status, l, CleanedUp(l))
       \/ LeaseFault /\ status' \in {status, Set(status, l, CleanedUp(l))}
    /\ UNCHANGED <<ttl, known, synced, beaten, inflight, job, stalled>>

-----------------------------------------------------------------------------
(* The host dies with what it was doing; the database settles what it sent.*)
HostDies(l) ==
    /\ LeaseFault /\ at[l] \notin {"none", "over", "gone"}
    /\ GoesTo(l, "gone") /\ job' = Set(job, l, NoJob) /\ known' = Set(known, l, 0)
    /\ beaten' = beaten \ {l} /\ stalled' = stalled \ {l} /\ synced' = synced \ {l}
    /\ UNCHANGED <<status, ttl, inflight>>

(* An interval passes.  A heartbeat that was due in it has been tried,     *)
(* unless the loop was stalled; no start and no commit takes longer than   *)
(* it may.                                                                 *)
Missed == {l \in Leases : at[l] = "running"} \ beaten
Later(f) == [l \in Leases |-> IF f[l] > 0 THEN f[l] - 1 ELSE 0]
Tick ==
    /\ inflight = {}
    /\ \A l \in Leases : at[l] = "starting" => LeaseTTL - ttl[l] < MaxStart
    /\ \E l \in Leases : at[l] = "running" \/ (status[l] \in Live /\ ttl[l] > 0)
    /\ IF Missed = {} THEN NoLeaseFault ELSE LeaseFault
    /\ stalled' = stalled \cup Missed
    /\ ttl' = Later(ttl) /\ known' = Later(known) /\ beaten' = {}
    /\ UNCHANGED <<status, at, synced, inflight, job>>

-----------------------------------------------------------------------------
JobStep(a) ==
    \/ FenceExpired(a) \/ ListPending(a) \/ JobDone(a)
    \/ \E l \in Leases : CleanUpListed(a, l)

RevokeStep(l) ==
    \/ InspectRuntimeLease(l) \/ BeginRuntimeLeaseDrain(l)
    \/ FenceForRevoke(l) \/ CleanUpRevoked(l)

(* What a host that lives, or the database after it, goes on with.         *)
HostStep(l) ==
    \/ JobStep(l) \/ IssueRuntimeLease(l) \/ FinishStart(l)
    \/ SendHeartbeat(l) \/ SettleRenewal(l) \/ RevokeStep(l)

ReaperStep == ReaperWakes \/ JobStep(Reaper)

RuntimeLeaseNext ==
    \/ ReaperStep \/ Tick
    \/ \E l \in Leases : Start(l) \/ HostStep(l) \/ StopProtocolInstance(l) \/ HostDies(l)

RuntimeLeaseSpec == LeaseInit /\ [][RuntimeLeaseNext]_rowVars

-----------------------------------------------------------------------------
Hosts == {"none", "reconcile", "issue", "starting", "running", "inspect", "drain", "fence",
          "cleanup", "over", "gone"}

(* Rows and roles have one of the seven states, at most one renewal is     *)
(* unsettled, and no more leases are live than an extension may have.      *)
LeaseTypes ==
    /\ status \in [Leases -> {"none"} \cup Live \cup AwaitingCleanup \cup Retired]
    /\ ttl \in [Leases -> 0..LeaseTTL] /\ known \in [Leases -> 0..LeaseTTL]
    /\ at \in [Leases -> Hosts]
    /\ synced \cup beaten \cup inflight \cup stalled \subseteq Leases
    /\ Cardinality(inflight) <= 1 /\ Cardinality(LiveLeases) <= MaxLive
    /\ \A a \in Actors : job[a].at \in {"idle", "fence", "list", "clean"}

(* A process whose heartbeat is scheduled runs only under a lease that is  *)
(* active and not expired: whatever renewals fail, are lost or committed   *)
(* late, it is killed before its role stops to log in                      *)
(* (protocol_database_lease.go, startHeartbeat); and rows, roles and       *)
(* processes keep to their states.                                         *)
KilledBeforeExpiry ==
    /\ LeaseTypes
    /\ \A l \in Leases : at[l] = "running" /\ l \notin stalled => status[l] = "active" /\ ttl[l] > 0

(* Neither outlives the other: a role nobody uses any more is retired,     *)
(* although its host died, its revocation failed half way or its issue was *)
(* never answered, and a process whose lease was fenced is ended.          *)
Unused(l) == at[l] \in {"over", "gone"} /\ status[l] \in Live \cup AwaitingCleanup
Orphaned(l) == at[l] = "running" /\ status[l] \in AwaitingCleanup \cup Retired
EndTogether ==
    \A l \in Leases : Unused(l) \/ Orphaned(l) ~> ~Unused(l) /\ ~Orphaned(l)
=============================================================================
