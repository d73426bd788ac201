-------------------------- MODULE RuntimeAdmission --------------------------
(***************************************************************************)
(* The admission gate of one exact plugin process                          *)
(* (app/Support/ExtensionRuntime/admission.go).  Every call into a plugin  *)
(* holds a lease of the gate.  Draining closes the gate to ordinary calls, *)
(* lifecycle cleanup may still enter; quarantine makes the drain           *)
(* permanent; a forced cancellation closes the gate to everybody.  Drainers*)
(* wait on a channel that is replaced whenever the gate becomes busy and   *)
(* closed whenever it becomes idle.                                        *)
(*                                                                         *)
(* The mutex of the gate makes each method body one step, except where the *)
(* code leaves the lock: Wait loops over a locked check and an unlocked    *)
(* select, and Release cancels the lease context before it takes the lock. *)
(***************************************************************************)
EXTENDS Integers

CONSTANTS
    Calls,      \* leases that are ever asked for, each used once
    Waiters     \* callers of Wait

Ordinary == "ordinary"              \* the eleven classes the gate treats alike
Cleanup  == "lifecycle_cleanup"
Class    == {Ordinary, Cleanup}

VARIABLES
    draining, quarantined, forced,
    lease,      \* each call's lease: absent, held, leaving (Release called), gone
    class,      \* the class each lease was acquired with
    cancelled,  \* leases whose context has been cancelled
    idle,       \* number of the channel the gate holds in its idle field
    closed,     \* numbers of the channels that have been closed
    wait,       \* where each caller of Wait is
    waitChan,   \* the channel that caller took out of the gate
    sealed,     \* history: the gate has been draining ever since the Wait began
    drainAdmitted \* history: cleanup leases that entered a draining gate

gateVars == <<draining, quarantined, forced>>
leaseVars == <<lease, class, cancelled, idle, closed, drainAdmitted>>
waitVars == <<wait, waitChan, sealed>>
vars == <<gateVars, leaseVars, waitVars>>

LeaseState == {"absent", "held", "leaving", "gone"}
WaitState  == {"out", "check", "select", "drained", "timeout"}

Active == {c \in Calls : lease[c] \in {"held", "leaving"}}
ActiveOrdinary == {c \in Active : class[c] = Ordinary}
ActiveCleanup == {c \in Active : class[c] = Cleanup}

Init ==
    /\ draining = FALSE /\ quarantined = FALSE /\ forced = FALSE
    /\ lease = [c \in Calls |-> "absent"]
    /\ class = [c \in Calls |-> Ordinary]
    /\ cancelled = {}
    /\ idle = 0 /\ closed = {0}
    /\ wait = [w \in Waiters |-> "out"]
    /\ waitChan = [w \in Waiters |-> 0]
    /\ sealed = [w \in Waiters |-> FALSE]
    /\ drainAdmitted = {}

-----------------------------------------------------------------------------
(* Deliberately wrong variants, for checking that the properties notice:   *)
(* draining ignored, force ignored for cleanup, a channel per call, a drain*)
(* undone under a running cleanup, an idle channel never closed.           *)
AdmitsWhileDraining(k) == ~forced /\ (quarantined => k = Cleanup)
AdmitsCleanupAfterForce(k) == forced \/ quarantined \/ draining => k = Cleanup
ChannelPerCall == idle + 1
ResumableUnderCleanup == ~forced /\ ~quarantined
ClosedNever(c) == closed

(* What Acquire lets in.                                                   *)
Admits(k) ==
    /\ ~forced
    /\ quarantined => k = Cleanup
    /\ draining => k = Cleanup

(* An Acquire into an idle gate makes the gate a new channel.              *)
IdleChannel == IF Active = {} THEN idle + 1 ELSE idle

(* The last release closes it.                                             *)
ClosedAfter(c) == IF Active = {c} THEN closed \cup {idle} ELSE closed

(* When a drain may be undone.                                             *)
Resumable == ~forced /\ ~quarantined /\ ActiveCleanup = {}

Acquire(c, k) ==
    /\ lease[c] = "absent"
    /\ Admits(k)
    /\ lease' = [lease EXCEPT ![c] = "held"]
    /\ class' = [class EXCEPT ![c] = k]
    /\ idle' = IdleChannel
    /\ drainAdmitted' = IF draining THEN drainAdmitted \cup {c} ELSE drainAdmitted
    /\ UNCHANGED <<gateVars, cancelled, closed, waitVars>>

(* The caller's own context ends: the lease is still held.                 *)
ParentCancelled(c) ==
    /\ lease[c] = "held"
    /\ cancelled' = cancelled \cup {c}
    /\ UNCHANGED <<gateVars, lease, class, idle, closed, drainAdmitted, waitVars>>

(* Release, first half: the lease cancels its context outside the lock.    *)
ReleaseBegin(c) ==
    /\ lease[c] = "held"
    /\ lease' = [lease EXCEPT ![c] = "leaving"]
    /\ cancelled' = cancelled \cup {c}
    /\ UNCHANGED <<gateVars, class, idle, closed, drainAdmitted, waitVars>>

(* Release, second half: leave the active set, close the channel if last.  *)
ReleaseEnd(c) ==
    /\ lease[c] = "leaving"
    /\ lease' = [lease EXCEPT ![c] = "gone"]
    /\ closed' = ClosedAfter(c)
    /\ UNCHANGED <<gateVars, class, cancelled, idle, drainAdmitted, waitVars>>

BeginDrain ==
    /\ draining' = TRUE
    /\ UNCHANGED <<quarantined, forced, leaseVars, waitVars>>

Quarantine ==
    /\ quarantined' = TRUE
    /\ draining' = TRUE
    /\ UNCHANGED <<forced, leaseVars, waitVars>>

Resume ==
    /\ Resumable
    /\ draining' = FALSE
    /\ sealed' = [w \in Waiters |-> FALSE]
    /\ UNCHANGED <<quarantined, forced, leaseVars, wait, waitChan>>

ForceCancel ==
    /\ ~forced
    /\ draining' = TRUE
    /\ forced' = TRUE
    /\ cancelled' = cancelled \cup Active
    /\ UNCHANGED <<quarantined, lease, class, idle, closed, drainAdmitted, waitVars>>

WaitBegin(w) ==
    /\ wait[w] = "out"
    /\ wait' = [wait EXCEPT ![w] = "check"]
    /\ sealed' = [sealed EXCEPT ![w] = draining]
    /\ UNCHANGED <<gateVars, leaseVars, waitChan>>

(* The locked half of one turn of Wait's loop.                             *)
WaitCheck(w) ==
    /\ wait[w] = "check"
    /\ IF Active = {}
       THEN /\ wait' = [wait EXCEPT ![w] = "drained"]
            /\ UNCHANGED waitChan
       ELSE /\ wait' = [wait EXCEPT ![w] = "select"]
            /\ waitChan' = [waitChan EXCEPT ![w] = idle]
    /\ UNCHANGED <<gateVars, leaseVars, sealed>>

WaitWoken(w) ==
    /\ wait[w] = "select"
    /\ waitChan[w] \in closed
    /\ wait' = [wait EXCEPT ![w] = "check"]
    /\ UNCHANGED <<gateVars, leaseVars, waitChan, sealed>>

WaitTimeout(w) ==
    /\ wait[w] = "select"
    /\ wait' = [wait EXCEPT ![w] = "timeout"]
    /\ UNCHANGED <<gateVars, leaseVars, waitChan, sealed>>

LeaseNext(c) ==
    \/ \E k \in Class : Acquire(c, k)
    \/ ParentCancelled(c)
    \/ ReleaseBegin(c)
    \/ ReleaseEnd(c)

WaitNext(w) ==
    \/ WaitBegin(w)
    \/ WaitCheck(w)
    \/ WaitWoken(w)
    \/ WaitTimeout(w)

Next ==
    \/ \E c \in Calls : LeaseNext(c)
    \/ \E w \in Waiters : WaitNext(w)
    \/ BeginDrain
    \/ Quarantine
    \/ Resume
    \/ ForceCancel

Spec == Init /\ [][Next]_vars

(* Every holder of a lease returns and releases it (callers defer Release),*)
(* and a goroutine inside Wait is scheduled.  Nobody has to close the gate,*)
(* open it, or time out.                                                   *)
Fairness ==
    /\ \A c \in Calls : WF_vars(ReleaseBegin(c)) /\ WF_vars(ReleaseEnd(c))
    /\ \A w \in Waiters : WF_vars(WaitCheck(w)) /\ WF_vars(WaitWoken(w))

FairSpec == Spec /\ Fairness

-----------------------------------------------------------------------------
FieldTypes ==
    /\ draining \in BOOLEAN /\ quarantined \in BOOLEAN /\ forced \in BOOLEAN
    /\ lease \in [Calls -> LeaseState]
    /\ class \in [Calls -> Class]
    /\ cancelled \subseteq Calls
    /\ idle \in Nat
    /\ closed \subseteq Nat
    /\ wait \in [Waiters -> WaitState]
    /\ waitChan \in [Waiters -> Nat]
    /\ sealed \in [Waiters -> BOOLEAN]
    /\ drainAdmitted \subseteq Calls

DrainAdmittedOK ==
    \A c \in drainAdmitted : lease[c] # "absent" /\ class[c] = Cleanup

(* The values the fields of the gate, its leases and its waiters range     *)
(* over; the calls let into a draining gate are cleanup calls.             *)
TypeOK == FieldTypes /\ DrainAdmittedOK

(* A Wait that began on a draining gate and returned nil really drained it: *)
(* unless the gate was resumed since, no ordinary call is inside, whatever  *)
(* callers raced BeginDrain and whatever cleanup entered afterwards.        *)
DrainedIsQuiet ==
    \A w \in Waiters : wait[w] = "drained" /\ sealed[w] => ActiveOrdinary = {}

(* The channel of an idle gate is closed and that of a busy one is open, so *)
(* release never closes a channel twice (which would panic), and a waiter   *)
(* still blocked when the gate is idle holds a channel that was closed: the *)
(* replacement of the channel by a later Acquire strands nobody.            *)
NoLostWakeup ==
    /\ (Active = {}) <=> (idle \in closed)
    /\ \A w \in Waiters :
         wait[w] = "select" => waitChan[w] = idle \/ waitChan[w] \in closed

(* A force-cancelled gate has told every call inside to stop, including the *)
(* cleanup calls a drain lets in: none entered after the cancellation.      *)
ForcedReachesEveryCall == forced => Active \subseteq cancelled

(* Quarantine and forced cancellation cannot be undone: the gate stays      *)
(* closed, and cleanup that entered a draining gate runs to its end before  *)
(* any compensation may reopen the gate to ordinary calls.                  *)
ClosedStaysClosed ==
    /\ quarantined \/ forced => draining
    /\ Active \cap drainAdmitted # {} => draining

(* Once calls stop entering (the bound on Calls stands for that), a Wait    *)
(* returns or times out; it is never left asleep on a gate that went idle.  *)
WaitReturns ==
    \A w \in Waiters : wait[w] \in {"check", "select"} ~> wait[w] \in {"drained", "timeout"}
=============================================================================
