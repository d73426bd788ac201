---------------------------- MODULE MCHostServices ----------------------------
(* Services of the host that keep their state in Redis, for TLC, side by   *)
(* side: plugin routes with required replay, the plain idempotency         *)
(* middleware, and topic views.  They share no key; the initial state      *)
(* chooses which of them a behaviour is about, and the others stay as they *)
(* are.                                                                    *)
(*                                                                         *)
(* Requests with one key: three, for an owner that outlives its record, the*)
(* one that claims it next, and one that reads.  Views: two visits, so that*)
(* one comes while a run drains the other, and two runs that overlap.      *)
EXTENDS RequiredReplay, ViewCounter

CONSTANT PlainRequests

ASSUME PlainConstants == Nobody \notin PlainRequests

VARIABLES
    plainRec, plainEpoch, plainPc, plainClaimedAt, plainCached, plainReplayed,
    part

Plain == INSTANCE IdempotencyMiddleware WITH
    Requests <- PlainRequests, rec <- plainRec, epoch <- plainEpoch, pc <- plainPc,
    claimedAt <- plainClaimedAt, cached <- plainCached, replayed <- plainReplayed

plainVars == <<plainRec, plainEpoch, plainPc, plainClaimedAt, plainCached, plainReplayed>>
allVars == <<vars, plainVars, viewVars, part>>

(* Of three requests with two fingerprints at least two agree; which ones, *)
(* and on which fingerprint, makes no difference.                          *)
Odd == CHOOSE r \in Requests : TRUE
Common == CHOOSE f \in Fingerprints : TRUE

PartsInit ==
    /\ part \in {"replay", "plain", "views"}
    /\ ViewInit
    /\ Plain!Init
    /\ Init
    /\ \A r \in Requests : print[r] # Common => r = Odd /\ part = "replay"

ReplayPart == part = "replay" /\ UNCHANGED <<plainVars, viewVars, part>>
PlainPart == part = "plain" /\ UNCHANGED <<vars, viewVars, part>>
ViewPart == part = "views" /\ UNCHANGED <<vars, plainVars, part>>

PartsNext ==
    \/ ReplayPart /\ Next
    \/ PlainPart /\ Plain!Next
    \/ ViewPart /\ ViewNext

PartsFairness == \A w \in Workers : WF_allVars(ViewPart /\ FlushStep(w))

PartsSpec == PartsInit /\ [][PartsNext]_allVars /\ PartsFairness

(* Of the plain middleware (IdempotencyMiddleware), with the types of all  *)
(* records around a key.                                                   *)
SucceedsOncePerTTL == TypeOK /\ Plain!TypeOK /\ Plain!SucceedsOncePerTTL
=============================================================================
