----------------------------- MODULE ViewCounter -----------------------------
(***************************************************************************)
(* Topic views: counted in Redis by three commands per visit, and moved to *)
(* the database by a periodic job (app/Models/Forum/view_counter.go,       *)
(* app/Jobs/Forum/flush_view_counts.go,                                    *)
(* postgres_store_topic_queries.go).  Every command is a step of its own   *)
(* and may fail, executed or not; two runs of the job may overlap, because *)
(* it is not unique and its queue has two workers, and a run may die.      *)
(* A failed run is retried by the queue, which is one more run.  Two runs  *)
(* that both GET a topic before either has taken it off both show it.      *)
(***************************************************************************)
EXTENDS Integers, FiniteSets

CONSTANTS
    Topics,
    Visitors,
    Visits,     \* page views, each made once
    Workers,    \* workers of the maintenance queue
    MaxFaults   \* failures and deaths that TLC looks at

ASSUME ViewConstants == IsFiniteSet(Workers)

VARIABLES
    viewed,     \* the visitor keys, <<topic, visitor>>, which expire
    delta,      \* the increments of each topic (an absent key is 0)
    dirty,      \* the set of topics to flush
    visit,      \* each page view: how far it has come
    flush,      \* each worker: what its run of the job is doing
    viewCount,  \* topics.view_count
    counted,    \* history: increments made per topic
    perKey,     \* history: increments made per visitor key since it was set
    shown,      \* history: each worker's runs, what they have applied per topic
    raced,      \* history: topics that two runs held between GET and DECRBY at once
    faults      \* commands that have failed and runs that have died

redisVars == <<viewed, delta, dirty>>
historyVars == <<counted, perKey, shown, raced, faults>>
viewVars == <<redisVars, visit, flush, viewCount, historyVars>>

Keys == Topics \X Visitors
Nothing == [t \in Topics |-> 0]   \* a result without a topic
NoRun == [step |-> "idle", todo |-> {}, out |-> Nothing]

ViewInit ==
    /\ viewed = {} /\ dirty = {}
    /\ delta = [t \in Topics |-> 0] /\ viewCount = [t \in Topics |-> 0]
    /\ visit = [v \in Visits |-> [step |-> "absent"]]
    /\ flush = [w \in Workers |-> NoRun]
    /\ counted = [t \in Topics |-> 0]
    /\ perKey = [k \in Keys |-> 0]
    /\ shown = [w \in Workers |-> Nothing] /\ raced = {}
    /\ faults = 0

-----------------------------------------------------------------------------
(* Deliberately wrong variants, for checking that the properties notice: an*)
(* amount that is read and never taken off, a mark that is never cleared.  *)
LeavesDelta(t, n) == delta[t]
KeepsMark(t) == dirty

(* SETNX of the visitor key: the first visit of its lifetime is counted.   *)
FirstVisit(key) == key \notin viewed

(* DECRBY of what was read; what came since is left.                       *)
LeftAfter(t, n) == delta[t] - n

(* GET of a missing key is 0, and so is the value of a GET that failed.    *)
NothingRead(n) == n <= 0

(* SREM of the topic.                                                      *)
Unmarked(t) == dirty \ {t}

Fault == faults < MaxFaults /\ faults' = faults + 1

(* RecordView.  A command fails before it was executed or after; either way*)
(* the visit returns without the commands that would follow.               *)
MarkVisitor(v, t, u) ==
    LET key == <<t, u>> IN
    /\ visit[v].step = "absent"
    /\ viewed' = viewed \cup {key}
    /\ IF FirstVisit(key)
       THEN /\ perKey' = [perKey EXCEPT ![key] = 0]
            /\ visit' = [visit EXCEPT ![v] = [step |-> "incr", topic |-> t, visitor |-> u]]
       ELSE /\ visit' = [visit EXCEPT ![v] = [step |-> "done"]]
            /\ UNCHANGED perKey
    /\ UNCHANGED <<delta, dirty, flush, viewCount, counted, shown, raced, faults>>

CountVisit(v) ==
    LET t == visit[v].topic IN
    /\ visit[v].step = "incr"
    /\ delta' = [delta EXCEPT ![t] = @ + 1]
    /\ counted' = [counted EXCEPT ![t] = @ + 1]
    /\ perKey' = [perKey EXCEPT ![<<t, visit[v].visitor>>] = @ + 1]
    /\ visit' = [visit EXCEPT ![v].step = "sadd"]
    /\ UNCHANGED <<viewed, dirty, flush, viewCount, shown, raced, faults>>

MarkDirty(v) ==
    /\ visit[v].step = "sadd"
    /\ dirty' = dirty \cup {visit[v].topic}
    /\ visit' = [visit EXCEPT ![v] = [step |-> "done"]]
    /\ UNCHANGED <<viewed, delta, flush, viewCount, historyVars>>

VisitFails(v) ==
    /\ visit[v].step \in {"incr", "sadd"}
    /\ Fault
    /\ visit' = [visit EXCEPT ![v] = [step |-> "done"]]
    /\ UNCHANGED <<redisVars, flush, viewCount, counted, perKey, shown, raced>>

(* A visitor key runs out after thirty minutes, long after the request that*)
(* set it has ended.                                                       *)
ExpireVisitor(key) ==
    /\ key \in viewed
    /\ \A v \in Visits : visit[v].step = "incr" => key # <<visit[v].topic, visit[v].visitor>>
    /\ viewed' = viewed \ {key}
    /\ UNCHANGED <<delta, dirty, visit, flush, viewCount, historyVars>>

-----------------------------------------------------------------------------
(* DrainDeltas: SMEMBERS, then topic by topic.                             *)
DrainBegin(w) ==
    /\ flush[w] = NoRun
    /\ flush' = [flush EXCEPT ![w] = [step |-> "next", todo |-> dirty, out |-> Nothing]]
    /\ UNCHANGED <<redisVars, visit, viewCount, historyVars>>

(* The run goes on with a step of topic t, or with the next topic.         *)
At(w, step, t, n, out) ==
    IF step = "next" THEN [step |-> step, todo |-> flush[w].todo, out |-> out]
    ELSE [step |-> step, todo |-> flush[w].todo \ {t}, topic |-> t, n |-> n, out |-> out]

(* Whether a run is between the GET of topic t and its DECRBY.             *)
Holds(w, t) == flush[w].step = "take" /\ flush[w].topic = t

(* GET.  Its failure is told from an empty key only after both have been   *)
(* treated alike, so a failed GET has the key deleted as well.             *)
DrainRead(w, t, ok) ==
    LET n == IF ok THEN delta[t] ELSE 0
    IN  /\ flush[w].step = "next" /\ t \in flush[w].todo
        /\ IF ok THEN UNCHANGED faults ELSE Fault
        /\ flush' = [flush EXCEPT ![w] = At(w, IF NothingRead(n) THEN "unmark" ELSE "take", t, n, flush[w].out)]
        /\ raced' = IF ~NothingRead(n) /\ \E other \in Workers : Holds(other, t)
                    THEN raced \cup {t} ELSE raced
        /\ UNCHANGED <<redisVars, visit, viewCount, counted, perKey, shown>>

(* DECRBY of a topic with something to flush: then it is in the result, and*)
(* the key and the mark go if nothing seems left.                          *)
DrainTake(w) ==
    LET t == flush[w].topic
        n == flush[w].n
        left == LeftAfter(t, n)
    IN  /\ flush[w].step = "take"
        /\ delta' = [delta EXCEPT ![t] = left]
        /\ flush' = [flush EXCEPT ![w] = At(w, IF left <= 0 THEN "delete" ELSE "next", t, n,
                                           [flush[w].out EXCEPT ![t] = n])]
        /\ UNCHANGED <<viewed, dirty, visit, viewCount, historyVars>>

(* An empty topic loses its mark and then its key; a topic just taken loses*)
(* its key and then its mark.  Neither command's failure is noticed.       *)
DrainClear(w, ok) ==
    LET t == flush[w].topic
        taken == flush[w].out[t] > 0
    IN  /\ flush[w].step \in {"unmark", "delete"}
        /\ IF ok THEN UNCHANGED faults ELSE Fault
        /\ dirty' = IF ok /\ flush[w].step = "unmark" THEN Unmarked(t) ELSE dirty
        /\ delta' = IF ok /\ flush[w].step = "delete" THEN [delta EXCEPT ![t] = 0] ELSE delta
        /\ flush' = [flush EXCEPT ![w] =
                       At(w, CASE flush[w].step = "unmark" /\ ~taken -> "delete"
                               [] flush[w].step = "delete" /\ taken  -> "unmark"
                               [] OTHER -> "next", t, flush[w].n, flush[w].out)]
        /\ UNCHANGED <<viewed, visit, viewCount, counted, perKey, shown, raced>>

(* Work: an empty result ends the run, any other goes to the database.     *)
DrainEnd(w) ==
    /\ flush[w].step = "next" /\ flush[w].todo = {}
    /\ flush' = [flush EXCEPT ![w] = IF @.out = Nothing THEN NoRun
                                      ELSE [step |-> "apply", todo |-> {}, out |-> @.out]]
    /\ UNCHANGED <<redisVars, visit, viewCount, historyVars>>

(* ApplyViewCountDeltas: one statement per topic.                          *)
Apply(w, t) ==
    LET rest == [flush[w].out EXCEPT ![t] = 0]
    IN  /\ flush[w].step = "apply" /\ flush[w].out[t] > 0
        /\ viewCount' = [viewCount EXCEPT ![t] = @ + flush[w].out[t]]
        /\ shown' = [shown EXCEPT ![w][t] = @ + flush[w].out[t]]
        /\ flush' = [flush EXCEPT ![w] = IF rest = Nothing THEN NoRun
                                      ELSE [step |-> "apply", todo |-> {}, out |-> rest]]
        /\ UNCHANGED <<redisVars, visit, counted, perKey, raced, faults>>

(* SMEMBERS, DECRBY or an update fails and ends the run, or the worker     *)
(* dies: what it has drained and not applied is gone.                      *)
RunFails(w) ==
    /\ flush[w] # NoRun
    /\ Fault
    /\ flush' = [flush EXCEPT ![w] = NoRun]
    /\ UNCHANGED <<redisVars, visit, viewCount, counted, perKey, shown, raced>>

FlushStep(w) ==
    \/ DrainBegin(w)
    \/ \E t \in Topics : DrainRead(w, t, TRUE)
    \/ DrainTake(w)
    \/ DrainClear(w, TRUE)
    \/ DrainEnd(w)
    \/ \E t \in Topics : Apply(w, t)

FlushFault(w) ==
    \/ \E t \in Topics : DrainRead(w, t, FALSE)
    \/ DrainClear(w, FALSE)
    \/ RunFails(w)

VisitStep(v) ==
    \/ \E t \in Topics, u \in Visitors : MarkVisitor(v, t, u)
    \/ CountVisit(v)
    \/ MarkDirty(v)
    \/ VisitFails(v)

ViewNext ==
    \/ \E v \in Visits : VisitStep(v)
    \/ \E w \in Workers : FlushStep(w) \/ FlushFault(w)
    \/ \E key \in viewed : ExpireVisitor(key)

(* The job is periodic and a worker goes on with the run it has.           *)
ViewFairness == \A w \in Workers : WF_viewVars(FlushStep(w))

ViewSpec == ViewInit /\ [][ViewNext]_viewVars /\ ViewFairness

-----------------------------------------------------------------------------
(* The views of a topic that runs have taken off its key and not applied:  *)
(* each worker's are numbered from one.                                    *)
Taken(t) == UNION {{w} \X (1..flush[w].out[t]) : w \in Workers}
InFlight(t) == Cardinality(Taken(t))

(* The views that are still on a topic's key.  Below nothing there are     *)
(* none: it is left so by a DECRBY of what another run had taken before.   *)
Waiting(t) == IF delta[t] > 0 THEN delta[t] ELSE 0

(* What a run has drained and what it is working on are topics; the        *)
(* counters of the database never shrink below nothing.                    *)
ViewTypes ==
    /\ viewed \subseteq Keys /\ dirty \subseteq Topics
    /\ \A t \in Topics : delta[t] \in Int /\ viewCount[t] \in Nat
    /\ \A v \in Visits : visit[v].step \in {"absent", "incr", "sadd", "done"}
    /\ \A w \in Workers :
         /\ flush[w].step \in {"idle", "next", "take", "unmark", "delete", "apply"}
         /\ flush[w].todo \subseteq Topics
         /\ flush[w].out \in [Topics -> Nat]
         /\ shown[w] \in [Topics -> Nat]

(* A view is shown at most once by the runs of one worker, whatever        *)
(* overlaps, fails or dies: what they have shown of a topic, what the run  *)
(* has taken and what it may still take from the key were counted.         *)
OncePerWorker(t) ==
    \A w \in Workers : shown[w][t] + flush[w].out[t] + Waiting(t) <= counted[t]

(* It is shown at most once by all of them unless two runs held the topic  *)
(* between GET and DECRBY at once: only then do both take the same views.  *)
(* Runs that overlap in any other way take each view once.                 *)
OnceUnlessRaced(t) ==
    t \notin raced => viewCount[t] + InFlight(t) + Waiting(t) <= counted[t]

(* How often a view is shown: once, except for that race, and even with it *)
(* never more often than there are workers; and of the requests of one     *)
(* visitor one is counted in the life of the visitor's key.                *)
ShownAsOftenAsTaken ==
    /\ ViewTypes
    /\ \A t \in Topics :
         /\ OncePerWorker(t) /\ OnceUnlessRaced(t)
         /\ viewCount[t] + InFlight(t) <= Cardinality(Workers) * counted[t]
    /\ \A key \in Keys : perKey[key] <= 1

(* No topic stays marked for ever: whatever fails, overlaps or dies on the *)
(* way, a later run takes its key down to nothing and clears the mark.     *)
MarkIsCleared == \A t \in Topics : t \in dirty ~> t \notin dirty

=============================================================================
