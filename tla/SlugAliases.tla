------------------------------ MODULE SlugAliases ------------------------------
(***************************************************************************)
(* The old slugs of renamed services: carta_service_slug_aliases, the      *)
(* syncs that write it (persistSlugAliases and the redirects fetchDetails  *)
(* finds) and what GET /services/{slug} makes of it.  UpsertSlugAlias is   *)
(* two statements outside a transaction, and the writers, attempts of the  *)
(* webhook and syncs of any process, interleave between any two of them.   *)
(*                                                                         *)
(* What a writer learnt from the Carta, its facts, is arbitrary: the reads *)
(* of concurrent writers may be old and contradict each other.             *)
(***************************************************************************)
EXTENDS Naturals, FiniteSets

CONSTANTS
    Slugs,      \* slugs of services, old and new
    Writers,    \* SyncRecord and runSync wherever they run
    MaxJobs,    \* bounds the syncs of services
    MaxHistory, \* bounds the length of slugHistory
    MaxFaults,  \* bounds failed statements and crashes
    None        \* no alias

ASSUME NoneAssumption == None \notin Slugs

\* A redirect is followed for as long as a page has slugs to lead through.
ASSUME SlugsAssumption == IsFiniteSet(Slugs)

VARIABLES
    alias,   \* old_slug |-> canonical_slug, None when there is no row
    active,  \* the slugs with an active catalogue row
    job,     \* the service each writer is synchronising
    jobs,    \* syncs of services so far
    faults,  \* faults so far
    lost,    \* history: canonical slugs whose DELETE after an INSERT was lost
    calm     \* history: the writer that has run alone and without faults

vars == <<alias, active, job, jobs, faults, lost, calm>>

\* record: SyncRecord, otherwise one detail of runSync.  asked is the slug that was
\* asked for, canon the one the Carta answered with, todo what is left of history.
\* promoting: the INSERT of UpsertSlugAlias is done, its DELETE is not.  served are
\* the slugs that led to a page when a SyncRecord began with no other writer running;
\* none are when the article turns out to be a draft or inactive.
Phase == {"idle", "redirect", "upsert", "clean", "requested", "history", "unlink"}
Job == [phase : Phase, record : BOOLEAN, asked : Slugs \union {None},
        canon : Slugs \union {None}, history : SUBSET Slugs, todo : SUBSET Slugs,
        promoting : BOOLEAN, served : SUBSET Slugs]

\* No row redirects to itself, not even between the statements of UpsertSlugAlias.
TypeOK ==
    /\ alias \in [Slugs -> Slugs \union {None}]
    /\ \A s \in Slugs : alias[s] # s
    /\ active \subseteq Slugs
    /\ job \in [Writers -> Job]
    /\ \A p \in Writers : job[p].phase # "idle" => job[p].asked \in Slugs /\ job[p].canon \in Slugs
    /\ jobs \in Nat
    /\ faults \in Nat
    /\ lost \subseteq Slugs
    /\ calm \subseteq Writers

NoJob == [phase |-> "idle", record |-> FALSE, asked |-> None, canon |-> None,
          history |-> {}, todo |-> {}, promoting |-> FALSE, served |-> {}]

Init ==
    /\ alias = [s \in Slugs |-> None]
    /\ active \in SUBSET Slugs
    /\ job = [p \in Writers |-> NoJob]
    /\ jobs = 0
    /\ faults = 0
    /\ lost = {}
    /\ calm = {}

-----------------------------------------------------------------------------
(* GetServiceDetail: an active row, or a redirect to the canonical slug.   *)

Redirects(s) == s \notin active /\ alias[s] \notin {None, s}

\* The slugs that lead to a page in at most n requests after the first.
Within[n \in Nat] ==
    IF n = 0 THEN active
    ELSE Within[n - 1] \union {s \in Slugs : Redirects(s) /\ alias[s] \in Within[n - 1]}

Served == {s \in Slugs : s \in Within[Cardinality(Slugs)]}

-----------------------------------------------------------------------------
Goto(p, record) == job' = [job EXCEPT ![p] = record]

Insert(old, canon) ==
    /\ alias' = [alias EXCEPT ![old] = canon]
    /\ lost' = lost \ {old}

Delete(old) ==
    /\ alias' = [alias EXCEPT ![old] = None]
    /\ lost' = lost \ {old}

Fault ==
    /\ faults < MaxFaults
    /\ faults' = faults + 1
    /\ calm' = {}

\* Where a writer goes on: only SyncRecord was asked for a slug of its own choice,
\* and a service without slugHistory has no last DELETE.
\* Mutant of AfterRequested: slugHistory is not persisted.
ForgetsHistory(j) == "unlink"

AfterRequested(j) == IF j.history = {} THEN "unlink" ELSE "history"

\* Mutant of AfterClean: the slug that redirected is not persisted.
ForgetsRequested(j) == AfterRequested(j)

AfterClean(j) == IF j.record /\ j.asked # j.canon THEN "requested" ELSE AfterRequested(j)

\* A service of the listing, or the slug of a webhook event, was read.
Begin(p, record, asked, canon, history) ==
    /\ jobs < MaxJobs
    /\ job[p].phase = "idle"
    /\ Cardinality(history) <= MaxHistory
    /\ jobs' = jobs + 1
    /\ calm' = IF \A q \in Writers : job[q].phase = "idle" THEN {p} ELSE {}
    /\ Goto(p, [NoJob EXCEPT
                  !.phase = IF ~record /\ asked # canon THEN "redirect" ELSE "upsert",
                  !.record = record, !.asked = asked, !.canon = canon,
                  !.history = history, !.todo = history,
                  !.served = IF record /\ p \in calm' THEN Served ELSE {}])
    /\ UNCHANGED <<alias, active, faults, lost>>

\* The canonical row is written with the status of the article: active again if it was
\* deleted, or hidden as a draft or an inactive one.
Upsert(p) ==
    /\ job[p].phase = "upsert"
    /\ \E shown \in BOOLEAN :
         /\ active' = IF shown THEN active \union {job[p].canon} ELSE active \ {job[p].canon}
         /\ Goto(p, [job[p] EXCEPT !.phase = "clean", !.served = IF shown THEN @ ELSE {}])
    /\ UNCHANGED <<alias, jobs, faults, lost, calm>>

\* DeleteSlugAlias of the canonical slug opens persistSlugAliases.
Clean(p) ==
    /\ job[p].phase = "clean"
    /\ Delete(job[p].canon)
    /\ Goto(p, [job[p] EXCEPT !.phase = AfterClean(job[p])])
    /\ UNCHANGED <<active, jobs, faults, calm>>

\* Mutant of ToLink: a slug that is in its own slugHistory is not skipped.
ToLinkItself(j) ==
    CASE j.phase \in {"redirect", "requested"} -> {j.asked}
      [] j.phase = "history" -> j.todo
      [] OTHER -> {}

\* UpsertSlugAlias, first statement: the redirect of the listing, the slug that was
\* asked for, or one of slugHistory.
ToLink(j) ==
    CASE j.phase \in {"redirect", "requested"} -> {j.asked}
      [] j.phase = "history" -> j.todo \ {j.canon}
      [] OTHER -> {}

AfterPromote(j) ==
    CASE j.phase = "redirect"  -> "upsert"
      [] j.phase = "requested" -> AfterRequested(j)
      [] OTHER                 -> "history"

\* Mutant of LinkFirst: the DELETE is left out, Clean has done it before.
LinkOnly(p, old) ==
    /\ Insert(old, job[p].canon)
    /\ Goto(p, [job[p] EXCEPT !.todo = @ \ {old},
                              !.phase = AfterPromote(job[p])])

LinkFirst(p, old) ==
    /\ Insert(old, job[p].canon)
    /\ Goto(p, [job[p] EXCEPT !.todo = @ \ {old}, !.promoting = TRUE])

Link(p, old) ==
    /\ ~job[p].promoting
    /\ old \in ToLink(job[p])
    /\ LinkFirst(p, old)
    /\ UNCHANGED <<active, jobs, faults, calm>>

\* Second statement: the canonical slug is no alias.
Promote(p) ==
    /\ job[p].promoting
    /\ Delete(job[p].canon)
    /\ Goto(p, [job[p] EXCEPT !.promoting = FALSE, !.phase = AfterPromote(job[p])])
    /\ UNCHANGED <<active, jobs, faults, calm>>

\* UpsertSlugAliases ends with one more DELETE.
Last(p) ==
    /\ job[p].phase = "history"
    /\ ~job[p].promoting
    /\ job[p].todo \subseteq {job[p].canon}
    /\ Delete(job[p].canon)
    /\ Goto(p, [job[p] EXCEPT !.phase = "unlink"])
    /\ UNCHANGED <<active, jobs, faults, calm>>

\* SyncRecord soft-deletes the slug that redirected; runSync has nothing left to do
\* for this service.
Unlink(p) ==
    /\ job[p].phase = "unlink"
    /\ active' = IF job[p].record /\ job[p].asked # job[p].canon
                 THEN active \ {job[p].asked} ELSE active
    /\ Goto(p, NoJob)
    /\ calm' = calm \ {p}
    /\ UNCHANGED <<alias, jobs, faults, lost>>

\* A statement about aliases fails: it is logged and the writer goes on, after a
\* failure in slugHistory without the rest of it.
Skipped(j) ==
    CASE j.phase = "redirect"  -> "upsert"
      [] j.phase = "clean"     -> AfterClean(j)
      [] j.phase = "requested" -> AfterRequested(j)
      [] OTHER                 -> "unlink"

\* The canonical slug may be left an alias.
Abandoned(j) == IF j.promoting THEN {j.canon} ELSE {}

AliasFails(p) ==
    /\ job[p].phase \in {"redirect", "clean", "requested", "history"}
    /\ Fault
    /\ lost' = lost \union Abandoned(job[p])
    /\ Goto(p, [job[p] EXCEPT !.promoting = FALSE, !.phase = Skipped(job[p])])
    /\ UNCHANGED <<alias, active, jobs>>

\* The upsert or the soft delete fails, or the process stops: the rest is not done.
Stop(p) ==
    /\ job[p].phase # "idle"
    /\ Fault
    /\ lost' = lost \union Abandoned(job[p])
    /\ Goto(p, NoJob)
    /\ UNCHANGED <<alias, active, jobs>>

\* A row goes inactive: an orphan of a sync, or 404 for the slug of an event.
SoftDelete(s) ==
    /\ active' = active \ {s}
    /\ calm' = {}
    /\ UNCHANGED <<alias, job, jobs, faults, lost>>

-----------------------------------------------------------------------------
Next ==
    \/ \E p \in Writers :
        \/ \E record \in BOOLEAN, asked, canon \in Slugs, history \in SUBSET Slugs :
             Begin(p, record, asked, canon, history)
        \/ Upsert(p) \/ Clean(p) \/ Promote(p) \/ Last(p) \/ Unlink(p)
        \/ \E old \in Slugs : Link(p, old)
        \/ AliasFails(p) \/ Stop(p)
    \/ \E s \in Slugs : SoftDelete(s)

Spec == Init /\ [][Next]_vars

-----------------------------------------------------------------------------
(* Properties.                                                             *)

\* A slug whose own alias is about to be deleted, or whose DELETE was lost.
Excused(s) == s \in lost \/ \E p \in Writers : job[p].promoting /\ job[p].canon = s

\* Aliases never lead in a circle, however writers with contradicting facts
\* interleave: UpsertSlugAlias removes the alias of the canonical slug after it
\* wrote the new one ("evita ciclo").  In a circle some slug is one whose DELETE is
\* still to come, or was lost.
NoRedirectCycle ==
    \A circle \in SUBSET Slugs :
        (circle # {} /\ \A s \in circle : alias[s] \in circle)
        => \E s \in circle : Excused(s)

\* A draft or inactive article hides its own pages.
Hides(p) == job[p].phase = "upsert" /\ job'[p].served # job[p].served

\* A SyncRecord of an active article that runs alone loses no visitor on the way: every
\* slug that led to a page when it began leads to one after each of its statements, those
\* of the renamed service included.
NoSlugLost ==
    [][\A p \in calm :
         (job'[p] # job[p] /\ faults' = faults /\ ~Hides(p)) => job[p].served \subseteq Served']_vars

\* A writer that ran alone leaves every old slug it learnt as an alias of the
\* canonical slug, and that one as none.
AliasesWritten ==
    \A p \in calm :
        LET j == job[p]
            old == (j.history \union IF j.record THEN {j.asked} ELSE {}) \ {j.canon}
        IN  j.phase = "unlink" => /\ alias[j.canon] = None
                                  /\ \A s \in old : alias[s] = j.canon

===============================================================================
