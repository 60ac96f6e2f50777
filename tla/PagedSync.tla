------------------------------ MODULE PagedSync -------------------------------
(***************************************************************************)
(* The synchronisation of courses, jobs and MEI opportunities from         *)
(* app-go-api: syncWithRetry of the datasource manager around a Sync that  *)
(* reads each kind page by page, writes what it read in one batch and      *)
(* soft-deletes every other row of the kind.  The worker and manual syncs  *)
(* of the API pods run it at the same time, and the listing moves under    *)
(* the pages.                                                              *)
(***************************************************************************)
EXTENDS PagedConfig, SequencesExt

CONSTANTS
    MaxChanges, \* bounds the changes at app-go-api
    MaxFaults   \* bounds failed requests, failed statements and stopped processes

Runners == {Worker} \union Manual

VARIABLES
    listing, \* the list endpoint of each kind: its items, in order
    offered, \* items whose status and visibility make them indexable
    version, \* [Items -> Nat]: last edit at app-go-api
    row,     \* catalog_items
    run,     \* the syncWithRetry each runner is in
    changes, \* changes at app-go-api so far
    faults,  \* faults so far
    started, \* manual syncs started
    amiss,   \* history: items not listed or not offered since the runner began its read
    shifted  \* history: runners whose listing moved while they read it

remote  == <<listing, offered, version, changes>>
history == <<amiss, shifted>>
vars    == <<remote, row, run, faults, started, history>>

Read == [id : Items, ver : Nat, offered : BOOLEAN]
Row  == [active : BOOLEAN, ver : Nat]
Run  == [phase : {"idle", "fetch", "upsert", "prune", "wait"}, kind : 1 .. Len(Kinds),
         page : Nat \ {0}, all : Seq(Read), failed : BOOLEAN, attempt : 1 .. MaxAttempts]

\* What app-go-api may list of a kind, in any order.
Orders(k) ==
    {l \in UNION {[1 .. n -> Items] : n \in 0 .. Cardinality(Items)} :
        IsInjective(l) /\ \A i \in Range(l) : KindOf[i] = k}

TypeOK ==
    /\ DOMAIN listing = KindSet
    /\ \A k \in KindSet : listing[k] \in Orders(k)
    /\ offered \subseteq Items
    /\ version \in [Items -> Nat]
    /\ row \in [Items -> Row]
    /\ run \in [Runners -> Run]
    /\ changes \in Nat
    /\ faults \in Nat
    /\ started \subseteq Manual
    /\ amiss \in [Runners -> SUBSET Items]
    /\ shifted \subseteq Runners

NoRun == [phase |-> "idle", kind |-> 1, page |-> 1, all |-> <<>>, failed |-> FALSE, attempt |-> 1]

\* Nothing was read yet; app-go-api lists some of the items, in some order.
Init ==
    /\ listing \in [KindSet -> UNION {Orders(k) : k \in KindSet}]
    /\ \A k \in KindSet : listing[k] \in Orders(k)
    /\ offered = Items
    /\ version = [i \in Items |-> 0]
    /\ row = [i \in Items |-> [active |-> FALSE, ver |-> 0]]
    /\ run = [p \in Runners |-> NoRun]
    /\ changes = 0
    /\ faults = 0
    /\ started = {}
    /\ amiss = [p \in Runners |-> {}]
    /\ shifted = {}

-----------------------------------------------------------------------------
(* app-go-api.                                                             *)

IsListed(i) == i \in Range(listing[KindOf[i]])

\* Items an index of the kind has to show.
Wanted(k) == {i \in Range(listing[k]) : i \in offered}

Reading(p, k) == run[p].phase = "fetch" /\ Kinds[run[p].kind] = k

Changes ==
    /\ changes < MaxChanges
    /\ changes' = changes + 1
    /\ UNCHANGED <<row, run, faults, started>>

Misses(i) == [p \in Runners |-> IF run[p].phase \in {"idle", "wait"} THEN {} ELSE amiss[p] \union {i}]

Move(k, items) ==
    /\ Changes
    /\ listing' = [listing EXCEPT ![k] = items]
    /\ shifted' = shifted \union {p \in Runners : Reading(p, k)}

Withdraw(i) ==
    /\ \E at \in 1 .. Len(listing[KindOf[i]]) :
         /\ listing[KindOf[i]][at] = i
         /\ Move(KindOf[i], RemoveAt(listing[KindOf[i]], at))
    /\ amiss' = Misses(i)
    /\ UNCHANGED <<offered, version>>

\* An item comes back anywhere in the order of the endpoint.
Publish(i) ==
    /\ ~IsListed(i)
    /\ \E at \in 1 .. Len(listing[KindOf[i]]) + 1 :
         Move(KindOf[i], InsertAt(listing[KindOf[i]], at, i))
    /\ UNCHANGED <<offered, version, amiss>>

\* A course is edited, hidden or shown; it keeps its place.
Edit(i, shown) ==
    /\ IsListed(i)
    /\ Changes
    /\ version' = [version EXCEPT ![i] = @ + 1]
    /\ offered' = IF shown THEN offered \union {i} ELSE offered \ {i}
    /\ amiss' = IF shown THEN amiss ELSE Misses(i)
    /\ UNCHANGED <<listing, shifted>>

-----------------------------------------------------------------------------
(* syncCourses, syncJobs, syncMEI: fetch all pages, upsert, soft delete.    *)

Goto(p, r) == run' = [run EXCEPT ![p] = r]

Fault ==
    /\ faults < MaxFaults
    /\ faults' = faults + 1

Kind(p) == Kinds[run[p].kind]

\* The read of kind n begins.
Reads(r, n) == [r EXCEPT !.phase = "fetch", !.kind = n, !.page = 1, !.all = <<>>]

NotWanted(k) == Items \ Wanted(k)

\* Mutant of AttemptLeft: one attempt too many.
OneAttemptMore(r) == r.attempt <= MaxAttempts

AttemptLeft(r) == r.attempt < MaxAttempts

\* Sync goes on to the next kind, also after an error; syncWithRetry ends, or
\* waits for the next attempt if some kind failed.
GoOn(p, failed) ==
    LET r == [run[p] EXCEPT !.failed = @ \/ failed]
    IN  IF r.kind < Len(Kinds)
        THEN /\ Goto(p, Reads(r, r.kind + 1))
             /\ amiss' = [amiss EXCEPT ![p] = NotWanted(Kinds[r.kind + 1])]
             /\ shifted' = shifted \ {p}
        ELSE /\ Goto(p, IF r.failed /\ AttemptLeft(r)
                        THEN [NoRun EXCEPT !.phase = "wait", !.attempt = r.attempt]
                        ELSE NoRun)
             /\ amiss' = [amiss EXCEPT ![p] = {}]
             /\ shifted' = shifted \ {p}

\* The initial sync, a tick of the worker, a manual trigger.
Begin(p, attempt) ==
    /\ Goto(p, Reads([NoRun EXCEPT !.attempt = attempt], 1))
    /\ amiss' = [amiss EXCEPT ![p] = NotWanted(Kinds[1])]
    /\ shifted' = shifted \ {p}
    /\ UNCHANGED <<remote, row, faults>>

Start(p) ==
    /\ run[p].phase = "idle"
    /\ p \notin started
    /\ started' = started \union ({p} \intersect Manual)
    /\ Begin(p, 1)

\* The wait between two attempts ends.
Retry(p) ==
    /\ run[p].phase = "wait"
    /\ Begin(p, run[p].attempt + 1)
    /\ UNCHANGED started

PageOf(k, n) ==
    LET first == (n - 1) * PageSize + 1
        last  == IF n * PageSize < Len(listing[k]) THEN n * PageSize ELSE Len(listing[k])
        ids   == SubSeq(listing[k], first, last)
    IN  [x \in 1 .. Len(ids) |->
            [id |-> ids[x], ver |-> version[ids[x]], offered |-> ids[x] \in offered]]

\* Mutant of LastPage: the read ends one item too early.
StopsShort(all, got, total) == Len(all) + 1 >= total

\* The read ends when it has as many items as the last page says there are, or
\* at an empty page.
LastPage(all, got, total) == Len(all) >= total \/ got = <<>>

FetchPage(p) ==
    /\ run[p].phase = "fetch"
    /\ LET got == PageOf(Kind(p), run[p].page)
           all == run[p].all \o got
       IN  Goto(p, IF LastPage(all, got, Len(listing[Kind(p)]))
                   THEN [run[p] EXCEPT !.all = all, !.phase = "upsert"]
                   ELSE [run[p] EXCEPT !.all = all, !.page = @ + 1])
    /\ UNCHANGED <<remote, row, faults, started, history>>

\* The resilience layer gives up, or a 4xx: nothing of the kind is written.
FetchFails(p) ==
    /\ run[p].phase = "fetch"
    /\ Fault
    /\ GoOn(p, TRUE)
    /\ UNCHANGED <<remote, row, started>>

\* courseIsIndexable, jobIsIndexable, meiIsIndexable.
Indexable(all) == {x \in Range(all) : x.offered}

\* Mutant of Keep: what is listed is kept, indexable or not.
KeepListed(all) == {x.id : x \in Range(all)}

Keep(all) == {x.id : x \in Indexable(all)}

\* mapCourse, mapJob, mapMEI: an active item with the edit that was read.
Mapped(x) == [active |-> TRUE, ver |-> x.ver]

\* An item read twice is written as read last.
Final(all, i) ==
    LET places == {x \in 1 .. Len(all) : all[x].id = i /\ all[x].offered}
    IN  all[CHOOSE x \in places : \A y \in places : y <= x]

Batch(all) == [i \in Items |-> IF i \in {x.id : x \in Indexable(all)} THEN Mapped(Final(all, i)) ELSE row[i]]

\* UpsertBatch, one transaction; nothing to write cannot fail, a commit that fails
\* may have happened.
Upsert(p) ==
    /\ run[p].phase = "upsert"
    /\ \/ /\ row' = Batch(run[p].all)
          /\ Goto(p, [run[p] EXCEPT !.phase = "prune"])
          /\ UNCHANGED <<faults, history>>
       \/ /\ Keep(run[p].all) # {}
          /\ Fault
          /\ row' \in {row, Batch(run[p].all)}
          /\ GoOn(p, TRUE)
    /\ UNCHANGED <<remote, started>>

\* A listing without an indexable item deletes nothing.
MayPrune(all) == Keep(all) # {}

Pruned(p) ==
    [i \in Items |-> IF KindOf[i] = Kind(p) /\ i \notin Keep(run[p].all)
                     THEN [row[i] EXCEPT !.active = FALSE] ELSE row[i]]

\* SoftDeleteActiveNotIn: rows of the kind outside what was read.
Prune(p) ==
    /\ run[p].phase = "prune"
    /\ \/ /\ row' = IF MayPrune(run[p].all) THEN Pruned(p) ELSE row
          /\ GoOn(p, FALSE)
          /\ UNCHANGED faults
       \/ /\ MayPrune(run[p].all)
          /\ Fault
          /\ row' \in {row, Pruned(p)}
          /\ GoOn(p, TRUE)
    /\ UNCHANGED <<remote, started>>

\* The process stops: its context ends the run without another attempt.
Stop(p) ==
    /\ run[p].phase # "idle"
    /\ Fault
    /\ Goto(p, NoRun)
    /\ amiss' = [amiss EXCEPT ![p] = {}]
    /\ shifted' = shifted \ {p}
    /\ UNCHANGED <<remote, row, started>>

-----------------------------------------------------------------------------
RunStep(p) == Retry(p) \/ FetchPage(p) \/ Upsert(p) \/ Prune(p)

Next ==
    \/ \E i \in Items : Withdraw(i) \/ Publish(i) \/ \E shown \in BOOLEAN : Edit(i, shown)
    \/ \E p \in Runners : Start(p) \/ RunStep(p) \/ FetchFails(p) \/ Stop(p)

Spec == Init /\ [][Next]_vars

\* The ticker starts a sync in every interval, and a run goes on.
Fairness == WF_vars(Start(Worker)) /\ \A p \in Runners : WF_vars(RunStep(p))

FairSpec == Spec /\ Fairness

-----------------------------------------------------------------------------
(* Properties.                                                             *)

\* "Nada e apagado": a row is soft-deleted only by a run that read its kind to the
\* end, and never while the item is offered, unless the listing moved under the
\* pages; failed pages, retries and other runs delete nothing more.
OfferedIsKept ==
    [][\A i \in Items :
         (row[i].active /\ ~row'[i].active)
         => \E p \in Runners : run[p].phase = "prune" /\ run'[p] # run[p] /\ Kind(p) = KindOf[i]
                               /\ (i \in amiss[p] \/ p \in shifted)]_vars

\* When app-go-api stops changing, the catalogue comes to show what it offers and
\* nothing else, through failed parts, retries and slower runs that write older
\* reads: every kind that offers something.
Shows(k) ==
    \A i \in Items : KindOf[i] = k =>
        IF i \in Wanted(k) THEN row[i] = [active |-> TRUE, ver |-> version[i]] ELSE ~row[i].active

CatalogFollows == <>[](\A k \in KindSet : Wanted(k) = {} \/ Shows(k))

===============================================================================
