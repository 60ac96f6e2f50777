------------------------------ MODULE CartaSync ------------------------------
(***************************************************************************)
(* The synchronisation of the Carta de Servicos into catalog_items: full   *)
(* and delta syncs (runSync), started by the worker and by hand, and the   *)
(* synchronisation of one record (SyncRecord) that the webhook asks for.   *)
(* Nothing locks them out of each other, and the Carta changes meanwhile.  *)
(*                                                                         *)
(* Time is a counter of the changes of the Carta: a change made at tick t  *)
(* version t, and time.Now() is the current tick.  The version of a        *)
(* catalogue row is that of the detail it was written from.                *)
(* Theme and subtheme rows, slug aliases and the home page are left out.   *)
(***************************************************************************)
EXTENDS Naturals, FiniteSets

CONSTANTS
    Services,    \* services of the Carta
    Nameless,    \* those whose detail cannot be mapped: they have no name
    Dateless,    \* those without lastModifiedDate and lastPublishedDate
    Slugs,       \* slugs a service can have
    Subthemes,   \* subthemes, each listed by requests of its own
    PageSize,    \* services in a page of a subtheme
    Syncers,     \* processes that run runSync: the worker, manual syncs
    Recorders,   \* webhook attempts that run SyncRecord
    ListingLags, \* the listing may show the old slug of a renamed service
    MaxClock,    \* bounds the changes of the Carta
    MaxFaults,   \* bounds failed requests, failed statements and crashes
    None         \* no slug: the service is not published

ASSUME SyncAssumption ==
    /\ None \notin Slugs
    /\ Nameless \subseteq Services /\ Dateless \subseteq Services
    /\ IsFiniteSet(Services) /\ PageSize \in Nat \ {0}
    /\ ListingLags \in BOOLEAN
    /\ MaxClock \in Nat
    /\ MaxFaults \in Nat

VARIABLES
    clock,   \* ticks: changes of the Carta so far
    carta,   \* [Services -> Published]
    order,   \* pairs of services: the first is listed before the second
    row,     \* catalog_items, by external_id
    cursor,  \* last_sync_at of salesforce_sync_cursor; 0 when there is none
    sync,    \* the runSync each syncer is in
    rec,     \* the SyncRecord each recorder is in
    faults,  \* faults so far
    calm,    \* history: syncers that ran on a Carta at rest, undisturbed
    torn,    \* history: syncers with a subtheme that changed between two of its pages
    owed     \* history: listed items whose detail was not fetched or not written

vars == <<clock, carta, order, row, cursor, sync, rec, faults, calm, torn, owed>>

\* slug answers GET /services/{slug}; the slugs in old answer 301 to it; listed
\* is the slug its subtheme lists; shown says the article is online, not a draft or
\* an inactive one.
Published == [slug : Slugs \union {None}, listed : Slugs \union {None}, old : SUBSET Slugs,
              subtheme : Subthemes, shown : BOOLEAN, ver : Nat]

Item   == [slug : Slugs, mod : Nat]
Owed   == [slug : Slugs, mod : Nat, wasDue : BOOLEAN]
Detail == [from : Slugs, slug : Slugs, shown : BOOLEAN, ver : Nat, mapped : BOOLEAN]
Row    == [active : BOOLEAN, ver : Nat]

\* since = 0 is a full sync.  left are the subthemes still to list; of each, offset
\* counts the services of the pages read, pages are their items.  toFetch are the
\* listed slugs whose detail is still to fetch.
Sync == [phase : {"idle", "list", "fetch", "orphans", "finish"}, since : Nat,
         left : SUBSET Subthemes, offset : [Subthemes -> Nat],
         pages : [Subthemes -> SUBSET Item], listed : SUBSET Item, toFetch : SUBSET Slugs,
         got : SUBSET Detail, failed : BOOLEAN]

Rec == [phase : {"idle", "write", "unlink"}, asked : Slugs \union {None},
        slug : Slugs \union {None}, shown : BOOLEAN, ver : Nat, at : Nat]

TypeOK ==
    /\ clock \in Nat
    /\ carta \in [Services -> Published]
    /\ order \subseteq Services \X Services
    /\ row \in [Slugs -> Row]
    /\ cursor \in Nat
    /\ sync \in [Syncers -> Sync]
    /\ rec \in [Recorders -> Rec]
    /\ faults \in Nat
    /\ calm \subseteq Syncers
    /\ torn \subseteq Syncers
    /\ owed \subseteq Owed

NoSync == [phase |-> "idle", since |-> 0, left |-> {}, offset |-> [st \in Subthemes |-> 0],
           pages |-> [st \in Subthemes |-> {}], listed |-> {}, toFetch |-> {}, got |-> {},
           failed |-> FALSE]
NoRec  == [phase |-> "idle", asked |-> None, slug |-> None, shown |-> FALSE, ver |-> 0, at |-> 0]

Init ==
    /\ clock = 0
    /\ carta \in [Services -> {[slug |-> None, listed |-> None, old |-> {}, subtheme |-> st,
                                shown |-> FALSE, ver |-> 0] : st \in Subthemes}]
    /\ order = {}
    /\ row = [s \in Slugs |-> [active |-> FALSE, ver |-> 0]]
    /\ cursor = 0
    /\ sync = [p \in Syncers |-> NoSync]
    /\ rec = [w \in Recorders |-> NoRec]
    /\ faults = 0
    /\ calm = {}
    /\ torn = {}
    /\ owed = {}

-----------------------------------------------------------------------------
(* The Carta.                                                              *)

Live(i)  == carta[i].slug # None
Taken(s) == \E i \in Services : s = carta[i].slug \/ s \in carta[i].old

\* What GET /services/{s} leads to, redirects followed.
Answers(s) == {i \in Services : Live(i) /\ (s = carta[i].slug \/ s \in carta[i].old)}

\* EffectiveModifiedAt: 0 is the zero time.
Mod(i) == IF i \in Dateless THEN 0 ELSE carta[i].ver

\* The services of a subtheme.
\* Mutant of InSubtheme: entries without a slug are not skipped.
InSubthemeWithBlanks(st) == {i \in Services : carta[i].subtheme = st}

InSubtheme(st) == {i \in Services : Live(i) /\ carta[i].subtheme = st}

\* i is listed in st after the services in front and before the others.  Nothing says
\* how the Carta orders a listing: a change may move the service anywhere.
Apart(i) == {pair \in order : i \notin {pair[1], pair[2]}}

Place(i, st) ==
    LET others == InSubtheme(st) \ {i}
    IN  \E front \in SUBSET others :
          /\ \A pair \in Apart(i) : pair[2] \in front => pair[1] \in front
          /\ order' = Apart(i) \union (front \X {i}) \union ({i} \X (others \ front))

Change(i, published) ==
    /\ clock < MaxClock
    /\ clock' = clock + 1
    /\ carta' = [carta EXCEPT ![i] = published]
    /\ calm' = {}
    /\ torn' = torn \union {p \in Syncers : \E st \in {carta[i].subtheme, published.subtheme} :
                                               sync[p].offset[st] > 0}
    /\ UNCHANGED <<row, cursor, sync, rec, faults, owed>>

Publish(i, s, shown) ==
    /\ ~Live(i)
    /\ ~Taken(s)
    /\ Place(i, carta[i].subtheme)
    /\ Change(i, [carta[i] EXCEPT !.slug = s, !.listed = s, !.shown = shown, !.ver = clock + 1])

\* An edit may move the service to another subtheme, and take its article offline.
Edit(i, st, shown) ==
    /\ Live(i)
    /\ Place(i, st)
    /\ Change(i, [carta[i] EXCEPT !.subtheme = st, !.shown = shown, !.ver = clock + 1])

Rename(i, s) ==
    /\ Live(i)
    /\ ~Taken(s)
    /\ Place(i, carta[i].subtheme)
    /\ \E listed \in {s} \union (IF ListingLags THEN {carta[i].listed} ELSE {}) :
         Change(i, [carta[i] EXCEPT !.slug = s, !.listed = listed,
                                    !.old = @ \union {carta[i].slug}, !.ver = clock + 1])

Unpublish(i) ==
    /\ Live(i)
    /\ order' = Apart(i)
    /\ Change(i, [carta[i] EXCEPT !.slug = None, !.listed = None, !.old = {}])

-----------------------------------------------------------------------------
(* runSync.                                                                *)

Fault ==
    /\ faults < MaxFaults
    /\ faults' = faults + 1

Goto(p, record) == sync' = [sync EXCEPT ![p] = record]

Leave(p) == Goto(p, NoSync) /\ torn' = torn \ {p}

\* DeltaSync without a cursor is a FullSync; so is any FullSync asked for.
Begin(p, full) ==
    /\ sync[p].phase = "idle"
    /\ Goto(p, [NoSync EXCEPT !.phase = "list", !.left = Subthemes,
                              !.since = IF full THEN 0 ELSE cursor])
    /\ calm' = calm \union {p}
    /\ UNCHANGED <<clock, carta, order, row, cursor, rec, faults, torn, owed>>

\* filterServicesNeedingDetail: everything, or what changed after the cursor or does
\* not say when it did.
NeedsDetail(item, since) == since = 0 \/ item.mod = 0 \/ item.mod > since

\* The services of the subtheme that are listed before i.
Ahead(i) == {j \in InSubtheme(carta[i].subtheme) : <<j, i>> \in order}

\* The page that begins after offset services of the subtheme, as it is now.
Page(st, offset) ==
    {i \in InSubtheme(st) : Cardinality(Ahead(i)) \in offset .. offset + PageSize - 1}

Entry(i) == [slug |-> carta[i].listed, mod |-> Mod(i)]

\* A service listed twice counts as first listed.
First(items, more) == items \union {x \in more : \A y \in items : y.slug # x.slug}

\* page >= total_pages, of the subtheme as it is now.
\* Mutant of IsLast: off by one page.
IsLastButOne(st, end) == end + PageSize >= Cardinality(InSubtheme(st))

IsLast(st, end) == end >= Cardinality(InSubtheme(st))

\* ListAllServicesBySubtheme reads a subtheme page by page, several subthemes at a
\* time; their services are collected in the order the goroutines come to the lock.
ListPage(p, st) ==
    LET end  == sync[p].offset[st] + PageSize
        read == First(sync[p].pages[st], {Entry(i) : i \in Page(st, sync[p].offset[st])})
        left == sync[p].left \ {st}
    IN  /\ sync[p].phase = "list"
        /\ st \in sync[p].left
        /\ \/ /\ ~IsLast(st, end)
              /\ Goto(p, [sync[p] EXCEPT !.offset[st] = end, !.pages[st] = read])
           \/ /\ IsLast(st, end)
              /\ \E listed \in {First(sync[p].listed, read), First(read, sync[p].listed)} :
                   Goto(p, [sync[p] EXCEPT
                      !.left = left, !.offset[st] = 0, !.pages[st] = {},
                      !.listed = listed,
                      !.phase = IF left = {} THEN "fetch" ELSE "list",
                      !.toFetch = IF left = {}
                                  THEN {item.slug : item \in
                                          {x \in listed : NeedsDetail(x, sync[p].since)}}
                                  ELSE {}])
        /\ UNCHANGED <<clock, carta, order, row, cursor, rec, faults, calm, torn, owed>>

\* The listing fails: the sync ends before it wrote a service.
ListFails(p) ==
    /\ sync[p].phase = "list"
    /\ Fault
    /\ Leave(p)
    /\ calm' = calm \ {p}
    /\ UNCHANGED <<clock, carta, order, row, cursor, rec, owed>>

\* wasDue: a delta sync would have fetched it.
Owes(p, s) ==
    {[slug |-> s, mod |-> item.mod, wasDue |-> NeedsDetail(item, cursor)] :
        item \in {x \in sync[p].listed : x.slug = s}}

\* What MapCartaServiceDetail makes of a detail: a row of the same state, active when the
\* article is online, or nothing when the detail has no name.
MapDetail(s, i) == [from |-> s, slug |-> carta[i].slug, shown |-> carta[i].shown,
                    ver |-> carta[i].ver, mapped |-> i \notin Nameless]

FetchDetail(p, s) ==
    /\ sync[p].phase = "fetch"
    /\ s \in sync[p].toFetch
    /\ \E i \in Answers(s) :
         Goto(p, [sync[p] EXCEPT !.toFetch = @ \ {s}, !.got = @ \union {MapDetail(s, i)}])
    /\ UNCHANGED <<clock, carta, order, row, cursor, rec, faults, calm, torn, owed>>

\* A detail that answers 404 (unpublished since it was listed), or not at all,
\* does not stop the others.
FetchFails(p, s) ==
    /\ sync[p].phase = "fetch"
    /\ s \in sync[p].toFetch
    /\ \/ Answers(s) = {} /\ UNCHANGED faults
       \/ Answers(s) # {} /\ Fault
    /\ Goto(p, [sync[p] EXCEPT !.toFetch = @ \ {s}, !.failed = TRUE])
    /\ owed' = owed \union Owes(p, s)
    /\ UNCHANGED <<clock, carta, order, row, cursor, rec, calm, torn>>

\* Every detail that was asked for failed: the sync ends here.
AllFailed(p) == sync[p].failed /\ sync[p].got = {}

GiveUp(p) ==
    /\ sync[p].phase = "fetch"
    /\ sync[p].toFetch = {}
    /\ AllFailed(p)
    /\ Leave(p)
    /\ calm' = calm \ {p}
    /\ UNCHANGED <<clock, carta, order, row, cursor, rec, faults, owed>>

\* The rows a batch can leave: each slug as one of the details that have it.  A
\* detail that cannot be mapped is left out and holds nothing back.
Batch(got) ==
    LET items == {d \in got : d.mapped}
    IN  {[s \in Slugs |-> IF pick[s] = None THEN row[s] ELSE [active |-> pick[s].shown, ver |-> pick[s].ver]] :
            pick \in {f \in [Slugs -> items \union {None}] :
                         \A s \in Slugs : IF f[s] = None THEN \A d \in items : d.slug # s
                                          ELSE f[s].slug = s}}

\* UpsertBatch, one transaction: the details replace the rows, also newer ones,
\* and bring deleted rows back.  A commit that fails may have happened.
UpsertBatch(p) ==
    /\ sync[p].phase = "fetch"
    /\ sync[p].toFetch = {}
    /\ ~AllFailed(p)
    /\ \/ /\ row' \in Batch(sync[p].got)
          /\ Goto(p, [sync[p] EXCEPT !.phase = "orphans"])
          /\ owed' = {item \in owed : \A d \in sync[p].got : d.from # item.slug}
          /\ calm' = IF p \in calm THEN calm ELSE {}
          /\ UNCHANGED <<faults, torn>>
       \/ /\ Fault
          /\ row' \in {row} \union Batch(sync[p].got)
          /\ Leave(p)
          /\ owed' = owed \union UNION {Owes(p, d.from) : d \in sync[p].got}
          /\ calm' = {}
    /\ UNCHANGED <<clock, carta, order, cursor, rec>>

\* Mutant of resolveSeenSlugs: redirects are not resolved.
ListedSlugs(listed, got) == {item.slug : item \in listed}

\* The slugs to keep: a listed slug that redirected counts as its target.
resolveSeenSlugs(listed, got) ==
    {IF \E d \in got : d.from = item.slug
     THEN (CHOOSE d \in got : d.from = item.slug).slug
     ELSE item.slug : item \in listed}

\* Mutant of RemovesOrphans: delta syncs leave the orphans.
OnlyFullRemoves(p) == sync[p].listed # {} /\ sync[p].since = 0

RemovesOrphans(p) == sync[p].listed # {}

\* Active rows outside the listing are soft-deleted, in delta syncs too; an empty
\* listing deletes nothing.
SoftDeleteOrphans(p) ==
    LET seen   == resolveSeenSlugs(sync[p].listed, sync[p].got)
        pruned == [s \in Slugs |-> IF RemovesOrphans(p) /\ s \notin seen
                                   THEN [row[s] EXCEPT !.active = FALSE] ELSE row[s]]
    IN  /\ sync[p].phase = "orphans"
        /\ \/ /\ row' = pruned
              /\ Goto(p, [sync[p] EXCEPT !.phase = "finish"])
              /\ UNCHANGED faults
           \/ /\ Fault
              /\ row' \in {row, pruned}
              /\ Goto(p, [sync[p] EXCEPT !.phase = "finish", !.failed = TRUE])
        /\ calm' = calm \intersect {p}
        /\ UNCHANGED <<clock, carta, order, cursor, rec, torn, owed>>

\* Mutant of MayAdvance: partial failures do not hold the cursor.
AlwaysAdvance(p) == TRUE

MayAdvance(p) == ~sync[p].failed

\* A cursor moved by a listing that was torn passes what slid by between the pages.
StillOwed(p) == {item \in owed : p \in torn => \E x \in sync[p].listed : x.slug = item.slug}

\* The cursor moves to the end of a sync without failures, not to its beginning.
\* The write of the cursor may fail unnoticed.
Finish(p) ==
    /\ sync[p].phase = "finish"
    /\ \/ MayAdvance(p) /\ cursor' = clock /\ owed' = StillOwed(p) /\ UNCHANGED faults
       \/ MayAdvance(p) /\ Fault /\ UNCHANGED <<cursor, owed>>
       \/ ~MayAdvance(p) /\ UNCHANGED <<cursor, owed, faults>>
    /\ Leave(p)
    /\ calm' = calm \ {p}
    /\ UNCHANGED <<clock, carta, order, row, rec>>

\* The pod stops; what was in memory is gone.
Crash(p) ==
    /\ sync[p].phase # "idle"
    /\ Fault
    /\ Leave(p)
    /\ calm' = calm \ {p}
    /\ UNCHANGED <<clock, carta, order, row, cursor, rec, owed>>

\* A deploy with a new cartaSyncVersion: the cursor of the old mapping is as good
\* as none.
Deploy ==
    /\ cursor # 0
    /\ Fault
    /\ cursor' = 0
    /\ sync' = [p \in Syncers |-> NoSync]
    /\ calm' = {}
    /\ torn' = {}
    /\ UNCHANGED <<clock, carta, order, row, rec, owed>>

-----------------------------------------------------------------------------
(* SyncRecord.                                                             *)

\* GetServiceCanonical: the detail, its redirects followed, or 404.  A detail that
\* cannot be mapped ends the attempt before it wrote anything.
ReadRecord(w, s) ==
    /\ rec[w].phase = "idle"
    /\ \/ /\ Answers(s) = {}
          /\ rec' = [rec EXCEPT ![w] = [NoRec EXCEPT !.phase = "write", !.asked = s, !.at = clock]]
       \/ \E i \in Answers(s) \ Nameless :
            rec' = [rec EXCEPT ![w] = [phase |-> "write", asked |-> s, slug |-> carta[i].slug,
                                       shown |-> carta[i].shown, ver |-> carta[i].ver,
                                       at |-> clock]]
    /\ UNCHANGED <<clock, carta, order, row, cursor, sync, faults, calm, torn, owed>>

\* What a recorder writes from an older read disturbs the syncs that are running.
Disturb(w) == calm' = IF rec[w].at = clock THEN calm ELSE {}

\* 404 soft-deletes the slug that was asked for; a detail replaces its row.
WriteRecord(w) ==
    /\ rec[w].phase = "write"
    /\ IF rec[w].slug = None
       THEN /\ row' = [row EXCEPT ![rec[w].asked].active = FALSE]
            /\ rec' = [rec EXCEPT ![w] = NoRec]
       ELSE /\ row' = [row EXCEPT ![rec[w].slug] = [active |-> rec[w].shown, ver |-> rec[w].ver]]
            /\ rec' = [rec EXCEPT ![w] = IF rec[w].slug = rec[w].asked THEN NoRec
                                         ELSE [rec[w] EXCEPT !.phase = "unlink"]]
    /\ Disturb(w)
    /\ UNCHANGED <<clock, carta, order, cursor, sync, faults, torn, owed>>

\* After a redirect the row of the old slug is soft-deleted; if that fails it is
\* only logged.
UnlinkOld(w) ==
    /\ rec[w].phase = "unlink"
    /\ \/ row' = [row EXCEPT ![rec[w].asked].active = FALSE] /\ UNCHANGED faults
       \/ Fault /\ UNCHANGED row
    /\ rec' = [rec EXCEPT ![w] = NoRec]
    /\ Disturb(w)
    /\ UNCHANGED <<clock, carta, order, cursor, sync, torn, owed>>

\* The attempt ends early: a failed read or write, its timeout, a crash.
DropRecord(w) ==
    /\ rec[w].phase # "idle"
    /\ Fault
    /\ rec' = [rec EXCEPT ![w] = NoRec]
    /\ UNCHANGED <<clock, carta, order, row, cursor, sync, calm, torn, owed>>

-----------------------------------------------------------------------------
CartaChanges ==
    \E i \in Services :
        \/ \E s \in Slugs : Rename(i, s) \/ \E shown \in BOOLEAN : Publish(i, s, shown)
        \/ \E st \in Subthemes, shown \in BOOLEAN : Edit(i, st, shown)
        \/ Unpublish(i)

SyncStep(p) ==
    \/ \E st \in Subthemes : ListPage(p, st)
    \/ \E s \in Slugs : FetchDetail(p, s) \/ FetchFails(p, s)
    \/ GiveUp(p) \/ UpsertBatch(p) \/ SoftDeleteOrphans(p) \/ Finish(p)

Next ==
    \/ CartaChanges
    \/ \E p \in Syncers :
        \/ \E full \in BOOLEAN : Begin(p, full)
        \/ SyncStep(p) \/ ListFails(p) \/ Crash(p)
    \/ \E w \in Recorders :
        \/ \E s \in Slugs : ReadRecord(w, s)
        \/ WriteRecord(w) \/ UnlinkOld(w) \/ DropRecord(w)
    \/ Deploy

Spec == Init /\ [][Next]_vars

\* The worker starts a delta sync in every interval, and a sync that runs goes
\* on; a webhook attempt ends by its timeout.
Fairness ==
    /\ \A p \in Syncers : WF_vars(Begin(p, FALSE)) /\ WF_vars(SyncStep(p))
    /\ \A w \in Recorders : WF_vars(WriteRecord(w) \/ UnlinkOld(w))

FairSpec == Spec /\ Fairness

-----------------------------------------------------------------------------
(* Properties.                                                             *)

\* The row of the service as it is now.
RowOf(i) == [active |-> carta[i].shown, ver |-> carta[i].ver]

\* A full sync without failures on a Carta at rest leaves in the catalogue the
\* services of the Carta and no other, each as it is now: renamed services under
\* their new slug only, whatever the catalogue held before and whatever webhook
\* attempts do meanwhile.  Services that cannot be mapped only miss their own row.
QuietFullSyncMatches ==
    \A p \in calm :
        (/\ sync[p].phase = "finish"
         /\ sync[p].since = 0
         /\ ~sync[p].failed
         /\ sync[p].listed # {})
        => \A s \in Slugs :
             /\ row[s].active => \E i \in Services : carta[i].slug = s
             /\ \A i \in Services \ Nameless :
                  carta[i].slug = s => row[s] = RowOf(i)

Current(item) ==
    \E i \in Services : Live(i) /\ carta[i].listed = item.slug /\ Mod(i) = item.mod

\* With one runSync at a time: a service that was due and whose detail was not fetched
\* or not written stays due for the next delta sync until it is written or changes
\* again, through later syncs, webhook attempts, crashes and deploys; only a sync whose
\* listing was torn may pass it.
FailedStaysDue == \A item \in owed : Current(item) /\ item.wasDue => NeedsDetail(item, cursor)

\* A row whose slug no service of the Carta has, or is still listed under, does not stay
\* active: as long as something is listed, a delta sync removes it.
Ghost(s) == row[s].active /\ \A i \in Services : s \notin {carta[i].slug, carta[i].listed}

GhostsRemoved ==
    \A s \in Slugs : []<>(~Ghost(s) \/ \A i \in Services : ~Live(i))

AsNow(i) == row[carta[i].slug] = RowOf(i)

\* "Delta sync por LastModifiedDate": with nothing running, a service the
\* catalogue does not show as it is has a lastModified after the cursor, so the
\* next delta sync fetches it.
StaleIsDue ==
    (/\ \A p \in Syncers : sync[p].phase = "idle"
     /\ \A w \in Recorders : rec[w].phase = "idle")
    => \A i \in Services \ Nameless :
         Live(i) => \/ AsNow(i)
                    \/ NeedsDetail(Entry(i), cursor)

\* A row that is as the service is now was not soft-deleted after it was written.
Kept(i) ==
    (carta[i].shown /\ row[carta[i].slug].ver = carta[i].ver) => row[carta[i].slug].active

\* "Substitui slugs da listagem pelos canonicos descobertos via 301, para nao
\* soft-deletar o servico recem-gravado": a sync without failures on a Carta at
\* rest keeps the row of a listed service active under its canonical slug.
CanonicalKept ==
    \A p \in calm :
        (sync[p].phase = "finish" /\ ~sync[p].failed)
        => \A i \in Services : Live(i) => Kept(i)

\* "Used after a complete full-sync snapshot": the soft delete of the orphans hides no
\* service that is published and whose row was written as it is.
PublishedKept == \A i \in Services : Live(i) => Kept(i)

===============================================================================
