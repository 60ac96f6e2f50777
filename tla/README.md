# app-catalogo: a verification project

TLA+ models of the service catalogue of the Prefeitura do Rio (Go, `src/`), the
configurations that check them with TLC and proofs that TLAPS checks. Every definition
is translated from the code; `PROJECT.json` gives the lines each one stands for.

## The system

Two programs share one PostgreSQL database. `cmd/worker` pulls the catalogue from its
sources on a schedule. `cmd/api` (several replicas) serves search, recommendation and the
Carta de Servicos, receives SalesForce webhooks and starts manual syncs.

| Component | State | Operations | Talks to |
| --- | --- | --- | --- |
| SalesForce webhook queue (`webhook_handler.go`, `salesforce_webhook_service.go`, `salesforce_webhook_repository.go`) | table `salesforce_webhook_events`: status, attempts, next_attempt_at, received_at; goroutines of attempts | store before the answer, duplicate, claim, process, complete, fail, clean up | SyncRecord of the Carta sync; other replicas through the table |
| HTTP resilience (`resilience.go`) | breaker: state, failures, openedAt, probeInFlight; callers: attempt, backoff | allow, onSuccess, onFailure, onAbandon; do | RMI and app-go-api clients |
| Carta synchronisation (`salesforce_sync_service.go`, `carta_servicos_client.go`, `catalog_item_repository.go`) | rows of `catalog_items`, cursor `salesforce_sync_cursor`, `sync_events` | FullSync, DeltaSync (runSync), SyncRecord | Carta API; worker, manual syncs and webhook attempts at once |
| Slug aliases (`carta_repository.go`, `persistSlugAliases`) | table `carta_service_slug_aliases` | UpsertSlugAlias(es), DeleteSlugAlias, GetServiceDetail | the writers of the Carta sync; visitors |
| Carta hierarchy, home page (`carta_repository.go`, `salesforce_sync_service.go`) | `carta_themes`, `carta_subthemes` with counts, `carta_home_featured` | upserts, soft deletes, RefreshHierarchyCounts; the transaction that replaces the home page | runSync and SyncRecord, several at once; the pages of the Carta |
| Datasource manager (`manager.go`) | one goroutine per source, manual runs | runSource, syncWithRetry, Trigger | sources, shutdown |
| app-go-api source (`appgoapi.go`) | rows of three sources | paged read, batch upsert, soft delete | app-go-api through the resilience layer |
| Typesense source (`typesense.go`) | rows, newest row of `sync_events` as cursor | cursor, export, upsert, soft delete, event | Typesense |
| Embedding backfill (`embedding_service.go`) | column `embedding` | select, embed, update, chunk by chunk | Gemini; the upserts of the sources |
| Keycloak token manager, JWKS verifier (`keycloak_token_manager.go`, `jwt_verifier.go`) | cached token with its end; cached keys with fetchedAt, lastTry | GetToken, fetchToken; key, refresh, fetch | Keycloak; concurrent requests |
| Search (`search_service.go`, `search_vectors.go`, `search_repository.go`) | query vectors in Redis | vectors, fused query, page, total | Gemini, Redis, other replicas |
| Citizen profile, recommendation (`citizen_profile_service.go`, `recommendation_service.go`) | `citizen_profiles`, recommendations in Redis | GetOrSync, background refresh, upsert, recommend | app-rmi, Redis |

Hard behaviour, and what makes each part correct:

* **Queue.** The answer is given before the work; attempts of several replicas overlap, a
  pod dies with its goroutines, results get lost, bodies arrive twice, late or never.
  Correct: no change answered with 200 is forgotten, and each is eventually written.
* **Breaker.** Calls admitted in one state report in another. Correct: the client is never
  locked out for good, a resting circuit lets nothing through, and it closes again.
* **Carta sync.** Read and write are steps of different times, the listing moves while its
  pages are read, several syncs and webhook attempts write the same rows, parts fail. Correct: a quiet
  full sync makes the catalogue equal to the Carta, what failed stays due, rows of services
  that are gone are removed.
* **Hierarchy and home page.** Statements without a transaction, writers that do not know
  counts, two replacements of one table. Correct: a quiet sync leaves the right themes and
  counts, no sync hides a theme that has services, the home page is made of whole
  snapshots.
* **Aliases.** `UpsertSlugAlias` is two statements outside a transaction, run by writers
  whose reads may contradict each other. Correct: no circle of redirects, no old link lost.
* **app-go-api.** The listing moves while its pages are read, kinds fail one by one, worker
  and manual syncs overlap. Correct: nothing offered is deleted but by a listing that moved,
  and the catalogue follows what is offered.
* **Typesense.** The cursor is the end of a sync and not its export, seconds are coarse,
  rows of `sync_events` of failed syncs shadow the cursor. Correct: no document stays out of
  the catalogue for ever, and only documents that could not be exported are hidden.
* **Embeddings.** An item is rewritten between the read of its text and the write of its
  vector; one refused text fails its whole chunk. Correct: a vector is of its own item, and
  only refused chunks stay without one.
* **Tokens and keys.** Several requests fetch at once, answers arrive out of order, keys
  rotate, Keycloak is away. Correct: a token handed out is alive, a withdrawn key expires, a
  served key is found.
* **Search.** Each page of one search is a request of its own, to any replica, and HyDE
  answers differently every time. Correct: the pages of a search fit together.
* **Profile.** Refreshes overlap and write what they read earlier. Correct: a profile taken
  for fresh is recent, and row and cached answers follow app-rmi.

The list of hazards, each at its line and with the property that covers it, is in
`PROJECT.json`.

## Modules

| Module | What it is |
| --- | --- |
| `DurableNotifications` | abstract specification: what is acknowledged is owed until copied |
| `WebhookQueue` | the queue in detail; implements `DurableNotifications` |
| `CircuitBreaker` | breaker and retry loop under concurrent callers |
| `CartaSync` | runSync and SyncRecord over rows and cursor |
| `CartaHierarchy` | themes, subthemes and their counts under the same writers |
| `SlugAliases` | the alias table statement by statement, and who still finds a page |
| `HomeConfig`, `HomeFeatured` | constants of, and the transaction that replaces the home page, under READ COMMITTED |
| `PagedConfig`, `PagedSync` | constants of, and syncWithRetry around, the paged sync of courses, jobs and MEI |
| `TypesenseSync` | cursor, export, writes and event of the Typesense source |
| `Ranking` | what an ORDER BY returns: the elements of a set by their rank |
| `BackfillConfig`, `Embeddings` | constants of, and the backfill pass |
| `TokenConfig`, `KeycloakTokenManager` | constants and behaviour of the service-account token |
| `JwksConfig`, `JwksVerifier` | constants and behaviour of the cache of Keycloak's keys |
| `SearchConfig`, `SearchPages` | constants of, and the pages of one search text |
| `ProfileConfig`, `CitizenProfile` | constants of, and the profile of a citizen with what is recommended with it |
| `MC*` | what TLC adds: values of structured constants, symmetry sets, parts side by side |
| `*_proofs` | theorems and their proofs: `WebhookQueue_proofs`, `TypesenseSync_proofs` and `Ranking_proofs` of one module, the others of the parts an MC module composes |

A `*Config` module declares the constants of a component and what is assumed of them, so
that the component and the modules that compose and prove can share them.

**WebhookQueue.** A row is the functions `status`, `body`, `attempts`, `wait` (ticks until
`next_attempt_at`); an attempt in memory is a record in `tasks`. `Enqueue` is
`WebhookHandler.SalesForce` with the insert: the row is owned by attempt 1 until its lease
ends. `ClaimDue` is the `FOR UPDATE SKIP LOCKED` statement of the reprocessor, which then
works through its batch (`StartNext`) without looking at the rows again. `ReadRemote` and
`WriteCatalog` are the two halves of `SyncRecord`; `MarkCompleted` settles every pending
event of the slug received until the claim (`covers`), `MarkFailed` reschedules only if the
attempt still owns the row. `Cleanup`, `Crash`, `StopReprocessor`, `ResultLost`, `Tick`
are retention, restarts, shutdown, failed result statements and the clock. The refinement
maps `owed` to the pending events and `copied` to the furthest change ever written.

**CircuitBreaker.** One action per way a call can start or end; the callbacks hold the
mutex, so each is part of the action that makes it. `up` is the moment after which the
service answers every call.

**CartaSync.** `Begin`, `ListPage`, `FetchDetail`/`FetchFails`, `GiveUp`,
`UpsertBatch`, `SoftDeleteOrphans`, `Finish` are the phases of `runSync` in the order of
the code, each with its failures; `ReadRecord`, `WriteRecord`, `UnlinkOld` are `SyncRecord`.
`ListPage` is one turn of the loop of `ListAllServicesBySubtheme`; the subthemes take their
turns in any order, and a change of the Carta puts a service anywhere in its subtheme
(`order`, `Place`), so services slide between two pages. A service without dates (`Dateless`)
is always fetched, and the row takes the status of the article: online (`shown`), or a draft
or an inactive one.
The clock counts changes of the Carta, so `lastModified`, the cursor and `time.Now()` are
compared exactly. `Deploy` is a new `cartaSyncVersion`, which voids the cursor. `calm`,
`torn` and `owed` are history: syncs that ran undisturbed, syncs that read a page of a
subtheme before it changed and another one after, and what a sync failed on.

**CartaHierarchy.** The same two procedures, seen from `carta_themes` and
`carta_subthemes`: themes and subthemes are stored with the counts of the listing, those a
full listing does not have are removed, and the two statements of `RefreshHierarchyCounts`
are two actions. What a delta fetches is open here. `WriteTheme` and `WriteSubtheme` are
the upserts of `SyncRecord`, which set the counts to 0.

**SlugAliases.** `job` is what a writer still has to do; `Link` and `Promote` are the
INSERT and the DELETE of `UpsertSlugAlias`. What a writer learnt is arbitrary, which
covers every pair of old and contradicting reads. `Upsert` writes the status of the article,
so it may also hide the page of the canonical slug. `Served` follows redirects as a browser
does.

**HomeFeatured.** `Normalized` is `normalizeHomeFeatured` on any list. `Delete` takes the
snapshot of the statement, `Deleted` and `Copy` wait for other transactions where
PostgreSQL does: for the rows it wants to delete, and for uncommitted rows that clash with
its own in one of the two unique constraints.

**PagedSync.** `run` is the `syncWithRetry` a goroutine is in. `FetchPage` is one turn of
the loop of `fetchAll*`, `Upsert` and `Prune` are the rest of `sync*`; each can fail, which
`GoOn` takes to the next kind and, at the end, to a wait and `Retry`, or to the end of the
run. The three kinds differ in their filters and mappings only and are one definition with
the kind as data. app-go-api may insert, remove, edit and hide items between two pages.
`amiss` and `shifted` are history: what was missing at some time of a read, and whose
listing moved under the pages.

**TypesenseSync.** One runner: the worker. `Begin` takes the cursor from the newest row of
`sync_events` (`resolveCursor`), `Export` reads the collection, the documents are written one
by one, and a complete full export hides what it did not see. `stores` says whether the
database takes the rows `Sync` inserts: with the schema of the migrations it does not (see
Findings), and both databases are explored. `late` and `away` are history: documents edited
between an export and the end of its sync, and documents the running sync could not have
exported at some time.

**Embeddings.** A pass holds the texts it selected, newest first, and calls Gemini for one
chunk after the other. A vector is the item and the version it was made of. A pass that
meets a refused text skips the chunk and goes on; an answer with fewer vectors than texts
(`AnswerEnds`) leaves the rest of its chunk for a later pass.

**KeycloakTokenManager.** Times are what remains of a life. A user that finds no valid
token requests one; `Issue` is Keycloak's answer leaving, `Store` its arrival, `Return` the
second read, of whatever is stored by then. An answer states the life of its token, does not
(`expires_in` missing or not positive, for which the code takes 300 s, `AssumedLife`), or has
no `access_token`: then an empty token is stored and returned.

**JwksVerifier.** Times are ages, capped at `RefreshTTL`. A request that does not find its
key in a fresh cache waits for `refreshMu` (`holder`), looks at the cache again, and fetches
unless somebody tried within `MinRefresh`; an error leaves it the key it saw first.

**SearchPages.** The vectors of a text in Redis (Get, SetNX, Get again), the three lists
with their limit, their fusion by weights 1.0, 2.0, 1.5 over 60 + rank in exact integers,
page and total. A vector stands for the orders a query may return for it, more than one when
items are equally far from it, and every query takes one of them. `Response` leaves out what
the reranker did not give back. `sources` is history: which lists, in which orders, answered
since the vectors were stored.

**CitizenProfile.** `GetOrSync` takes the row, starts a background refresh when it is
stale, or asks app-rmi itself when there is none; `Read` and `Upsert` are the two halves of
`syncFromRMI`; `Recommend` and `Rank` go through Redis. `outdated` is history: how long ago
a version was last app-rmi's.

**MC modules.** Parts that share no state share a run: `focus`, chosen in the initial
state, says which part a behaviour is about, and the others stand still. State spaces add
up instead of multiplying, and nothing is lost, as no step of one part reads or writes
another's state. `MCApi` is the queue with keys, token and search; `MCApiLive` the parts
with liveness, breaker, queue and profile; `MCCarta` services and hierarchy; `MCTables`
aliases and home page; `MCWorker` the three loops of the worker; `MCCartaSync` and `MCSearch` have what single
components need for runs of their own.

## Runs

| Run | Question | Bounds |
| --- | --- | --- |
| `API_safe` | queue: nothing acknowledged is lost, attempts keep distinct numbers and only overlap out of a batch, a late `Fail` does not cut a lease, the queue implements its promise, the invariant of the proofs holds; keys: a withdrawn key expires, a served one is found, fetches are apart; a token handed out lives, and an empty one is not taken for one that is kept; the pages of a search fit | queue: 2 services, 2 events, 2 replicas with batches of 2, 2 changes, 3 attempts, 2 faults, lease 2, timeout 1; keys: 2 requests, 2 keys, 2 rotations, 1 failed fetch, `RefreshTTL` 3, `MinRefresh` 2; token: 2 users, lives 1, 3 and 6, 5 for a life not stated, margin 3, timeout 1, answers without a token; search: 2 requests, 3 items, lists of 2, pages of 2, a reranker of 1 row, 2 HyDE documents, one of them equally near to two items |
| `API_live` | breaker: no lock-out, rest, recovery; queue: every acknowledged change is eventually written; profile: fresh is recent, row and answers follow app-rmi | 3 callers, threshold 2, rest 2 ticks, 2 attempts; 1 service, 2 events, 2 replicas, 2 attempts, 1 fault; 2 requests, 1 refresher, stale after 1, answers live 1, 1 change, 1 fault |
| `WQ_stale_write` | finding: the catalogue need not end at the last change | 1 service, 2 events, no fault |
| `CB_probe` | finding: two test calls at once | 3 callers, threshold 1 |
| `CS_safe` | a quiet full sync matches the Carta, what failed stays due; a quiet sync leaves the right hierarchy, a sync hides only themes without services | 3 services (one cannot be mapped, one has no date), 2 slugs, 2 subthemes, pages of 1, 3 changes, 1 fault, a listing that lags, no webhook attempt; hierarchy: 2 services, 2 themes, 1 change, 1 webhook attempt, 1 fault |
| `CS_ghosts` | a quiet full sync matches the Carta beside a webhook attempt; rows of slugs no service has or is listed under are eventually removed | 1 service, 2 slugs, 3 changes, 1 fault, a webhook attempt, a listing that lags |
| `CS_late_change` | finding: a change during a sync is not due afterwards | 1 service, 2 changes, no fault |
| `CS_redirect` | finding: the canonical row is soft-deleted | 1 service, 2 slugs, 2 changes, a listing that lags, no fault |
| `CS_pages` | finding: a published service is soft-deleted because it slid between two pages | 2 services, 2 slugs, pages of 1, 3 changes, no fault, no webhook attempt |
| `CT_tables` | no circle of redirects, no lost old slug; the home page is made of whole snapshots | 3 slugs, 2 writers, 2 syncs, 1 old slug of history, 1 fault; 2 highlights, 2 positions, lists of up to 3 with blanks, 2 overlapping syncs, 3 snapshots, 1 fault |
| `WK_sources` | app-go-api: nothing offered is deleted, the catalogue follows; Typesense: no document is forgotten, only what could not be exported is hidden, the catalogue follows; embeddings: a vector is its own item's, only refused chunks stay without | 2 courses and a job in any order and selection, pages of 1, worker and a manual sync, 2 attempts, 1 change, 2 faults; 2 documents, 2 seconds, 2 edits, 1 fault; 4 items, 2 refused, passes of 3, chunks of 2, 2 writes, 1 fault |
| `SP_ties` | finding: two pages of a search share an item and miss another | 1 request, 3 items, 2 of them equally near, pages of 1 |

Why the bounds are enough: two events of one service and two of different ones are what
coalescing and redelivery tell apart; two replicas and a batch of two are the smallest
overlap of a late batch with a takeover; two faults are a failure followed by a lost
result. A third caller is what a late result needs next to a running test call. One
service that moves and one that takes its place are what orphan removal can confuse; the
same two make a theme empty while the other fills. A page of
one item and two courses, or two services, are the smallest read that can shift; an item
before the page moves the other one across it. In `CS_ghosts` one
service that is published, renamed, taken away and published under its other slug is enough to
leave a row behind; several services beside a webhook attempt are the theorem `QuietFullSync`'s. Three
slugs make a circle through a third slug possible, two writers a contradiction. Two
snapshots that overlap and the one before them are what a replacement can mix. Two seconds
and two edits put an edit before an export, between it and the end, and into the second of
the end. Four items, passes of three and chunks of two leave a chunk of one and an item the
pass does not reach, which a refused chunk in front holds back. Two rotations withdraw a
key and bring another; two requests are a fetch and one that waits for it. Lists of two
over three items differ in what they cut, which is when fused pages can repeat an item.
The theorems below do not depend on any of these numbers.

Deadlock is checked in every run. A passing run fires every action of its modules.

## Fairness

`WebhookQueue`: goroutines go on (weak), time passes (weak), and a due event is claimed
when it is due again and again (strong): `ClaimDue` takes the due events by
`next_attempt_at, id`, so the one that has waited longest comes first, and an event that
failed goes behind those that are due. The strong fairness is not exercised against a queue
fuller than a batch: the runs have batches as large as their events. `CircuitBreaker`: callers call and retry (weak) and
an uncancelled call to a service that is up ends (strong: the caller may be between
calls). `CartaSync`: the ticker starts a delta sync in every interval and a sync that runs
goes on (weak), an attempt of the webhook ends. `PagedSync`: the ticker starts
a sync in every interval, and a run goes on (weak). `TypesenseSync`, `Embeddings`: the
worker's loop starts the next sync or pass and goes on with the one that runs (weak).
`CitizenProfile`: time passes, requests and goroutines go on, and the citizen keeps asking
(weak): nothing but a request starts a refresh, so `ProfileFollows` is about citizens who do.
Faults are bounded everywhere, which says that they stop; nothing is assumed of the Carta,
of senders, of visitors or of the other services.

## Proofs

Every safety property the passing runs check, invariant or action property, is also a
theorem, for all values of the constants that satisfy the assumptions below. A run whose
module composes parts has a theorem of its own (`ApiParts`, `ProcessParts`, `CartaParts`,
`TableParts`, `WorkerParts`): a behaviour of the composition is one of each part, so what is
proved of the parts holds of what TLC explores.

`WebhookQueue_proofs`, for any services, events, replicas and any configuration
`NewSalesForceWebhookService` accepts (`ConfigAssumption`):

* `TypeCorrect`: types.
* `CoverCorrect`: the inductive invariant. `AckedChangeNotLost` alone is not inductive:
  whether `Complete` may settle an event depends on what the attempt saw. `CoverInv` adds
  that bodies announce changes the Carta made (`TruthfulEvents`), that an attempt that has
  read saw the change of every event it covers and one that has written put it in the
  catalogue (`CoverSound`), and that settled events were written (`SettledWasWritten`).
* `NothingLost`: the safety property, from it.
* `DistinctCorrect`: two live attempts of an event never share a number. It needs that the
  claim increments the number in the same statement that takes the row.
* `LeaseKept` (`NewestAttemptKeepsLease`): follows from the distinct numbers. Only three
  statements write `next_attempt_at`: the insert, of another row; the claim, of a row that
  is due; `Fail`, of a row whose number is the attempt's own.
* `QueueKeepsPromise`: the refinement of `DurableNotifications`, action by action.
* `OverlapsLimited` (`OnlyBatchesOverlap`): the invariant says more of a handler's attempt,
  that while it exists it runs, is the newest of its event, and has less time left than the
  row has until it is due; a claim of the row therefore finds the attempt gone.

`MCApiLive_proofs`:

* Breaker, for any callers and configuration `newCircuitBreaker` accepts: types (with "a
  caller in backoff has an attempt left"), `ProbeOwned` (the half-open breaker's flag
  belongs to a running call), `ThresholdRespected`, `RestHolds`.
* Profile, for any requests, refreshers and durations: `FreshIsRecent`. The row is as old as
  its writer was slow, so the invariant (`ProfileInv`) is about the writers: what a sync is
  about to write was app-rmi's at most as long ago as the sync has waited, and what app-rmi
  has now is not outdated.

`MCApi_proofs`:

* Token, for any users, lives, assumed life, margin and timeout with `TokenAssumption` (lives
  are positive, the client's timeout is shorter than the margin): `ReturnedLives`. What `expires_in` did not state may be dead when it is returned, and the
  theorem says only that it came at most `AssumedLife - Margin` ago; an empty token is
  returned to nobody but those that asked Keycloak themselves. The property is not
  inductive, because what is returned was stored by any user. The invariant adds that a token
  on its way has lost no more of its life than its request has waited (`TokenCallFits`), that
  the stored token outlives its validity by the margin but for the timeout
  (`TokenMarginInv`), and that between a store and its second read the stored token, whoever
  stored it, has lost at most the timeout (`TokenStoredInv`).
* Keys, for any requests and keys and durations with `JwksAssumption` (a fetch ends before
  the next one is due, which is due before keys are old): `FetchesAreApart`,
  `WithdrawnKeysExpire`, `ServedKeysAreFound`, from one invariant (`JwksInv`): who decides on
  a fetch holds `refreshMu`; `fetchedAt` is `lastTry` but for a fetch under way or failed; and
  a set of keys, cached or on its way, is at most as old as it is taken for, in what it has
  and in what it does not have.
* Search, for any catalogue, orders with or without ties, limits, rerankers and requests:
  `PagesFitTogether`, of the lists whose vectors no two items are equally far from. A request that
  is sure of its vectors has those of Redis, which change only when there are none, so
  whatever was fused with a HyDE document was fused with the same one (`SearchInv`). The rest
  is about one list: its fusion is a strict order, the page operator cuts it into disjoint
  pieces, and those before the last are full. The denominator must be a multiple of every
  60 + rank (`SearchAssumption`), which makes the scores exact; floating point is not modelled.

`MCTables_proofs`, for any finite set of slugs, any writers, entries and bounds:

* Aliases: types (with "no row redirects to its own slug", which needs that a writer links
  only slugs other than the canonical one), and
  `NoCycle`. `NoRedirectCycle` is inductive with that: an INSERT can close a circle only
  through the canonical slug, which its own pending DELETE excuses; a DELETE takes its slug
  out of every circle; a fault moves the excuse to `lost`. `HistoryWritten`
  (`AliasesWritten`) follows a writer that runs alone from phase to phase: the slugs of its
  history it has handled lead to the canonical one, the slug it was asked for does from the
  `history` phase on, and the canonical slug has no alias once `persistSlugAliases` has
  deleted it.
* `SlugsStayServed` (`NoSlugLost`), of a `SyncRecord` whose article is active; a draft or an
  inactive one hides its pages, and then nothing is promised of them. What leads to a page is defined by recursion over the
  number of redirects. It is first shown to be the least set that has the active slugs and
  every slug that redirects into it (`PagesAreLeast`): the recursion exists, and it stands
  still after as many redirects as there are slugs, because until then each adds one. The
  library's induction cannot be used here, so induction over the naturals is proved from the
  pigeonhole principle (`NatClosed`), and with it that the recursion has a solution
  (`RecursionExists`). The invariant (`ServedInv`) then says that from the upsert on the
  canonical slug is a page; a deleted alias is its own, a new one leads to it, and the slug
  the soft delete takes leads to it by `HistoryWritten`'s invariant, so no statement takes
  a slug out of the least set (`StatementKeepsPages`).
* Home page: `ListsFit` (what `normalizeHomeFeatured` returns never clashes with itself) and
  `HomeStaysWhole`. The invariant (`HomeInv`) says of every set of rows a statement sees,
  deletes or leaves that it has all of a committed snapshot or none of it, that no two
  snapshots share a row, and that uncommitted rows clash neither with each other nor with
  what stays.

`MCCarta_proofs`, for any slugs, themes, subthemes and syncers, any finite set of services,
any size of a page, and an unbounded number of changes and faults:

* `TypeCorrect`, which needs that a live service is listed under a slug of its own that no
  other live service has or had (`CartaInv`).
* `FailedIsDue` (`FailedStaysDue`), under the assumption that there is one `runSync` at a
  time. The property says of what a sync owes that the cursor has not passed it; the cursor
  moves at the end of a sync without failures, so the invariant `DueInv` says that such a
  sync still has every owed, current and due service ahead of it: in a subtheme to list, then
  among the slugs to fetch, then among the details to write. The assumption is needed: the
  end of another sync moves the cursor past a service this one fails on. It holds while the
  syncs are the schedule of one worker, and not when an API pod runs one that was asked for
  by hand, or in the overlap of a rolling deploy. A sync whose listing was `torn` may pass a
  service that slid between two of its pages; the property and the invariant excuse that, and
  `CS_pages` shows it. For the others `PagesInv` says what is read: the pages of a subtheme
  that did not change since its first page are the first services of it, so the last page
  makes them all.
* `QuietFullSync` (`QuietFullSyncMatches`). The property is about the end of a sync; the
  invariant (`QuietInv`) says of every phase what is done already: every live service is
  listed or still to list (again by `PagesInv`, a quiet sync is never `torn`), its detail fetched or still to fetch, from the upsert on it has its
  row, from the soft delete on no other row is active. Other syncs and webhook attempts may
  write at the same time what they read of the same Carta; a write of something older, or a
  soft delete of another sync, means that the sync was not undisturbed (`calm`).
* Hierarchy: types, `QuietSyncShows` and `OnlyEmptyThemesHide`. A running sync without
  failure has, stored or still to store, every theme the Carta had services of when it listed
  them (`HierarchyRun`), so what it soft-deletes was empty then; if nobody wrote beside it
  these are the Carta's, their rows are live, and after each of the two statements of
  `RefreshHierarchyCounts` the counts it wrote are those of the rows (`CalmRun`).

`MCWorker_proofs`:

* `ItemsTypes` and `OfferedStays` (`OfferedIsKept`), for any items, kinds, page size, manual
  syncs and attempts. What is soft-deleted is what the read does not keep, so the invariant
  (`ItemsInv`) follows the read: while the listing has not moved under it, the items of its
  pages are the listing's first ones, in its order, and each is indexable or known to be
  amiss; the last page then makes the read the whole listing.
* `VectorsAreOwn` (`OwnVector`), for any items and sizes of pass and chunk. The vectors still to
  store are those of the last items of the chunk, in their order, however far the loop has
  come (`ChunkInv`), and a text read is the item's unless a synchronisation wrote it
  (`TextInv`).

`TypesenseSync_proofs`, for any collection and an unbounded number of seconds, edits and
faults: `TypeCorrect`, `NothingLost` (`NothingForgotten` in every state) and `OnlyAwayHidden`
(`PublishedIsKept` of every step). `NothingForgotten` says that a document the catalogue does
not show is due or late; that is not inductive, because a running sync has already decided
what it brings. The invariant adds, per document, what an export still to come will read
(`ExportInv`, against the cursor the sync took), what a full sync has exported or may hide
(`FullInv`), that what is still to be written is either current or of a document that
counts as late (`WriteInv`), and that the cursor is not ahead of the clock.

`Ranking_proofs`: lemmas, that an ORDER BY over a finite set returns each element once. The
backfill, the search and the home page rest on them.

Assumed of the constants, beyond what constructors check: tables, listings and slugs are
finite (a sync reads them to their end, a redirect is followed through them); sizes of pages,
lists, passes and chunks are positive; the durations of keys, and margin and timeout of the
token, are ordered as their defaults are. TLC evaluates every assumption on the values of the runs.

Only model-checked is liveness, which is out of reach of the prover: `AckedChangeApplied`,
`ClosesAfterRecovery`, `ProfileFollows`, `GhostsRemoved`, `CatalogFollowsItems`,
`CatalogFollowsDocs` and `Backfilled`; the violations of the runs that expect one are
counterexamples of TLC.

## Findings

The violation runs are disagreements between code and comment or document:
`WQ_stale_write` (overlapping attempts write in the opposite order of their reads),
`CB_probe` (a late result releases another caller's test call), `CS_late_change` (the
cursor is the time at the end of the sync, so a service published after its subtheme was
listed is passed), `CS_redirect` (a delta sync only knows the redirects of what it fetched),
`CS_pages` (the listing of a subtheme is no snapshot, and what slid between two pages is
soft-deleted), `SP_ties` (the order by distance has no id behind it, against the comment of
`search_repository.go:85`).

Observations without a run:

* A page read of app-go-api is no snapshot, so an offered item can be soft-deleted until the
  next sync; `OfferedIsKept` states when.
* `ProcessDue` works through a batch under one lease, so the last events of a slow batch are
  processed after their lease ended; `OnlyBatchesOverlap` states the limit of it.
* Two `runSync` at once share the cursor without a lock (`salesforce_sync_service.go:280`):
  when the one that listed before a service changed completes after the other failed on it,
  the cursor passes that service and no delta fetches it until it changes again, in spite of
  the log of `salesforce_sync_service.go:290`. `CartaSync` allows this with two `Syncers`; the
  runs take one, so `FailedStaysDue` is about one `runSync` at a time.
* `RecordSyncEvent` passes a nil `Metadata` for a column that is `NOT NULL`
  (`catalog_item_repository.go:442`, `000001_init_schema.sql:197`), `Sync` drops the error
  (`typesense.go:54`), so no event of Typesense is stored, no cursor is ever found, and every
  sync is a full one, against `src/README.md:114`. `TypesenseSync` takes this database
  (`stores` is FALSE) and one that accepts the row.
* The log of `salesforce_sync_service.go:290` says that the next sync retries what failed. When
  a full sync asked for by hand fails on a service that has not changed since the cursor, the
  next delta sync does not fetch it; `FailedStaysDue` is about services that were due.
* Late failures re-open an open circuit, so its rest can be longer than `OpenTimeout`.
* `SyncRecord` writes its theme and subtheme with a count of 0, so `ListThemes` hides a theme
  that has services until the next sync completes. `QuietSyncShowsHierarchy` is about syncs
  nobody wrote beside for that reason.
* A reranker that leaves documents out of its answer makes them disappear from the page
  (`search_service.go:157`): `PagesFit` compares the rows found.
* A Keycloak answer without `access_token` is stored over a token that others use, and returned
  as empty (`keycloak_token_manager.go:98`); `ReturnedTokenLives` states that only those
  that asked Keycloak themselves get it.
* A SyncRecord whose alias statement fails soft-deletes the old slug all the same
  (`salesforce_sync_service.go:606`), so the old link answers 404 until the next sync of the
  service.
* A line of the Typesense export that cannot be decoded is skipped, and after a full export
  its row is soft-deleted with those that are gone; the model calls such a document not
  `readable`.
* A slug of blanks passes the webhook handler and fails in every attempt
  (`salesforce_sync_service.go:137`): it is retried for ever.
* A citizen app-rmi no longer knows keeps the old row, and personalised answers with it.
* Every request that finds a stale row starts another refresh; the slower one may write older
  data, which the next refresh repairs.

## Left out

HTTP parsing, size limits and signatures (they refuse a request before any state
changes); text of mapped items, wording, logging and metrics; durations of backoff with
jitter (a wait ends by its timer or its context); filters, synonyms, headlines and facets of
the search (data of one query); the cache of whole search pages and of the generic
recommendations (they repeat an earlier answer); scores and journey boosts of
recommendations (floating point over texts, without state); the reranker's client and the
bounded reading of bodies; the checking of a JWT with its key; generated documentation,
configuration, wiring, router and middleware, observability, migrations and deployment
files, which have no protocol of their own.

## Plan

1. Abstract specifications the detailed ones are shown to implement, as for the queue: a
   mutual exclusion of fetches for `JwksVerifier`, an atomic replacement for `HomeFeatured`.
2. Theorems about what the assumptions of the proofs leave out: two `runSync` at a time in
   `CartaSync`, a writer that does not run alone in `SlugAliases`.
3. The order of the generic recommendations.
