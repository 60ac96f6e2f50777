------------------------------ MODULE HomeFeatured ------------------------------
(***************************************************************************)
(* The editorial snapshot of the home page, carta_home_featured.  Every     *)
(* runSync replaces it in one transaction, a DELETE and a COPY under READ   *)
(* COMMITTED; syncs overlap, and nothing but the two unique constraints of  *)
(* the table keeps their snapshots apart.                                   *)
(***************************************************************************)
EXTENDS HomeConfig, Sequences, FiniteSets

CONSTANTS
    Syncs,    \* processes that run runSync
    MaxFaults \* bounds failed statements and restarts

VARIABLES
    home,    \* the rows of carta_home_featured; by is the snapshot they came with
    job,     \* the syncHomeFeatured of each sync
    fetched, \* snapshots fetched so far
    stored,  \* history: the snapshots that were committed
    faults   \* faults so far

vars == <<home, job, fetched, stored, faults>>

Entry == [slug : Highlights \union {Blank}, position : Positions]
Row   == [slug : Highlights, position : Positions, by : 1 .. MaxSnapshots]

\* items: the normalised snapshot; sees: the rows the DELETE found; holds: those it
\* deleted and has locked.
Job == [phase : {"idle", "fetched", "delete", "copy", "commit"}, items : SUBSET Row,
        sees : SUBSET Row, holds : SUBSET Row]

TypeOK ==
    /\ home \subseteq Row
    /\ job \in [Syncs -> Job]
    /\ fetched \in 0 .. MaxSnapshots
    /\ stored \subseteq SUBSET Row
    /\ faults \in Nat

NoJob == [phase |-> "idle", items |-> {}, sees |-> {}, holds |-> {}]

Init ==
    /\ home = {}
    /\ job = [p \in Syncs |-> NoJob]
    /\ fetched = 0
    /\ stored = {}
    /\ faults = 0

-----------------------------------------------------------------------------
(* normalizeHomeFeatured.                                                   *)

Same(raw, n, m) == raw[n].slug = raw[m].slug

\* The first of the lowest positions of each slug, entries without a slug left out.
Lowest(raw) ==
    {n \in DOMAIN raw :
        /\ raw[n].slug # Blank
        /\ \A m \in DOMAIN raw : Same(raw, m, n) =>
             raw[n].position < raw[m].position \/ (raw[n].position = raw[m].position /\ n <= m)}

\* Where a slug was first listed: the order in which positions are given away.
FirstOf(raw, n) == CHOOSE m \in DOMAIN raw : Same(raw, m, n) /\ \A k \in DOMAIN raw : Same(raw, k, n) => m <= k

\* Of the slugs that want a position the first listed has it, the others are dropped.
Normalized(raw) ==
    {raw[n] : n \in {k \in Lowest(raw) :
        \A m \in Lowest(raw) : raw[m].position = raw[k].position => FirstOf(raw, k) <= FirstOf(raw, m)}}

-----------------------------------------------------------------------------
(* syncHomeFeatured.                                                        *)

Fault ==
    /\ faults < MaxFaults
    /\ faults' = faults + 1

Goto(p, record) == job' = [job EXCEPT ![p] = record]

\* ListHomeFeatured answers: any list.
Fetch(p) ==
    /\ job[p].phase = "idle"
    /\ fetched < MaxSnapshots
    /\ fetched' = fetched + 1
    /\ \E length \in 0 .. MaxEntries : \E raw \in [1 .. length -> Entry] :
         Goto(p, [NoJob EXCEPT !.phase = "fetched",
                               !.items = {[slug |-> e.slug, position |-> e.position, by |-> fetched + 1] :
                                             e \in Normalized(raw)}])
    /\ UNCHANGED <<home, stored, faults>>

\* It does not: the snapshot stays.
FetchFails(p) ==
    /\ job[p].phase = "idle"
    /\ UNCHANGED vars

\* DELETE starts: its snapshot are the rows committed now.
Delete(p) ==
    /\ job[p].phase = "fetched"
    /\ Goto(p, [job[p] EXCEPT !.phase = "delete", !.sees = home])
    /\ UNCHANGED <<home, fetched, stored, faults>>

Others(p) == Syncs \ {p}

\* It waits for transactions that deleted such rows; what they committed away is
\* passed over, what they inserted is not in the snapshot.
Deleted(p) ==
    /\ job[p].phase = "delete"
    /\ \A q \in Others(p) : job[q].holds \intersect job[p].sees = {}
    /\ Goto(p, [job[p] EXCEPT !.phase = "copy", !.holds = job[p].sees \intersect home])
    /\ UNCHANGED <<home, fetched, stored, faults>>

\* PRIMARY KEY (slug), UNIQUE (position).
Clash(r, s) == r.slug = s.slug \/ r.position = s.position

ClashSets(A, B) == \E r \in A, s \in B : Clash(r, s)

\* Rows other transactions have inserted and not committed.
Pending(p) == UNION {job[q].items : q \in {r \in Others(p) : job[r].phase = "commit"}}

\* Rows other transactions have deleted and not committed.
Leaving(p) == UNION {job[q].holds : q \in Others(p)}

\* COPY, skipped without rows, waits for a transaction it clashes with, and fails on a row that stays.
Copy(p) ==
    /\ job[p].phase = "copy"
    /\ ~ClashSets(job[p].items, Pending(p) \union Leaving(p))
    /\ Goto(p, IF ClashSets(job[p].items, home \ job[p].holds) THEN NoJob
               ELSE [job[p] EXCEPT !.phase = "commit"])
    /\ UNCHANGED <<home, fetched, stored, faults>>

\* Mutant of Replaced: the DELETE commits for itself, the COPY is lost.
OnlyDeleted(p) == home \ job[p].holds

Replaced(p) == (home \ job[p].holds) \union job[p].items

Commit(p) ==
    /\ job[p].phase = "commit"
    /\ home' = Replaced(p)
    /\ stored' = stored \union {job[p].items}
    /\ Goto(p, NoJob)
    /\ UNCHANGED <<fetched, faults>>

\* A failed statement, a deadlock PostgreSQL resolves, a restart: the transaction is
\* rolled back, the old snapshot stays.
Rollback(p) ==
    /\ job[p].phase # "idle"
    /\ Fault
    /\ Goto(p, NoJob)
    /\ UNCHANGED <<home, fetched, stored>>

-----------------------------------------------------------------------------
Next ==
    \E p \in Syncs : Fetch(p) \/ FetchFails(p) \/ Delete(p) \/ Deleted(p) \/ Copy(p) \/ Commit(p) \/ Rollback(p)

Spec == Init /\ [][Next]_vars

-----------------------------------------------------------------------------
(* Properties.                                                              *)

\* A list of the Carta never clashes with itself: its COPY into a table of its own
\* succeeds, whatever the Carta lists.
SnapshotFits == \A p \in Syncs : \A r, s \in job[p].items : r # s => ~Clash(r, s)

\* The home page is a snapshot as it was committed, or several that share no slug and
\* no position: a replacement that fails half way leaves the old one whole, and a part
\* of one never stands beside another.  It is empty only before the first one, or
\* after an empty one.
HomeIsWhole ==
    \E parts \in SUBSET stored :
        /\ home = UNION parts
        /\ \A A, B \in parts : A # B => ~ClashSets(A, B)
        /\ parts = {} => stored = {}

===============================================================================
