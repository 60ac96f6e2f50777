----------------------------- MODULE CartaHierarchy -----------------------------
(***************************************************************************)
(* The tables carta_themes and carta_subthemes beside catalog_items.  A     *)
(* runSync stores the hierarchy the Carta lists, removes what a full        *)
(* listing does not have, writes the services and, when it completes,       *)
(* counts them; a SyncRecord writes the theme and subtheme of its service   *)
(* without a count.  The pages of the themes hide a theme that counts none. *)
(* Which services a delta fetches and how the outcome comes about is        *)
(* CartaSync; here both are open.                                           *)
(***************************************************************************)
EXTENDS Naturals, FiniteSets

CONSTANTS
    Services,   \* services of the Carta
    Themes,
    Subthemes,
    ThemeOf,    \* the theme of a subtheme
    Syncers,    \* processes that run runSync
    Recorders,  \* webhook attempts: each runs SyncRecord once
    MaxChanges, \* bounds the changes of the Carta
    MaxFaults,  \* bounds failed requests, failed statements and restarts
    Nowhere     \* the subtheme of a service that is not published

VARIABLES
    carta,    \* the subtheme of each service at the Carta
    item,     \* catalog_items: active, subtheme_slug
    theme,    \* carta_themes
    subtheme, \* carta_subthemes
    sync,     \* the runSync of each syncer
    rec,      \* the SyncRecord of each recorder
    changes,  \* changes so far
    faults,   \* faults so far
    calm,     \* history: syncers nobody wrote beside, on a Carta at rest
    vacated   \* history: themes the Carta had no service of at some time of the running syncs

tables == <<item, theme, subtheme>>
vars   == <<carta, tables, sync, rec, changes, faults, calm, vacated>>

Place == Subthemes \union {Nowhere}
Count == 0 .. Cardinality(Services)

\* A row that was never inserted is in state "none".
Theme    == [row : {"none", "live", "deleted"}, published_services : Count, subthemes_count : Nat]
Subtheme == [row : {"none", "live", "deleted"}, published_services : Count]

\* counts: what the listing of the themes said; left: themes still to store; keep,
\* keepSubs: those stored; seen: the services listed; got: the details fetched.
Sync == [phase : {"idle", "store", "themes", "subthemes", "services", "write", "orphans",
                  "refresh", "refreshed", "done"},
         full : BOOLEAN, failed : BOOLEAN, counts : [Themes -> Count], left : SUBSET Themes,
         keep : SUBSET Themes, keepSubs : SUBSET Subthemes, seen : SUBSET Services,
         got : SUBSET [id : Services, at : Subthemes]]
Rec  == [phase : {"idle", "item", "theme", "subtheme", "over"}, id : SUBSET Services, at : Place]

TypeOK ==
    /\ carta \in [Services -> Place]
    /\ item \in [Services -> [active : BOOLEAN, at : Place]]
    /\ theme \in [Themes -> Theme]
    /\ subtheme \in [Subthemes -> Subtheme]
    /\ sync \in [Syncers -> Sync]
    /\ rec \in [Recorders -> Rec]
    /\ changes \in Nat
    /\ faults \in Nat
    /\ calm \subseteq Syncers
    /\ vacated \subseteq Themes

NoSync == [phase |-> "idle", full |-> FALSE, failed |-> FALSE, counts |-> [t \in Themes |-> 0],
           left |-> {}, keep |-> {}, keepSubs |-> {}, seen |-> {}, got |-> {}]
NoRec  == [phase |-> "idle", id |-> {}, at |-> Nowhere]
Over   == [NoRec EXCEPT !.phase = "over"]

\* A new catalogue and any Carta.
Init ==
    /\ carta \in [Services -> Place]
    /\ item = [i \in Services |-> [active |-> FALSE, at |-> Nowhere]]
    /\ theme = [t \in Themes |-> [row |-> "none", published_services |-> 0, subthemes_count |-> 0]]
    /\ subtheme = [u \in Subthemes |-> [row |-> "none", published_services |-> 0]]
    /\ sync = [p \in Syncers |-> NoSync]
    /\ rec = [w \in Recorders |-> NoRec]
    /\ changes = 0
    /\ faults = 0
    /\ calm = {}
    /\ vacated = {}

-----------------------------------------------------------------------------
(* The Carta.                                                               *)

InTheme(t)    == {i \in Services : carta[i] # Nowhere /\ ThemeOf[carta[i]] = t}
InSubtheme(u) == {i \in Services : carta[i] = u}

\* ListAllThemes without the empty ones, ListAllSubthemes.
ListedThemes       == {t \in Themes : InTheme(t) # {}}
ListedSubthemes(t) == {u \in Subthemes : ThemeOf[u] = t /\ InSubtheme(u) # {}}

\* A service is published, moved to another subtheme, or withdrawn.
Change(i, u) ==
    /\ changes < MaxChanges
    /\ carta[i] # u
    /\ changes' = changes + 1
    /\ carta' = [carta EXCEPT ![i] = u]
    /\ calm' = {}
    /\ vacated' = IF carta[i] # Nowhere /\ InTheme(ThemeOf[carta[i]]) = {i}
                  THEN vacated \union {ThemeOf[carta[i]]} ELSE vacated
    /\ UNCHANGED <<tables, sync, rec, faults>>

-----------------------------------------------------------------------------
(* runSync.                                                                 *)

Fault ==
    /\ faults < MaxFaults
    /\ faults' = faults + 1

Goto(p, record) == sync' = [sync EXCEPT ![p] = record]

Alone(p) == calm' = calm \intersect {p}

\* listAndPersistHierarchy: ListAllThemes.
Begin(p, full) ==
    /\ sync[p].phase = "idle"
    /\ Goto(p, [NoSync EXCEPT !.phase = "store", !.full = full, !.left = ListedThemes,
                              !.counts = [t \in Themes |-> Cardinality(InTheme(t))]])
    /\ calm' = calm \union {p}
    /\ vacated' = (IF \A q \in Syncers : sync[q].phase = "idle" THEN {} ELSE vacated)
                  \union (Themes \ ListedThemes)
    /\ UNCHANGED <<carta, tables, rec, changes, faults>>

\* UpsertTheme, UpsertSubtheme: the row is live again.
LiveTheme(t, n, m) == [theme EXCEPT ![t] = [row |-> "live", published_services |-> n, subthemes_count |-> m]]

LiveSubthemes(us, counts) ==
    [u \in Subthemes |-> IF u \in us THEN [row |-> "live", published_services |-> counts[u]] ELSE subtheme[u]]

\* The goroutine of a theme: its row, the listing of its subthemes, their rows.
StoreTheme(p, t) ==
    /\ sync[p].phase = "store"
    /\ t \in sync[p].left
    /\ theme' = LiveTheme(t, sync[p].counts[t], Cardinality(ListedSubthemes(t)))
    /\ subtheme' = LiveSubthemes(ListedSubthemes(t), [u \in Subthemes |-> Cardinality(InSubtheme(u))])
    /\ Goto(p, [sync[p] EXCEPT !.left = @ \ {t}, !.keep = @ \union {t},
                               !.keepSubs = @ \union ListedSubthemes(t)])
    /\ Alone(p)
    /\ UNCHANGED <<carta, item, rec, changes, faults, vacated>>

\* It fails at its row, at the listing or at a subtheme; the other themes go on.
StoreFails(p, t) ==
    /\ sync[p].phase = "store"
    /\ t \in sync[p].left
    /\ Fault
    /\ \/ UNCHANGED <<theme, subtheme>>
       \/ /\ theme' = LiveTheme(t, sync[p].counts[t], Cardinality(ListedSubthemes(t)))
          /\ \E some \in SUBSET ListedSubthemes(t) :
               subtheme' = LiveSubthemes(some, [u \in Subthemes |-> Cardinality(InSubtheme(u))])
    /\ Goto(p, [sync[p] EXCEPT !.left = @ \ {t}, !.failed = TRUE])
    /\ Alone(p)
    /\ UNCHANGED <<carta, item, rec, changes, vacated>>

\* Mutant of MayPrune: also after a theme that could not be listed.
PrunesAlways(p) == sync[p].full

\* isFull and no hierarchyErr.
MayPrune(p) == sync[p].full /\ ~sync[p].failed

\* The goroutines are through: on to the soft deletes or to the services; an error
\* ends the sync.
Stored(p) ==
    /\ sync[p].phase = "store"
    /\ sync[p].left = {}
    /\ Goto(p, IF MayPrune(p) THEN [sync[p] EXCEPT !.phase = "themes"]
               ELSE IF sync[p].failed THEN NoSync
               ELSE [sync[p] EXCEPT !.phase = "services"])
    /\ UNCHANGED <<carta, tables, rec, changes, faults, calm, vacated>>

\* SoftDeleteThemesNotIn, also with an empty list; a failure is only logged.
PruneThemes(p) ==
    /\ sync[p].phase = "themes"
    /\ \/ /\ theme' = [t \in Themes |-> IF t \notin sync[p].keep /\ theme[t].row = "live"
                                        THEN [theme[t] EXCEPT !.row = "deleted"] ELSE theme[t]]
          /\ UNCHANGED faults
       \/ Fault /\ UNCHANGED theme
    /\ Goto(p, [sync[p] EXCEPT !.phase = "subthemes"])
    /\ Alone(p)
    /\ UNCHANGED <<carta, item, subtheme, rec, changes, vacated>>

\* SoftDeleteSubthemesNotIn.
PruneSubthemes(p) ==
    /\ sync[p].phase = "subthemes"
    /\ \/ /\ subtheme' = [u \in Subthemes |-> IF u \notin sync[p].keepSubs /\ subtheme[u].row = "live"
                                              THEN [subtheme[u] EXCEPT !.row = "deleted"] ELSE subtheme[u]]
          /\ UNCHANGED faults
       \/ Fault /\ UNCHANGED subtheme
    /\ Goto(p, IF sync[p].failed THEN NoSync ELSE [sync[p] EXCEPT !.phase = "services"])
    /\ Alone(p)
    /\ UNCHANGED <<carta, item, theme, rec, changes, vacated>>

\* The services of the subthemes are listed and details fetched: of all of them in a
\* full sync, of some in a delta.
ReadServices(p) ==
    LET listed == {i \in Services : carta[i] \in sync[p].keepSubs}
    IN  /\ sync[p].phase = "services"
        /\ \E fetched \in SUBSET listed :
             /\ sync[p].full => fetched = listed
             /\ Goto(p, [sync[p] EXCEPT !.phase = "write", !.seen = listed,
                                        !.got = {[id |-> i, at |-> carta[i]] : i \in fetched}])
        /\ UNCHANGED <<carta, tables, rec, changes, faults, calm, vacated>>

\* UpsertBatch.
WriteServices(p) ==
    /\ sync[p].phase = "write"
    /\ item' = [i \in Services |->
                  IF \E d \in sync[p].got : d.id = i
                  THEN [active |-> TRUE, at |-> (CHOOSE d \in sync[p].got : d.id = i).at]
                  ELSE item[i]]
    /\ Goto(p, [sync[p] EXCEPT !.phase = "orphans"])
    /\ Alone(p)
    /\ UNCHANGED <<carta, theme, subtheme, rec, changes, faults, vacated>>

\* SoftDeleteActiveNotIn, unless nothing was listed.
SoftDeleteOrphans(p) ==
    /\ sync[p].phase = "orphans"
    /\ item' = [i \in Services |-> IF sync[p].seen # {} /\ i \notin sync[p].seen
                                   THEN [item[i] EXCEPT !.active = FALSE] ELSE item[i]]
    /\ Goto(p, [sync[p] EXCEPT !.phase = "refresh"])
    /\ Alone(p)
    /\ UNCHANGED <<carta, theme, subtheme, rec, changes, faults, vacated>>

\* A listing, the batch, a detail or the soft delete fails, or the pod restarts: the
\* sync ends, and counts nothing.
Ends(p) ==
    /\ sync[p].phase # "idle"
    /\ Fault
    /\ Goto(p, NoSync)
    /\ UNCHANGED <<carta, tables, rec, changes, calm, vacated>>

\* Mutant of Counted: deleted services count.
CountsDeleted(i) == TRUE

\* status = 'active' AND deleted_at IS NULL
Counted(i) == item[i].active

ItemsIn(us) == {i \in Services : item[i].at \in us /\ Counted(i)}
SubsOf(t)   == {u \in Subthemes : ThemeOf[u] = t}

\* RefreshHierarchyCounts of a completed sync: the UPDATE of the subthemes.
RefreshSubthemes(p) ==
    /\ sync[p].phase = "refresh"
    /\ subtheme' = [u \in Subthemes |-> IF subtheme[u].row = "live"
                                        THEN [subtheme[u] EXCEPT !.published_services = Cardinality(ItemsIn({u}))]
                                        ELSE subtheme[u]]
    /\ Goto(p, [sync[p] EXCEPT !.phase = "refreshed"])
    /\ Alone(p)
    /\ UNCHANGED <<carta, item, theme, rec, changes, faults, vacated>>

\* The UPDATE of the themes.
RefreshThemes(p) ==
    /\ sync[p].phase = "refreshed"
    /\ theme' = [t \in Themes |->
                   IF theme[t].row = "live"
                   THEN [row |-> "live", published_services |-> Cardinality(ItemsIn(SubsOf(t))),
                         subthemes_count |-> Cardinality({u \in SubsOf(t) : subtheme[u].row = "live"})]
                   ELSE theme[t]]
    /\ Goto(p, [sync[p] EXCEPT !.phase = "done"])
    /\ Alone(p)
    /\ UNCHANGED <<carta, item, subtheme, rec, changes, faults, vacated>>

Done(p) ==
    /\ sync[p].phase = "done"
    /\ Goto(p, NoSync)
    /\ calm' = calm \ {p}
    /\ UNCHANGED <<carta, tables, rec, changes, faults, vacated>>

-----------------------------------------------------------------------------
(* SyncRecord.                                                              *)

\* GetServiceCanonical.
ReadRecord(w, i) ==
    /\ rec[w].phase = "idle"
    /\ rec' = [rec EXCEPT ![w] = [phase |-> "item", id |-> {i}, at |-> carta[i]]]
    /\ UNCHANGED <<carta, tables, sync, changes, faults, calm, vacated>>

\* Upsert, or SoftDelete after a 404, which ends the attempt.
WriteItem(w) ==
    /\ rec[w].phase = "item"
    /\ item' = [i \in Services |->
                  IF i \notin rec[w].id THEN item[i]
                  ELSE IF rec[w].at = Nowhere THEN [item[i] EXCEPT !.active = FALSE]
                  ELSE [active |-> TRUE, at |-> rec[w].at]]
    /\ rec' = [rec EXCEPT ![w] = IF @.at = Nowhere THEN Over ELSE [@ EXCEPT !.phase = "theme"]]
    /\ calm' = {}
    /\ UNCHANGED <<carta, theme, subtheme, sync, changes, faults, vacated>>

\* UpsertTheme with a name only: the counts become 0.  An error is passed over.
WriteTheme(w) ==
    /\ rec[w].phase = "theme"
    /\ \/ theme' = LiveTheme(ThemeOf[rec[w].at], 0, 0) /\ UNCHANGED faults
       \/ Fault /\ UNCHANGED theme
    /\ rec' = [rec EXCEPT ![w].phase = "subtheme"]
    /\ calm' = {}
    /\ UNCHANGED <<carta, item, subtheme, sync, changes, vacated>>

\* UpsertSubtheme likewise; it refers to the row of its theme.
WriteSubtheme(w) ==
    /\ rec[w].phase = "subtheme"
    /\ \/ /\ theme[ThemeOf[rec[w].at]].row # "none"
          /\ subtheme' = LiveSubthemes({rec[w].at}, [u \in Subthemes |-> 0])
          /\ UNCHANGED faults
       \/ theme[ThemeOf[rec[w].at]].row = "none" /\ UNCHANGED <<subtheme, faults>>
       \/ Fault /\ UNCHANGED subtheme
    /\ rec' = [rec EXCEPT ![w] = Over]
    /\ calm' = {}
    /\ UNCHANGED <<carta, item, theme, sync, changes, vacated>>

\* A failed read or write of the service, a timeout, a restart.
DropRecord(w) ==
    /\ rec[w].phase \notin {"idle", "over"}
    /\ Fault
    /\ rec' = [rec EXCEPT ![w] = Over]
    /\ UNCHANGED <<carta, tables, sync, changes, calm, vacated>>

-----------------------------------------------------------------------------
SyncStep(p) ==
    \/ \E t \in Themes : StoreTheme(p, t)
    \/ Stored(p) \/ PruneThemes(p) \/ PruneSubthemes(p)
    \/ ReadServices(p) \/ WriteServices(p) \/ SoftDeleteOrphans(p)
    \/ RefreshSubthemes(p) \/ RefreshThemes(p) \/ Done(p)

RecStep(w) == WriteItem(w) \/ WriteTheme(w) \/ WriteSubtheme(w)

Next ==
    \/ \E i \in Services, u \in Place : Change(i, u)
    \/ \E p \in Syncers :
        \/ \E full \in BOOLEAN : Begin(p, full)
        \/ SyncStep(p)
        \/ \E t \in Themes : StoreFails(p, t)
        \/ Ends(p)
    \/ \E w \in Recorders :
        \/ \E i \in Services : ReadRecord(w, i)
        \/ RecStep(w)
        \/ DropRecord(w)

Spec == Init /\ [][Next]_vars

-----------------------------------------------------------------------------
(* Properties.                                                              *)

\* ListThemes without include_empty.
Visible(t) == theme[t].row = "live" /\ theme[t].published_services > 0

Active(us) == {i \in Services : item[i].active /\ item[i].at \in us}

AsCarta(i) == IF carta[i] = Nowhere THEN ~item[i].active ELSE item[i] = [active |-> TRUE, at |-> carta[i]]

\* A completed sync nobody wrote beside, after which the catalogue is as the Carta,
\* leaves a hierarchy that is right: the themes that show are those with services,
\* the counts are theirs, and the subtheme of every service is listed.  Whatever
\* was there before: rows without counts, deleted ones, emptied ones.
QuietSyncShowsHierarchy ==
    \A p \in calm : sync[p].phase = "done" /\ (\A i \in Services : AsCarta(i)) =>
        /\ \A t \in Themes :
             /\ Visible(t) <=> Active(SubsOf(t)) # {}
             /\ Visible(t) => theme[t].published_services = Cardinality(Active(SubsOf(t)))
        /\ \A u \in Subthemes : Active({u}) # {} =>
             subtheme[u] = [row |-> "live", published_services |-> Cardinality(Active({u}))]

\* A sync hides a theme only if it has no service left here, or had none at the
\* Carta at some time of the running syncs: a theme whose listing failed stays.
HidesOnlyEmptyThemes ==
    [][\A t \in Themes : Visible(t) /\ ~Visible(t)' =>
         \/ rec' # rec
         \/ Active(SubsOf(t))' = {}
         \/ t \in vacated]_vars

===============================================================================
