----------------------------- MODULE MCCarta_proofs -----------------------------
(***************************************************************************)
(* Theorems about what the synchronisations of the Carta write, for any     *)
(* services, slugs, themes and subthemes and an unbounded number of changes *)
(* and faults.  CartaSync: its types; for one runSync at a time, that what  *)
(* a sync failed on stays due; that a full sync on a Carta at rest leaves   *)
(* the catalogue as the Carta is.  CartaHierarchy: its types; that a sync   *)
(* nobody wrote beside leaves the right hierarchy; that no sync hides a     *)
(* theme that has services.                                                 *)
(***************************************************************************)
EXTENDS MCCarta, FiniteSetTheorems, TLAPS

-----------------------------------------------------------------------------
(* The inductive invariant.                                                 *)

Names(i) == {carta[i].slug} \union carta[i].old

\* A live service is listed under a slug it has or had, and shares none with another;
\* one that is not published has none.  No service is listed before itself.
CartaInv ==
    /\ \A i \in Services : carta[i].ver <= clock
    /\ \A i \in Services : <<i, i>> \notin order
    /\ \A i \in Services : IF Live(i) THEN carta[i].listed \in Names(i) \ {None} ELSE carta[i].old = {}
    /\ \A i, j \in Services : Live(i) /\ Live(j) /\ i # j => Names(i) \intersect Names(j) = {}

\* The entries of the first n services of a subtheme, and what a sync that sees the
\* subtheme as it is has read of it.
FirstOf(st, n) == {i \in InSubtheme(st) : Cardinality(Ahead(i)) < n}

SoFar(p, st) == {Entry(i) : i \in FirstOf(st, sync[p].offset[st])}

\* Unless a subtheme changed between two pages, the pages read are its first ones.
PagesOf(p) ==
    /\ \A st \in Subthemes : sync[p].offset[st] > 0 => sync[p].phase = "list" /\ st \in sync[p].left
    /\ p \in torn => sync[p].phase # "idle" /\ p \notin calm
    /\ sync[p].phase = "list" /\ p \notin torn =>
         \A st \in sync[p].left : sync[p].pages[st] = SoFar(p, st)

PagesInv == \A p \in Syncers : PagesOf(p)

\* What a sync owes and may not lose; an item without a date is due in every sync.
Pressing(item) == item \in owed /\ item.mod # 0 /\ Current(item) /\ item.wasDue

Listed(p, item) == [slug |-> item.slug, mod |-> item.mod] \in sync[p].listed

\* A listing that was torn does not have the item.
Slid(p, item) == p \in torn /\ \A y \in sync[p].listed : y.slug # item.slug

\* The subtheme of the item is still to list.
ToList(p, item) ==
    \E i \in Services : Live(i) /\ carta[i].listed = item.slug /\ Mod(i) = item.mod
                        /\ carta[i].subtheme \in sync[p].left

\* While a sync has not failed it has what is pressing ahead of it: in a subtheme to
\* list, then in a detail to fetch, then in a detail to write; or its listing was torn.
InSight(p, item) ==
    /\ \A y \in sync[p].listed : y.slug = item.slug => y.mod = item.mod
    /\ \A st \in Subthemes : \A y \in sync[p].pages[st] : y.slug = item.slug => y.mod = item.mod
    /\ sync[p].phase = "list" => ToList(p, item) \/ Listed(p, item) \/ p \in torn
    /\ sync[p].phase = "fetch" =>
         \/ item.slug \in sync[p].toFetch
         \/ \E d \in sync[p].got : d.from = item.slug
         \/ Slid(p, item)
    /\ sync[p].phase \in {"orphans", "finish"} => Slid(p, item)

Running(p) == sync[p].phase # "idle"

SyncInv(p) ==
    /\ sync[p].since \in {0, cursor}
    /\ \A y \in sync[p].listed : y.mod <= clock
    /\ \A st \in Subthemes : \A y \in sync[p].pages[st] : y.mod <= clock
    /\ sync[p].phase = "list" => ~sync[p].failed
    /\ Running(p) /\ ~sync[p].failed => \A item \in owed : Pressing(item) => InSight(p, item)

OwedInv == \A item \in owed : item.mod <= clock

\* With one runSync at a time.
DueInv ==
    /\ OwedInv
    /\ \A p \in Syncers : SyncInv(p)
    /\ FailedStaysDue

-----------------------------------------------------------------------------
(* The Carta.                                                               *)

\* What a listing is sorted by is about the service that changed.
LEMMA PlacedApart ==
    ASSUME TypeOK, NEW i \in Services, order' = Apart(i) \/ \E st \in Subthemes : Place(i, st)
    PROVE  /\ order' \subseteq Services \X Services
           /\ \A j, k \in Services \ {i} : <<j, k>> \in order' <=> <<j, k>> \in order
           /\ \A j \in Services : <<j, j>> \in order' => <<j, j>> \in order
<1>1. /\ Apart(i) \subseteq order /\ order \subseteq Services \X Services
      /\ \A j, k \in Services \ {i} : <<j, k>> \in Apart(i) <=> <<j, k>> \in order
  BY DEF Apart, TypeOK
<1>2. CASE order' = Apart(i)
  BY <1>1, <1>2
<1>3. ASSUME NEW st \in Subthemes, Place(i, st)
      PROVE  \E front, behind \in SUBSET (Services \ {i}) :
               order' = Apart(i) \union (front \X {i}) \union ({i} \X behind)
  BY <1>3 DEF Place, InSubtheme
<1>4. ASSUME NEW front \in SUBSET (Services \ {i}), NEW behind \in SUBSET (Services \ {i}),
             order' = Apart(i) \union (front \X {i}) \union ({i} \X behind)
      PROVE  /\ order' \subseteq Services \X Services
             /\ \A j, k \in Services \ {i} : <<j, k>> \in order' <=> <<j, k>> \in order
             /\ \A j \in Services : <<j, j>> \in order' => <<j, j>> \in order
  BY <1>1, <1>4
<1> QED BY <1>2, <1>3, <1>4

\* What a change of a service is: the others stay, and this one is new or gone.
Changed(i, x) ==
    /\ x \in Published
    /\ x.slug # None => x.ver = clock + 1
    /\ x.ver <= clock + 1
    /\ order' = Apart(i) \/ \E st \in Subthemes : Place(i, st)
    /\ Change(i, x)

LEMMA PublishedService ==
    ASSUME TypeOK, CartaInv, NEW i \in Services, NEW s \in Slugs, NEW shown \in BOOLEAN, Publish(i, s, shown)
    PROVE  \E x : Changed(i, x) /\ ~Live(i) /\ ~Taken(s) /\ x.slug = s /\ x.listed = s /\ x.old = carta[i].old
<1>1. carta[i] \in Published /\ carta[i].ver <= clock /\ clock \in Nat /\ clock + 1 \in Nat
  BY DEF TypeOK, CartaInv
<1>2. PICK x : x = [carta[i] EXCEPT !.slug = s, !.listed = s, !.shown = shown, !.ver = clock + 1]
  OBVIOUS
<1>3. x \in Published /\ x.ver = clock + 1 /\ x.slug = s /\ x.listed = s /\ x.old = carta[i].old
  BY <1>1, <1>2 DEF Published
<1>4. Change(i, x) /\ Place(i, carta[i].subtheme) /\ carta[i].subtheme \in Subthemes /\ ~Live(i) /\ ~Taken(s)
  BY <1>1, <1>2 DEF Publish, Published
<1> QED BY <1>1, <1>3, <1>4 DEF Changed

LEMMA EditedService ==
    ASSUME TypeOK, CartaInv, NEW i \in Services, NEW st \in Subthemes, NEW shown \in BOOLEAN, Edit(i, st, shown)
    PROVE  \E x : /\ Changed(i, x) /\ Live(i) /\ x.slug = carta[i].slug /\ x.listed = carta[i].listed
                 /\ x.old = carta[i].old
<1>1. carta[i] \in Published /\ carta[i].ver <= clock /\ clock \in Nat /\ clock + 1 \in Nat
  BY DEF TypeOK, CartaInv
<1>2. PICK x : x = [carta[i] EXCEPT !.subtheme = st, !.shown = shown, !.ver = clock + 1]
  OBVIOUS
<1>3. x \in Published /\ x.ver = clock + 1 /\ x.slug = carta[i].slug /\ x.listed = carta[i].listed
      /\ x.old = carta[i].old
  BY <1>1, <1>2 DEF Published
<1>4. Change(i, x) /\ Place(i, st) /\ Live(i)
  BY <1>2 DEF Edit
<1> QED BY <1>1, <1>3, <1>4 DEF Changed

LEMMA RenamedService ==
    ASSUME TypeOK, CartaInv, NEW i \in Services, NEW s \in Slugs, Rename(i, s)
    PROVE  \E x : /\ Changed(i, x) /\ Live(i) /\ ~Taken(s) /\ x.slug = s /\ x.listed \in {s, carta[i].listed}
                 /\ x.old = carta[i].old \union {carta[i].slug}
<1>1. carta[i] \in Published /\ carta[i].ver <= clock /\ clock \in Nat /\ clock + 1 \in Nat
  BY DEF TypeOK, CartaInv
<1>2. PICK listed \in {s} \union (IF ListingLags THEN {carta[i].listed} ELSE {}) :
        Change(i, [carta[i] EXCEPT !.slug = s, !.listed = listed,
                                   !.old = @ \union {carta[i].slug}, !.ver = clock + 1])
  BY DEF Rename
<1>3. PICK x : x = [carta[i] EXCEPT !.slug = s, !.listed = listed,
                                    !.old = @ \union {carta[i].slug}, !.ver = clock + 1]
  OBVIOUS
<1>4. carta[i].slug \in Slugs /\ listed \in {s, carta[i].listed} /\ listed \in Slugs \union {None}
  BY <1>1, <1>2 DEF Rename, Live, Published
<1>5. x \in Published /\ x.ver = clock + 1 /\ x.slug = s /\ x.listed = listed
      /\ x.old = carta[i].old \union {carta[i].slug}
  BY <1>1, <1>3, <1>4 DEF Published
<1>6. Change(i, x) /\ Place(i, carta[i].subtheme) /\ carta[i].subtheme \in Subthemes /\ Live(i) /\ ~Taken(s)
  BY <1>1, <1>2, <1>3 DEF Rename, Published
<1> QED BY <1>1, <1>4, <1>5, <1>6 DEF Changed

LEMMA UnpublishedService ==
    ASSUME TypeOK, CartaInv, NEW i \in Services, Unpublish(i)
    PROVE  \E x : Changed(i, x) /\ x.slug = None /\ x.old = {}
<1>1. carta[i] \in Published /\ carta[i].ver <= clock /\ clock \in Nat /\ clock + 1 \in Nat
  BY DEF TypeOK, CartaInv
<1>2. PICK x : x = [carta[i] EXCEPT !.slug = None, !.listed = None, !.old = {}]
  OBVIOUS
<1>3. x \in Published /\ x.ver = carta[i].ver /\ x.slug = None /\ x.old = {}
  BY <1>1, <1>2 DEF Published
<1>4. Change(i, x) /\ order' = Apart(i)
  BY <1>2 DEF Unpublish
<1> QED BY <1>1, <1>3, <1>4 DEF Changed, Published

LEMMA SomeChange ==
    ASSUME TypeOK, CartaInv, CartaChanges PROVE \E i \in Services : \E x : Changed(i, x)
<1>1. PICK i \in Services :
        \/ \E s \in Slugs : Rename(i, s) \/ \E shown \in BOOLEAN : Publish(i, s, shown)
        \/ \E st \in Subthemes, shown \in BOOLEAN : Edit(i, st, shown)
        \/ Unpublish(i)
  BY DEF CartaChanges
<1> QED BY <1>1, PublishedService, EditedService, RenamedService, UnpublishedService

\* What that leaves alone, and what it does not.
LEMMA ChangeEffect ==
    ASSUME TypeOK, CartaInv, NEW i \in Services, NEW x, Changed(i, x)
    PROVE  /\ clock' = clock + 1 /\ clock \in Nat
           /\ carta'[i] = x /\ carta' \in [Services -> Published]
           /\ \A j \in Services \ {i} : carta'[j] = carta[j]
           /\ calm' = {}
           /\ torn \subseteq torn' /\ torn' \subseteq Syncers
           /\ UNCHANGED <<row, cursor, sync, rec, faults, owed>>
BY DEF Changed, Change, TypeOK

LEMMA CartaChangesType == TypeOK /\ CartaInv /\ CartaChanges => TypeOK'
<1> SUFFICES ASSUME TypeOK, CartaInv, CartaChanges PROVE TypeOK'
  OBVIOUS
<1>0. PICK i \in Services : \E x : Changed(i, x)
  BY SomeChange
<1>1. PICK x : Changed(i, x)
  BY <1>0
<1>2. order' \subseteq Services \X Services
  BY <1>1, PlacedApart DEF Changed
<1> QED BY <1>1, <1>2, ChangeEffect DEF TypeOK

\* Slugs stay with the service that has or had them: a new one is taken by nobody.
LEMMA CartaInvNext == TypeOK /\ CartaInv /\ CartaChanges => CartaInv'
<1> SUFFICES ASSUME TypeOK, CartaInv, CartaChanges PROVE CartaInv'
  OBVIOUS
<1>0. PICK i \in Services :
        \/ \E s \in Slugs : Rename(i, s) \/ \E shown \in BOOLEAN : Publish(i, s, shown)
        \/ \E st \in Subthemes, shown \in BOOLEAN : Edit(i, st, shown)
        \/ Unpublish(i)
  BY DEF CartaChanges
<1>1. PICK x : /\ Changed(i, x)
               /\ \/ \E s \in Slugs : ~Live(i) /\ ~Taken(s) /\ x.slug = s /\ x.listed = s /\ x.old = carta[i].old
                  \/ Live(i) /\ x.slug = carta[i].slug /\ x.listed = carta[i].listed /\ x.old = carta[i].old
                  \/ \E s \in Slugs : Live(i) /\ ~Taken(s) /\ x.slug = s /\ x.listed \in {s, carta[i].listed}
                                      /\ x.old = carta[i].old \union {carta[i].slug}
                  \/ x.slug = None /\ x.old = {}
  <2>1. ASSUME NEW s \in Slugs, NEW shown \in BOOLEAN, Publish(i, s, shown)
        PROVE  \E x : Changed(i, x) /\ ~Live(i) /\ ~Taken(s) /\ x.slug = s /\ x.listed = s /\ x.old = carta[i].old
    BY <2>1, PublishedService
  <2>2. ASSUME NEW st \in Subthemes, NEW shown \in BOOLEAN, Edit(i, st, shown)
        PROVE  \E x : Changed(i, x) /\ Live(i) /\ x.slug = carta[i].slug /\ x.listed = carta[i].listed
                      /\ x.old = carta[i].old
    BY <2>2, EditedService
  <2>3. ASSUME NEW s \in Slugs, Rename(i, s)
        PROVE  \E x : Changed(i, x) /\ Live(i) /\ ~Taken(s) /\ x.slug = s /\ x.listed \in {s, carta[i].listed}
                      /\ x.old = carta[i].old \union {carta[i].slug}
    BY <2>3, RenamedService
  <2>4. ASSUME Unpublish(i) PROVE \E x : Changed(i, x) /\ x.slug = None /\ x.old = {}
    BY <2>4, UnpublishedService
  <2> QED BY <1>0, <2>1, <2>2, <2>3, <2>4, Zenon
<1>2. /\ clock' = clock + 1 /\ clock \in Nat /\ carta'[i] = x
      /\ \A j \in Services : j # i => carta'[j] = carta[j]
  BY <1>1, ChangeEffect
<1>3. \A j \in Services : carta'[j].ver <= clock'
  <2>1. \A j \in Services : carta[j].ver \in Nat /\ carta[j].ver <= clock
    BY DEF TypeOK, Published, CartaInv
  <2> QED BY <1>1, <1>2, <2>1 DEF Changed
<1>9. \A j \in Services : <<j, j>> \notin order'
  BY <1>1, PlacedApart DEF Changed, CartaInv
<1>4. /\ IF Live(i)' THEN carta'[i].listed \in Names(i)' \ {None} ELSE carta'[i].old = {}
      /\ Live(i)' => \A n \in Names(i)' : (n \in Names(i) /\ Live(i)) \/ ~Taken(n)
  <2>1. None \notin Slugs
    BY SyncAssumption
  <2>2. /\ Live(i) => carta[i].listed \in Names(i) \ {None}
        /\ ~Live(i) => carta[i].old = {}
    BY DEF CartaInv
  <2>3. (Live(i)' <=> x.slug # None) /\ Names(i)' = {x.slug} \union x.old
    BY <1>2 DEF Live, Names
  <2> QED BY <1>1, <1>2, <2>1, <2>2, <2>3 DEF Names, Live
<1>5. \A j \in Services \ {i} : Names(j)' = Names(j) /\ Live(j)' = Live(j)
  BY <1>2 DEF Names, Live
<1>6. \A j \in Services \ {i} : IF Live(j)' THEN carta'[j].listed \in Names(j)' \ {None} ELSE carta'[j].old = {}
  BY <1>2, <1>5 DEF CartaInv
<1>7. \A j \in Services \ {i} : Live(i)' /\ Live(j)' => Names(i)' \intersect Names(j)' = {}
  BY <1>4, <1>5 DEF CartaInv, Taken, Names
<1>8. \A j, k \in Services : Live(j)' /\ Live(k)' /\ j # k => Names(j)' \intersect Names(k)' = {}
  BY <1>5, <1>7 DEF CartaInv
<1> QED BY <1>3, <1>4, <1>6, <1>8, <1>9 DEF CartaInv

-----------------------------------------------------------------------------
(* Types.                                                                   *)

LEMMA RecordsType == NoSync \in Sync /\ NoRec \in Rec
BY SyncAssumption DEF NoSync, NoRec, Sync, Rec

\* A syncer or a recorder goes on with another record.
LEMMA GotoType ==
    ASSUME TypeOK, NEW p \in Syncers, NEW x \in Sync, Goto(p, x)
    PROVE  sync' \in [Syncers -> Sync]
BY DEF TypeOK, Goto

LEMMA RecType ==
    ASSUME TypeOK, NEW w \in Recorders, NEW x \in Rec, rec' = [rec EXCEPT ![w] = x]
    PROVE  rec' \in [Recorders -> Rec]
BY DEF TypeOK

\* What the Carta lists has a slug, and is not newer than the Carta.
LEMMA ListingType ==
    ASSUME TypeOK, CartaInv, NEW i \in Services, Live(i)
    PROVE  Entry(i) \in Item /\ Entry(i).slug = carta[i].listed /\ Entry(i).mod = Mod(i) /\ Mod(i) <= clock
<1>1. carta[i] \in Published /\ carta[i].ver <= clock /\ clock \in Nat
  BY DEF TypeOK, CartaInv
<1>2. carta[i].listed \in Names(i) \ {None} /\ Names(i) \subseteq Slugs \union {None}
  BY <1>1 DEF CartaInv, Names, Published
<1>3. Mod(i) \in Nat /\ Mod(i) <= clock
  BY <1>1 DEF Published, Mod
<1> QED BY <1>2, <1>3 DEF Item, Entry

\* What a sync owes is what it listed.
LEMMA OwesType ==
    ASSUME TypeOK, NEW p \in Syncers, NEW s PROVE Owes(p, s) \in SUBSET Owed
<1>1. sync[p].listed \in SUBSET Item
  BY DEF TypeOK, Sync
<1>2. ASSUME NEW item \in sync[p].listed, item.slug = s
      PROVE  [slug |-> s, mod |-> item.mod, wasDue |-> NeedsDetail(item, cursor)] \in Owed
  <2>1. s \in Slugs /\ item.mod \in Nat
    BY <1>1, <1>2 DEF Item
  <2>2. NeedsDetail(item, cursor) \in BOOLEAN
    BY DEF NeedsDetail
  <2> QED BY <2>1, <2>2, Zenon DEF Owed
<1> QED BY <1>2 DEF Owes

\* Every row a batch leaves is a row.
LEMMA BatchType ==
    ASSUME TypeOK, NEW got \in SUBSET Detail, NEW rows \in Batch(got)
    PROVE  rows \in [Slugs -> Row]
<1>1. PICK pick \in [Slugs -> {d \in got : d.mapped} \union {None}] :
        rows = [s \in Slugs |-> IF pick[s] = None THEN row[s] ELSE [active |-> pick[s].shown, ver |-> pick[s].ver]]
  BY DEF Batch
<1>2. ASSUME NEW s \in Slugs PROVE rows[s] \in Row
  <2>1. pick[s] # None => pick[s].ver \in Nat /\ pick[s].shown \in BOOLEAN
    BY <1>1 DEF Detail
  <2> QED BY <1>1, <2>1 DEF TypeOK, Row
<1> QED BY <1>1, <1>2

\* What a page makes of the record of a sync.
Read(p, st) == First(sync[p].pages[st], {Entry(i) : i \in Page(st, sync[p].offset[st])})

PageRead(p, st, x) ==
    /\ x.since = sync[p].since /\ x.failed = sync[p].failed /\ x.got = sync[p].got
    /\ \A u \in Subthemes \ {st} : x.offset[u] = sync[p].offset[u] /\ x.pages[u] = sync[p].pages[u]
    /\ \/ /\ ~IsLast(st, sync[p].offset[st] + PageSize)
          /\ x.phase = "list" /\ x.left = sync[p].left /\ x.listed = sync[p].listed
          /\ x.offset[st] = sync[p].offset[st] + PageSize /\ x.pages[st] = Read(p, st)
       \/ /\ IsLast(st, sync[p].offset[st] + PageSize)
          /\ x.offset[st] = 0 /\ x.pages[st] = {} /\ x.left = sync[p].left \ {st}
          /\ x.listed \in {First(sync[p].listed, Read(p, st)), First(Read(p, st), sync[p].listed)}
          /\ x.phase = IF x.left = {} THEN "fetch" ELSE "list"
          /\ x.left = {} => \A y \in x.listed : NeedsDetail(y, x.since) => y.slug \in x.toFetch

LEMMA ListPageStep ==
    ASSUME TypeOK, CartaInv, NEW p \in Syncers, NEW st \in Subthemes, ListPage(p, st)
    PROVE  /\ Read(p, st) \in SUBSET Item
           /\ \E x \in Sync : Goto(p, x) /\ sync'[p] = x /\ PageRead(p, st, x)
<1>1. sync[p] \in Sync /\ sync[p].phase = "list"
  BY DEF TypeOK, ListPage
<1>2. PICK read : read = Read(p, st)
  OBVIOUS
<1>3. read \in SUBSET Item
  <2>1. sync[p].pages[st] \in SUBSET Item
    BY <1>1 DEF Sync
  <2>2. \A i \in Page(st, sync[p].offset[st]) : Entry(i) \in Item
    BY ListingType DEF Page, InSubtheme
  <2> QED BY <1>2, <2>1, <2>2 DEF First, Read
<1>4. ASSUME NEW x \in Sync, Goto(p, x) PROVE sync'[p] = x
  BY <1>4 DEF Goto, TypeOK
<1>5. PageSize \in Nat /\ sync[p].offset[st] \in Nat
  BY <1>1, SyncAssumption DEF Sync
<1>6. PICK offsets, pages, end, none :
        /\ offsets = [sync[p].offset EXCEPT ![st] = sync[p].offset[st] + PageSize]
        /\ pages = [sync[p].pages EXCEPT ![st] = read]
        /\ end = [sync[p].offset EXCEPT ![st] = 0] /\ none = [sync[p].pages EXCEPT ![st] = {}]
  OBVIOUS
<1>7. /\ offsets \in [Subthemes -> Nat] /\ pages \in [Subthemes -> SUBSET Item]
      /\ end \in [Subthemes -> Nat] /\ none \in [Subthemes -> SUBSET Item]
      /\ offsets[st] = sync[p].offset[st] + PageSize /\ pages[st] = read /\ end[st] = 0 /\ none[st] = {}
      /\ \A u \in Subthemes \ {st} : /\ offsets[u] = sync[p].offset[u] /\ end[u] = sync[p].offset[u]
                                     /\ pages[u] = sync[p].pages[u] /\ none[u] = sync[p].pages[u]
  <2>1. sync[p].offset \in [Subthemes -> Nat] /\ sync[p].pages \in [Subthemes -> SUBSET Item]
    BY <1>1 DEF Sync
  <2>2. sync[p].offset[st] + PageSize \in Nat
    BY <1>5
  <2> QED BY <1>3, <1>6, <2>1, <2>2
<1>8. CASE ~IsLast(st, sync[p].offset[st] + PageSize)
  <2>1. PICK x : x = [sync[p] EXCEPT !.offset = offsets, !.pages = pages]
    OBVIOUS
  <2>2. Goto(p, x)
    BY <1>2, <1>6, <1>8, <2>1 DEF ListPage, Read
  <2>3. /\ x \in Sync /\ x.offset = offsets /\ x.pages = pages
        /\ x.since = sync[p].since /\ x.failed = sync[p].failed /\ x.got = sync[p].got
        /\ x.phase = sync[p].phase /\ x.left = sync[p].left /\ x.listed = sync[p].listed
    BY <1>1, <1>7, <2>1 DEF Sync
  <2> QED BY <1>1, <1>2, <1>3, <1>4, <1>7, <1>8, <2>2, <2>3 DEF PageRead
<1>9. CASE IsLast(st, sync[p].offset[st] + PageSize)
  <2> DEFINE left == sync[p].left \ {st}
             toFetch(listed) == IF left = {}
                                THEN {item.slug : item \in {y \in listed : NeedsDetail(y, sync[p].since)}} ELSE {}
  <2>1. PICK listed \in {First(sync[p].listed, read), First(read, sync[p].listed)} :
          Goto(p, [sync[p] EXCEPT !.left = left, !.offset = end, !.pages = none, !.listed = listed,
                                  !.phase = IF left = {} THEN "fetch" ELSE "list", !.toFetch = toFetch(listed)])
    BY <1>2, <1>6, <1>9 DEF ListPage, Read
  <2>2. PICK x : x = [sync[p] EXCEPT !.left = left, !.offset = end, !.pages = none, !.listed = listed,
                                     !.phase = IF left = {} THEN "fetch" ELSE "list", !.toFetch = toFetch(listed)]
    OBVIOUS
  <2>3. listed \in SUBSET Item /\ left \in SUBSET Subthemes
    BY <1>1, <1>3 DEF First, Sync
  <2>4. toFetch(listed) \in SUBSET Slugs
    BY <2>3 DEF Item
  <2>5. left = {} => \A y \in listed : NeedsDetail(y, sync[p].since) => y.slug \in toFetch(listed)
    OBVIOUS
  <2>8. left = sync[p].left \ {st}
    OBVIOUS
  <2> HIDE DEF left, toFetch
  <2>6. /\ x \in Sync /\ x.offset = end /\ x.pages = none
        /\ x.since = sync[p].since /\ x.failed = sync[p].failed /\ x.got = sync[p].got
        /\ x.left = left /\ x.listed = listed /\ x.toFetch = toFetch(listed)
        /\ x.phase = IF left = {} THEN "fetch" ELSE "list"
    BY <1>1, <1>7, <2>2, <2>3, <2>4 DEF Sync
  <2>7. Goto(p, x) /\ sync'[p] = x
    BY <1>4, <2>1, <2>2, <2>6
  <2>9. /\ x.offset[st] = 0 /\ x.pages[st] = {}
        /\ \A u \in Subthemes \ {st} : x.offset[u] = sync[p].offset[u] /\ x.pages[u] = sync[p].pages[u]
    BY <1>7, <2>6
  <2>10. /\ x.left = sync[p].left \ {st} /\ x.listed \in {First(sync[p].listed, read), First(read, sync[p].listed)}
         /\ x.phase = IF x.left = {} THEN "fetch" ELSE "list"
         /\ x.left = {} => \A y \in x.listed : NeedsDetail(y, x.since) => y.slug \in x.toFetch
    BY <2>1, <2>5, <2>6, <2>8
  <2> QED BY <1>2, <1>3, <1>9, <2>6, <2>7, <2>9, <2>10 DEF PageRead
<1> QED BY <1>8, <1>9

LEMMA ListPageType ==
    ASSUME TypeOK, CartaInv, NEW p \in Syncers, NEW st \in Subthemes, ListPage(p, st)
    PROVE  TypeOK'
<1>1. sync' \in [Syncers -> Sync]
  BY ListPageStep, GotoType
<1> QED BY <1>1 DEF ListPage, TypeOK

\* A detail, and the upsert of all of them.
LEMMA FetchType ==
    ASSUME TypeOK, NEW p \in Syncers, NEW s \in Slugs, FetchDetail(p, s) \/ FetchFails(p, s)
    PROVE  TypeOK'
<1>1. sync[p] \in Sync
  BY DEF TypeOK
<1>2. CASE FetchDetail(p, s)
  <2>1. PICK i \in Answers(s) :
          Goto(p, [sync[p] EXCEPT !.toFetch = @ \ {s}, !.got = @ \union {MapDetail(s, i)}])
    BY <1>2 DEF FetchDetail
  <2>2. MapDetail(s, i) \in Detail
    <3>1. i \in Services /\ carta[i] \in Published /\ carta[i].slug # None
      BY DEF Answers, Live, TypeOK
    <3> QED BY <3>1 DEF MapDetail, Detail, Published
  <2>3. [sync[p] EXCEPT !.toFetch = @ \ {s}, !.got = @ \union {MapDetail(s, i)}] \in Sync
    BY <1>1, <2>2 DEF Sync
  <2>4. sync' \in [Syncers -> Sync]
    BY <2>1, <2>3, GotoType
  <2> QED BY <1>2, <2>4 DEF FetchDetail, TypeOK
<1>3. CASE FetchFails(p, s)
  <2>1. [sync[p] EXCEPT !.toFetch = @ \ {s}, !.failed = TRUE] \in Sync
    BY <1>1 DEF Sync
  <2>2. sync' \in [Syncers -> Sync]
    BY <1>3, <2>1, GotoType DEF FetchFails
  <2>3. owed' \subseteq Owed /\ faults' \in Nat
    BY <1>3, OwesType DEF FetchFails, Fault, TypeOK
  <2> QED BY <1>3, <2>2, <2>3 DEF FetchFails, TypeOK
<1> QED BY <1>2, <1>3

LEMMA UpsertBatchType ==
    ASSUME TypeOK, NEW p \in Syncers, UpsertBatch(p) PROVE TypeOK'
<1>1. sync[p] \in Sync /\ sync[p].got \in SUBSET Detail
  BY DEF TypeOK, Sync
<1>2. row' \in [Slugs -> Row]
  BY <1>1, BatchType DEF UpsertBatch, TypeOK
<1>3. [sync[p] EXCEPT !.phase = "orphans"] \in Sync
  BY <1>1 DEF Sync
<1>4. sync' \in [Syncers -> Sync]
  BY <1>3, RecordsType, GotoType DEF UpsertBatch, Leave
<1>5. owed' \subseteq Owed
  BY OwesType DEF UpsertBatch, TypeOK
<1>6. faults' \in Nat /\ calm' \subseteq Syncers /\ torn' \subseteq Syncers
  BY DEF UpsertBatch, Leave, Fault, TypeOK
<1> QED BY <1>2, <1>4, <1>5, <1>6 DEF UpsertBatch, TypeOK

\* A row that goes inactive is a row.
LEMMA DeletedRow == ASSUME TypeOK, NEW s \in Slugs PROVE [row[s] EXCEPT !.active = FALSE] \in Row
BY DEF TypeOK, Row

LEMMA OrphansType ==
    ASSUME TypeOK, NEW p \in Syncers, SoftDeleteOrphans(p) PROVE TypeOK'
<1>1. sync[p] \in Sync
  BY DEF TypeOK
<1>2. PICK seen :
        row' \in {row, [s \in Slugs |-> IF RemovesOrphans(p) /\ s \notin seen
                                        THEN [row[s] EXCEPT !.active = FALSE] ELSE row[s]]}
  BY DEF SoftDeleteOrphans
<1>3. row' \in [Slugs -> Row]
  <2>1. [s \in Slugs |-> IF RemovesOrphans(p) /\ s \notin seen
                         THEN [row[s] EXCEPT !.active = FALSE] ELSE row[s]] \in [Slugs -> Row]
    BY DeletedRow DEF TypeOK
  <2> QED BY <1>2, <2>1 DEF TypeOK
<1>4. /\ [sync[p] EXCEPT !.phase = "finish"] \in Sync
      /\ [sync[p] EXCEPT !.phase = "finish", !.failed = TRUE] \in Sync
  BY <1>1 DEF Sync
<1>5. sync' \in [Syncers -> Sync]
  BY <1>4, GotoType DEF SoftDeleteOrphans
<1>6. faults' \in Nat /\ calm' \subseteq Syncers
  BY DEF SoftDeleteOrphans, Fault, TypeOK
<1> QED BY <1>3, <1>5, <1>6 DEF SoftDeleteOrphans, TypeOK

\* SyncRecord.
LEMMA RecorderType ==
    ASSUME TypeOK, NEW w \in Recorders,
           (\E s \in Slugs : ReadRecord(w, s)) \/ WriteRecord(w) \/ UnlinkOld(w) \/ DropRecord(w)
    PROVE  TypeOK'
<1>1. rec[w] \in Rec /\ NoRec \in Rec /\ clock \in Nat
  BY RecordsType DEF TypeOK
<1>2. ASSUME NEW s \in Slugs, ReadRecord(w, s) PROVE TypeOK'
  <2>1. [NoRec EXCEPT !.phase = "write", !.asked = s, !.at = clock] \in Rec
    BY <1>1 DEF Rec
  <2>2. \A i \in Answers(s) \ Nameless :
          [phase |-> "write", asked |-> s, slug |-> carta[i].slug, shown |-> carta[i].shown,
           ver |-> carta[i].ver, at |-> clock] \in Rec
    BY <1>1 DEF Answers, TypeOK, Published, Rec
  <2>3. rec' \in [Recorders -> Rec]
    BY <1>2, <2>1, <2>2, RecType DEF ReadRecord
  <2> QED BY <1>2, <2>3 DEF ReadRecord, TypeOK
<1>3. ASSUME NEW s PROVE [row EXCEPT ![s].active = FALSE] \in [Slugs -> Row]
  <2>1. CASE s \in Slugs
    <3>1. [row EXCEPT ![s] = [row[s] EXCEPT !.active = FALSE]] \in [Slugs -> Row]
      BY <2>1, DeletedRow DEF TypeOK
    <3> QED BY <3>1
  <2>2. CASE s \notin Slugs
    BY <2>2 DEF TypeOK
  <2> QED BY <2>1, <2>2
<1>4. CASE WriteRecord(w)
  <2>1. rec[w].slug = None \/ rec[w].slug \in Slugs
    BY <1>1 DEF Rec
  <2>2. [active |-> rec[w].shown, ver |-> rec[w].ver] \in Row
    BY <1>1 DEF Rec, Row
  <2>3. row' \in [Slugs -> Row]
    BY <1>3, <1>4, <2>1, <2>2 DEF WriteRecord, TypeOK
  <2>4. [rec[w] EXCEPT !.phase = "unlink"] \in Rec
    BY <1>1 DEF Rec
  <2>5. rec' \in [Recorders -> Rec]
    BY <1>1, <1>4, <2>4, RecType DEF WriteRecord
  <2> QED BY <1>4, <2>3, <2>5 DEF WriteRecord, Disturb, TypeOK
<1>5. CASE UnlinkOld(w)
  <2>1. rec' \in [Recorders -> Rec] /\ row' \in [Slugs -> Row]
    BY <1>1, <1>3, <1>5, RecType DEF UnlinkOld, TypeOK
  <2> QED BY <1>5, <2>1 DEF UnlinkOld, Disturb, Fault, TypeOK
<1>6. CASE DropRecord(w)
  <2>1. rec' \in [Recorders -> Rec]
    BY <1>1, <1>6, RecType DEF DropRecord
  <2> QED BY <1>6, <2>1 DEF DropRecord, Fault, TypeOK
<1> QED BY <1>2, <1>4, <1>5, <1>6

\* Types are kept by every step.
LEMMA TypeNext == TypeOK /\ CartaInv /\ [Next]_vars => TypeOK'
<1> SUFFICES ASSUME TypeOK, CartaInv, [Next]_vars PROVE TypeOK'
  OBVIOUS
<1>1. ASSUME NEW p \in Syncers, NEW full \in BOOLEAN, Begin(p, full) PROVE TypeOK'
  <2>1. [NoSync EXCEPT !.phase = "list", !.left = Subthemes, !.since = IF full THEN 0 ELSE cursor] \in Sync
    BY RecordsType DEF Sync, TypeOK
  <2>2. sync' \in [Syncers -> Sync]
    BY <1>1, <2>1, GotoType DEF Begin
  <2> QED BY <1>1, <2>2 DEF Begin, TypeOK
<1>2. ASSUME NEW p \in Syncers, ListFails(p) \/ GiveUp(p) \/ Finish(p) \/ Crash(p) PROVE TypeOK'
  <2>1. sync' \in [Syncers -> Sync] /\ torn' \subseteq Syncers
    BY <1>2, RecordsType, GotoType DEF ListFails, GiveUp, Finish, Crash, Leave, TypeOK
  <2>2. faults' \in Nat /\ cursor' \in Nat /\ calm' \subseteq Syncers /\ owed' \subseteq Owed
    BY <1>2 DEF ListFails, GiveUp, Finish, Crash, Fault, StillOwed, TypeOK
  <2> QED BY <1>2, <2>1, <2>2 DEF ListFails, GiveUp, Finish, Crash, TypeOK
<1>3. CASE Deploy
  BY <1>3, RecordsType DEF Deploy, Fault, TypeOK
<1>4. CASE UNCHANGED vars
  BY <1>4 DEF vars, TypeOK
<1> QED
  BY <1>1, <1>2, <1>3, <1>4, CartaChangesType, ListPageType, FetchType, UpsertBatchType,
     OrphansType, RecorderType DEF Next, SyncStep

\* Only the Carta changes the Carta.
LEMMA CartaInvKept == TypeOK /\ CartaInv /\ [Next]_vars => CartaInv'
<1> SUFFICES ASSUME TypeOK, CartaInv, [Next]_vars, UNCHANGED <<clock, carta, order>> PROVE CartaInv'
  BY CartaInvNext
  DEF Next, SyncStep, Begin, ListPage, ListFails, FetchDetail, FetchFails, GiveUp, UpsertBatch,
      SoftDeleteOrphans, Finish, Crash, Deploy, ReadRecord, WriteRecord, UnlinkOld, DropRecord, vars
<1> QED BY SMTT(20) DEF CartaInv, Names, Live

LEMMA InitTypes == Init => TypeOK /\ CartaInv
<1> SUFFICES ASSUME Init PROVE TypeOK /\ CartaInv
  OBVIOUS
<1>1. \A st \in Subthemes : [slug |-> None, listed |-> None, old |-> {}, subtheme |-> st,
                               shown |-> FALSE, ver |-> 0] \in Published
  BY DEF Published
<1>2. \A i \in Services : carta[i] \in Published /\ carta[i].slug = None /\ carta[i].old = {} /\ carta[i].ver = 0
  BY <1>1 DEF Init
<1>3. carta \in [Services -> Published]
  BY <1>1 DEF Init
<1>4. TypeOK
  BY <1>3, RecordsType DEF Init, TypeOK, Row
<1>5. CartaInv
  BY <1>2 DEF Init, CartaInv, Live
<1> QED BY <1>4, <1>5

\* Rows, cursor, syncs and webhook attempts keep their types, however the Carta
\* changes and whatever overlaps and fails.
THEOREM TypeCorrect == Spec => []TypeOK
<1>1. Spec => [](TypeOK /\ CartaInv)
  BY InitTypes, TypeNext, CartaInvKept, PTL DEF Spec
<1> QED BY <1>1, PTL

-----------------------------------------------------------------------------
(* The pages of a subtheme.                                                 *)

\* Two services are never listed under one slug.
LEMMA ListedApart ==
    ASSUME TypeOK, CartaInv, NEW i \in Services, NEW j \in Services, Live(i), Live(j),
           carta[i].listed = carta[j].listed
    PROVE  i = j
BY DEF CartaInv

\* With the last page of a subtheme what was listed and what was read are listed.
LEMMA StaysListed ==
    ASSUME NEW p, NEW st, NEW x, PageRead(p, st, x),
           NEW y, y \in sync[p].listed \/ (IsLast(st, sync[p].offset[st] + PageSize) /\ y \in Read(p, st))
    PROVE  \E z \in x.listed : z.slug = y.slug
<1>1. CASE x.listed = sync[p].listed /\ ~IsLast(st, sync[p].offset[st] + PageSize)
  BY <1>1
<1>2. CASE x.listed = First(sync[p].listed, Read(p, st))
  BY <1>2 DEF First
<1>3. CASE x.listed = First(Read(p, st), sync[p].listed)
  BY <1>3 DEF First
<1> QED BY <1>1, <1>2, <1>3 DEF PageRead

\* Fewer services than the subtheme has are listed before one of them.
LEMMA AheadLess ==
    ASSUME TypeOK, CartaInv, NEW st, NEW i \in InSubtheme(st)
    PROVE  /\ Cardinality(Ahead(i)) \in Nat /\ Cardinality(InSubtheme(st)) \in Nat
           /\ Cardinality(Ahead(i)) < Cardinality(InSubtheme(st))
<1>1. Ahead(i) \subseteq InSubtheme(st) \ {i}
  BY DEF Ahead, InSubtheme, CartaInv
<1>2. IsFiniteSet(InSubtheme(st))
  BY SyncAssumption, FS_Subset DEF InSubtheme
<1>3. /\ IsFiniteSet(InSubtheme(st) \ {i})
      /\ Cardinality(InSubtheme(st) \ {i}) = Cardinality(InSubtheme(st)) - 1
  BY <1>2, FS_RemoveElement
<1>4. IsFiniteSet(Ahead(i)) /\ Cardinality(Ahead(i)) <= Cardinality(InSubtheme(st) \ {i})
  BY <1>1, <1>3, FS_Subset
<1>5. Cardinality(Ahead(i)) \in Nat /\ Cardinality(InSubtheme(st)) \in Nat
  BY <1>2, <1>4, FS_CardinalityType
<1> QED BY <1>3, <1>4, <1>5

LEMMA CountedServices ==
    ASSUME NEW S \in SUBSET Services PROVE Cardinality(S) \in Nat
<1>1. IsFiniteSet(S)
  BY SyncAssumption, FS_Subset
<1> QED BY <1>1, FS_CardinalityType

\* A page adds its services to those read before.
LEMMA FirstEntries ==
    ASSUME TypeOK, CartaInv, NEW before \in SUBSET Services, NEW more \in SUBSET Services,
           \A i \in before \union more : Live(i)
    PROVE  First({Entry(i) : i \in before}, {Entry(i) : i \in more}) = {Entry(i) : i \in before \union more}
<1>1. \A i \in before \union more : Entry(i).slug = carta[i].listed
  BY ListingType
<1>2. ASSUME NEW i \in more, NEW j \in before, Entry(i).slug = Entry(j).slug PROVE i = j
  BY <1>1, <1>2, ListedApart
<1>3. ASSUME NEW x \in First({Entry(i) : i \in before}, {Entry(i) : i \in more})
      PROVE  x \in {Entry(i) : i \in before \union more}
  BY <1>3 DEF First
<1>4. ASSUME NEW i \in before \union more
      PROVE  Entry(i) \in First({Entry(j) : j \in before}, {Entry(j) : j \in more})
  <2>1. CASE i \in before
    BY <2>1 DEF First
  <2>2. CASE i \in more /\ i \notin before
    <3>1. \A y \in {Entry(j) : j \in before} : y.slug # Entry(i).slug
      BY <1>2, <2>2
    <3> QED BY <2>2, <3>1 DEF First
  <2> QED BY <2>1, <2>2
<1> QED BY <1>3, <1>4

\* What a sync whose subtheme did not change has read with the next page: its first
\* services, and with the last page all of them.
LEMMA ReadSoFar ==
    ASSUME TypeOK, CartaInv, PagesInv, NEW p \in Syncers, p \notin torn,
           NEW st \in sync[p].left, sync[p].phase = "list"
    PROVE  /\ Read(p, st) = {Entry(i) : i \in FirstOf(st, sync[p].offset[st] + PageSize)}
           /\ IsLast(st, sync[p].offset[st] + PageSize) => Read(p, st) = {Entry(i) : i \in InSubtheme(st)}
<1>1. PICK before, more, all :
        /\ before = FirstOf(st, sync[p].offset[st]) /\ more = Page(st, sync[p].offset[st])
        /\ all = FirstOf(st, sync[p].offset[st] + PageSize)
  OBVIOUS
<1>2. sync[p].offset[st] \in Nat /\ PageSize \in Nat \ {0}
  BY SyncAssumption DEF TypeOK, Sync
<1>3. all = before \union more
  <2>1. \A j \in InSubtheme(st) : Cardinality(Ahead(j)) \in Nat
    BY AheadLess
  <2>2. \A j \in InSubtheme(st) :
          Cardinality(Ahead(j)) < sync[p].offset[st] + PageSize
          <=> \/ Cardinality(Ahead(j)) < sync[p].offset[st]
              \/ Cardinality(Ahead(j)) \in sync[p].offset[st] .. sync[p].offset[st] + PageSize - 1
    BY <1>2, <2>1
  <2> QED BY <1>1, <2>2 DEF FirstOf, Page
<1>4. /\ before \in SUBSET Services /\ more \in SUBSET Services
      /\ \A i \in before \union more : Live(i)
  BY <1>1 DEF FirstOf, Page, InSubtheme
<1>5. Read(p, st) = First({Entry(i) : i \in before}, {Entry(i) : i \in more})
  <2>1. sync[p].pages[st] = {Entry(i) : i \in before} /\ st \in Subthemes
    BY <1>1 DEF PagesInv, PagesOf, SoFar, TypeOK, Sync
  <2> QED BY <1>1, <2>1 DEF Read
<1>6. Read(p, st) = {Entry(i) : i \in before \union more}
  BY <1>4, <1>5, FirstEntries
<1>7. IsLast(st, sync[p].offset[st] + PageSize) => all = InSubtheme(st)
  <2> SUFFICES ASSUME IsLast(st, sync[p].offset[st] + PageSize), NEW i \in InSubtheme(st)
               PROVE  Cardinality(Ahead(i)) < sync[p].offset[st] + PageSize
    BY <1>1 DEF FirstOf
  <2> QED BY <1>2, AheadLess DEF IsLast
<1> QED BY <1>1, <1>3, <1>6, <1>7

LEMMA EntriesKept ==
    ASSUME UNCHANGED <<carta, order>>, NEW st, NEW n
    PROVE  {Entry(i) : i \in FirstOf(st, n)}' = {Entry(i) : i \in FirstOf(st, n)}
<1>1. \A i : Entry(i)' = Entry(i) /\ Ahead(i)' = Ahead(i)
  BY DEF Entry, Mod, Ahead, InSubtheme, Live
<1>2. FirstOf(st, n)' = FirstOf(st, n)
  BY <1>1 DEF FirstOf, InSubtheme, Live
<1> QED BY <1>1, <1>2

\* A step of a sync while the Carta rests.
LEMMA PagesStep ==
    ASSUME TypeOK, PagesInv, NEW p \in Syncers, NEW x, Goto(p, x), UNCHANGED <<carta, order>>,
           torn' = torn \/ torn' = torn \ {p}, calm' \subseteq calm \union {p}, PagesOf(p)'
    PROVE  PagesInv'
<1>1. ASSUME NEW q \in Syncers, q # p PROVE PagesOf(q)'
  <2>1. /\ sync'[q] = sync[q] /\ (q \in torn' <=> q \in torn) /\ (q \in calm' => q \in calm)
        /\ PagesOf(q)
    BY <1>1 DEF Goto, TypeOK, PagesInv
  <2>2. \A st : SoFar(q, st)' = SoFar(q, st)
    BY <2>1, EntriesKept DEF SoFar
  <2> QED BY <2>1, <2>2 DEF PagesOf
<1> QED BY <1>1 DEF PagesInv

LEMMA ListPagePages ==
    ASSUME TypeOK, CartaInv, PagesInv, NEW p \in Syncers, NEW st \in Subthemes, ListPage(p, st)
    PROVE  PagesInv'
<1>1. /\ sync[p] \in Sync /\ sync[p].phase = "list" /\ st \in sync[p].left /\ PagesOf(p)
      /\ UNCHANGED <<carta, order, torn, calm>> /\ PageSize \in Nat
  BY SyncAssumption DEF TypeOK, ListPage, PagesInv
<1>2. PICK x \in Sync : Goto(p, x) /\ sync'[p] = x /\ PageRead(p, st, x)
  BY ListPageStep
<1>3. ASSUME NEW u \in x.left, x.phase = "list", p \notin torn PROVE x.pages[u] = SoFar(p, u)'
  <2>1. u \in sync[p].left /\ u \in Subthemes
    BY <1>1, <1>2, <1>3 DEF Sync, PageRead
  <2>2. SoFar(p, u)' = {Entry(i) : i \in FirstOf(u, x.offset[u])}
    <3>1. \A n : {Entry(i) : i \in FirstOf(u, n)}' = {Entry(i) : i \in FirstOf(u, n)}
      BY <1>1, EntriesKept
    <3>2. {Entry(i) : i \in FirstOf(u, x.offset[u])}' = {Entry(i) : i \in FirstOf(u, x.offset[u])}
      BY <3>1
    <3> QED BY <1>2, <3>2 DEF SoFar
  <2>3. CASE u # st
    BY <1>1, <1>2, <1>3, <2>1, <2>2, <2>3 DEF PagesOf, SoFar, PageRead
  <2>4. CASE u = st
    <3>1. x.offset[st] = sync[p].offset[st] + PageSize /\ x.pages[st] = Read(p, st)
      BY <1>1, <1>2, <1>3, <2>4 DEF PageRead
    <3>2. Read(p, st) = {Entry(i) : i \in FirstOf(st, sync[p].offset[st] + PageSize)}
      BY <1>1, <1>3, ReadSoFar
    <3> QED BY <2>2, <2>4, <3>1, <3>2
  <2> QED BY <2>3, <2>4
<1>4. \A u \in Subthemes : x.offset[u] > 0 => x.phase = "list" /\ u \in x.left
  BY <1>1, <1>2 DEF PagesOf, PageRead
<1>5. x.phase # "idle"
  BY <1>2 DEF PageRead
<1>6. p \in torn' => p \in torn /\ p \notin calm'
  BY <1>1 DEF PagesOf
<1>7. PagesOf(p)'
  BY <1>1, <1>2, <1>3, <1>4, <1>5, <1>6, Zenon DEF PagesOf
<1> QED BY <1>1, <1>2, <1>7, PagesStep

\* A change of a subtheme that a sync is in the middle of tears its listing.
LEMMA ChangePages ==
    ASSUME TypeOK, CartaInv, PagesInv, CartaChanges PROVE PagesInv'
<1>0. PICK i \in Services : \E x : Changed(i, x)
  BY SomeChange
<1>1. PICK x : Changed(i, x)
  BY <1>0
<1>2. /\ carta'[i] = x /\ \A j \in Services \ {i} : carta'[j] = carta[j]
      /\ torn \subseteq torn' /\ calm' = {} /\ sync' = sync
  BY <1>1, ChangeEffect
<1>3. \A p \in Syncers : p \in torn' =>
        p \in torn \/ \E st \in {carta[i].subtheme, x.subtheme} : sync[p].offset[st] > 0
  BY <1>1 DEF Changed, Change
<1>4. \A p \in Syncers : \A st \in {carta[i].subtheme, x.subtheme} : p \notin torn' => ~(sync[p].offset[st] > 0)
  BY <1>1 DEF Changed, Change
<1>5. carta[i].subtheme \in Subthemes /\ x.subtheme \in Subthemes
  BY <1>1 DEF Changed, TypeOK, Published
<1>6. ASSUME NEW st, st \notin {carta[i].subtheme, x.subtheme}
      PROVE  /\ InSubtheme(st)' = InSubtheme(st) /\ i \notin InSubtheme(st)
             /\ \A j \in InSubtheme(st) : Entry(j)' = Entry(j) /\ Ahead(j)' = Ahead(j)
  <2>1. InSubtheme(st)' = InSubtheme(st) /\ i \notin InSubtheme(st)
    BY <1>2, <1>6 DEF InSubtheme, Live
  <2>2. ASSUME NEW j \in InSubtheme(st) PROVE Entry(j)' = Entry(j) /\ Ahead(j)' = Ahead(j)
    <3>1. j \in Services \ {i} /\ carta'[j] = carta[j] /\ carta[j].subtheme = st
      BY <1>2, <2>1, <2>2 DEF InSubtheme
    <3>2. \A k \in InSubtheme(st) : k \in Services \ {i}
      BY <2>1 DEF InSubtheme
    <3>3. \A k \in InSubtheme(st) : <<k, j>> \in order' <=> <<k, j>> \in order
      BY <1>1, <3>1, <3>2, PlacedApart DEF Changed
    <3> QED BY <2>1, <3>1, <3>3 DEF Entry, Mod, Ahead
  <2> QED BY <2>1, <2>2
<1> SUFFICES ASSUME NEW p \in Syncers PROVE PagesOf(p)'
  BY DEF PagesInv
<1>7. PagesOf(p)
  BY DEF PagesInv
<1>8. ASSUME p \notin torn', sync[p].phase = "list", NEW st \in sync[p].left
      PROVE  sync[p].pages[st] = SoFar(p, st)'
  <2>1. sync[p].pages[st] = SoFar(p, st) /\ st \in Subthemes
    BY <1>2, <1>7, <1>8 DEF PagesOf, TypeOK, Sync
  <2>2. CASE st \notin {carta[i].subtheme, x.subtheme}
    <3>1. InSubtheme(st)' = InSubtheme(st) /\ \A j \in InSubtheme(st) : Entry(j)' = Entry(j) /\ Ahead(j)' = Ahead(j)
      BY <1>6, <2>2
    <3>2. PICK n : n = sync[p].offset[st] /\ n = sync'[p].offset[st]
      BY <1>2
    <3>3. FirstOf(st, n)' = FirstOf(st, n) /\ FirstOf(st, n) \subseteq InSubtheme(st)
      BY <3>1 DEF FirstOf
    <3>4. {Entry(j) : j \in FirstOf(st, n)}' = {Entry(j) : j \in FirstOf(st, n)}
      BY <3>1, <3>3
    <3> QED BY <2>1, <3>2, <3>4 DEF SoFar
  <2>3. CASE st \in {carta[i].subtheme, x.subtheme}
    <3>1. sync[p].offset[st] = 0
      BY <1>4, <1>8, <2>1, <2>3 DEF TypeOK, Sync
    <3>2. SoFar(p, st) = {}
      BY <3>1, AheadLess DEF SoFar, FirstOf
    <3>3. SoFar(p, st)' = {}
      <4>1. \A j : Ahead(j)' \in SUBSET Services
        BY DEF Ahead, InSubtheme
      <4>2. \A j : Cardinality(Ahead(j)') \in Nat
        BY <4>1, CountedServices
      <4> QED BY <1>2, <3>1, <4>2 DEF SoFar, FirstOf
    <3> QED BY <2>1, <3>2, <3>3
  <2> QED BY <2>2, <2>3
<1> QED BY <1>2, <1>3, <1>5, <1>7, <1>8 DEF PagesOf

LEMMA PagesNext == TypeOK /\ CartaInv /\ PagesInv /\ [Next]_vars => PagesInv'
<1> SUFFICES ASSUME TypeOK, CartaInv, PagesInv, [Next]_vars PROVE PagesInv'
  OBVIOUS
<1>1. ASSUME NEW p \in Syncers, NEW full \in BOOLEAN, Begin(p, full) PROVE PagesInv'
  <2>1. PICK x : Goto(p, x) /\ x = [NoSync EXCEPT !.phase = "list", !.left = Subthemes,
                                                  !.since = IF full THEN 0 ELSE cursor]
    BY <1>1 DEF Begin
  <2>2. /\ sync'[p].phase = "list" /\ sync'[p].offset = [st \in Subthemes |-> 0]
        /\ sync'[p].pages = [st \in Subthemes |-> {}] /\ sync'[p].left = Subthemes
    BY <2>1 DEF Goto, TypeOK, NoSync
  <2>3. p \notin torn /\ UNCHANGED <<carta, order, torn>> /\ calm' = calm \union {p}
    BY <1>1 DEF Begin, PagesInv, PagesOf
  <2>4. \A st \in Subthemes : SoFar(p, st)' = {}
    <3>1. \A j : Ahead(j)' \in SUBSET Services
      BY DEF Ahead, InSubtheme
    <3>2. \A j : Cardinality(Ahead(j)') \in Nat
      BY <3>1, CountedServices
    <3> QED BY <2>2, <3>2 DEF SoFar, FirstOf
  <2>5. PagesOf(p)'
    BY <2>2, <2>3, <2>4 DEF PagesOf
  <2> QED BY <2>1, <2>3, <2>5, PagesStep
<1>2. ASSUME NEW p \in Syncers, NEW x, Goto(p, x), x.phase \notin {"idle", "list"}, x.offset = sync[p].offset,
             sync[p].phase \notin {"idle", "list"},
             UNCHANGED <<carta, order, torn>>, calm' \subseteq calm
      PROVE  PagesInv'
  <2>1. sync'[p] = x /\ PagesOf(p)
    BY <1>2 DEF Goto, TypeOK, PagesInv
  <2>2. PagesOf(p)'
    BY <1>2, <2>1 DEF PagesOf
  <2> QED BY <1>2, <2>2, PagesStep
<1>3. ASSUME NEW p \in Syncers, Leave(p), UNCHANGED <<carta, order>>, calm' \subseteq calm
      PROVE  PagesInv'
  <2>1. sync'[p] = NoSync /\ p \notin torn'
    BY <1>3 DEF Leave, Goto, TypeOK
  <2>2. PagesOf(p)'
    BY <2>1 DEF PagesOf, NoSync
  <2> QED BY <1>3, <2>2, PagesStep DEF Leave
<1>4. ASSUME NEW p \in Syncers, NEW s \in Slugs, FetchDetail(p, s) \/ FetchFails(p, s) PROVE PagesInv'
  <2>1. sync[p] \in Sync /\ sync[p].phase = "fetch" /\ UNCHANGED <<carta, order, torn, calm>>
    BY <1>4 DEF TypeOK, FetchDetail, FetchFails
  <2>2. PICK x : /\ Goto(p, x)
                 /\ \/ \E i : x = [sync[p] EXCEPT !.toFetch = @ \ {s}, !.got = @ \union {MapDetail(s, i)}]
                    \/ x = [sync[p] EXCEPT !.toFetch = @ \ {s}, !.failed = TRUE]
    BY <1>4 DEF FetchDetail, FetchFails
  <2>3. x.phase = "fetch" /\ x.offset = sync[p].offset
    BY <2>1, <2>2 DEF Sync
  <2> QED BY <1>2, <2>1, <2>2, <2>3
<1>5. ASSUME NEW p \in Syncers, UpsertBatch(p) \/ SoftDeleteOrphans(p) PROVE PagesInv'
  <2>1. /\ sync[p] \in Sync /\ sync[p].phase \in {"fetch", "orphans"}
        /\ UNCHANGED <<carta, order>> /\ calm' \subseteq calm
    BY <1>5 DEF TypeOK, UpsertBatch, SoftDeleteOrphans
  <2>2. CASE Leave(p)
    BY <1>3, <2>1, <2>2
  <2>3. CASE ~Leave(p)
    <3>1. PICK x : /\ Goto(p, x) /\ torn' = torn
                   /\ \/ x = [sync[p] EXCEPT !.phase = "orphans"]
                      \/ x = [sync[p] EXCEPT !.phase = "finish"]
                      \/ x = [sync[p] EXCEPT !.phase = "finish", !.failed = TRUE]
      BY <1>5, <2>3 DEF UpsertBatch, SoftDeleteOrphans
    <3>2. x.phase \in {"orphans", "finish"} /\ x.offset = sync[p].offset
      BY <2>1, <3>1 DEF Sync
    <3> QED BY <1>2, <2>1, <3>1, <3>2
  <2> QED BY <2>2, <2>3
<1>6. ASSUME NEW p \in Syncers, ListFails(p) \/ GiveUp(p) \/ Finish(p) \/ Crash(p) PROVE PagesInv'
  BY <1>3, <1>6 DEF ListFails, GiveUp, Finish, Crash
<1>7. CASE Deploy
  BY <1>7 DEF Deploy, PagesInv, PagesOf, NoSync
<1>8. ASSUME UNCHANGED <<carta, order, sync, torn>>, calm' \subseteq calm PROVE PagesInv'
  <2>1. \A p \in Syncers : \A st : SoFar(p, st)' = SoFar(p, st)
    BY <1>8, EntriesKept DEF SoFar
  <2> QED BY <1>8, <2>1 DEF PagesInv, PagesOf
<1>9. ASSUME NEW w \in Recorders,
             (\E s \in Slugs : ReadRecord(w, s)) \/ WriteRecord(w) \/ UnlinkOld(w) \/ DropRecord(w)
      PROVE  PagesInv'
  <2>1. UNCHANGED <<carta, order, sync, torn>> /\ calm' \subseteq calm
    BY <1>9 DEF ReadRecord, WriteRecord, UnlinkOld, DropRecord, Disturb
  <2> QED BY <1>8, <2>1
<1> QED
  BY <1>1, <1>4, <1>5, <1>6, <1>7, <1>8, <1>9, ListPagePages, ChangePages DEF Next, SyncStep, vars

-----------------------------------------------------------------------------
(* What a sync failed on stays due.                                         *)

\* A change makes no item with a date current that a sync has seen before.
LEMMA StillCurrent ==
    ASSUME TypeOK, CartaInv, CartaChanges, NEW item \in Owed, item.mod # 0, item.mod <= clock, Current(item)'
    PROVE  /\ Current(item)
           /\ \A p \in Syncers : ToList(p, item) => ToList(p, item)'
<1>0. PICK i \in Services : \E x : Changed(i, x)
  BY SomeChange
<1>1. PICK x : Changed(i, x)
  BY <1>0
<1>2. /\ \A j \in Services : j # i => carta'[j] = carta[j]
      /\ carta'[i] = x /\ (x.slug # None => x.ver = clock + 1)
      /\ sync' = sync
  BY <1>1, ChangeEffect DEF Changed
<1>3. PICK j \in Services : Live(j)' /\ carta'[j].listed = item.slug /\ Mod(j)' = item.mod
  BY DEF Current
<1>4. item.mod \in Nat /\ clock \in Nat
  BY DEF Owed, TypeOK
<1>5. j # i /\ Live(j) /\ carta[j].listed = item.slug /\ Mod(j) = item.mod /\ carta'[j] = carta[j]
  <2>1. j # i
    BY <1>2, <1>3, <1>4 DEF Live, Mod
  <2> QED BY <1>2, <1>3, <2>1 DEF Live, Mod
<1>6. ASSUME NEW p \in Syncers, ToList(p, item) PROVE ToList(p, item)'
  <2>1. PICK k \in Services : Live(k) /\ carta[k].listed = item.slug /\ carta[k].subtheme \in sync[p].left
    BY <1>6 DEF ToList
  <2>2. k = j
    BY <1>5, <2>1, ListedApart
  <2> QED BY <1>2, <1>3, <1>5, <2>1, <2>2 DEF ToList
<1> QED BY <1>5, <1>6 DEF Current

LEMMA CartaChangesDue ==
    ASSUME TypeOK, CartaInv, DueInv, CartaChanges PROVE DueInv'
<1>1. UNCHANGED <<cursor, sync, owed>> /\ clock' = clock + 1 /\ clock \in Nat /\ torn \subseteq torn'
  BY SomeChange, ChangeEffect
<1>2. \A item \in owed : item \in Owed /\ item.mod \in Nat /\ item.mod <= clock
  BY DEF DueInv, OwedInv, TypeOK, Owed
<1>3. \A item \in owed : Pressing(item)' => /\ Pressing(item)
                                            /\ \A p \in Syncers : ToList(p, item) => ToList(p, item)'
  BY <1>1, <1>2, StillCurrent DEF Pressing
<1>4. OwedInv'
  BY <1>1, <1>2 DEF OwedInv
<1>5. FailedStaysDue'
  BY <1>1, <1>3 DEF DueInv, FailedStaysDue, Pressing, NeedsDetail
<1>6. ASSUME NEW p \in Syncers PROVE SyncInv(p)'
  <2>1. /\ \A y \in sync[p].listed : y.mod \in Nat /\ y.mod <= clock
        /\ \A st \in Subthemes : \A y \in sync[p].pages[st] : y.mod \in Nat /\ y.mod <= clock
    BY DEF DueInv, SyncInv, TypeOK, Sync, Item
  <2>2. \A item \in owed : InSight(p, item) /\ (ToList(p, item) => ToList(p, item)') => InSight(p, item)'
    BY <1>1 DEF InSight, Listed, Slid
  <2> QED BY <1>1, <1>3, <2>1, <2>2 DEF DueInv, SyncInv, Running
<1> QED BY <1>4, <1>5, <1>6 DEF DueInv

\* A step of the only sync that leaves cursor, Carta and what is owed alone.
LEMMA SyncMoves ==
    ASSUME TypeOK, DueInv, \A p, q \in Syncers : p = q, NEW p \in Syncers,
           UNCHANGED <<clock, carta, cursor, owed>>, SyncInv(p)'
    PROVE  DueInv'
BY DEF DueInv, OwedInv, FailedStaysDue, Current, Mod, Live

\* A sync that ends or has failed has nothing to look for.
LEMMA AtRest ==
    ASSUME TypeOK, NEW p \in Syncers, Leave(p)
    PROVE  SyncInv(p)'
<1>1. sync'[p] = NoSync
  BY DEF TypeOK, Leave, Goto
<1> QED BY <1>1 DEF SyncInv, Running, NoSync

LEMMA BeginDue ==
    ASSUME TypeOK, CartaInv, DueInv, NEW p \in Syncers, NEW full \in BOOLEAN, Begin(p, full)
    PROVE  SyncInv(p)'
<1>1. /\ sync'[p].phase = "list" /\ ~sync'[p].failed /\ sync'[p].left = Subthemes
      /\ sync'[p].listed = {} /\ sync'[p].since \in {0, cursor}
      /\ sync'[p].pages = [st \in Subthemes |-> {}]
  BY DEF Begin, Goto, TypeOK, NoSync
<1>2. UNCHANGED <<clock, carta, cursor, owed>>
  BY DEF Begin
<1>3. \A item \in owed : Pressing(item)' => ToList(p, item)'
  BY <1>1, <1>2 DEF Pressing, Current, Mod, ToList, Live, TypeOK, Published
<1> QED BY <1>1, <1>2, <1>3 DEF SyncInv, InSight, Running, Listed

\* What a page shows is listed as it is now or was seen before.
LEMMA ListPageItems ==
    ASSUME TypeOK, CartaInv, DueInv, NEW p \in Syncers, NEW st \in Subthemes,
           NEW y \in Read(p, st), sync[p].phase = "list"
    PROVE  /\ y.mod <= clock
           /\ \A item \in owed : Pressing(item) /\ y.slug = item.slug => y.mod = item.mod
<1>1. y \in sync[p].pages[st] \/ \E i \in Services : Live(i) /\ y = Entry(i)
  BY DEF Read, First, Page, InSubtheme
<1>2. CASE y \in sync[p].pages[st]
  BY <1>2 DEF DueInv, SyncInv, Running, InSight
<1>3. ASSUME NEW i \in Services, Live(i), y = Entry(i)
      PROVE  /\ y.mod <= clock
             /\ \A item \in owed : Pressing(item) /\ y.slug = item.slug => y.mod = item.mod
  <2>1. y.slug = carta[i].listed /\ y.mod = Mod(i) /\ Mod(i) <= clock
    BY <1>3, ListingType
  <2>2. ASSUME NEW item \in owed, Pressing(item), y.slug = item.slug PROVE y.mod = item.mod
    <3>1. PICK j \in Services : Live(j) /\ carta[j].listed = item.slug /\ Mod(j) = item.mod
      BY <2>2 DEF Pressing, Current
    <3>2. j = i
      BY <1>3, <2>1, <2>2, <3>1, ListedApart
    <3> QED BY <2>1, <3>1, <3>2
  <2> QED BY <2>1, <2>2
<1> QED BY <1>1, <1>2, <1>3

\* The listing shows what is pressing in its subtheme, unless it was torn.
LEMMA ListPageDue ==
    ASSUME TypeOK, CartaInv, PagesInv, DueInv, NEW p \in Syncers, NEW st \in Subthemes, ListPage(p, st)
    PROVE  SyncInv(p)'
<1>1. /\ sync[p] \in Sync /\ sync[p].phase = "list" /\ ~sync[p].failed /\ st \in sync[p].left
      /\ SyncInv(p)
  BY DEF TypeOK, ListPage, DueInv, SyncInv
<1>2. PICK x \in Sync : Goto(p, x) /\ sync'[p] = x /\ PageRead(p, st, x)
  BY ListPageStep
<1>3. UNCHANGED <<clock, carta, cursor, owed, torn>> /\ \A item \in owed : Pressing(item)' = Pressing(item)
  BY DEF ListPage, Pressing, Current, Mod, Live
<1>4. \A y \in x.listed : y \in sync[p].listed \/ y \in Read(p, st)
  BY <1>2 DEF PageRead, First
<1>5. \A u \in Subthemes : \A y \in x.pages[u] : y \in sync[p].pages[u] \/ (u = st /\ y \in Read(p, st))
  BY <1>2 DEF PageRead
<1>6. /\ \A y \in x.listed : y.mod <= clock
      /\ \A u \in Subthemes : \A y \in x.pages[u] : y.mod <= clock
  BY <1>1, <1>4, <1>5, ListPageItems DEF SyncInv
<1>7. ASSUME NEW item \in owed, Pressing(item) PROVE InSight(p, item)'
  <2>1. InSight(p, item)
    BY <1>1, <1>7 DEF SyncInv, Running
  <2>2. PICK i \in Services : Live(i) /\ carta[i].listed = item.slug /\ Mod(i) = item.mod
    BY <1>7 DEF Pressing, Current
  <2>3. /\ \A y \in x.listed : y.slug = item.slug => y.mod = item.mod
        /\ \A u \in Subthemes : \A y \in x.pages[u] : y.slug = item.slug => y.mod = item.mod
    BY <1>1, <1>4, <1>5, <1>7, <2>1, ListPageItems DEF InSight
  <2>4. ASSUME NEW y \in x.listed, y.slug = item.slug
        PROVE  [slug |-> item.slug, mod |-> item.mod] \in x.listed /\ NeedsDetail(y, x.since)
    <3>1. y \in Item /\ y.mod = item.mod
      BY <1>2, <2>3, <2>4 DEF Sync
    <3>2. y = [slug |-> item.slug, mod |-> item.mod]
      BY <2>4, <3>1 DEF Item
    <3>3. NeedsDetail(item, cursor) /\ x.since \in {0, cursor} /\ item.mod # 0
      BY <1>1, <1>2, <1>7 DEF DueInv, FailedStaysDue, Pressing, SyncInv, PageRead
    <3> QED BY <2>4, <3>1, <3>2, <3>3 DEF NeedsDetail
  <2>5. \/ \E y \in x.listed : y.slug = item.slug
        \/ carta[i].subtheme \in x.left
        \/ p \in torn
    <3> SUFFICES ASSUME p \notin torn, carta[i].subtheme \notin x.left
                 PROVE  \E y \in x.listed : y.slug = item.slug
      OBVIOUS
    <3>1. CASE Listed(p, item)
      <4>1. PICK y : y = [slug |-> item.slug, mod |-> item.mod]
        OBVIOUS
      <4>2. y \in sync[p].listed /\ y.slug = item.slug
        BY <3>1, <4>1 DEF Listed
      <4> QED BY <1>2, <4>2, StaysListed
    <3>2. CASE ToList(p, item)
      <4>1. carta[i].subtheme \in sync[p].left
        BY <2>2, <3>2, ListedApart DEF ToList
      <4>2. carta[i].subtheme = st /\ IsLast(st, sync[p].offset[st] + PageSize)
        BY <1>2, <4>1 DEF PageRead
      <4>3. Entry(i) \in Read(p, st)
        <5>1. Read(p, st) = {Entry(j) : j \in InSubtheme(st)}
          BY <1>1, <4>2, ReadSoFar
        <5>2. i \in InSubtheme(st)
          BY <2>2, <4>2 DEF InSubtheme
        <5> QED BY <5>1, <5>2
      <4>4. Entry(i).slug = item.slug
        BY <2>2, ListingType
      <4>5. PICK y : y = Entry(i)
        OBVIOUS
      <4>6. y \in Read(p, st) /\ y.slug = item.slug
        BY <4>3, <4>4, <4>5
      <4> QED BY <1>2, <4>2, <4>6, StaysListed
    <3> QED BY <1>1, <2>1, <3>1, <3>2 DEF InSight
  <2>6. CASE x.phase = "list"
    <3>1. ToList(p, item)' \/ Listed(p, item)' \/ p \in torn'
      <4>1. CASE \E y \in x.listed : y.slug = item.slug
        BY <1>2, <2>4, <4>1 DEF Listed
      <4>2. CASE carta[i].subtheme \in x.left
        BY <1>2, <1>3, <2>2, <4>2 DEF ToList, Live, Mod
      <4> QED BY <1>3, <2>5, <4>1, <4>2
    <3> QED BY <1>2, <2>3, <2>6, <3>1 DEF InSight
  <2>7. CASE x.phase = "fetch" /\ x.left = {}
    <3>1. CASE \E y \in x.listed : y.slug = item.slug
      <4>1. PICK y \in x.listed : y.slug = item.slug
        BY <3>1
      <4>2. item.slug \in x.toFetch
        BY <1>2, <2>4, <2>6, <2>7, <4>1 DEF PageRead
      <4> QED BY <1>2, <2>3, <2>7, <4>2 DEF InSight
    <3>2. CASE ~\E y \in x.listed : y.slug = item.slug
      <4>1. Slid(p, item)'
        BY <1>2, <1>3, <2>5, <2>7, <3>2 DEF Slid
      <4> QED BY <1>2, <2>3, <2>7, <4>1 DEF InSight
    <3> QED BY <3>1, <3>2
  <2> QED BY <1>2, <2>6, <2>7 DEF PageRead
<1>8. sync'[p].since \in {0, cursor'} /\ ~sync'[p].failed
  BY <1>1, <1>2, <1>3 DEF SyncInv, PageRead
<1>9. /\ \A y \in sync'[p].listed : y.mod <= clock'
      /\ \A u \in Subthemes : \A y \in sync'[p].pages[u] : y.mod <= clock'
  BY <1>2, <1>3, <1>6
<1> QED BY <1>3, <1>7, <1>8, <1>9 DEF SyncInv

\* A detail that was fetched is one to write.
LEMMA FetchDetailDue ==
    ASSUME TypeOK, DueInv, NEW p \in Syncers, NEW s \in Slugs, FetchDetail(p, s)
    PROVE  SyncInv(p)'
<1>1. sync[p] \in Sync /\ sync[p].phase = "fetch"
  BY DEF TypeOK, FetchDetail
<1>2. PICK i \in Answers(s) :
        Goto(p, [sync[p] EXCEPT !.toFetch = @ \ {s}, !.got = @ \union {MapDetail(s, i)}])
  BY DEF FetchDetail
<1>3. /\ sync'[p].toFetch = sync[p].toFetch \ {s}
      /\ sync'[p].got = sync[p].got \union {MapDetail(s, i)}
      /\ sync'[p].listed = sync[p].listed /\ sync'[p].phase = "fetch" /\ sync'[p].pages = sync[p].pages
      /\ sync'[p].since = sync[p].since /\ sync'[p].failed = sync[p].failed
  BY <1>1, <1>2 DEF Goto, TypeOK, Sync
<1>4. MapDetail(s, i).from = s
  BY DEF MapDetail
<1>5. UNCHANGED <<clock, carta, cursor, owed, torn>>
  BY DEF FetchDetail
<1>6. \A item \in owed : Pressing(item)' = Pressing(item)
  BY <1>5 DEF Pressing, Current, Mod, Live
<1>7. \A item \in owed : InSight(p, item) => InSight(p, item)'
  BY <1>1, <1>3, <1>4, <1>5 DEF InSight, Slid
<1> QED BY <1>1, <1>3, <1>5, <1>6, <1>7 DEF DueInv, SyncInv, Running

\* What a failure adds to owed is listed, and due if it says so.
LEMMA OwesDue ==
    ASSUME TypeOK, DueInv, NEW p \in Syncers, NEW s, NEW item \in Owes(p, s)
    PROVE  item.mod <= clock /\ (item.wasDue => NeedsDetail(item, cursor))
<1>1. PICK y \in sync[p].listed : item = [slug |-> s, mod |-> y.mod, wasDue |-> NeedsDetail(y, cursor)]
  BY DEF Owes
<1> QED BY <1>1 DEF DueInv, SyncInv, NeedsDetail

\* A failure of the only sync.
LEMMA FailureDue ==
    ASSUME TypeOK, DueInv, \A p, q \in Syncers : p = q, NEW p \in Syncers,
           UNCHANGED <<clock, carta, cursor>>,
           \A item \in owed' : item \in owed \/ \E s \in Slugs : item \in Owes(p, s),
           SyncInv(p)'
    PROVE  DueInv'
<1>1. OwedInv'
  BY OwesDue DEF DueInv, OwedInv
<1>2. FailedStaysDue'
  BY OwesDue DEF DueInv, FailedStaysDue, Current, Mod, Live
<1> QED BY <1>1, <1>2 DEF DueInv

LEMMA FetchFailsDue ==
    ASSUME TypeOK, DueInv, \A p, q \in Syncers : p = q,
           NEW p \in Syncers, NEW s \in Slugs, FetchFails(p, s)
    PROVE  DueInv'
<1>1. sync[p] \in Sync /\ sync[p].phase = "fetch"
  BY DEF TypeOK, FetchFails
<1>2. /\ sync'[p].listed = sync[p].listed /\ sync'[p].phase = "fetch" /\ sync'[p].pages = sync[p].pages
      /\ sync'[p].since = sync[p].since /\ sync'[p].failed
  BY <1>1 DEF FetchFails, Goto, TypeOK, Sync
<1>3. SyncInv(p)'
  BY <1>2 DEF DueInv, SyncInv, FetchFails
<1>4. \A item \in owed' : item \in owed \/ item \in Owes(p, s)
  BY DEF FetchFails
<1> QED BY <1>3, <1>4, FailureDue DEF FetchFails

\* The details are written, and nothing of what they were fetched for is owed; or
\* they are not, and the sync ends.
LEMMA UpsertBatchDue ==
    ASSUME TypeOK, DueInv, \A p, q \in Syncers : p = q, NEW p \in Syncers, UpsertBatch(p)
    PROVE  DueInv'
<1>1. /\ sync[p] \in Sync /\ sync[p].phase = "fetch" /\ sync[p].toFetch = {}
      /\ UNCHANGED <<clock, carta, cursor>>
  BY DEF TypeOK, UpsertBatch
<1>2. CASE /\ Goto(p, [sync[p] EXCEPT !.phase = "orphans"])
           /\ owed' = {item \in owed : \A d \in sync[p].got : d.from # item.slug} /\ torn' = torn
  <2>1. /\ sync'[p].listed = sync[p].listed /\ sync'[p].phase = "orphans" /\ sync'[p].pages = sync[p].pages
        /\ sync'[p].since = sync[p].since /\ sync'[p].failed = sync[p].failed
    BY <1>1, <1>2 DEF Goto, TypeOK, Sync
  <2>2. \A item \in owed' : item \in owed /\ Pressing(item)' = Pressing(item)
    BY <1>1, <1>2 DEF Pressing, Current, Mod, Live
  <2>3. ASSUME NEW item \in owed', Pressing(item), ~sync[p].failed PROVE InSight(p, item)'
    <3>1. InSight(p, item)
      BY <1>1, <2>2, <2>3 DEF DueInv, SyncInv, Running
    <3>2. Slid(p, item)
      BY <1>1, <1>2, <3>1 DEF InSight
    <3> QED BY <1>2, <2>1, <3>1, <3>2 DEF InSight, Slid
  <2>4. SyncInv(p)'
    BY <1>1, <2>1, <2>2, <2>3 DEF DueInv, SyncInv
  <2> QED BY <1>1, <2>2, <2>4, FailureDue
<1>3. CASE /\ Leave(p)
           /\ owed' = owed \union UNION {Owes(p, d.from) : d \in sync[p].got}
  <2>1. SyncInv(p)'
    BY <1>3, AtRest
  <2>2. \A d \in sync[p].got : d.from \in Slugs
    BY <1>1 DEF Sync, Detail
  <2> QED BY <1>1, <1>3, <2>1, <2>2, FailureDue
<1> QED BY <1>2, <1>3 DEF UpsertBatch

\* The orphans; a failure here holds the cursor as well.
LEMMA OrphansDue ==
    ASSUME TypeOK, DueInv, NEW p \in Syncers, SoftDeleteOrphans(p)
    PROVE  SyncInv(p)'
<1>1. sync[p] \in Sync /\ sync[p].phase = "orphans" /\ UNCHANGED <<clock, carta, cursor, owed, torn>>
  BY DEF TypeOK, SoftDeleteOrphans
<1>2. /\ sync'[p].listed = sync[p].listed /\ sync'[p].phase = "finish" /\ sync'[p].pages = sync[p].pages
      /\ sync'[p].since = sync[p].since
      /\ ~sync'[p].failed => ~sync[p].failed
  <2>1. \/ Goto(p, [sync[p] EXCEPT !.phase = "finish"])
        \/ Goto(p, [sync[p] EXCEPT !.phase = "finish", !.failed = TRUE])
    BY DEF SoftDeleteOrphans
  <2>2. CASE Goto(p, [sync[p] EXCEPT !.phase = "finish"])
    <3>1. sync'[p] = [sync[p] EXCEPT !.phase = "finish"]
      BY <2>2 DEF Goto, TypeOK
    <3> QED BY <1>1, <3>1 DEF Sync
  <2>3. CASE Goto(p, [sync[p] EXCEPT !.phase = "finish", !.failed = TRUE])
    <3>1. sync'[p] = [sync[p] EXCEPT !.phase = "finish", !.failed = TRUE]
      BY <2>3 DEF Goto, TypeOK
    <3>2. sync'[p].failed = TRUE
      BY <1>1, <3>1 DEF Sync
    <3> QED BY <1>1, <3>1, <3>2 DEF Sync
  <2> QED BY <2>1, <2>2, <2>3
<1>3. \A item \in owed : Pressing(item)' = Pressing(item)
  BY <1>1 DEF Pressing, Current, Mod, Live
<1>4. \A item \in owed : InSight(p, item) => InSight(p, item)'
  BY <1>1, <1>2 DEF InSight, Slid
<1> QED BY <1>1, <1>2, <1>3, <1>4 DEF DueInv, SyncInv, Running

\* The cursor moves only when nothing presses, but what slid out of a torn listing.
LEMMA FinishDue ==
    ASSUME TypeOK, DueInv, \A p, q \in Syncers : p = q, NEW p \in Syncers, Finish(p)
    PROVE  DueInv'
<1>1. sync[p].phase = "finish" /\ UNCHANGED <<clock, carta>> /\ Leave(p)
  BY DEF Finish
<1>2. SyncInv(p)'
  BY <1>1, AtRest
<1>3. CASE UNCHANGED <<cursor, owed>>
  BY <1>1, <1>2, <1>3, SyncMoves
<1>4. CASE MayAdvance(p) /\ owed' = StillOwed(p)
  <2>1. ~sync[p].failed
    BY <1>4 DEF MayAdvance
  <2>2. \A item \in owed' : item \in owed /\ ~Slid(p, item)
    BY <1>4 DEF StillOwed, Slid
  <2>3. \A item \in owed' : ~Pressing(item)
    BY <1>1, <2>1, <2>2 DEF DueInv, SyncInv, InSight, Running
  <2>4. FailedStaysDue'
    BY <1>1, <2>2, <2>3 DEF FailedStaysDue, Pressing, Current, Mod, Live, NeedsDetail
  <2> QED BY <1>1, <1>2, <2>2, <2>4 DEF DueInv, OwedInv
<1> QED BY <1>3, <1>4 DEF Finish

LEMMA DueNext ==
    ASSUME TypeOK, CartaInv, PagesInv, DueInv, \A p, q \in Syncers : p = q, [Next]_vars
    PROVE  DueInv'
<1>1. ASSUME NEW p \in Syncers, NEW full \in BOOLEAN, Begin(p, full) PROVE DueInv'
  BY <1>1, BeginDue, SyncMoves DEF Begin
<1>2. ASSUME NEW p \in Syncers, NEW st \in Subthemes, ListPage(p, st) PROVE DueInv'
  BY <1>2, ListPageDue, SyncMoves DEF ListPage
<1>3. ASSUME NEW p \in Syncers, NEW s \in Slugs, FetchDetail(p, s) PROVE DueInv'
  BY <1>3, FetchDetailDue, SyncMoves DEF FetchDetail
<1>4. ASSUME NEW p \in Syncers, SoftDeleteOrphans(p) PROVE DueInv'
  BY <1>4, OrphansDue, SyncMoves DEF SoftDeleteOrphans
<1>5. ASSUME NEW p \in Syncers, ListFails(p) \/ GiveUp(p) \/ Crash(p) PROVE DueInv'
  <2>1. Leave(p) /\ UNCHANGED <<clock, carta, cursor, owed>>
    BY <1>5 DEF ListFails, GiveUp, Crash
  <2>2. SyncInv(p)'
    BY <2>1, AtRest
  <2> QED BY <2>1, <2>2, SyncMoves
<1>6. CASE Deploy
  <2>1. /\ cursor' = 0 /\ UNCHANGED <<clock, carta, owed>>
        /\ \A p \in Syncers : sync'[p] = NoSync
    BY <1>6 DEF Deploy
  <2>2. \A p \in Syncers : SyncInv(p)'
    BY <2>1 DEF SyncInv, Running, NoSync
  <2>3. \A item \in owed : item.mod \in Nat
    BY DEF TypeOK, Owed
  <2>4. FailedStaysDue'
    BY <2>1, <2>3 DEF DueInv, FailedStaysDue, Current, Mod, Live, NeedsDetail, TypeOK
  <2> QED BY <2>1, <2>2, <2>4 DEF DueInv, OwedInv
<1>7. CASE UNCHANGED <<clock, carta, cursor, sync, torn, owed>>
  BY <1>7 DEF DueInv, OwedInv, SyncInv, InSight, ToList, Listed, Slid, Running, Pressing, FailedStaysDue,
              Current, Mod, Live
<1>8. ASSUME NEW w \in Recorders,
             (\E s \in Slugs : ReadRecord(w, s)) \/ WriteRecord(w) \/ UnlinkOld(w) \/ DropRecord(w)
      PROVE  DueInv'
  BY <1>7, <1>8 DEF ReadRecord, WriteRecord, UnlinkOld, DropRecord
<1> QED
  BY <1>1, <1>2, <1>3, <1>4, <1>5, <1>6, <1>7, <1>8, CartaChangesDue, FetchFailsDue, UpsertBatchDue, FinishDue
  DEF Next, SyncStep, vars

\* With one runSync at a time, the worker's, a due service a sync failed on stays due
\* until it is written or changes again: through any number of later syncs, changes,
\* webhook attempts, crashes and deploys.  Only a sync that read a subtheme while it
\* changed between two of its pages, and missed the service there, may pass it.
THEOREM FailedIsDue ==
    ASSUME \A p, q \in Syncers : p = q
    PROVE  Spec => []FailedStaysDue
<1>1. Init => DueInv /\ PagesInv
  BY DEF Init, DueInv, OwedInv, SyncInv, FailedStaysDue, Running, NoSync, PagesInv, PagesOf
<1>2. TypeOK /\ CartaInv /\ PagesInv /\ DueInv /\ [Next]_vars => DueInv'
  BY DueNext
<1>3. DueInv => FailedStaysDue
  BY DEF DueInv
<1> QED BY <1>1, <1>2, <1>3, InitTypes, TypeNext, CartaInvKept, PagesNext, PTL DEF Spec

-----------------------------------------------------------------------------
(* A full sync on a Carta at rest.                                          *)

\* What has been read of the Carta as it is: a detail, and what an attempt is to write.
IsNow(d) ==
    \E i \in Services : Live(i) /\ d.from \in Names(i) /\ d = MapDetail(d.from, i)

RecordIsNow(w) ==
    IF rec[w].slug = None
    THEN rec[w].phase = "write" /\ Answers(rec[w].asked) = {}
    ELSE \E i \in Answers(rec[w].asked) \ Nameless :
           /\ rec[w].slug = carta[i].slug
           /\ rec[w].shown = carta[i].shown /\ rec[w].ver = carta[i].ver
           /\ rec[w].phase = "unlink" => rec[w].slug # rec[w].asked

AttemptsInv ==
    \A w \in Recorders :
        /\ rec[w].at <= clock
        /\ rec[w].phase # "idle" /\ rec[w].at = clock => RecordIsNow(w)

Slugged(p) == {item.slug : item \in sync[p].listed}

\* The listing is of the Carta, the details come for what is listed.
ReadsNow(p) ==
    /\ \A s \in Slugged(p) : \E i \in Services : Live(i) /\ s = carta[i].listed
    /\ \A d \in sync[p].got : IsNow(d)

\* A live service is in a subtheme still to list, or listed; its detail is still to
\* fetch, or fetched.
ListsAll(p) ==
    \A i \in Services : Live(i) =>
        \/ sync[p].phase = "list" /\ carta[i].subtheme \in sync[p].left
        \/ carta[i].listed \in Slugged(p)

FetchesAll(p) ==
    \A i \in Services : Live(i) =>
        \/ sync[p].phase = "list"
        \/ sync[p].phase = "fetch" /\ carta[i].listed \in sync[p].toFetch
        \/ \E d \in sync[p].got : d.from = carta[i].listed

\* From the upsert on the services have their rows, from the soft delete on no
\* other is active.
HasRows ==
    \A i \in Services \ Nameless : Live(i) => row[carta[i].slug] = RowOf(i)

HasNoOther == \A s \in Slugs : row[s].active => \E i \in Services : carta[i].slug = s

FullInv(p) ==
    /\ ListsAll(p)
    /\ FetchesAll(p)
    /\ sync[p].phase \in {"orphans", "finish"} => HasRows
    /\ sync[p].phase = "finish" /\ sync[p].listed # {} => HasNoOther

CalmSync(p) ==
    /\ sync[p].phase # "idle"
    /\ ReadsNow(p)
    /\ sync[p].since = 0 /\ ~sync[p].failed => FullInv(p)

QuietInv == AttemptsInv /\ \A p \in calm : CalmSync(p)

\* A slug answers for one service only, and is the present one of no other.
LEMMA OneAnswer ==
    ASSUME TypeOK, CartaInv, NEW i \in Services, NEW j \in Services, Live(i), Live(j),
           NEW s \in Names(i) \intersect Names(j)
    PROVE  i = j
BY DEF CartaInv

LEMMA AnswersName == \A s : \A i \in Answers(s) : i \in Services /\ Live(i) /\ s \in Names(i)
BY DEF Answers, Names

LEMMA LiveSlug == ASSUME TypeOK, NEW i \in Services, Live(i) PROVE carta[i].slug \in Slugs /\ carta[i].slug \in Names(i)
BY DEF TypeOK, Published, Live, Names

\* A row that is written from what the Carta is now, or deleted where no service is.
LEMMA RowsNow ==
    ASSUME TypeOK, CartaInv, UNCHANGED carta,
           \A s \in Slugs :
               \/ row'[s] = row[s]
               \/ \E i \in Services \ Nameless :
                    Live(i) /\ carta[i].slug = s /\ row'[s] = RowOf(i)
               \/ ~row'[s].active /\ \A i \in Services : Live(i) => carta[i].slug # s
    PROVE  (HasRows => HasRows') /\ (HasNoOther => HasNoOther')
<1>1. ASSUME HasRows, NEW i \in Services \ Nameless, Live(i)
      PROVE  row'[carta[i].slug] = RowOf(i)
  <2>1. carta[i].slug \in Slugs /\ row[carta[i].slug] = RowOf(i)
    BY <1>1, LiveSlug DEF HasRows
  <2>2. ASSUME NEW j \in Services, Live(j), carta[j].slug = carta[i].slug PROVE j = i
    BY <1>1, <2>2, LiveSlug, OneAnswer
  <2> QED BY <1>1, <2>1, <2>2
<1>2. HasRows => HasRows'
  BY <1>1 DEF HasRows, Live, RowOf
<1>3. HasNoOther => HasNoOther'
  BY DEF HasNoOther
<1> QED BY <1>2, <1>3

\* A calm sync that makes no step, while the Carta rests.
LEMMA CalmKept ==
    ASSUME NEW p \in calm, QuietInv, UNCHANGED carta, sync'[p] = sync[p],
           HasRows => HasRows', HasNoOther => HasNoOther'
    PROVE  CalmSync(p)'
<1>1. CalmSync(p)
  BY DEF QuietInv
<1>2. Slugged(p)' = Slugged(p) /\ (\A d : IsNow(d)' = IsNow(d)) /\ \A i : Live(i)' = Live(i)
  BY DEF Slugged, IsNow, Live, Names, MapDetail
<1>3. ReadsNow(p)'
  BY <1>1, <1>2 DEF CalmSync, ReadsNow
<1>4. FullInv(p) => FullInv(p)'
  BY <1>2 DEF FullInv, ListsAll, FetchesAll
<1> QED BY <1>1, <1>3, <1>4 DEF CalmSync

\* A step of a sync, while the Carta and the webhook attempts rest.
LEMMA SyncQuiet ==
    ASSUME TypeOK, QuietInv, NEW p \in Syncers, NEW x, Goto(p, x), UNCHANGED <<clock, carta, rec>>,
           calm' \subseteq calm \union {p},
           (\E q \in calm' : q # p) => (HasRows => HasRows') /\ (HasNoOther => HasNoOther'),
           p \in calm' => CalmSync(p)'
    PROVE  QuietInv'
<1>1. AttemptsInv'
  BY DEF QuietInv, AttemptsInv, RecordIsNow, Answers, Live
<1>2. ASSUME NEW q \in calm', q # p PROVE CalmSync(q)'
  <2>1. sync'[q] = sync[q] /\ q \in calm
    BY <1>2 DEF Goto, TypeOK
  <2> QED BY <1>2, <2>1, CalmKept
<1> QED BY <1>1, <1>2 DEF QuietInv

LEMMA BeginQuiet ==
    ASSUME TypeOK, QuietInv, NEW p \in Syncers, NEW full \in BOOLEAN, Begin(p, full)
    PROVE  QuietInv'
<1>1. PICK x : Goto(p, x) /\ x = [NoSync EXCEPT !.phase = "list", !.left = Subthemes,
                                                !.since = IF full THEN 0 ELSE cursor]
  BY DEF Begin
<1>2. /\ sync'[p].phase = "list" /\ sync'[p].left = Subthemes
      /\ sync'[p].listed = {} /\ sync'[p].got = {}
  BY <1>1 DEF Goto, TypeOK, NoSync
<1>3. \A i \in Services : carta'[i].subtheme \in Subthemes
  BY DEF Begin, TypeOK, Published
<1>4. CalmSync(p)'
  BY <1>2, <1>3 DEF CalmSync, ReadsNow, Slugged, FullInv, ListsAll, FetchesAll
<1> QED BY <1>1, <1>4, SyncQuiet DEF Begin, HasRows, HasNoOther, Live, RowOf

\* What is new in the listing is of the subtheme, and with its last page all of it is
\* listed: on a Carta at rest no listing is torn.
LEMMA ListPageQuiet ==
    ASSUME TypeOK, CartaInv, PagesInv, QuietInv, NEW p \in Syncers, NEW st \in Subthemes, ListPage(p, st)
    PROVE  QuietInv'
<1>1. PICK x \in Sync : Goto(p, x) /\ sync'[p] = x /\ PageRead(p, st, x)
  BY ListPageStep
<1>2. /\ sync[p] \in Sync /\ sync[p].phase = "list" /\ st \in sync[p].left
      /\ UNCHANGED <<clock, carta, row, rec, calm>>
  BY DEF TypeOK, ListPage
<1>3. ASSUME p \in calm PROVE CalmSync(p)'
  <2>1. CalmSync(p) /\ p \notin torn
    BY <1>3 DEF QuietInv, PagesInv, PagesOf
  <2>2. /\ Read(p, st) = {Entry(i) : i \in FirstOf(st, sync[p].offset[st] + PageSize)}
        /\ IsLast(st, sync[p].offset[st] + PageSize) => Read(p, st) = {Entry(i) : i \in InSubtheme(st)}
    BY <1>2, <2>1, ReadSoFar
  <2>3. \A y \in Read(p, st) : \E i \in Services : Live(i) /\ y.slug = carta[i].listed
    BY <2>2, ListingType DEF FirstOf, InSubtheme
  <2>4. Slugged(p)' = {item.slug : item \in x.listed}
    BY <1>1 DEF Slugged
  <2>5. \A s \in Slugged(p)' : \E i \in Services : Live(i)' /\ s = carta'[i].listed
    <3>1. \A y \in x.listed : y \in sync[p].listed \/ y \in Read(p, st)
      BY <1>1 DEF PageRead, First
    <3>2. \A y \in sync[p].listed : \E i \in Services : Live(i) /\ y.slug = carta[i].listed
      BY <2>1 DEF CalmSync, ReadsNow, Slugged
    <3> QED BY <1>2, <2>3, <2>4, <3>1, <3>2 DEF Live
  <2>6. ReadsNow(p)'
    <3>1. \A d \in sync'[p].got : IsNow(d)'
      BY <1>1, <1>2, <2>1 DEF CalmSync, ReadsNow, IsNow, Live, Names, MapDetail, PageRead
    <3> QED BY <2>5, <3>1 DEF ReadsNow
  <2>7. ASSUME x.since = 0, ~x.failed PROVE FullInv(p)'
    <3>1. ListsAll(p)
      BY <1>1, <2>1, <2>7 DEF CalmSync, FullInv, PageRead
    <3>2. ASSUME NEW i \in Services, Live(i), carta[i].subtheme \notin x.left
          PROVE  \E y \in x.listed : y.slug = carta[i].listed
      <4>1. CASE carta[i].listed \in Slugged(p)
        <5>1. PICK y \in sync[p].listed : y.slug = carta[i].listed
          BY <4>1 DEF Slugged
        <5> QED BY <1>1, <5>1, StaysListed
      <4>2. CASE carta[i].subtheme \in sync[p].left
        <5>1. carta[i].subtheme = st /\ IsLast(st, sync[p].offset[st] + PageSize)
          BY <1>1, <3>2, <4>2 DEF PageRead
        <5>2. PICK y : y = Entry(i)
          OBVIOUS
        <5>3. y \in Read(p, st) /\ y.slug = carta[i].listed
          BY <2>2, <3>2, <5>1, <5>2, ListingType DEF InSubtheme
        <5> QED BY <1>1, <5>1, <5>3, StaysListed
      <4> QED BY <3>1, <3>2, <4>1, <4>2 DEF ListsAll
    <3>3. x.phase = "list" \/ (x.phase = "fetch" /\ x.left = {} /\ \A y \in x.listed : y.slug \in x.toFetch)
      BY <1>1, <2>7 DEF PageRead, NeedsDetail
    <3>4. ListsAll(p)'
      BY <1>1, <1>2, <2>4, <3>2, <3>3 DEF ListsAll, Live
    <3>5. FetchesAll(p)'
      BY <1>1, <1>2, <3>2, <3>3 DEF FetchesAll, Live
    <3> QED BY <1>1, <3>3, <3>4, <3>5 DEF FullInv
  <2>8. x.phase # "idle"
    BY <1>1 DEF PageRead
  <2> QED BY <1>1, <2>6, <2>7, <2>8 DEF CalmSync
<1> QED BY <1>1, <1>2, <1>3, SyncQuiet DEF HasRows, HasNoOther, Live, RowOf

\* A detail is read from the Carta as it is; one that fails ends what is promised.
LEMMA FetchQuiet ==
    ASSUME TypeOK, QuietInv, NEW p \in Syncers, NEW s \in Slugs, FetchDetail(p, s) \/ FetchFails(p, s)
    PROVE  QuietInv'
<1>1. sync[p] \in Sync /\ sync[p].phase = "fetch" /\ s \in sync[p].toFetch
  BY DEF TypeOK, FetchDetail, FetchFails
<1>2. CASE FetchDetail(p, s)
  <2>0. PICK i \in Answers(s) :
          Goto(p, [sync[p] EXCEPT !.toFetch = @ \ {s}, !.got = @ \union {MapDetail(s, i)}])
    BY <1>2 DEF FetchDetail
  <2>1. PICK x : Goto(p, x) /\ x = [sync[p] EXCEPT !.toFetch = @ \ {s}, !.got = @ \union {MapDetail(s, i)}]
    BY <2>0
  <2>2. sync'[p] = x /\ UNCHANGED <<clock, carta, row, rec, calm>>
    BY <1>2, <2>1 DEF Goto, TypeOK, FetchDetail
  <2>3. /\ x.toFetch = sync[p].toFetch \ {s} /\ x.got = sync[p].got \union {MapDetail(s, i)}
        /\ x.phase = "fetch" /\ x.listed = sync[p].listed /\ x.since = sync[p].since
        /\ x.failed = sync[p].failed
    BY <1>1, <2>1 DEF Sync
  <2>4. MapDetail(s, i).from = s /\ IsNow(MapDetail(s, i))
    <3>1. MapDetail(s, i).from = s
      BY DEF MapDetail
    <3> QED BY <3>1, AnswersName DEF IsNow
  <2>5. Slugged(p)' = Slugged(p) /\ (\A d : IsNow(d)' = IsNow(d)) /\ \A j : Live(j)' = Live(j)
    BY <2>2, <2>3 DEF Slugged, IsNow, Live, Names, MapDetail
  <2>6. ASSUME p \in calm PROVE CalmSync(p)'
    <3>1. CalmSync(p)
      BY <2>6 DEF QuietInv
    <3>2. ReadsNow(p)'
      BY <2>2, <2>3, <2>4, <2>5, <3>1 DEF CalmSync, ReadsNow
    <3>3. FullInv(p) => FullInv(p)'
      BY <1>1, <2>2, <2>3, <2>4, <2>5 DEF FullInv, ListsAll, FetchesAll
    <3> QED BY <2>2, <2>3, <3>1, <3>2, <3>3 DEF CalmSync
  <2> QED BY <2>1, <2>2, <2>6, SyncQuiet DEF HasRows, HasNoOther, Live, RowOf
<1>3. CASE FetchFails(p, s)
  <2>1. PICK x : Goto(p, x) /\ x = [sync[p] EXCEPT !.toFetch = @ \ {s}, !.failed = TRUE]
    BY <1>3 DEF FetchFails
  <2>2. sync'[p] = x /\ UNCHANGED <<clock, carta, row, rec, calm>>
    BY <1>3, <2>1 DEF Goto, TypeOK, FetchFails
  <2>3. /\ x.got = sync[p].got /\ x.phase = "fetch" /\ x.listed = sync[p].listed /\ x.failed = TRUE
    BY <1>1, <2>1 DEF Sync
  <2>4. Slugged(p)' = Slugged(p) /\ (\A d : IsNow(d)' = IsNow(d)) /\ \A j : Live(j)' = Live(j)
    BY <2>2, <2>3 DEF Slugged, IsNow, Live, Names, MapDetail
  <2>5. p \in calm => CalmSync(p)'
    BY <2>2, <2>3, <2>4 DEF QuietInv, CalmSync, ReadsNow
  <2> QED BY <2>1, <2>2, <2>5, SyncQuiet DEF HasRows, HasNoOther, Live, RowOf
<1> QED BY <1>2, <1>3

\* What a batch leaves is what the details say, and every detail is in it.
LEMMA BatchNow ==
    ASSUME TypeOK, CartaInv, NEW got, \A d \in got : IsNow(d), NEW rows \in Batch(got)
    PROVE  \A s \in Slugs :
             \/ /\ rows[s] = row[s]
                /\ \A i \in Services \ Nameless :
                     Live(i) /\ carta[i].slug = s => \A d \in got : d.from \notin Names(i)
             \/ \E i \in Services \ Nameless :
                  Live(i) /\ carta[i].slug = s /\ rows[s] = RowOf(i)
<1> DEFINE items == {d \in got : d.mapped}
<1>1. PICK pick \in [Slugs -> items \union {None}] :
        /\ \A s \in Slugs : IF pick[s] = None THEN \A d \in items : d.slug # s ELSE pick[s].slug = s
        /\ rows = [s \in Slugs |-> IF pick[s] = None THEN row[s] ELSE [active |-> pick[s].shown, ver |-> pick[s].ver]]
  BY DEF Batch
<1>2. \A d \in got : \E i \in Services :
        /\ Live(i) /\ d.from \in Names(i)
        /\ d.slug = carta[i].slug /\ d.shown = carta[i].shown /\ d.ver = carta[i].ver
        /\ d.mapped = (i \notin Nameless)
  BY DEF IsNow, MapDetail
<1> TAKE s \in Slugs
<1>3. CASE pick[s] = None
  <2>1. rows[s] = row[s] /\ \A d \in items : d.slug # s
    BY <1>1, <1>3
  <2>2. ASSUME NEW i \in Services \ Nameless, Live(i), carta[i].slug = s,
               NEW d \in got, d.from \in Names(i)
        PROVE  FALSE
    <3>1. PICK j \in Services : /\ Live(j) /\ d.from \in Names(j)
                                /\ d.slug = carta[j].slug /\ d.mapped = (j \notin Nameless)
      BY <1>2
    <3>2. j = i
      BY <2>2, <3>1, OneAnswer
    <3> QED BY <2>1, <2>2, <3>1, <3>2
  <2> QED BY <2>1, <2>2
<1>4. CASE pick[s] # None
  <2>1. pick[s] \in got /\ pick[s].mapped /\ pick[s].slug = s
    BY <1>1, <1>4
  <2>2. rows[s] = [active |-> pick[s].shown, ver |-> pick[s].ver]
    BY <1>1, <1>4
  <2>3. PICK i \in Services : /\ Live(i) /\ pick[s].slug = carta[i].slug
                              /\ pick[s].shown = carta[i].shown /\ pick[s].ver = carta[i].ver
                              /\ pick[s].mapped = (i \notin Nameless)
    BY <1>2, <2>1
  <2> QED BY <2>1, <2>2, <2>3 DEF RowOf
<1> QED BY <1>3, <1>4

LEMMA UpsertBatchQuiet ==
    ASSUME TypeOK, CartaInv, QuietInv, NEW p \in Syncers, UpsertBatch(p)
    PROVE  QuietInv'
<1>1. sync[p] \in Sync /\ sync[p].phase = "fetch" /\ sync[p].toFetch = {} /\ UNCHANGED <<clock, carta, rec>>
  BY DEF TypeOK, UpsertBatch
<1>2. CASE calm' = {}
  BY <1>1, <1>2 DEF QuietInv, AttemptsInv, RecordIsNow, Answers, Live
<1>3. CASE /\ p \in calm /\ calm' = calm /\ row' \in Batch(sync[p].got)
           /\ Goto(p, [sync[p] EXCEPT !.phase = "orphans"])
  <2>1. CalmSync(p)
    BY <1>3 DEF QuietInv
  <2>2. \A d \in sync[p].got : IsNow(d)
    BY <2>1 DEF CalmSync, ReadsNow
  <2>3. \A s \in Slugs :
             \/ /\ row'[s] = row[s]
                /\ \A i \in Services \ Nameless :
                     Live(i) /\ carta[i].slug = s => \A d \in sync[p].got : d.from \notin Names(i)
             \/ \E i \in Services \ Nameless :
                  Live(i) /\ carta[i].slug = s /\ row'[s] = RowOf(i)
    BY <1>3, <2>2, BatchNow
  <2>4. (HasRows => HasRows') /\ (HasNoOther => HasNoOther')
    BY <1>1, <2>3, RowsNow
  <2>5. PICK x : Goto(p, x) /\ x = [sync[p] EXCEPT !.phase = "orphans"]
    BY <1>3
  <2>6. /\ sync'[p] = x /\ x.phase = "orphans" /\ x.got = sync[p].got /\ x.listed = sync[p].listed
        /\ x.since = sync[p].since /\ x.failed = sync[p].failed
    BY <1>1, <2>5 DEF Goto, TypeOK, Sync
  <2>7. Slugged(p)' = Slugged(p) /\ (\A d : IsNow(d)' = IsNow(d)) /\ \A j : Live(j)' = Live(j)
    BY <1>1, <2>6 DEF Slugged, IsNow, Live, Names, MapDetail
  <2>8. ReadsNow(p)'
    BY <1>1, <2>1, <2>6, <2>7 DEF CalmSync, ReadsNow
  <2>9. ASSUME sync[p].since = 0, ~sync[p].failed PROVE FullInv(p)'
    <3>1. ListsAll(p) /\ FetchesAll(p)
      BY <2>1, <2>9 DEF CalmSync, FullInv
    <3>2. \A i \in Services : Live(i) => \E d \in sync[p].got : d.from = carta[i].listed
      BY <1>1, <3>1 DEF FetchesAll
    <3>3. ASSUME NEW i \in Services \ Nameless, Live(i)
          PROVE  row'[carta[i].slug] = RowOf(i)
      <4>1. PICK d \in sync[p].got : d.from \in Names(i)
        BY <3>2, <3>3 DEF CartaInv
      <4>2. PICK j \in Services : /\ Live(j) /\ carta[j].slug = carta[i].slug
                                  /\ row'[carta[i].slug] = RowOf(j)
        BY <2>3, <3>3, <4>1, LiveSlug
      <4>3. j = i
        BY <3>3, <4>2, LiveSlug, OneAnswer
      <4> QED BY <4>2, <4>3
    <3>4. HasRows'
      BY <1>1, <3>3 DEF HasRows, Live, RowOf
    <3>5. ListsAll(p)' /\ FetchesAll(p)'
      BY <1>1, <2>6, <2>7, <3>1, <3>2 DEF ListsAll, FetchesAll
    <3> QED BY <2>6, <3>4, <3>5 DEF FullInv
  <2>10. CalmSync(p)'
    BY <2>6, <2>8, <2>9 DEF CalmSync
  <2> QED BY <1>1, <1>3, <2>4, <2>5, <2>10, SyncQuiet
<1> QED BY <1>2, <1>3 DEF UpsertBatch

\* The slugs to keep are those of the services, once every listed detail is there.
LEMMA SeenNow ==
    ASSUME TypeOK, CartaInv, NEW p \in Syncers, ReadsNow(p), ListsAll(p), FetchesAll(p),
           sync[p].phase = "orphans"
    PROVE  LET seen == resolveSeenSlugs(sync[p].listed, sync[p].got)
           IN  /\ \A i \in Services : Live(i) => carta[i].slug \in seen
               /\ \A s \in seen : \E i \in Services : Live(i) /\ carta[i].slug = s
<1> DEFINE Target(s) == CHOOSE d \in sync[p].got : d.from = s
<1>1. ASSUME NEW item \in sync[p].listed, NEW i \in Services, Live(i), item.slug = carta[i].listed
      PROVE  (\E d \in sync[p].got : d.from = item.slug) /\ Target(item.slug).slug = carta[i].slug
  <2>1. \E d \in sync[p].got : d.from = item.slug
    BY <1>1 DEF FetchesAll
  <2>2. Target(item.slug) \in sync[p].got /\ Target(item.slug).from = item.slug
    BY <2>1
  <2>3. PICK j \in Services : /\ Live(j) /\ item.slug \in Names(j)
                              /\ Target(item.slug) = MapDetail(item.slug, j)
    BY <2>2 DEF ReadsNow, IsNow
  <2>4. j = i
    BY <1>1, <2>3, OneAnswer DEF CartaInv
  <2>5. MapDetail(item.slug, j).slug = carta[j].slug
    BY DEF MapDetail
  <2> HIDE DEF Target
  <2> QED BY <2>1, <2>3, <2>4, <2>5
<1>2. \A item \in sync[p].listed : \E i \in Services : Live(i) /\ item.slug = carta[i].listed
  BY DEF ReadsNow, Slugged
<1>3. \A i \in Services : Live(i) => \E item \in sync[p].listed : item.slug = carta[i].listed
  BY DEF ListsAll, Slugged
<1>4. resolveSeenSlugs(sync[p].listed, sync[p].got) = {Target(item.slug).slug : item \in sync[p].listed}
  BY <1>1, <1>2 DEF resolveSeenSlugs
<1> HIDE DEF Target
<1> QED BY <1>1, <1>2, <1>3, <1>4

\* The sync leaves active what it is to keep, and only that.
LEMMA OrphansQuiet ==
    ASSUME TypeOK, CartaInv, QuietInv, NEW p \in Syncers, SoftDeleteOrphans(p)
    PROVE  QuietInv'
<1>1. /\ sync[p] \in Sync /\ sync[p].phase = "orphans" /\ calm' = calm \intersect {p}
      /\ UNCHANGED <<clock, carta, rec>>
  BY DEF TypeOK, SoftDeleteOrphans
<1> DEFINE seen == resolveSeenSlugs(sync[p].listed, sync[p].got)
           pruned == [s \in Slugs |-> IF RemovesOrphans(p) /\ s \notin seen
                                      THEN [row[s] EXCEPT !.active = FALSE] ELSE row[s]]
<1>2. PICK x : /\ Goto(p, x)
               /\ \/ x = [sync[p] EXCEPT !.phase = "finish"] /\ row' = pruned
                  \/ x = [sync[p] EXCEPT !.phase = "finish", !.failed = TRUE]
  BY DEF SoftDeleteOrphans
<1>3. sync'[p] = x
  BY <1>2 DEF Goto, TypeOK
<1>4. /\ x.phase = "finish" /\ x.got = sync[p].got /\ x.listed = sync[p].listed /\ x.since = sync[p].since
      /\ ~x.failed => ~sync[p].failed /\ row' = pruned
  <2>1. CASE x = [sync[p] EXCEPT !.phase = "finish"] /\ row' = pruned
    BY <1>1, <2>1 DEF Sync
  <2>2. CASE x = [sync[p] EXCEPT !.phase = "finish", !.failed = TRUE]
    <3>1. x.failed = TRUE
      BY <1>1, <2>2 DEF Sync
    <3> QED BY <1>1, <2>2, <3>1 DEF Sync
  <2> QED BY <1>2, <2>1, <2>2
<1>5. Slugged(p)' = Slugged(p) /\ (\A d : IsNow(d)' = IsNow(d)) /\ \A j : Live(j)' = Live(j)
  BY <1>1, <1>3, <1>4 DEF Slugged, IsNow, Live, Names, MapDetail
<1>6. ASSUME p \in calm PROVE CalmSync(p)'
  <2>1. CalmSync(p)
    BY <1>6 DEF QuietInv
  <2>2. ReadsNow(p)'
    BY <1>1, <1>3, <1>4, <1>5, <2>1 DEF CalmSync, ReadsNow
  <2>3. ASSUME x.since = 0, ~x.failed PROVE FullInv(p)'
    <3>1. ListsAll(p) /\ FetchesAll(p) /\ HasRows /\ ReadsNow(p) /\ row' = pruned
      BY <1>1, <1>4, <2>1, <2>3 DEF CalmSync, FullInv
    <3>2. /\ \A i \in Services : Live(i) => carta[i].slug \in seen
          /\ \A s \in seen : \E i \in Services : Live(i) /\ carta[i].slug = s
      BY <1>1, <3>1, SeenNow
    <3>3. \A s \in Slugs : row'[s] = IF RemovesOrphans(p) /\ s \notin seen
                                     THEN [row[s] EXCEPT !.active = FALSE] ELSE row[s]
      BY <3>1
    <3> HIDE DEF seen, pruned
    <3>4. HasRows'
      BY <1>1, <3>1, <3>2, <3>3, LiveSlug DEF HasRows, Live, RowOf
    <3>5. ASSUME x.listed # {}, NEW s \in Slugs, row'[s].active PROVE s \in seen
      <4>1. RemovesOrphans(p)
        BY <1>4, <3>5 DEF RemovesOrphans
      <4>2. row[s] \in Row /\ [row[s] EXCEPT !.active = FALSE].active = FALSE
        BY DEF TypeOK, Row
      <4> QED BY <3>3, <3>5, <4>1, <4>2
    <3>6. x.listed # {} => HasNoOther'
      BY <1>1, <3>2, <3>5 DEF HasNoOther
    <3>7. ListsAll(p)' /\ FetchesAll(p)'
      BY <1>1, <1>3, <1>4, <1>5, <3>1 DEF ListsAll, FetchesAll
    <3> QED BY <1>3, <3>4, <3>6, <3>7 DEF FullInv
  <2> QED BY <1>3, <1>4, <2>2, <2>3 DEF CalmSync
<1> QED BY <1>1, <1>2, <1>6, SyncQuiet

\* A sync that ends is calm no more.
LEMMA EndQuiet ==
    ASSUME TypeOK, QuietInv, NEW p \in Syncers,
           ListFails(p) \/ GiveUp(p) \/ Finish(p) \/ Crash(p)
    PROVE  QuietInv'
<1>1. /\ Goto(p, NoSync) /\ calm' = calm \ {p} /\ UNCHANGED <<clock, carta, row, rec>>
  BY DEF ListFails, GiveUp, Finish, Crash, Leave
<1> QED BY <1>1, SyncQuiet DEF HasRows, HasNoOther, Live, RowOf

\* A webhook attempt that writes what the Carta is now disturbs nobody.
LEMMA RecorderQuiet ==
    ASSUME TypeOK, CartaInv, QuietInv, NEW w \in Recorders,
           (\E s \in Slugs : ReadRecord(w, s)) \/ WriteRecord(w) \/ UnlinkOld(w) \/ DropRecord(w)
    PROVE  QuietInv'
<1>1. UNCHANGED <<clock, carta, sync>> /\ rec[w] \in Rec /\ clock \in Nat
  BY DEF TypeOK, ReadRecord, WriteRecord, UnlinkOld, DropRecord
<1>2. ASSUME NEW x, rec' = [rec EXCEPT ![w] = x], x.at <= clock,
             x.phase # "idle" /\ x.at = clock => RecordIsNow(w)'
      PROVE  AttemptsInv'
  <2>1. rec'[w] = x
    BY <1>2 DEF TypeOK
  <2>2. \A v \in Recorders : v # w => rec'[v] = rec[v]
    BY <1>2 DEF TypeOK
  <2>3. \A v \in Recorders : v # w => RecordIsNow(v)' = RecordIsNow(v)
    BY <1>1, <2>2, Zenon DEF RecordIsNow, Answers, Live
  <2> QED BY <1>1, <1>2, <2>1, <2>2, <2>3 DEF QuietInv, AttemptsInv
<1>3. NoRec.at <= clock /\ NoRec.phase = "idle"
  BY <1>1 DEF NoRec
<1>4. ASSUME calm' \subseteq calm, AttemptsInv',
             calm' # {} => (HasRows => HasRows') /\ (HasNoOther => HasNoOther')
      PROVE  QuietInv'
  <2>1. ASSUME NEW p \in calm' PROVE CalmSync(p)'
    BY <1>1, <1>4, CalmKept
  <2> QED BY <1>4, <2>1 DEF QuietInv
<1>5. ASSUME NEW s \in Slugs, ReadRecord(w, s) PROVE QuietInv'
  <2>1. CASE /\ Answers(s) = {}
             /\ rec' = [rec EXCEPT ![w] = [NoRec EXCEPT !.phase = "write", !.asked = s, !.at = clock]]
    <3>1. PICK x : x = [NoRec EXCEPT !.phase = "write", !.asked = s, !.at = clock]
      OBVIOUS
    <3>2. x.at = clock /\ x.phase = "write" /\ x.asked = s /\ x.slug = None
      BY <3>1 DEF NoRec
    <3>3. rec' = [rec EXCEPT ![w] = x] /\ rec'[w] = x
      BY <2>1, <3>1 DEF TypeOK
    <3>4. RecordIsNow(w)'
      BY <1>1, <2>1, <3>2, <3>3 DEF RecordIsNow, Answers, Live
    <3>5. AttemptsInv'
      <4>1. x.at <= clock
        BY <1>1, <3>2
      <4> QED BY <1>2, <3>3, <3>4, <4>1
    <3> QED BY <1>1, <1>4, <1>5, <3>5 DEF ReadRecord, HasRows, HasNoOther, Live, RowOf
  <2>2. ASSUME NEW i \in Answers(s) \ Nameless,
               rec' = [rec EXCEPT ![w] = [phase |-> "write", asked |-> s, slug |-> carta[i].slug,
                                          shown |-> carta[i].shown, ver |-> carta[i].ver, at |-> clock]]
        PROVE  QuietInv'
    <3>1. PICK x : x = [phase |-> "write", asked |-> s, slug |-> carta[i].slug,
                        shown |-> carta[i].shown, ver |-> carta[i].ver, at |-> clock]
      OBVIOUS
    <3>2. rec' = [rec EXCEPT ![w] = x] /\ rec'[w] = x
      BY <2>2, <3>1 DEF TypeOK
    <3>3. x.at = clock /\ x.phase = "write" /\ x.asked = s /\ x.slug = carta[i].slug
          /\ x.shown = carta[i].shown /\ x.ver = carta[i].ver
      BY <3>1
    <3>4. x.slug # None
      BY <3>3 DEF Answers, Live
    <3>5. RecordIsNow(w)'
      BY <1>1, <2>2, <3>2, <3>3, <3>4 DEF RecordIsNow, Answers, Live
    <3>6. AttemptsInv'
      <4>1. x.at <= clock
        BY <1>1, <3>3
      <4> QED BY <1>2, <3>2, <3>5, <4>1
    <3> QED BY <1>1, <1>4, <1>5, <3>6 DEF ReadRecord, HasRows, HasNoOther, Live, RowOf
  <2> QED BY <1>5, <2>1, <2>2 DEF ReadRecord
<1>6. CASE DropRecord(w)
  BY <1>2, <1>3, <1>4, <1>6, <1>1 DEF DropRecord, HasRows, HasNoOther, Live, RowOf
<1>7. CASE WriteRecord(w)
  <2>1. rec[w].phase = "write" /\ rec[w].at <= clock /\ (rec[w].at = clock => RecordIsNow(w))
    BY <1>7 DEF WriteRecord, QuietInv, AttemptsInv
  <2>2. CASE rec[w].slug = None
    <3>1. /\ rec' = [rec EXCEPT ![w] = NoRec]
          /\ row' = [row EXCEPT ![rec[w].asked].active = FALSE]
      BY <1>7, <2>2 DEF WriteRecord
    <3>2. ASSUME rec[w].at = clock
          PROVE  (HasRows => HasRows') /\ (HasNoOther => HasNoOther')
      <4>1. Answers(rec[w].asked) = {}
        BY <2>1, <2>2, <3>2 DEF RecordIsNow
      <4>2. \A s \in Slugs : s # rec[w].asked => row'[s] = row[s]
        BY <3>1 DEF TypeOK
      <4>3. rec[w].asked \in Slugs => ~row'[rec[w].asked].active
        BY <3>1 DEF TypeOK, Row
      <4> QED BY <1>1, <4>1, <4>2, <4>3, RowsNow DEF Answers
    <3> QED BY <1>2, <1>3, <1>4, <1>7, <3>1, <3>2 DEF WriteRecord, Disturb
  <2>3. CASE rec[w].slug # None
    <3>1. /\ row' = [row EXCEPT ![rec[w].slug] = [active |-> rec[w].shown, ver |-> rec[w].ver]]
          /\ \/ rec' = [rec EXCEPT ![w] = NoRec]
             \/ /\ rec[w].slug # rec[w].asked
                /\ rec' = [rec EXCEPT ![w] = [rec[w] EXCEPT !.phase = "unlink"]]
      BY <1>7, <2>3 DEF WriteRecord
    <3>2. ASSUME rec[w].at = clock
          PROVE  (HasRows => HasRows') /\ (HasNoOther => HasNoOther')
      <4>1. PICK i \in Answers(rec[w].asked) \ Nameless :
              rec[w].slug = carta[i].slug /\ rec[w].shown = carta[i].shown /\ rec[w].ver = carta[i].ver
        BY <2>1, <2>3, <3>2 DEF RecordIsNow
      <4>2. \A s \in Slugs : s # rec[w].slug => row'[s] = row[s]
        BY <3>1 DEF TypeOK
      <4>3. rec[w].slug \in Slugs => row'[rec[w].slug] = RowOf(i)
        BY <3>1, <4>1 DEF TypeOK, RowOf
      <4> QED BY <1>1, <4>1, <4>2, <4>3, AnswersName, RowsNow
    <3>3. AttemptsInv'
      <4>1. CASE rec' = [rec EXCEPT ![w] = NoRec]
        BY <1>2, <1>3, <4>1
      <4>2. CASE /\ rec[w].slug # rec[w].asked
                 /\ rec' = [rec EXCEPT ![w] = [rec[w] EXCEPT !.phase = "unlink"]]
        <5>1. PICK x : x = [rec[w] EXCEPT !.phase = "unlink"]
          OBVIOUS
        <5>2. rec' = [rec EXCEPT ![w] = x] /\ rec'[w] = x
          BY <4>2, <5>1 DEF TypeOK
        <5>3. x.at = rec[w].at /\ x.asked = rec[w].asked /\ x.slug = rec[w].slug
              /\ x.shown = rec[w].shown /\ x.ver = rec[w].ver
          BY <1>1, <5>1 DEF Rec
        <5>4. x.at = clock => RecordIsNow(w)'
          BY <1>1, <2>1, <2>3, <4>2, <5>2, <5>3 DEF RecordIsNow, Answers, Live
        <5> QED BY <1>2, <2>1, <5>2, <5>3, <5>4
      <4> QED BY <3>1, <4>1, <4>2
    <3> QED BY <1>4, <1>7, <3>2, <3>3 DEF WriteRecord, Disturb
  <2> QED BY <2>2, <2>3
<1>8. CASE UnlinkOld(w)
  <2>1. /\ rec[w].phase = "unlink" /\ (rec[w].at = clock => RecordIsNow(w))
        /\ rec' = [rec EXCEPT ![w] = NoRec]
        /\ row' = row \/ row' = [row EXCEPT ![rec[w].asked].active = FALSE]
    BY <1>8 DEF UnlinkOld, QuietInv, AttemptsInv
  <2>2. ASSUME rec[w].at = clock
        PROVE  (HasRows => HasRows') /\ (HasNoOther => HasNoOther')
    <3>1. PICK i \in Answers(rec[w].asked) : rec[w].slug = carta[i].slug /\ rec[w].slug # rec[w].asked
      BY <2>1, <2>2 DEF RecordIsNow
    <3>2. \A s \in Slugs : s # rec[w].asked => row'[s] = row[s]
      BY <2>1 DEF TypeOK
    <3>3. rec[w].asked \in Slugs => row' = row \/ ~row'[rec[w].asked].active
      BY <2>1 DEF TypeOK, Row
    <3>4. \A j \in Services : Live(j) => carta[j].slug # rec[w].asked
      BY <3>1, AnswersName, LiveSlug, OneAnswer
    <3> QED BY <1>1, <3>2, <3>3, <3>4, RowsNow
  <2> QED BY <1>2, <1>3, <1>4, <1>8, <2>1, <2>2 DEF UnlinkOld, Disturb
<1> QED BY <1>5, <1>6, <1>7, <1>8

LEMMA QuietNext == TypeOK /\ CartaInv /\ PagesInv /\ QuietInv /\ [Next]_vars => QuietInv'
<1> SUFFICES ASSUME TypeOK, CartaInv, PagesInv, QuietInv, [Next]_vars PROVE QuietInv'
  OBVIOUS
<1>1. CASE CartaChanges
  <2>1. calm' = {} /\ clock' = clock + 1 /\ rec' = rec
    BY <1>1, SomeChange, ChangeEffect
  <2>2. \A w \in Recorders : rec[w].at \in Nat /\ rec[w].at <= clock /\ clock \in Nat
    BY DEF QuietInv, AttemptsInv, TypeOK, Rec
  <2>3. \A w \in Recorders : rec[w].at <= clock + 1 /\ rec[w].at # clock + 1
    BY <2>2
  <2> QED BY <2>1, <2>3 DEF QuietInv, AttemptsInv
<1>2. CASE Deploy
  BY <1>2 DEF Deploy, QuietInv, AttemptsInv, RecordIsNow, Answers, Live
<1>3. CASE UNCHANGED vars
  <2>1. \A p \in calm : CalmSync(p)'
    BY <1>3, CalmKept DEF vars, HasRows, HasNoOther, Live, RowOf
  <2> QED BY <1>3, <2>1 DEF vars, QuietInv, AttemptsInv, RecordIsNow, Answers, Live
<1> QED
  BY <1>1, <1>2, <1>3, BeginQuiet, ListPageQuiet, FetchQuiet, UpsertBatchQuiet, OrphansQuiet,
     EndQuiet, RecorderQuiet
  DEF Next, SyncStep

\* A full sync without failures on a Carta at rest leaves exactly the services of the
\* Carta, for any services, slugs and subthemes, whatever other syncs and webhook
\* attempts that read the same Carta write meanwhile.
THEOREM QuietFullSync == Spec => []QuietFullSyncMatches
<1>1. Init => QuietInv /\ PagesInv
  BY DEF Init, QuietInv, AttemptsInv, NoRec, PagesInv, PagesOf, NoSync
<1>2. TypeOK /\ CartaInv /\ QuietInv => QuietFullSyncMatches
  <2> SUFFICES ASSUME TypeOK, CartaInv, QuietInv, NEW p \in calm,
                      sync[p].phase = "finish", sync[p].since = 0, ~sync[p].failed, sync[p].listed # {}
               PROVE  \A s \in Slugs :
                        /\ row[s].active => \E i \in Services : carta[i].slug = s
                        /\ \A i \in Services \ Nameless :
                             carta[i].slug = s => row[s] = RowOf(i)
    BY DEF QuietFullSyncMatches
  <2>1. HasRows /\ HasNoOther
    BY DEF QuietInv, CalmSync, FullInv
  <2>2. \A i \in Services : carta[i].slug \in Slugs => Live(i)
    BY SyncAssumption DEF Live
  <2> QED BY <2>1, <2>2 DEF HasRows, HasNoOther
<1> QED BY <1>1, <1>2, QuietNext, InitTypes, TypeNext, CartaInvKept, PagesNext, PTL DEF Spec

-----------------------------------------------------------------------------
(* CartaHierarchy: the inductive invariant.                                 *)

IsRunning(p) == hierarchySync[p].phase # "idle"

\* A running sync has, stored or still to store, the themes the Carta had services of
\* when it listed them, unless it failed on one; it goes on to the soft deletes and to
\* the services only if it failed on none.
HierarchyRun(p) ==
    /\ \A t \in hierarchySync[p].left : hierarchySync[p].counts[t] > 0
    /\ ~hierarchySync[p].failed => Themes \ (hierarchySync[p].left \union hierarchySync[p].keep) \subseteq vacated
    /\ hierarchySync[p].phase # "store" => hierarchySync[p].left = {} /\ ~hierarchySync[p].failed

\* If nobody wrote beside it, these are the themes the Carta still lists, and their rows
\* are live; its counts are those of the services stored.
CalmRun(p) ==
    /\ hierarchySync[p].left \union hierarchySync[p].keep = Hierarchy!ListedThemes
    /\ \A u \in Subthemes :
         u \in hierarchySync[p].keepSubs <=> ThemeOf[u] \in hierarchySync[p].keep /\ Hierarchy!InSubtheme(u) # {}
    /\ \A t \in hierarchySync[p].keep : theme[t].row = "live"
    /\ \A u \in hierarchySync[p].keepSubs : subtheme[u].row = "live"
    /\ hierarchySync[p].phase \in {"refreshed", "done"} =>
         \A u \in Subthemes : subtheme[u].row = "live" =>
           subtheme[u].published_services = Hierarchy!Cardinality(Hierarchy!Active({u}))
    /\ hierarchySync[p].phase = "done" =>
         \A t \in Themes : theme[t].row = "live" =>
           theme[t].published_services = Hierarchy!Cardinality(Hierarchy!Active(Hierarchy!SubsOf(t)))

HierarchyInv ==
    /\ Hierarchy!TypeOK
    /\ \A p \in Syncers : IsRunning(p) => HierarchyRun(p)
    /\ \A p \in hierarchyCalm : IsRunning(p) /\ ~hierarchySync[p].failed => CalmRun(p)

-----------------------------------------------------------------------------
(* Counts and rows.                                                         *)

LEMMA CountOfServices ==
    ASSUME NEW S \in SUBSET Mapped
    PROVE  /\ Hierarchy!Cardinality(S) \in Hierarchy!Count
           /\ Hierarchy!Cardinality(S) > 0 <=> S # {}
<1>1. \A T : Hierarchy!Cardinality(T) = Cardinality(T)
  BY DEF Hierarchy!Cardinality, Cardinality
<1>2. IsFiniteSet(Mapped)
  BY SyncAssumption, FS_Subset DEF Mapped
<1>3. IsFiniteSet(S) /\ Cardinality(S) <= Cardinality(Mapped)
  BY <1>2, FS_Subset
<1>4. Cardinality(S) \in Nat /\ Cardinality(Mapped) \in Nat
  BY <1>2, <1>3, FS_CardinalityType
<1>5. Cardinality(S) = 0 <=> S = {}
  BY <1>3, FS_EmptySet
<1> QED BY <1>1, <1>3, <1>4, <1>5 DEF Hierarchy!Count

LEMMA CountOfSubthemes ==
    ASSUME NEW S \in SUBSET Subthemes
    PROVE  Hierarchy!Cardinality(S) \in Nat
<1>1. Hierarchy!Cardinality(S) = Cardinality(S)
  BY DEF Hierarchy!Cardinality, Cardinality
<1>2. IsFiniteSet(S)
  BY HierarchyAssumption, FS_Subset
<1> QED BY <1>1, <1>2, FS_CardinalityType

\* UpsertTheme changes one row, and makes it live.
LEMMA LiveThemeRow ==
    ASSUME Hierarchy!TypeOK, NEW t \in Themes, NEW n \in Hierarchy!Count, NEW m \in Nat
    PROVE  /\ Hierarchy!LiveTheme(t, n, m) \in [Themes -> Hierarchy!Theme]
           /\ Hierarchy!LiveTheme(t, n, m)[t].row = "live"
           /\ Hierarchy!LiveTheme(t, n, m)[t].published_services = n
           /\ \A s \in Themes \ {t} : Hierarchy!LiveTheme(t, n, m)[s] = theme[s]
BY DEF Hierarchy!TypeOK, Hierarchy!Theme, Hierarchy!LiveTheme

\* UpsertSubtheme makes rows live; what is live stays.
LEMMA LiveSubthemeRows ==
    ASSUME Hierarchy!TypeOK, NEW us \in SUBSET Subthemes, NEW counts \in [Subthemes -> Hierarchy!Count]
    PROVE  /\ Hierarchy!LiveSubthemes(us, counts) \in [Subthemes -> Hierarchy!Subtheme]
           /\ \A u \in us : Hierarchy!LiveSubthemes(us, counts)[u].row = "live"
           /\ \A u \in Subthemes : subtheme[u].row = "live" => Hierarchy!LiveSubthemes(us, counts)[u].row = "live"
BY DEF Hierarchy!TypeOK, Hierarchy!Subtheme, Hierarchy!LiveSubthemes

LEMMA NoSyncRecord ==
    /\ Hierarchy!NoSync \in Hierarchy!Sync /\ Hierarchy!NoSync.phase = "idle" /\ ~Hierarchy!NoSync.failed
    /\ Hierarchy!NoSync.left = {} /\ Hierarchy!NoSync.keep = {} /\ Hierarchy!NoSync.keepSubs = {}
<1>1. {} \in SUBSET Mapped
  OBVIOUS
<1>2. 0 \in Hierarchy!Count
  BY <1>1, CountOfServices DEF Hierarchy!Count
<1>3. [t \in Themes |-> 0] \in [Themes -> Hierarchy!Count]
  BY <1>2
<1> QED BY <1>3 DEF Hierarchy!NoSync, Hierarchy!Sync

LEMMA HierarchyInit == Hierarchy!Init => HierarchyInv
<1> SUFFICES ASSUME Hierarchy!Init PROVE HierarchyInv
  OBVIOUS
<1>1. {} \in SUBSET Mapped
  OBVIOUS
<1>2. 0 \in Hierarchy!Count
  BY <1>1, CountOfServices DEF Hierarchy!Count
<1>3. hierarchySync \in [Syncers -> Hierarchy!Sync]
  BY NoSyncRecord DEF Hierarchy!Init
<1>4. hierarchyRec \in [Attempts -> Hierarchy!Rec]
  BY DEF Hierarchy!Init, Hierarchy!NoRec, Hierarchy!Rec, Hierarchy!Place
<1>5. theme \in [Themes -> Hierarchy!Theme] /\ subtheme \in [Subthemes -> Hierarchy!Subtheme]
  BY <1>2 DEF Hierarchy!Init, Hierarchy!Theme, Hierarchy!Subtheme
<1>6. Hierarchy!TypeOK
  BY <1>3, <1>4, <1>5 DEF Hierarchy!Init, Hierarchy!TypeOK, Hierarchy!Place
<1>7. \A p \in Syncers : ~IsRunning(p)
  BY NoSyncRecord DEF Hierarchy!Init, IsRunning
<1>8. hierarchyCalm \subseteq Syncers
  BY <1>6 DEF Hierarchy!TypeOK
<1> QED BY <1>6, <1>7, <1>8 DEF HierarchyInv

\* A step of a sync leaves the other ones what they rest on: it only reads, or they are
\* not alone any more.
LEMMA SyncGoesOn ==
    ASSUME HierarchyInv, NEW p \in Syncers, NEW new \in Hierarchy!Sync,
           hierarchySync' = [hierarchySync EXCEPT ![p] = new], UNCHANGED placed, Hierarchy!TypeOK',
           \A q \in Syncers \ {p} : IsRunning(q) => vacated \subseteq vacated',
           \/ UNCHANGED <<catalogItem, theme, subtheme>> /\ hierarchyCalm' \subseteq hierarchyCalm \union {p}
           \/ hierarchyCalm' \subseteq {p},
           new.phase # "idle" => HierarchyRun(p)',
           new.phase # "idle" /\ p \in hierarchyCalm' /\ ~new.failed => CalmRun(p)'
    PROVE  HierarchyInv'
<1>1. hierarchySync'[p] = new /\ \A q \in Syncers \ {p} : hierarchySync'[q] = hierarchySync[q]
  BY DEF HierarchyInv, Hierarchy!TypeOK
<1>2. \A q \in Syncers : IsRunning(q)' => HierarchyRun(q)'
  <2> SUFFICES ASSUME NEW q \in Syncers, IsRunning(q)', q # p PROVE HierarchyRun(q)'
    BY <1>1 DEF IsRunning
  <2>1. IsRunning(q) /\ vacated \subseteq vacated' /\ hierarchySync'[q] = hierarchySync[q]
    BY <1>1 DEF IsRunning
  <2>2. HierarchyRun(q)
    BY <2>1 DEF HierarchyInv
  <2> QED BY <2>1, <2>2 DEF HierarchyRun
<1>3. \A q \in hierarchyCalm' : IsRunning(q)' /\ ~hierarchySync'[q].failed => CalmRun(q)'
  <2> SUFFICES ASSUME NEW q \in hierarchyCalm', IsRunning(q)', ~hierarchySync'[q].failed, q # p
               PROVE  CalmRun(q)'
    BY <1>1 DEF IsRunning
  <2>1. /\ UNCHANGED <<catalogItem, theme, subtheme>> /\ q \in hierarchyCalm
        /\ q \in Syncers /\ hierarchySync'[q] = hierarchySync[q]
    BY <1>1 DEF HierarchyInv, Hierarchy!TypeOK
  <2>2. CalmRun(q)
    BY <2>1 DEF HierarchyInv, IsRunning
  <2> QED BY <2>1, <2>2 DEF CalmRun, Hierarchy!ListedThemes, Hierarchy!InTheme, Hierarchy!InSubtheme,
                            Hierarchy!Active, Hierarchy!SubsOf
<1> QED BY <1>2, <1>3 DEF HierarchyInv

LEMMA SyncType ==
    ASSUME Hierarchy!TypeOK, NEW p \in Syncers, NEW new \in Hierarchy!Sync,
           hierarchySync' = [hierarchySync EXCEPT ![p] = new], UNCHANGED <<placed, hierarchyRec, changes>>,
           catalogItem' \in [Mapped -> [active : BOOLEAN, at : Hierarchy!Place]],
           theme' \in [Themes -> Hierarchy!Theme], subtheme' \in [Subthemes -> Hierarchy!Subtheme],
           hierarchyFaults' \in Nat, hierarchyCalm' \subseteq Syncers, vacated' \subseteq Themes
    PROVE  Hierarchy!TypeOK'
<1>1. hierarchySync' \in [Syncers -> Hierarchy!Sync]
  BY DEF Hierarchy!TypeOK
<1> QED BY <1>1 DEF Hierarchy!TypeOK

\* The parts of the types a step starts from.
LEMMA Typed ==
    ASSUME Hierarchy!TypeOK
    PROVE  /\ catalogItem \in [Mapped -> [active : BOOLEAN, at : Hierarchy!Place]]
           /\ theme \in [Themes -> Hierarchy!Theme] /\ subtheme \in [Subthemes -> Hierarchy!Subtheme]
           /\ hierarchySync \in [Syncers -> Hierarchy!Sync]
           /\ hierarchyFaults \in Nat /\ hierarchyCalm \subseteq Syncers /\ vacated \subseteq Themes
           /\ \A u : Hierarchy!InSubtheme(u) \subseteq Mapped
           /\ \A t : Hierarchy!InTheme(t) \subseteq Mapped
           /\ \A t : Hierarchy!ListedSubthemes(t) \subseteq Subthemes
           /\ Hierarchy!ListedThemes \subseteq Themes
BY DEF Hierarchy!TypeOK, Hierarchy!InSubtheme, Hierarchy!InTheme, Hierarchy!ListedSubthemes, Hierarchy!ListedThemes

LEMMA BeginStep ==
    ASSUME HierarchyInv, NEW p \in Syncers, NEW full \in BOOLEAN, Hierarchy!Begin(p, full)
    PROVE  HierarchyInv'
<1> DEFINE counts == [t \in Themes |-> Hierarchy!Cardinality(Hierarchy!InTheme(t))]
<1>1. Hierarchy!TypeOK
  BY DEF HierarchyInv
<1>2. counts \in [Themes -> Hierarchy!Count] /\ \A t \in Hierarchy!ListedThemes : counts[t] > 0
  <2>1. \A t \in Themes : Hierarchy!Cardinality(Hierarchy!InTheme(t)) \in Hierarchy!Count
    BY <1>1, Typed, CountOfServices
  <2>2. \A t \in Hierarchy!ListedThemes : t \in Themes /\ Hierarchy!Cardinality(Hierarchy!InTheme(t)) > 0
    BY <1>1, Typed, CountOfServices DEF Hierarchy!ListedThemes
  <2> QED BY <2>1, <2>2
<1> HIDE DEF counts
<1>3. PICK r1 : r1 = [Hierarchy!NoSync EXCEPT !.phase = "store", !.full = full]
  OBVIOUS
<1>4. r1 \in Hierarchy!Sync /\ r1.phase = "store" /\ r1.keep = {} /\ r1.keepSubs = {} /\ ~r1.failed
  <2>1. PICK r0 \in Hierarchy!Sync : r0 = Hierarchy!NoSync
    BY NoSyncRecord
  <2>2. r0.keep = {} /\ r0.keepSubs = {} /\ ~r0.failed
    BY <2>1, NoSyncRecord
  <2> QED BY <1>3, <2>1, <2>2 DEF Hierarchy!Sync
<1>5. PICK new : new = [r1 EXCEPT !.left = Hierarchy!ListedThemes, !.counts = counts]
  OBVIOUS
<1>6. /\ new \in Hierarchy!Sync /\ new.phase = "store" /\ new.keep = {} /\ new.keepSubs = {} /\ ~new.failed
      /\ new.left = Hierarchy!ListedThemes /\ new.counts = counts
  <2>1. Hierarchy!ListedThemes \in SUBSET Themes
    BY <1>1, Typed
  <2> QED BY <1>2, <1>4, <1>5, <2>1 DEF Hierarchy!Sync
<1>7. hierarchySync' = [hierarchySync EXCEPT ![p] = new]
  <2>1. hierarchySync' = [hierarchySync EXCEPT ![p] =
                            [Hierarchy!NoSync EXCEPT !.phase = "store", !.full = full,
                               !.left = Hierarchy!ListedThemes, !.counts = counts]]
    BY DEF Hierarchy!Begin, Hierarchy!Goto, counts
  <2>2. new = [Hierarchy!NoSync EXCEPT !.phase = "store", !.full = full,
                               !.left = Hierarchy!ListedThemes, !.counts = counts]
    BY <1>3, <1>5, NoSyncRecord DEF Hierarchy!Sync
  <2> QED BY <2>1, <2>2
<1>8. /\ UNCHANGED <<placed, catalogItem, theme, subtheme, hierarchyRec, changes, hierarchyFaults>>
      /\ hierarchyCalm' = hierarchyCalm \union {p}
      /\ \A q \in Syncers : IsRunning(q) => vacated \subseteq vacated'
      /\ vacated' \subseteq vacated \union (Themes \ Hierarchy!ListedThemes)
      /\ Themes \ Hierarchy!ListedThemes \subseteq vacated'
  BY DEF Hierarchy!Begin, Hierarchy!tables, IsRunning
<1>9. Hierarchy!TypeOK'
  <2>1. hierarchyCalm' \subseteq Syncers /\ vacated' \subseteq Themes
    BY <1>1, <1>8, Typed
  <2> QED BY <1>1, <1>6, <1>7, <1>8, <2>1, SyncType, Typed
<1>10. hierarchySync'[p] = new
  BY <1>1, <1>7, Typed
<1>11. HierarchyRun(p)'
  BY <1>2, <1>6, <1>8, <1>10 DEF HierarchyRun
<1>12. CalmRun(p)'
  BY <1>6, <1>8, <1>10 DEF CalmRun, Hierarchy!ListedThemes, Hierarchy!InTheme
<1> QED BY <1>6, <1>7, <1>8, <1>9, <1>11, <1>12, SyncGoesOn

LEMMA StoreThemeStep ==
    ASSUME HierarchyInv, NEW p \in Syncers, NEW t \in Themes, Hierarchy!StoreTheme(p, t)
    PROVE  HierarchyInv'
<1>1. Hierarchy!TypeOK
  BY DEF HierarchyInv
<1> PICK old \in Hierarchy!Sync : old = hierarchySync[p]
  BY <1>1, Typed
<1> DEFINE subs   == Hierarchy!ListedSubthemes(t)
           counts == [u \in Subthemes |-> Hierarchy!Cardinality(Hierarchy!InSubtheme(u))]
           m      == Hierarchy!Cardinality(subs)
<1>2. /\ old.phase = "store" /\ t \in old.left
      /\ theme' = Hierarchy!LiveTheme(t, old.counts[t], m)
      /\ subtheme' = Hierarchy!LiveSubthemes(subs, counts)
      /\ hierarchyCalm' = hierarchyCalm \intersect {p}
      /\ UNCHANGED <<placed, catalogItem, hierarchyRec, changes, hierarchyFaults, vacated>>
      /\ hierarchySync' = [hierarchySync EXCEPT ![p] =
                             [old EXCEPT !.left = old.left \ {t}, !.keep = old.keep \union {t},
                                         !.keepSubs = old.keepSubs \union subs]]
  BY DEF Hierarchy!StoreTheme, Hierarchy!Goto, Hierarchy!Alone
<1>3. m \in Nat /\ counts \in [Subthemes -> Hierarchy!Count] /\ subs \in SUBSET Subthemes
  <2>1. subs \in SUBSET Subthemes
    BY <1>1, Typed
  <2>2. \A u \in Subthemes : Hierarchy!Cardinality(Hierarchy!InSubtheme(u)) \in Hierarchy!Count
    BY <1>1, Typed, CountOfServices
  <2> HIDE DEF subs
  <2> QED BY <2>1, <2>2, CountOfSubthemes
<1>4. \A u \in Subthemes : u \in subs <=> ThemeOf[u] = t /\ Hierarchy!InSubtheme(u) # {}
  BY DEF Hierarchy!ListedSubthemes
<1> HIDE DEF subs, counts, m
<1>5. old.counts[t] \in Hierarchy!Count
  BY DEF Hierarchy!Sync
<1>6. PICK r1 : r1 = [old EXCEPT !.left = old.left \ {t}, !.keep = old.keep \union {t}]
  OBVIOUS
<1>7. /\ r1 \in Hierarchy!Sync /\ r1.phase = "store" /\ r1.left = old.left \ {t} /\ r1.counts = old.counts
      /\ r1.keep = old.keep \union {t} /\ r1.keepSubs = old.keepSubs /\ r1.failed = old.failed
  <2>1. old.left \ {t} \in SUBSET Themes /\ old.keep \union {t} \in SUBSET Themes
    BY DEF Hierarchy!Sync
  <2> QED BY <1>2, <1>6, <2>1 DEF Hierarchy!Sync
<1>8. PICK new : new = [r1 EXCEPT !.keepSubs = old.keepSubs \union subs]
  OBVIOUS
<1>9. /\ new \in Hierarchy!Sync /\ new.phase = "store" /\ new.left = old.left \ {t} /\ new.counts = old.counts
      /\ new.keep = old.keep \union {t} /\ new.keepSubs = old.keepSubs \union subs
      /\ new.failed = old.failed
  <2>1. old.keepSubs \union subs \in SUBSET Subthemes
    BY <1>3 DEF Hierarchy!Sync
  <2> QED BY <1>7, <1>8, <2>1 DEF Hierarchy!Sync
<1>10. hierarchySync' = [hierarchySync EXCEPT ![p] = new]
  <2>1. new = [old EXCEPT !.left = old.left \ {t}, !.keep = old.keep \union {t},
                          !.keepSubs = old.keepSubs \union subs]
    BY <1>6, <1>8 DEF Hierarchy!Sync
  <2> QED BY <1>2, <2>1
<1>11. hierarchySync'[p] = new
  BY <1>1, <1>10, Typed
<1>12. /\ theme' \in [Themes -> Hierarchy!Theme] /\ theme'[t].row = "live"
       /\ \A s \in Themes \ {t} : theme'[s] = theme[s]
  BY <1>1, <1>2, <1>3, <1>5, LiveThemeRow
<1>13. /\ subtheme' \in [Subthemes -> Hierarchy!Subtheme] /\ \A u \in subs : subtheme'[u].row = "live"
       /\ \A u \in Subthemes : subtheme[u].row = "live" => subtheme'[u].row = "live"
  BY <1>1, <1>2, <1>3, LiveSubthemeRows
<1>14. Hierarchy!TypeOK'
  <2>1. hierarchyCalm' \subseteq Syncers
    BY <1>2
  <2>2. catalogItem' \in [Mapped -> [active : BOOLEAN, at : Hierarchy!Place]]
    BY <1>1, <1>2, Typed
  <2>3. hierarchyFaults' \in Nat /\ vacated' \subseteq Themes
    BY <1>1, <1>2, Typed
  <2>4. UNCHANGED <<placed, hierarchyRec, changes>>
    BY <1>2
  <2> QED BY <1>1, <1>9, <1>10, <1>12, <1>13, <2>1, <2>2, <2>3, <2>4, SyncType
<1>15. HierarchyRun(p)'
  <2>1. HierarchyRun(p)
    BY <1>2 DEF HierarchyInv, IsRunning
  <2> QED BY <1>2, <1>9, <1>11, <2>1 DEF HierarchyRun
<1>16. ASSUME p \in hierarchyCalm', ~new.failed PROVE CalmRun(p)'
  <2>1. CalmRun(p)
    BY <1>2, <1>9, <1>16 DEF HierarchyInv, IsRunning
  <2>2. new.left \union new.keep = Hierarchy!ListedThemes
    BY <1>2, <1>9, <2>1 DEF CalmRun
  <2>3. \A u \in Subthemes : u \in new.keepSubs <=> ThemeOf[u] \in new.keep /\ Hierarchy!InSubtheme(u) # {}
    BY <1>4, <1>9, <2>1 DEF CalmRun
  <2>4. \A s \in new.keep : theme'[s].row = "live"
    <3>1. \A s \in old.keep : s \in Themes /\ theme[s].row = "live"
      BY <2>1 DEF CalmRun, Hierarchy!Sync
    <3> QED BY <1>9, <1>12, <3>1
  <2>5. \A u \in new.keepSubs : subtheme'[u].row = "live"
    <3>1. \A u \in old.keepSubs : u \in Subthemes /\ subtheme[u].row = "live"
      BY <2>1 DEF CalmRun, Hierarchy!Sync
    <3> QED BY <1>9, <1>13, <3>1
  <2> QED BY <1>2, <1>9, <1>11, <2>2, <2>3, <2>4, <2>5
          DEF CalmRun, Hierarchy!ListedThemes, Hierarchy!InTheme, Hierarchy!InSubtheme
<1>17. \A q \in Syncers \ {p} : IsRunning(q) => vacated \subseteq vacated'
  BY <1>2
<1>18. hierarchyCalm' \subseteq {p}
  BY <1>2
<1> QED BY <1>2, <1>9, <1>10, <1>14, <1>15, <1>16, <1>17, <1>18, SyncGoesOn

LEMMA StoreFailsStep ==
    ASSUME HierarchyInv, NEW p \in Syncers, NEW t \in Themes, Hierarchy!StoreFails(p, t)
    PROVE  HierarchyInv'
<1>1. Hierarchy!TypeOK
  BY DEF HierarchyInv
<1> PICK old \in Hierarchy!Sync : old = hierarchySync[p]
  BY <1>1, Typed
<1> DEFINE subs   == Hierarchy!ListedSubthemes(t)
           counts == [u \in Subthemes |-> Hierarchy!Cardinality(Hierarchy!InSubtheme(u))]
           m      == Hierarchy!Cardinality(subs)
<1>2. /\ old.phase = "store" /\ hierarchyFaults' = hierarchyFaults + 1
      /\ \/ UNCHANGED <<theme, subtheme>>
         \/ /\ theme' = Hierarchy!LiveTheme(t, old.counts[t], m)
            /\ \E some \in SUBSET subs : subtheme' = Hierarchy!LiveSubthemes(some, counts)
      /\ hierarchyCalm' = hierarchyCalm \intersect {p}
      /\ UNCHANGED <<placed, catalogItem, hierarchyRec, changes, vacated>>
      /\ hierarchySync' = [hierarchySync EXCEPT ![p] =
                             [old EXCEPT !.left = old.left \ {t}, !.failed = TRUE]]
  BY DEF Hierarchy!StoreFails, Hierarchy!Goto, Hierarchy!Alone, Hierarchy!Fault
<1>3. m \in Nat /\ counts \in [Subthemes -> Hierarchy!Count] /\ subs \in SUBSET Subthemes
  <2>1. subs \in SUBSET Subthemes
    BY <1>1, Typed
  <2>2. \A u \in Subthemes : Hierarchy!Cardinality(Hierarchy!InSubtheme(u)) \in Hierarchy!Count
    BY <1>1, Typed, CountOfServices
  <2> HIDE DEF subs
  <2> QED BY <2>1, <2>2, CountOfSubthemes
<1> HIDE DEF subs, counts, m
<1>4. PICK new : new = [old EXCEPT !.left = old.left \ {t}, !.failed = TRUE]
  OBVIOUS
<1>5. /\ new \in Hierarchy!Sync /\ new.phase = "store" /\ new.left = old.left \ {t} /\ new.counts = old.counts
      /\ new.failed
  <2>1. old.left \ {t} \in SUBSET Themes
    BY DEF Hierarchy!Sync
  <2> QED BY <1>2, <1>4, <2>1 DEF Hierarchy!Sync
<1>6. hierarchySync' = [hierarchySync EXCEPT ![p] = new]
  BY <1>2, <1>4
<1>7. hierarchySync'[p] = new
  BY <1>1, <1>6, Typed
<1>8. theme' \in [Themes -> Hierarchy!Theme] /\ subtheme' \in [Subthemes -> Hierarchy!Subtheme]
  <2>1. CASE UNCHANGED <<theme, subtheme>>
    BY <1>1, <2>1, Typed
  <2>2. CASE /\ theme' = Hierarchy!LiveTheme(t, old.counts[t], m)
             /\ \E some \in SUBSET subs : subtheme' = Hierarchy!LiveSubthemes(some, counts)
    <3>1. old.counts[t] \in Hierarchy!Count
      BY DEF Hierarchy!Sync
    <3>2. theme' \in [Themes -> Hierarchy!Theme]
      BY <1>1, <1>3, <2>2, <3>1, LiveThemeRow
    <3>3. PICK some \in SUBSET Subthemes : subtheme' = Hierarchy!LiveSubthemes(some, counts)
      BY <1>3, <2>2
    <3> QED BY <1>1, <1>3, <3>2, <3>3, LiveSubthemeRows
  <2> QED BY <1>2, <2>1, <2>2
<1>9. Hierarchy!TypeOK'
  <2>1. hierarchyCalm' \subseteq Syncers /\ hierarchyFaults' \in Nat
    BY <1>1, <1>2, Typed
  <2> QED BY <1>1, <1>2, <1>5, <1>6, <1>8, <2>1, SyncType, Typed
<1>10. HierarchyRun(p)'
  <2>1. HierarchyRun(p)
    BY <1>2 DEF HierarchyInv, IsRunning
  <2> QED BY <1>5, <1>7, <2>1 DEF HierarchyRun
<1>11. hierarchyCalm' \subseteq {p}
  BY <1>2
<1> QED BY <1>2, <1>5, <1>6, <1>9, <1>10, <1>11, SyncGoesOn

\* What a sync that only moves on keeps.
LEMMA RunKept ==
    ASSUME NEW p \in Syncers, NEW old \in Hierarchy!Sync, old = hierarchySync[p], HierarchyRun(p),
           NEW new \in Hierarchy!Sync, new = hierarchySync'[p], UNCHANGED vacated,
           new.left = old.left, new.keep = old.keep, new.counts = old.counts, new.failed = old.failed,
           new.phase # "store" => old.left = {} /\ ~old.failed
    PROVE  HierarchyRun(p)'
BY DEF HierarchyRun

LEMMA CalmRunKept ==
    ASSUME NEW p \in Syncers, NEW old \in Hierarchy!Sync, old = hierarchySync[p], CalmRun(p),
           NEW new \in Hierarchy!Sync, new = hierarchySync'[p], UNCHANGED placed,
           new.left = old.left, new.keep = old.keep, new.keepSubs = old.keepSubs,
           \A t \in old.keep : theme[t].row = "live" => theme'[t].row = "live",
           \A u \in old.keepSubs : subtheme[u].row = "live" => subtheme'[u].row = "live",
           new.phase \notin {"refreshed", "done"}
    PROVE  CalmRun(p)'
<1>1. new.left \union new.keep = Hierarchy!ListedThemes
  BY DEF CalmRun
<1>2. \A u \in Subthemes : u \in new.keepSubs <=> ThemeOf[u] \in new.keep /\ Hierarchy!InSubtheme(u) # {}
  BY DEF CalmRun
<1>3. /\ \A t \in new.keep : theme'[t].row = "live"
      /\ \A u \in new.keepSubs : subtheme'[u].row = "live"
  BY DEF CalmRun
<1>4. UNCHANGED <<Hierarchy!ListedThemes>> /\ \A u : UNCHANGED <<Hierarchy!InSubtheme(u)>>
  BY DEF Hierarchy!ListedThemes, Hierarchy!InTheme, Hierarchy!InSubtheme
<1> QED BY <1>1, <1>2, <1>3, <1>4 DEF CalmRun

\* A sync that ends owes nothing.
LEMMA SyncEnds ==
    ASSUME HierarchyInv, NEW p \in Syncers, hierarchySync' = [hierarchySync EXCEPT ![p] = Hierarchy!NoSync],
           UNCHANGED <<placed, hierarchyRec, changes, catalogItem, theme, vacated>>,
           hierarchyFaults' \in Nat, subtheme' \in [Subthemes -> Hierarchy!Subtheme],
           \/ UNCHANGED subtheme /\ hierarchyCalm' \subseteq hierarchyCalm
           \/ hierarchyCalm' \subseteq {p}
    PROVE  HierarchyInv'
<1>1. Hierarchy!TypeOK
  BY DEF HierarchyInv
<1>2. PICK new \in Hierarchy!Sync : new = Hierarchy!NoSync
  BY NoSyncRecord
<1>3. new.phase = "idle" /\ hierarchySync' = [hierarchySync EXCEPT ![p] = new]
  BY <1>2, NoSyncRecord
<1>4. Hierarchy!TypeOK'
  <2>1. hierarchyCalm' \subseteq Syncers
    BY <1>1, Typed
  <2> QED BY <1>1, <1>3, <2>1, SyncType, Typed
<1>5. \/ UNCHANGED <<catalogItem, theme, subtheme>> /\ hierarchyCalm' \subseteq hierarchyCalm \union {p}
      \/ hierarchyCalm' \subseteq {p}
  OBVIOUS
<1> QED BY <1>3, <1>4, <1>5, SyncGoesOn

\* A sync that moves on, and may soft-delete what it does not keep or write services.
LEMMA HierarchyMoves ==
    ASSUME HierarchyInv, NEW p \in Syncers, NEW old \in Hierarchy!Sync, old = hierarchySync[p],
           NEW new \in Hierarchy!Sync, hierarchySync' = [hierarchySync EXCEPT ![p] = new],
           UNCHANGED <<placed, hierarchyRec, changes, vacated>>,
           old.phase # "idle", new.phase \notin {"idle", "store", "refreshed", "done"},
           old.left = {}, ~old.failed,
           new.left = old.left, new.keep = old.keep, new.counts = old.counts, new.failed = old.failed,
           new.keepSubs = old.keepSubs,
           catalogItem' \in [Mapped -> [active : BOOLEAN, at : Hierarchy!Place]],
           theme' \in [Themes -> Hierarchy!Theme], subtheme' \in [Subthemes -> Hierarchy!Subtheme],
           \A t \in old.keep : theme[t].row = "live" => theme'[t].row = "live",
           \A u \in old.keepSubs : subtheme[u].row = "live" => subtheme'[u].row = "live",
           hierarchyFaults' \in Nat,
           \/ UNCHANGED <<catalogItem, theme, subtheme>> /\ hierarchyCalm' = hierarchyCalm
           \/ hierarchyCalm' = hierarchyCalm \intersect {p}
    PROVE  HierarchyInv'
<1>1. Hierarchy!TypeOK
  BY DEF HierarchyInv
<1>2. hierarchySync'[p] = new
  BY <1>1, Typed
<1>3. Hierarchy!TypeOK'
  <2>1. hierarchyCalm' \subseteq Syncers /\ vacated' \subseteq Themes
    BY <1>1, Typed
  <2> QED BY <1>1, <2>1, SyncType
<1>4. HierarchyRun(p)'
  <2>1. HierarchyRun(p)
    BY DEF HierarchyInv, IsRunning
  <2> QED BY <1>2, <2>1, RunKept
<1>5. ASSUME p \in hierarchyCalm' PROVE CalmRun(p)'
  <2>1. CalmRun(p)
    BY <1>5 DEF HierarchyInv, IsRunning
  <2>2. new.phase \notin {"refreshed", "done"}
    OBVIOUS
  <2> QED BY <1>2, <2>1, <2>2, CalmRunKept
<1>6. \/ UNCHANGED <<catalogItem, theme, subtheme>> /\ hierarchyCalm' \subseteq hierarchyCalm \union {p}
      \/ hierarchyCalm' \subseteq {p}
  OBVIOUS
<1> QED BY <1>3, <1>4, <1>5, <1>6, SyncGoesOn

LEMMA MidSteps ==
    ASSUME HierarchyInv, NEW p \in Syncers,
           \/ Hierarchy!Stored(p) \/ Hierarchy!PruneThemes(p) \/ Hierarchy!PruneSubthemes(p)
           \/ Hierarchy!ReadServices(p) \/ Hierarchy!WriteServices(p) \/ Hierarchy!SoftDeleteOrphans(p)
    PROVE  HierarchyInv'
<1>1. Hierarchy!TypeOK
  BY DEF HierarchyInv
<1> PICK old \in Hierarchy!Sync : old = hierarchySync[p]
  BY <1>1, Typed
<1>2. /\ catalogItem \in [Mapped -> [active : BOOLEAN, at : Hierarchy!Place]]
      /\ theme \in [Themes -> Hierarchy!Theme] /\ subtheme \in [Subthemes -> Hierarchy!Subtheme]
      /\ hierarchyFaults \in Nat /\ hierarchyFaults + 1 \in Nat
  BY <1>1, Typed
<1>3. old.phase \notin {"idle", "store"} => old.left = {} /\ ~old.failed
  BY DEF HierarchyInv, HierarchyRun, IsRunning
<1>4. ASSUME NEW ph \in {"themes", "subthemes", "services", "write", "orphans", "refresh"}
      PROVE  \E new \in Hierarchy!Sync :
               /\ new = [old EXCEPT !.phase = ph] /\ new.phase = ph
               /\ new.left = old.left /\ new.keep = old.keep /\ new.counts = old.counts
               /\ new.failed = old.failed /\ new.keepSubs = old.keepSubs
  <2>1. PICK new : new = [old EXCEPT !.phase = ph]
    OBVIOUS
  <2>2. /\ new \in Hierarchy!Sync /\ new.phase = ph
        /\ new.left = old.left /\ new.keep = old.keep /\ new.counts = old.counts
        /\ new.failed = old.failed /\ new.keepSubs = old.keepSubs
    BY <2>1 DEF Hierarchy!Sync
  <2> QED BY <2>1, <2>2
<1>5. CASE Hierarchy!Stored(p)
  <2>1. /\ old.phase = "store" /\ old.left = {}
        /\ UNCHANGED <<placed, catalogItem, theme, subtheme, hierarchyRec, changes, hierarchyFaults,
                      hierarchyCalm, vacated>>
    BY <1>5 DEF Hierarchy!Stored, Hierarchy!tables
  <2>2. \/ /\ hierarchySync' = [hierarchySync EXCEPT ![p] = [old EXCEPT !.phase = "themes"]] /\ ~old.failed
        \/ /\ hierarchySync' = [hierarchySync EXCEPT ![p] = [old EXCEPT !.phase = "services"]] /\ ~old.failed
        \/ hierarchySync' = [hierarchySync EXCEPT ![p] = Hierarchy!NoSync]
    BY <1>5 DEF Hierarchy!Stored, Hierarchy!Goto, Hierarchy!MayPrune
  <2>3. ASSUME NEW ph \in {"themes", "services"}, ~old.failed,
               hierarchySync' = [hierarchySync EXCEPT ![p] = [old EXCEPT !.phase = ph]]
        PROVE  HierarchyInv'
    <3>1. PICK new \in Hierarchy!Sync :
               /\ new = [old EXCEPT !.phase = ph] /\ new.phase = ph
               /\ new.left = old.left /\ new.keep = old.keep /\ new.counts = old.counts
               /\ new.failed = old.failed /\ new.keepSubs = old.keepSubs
      BY <1>4
    <3>2. hierarchySync' = [hierarchySync EXCEPT ![p] = new]
      BY <2>3, <3>1
    <3>3. old.phase # "idle" /\ new.phase \notin {"idle", "store", "refreshed", "done"}
      BY <2>1, <3>1
    <3>4. /\ \A t \in old.keep : theme[t].row = "live" => theme'[t].row = "live"
          /\ \A u \in old.keepSubs : subtheme[u].row = "live" => subtheme'[u].row = "live"
          /\ hierarchyFaults' \in Nat
      BY <1>2, <2>1
    <3>5. UNCHANGED <<placed, hierarchyRec, changes, vacated>> /\ old.left = {}
      BY <2>1
    <3>6. /\ catalogItem' \in [Mapped -> [active : BOOLEAN, at : Hierarchy!Place]]
          /\ theme' \in [Themes -> Hierarchy!Theme] /\ subtheme' \in [Subthemes -> Hierarchy!Subtheme]
      BY <1>2, <2>1
    <3>7. /\ new.left = old.left /\ new.keep = old.keep /\ new.counts = old.counts /\ new.failed = old.failed
          /\ new.keepSubs = old.keepSubs
      BY <3>1
    <3>8. UNCHANGED <<catalogItem, theme, subtheme>> /\ hierarchyCalm' = hierarchyCalm
      BY <2>1
    <3> QED BY <2>3, <3>2, <3>3, <3>4, <3>5, <3>6, <3>7, <3>8, HierarchyMoves
  <2>4. CASE hierarchySync' = [hierarchySync EXCEPT ![p] = Hierarchy!NoSync]
    <3>1. hierarchyFaults' \in Nat /\ subtheme' \in [Subthemes -> Hierarchy!Subtheme]
      BY <1>2, <2>1
    <3> QED BY <2>1, <2>4, <3>1, SyncEnds
  <2> QED BY <2>2, <2>3, <2>4
<1>6. CASE Hierarchy!PruneThemes(p)
  <2>1. /\ old.phase = "themes" /\ hierarchyCalm' = hierarchyCalm \intersect {p}
        /\ UNCHANGED <<placed, catalogItem, subtheme, hierarchyRec, changes, vacated>>
        /\ hierarchySync' = [hierarchySync EXCEPT ![p] = [old EXCEPT !.phase = "subthemes"]]
        /\ hierarchyFaults' \in {hierarchyFaults, hierarchyFaults + 1}
        /\ \/ theme' = [t \in Themes |-> IF t \notin old.keep /\ theme[t].row = "live"
                                          THEN [theme[t] EXCEPT !.row = "deleted"] ELSE theme[t]]
           \/ theme' = theme
    BY <1>6 DEF Hierarchy!PruneThemes, Hierarchy!Goto, Hierarchy!Alone, Hierarchy!Fault
  <2>2. PICK new \in Hierarchy!Sync :
               /\ new = [old EXCEPT !.phase = "subthemes"] /\ new.phase = "subthemes"
               /\ new.left = old.left /\ new.keep = old.keep /\ new.counts = old.counts
               /\ new.failed = old.failed /\ new.keepSubs = old.keepSubs
    BY <1>4
  <2>3. theme' \in [Themes -> Hierarchy!Theme]
    BY <1>2, <2>1 DEF Hierarchy!Theme
  <2>4. \A t \in old.keep : theme[t].row = "live" => theme'[t].row = "live"
    BY <2>1 DEF Hierarchy!Sync
  <2>5. /\ hierarchySync' = [hierarchySync EXCEPT ![p] = new]
        /\ old.phase # "idle" /\ new.phase \notin {"idle", "store", "refreshed", "done"}
        /\ hierarchyFaults' \in Nat /\ old.left = {} /\ ~old.failed
    BY <1>2, <1>3, <2>1, <2>2
  <2>6. \A u \in old.keepSubs : subtheme[u].row = "live" => subtheme'[u].row = "live"
    BY <2>1
  <2>8. /\ hierarchySync' = [hierarchySync EXCEPT ![p] = new] /\ UNCHANGED <<placed, hierarchyRec, changes, vacated>>
        /\ old.phase # "idle" /\ new.phase \notin {"idle", "store", "refreshed", "done"}
    BY <2>1, <2>2, <2>5
  <2>9. /\ catalogItem' \in [Mapped -> [active : BOOLEAN, at : Hierarchy!Place]]
        /\ theme' \in [Themes -> Hierarchy!Theme] /\ subtheme' \in [Subthemes -> Hierarchy!Subtheme]
        /\ hierarchyFaults' \in Nat
    BY <1>2, <2>1, <2>3, <2>5
  <2>10. /\ new.left = old.left /\ new.keep = old.keep /\ new.counts = old.counts /\ new.failed = old.failed
        /\ new.keepSubs = old.keepSubs /\ old.left = {} /\ ~old.failed
    BY <2>2, <2>5
  <2>11. hierarchyCalm' = hierarchyCalm \intersect {p}
    BY <2>1
  <2> QED BY <2>4, <2>6, <2>8, <2>9, <2>10, <2>11, HierarchyMoves
<1>7. CASE Hierarchy!PruneSubthemes(p)
  <2>1. /\ old.phase = "subthemes" /\ hierarchyCalm' = hierarchyCalm \intersect {p}
        /\ UNCHANGED <<placed, catalogItem, theme, hierarchyRec, changes, vacated>>
        /\ hierarchyFaults' \in {hierarchyFaults, hierarchyFaults + 1}
        /\ \/ subtheme' = [u \in Subthemes |-> IF u \notin old.keepSubs /\ subtheme[u].row = "live"
                                                THEN [subtheme[u] EXCEPT !.row = "deleted"] ELSE subtheme[u]]
           \/ subtheme' = subtheme
    BY <1>7 DEF Hierarchy!PruneSubthemes, Hierarchy!Alone, Hierarchy!Fault
  <2>2. PICK new \in Hierarchy!Sync :
               /\ new = [old EXCEPT !.phase = "services"] /\ new.phase = "services"
               /\ new.left = old.left /\ new.keep = old.keep /\ new.counts = old.counts
               /\ new.failed = old.failed /\ new.keepSubs = old.keepSubs
    BY <1>4
  <2>3. subtheme' \in [Subthemes -> Hierarchy!Subtheme]
    BY <1>2, <2>1 DEF Hierarchy!Subtheme
  <2>4. \A u \in old.keepSubs : subtheme[u].row = "live" => subtheme'[u].row = "live"
    BY <2>1 DEF Hierarchy!Sync
  <2>5. old.left = {} /\ ~old.failed
    BY <1>3, <2>1
  <2>6. hierarchySync' = [hierarchySync EXCEPT ![p] = [old EXCEPT !.phase = "services"]]
    BY <1>7, <2>5 DEF Hierarchy!PruneSubthemes, Hierarchy!Goto
  <2>7. /\ hierarchySync' = [hierarchySync EXCEPT ![p] = new]
        /\ old.phase # "idle" /\ new.phase \notin {"idle", "store", "refreshed", "done"}
        /\ hierarchyFaults' \in Nat
    BY <1>2, <2>1, <2>2, <2>6
  <2> QED BY <1>2, <2>1, <2>2, <2>3, <2>4, <2>5, <2>7, HierarchyMoves
<1>8. CASE Hierarchy!ReadServices(p)
  <2> DEFINE listed == {i \in Mapped : placed[i] \in old.keepSubs}
  <2>1. /\ old.phase = "services"
        /\ UNCHANGED <<placed, catalogItem, theme, subtheme, hierarchyRec, changes, hierarchyFaults,
                      hierarchyCalm, vacated>>
    BY <1>8 DEF Hierarchy!ReadServices, Hierarchy!tables
  <2>2. PICK details \in SUBSET listed :
          hierarchySync' = [hierarchySync EXCEPT ![p] =
                             [old EXCEPT !.phase = "write", !.seen = listed,
                                         !.got = {[id |-> i, at |-> placed[i]] : i \in details}]]
    BY <1>8, Zenon DEF Hierarchy!ReadServices, Hierarchy!Goto
  <2>3. PICK got \in SUBSET [id : Mapped, at : Subthemes] : got = {[id |-> i, at |-> placed[i]] : i \in details}
    <3>1. old.keepSubs \subseteq Subthemes
      BY DEF Hierarchy!Sync
    <3>2. \A i \in details : [id |-> i, at |-> placed[i]] \in [id : Mapped, at : Subthemes]
      BY <3>1
    <3> QED BY <3>2
  <2>4. PICK r1 \in Hierarchy!Sync :
               /\ r1 = [old EXCEPT !.phase = "write"] /\ r1.phase = "write"
               /\ r1.left = old.left /\ r1.keep = old.keep /\ r1.counts = old.counts
               /\ r1.failed = old.failed /\ r1.keepSubs = old.keepSubs
    BY <1>4
  <2>5. listed \in SUBSET Mapped
    OBVIOUS
  <2> HIDE DEF listed
  <2>6. PICK new : new = [r1 EXCEPT !.seen = listed, !.got = got]
    OBVIOUS
  <2>7. /\ new \in Hierarchy!Sync /\ new.phase = "write"
        /\ new.left = old.left /\ new.keep = old.keep /\ new.counts = old.counts
        /\ new.failed = old.failed /\ new.keepSubs = old.keepSubs
    BY <2>4, <2>5, <2>6, Zenon DEF Hierarchy!Sync
  <2>8. hierarchySync' = [hierarchySync EXCEPT ![p] = new]
    <3>1. new = [old EXCEPT !.phase = "write", !.seen = listed, !.got = got]
      BY <2>4, <2>6 DEF Hierarchy!Sync
    <3> QED BY <2>2, <2>3, <3>1
  <2>9. old.left = {} /\ ~old.failed /\ old.phase # "idle"
        /\ new.phase \notin {"idle", "store", "refreshed", "done"}
    BY <1>3, <2>1, <2>7
  <2> QED BY <1>2, <2>1, <2>7, <2>8, <2>9, HierarchyMoves
<1>9. CASE Hierarchy!WriteServices(p)
  <2>1. /\ old.phase = "write" /\ hierarchyCalm' = hierarchyCalm \intersect {p}
        /\ UNCHANGED <<placed, theme, subtheme, hierarchyRec, changes, hierarchyFaults, vacated>>
        /\ hierarchySync' = [hierarchySync EXCEPT ![p] = [old EXCEPT !.phase = "orphans"]]
        /\ catalogItem' = [i \in Mapped |->
                              IF \E d \in old.got : d.id = i
                              THEN [active |-> TRUE, at |-> (CHOOSE d \in old.got : d.id = i).at]
                              ELSE catalogItem[i]]
    BY <1>9 DEF Hierarchy!WriteServices, Hierarchy!Goto, Hierarchy!Alone
  <2>2. PICK new \in Hierarchy!Sync :
               /\ new = [old EXCEPT !.phase = "orphans"] /\ new.phase = "orphans"
               /\ new.left = old.left /\ new.keep = old.keep /\ new.counts = old.counts
               /\ new.failed = old.failed /\ new.keepSubs = old.keepSubs
    BY <1>4
  <2>3. catalogItem' \in [Mapped -> [active : BOOLEAN, at : Hierarchy!Place]]
    <3>1. old.got \subseteq [id : Mapped, at : Subthemes]
      BY DEF Hierarchy!Sync
    <3>2. ASSUME NEW i \in Mapped, \E d \in old.got : d.id = i
          PROVE  (CHOOSE d \in old.got : d.id = i).at \in Hierarchy!Place
      <4>1. (CHOOSE d \in old.got : d.id = i) \in old.got
        BY <3>2
      <4> QED BY <3>1, <4>1 DEF Hierarchy!Place
    <3> QED BY <1>2, <2>1, <3>2
  <2>4. /\ hierarchySync' = [hierarchySync EXCEPT ![p] = new] /\ old.left = {} /\ ~old.failed
        /\ old.phase # "idle" /\ new.phase \notin {"idle", "store", "refreshed", "done"}
    BY <1>3, <2>1, <2>2
  <2>5. /\ \A t \in old.keep : theme[t].row = "live" => theme'[t].row = "live"
        /\ \A u \in old.keepSubs : subtheme[u].row = "live" => subtheme'[u].row = "live"
        /\ hierarchyFaults' \in Nat
    BY <1>2, <2>1
  <2>6. /\ UNCHANGED <<placed, hierarchyRec, changes, vacated>>
        /\ new.phase \notin {"idle", "store", "refreshed", "done"}
    BY <2>1, <2>2
  <2>7. /\ theme' \in [Themes -> Hierarchy!Theme] /\ subtheme' \in [Subthemes -> Hierarchy!Subtheme]
    BY <1>2, <2>1
  <2>8. /\ new.left = old.left /\ new.keep = old.keep /\ new.counts = old.counts /\ new.failed = old.failed
        /\ new.keepSubs = old.keepSubs
    BY <2>2
  <2>9. hierarchyCalm' = hierarchyCalm \intersect {p}
    BY <2>1
  <2> QED BY <2>3, <2>4, <2>5, <2>6, <2>7, <2>8, <2>9, HierarchyMoves
<1>10. CASE Hierarchy!SoftDeleteOrphans(p)
  <2>1. /\ old.phase = "orphans" /\ hierarchyCalm' = hierarchyCalm \intersect {p}
        /\ UNCHANGED <<placed, theme, subtheme, hierarchyRec, changes, hierarchyFaults, vacated>>
        /\ hierarchySync' = [hierarchySync EXCEPT ![p] = [old EXCEPT !.phase = "refresh"]]
        /\ catalogItem' = [i \in Mapped |-> IF old.seen # {} /\ i \notin old.seen
                                            THEN [catalogItem[i] EXCEPT !.active = FALSE] ELSE catalogItem[i]]
    BY <1>10 DEF Hierarchy!SoftDeleteOrphans, Hierarchy!Goto, Hierarchy!Alone
  <2>2. PICK new \in Hierarchy!Sync :
               /\ new = [old EXCEPT !.phase = "refresh"] /\ new.phase = "refresh"
               /\ new.left = old.left /\ new.keep = old.keep /\ new.counts = old.counts
               /\ new.failed = old.failed /\ new.keepSubs = old.keepSubs
    BY <1>4
  <2>3. catalogItem' \in [Mapped -> [active : BOOLEAN, at : Hierarchy!Place]]
    BY <1>2, <2>1
  <2>4. /\ hierarchySync' = [hierarchySync EXCEPT ![p] = new] /\ old.left = {} /\ ~old.failed
        /\ old.phase # "idle" /\ new.phase \notin {"idle", "store", "refreshed", "done"}
    BY <1>3, <2>1, <2>2
  <2>5. /\ \A t \in old.keep : theme[t].row = "live" => theme'[t].row = "live"
        /\ \A u \in old.keepSubs : subtheme[u].row = "live" => subtheme'[u].row = "live"
        /\ hierarchyFaults' \in Nat
    BY <1>2, <2>1
  <2>6. /\ UNCHANGED <<placed, hierarchyRec, changes, vacated>>
        /\ new.phase \notin {"idle", "store", "refreshed", "done"}
    BY <2>1, <2>2
  <2>7. /\ theme' \in [Themes -> Hierarchy!Theme] /\ subtheme' \in [Subthemes -> Hierarchy!Subtheme]
    BY <1>2, <2>1
  <2>8. /\ new.left = old.left /\ new.keep = old.keep /\ new.counts = old.counts /\ new.failed = old.failed
        /\ new.keepSubs = old.keepSubs
    BY <2>2
  <2>9. hierarchyCalm' = hierarchyCalm \intersect {p}
    BY <2>1
  <2> QED BY <2>3, <2>4, <2>5, <2>6, <2>7, <2>8, <2>9, HierarchyMoves
<1> QED BY <1>5, <1>6, <1>7, <1>8, <1>9, <1>10

LEMMA EndSteps ==
    ASSUME HierarchyInv, NEW p \in Syncers, Hierarchy!Ends(p) \/ Hierarchy!Done(p)
    PROVE  HierarchyInv'
<1>1. Hierarchy!TypeOK
  BY DEF HierarchyInv
<1>2. /\ hierarchySync' = [hierarchySync EXCEPT ![p] = Hierarchy!NoSync]
      /\ UNCHANGED <<placed, hierarchyRec, changes, catalogItem, theme, vacated>>
      /\ UNCHANGED subtheme /\ hierarchyCalm' \subseteq hierarchyCalm
  BY DEF Hierarchy!Ends, Hierarchy!Done, Hierarchy!Goto, Hierarchy!tables
<1>3. hierarchyFaults' \in Nat
  BY <1>1, Typed DEF Hierarchy!Ends, Hierarchy!Done, Hierarchy!Fault
<1>4. subtheme' \in [Subthemes -> Hierarchy!Subtheme]
  BY <1>1, <1>2, Typed
<1> QED BY <1>2, <1>3, <1>4, SyncEnds

\* RefreshHierarchyCounts counts what the pages show.
LEMMA CountedIsActive ==
    \A us : Hierarchy!ItemsIn(us) = Hierarchy!Active(us) /\ Hierarchy!Active(us) \subseteq Mapped
BY DEF Hierarchy!ItemsIn, Hierarchy!Active, Hierarchy!Counted

LEMMA RefreshSubthemesStep ==
    ASSUME HierarchyInv, NEW p \in Syncers, Hierarchy!RefreshSubthemes(p)
    PROVE  HierarchyInv'
<1>1. Hierarchy!TypeOK
  BY DEF HierarchyInv
<1> PICK old \in Hierarchy!Sync : old = hierarchySync[p]
  BY <1>1, Typed
<1> DEFINE count(u) == Hierarchy!Cardinality(Hierarchy!ItemsIn({u}))
<1>2. /\ old.phase = "refresh" /\ hierarchyCalm' = hierarchyCalm \intersect {p}
      /\ UNCHANGED <<placed, catalogItem, theme, hierarchyRec, changes, hierarchyFaults, vacated>>
      /\ hierarchySync' = [hierarchySync EXCEPT ![p] = [old EXCEPT !.phase = "refreshed"]]
      /\ subtheme' = [u \in Subthemes |-> IF subtheme[u].row = "live"
                                          THEN [subtheme[u] EXCEPT !.published_services = count(u)]
                                          ELSE subtheme[u]]
  BY DEF Hierarchy!RefreshSubthemes, Hierarchy!Goto, Hierarchy!Alone
<1>3. PICK new : new = [old EXCEPT !.phase = "refreshed"]
  OBVIOUS
<1>4. /\ new \in Hierarchy!Sync /\ new.phase = "refreshed"
      /\ new.left = old.left /\ new.keep = old.keep /\ new.counts = old.counts
      /\ new.failed = old.failed /\ new.keepSubs = old.keepSubs
  BY <1>3 DEF Hierarchy!Sync
<1>5. hierarchySync' = [hierarchySync EXCEPT ![p] = new]
  BY <1>2, <1>3
<1>6. hierarchySync'[p] = new
  BY <1>1, <1>5, Typed
<1>7. \A u : count(u) \in Hierarchy!Count /\ count(u) = Hierarchy!Cardinality(Hierarchy!Active({u}))
  BY CountedIsActive, CountOfServices
<1> HIDE DEF count
<1>8. subtheme' \in [Subthemes -> Hierarchy!Subtheme]
  BY <1>1, <1>2, <1>7, Typed DEF Hierarchy!Subtheme
<1>9. \A u \in Subthemes :
         /\ subtheme'[u].row = subtheme[u].row
         /\ subtheme[u].row = "live" => subtheme'[u].published_services = count(u)
  <2>1. \A u \in Subthemes : subtheme[u] \in Hierarchy!Subtheme
    BY <1>1, Typed
  <2> QED BY <1>2, <2>1 DEF Hierarchy!Subtheme
<1>10. Hierarchy!TypeOK'
  <2>1. /\ UNCHANGED <<placed, hierarchyRec, changes>>
        /\ hierarchyCalm' \subseteq Syncers /\ vacated' \subseteq Themes /\ hierarchyFaults' \in Nat
        /\ catalogItem' \in [Mapped -> [active : BOOLEAN, at : Hierarchy!Place]]
        /\ theme' \in [Themes -> Hierarchy!Theme]
    BY <1>1, <1>2, Typed
  <2> QED BY <1>1, <1>4, <1>5, <1>8, <2>1, SyncType
<1>11. HierarchyRun(p)'
  <2>1. HierarchyRun(p)
    BY <1>2 DEF HierarchyInv, IsRunning
  <2> QED BY <1>2, <1>4, <1>6, <2>1 DEF HierarchyRun
<1>12. ASSUME p \in hierarchyCalm', ~new.failed PROVE CalmRun(p)'
  <2>1. CalmRun(p)
    BY <1>2, <1>4, <1>12 DEF HierarchyInv, IsRunning
  <2>2. /\ new.left \union new.keep = Hierarchy!ListedThemes
        /\ \A u \in Subthemes : u \in new.keepSubs <=> ThemeOf[u] \in new.keep /\ Hierarchy!InSubtheme(u) # {}
        /\ \A t \in new.keep : theme'[t].row = "live"
    BY <1>2, <1>4, <2>1 DEF CalmRun
  <2>3. \A u \in new.keepSubs : subtheme'[u].row = "live"
    <3>1. \A u \in old.keepSubs : u \in Subthemes /\ subtheme[u].row = "live"
      BY <2>1 DEF CalmRun, Hierarchy!Sync
    <3> QED BY <1>4, <1>9, <3>1
  <2>4. UNCHANGED <<Hierarchy!ListedThemes>> /\ \A u : UNCHANGED <<Hierarchy!InSubtheme(u)>>
    BY <1>2 DEF Hierarchy!ListedThemes, Hierarchy!InTheme, Hierarchy!InSubtheme
  <2>5. \A u : Hierarchy!Cardinality(Hierarchy!Active({u}))' = Hierarchy!Cardinality(Hierarchy!Active({u}))
    BY <1>2 DEF Hierarchy!Active, Hierarchy!Cardinality
  <2>6. \A u \in Subthemes : subtheme'[u].row = "live" =>
           subtheme'[u].published_services = Hierarchy!Cardinality(Hierarchy!Active({u}))'
    BY <1>7, <1>9, <2>5
  <2> QED BY <1>4, <1>6, <2>2, <2>3, <2>4, <2>6 DEF CalmRun
<1>13. hierarchyCalm' \subseteq {p} /\ \A q \in Syncers \ {p} : IsRunning(q) => vacated \subseteq vacated'
  BY <1>2
<1>14. UNCHANGED placed
  BY <1>2
<1> QED BY <1>5, <1>4, <1>10, <1>11, <1>12, <1>13, <1>14, SyncGoesOn

LEMMA RefreshThemesStep ==
    ASSUME HierarchyInv, NEW p \in Syncers, Hierarchy!RefreshThemes(p)
    PROVE  HierarchyInv'
<1>1. Hierarchy!TypeOK
  BY DEF HierarchyInv
<1> PICK old \in Hierarchy!Sync : old = hierarchySync[p]
  BY <1>1, Typed
<1> DEFINE count(t) == Hierarchy!Cardinality(Hierarchy!ItemsIn(Hierarchy!SubsOf(t)))
           live(t)  == Hierarchy!Cardinality({u \in Hierarchy!SubsOf(t) : subtheme[u].row = "live"})
<1>2. /\ old.phase = "refreshed" /\ hierarchyCalm' = hierarchyCalm \intersect {p}
      /\ UNCHANGED <<placed, catalogItem, subtheme, hierarchyRec, changes, hierarchyFaults, vacated>>
      /\ hierarchySync' = [hierarchySync EXCEPT ![p] = [old EXCEPT !.phase = "done"]]
      /\ theme' = [t \in Themes |->
                      IF theme[t].row = "live"
                      THEN [row |-> "live", published_services |-> count(t), subthemes_count |-> live(t)]
                      ELSE theme[t]]
  BY DEF Hierarchy!RefreshThemes, Hierarchy!Goto, Hierarchy!Alone
<1>3. PICK new : new = [old EXCEPT !.phase = "done"]
  OBVIOUS
<1>4. /\ new \in Hierarchy!Sync /\ new.phase = "done"
      /\ new.left = old.left /\ new.keep = old.keep /\ new.counts = old.counts
      /\ new.failed = old.failed /\ new.keepSubs = old.keepSubs
  BY <1>3 DEF Hierarchy!Sync
<1>5. hierarchySync' = [hierarchySync EXCEPT ![p] = new]
  BY <1>2, <1>3
<1>6. hierarchySync'[p] = new
  BY <1>1, <1>5, Typed
<1>7. \A t : /\ count(t) \in Hierarchy!Count /\ live(t) \in Nat
              /\ count(t) = Hierarchy!Cardinality(Hierarchy!Active(Hierarchy!SubsOf(t)))
  <2>1. \A t : {u \in Hierarchy!SubsOf(t) : subtheme[u].row = "live"} \in SUBSET Subthemes
    BY DEF Hierarchy!SubsOf
  <2>2. \A t : live(t) \in Nat
    BY <2>1, CountOfSubthemes
  <2> QED BY <2>2, CountedIsActive, CountOfServices
<1> HIDE DEF count, live
<1>8. theme' \in [Themes -> Hierarchy!Theme]
  BY <1>1, <1>2, <1>7, Typed DEF Hierarchy!Theme
<1>9. \A t \in Themes : /\ theme'[t].row = theme[t].row
                        /\ theme[t].row = "live" => theme'[t].published_services = count(t)
  BY <1>2
<1>10. Hierarchy!TypeOK'
  <2>1. /\ UNCHANGED <<placed, hierarchyRec, changes>>
        /\ hierarchyCalm' \subseteq Syncers /\ vacated' \subseteq Themes /\ hierarchyFaults' \in Nat
        /\ catalogItem' \in [Mapped -> [active : BOOLEAN, at : Hierarchy!Place]]
        /\ subtheme' \in [Subthemes -> Hierarchy!Subtheme]
    BY <1>1, <1>2, Typed
  <2> QED BY <1>1, <1>4, <1>5, <1>8, <2>1, SyncType
<1>11. HierarchyRun(p)'
  <2>1. HierarchyRun(p)
    BY <1>2 DEF HierarchyInv, IsRunning
  <2> QED BY <1>2, <1>4, <1>6, <2>1 DEF HierarchyRun
<1>12. ASSUME p \in hierarchyCalm', ~new.failed PROVE CalmRun(p)'
  <2>1. CalmRun(p)
    BY <1>2, <1>4, <1>12 DEF HierarchyInv, IsRunning
  <2>2. /\ new.left \union new.keep = Hierarchy!ListedThemes
        /\ \A u \in Subthemes : u \in new.keepSubs <=> ThemeOf[u] \in new.keep /\ Hierarchy!InSubtheme(u) # {}
        /\ \A u \in new.keepSubs : subtheme'[u].row = "live"
    BY <1>2, <1>4, <2>1 DEF CalmRun
  <2>3. \A t \in new.keep : theme'[t].row = "live"
    <3>1. \A t \in old.keep : t \in Themes /\ theme[t].row = "live"
      BY <2>1 DEF CalmRun, Hierarchy!Sync
    <3> QED BY <1>4, <1>9, <3>1
  <2>4. UNCHANGED <<Hierarchy!ListedThemes>> /\ \A u : UNCHANGED <<Hierarchy!InSubtheme(u)>>
    BY <1>2 DEF Hierarchy!ListedThemes, Hierarchy!InTheme, Hierarchy!InSubtheme
  <2>5. /\ \A u : Hierarchy!Cardinality(Hierarchy!Active({u}))' = Hierarchy!Cardinality(Hierarchy!Active({u}))
        /\ \A t : Hierarchy!Cardinality(Hierarchy!Active(Hierarchy!SubsOf(t)))'
                    = Hierarchy!Cardinality(Hierarchy!Active(Hierarchy!SubsOf(t)))
    BY <1>2 DEF Hierarchy!Active, Hierarchy!Cardinality, Hierarchy!SubsOf
  <2>6. \A u \in Subthemes : subtheme'[u].row = "live" =>
           subtheme'[u].published_services = Hierarchy!Cardinality(Hierarchy!Active({u}))'
    BY <1>2, <2>1, <2>5 DEF CalmRun
  <2>7. \A t \in Themes : theme'[t].row = "live" =>
           theme'[t].published_services = Hierarchy!Cardinality(Hierarchy!Active(Hierarchy!SubsOf(t)))'
    BY <1>7, <1>9, <2>5
  <2> QED BY <1>4, <1>6, <2>2, <2>3, <2>4, <2>6, <2>7 DEF CalmRun
<1>13. hierarchyCalm' \subseteq {p} /\ \A q \in Syncers \ {p} : IsRunning(q) => vacated \subseteq vacated'
  BY <1>2
<1>14. UNCHANGED placed
  BY <1>2
<1> QED BY <1>5, <1>4, <1>10, <1>11, <1>12, <1>13, <1>14, SyncGoesOn

\* A step of somebody else, beside which no sync is calm, or which writes nothing.
LEMMA OthersStep ==
    ASSUME HierarchyInv, Hierarchy!TypeOK', UNCHANGED hierarchySync, vacated \subseteq vacated',
           \/ UNCHANGED <<placed, catalogItem, theme, subtheme, hierarchyCalm>>
           \/ hierarchyCalm' = {}
    PROVE  HierarchyInv'
<1>1. \A p \in Syncers : IsRunning(p)' => HierarchyRun(p)'
  BY DEF HierarchyInv, HierarchyRun, IsRunning
<1>2. \A p \in hierarchyCalm' : IsRunning(p)' /\ ~hierarchySync'[p].failed => CalmRun(p)'
  <2>1. CASE hierarchyCalm' = {}
    BY <2>1
  <2>2. CASE UNCHANGED <<placed, catalogItem, theme, subtheme, hierarchyCalm>>
    BY <2>2 DEF HierarchyInv, IsRunning, CalmRun, Hierarchy!ListedThemes, Hierarchy!InTheme,
                Hierarchy!InSubtheme, Hierarchy!Active, Hierarchy!SubsOf
  <2> QED BY <2>1, <2>2
<1> QED BY <1>1, <1>2 DEF HierarchyInv

LEMMA ChangeStep ==
    ASSUME HierarchyInv, NEW i \in Mapped, NEW u \in Hierarchy!Place, Hierarchy!Change(i, u)
    PROVE  HierarchyInv'
<1>1. Hierarchy!TypeOK
  BY DEF HierarchyInv
<1>2. /\ placed' = [placed EXCEPT ![i] = u] /\ changes' = changes + 1 /\ hierarchyCalm' = {}
      /\ UNCHANGED <<catalogItem, theme, subtheme, hierarchySync, hierarchyRec, hierarchyFaults>>
  BY DEF Hierarchy!Change, Hierarchy!tables
<1>3. vacated \subseteq vacated' /\ vacated' \subseteq Themes
  <2>1. placed[i] \in Subthemes \union {None}
    BY <1>1 DEF Hierarchy!TypeOK, Hierarchy!Place
  <2>2. placed[i] # None => ThemeOf[placed[i]] \in Themes
    BY <2>1, HierarchyAssumption
  <2>3. \/ vacated' = vacated
        \/ placed[i] # None /\ vacated' = vacated \union {ThemeOf[placed[i]]}
    BY DEF Hierarchy!Change
  <2> QED BY <1>1, <2>2, <2>3, Typed
<1>4. Hierarchy!TypeOK'
  <2>1. placed' \in [Mapped -> Hierarchy!Place] /\ changes' \in Nat
    BY <1>1, <1>2 DEF Hierarchy!TypeOK
  <2> QED BY <1>1, <1>2, <1>3, <2>1 DEF Hierarchy!TypeOK
<1> QED BY <1>2, <1>3, <1>4, OthersStep

LEMMA RecorderSteps ==
    ASSUME HierarchyInv, NEW w \in Attempts,
           \/ \E i \in Mapped : Hierarchy!ReadRecord(w, i)
           \/ Hierarchy!WriteItem(w) \/ Hierarchy!WriteTheme(w) \/ Hierarchy!WriteSubtheme(w)
           \/ Hierarchy!DropRecord(w)
    PROVE  HierarchyInv'
<1>1. Hierarchy!TypeOK
  BY DEF HierarchyInv
<1> PICK old \in Hierarchy!Rec : old = hierarchyRec[w]
  BY <1>1 DEF Hierarchy!TypeOK
<1>2. /\ placed \in [Mapped -> Hierarchy!Place] /\ changes \in Nat
      /\ catalogItem \in [Mapped -> [active : BOOLEAN, at : Hierarchy!Place]]
      /\ theme \in [Themes -> Hierarchy!Theme] /\ subtheme \in [Subthemes -> Hierarchy!Subtheme]
      /\ hierarchyRec \in [Attempts -> Hierarchy!Rec]
      /\ hierarchyFaults \in Nat /\ hierarchyFaults + 1 \in Nat
  BY <1>1 DEF Hierarchy!TypeOK
<1>3. ASSUME NEW new \in Hierarchy!Rec, hierarchyRec' = [hierarchyRec EXCEPT ![w] = new],
             UNCHANGED <<placed, hierarchySync, changes, vacated>>, hierarchyFaults' \in Nat,
             catalogItem' \in [Mapped -> [active : BOOLEAN, at : Hierarchy!Place]],
             theme' \in [Themes -> Hierarchy!Theme], subtheme' \in [Subthemes -> Hierarchy!Subtheme],
             \/ UNCHANGED <<placed, catalogItem, theme, subtheme, hierarchyCalm>>
             \/ hierarchyCalm' = {}
      PROVE  HierarchyInv'
  <2>1. Hierarchy!TypeOK'
    <3>1. hierarchyRec' \in [Attempts -> Hierarchy!Rec]
      BY <1>2, <1>3
    <3>2. hierarchyCalm' \subseteq Syncers
      BY <1>1, <1>3, Typed
    <3> QED BY <1>1, <1>3, <3>1, <3>2 DEF Hierarchy!TypeOK
  <2>2. vacated \subseteq vacated'
    BY <1>3
  <2> QED BY <1>3, <2>1, <2>2, OthersStep
<1>4. Hierarchy!Over \in Hierarchy!Rec
  BY DEF Hierarchy!Over, Hierarchy!NoRec, Hierarchy!Rec, Hierarchy!Place
<1>5. ASSUME NEW i \in Mapped, Hierarchy!ReadRecord(w, i) PROVE HierarchyInv'
  <2>1. [phase |-> "item", id |-> {i}, at |-> placed[i]] \in Hierarchy!Rec
    BY <1>2 DEF Hierarchy!Rec
  <2> QED BY <1>2, <1>3, <1>5, <2>1 DEF Hierarchy!ReadRecord, Hierarchy!tables
<1>6. CASE Hierarchy!WriteItem(w)
  <2>1. PICK new : new = IF old.at = None THEN Hierarchy!Over ELSE [old EXCEPT !.phase = "theme"]
    OBVIOUS
  <2>2. new \in Hierarchy!Rec /\ old.at \in Hierarchy!Place
    BY <1>4, <2>1 DEF Hierarchy!Rec
  <2>3. /\ hierarchyRec' = [hierarchyRec EXCEPT ![w] = new] /\ hierarchyCalm' = {}
        /\ UNCHANGED <<placed, theme, subtheme, hierarchySync, changes, hierarchyFaults, vacated>>
    BY <1>6, <2>1 DEF Hierarchy!WriteItem
  <2>4. catalogItem' = [i \in Mapped |-> IF i \notin old.id THEN catalogItem[i]
                                        ELSE IF old.at = None THEN [catalogItem[i] EXCEPT !.active = FALSE]
                                        ELSE [active |-> TRUE, at |-> old.at]]
    BY <1>6 DEF Hierarchy!WriteItem
  <2>5. catalogItem' \in [Mapped -> [active : BOOLEAN, at : Hierarchy!Place]]
    BY <1>2, <2>2, <2>4
  <2> QED BY <1>2, <1>3, <2>2, <2>3, <2>5
<1>7. 0 \in Hierarchy!Count
  <2>1. {} \in SUBSET Mapped
    OBVIOUS
  <2> QED BY <2>1, CountOfServices DEF Hierarchy!Count
<1>8. CASE Hierarchy!WriteTheme(w)
  <2>1. PICK new : new = [old EXCEPT !.phase = "subtheme"]
    OBVIOUS
  <2>2. new \in Hierarchy!Rec
    BY <2>1 DEF Hierarchy!Rec
  <2>3. hierarchyRec' = [hierarchyRec EXCEPT ![w] = new]
    BY <1>2, <1>8, <2>1 DEF Hierarchy!WriteTheme
  <2>4. /\ hierarchyCalm' = {} /\ hierarchyFaults' \in Nat
        /\ UNCHANGED <<placed, catalogItem, subtheme, hierarchySync, changes, vacated>>
        /\ \/ theme' = Hierarchy!LiveTheme(ThemeOf[old.at], 0, 0)
           \/ theme' = theme
    BY <1>2, <1>8 DEF Hierarchy!WriteTheme, Hierarchy!Fault
  <2>5. theme' \in [Themes -> Hierarchy!Theme]
    <3>1. [row |-> "live", published_services |-> 0, subthemes_count |-> 0] \in Hierarchy!Theme
      BY <1>7 DEF Hierarchy!Theme
    <3> QED BY <1>2, <2>4, <3>1 DEF Hierarchy!LiveTheme
  <2> QED BY <1>2, <1>3, <2>2, <2>3, <2>4, <2>5
<1>9. CASE Hierarchy!WriteSubtheme(w)
  <2>1. /\ hierarchyCalm' = {} /\ hierarchyFaults' \in Nat
        /\ hierarchyRec' = [hierarchyRec EXCEPT ![w] = Hierarchy!Over]
        /\ UNCHANGED <<placed, catalogItem, theme, hierarchySync, changes, vacated>>
        /\ \/ subtheme' = Hierarchy!LiveSubthemes({old.at}, [u \in Subthemes |-> 0])
           \/ subtheme' = subtheme
    BY <1>2, <1>9 DEF Hierarchy!WriteSubtheme, Hierarchy!Fault
  <2>2. subtheme' \in [Subthemes -> Hierarchy!Subtheme]
    <3>1. [row |-> "live", published_services |-> 0] \in Hierarchy!Subtheme
      BY <1>7 DEF Hierarchy!Subtheme
    <3> QED BY <1>2, <2>1, <3>1 DEF Hierarchy!LiveSubthemes
  <2> QED BY <1>2, <1>3, <1>4, <2>1, <2>2
<1>10. CASE Hierarchy!DropRecord(w)
  BY <1>2, <1>3, <1>4, <1>10 DEF Hierarchy!DropRecord, Hierarchy!Fault, Hierarchy!tables
<1> QED BY <1>5, <1>6, <1>8, <1>9, <1>10

LEMMA HierarchyNext == HierarchyInv /\ [Hierarchy!Next]_(Hierarchy!vars) => HierarchyInv'
<1> SUFFICES ASSUME HierarchyInv, [Hierarchy!Next]_(Hierarchy!vars) PROVE HierarchyInv'
  OBVIOUS
<1>1. CASE UNCHANGED Hierarchy!vars
  <2>1. /\ UNCHANGED <<placed, catalogItem, theme, subtheme, hierarchySync, hierarchyRec, changes>>
        /\ UNCHANGED <<hierarchyFaults, hierarchyCalm, vacated>>
    BY <1>1 DEF Hierarchy!vars, Hierarchy!tables
  <2>2. Hierarchy!TypeOK'
    BY <2>1 DEF HierarchyInv, Hierarchy!TypeOK
  <2>3. vacated \subseteq vacated'
    BY <2>1
  <2> QED BY <2>1, <2>2, <2>3, OthersStep
<1>2. ASSUME NEW p \in Syncers, Hierarchy!SyncStep(p) PROVE HierarchyInv'
  BY <1>2, StoreThemeStep, MidSteps, RefreshSubthemesStep, RefreshThemesStep, EndSteps DEF Hierarchy!SyncStep
<1>3. ASSUME NEW p \in Syncers,
             \/ \E full \in BOOLEAN : Hierarchy!Begin(p, full)
             \/ \E t \in Themes : Hierarchy!StoreFails(p, t)
             \/ Hierarchy!Ends(p)
      PROVE  HierarchyInv'
  BY <1>3, BeginStep, StoreFailsStep, EndSteps
<1>4. ASSUME NEW w \in Attempts,
             \/ \E i \in Mapped : Hierarchy!ReadRecord(w, i)
             \/ Hierarchy!RecStep(w) \/ Hierarchy!DropRecord(w)
      PROVE  HierarchyInv'
  BY <1>4, RecorderSteps DEF Hierarchy!RecStep
<1>5. ASSUME NEW i \in Mapped, NEW u \in Hierarchy!Place, Hierarchy!Change(i, u) PROVE HierarchyInv'
  BY <1>5, ChangeStep
<1> QED BY <1>1, <1>2, <1>3, <1>4, <1>5 DEF Hierarchy!Next

\* The types of the hierarchy's tables, syncs and attempts.
THEOREM HierarchyTypes == Hierarchy!Spec => []Hierarchy!TypeOK
<1>1. HierarchyInv => Hierarchy!TypeOK
  BY DEF HierarchyInv
<1> QED BY <1>1, HierarchyInit, HierarchyNext, PTL DEF Hierarchy!Spec

\* A completed sync nobody wrote beside, after which the catalogue is as the Carta,
\* shows the themes that have services, with their counts, whatever was there before.
THEOREM QuietSyncShows == Hierarchy!Spec => []QuietSyncShowsHierarchy
<1>1. ASSUME HierarchyInv PROVE QuietSyncShowsHierarchy
  <2> SUFFICES ASSUME NEW p \in hierarchyCalm, hierarchySync[p].phase = "done",
                      \A i \in Mapped : Hierarchy!AsCarta(i)
               PROVE  /\ \A t \in Themes :
                           /\ Hierarchy!Visible(t) <=> Hierarchy!Active(Hierarchy!SubsOf(t)) # {}
                           /\ Hierarchy!Visible(t) => theme[t].published_services
                                   = Hierarchy!Cardinality(Hierarchy!Active(Hierarchy!SubsOf(t)))
                      /\ \A u \in Subthemes : Hierarchy!Active({u}) # {} =>
                           subtheme[u] = [row |-> "live", published_services |->
                                            Hierarchy!Cardinality(Hierarchy!Active({u}))]
    BY DEF QuietSyncShowsHierarchy, Hierarchy!QuietSyncShowsHierarchy
  <2>1. Hierarchy!TypeOK /\ p \in Syncers
    BY <1>1 DEF HierarchyInv, Hierarchy!TypeOK
  <2>2. HierarchyRun(p)
    BY <1>1, <2>1 DEF HierarchyInv, IsRunning
  <2>3. hierarchySync[p].left = {} /\ ~hierarchySync[p].failed
    BY <2>2 DEF HierarchyRun
  <2>4. CalmRun(p)
    BY <1>1, <2>3 DEF HierarchyInv, IsRunning
  <2>5. ASSUME NEW i \in Mapped, catalogItem[i].active
        PROVE  placed[i] = catalogItem[i].at /\ placed[i] # None
    <3>1. Hierarchy!AsCarta(i)
      OBVIOUS
    <3>2. placed[i] # None
      BY <2>5, <3>1 DEF Hierarchy!AsCarta
    <3>3. catalogItem[i] = [active |-> TRUE, at |-> placed[i]]
      BY <3>1, <3>2 DEF Hierarchy!AsCarta
    <3> QED BY <3>2, <3>3
  <2>6. ASSUME NEW t \in Themes, Hierarchy!Active(Hierarchy!SubsOf(t)) # {}
        PROVE  theme[t].row = "live"
    <3>1. PICK i \in Mapped : catalogItem[i].active /\ catalogItem[i].at \in Hierarchy!SubsOf(t)
      BY <2>6 DEF Hierarchy!Active
    <3>2. t \in Hierarchy!ListedThemes
      BY <2>5, <3>1 DEF Hierarchy!ListedThemes, Hierarchy!InTheme, Hierarchy!SubsOf
    <3> QED BY <2>3, <2>4, <3>2 DEF CalmRun
  <2>7. ASSUME NEW t \in Themes, theme[t].row = "live"
        PROVE  /\ theme[t].published_services = Hierarchy!Cardinality(Hierarchy!Active(Hierarchy!SubsOf(t)))
               /\ theme[t].published_services > 0 <=> Hierarchy!Active(Hierarchy!SubsOf(t)) # {}
    <3>1. theme[t].published_services = Hierarchy!Cardinality(Hierarchy!Active(Hierarchy!SubsOf(t)))
      BY <2>4, <2>7 DEF CalmRun
    <3> QED BY <3>1, CountedIsActive, CountOfServices
  <2>8. ASSUME NEW u \in Subthemes, Hierarchy!Active({u}) # {}
        PROVE  subtheme[u] = [row |-> "live", published_services |-> Hierarchy!Cardinality(Hierarchy!Active({u}))]
    <3>1. PICK i \in Mapped : catalogItem[i].active /\ catalogItem[i].at = u
      BY <2>8 DEF Hierarchy!Active
    <3>2. placed[i] = u /\ u # None
      BY <2>5, <3>1
    <3>3. ThemeOf[u] \in Themes /\ ThemeOf[u] \in Hierarchy!ListedThemes
      BY <3>2, HierarchyAssumption DEF Hierarchy!ListedThemes, Hierarchy!InTheme
    <3>4. u \in hierarchySync[p].keepSubs
      BY <2>3, <2>4, <3>2, <3>3 DEF CalmRun, Hierarchy!InSubtheme
    <3>5. subtheme[u].row = "live" /\ subtheme[u].published_services = Hierarchy!Cardinality(Hierarchy!Active({u}))
      BY <2>4, <3>4 DEF CalmRun
    <3>6. subtheme[u] \in Hierarchy!Subtheme
      BY <2>1, Typed
    <3> QED BY <3>5, <3>6 DEF Hierarchy!Subtheme
  <2> QED BY <2>6, <2>7, <2>8 DEF Hierarchy!Visible
<1> QED BY <1>1, HierarchyInit, HierarchyNext, PTL DEF Hierarchy!Spec

\* A theme that shows is hidden by the count of a completed sync, by the soft delete of
\* what a sync did not list, or by a webhook attempt.
LEMMA HiddenThemes ==
    ASSUME HierarchyInv, Hierarchy!Next, NEW t \in Themes, Hierarchy!Visible(t), ~Hierarchy!Visible(t)'
    PROVE  \/ hierarchyRec' # hierarchyRec
           \/ Hierarchy!Active(Hierarchy!SubsOf(t))' = {}
           \/ t \in vacated
<1>1. Hierarchy!TypeOK
  BY DEF HierarchyInv
<1>2. theme[t].row = "live" /\ theme[t].published_services > 0 /\ theme'[t] # theme[t]
      /\ ~(theme'[t].row = "live" /\ theme'[t].published_services > 0)
  BY DEF Hierarchy!Visible
<1>3. theme' # theme
  BY <1>2
<1>4. ASSUME NEW p \in Syncers, NEW s \in Themes, Hierarchy!StoreTheme(p, s) \/ Hierarchy!StoreFails(p, s)
      PROVE  FALSE
  <2>1. s \in hierarchySync[p].left /\ hierarchySync[p].phase = "store"
    BY <1>4 DEF Hierarchy!StoreTheme, Hierarchy!StoreFails
  <2>2. PICK n : n = hierarchySync[p].counts[s]
    OBVIOUS
  <2>3. n \in Hierarchy!Count /\ n > 0
    <3>1. hierarchySync[p] \in Hierarchy!Sync
      BY <1>1, Typed
    <3> QED BY <2>1, <2>2, <3>1 DEF HierarchyInv, HierarchyRun, IsRunning, Hierarchy!Sync
  <2>4. PICK m : m = Hierarchy!Cardinality(Hierarchy!ListedSubthemes(s))
    OBVIOUS
  <2>5. m \in Nat
    BY <1>1, <2>4, Typed, CountOfSubthemes
  <2>6. theme' = Hierarchy!LiveTheme(s, n, m)
    BY <1>3, <1>4, <2>2, <2>4 DEF Hierarchy!StoreTheme, Hierarchy!StoreFails
  <2>7. /\ theme'[s].row = "live" /\ theme'[s].published_services = n
        /\ \A x \in Themes \ {s} : theme'[x] = theme[x]
    BY <1>1, <2>3, <2>5, <2>6, LiveThemeRow
  <2> QED BY <1>2, <2>3, <2>7
<1>5. ASSUME NEW p \in Syncers, Hierarchy!PruneThemes(p) PROVE t \in vacated
  <2>1. hierarchySync[p].phase = "themes" /\ t \notin hierarchySync[p].keep
    BY <1>2, <1>3, <1>5 DEF Hierarchy!PruneThemes
  <2>2. HierarchyRun(p)
    BY <2>1 DEF HierarchyInv, IsRunning
  <2> QED BY <2>1, <2>2 DEF HierarchyRun
<1>6. ASSUME NEW p \in Syncers, Hierarchy!RefreshThemes(p) PROVE Hierarchy!Active(Hierarchy!SubsOf(t))' = {}
  <2>1. PICK n : n = Hierarchy!Cardinality(Hierarchy!ItemsIn(Hierarchy!SubsOf(t)))
    OBVIOUS
  <2>2. theme'[t].row = "live" /\ theme'[t].published_services = n
    BY <1>2, <1>6, <2>1 DEF Hierarchy!RefreshThemes
  <2>3. Hierarchy!Active(Hierarchy!SubsOf(t)) = {}
    BY <1>2, <2>1, <2>2, CountedIsActive, CountOfServices
  <2>4. UNCHANGED catalogItem
    BY <1>6 DEF Hierarchy!RefreshThemes
  <2> QED BY <2>3, <2>4 DEF Hierarchy!Active, Hierarchy!SubsOf
<1>7. ASSUME NEW w \in Attempts, Hierarchy!WriteTheme(w) PROVE hierarchyRec' # hierarchyRec
  <2>1. PICK old \in Hierarchy!Rec : old = hierarchyRec[w]
    BY <1>1 DEF Hierarchy!TypeOK
  <2>2. old.phase = "theme" /\ hierarchyRec' = [hierarchyRec EXCEPT ![w].phase = "subtheme"]
    BY <1>7, <2>1 DEF Hierarchy!WriteTheme
  <2>3. hierarchyRec'[w].phase = "subtheme"
    BY <1>1, <2>2 DEF Hierarchy!TypeOK, Hierarchy!Rec
  <2> QED BY <2>1, <2>2, <2>3
<1>8. ASSUME NEW p \in Syncers, Hierarchy!SyncStep(p)
      PROVE  Hierarchy!Active(Hierarchy!SubsOf(t))' = {} \/ t \in vacated
  <2>1. \/ \E s \in Themes : Hierarchy!StoreTheme(p, s)
        \/ Hierarchy!PruneThemes(p) \/ Hierarchy!RefreshThemes(p)
    BY <1>3, <1>8 DEF Hierarchy!SyncStep, Hierarchy!Stored, Hierarchy!PruneSubthemes, Hierarchy!ReadServices,
                      Hierarchy!WriteServices, Hierarchy!SoftDeleteOrphans, Hierarchy!RefreshSubthemes,
                      Hierarchy!Done, Hierarchy!tables
  <2> QED BY <1>4, <1>5, <1>6, <2>1
<1>9. ASSUME NEW w \in Attempts,
             \/ \E i \in Mapped : Hierarchy!ReadRecord(w, i)
             \/ Hierarchy!RecStep(w) \/ Hierarchy!DropRecord(w)
      PROVE  hierarchyRec' # hierarchyRec
  <2>1. Hierarchy!WriteTheme(w)
    BY <1>3, <1>9 DEF Hierarchy!ReadRecord, Hierarchy!RecStep, Hierarchy!WriteItem, Hierarchy!WriteSubtheme,
                      Hierarchy!DropRecord, Hierarchy!tables
  <2> QED BY <1>7, <2>1
<1>10. ASSUME NEW p \in Syncers,
              \/ \E full \in BOOLEAN : Hierarchy!Begin(p, full)
              \/ \E s \in Themes : Hierarchy!StoreFails(p, s)
              \/ Hierarchy!Ends(p)
       PROVE  FALSE
  <2>1. \E s \in Themes : Hierarchy!StoreFails(p, s)
    BY <1>3, <1>10 DEF Hierarchy!Begin, Hierarchy!Ends, Hierarchy!tables
  <2> QED BY <1>4, <2>1
<1>11. ASSUME NEW i \in Mapped, NEW u \in Hierarchy!Place, Hierarchy!Change(i, u) PROVE FALSE
  BY <1>3, <1>11 DEF Hierarchy!Change, Hierarchy!tables
<1> QED BY <1>8, <1>9, <1>10, <1>11 DEF Hierarchy!Next

\* No sync hides a theme that has services here, and had some at the Carta all the
\* while: one whose listing failed stays.
THEOREM OnlyEmptyThemesHide == Hierarchy!Spec => HidesOnlyEmptyThemes
<1> DEFINE Hides == \A t \in Themes : Hierarchy!Visible(t) /\ ~Hierarchy!Visible(t)' =>
                      \/ hierarchyRec' # hierarchyRec
                      \/ Hierarchy!Active(Hierarchy!SubsOf(t))' = {}
                      \/ t \in vacated
<1>1. HierarchyInv /\ [Hierarchy!Next]_(Hierarchy!vars) => [Hides]_(Hierarchy!vars)
  BY HiddenThemes
<1>2. HidesOnlyEmptyThemes <=> [][Hides]_(Hierarchy!vars)
  BY DEF HidesOnlyEmptyThemes, Hierarchy!HidesOnlyEmptyThemes
<1> HIDE DEF Hides
<1> QED BY <1>1, <1>2, HierarchyInit, HierarchyNext, PTL DEF Hierarchy!Spec

-----------------------------------------------------------------------------
(* The composition.                                                         *)

\* In a behaviour of the composition the services and the hierarchy each behave as their
\* module says, so what is proved of a module holds of the composition the run checks.
THEOREM CartaParts == MCSpec => Spec /\ Hierarchy!Spec
<1>1. MCInit => Init /\ Hierarchy!Init
  BY DEF MCInit
<1>2. UNCHANGED hierarchyVars => UNCHANGED Hierarchy!vars
  BY DEF hierarchyVars, Hierarchy!vars, Hierarchy!tables
<1>3. [MCNext]_mcVars => [Next]_vars /\ [Hierarchy!Next]_(Hierarchy!vars)
  BY <1>2 DEF MCNext, mcVars
<1> QED BY <1>1, <1>3, PTL DEF MCSpec, Spec, Hierarchy!Spec

===============================================================================
