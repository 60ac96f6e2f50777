------------------------------- MODULE MCWorker -------------------------------
(***************************************************************************)
(* The loops of the worker that bring data to the catalogue: the app-go-api *)
(* source, the Typesense source and the embedding backfill.  They write     *)
(* different rows and columns, so a behaviour is about one of them.         *)
(***************************************************************************)
EXTENDS TypesenseSync, PagedConfig, BackfillConfig, Functions

CONSTANTS
    Courses, Jobs, MaxChanges,
    MaxWrites,
    MoreFaults \* MaxFaults of app-go-api

MCKinds == <<"courses", "jobs">>
MCItems == Courses \union Jobs
MCKindOf == [i \in MCItems |-> IF i \in Courses THEN "courses" ELSE "jobs"]

VARIABLES
    focus,
    listing, offered, version, itemRow, itemRun, changes, itemFaults, started, amiss, shifted,
    item, place, vector, pass, writes, passFaults, rewrote

AppGoAPI == INSTANCE PagedSync
    WITH row <- itemRow, run <- itemRun, faults <- itemFaults, MaxFaults <- MoreFaults

Backfill == INSTANCE Embeddings WITH faults <- passFaults

appGoAPIVars == <<listing, offered, version, itemRow, itemRun, changes, itemFaults, started, amiss, shifted>>
backfillVars == <<item, place, vector, pass, writes, passFaults, rewrote>>
mcVars       == <<focus, vars, appGoAPIVars, backfillVars>>

\* The parts a behaviour is not about start in one state.
MCInit ==
    /\ focus \in {"app-go-api", "typesense", "backfill"}
    /\ Init /\ AppGoAPI!Init /\ Backfill!Init
    /\ focus # "app-go-api" => \A k \in KindSet : listing[k] = <<>>
    /\ focus # "typesense" => stores /\ \A d \in Docs : doc[d].published
    /\ focus # "backfill" => place = CHOOSE p \in Injection(Entries, 1 .. Cardinality(Entries)) : TRUE

OnAppGoAPI(A)  == focus = "app-go-api" /\ A /\ UNCHANGED <<focus, vars, backfillVars>>
OnTypesense(A) == focus = "typesense" /\ A /\ UNCHANGED <<focus, appGoAPIVars, backfillVars>>
OnBackfill(A)  == focus = "backfill" /\ A /\ UNCHANGED <<focus, vars, appGoAPIVars>>

MCNext ==
    \/ OnAppGoAPI(AppGoAPI!Next)
    \/ OnTypesense(Next)
    \/ OnBackfill(Backfill!Next)

\* The fairness of each part.
MCSpec ==
    /\ MCInit /\ [][MCNext]_mcVars
    /\ WF_mcVars(OnAppGoAPI(AppGoAPI!Start(Worker)))
    /\ \A p \in AppGoAPI!Runners : WF_mcVars(OnAppGoAPI(AppGoAPI!RunStep(p)))
    /\ WF_mcVars(OnTypesense(SyncStep))
    /\ WF_mcVars(OnBackfill(Backfill!PassStep))

-----------------------------------------------------------------------------
\* PagedSync: its states are well-formed.
ItemsTypeOK == AppGoAPI!TypeOK

\* PagedSync: an offered item is not soft-deleted.
OfferedIsKept == AppGoAPI!OfferedIsKept

\* PagedSync: the catalogue comes to show what app-go-api offers.
CatalogFollowsItems == focus = "app-go-api" => AppGoAPI!CatalogFollows

\* TypesenseSync: the catalogue comes to show the collection.
CatalogFollowsDocs == focus = "typesense" => CatalogFollows

\* Embeddings: a vector is of the text of its own item, or of the one before a write.
OwnVector == Backfill!OwnVector

\* Embeddings: in the end only refused chunks keep items without an embedding.
Backfilled == focus = "backfill" => Backfill!Backfilled

===============================================================================
