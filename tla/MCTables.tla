-------------------------------- MODULE MCTables --------------------------------
(***************************************************************************)
(* The tables of the Carta that several syncs write at once: the slug       *)
(* aliases and the snapshot of the home page.  Their statements touch       *)
(* different tables, so a behaviour is about one of them.                   *)
(***************************************************************************)
EXTENDS SlugAliases, HomeConfig, TLC

CONSTANT HomeSyncs

VARIABLES focus, home, homeJob, fetched, stored, homeFaults

Home == INSTANCE HomeFeatured WITH Syncs <- HomeSyncs, job <- homeJob, faults <- homeFaults

homeVars == <<home, homeJob, fetched, stored, homeFaults>>
mcVars   == <<focus, vars, homeVars>>

MCInit ==
    /\ focus \in {"aliases", "home"}
    /\ Init /\ Home!Init
    /\ focus # "aliases" => active = {}

MCNext ==
    \/ focus = "aliases" /\ Next /\ UNCHANGED <<focus, homeVars>>
    \/ focus = "home" /\ Home!Next /\ UNCHANGED <<focus, vars>>

MCSpec == MCInit /\ [][MCNext]_mcVars

Symmetry == Permutations(Slugs) \union Permutations(Writers)

-----------------------------------------------------------------------------
\* HomeFeatured: a list of the Carta fits in the table.
SnapshotFits == Home!SnapshotFits

\* HomeFeatured: the home page is made of whole snapshots.
HomeIsWhole == Home!HomeIsWhole

===============================================================================
