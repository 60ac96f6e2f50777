-------------------------------- MODULE MCCarta --------------------------------
(***************************************************************************)
(* What the synchronisations of the Carta write: the services (CartaSync)   *)
(* and the tables of themes and subthemes (CartaHierarchy).  A behaviour is *)
(* about one of the two.                                                    *)
(***************************************************************************)
EXTENDS MCCartaSync

CONSTANTS
    Themes,
    ThemeOf,   \* the theme of a subtheme
    Attempts,  \* webhook attempts beside the syncs of the hierarchy
    MaxChanges \* bounds the changes of the Carta the hierarchy is about

\* Every subtheme has a theme; the Carta has finitely many of each.
ASSUME HierarchyAssumption ==
    /\ ThemeOf \in [Subthemes -> Themes]
    /\ None \notin Subthemes
    /\ IsFiniteSet(Subthemes)

\* On the run a theme for each subtheme.
MCThemeOf == [u \in Subthemes |-> u]

VARIABLES
    focus,
    placed, catalogItem, theme, subtheme, hierarchySync, hierarchyRec, changes, hierarchyFaults,
    hierarchyCalm, vacated

\* The services that can be mapped.
Mapped == Services \ Nameless

Hierarchy == INSTANCE CartaHierarchy
    WITH Services <- Mapped, Recorders <- Attempts, Nowhere <- None,
         carta <- placed, item <- catalogItem, sync <- hierarchySync, rec <- hierarchyRec,
         faults <- hierarchyFaults, calm <- hierarchyCalm

hierarchyVars == <<placed, catalogItem, theme, subtheme, hierarchySync, hierarchyRec, changes,
                   hierarchyFaults, hierarchyCalm, vacated>>
mcVars        == <<focus, vars, hierarchyVars>>

MCInit ==
    /\ focus \in {"services", "hierarchy"}
    /\ Init /\ Hierarchy!Init
    /\ focus # "services" => \A i, j \in Services : carta[i] = carta[j]
    /\ focus # "hierarchy" => \A i \in Mapped : placed[i] = None

MCNext ==
    \/ focus = "services" /\ Next /\ UNCHANGED <<focus, hierarchyVars>>
    \/ focus = "hierarchy" /\ Hierarchy!Next /\ UNCHANGED <<focus, vars>>

MCSpec == MCInit /\ [][MCNext]_mcVars

-----------------------------------------------------------------------------
\* CartaHierarchy: a completed sync nobody wrote beside leaves the right hierarchy.
QuietSyncShowsHierarchy == Hierarchy!QuietSyncShowsHierarchy

\* CartaHierarchy: a sync hides only themes without services.
HidesOnlyEmptyThemes == Hierarchy!HidesOnlyEmptyThemes

===============================================================================
