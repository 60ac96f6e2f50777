------------------------------- MODULE HomeConfig -------------------------------
(***************************************************************************)
(* The constants of HomeFeatured and what is assumed of them.               *)
(***************************************************************************)
EXTENDS Naturals

CONSTANTS
    Highlights,  \* slugs of featured services
    Blank,       \* an entry without a slug
    Positions,   \* natural numbers
    MaxEntries,  \* bounds the entries the Carta lists
    MaxSnapshots \* bounds the snapshots fetched

\* An empty slug is none, a position is an integer column.
ASSUME HomeAssumption == Blank \notin Highlights /\ Positions \subseteq Nat

\* The bounds of the model.
ASSUME HomeBounds == MaxEntries \in Nat /\ MaxSnapshots \in Nat

===============================================================================
