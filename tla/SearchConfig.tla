------------------------------ MODULE SearchConfig ------------------------------
(***************************************************************************)
(* The constants of SearchPages and what is assumed of them.                *)
(***************************************************************************)
EXTENDS Naturals, Sequences, FiniteSets

CONSTANTS
    Items,       \* ids of catalog_items that pass the filters
    FtsOrder,    \* those the text matches, by rank
    SemOrders,   \* those with an embedding, by distance to the text
    HydeDocs,    \* by distance to a HyDE document, for each document
    ListLimit,   \* LIMIT of each list
    Denominator, \* in its units the scores are natural numbers
    PerPage,     \* per_page
    RerankTop,   \* rows of a page the cross-encoder sees
    MaxPage      \* the pages asked for

\* Items of s, each once.
OrderOfItems(s) ==
    /\ s \in Seq(Items)
    /\ \A m, n \in 1 .. Len(s) : s[m] = s[n] => m = n

\* The ORDER BY of a distance names nothing else, so a query may return items equally
\* far in any order: what SQL promises of a vector is a set of orders, one without ties.
OrdersOfItems(orders) == orders # {} /\ \A s \in orders : OrderOfItems(s)

Tied(orders) == \E s, t \in orders : s # t

\* Finitely many items; a query returns each in one row.  A page has room, and a list
\* too: per_page and the limits are positive.
ASSUME SearchAssumption ==
    /\ Items \subseteq Nat /\ IsFiniteSet(Items)
    /\ OrderOfItems(FtsOrder) /\ OrdersOfItems(SemOrders)
    /\ \A doc \in HydeDocs : OrdersOfItems(doc)
    /\ ListLimit \in Nat \ {0} /\ PerPage \in Nat \ {0} /\ RerankTop \in Nat /\ MaxPage \in Nat
    /\ Denominator \in Nat /\ \A n \in 1 .. ListLimit : Denominator % (60 + n) = 0

===============================================================================
