-------------------------------- MODULE Ranking --------------------------------
(***************************************************************************)
(* ORDER BY: the elements of a finite set in the order of a relation, a set *)
(* of pairs that puts one of any two elements before the other.             *)
(***************************************************************************)
EXTENDS Naturals, FiniteSets

Ordering(S, before) ==
    /\ \A x \in S : <<x, x>> \notin before
    /\ \A x, y \in S : x # y => <<x, y>> \in before \/ <<y, x>> \in before
    /\ \A x, y, z \in S : <<x, y>> \in before /\ <<y, z>> \in before => <<x, z>> \in before

\* row_number() of x.
Rank(x, S, before) == Cardinality({y \in S : <<y, x>> \in before}) + 1

InOrder(S, before) == [n \in 1 .. Cardinality(S) |-> CHOOSE x \in S : Rank(x, S, before) = n]

===============================================================================
