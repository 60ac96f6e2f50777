------------------------------ MODULE PagedConfig ------------------------------
(***************************************************************************)
(* The constants of PagedSync and what is assumed of them.                  *)
(***************************************************************************)
EXTENDS Naturals, Sequences, FiniteSets

CONSTANTS
    Kinds,       \* sequence of kinds in the order Sync takes them
    Items,       \* courses, jobs and opportunities
    KindOf,      \* [Items -> kind]
    PageSize,    \* items of a page
    Worker,      \* the source's goroutine in the worker
    Manual,      \* manual syncs of API pods
    MaxAttempts  \* RetryPolicy.MaxAttempts

KindSet == {Kinds[n] : n \in 1 .. Len(Kinds)}

\* What the source is built and configured with, and finitely many items to list.
ASSUME PagedAssumption ==
    /\ IsFiniteSet(Items)
    /\ PageSize \in Nat \ {0}
    /\ MaxAttempts \in Nat \ {0}
    /\ Len(Kinds) > 0
    /\ KindOf \in [Items -> KindSet]
    /\ Worker \notin Manual

===============================================================================
