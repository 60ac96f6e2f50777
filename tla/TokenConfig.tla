------------------------------ MODULE TokenConfig ------------------------------
(***************************************************************************)
(* The constants of KeycloakTokenManager and what is assumed of them.       *)
(***************************************************************************)
EXTENDS Integers

CONSTANTS
    Users,       \* concurrent calls of GetToken
    Lifetimes,   \* the lives Keycloak may give a token
    AssumedLife, \* the 300 s taken for an expires_in that is missing or not positive
    Margin,      \* the 30 s taken off expires_in
    Timeout      \* Timeout of the HTTP client

\* A life is positive; the margin is longer than the client waits for an answer.
ASSUME TokenAssumption ==
    /\ Lifetimes \subseteq Nat \ {0}
    /\ AssumedLife \in Nat
    /\ Margin \in Nat
    /\ Timeout \in Nat
    /\ Timeout < Margin

===============================================================================
