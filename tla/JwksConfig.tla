------------------------------- MODULE JwksConfig -------------------------------
(***************************************************************************)
(* The constants of JWKSVerifier and what is assumed of them.               *)
(***************************************************************************)
EXTENDS Naturals

CONSTANTS
    Requests,     \* concurrent requests with a token
    Kids,         \* key identifiers
    NoRequest,    \* nobody holds refreshMu
    RefreshTTL,   \* refreshTTL
    MinRefresh,   \* minRefresh
    FetchTimeout, \* defaultJWKSFetchTimeout
    MaxRotations, \* bounds the changes of Keycloak's keys
    MaxOutages    \* bounds failed and cancelled fetches

\* The defaults are ten minutes, one minute and five seconds: a fetch ends before the
\* next one is due, and keys are fetched again before they are old.
ASSUME JwksAssumption ==
    /\ NoRequest \notin Requests
    /\ RefreshTTL \in Nat /\ MinRefresh \in Nat /\ FetchTimeout \in Nat
    /\ FetchTimeout < MinRefresh
    /\ MinRefresh <= RefreshTTL

\* The bounds of the model.
ASSUME JwksBounds == MaxRotations \in Nat /\ MaxOutages \in Nat

===============================================================================
