----------------------------- MODULE ProfileConfig ------------------------------
(***************************************************************************)
(* The constants of CitizenProfile and what is assumed of them.             *)
(***************************************************************************)
EXTENDS Naturals

CONSTANTS
    Requests,       \* requests for recommendations at a time
    Refreshers,     \* goroutines of GetOrSync at a time
    StaleThreshold, \* staleThreshold
    CacheTTL,       \* authTTL
    Patience,       \* bounds the time from app-rmi's reading to the end of the upsert
    MaxEdits        \* bounds the changes at app-rmi

\* The durations are an hour, five minutes and that of a request and its retries.
ASSUME ProfileAssumption ==
    /\ StaleThreshold \in Nat
    /\ CacheTTL \in Nat
    /\ Patience \in Nat
    /\ MaxEdits \in Nat

===============================================================================
