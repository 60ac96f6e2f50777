---------------------------- MODULE CircuitBreaker ----------------------------
(***************************************************************************)
(* The circuit breaker and the retry loop that the HTTP clients (RMI,      *)
(* app-go-api) share: resilientCaller.do run by concurrent callers against *)
(* one circuitBreaker.  Each callback of the breaker holds its mutex, so a *)
(* result and its callback are one step; the call itself is open to every  *)
(* interleaving, results of calls admitted long before included.           *)
(***************************************************************************)
EXTENDS Naturals, FiniteSets

CONSTANTS
    Callers,           \* concurrent goroutines inside do
    FailureThreshold,  \* ResilienceConfig.FailureThreshold
    OpenTimeout,       \* ResilienceConfig.OpenTimeout, in ticks
    MaxAttempts        \* ResilienceConfig.MaxAttempts

\* What newCircuitBreaker and newResilientCaller enforce.
ASSUME BreakerAssumption ==
    /\ FailureThreshold \in Nat \ {0}
    /\ OpenTimeout \in Nat
    /\ MaxAttempts \in Nat \ {0}

VARIABLES
    state,          \* "closed", "open" or "halfOpen"
    failures,       \* consecutive transient failures counted
    rest,           \* openedAt: ticks left of OpenTimeout
    probeInFlight,  \* the half-open test call has been let through
    pc,             \* where each caller is in do
    attempt,        \* the attempt each caller is at
    probe,          \* history: the call of c was admitted by a half-open breaker
    up              \* the service has recovered for good

breaker == <<state, failures, rest, probeInFlight>>
callers == <<pc, attempt, probe>>
vars    == <<breaker, callers, up>>

TypeOK ==
    /\ state \in {"closed", "open", "halfOpen"}
    /\ failures \in Nat
    /\ rest \in 0 .. OpenTimeout
    /\ probeInFlight \in BOOLEAN
    /\ pc \in [Callers -> {"idle", "call", "backoff"}]
    /\ attempt \in [Callers -> 1 .. MaxAttempts]
    /\ probe \in [Callers -> BOOLEAN]
    /\ up \in BOOLEAN

Init ==
    /\ state = "closed"
    /\ failures = 0
    /\ rest = 0
    /\ probeInFlight = FALSE
    /\ pc = [c \in Callers |-> "idle"]
    /\ attempt = [c \in Callers |-> 1]
    /\ probe = [c \in Callers |-> FALSE]
    /\ up = FALSE

-----------------------------------------------------------------------------
(* The breaker's callbacks.                                                *)

Refuses == (state = "open" /\ rest > 0) \/ (state = "halfOpen" /\ probeInFlight)

\* Mutant of Admits: an open breaker tests the service before its timeout.
AdmitsEarly ==
    \/ /\ state = "closed"
       /\ UNCHANGED breaker
    \/ /\ state = "open" \/ (state = "halfOpen" /\ ~probeInFlight)
       /\ state' = "halfOpen"
       /\ probeInFlight' = TRUE
       /\ UNCHANGED <<failures, rest>>

\* allow, when it returns nil: a closed breaker lets every call through, an open
\* one past its timeout turns half-open, and a half-open one takes a test call.
Admits ==
    \/ /\ state = "closed"
       /\ UNCHANGED breaker
    \/ /\ \/ state = "open" /\ rest = 0
          \/ state = "halfOpen" /\ ~probeInFlight
       /\ state' = "halfOpen"
       /\ probeInFlight' = TRUE
       /\ UNCHANGED <<failures, rest>>

openLocked ==
    /\ state' = "open"
    /\ failures' = 0
    /\ rest' = OpenTimeout

onSuccess ==
    /\ state' = "closed"
    /\ failures' = 0
    /\ probeInFlight' = FALSE
    /\ UNCHANGED rest

\* Outside half-open a failure only counts, also while the breaker is open.
onFailure ==
    /\ probeInFlight' = FALSE
    /\ IF state = "halfOpen" \/ failures + 1 >= FailureThreshold
       THEN openLocked
       ELSE failures' = failures + 1 /\ UNCHANGED <<state, rest>>

\* Mutant of onAbandon: the test call is not released.
AbandonKeepsProbe == UNCHANGED breaker

onAbandon ==
    /\ probeInFlight' = FALSE
    /\ UNCHANGED <<state, failures, rest>>

-----------------------------------------------------------------------------
(* resilientCaller.do.                                                     *)

\* Caller c asks the breaker for its n-th attempt.
Try(c, n) ==
    \/ /\ Admits
       /\ pc' = [pc EXCEPT ![c] = "call"]
       /\ attempt' = [attempt EXCEPT ![c] = n]
       /\ probe' = [probe EXCEPT ![c] = state # "closed"]
       /\ UNCHANGED up
    \/ /\ Refuses
       /\ pc' = [pc EXCEPT ![c] = "idle"]
       /\ UNCHANGED <<breaker, attempt, probe, up>>

Start(c) == pc[c] = "idle" /\ Try(c, 1)

\* The wait between attempts ends by its timer.
Retry(c) == pc[c] = "backoff" /\ Try(c, attempt[c] + 1)

Return(c) == pc' = [pc EXCEPT ![c] = "idle"] /\ UNCHANGED <<attempt, probe, up>>

\* The call's context ends during the wait: do returns the last error.
GiveUp(c) ==
    /\ pc[c] = "backoff"
    /\ Return(c)
    /\ UNCHANGED breaker

\* The service answers, with a 4xx or an invalid answer too.
Answered(c) ==
    /\ pc[c] = "call"
    /\ onSuccess
    /\ Return(c)

\* The caller's own context was cancelled.
Cancelled(c) ==
    /\ pc[c] = "call"
    /\ onAbandon
    /\ Return(c)

\* The deadline of the caller, or MaxElapsed, ends during the call.
TimedOut(c) ==
    /\ ~up
    /\ pc[c] = "call"
    /\ onFailure
    /\ Return(c)

\* Mutant of LastAttempt: one attempt too many.
OneMoreAttempt(c) == attempt[c] > MaxAttempts

LastAttempt(c) == attempt[c] >= MaxAttempts

\* A transient failure: 5xx, 429 or the transport.
Failed(c) ==
    /\ ~up
    /\ pc[c] = "call"
    /\ onFailure
    /\ IF LastAttempt(c)
       THEN Return(c)
       ELSE pc' = [pc EXCEPT ![c] = "backoff"] /\ UNCHANGED <<attempt, probe, up>>

Tick ==
    /\ rest > 0
    /\ rest' = rest - 1
    /\ UNCHANGED <<state, failures, probeInFlight, callers, up>>

\* From here on the service answers every call.
Recover ==
    /\ ~up
    /\ up' = TRUE
    /\ UNCHANGED <<breaker, callers>>

Next ==
    \/ \E c \in Callers :
        \/ Start(c) \/ Retry(c) \/ GiveUp(c)
        \/ Answered(c) \/ Cancelled(c) \/ TimedOut(c) \/ Failed(c)
    \/ Tick
    \/ Recover

Spec == Init /\ [][Next]_vars

\* Callers keep calling, time passes, and a call that is not cancelled ends.
Fairness ==
    /\ WF_vars(Tick)
    /\ \A c \in Callers : WF_vars(Start(c)) /\ SF_vars(Answered(c)) /\ WF_vars(Retry(c))

FairSpec == Spec /\ Fairness

-----------------------------------------------------------------------------
(* Properties.                                                             *)

InCall(c) == pc[c] = "call"

\* The half-open breaker never locks everybody out: while it refuses because of a
\* test call, that call is still running and its end will clear the flag, however
\* it ends and whatever late results of older calls arrive meanwhile.
ProbeHasOwner ==
    probeInFlight => state = "halfOpen" /\ \E c \in Callers : InCall(c) /\ probe[c]

\* Late failures, counted even while the breaker is open, never leave the counter
\* at the threshold: the next failure is what opens the circuit.
FailuresBelowThreshold == failures < FailureThreshold

\* While the circuit is open and resting no call, new or retried, goes through.
NoCallWhileResting ==
    [][(state = "open" /\ rest > 0) =>
         \A c \in Callers : pc'[c] = "call" => pc[c] = "call"]_vars

\* Once the service is back, the circuit closes and stays closed.
ClosesAfterRecovery == up ~> [](state = "closed")

\* "Meio-aberto: uma unica chamada de teste passa".
SingleProbe ==
    state = "halfOpen" =>
        \A c, d \in Callers : (InCall(c) /\ probe[c] /\ InCall(d) /\ probe[d]) => c = d

===============================================================================
