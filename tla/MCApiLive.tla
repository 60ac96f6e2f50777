--------------------------------- MODULE MCApiLive --------------------------------
(***************************************************************************)
(* The parts of an API process that owe something in the end: the circuit   *)
(* breaker, the webhook queue and the citizen's profile.  They share no     *)
(* state, so a behaviour is about one of them.                              *)
(***************************************************************************)
EXTENDS CircuitBreaker, ProfileConfig

CONSTANTS
    Slugs, EventIds, Replicas, Lease, ProcessTimeout, RetryBaseDelay, RetryMaxDelay, BatchSize,
    MaxVersion, MaxTries, \* the queue's MaxAttempts
    MaxFaults, NoBody

VARIABLES
    focus,
    remote, catalog, sent, status, body, attempts, wait, tasks, faults, acked, written,
    citizen, edits, row, answers, task, profileFaults, outdated

Queue   == INSTANCE WebhookQueue WITH MaxAttempts <- MaxTries
Profile == INSTANCE CitizenProfile WITH faults <- profileFaults

queueVars   == <<remote, catalog, sent, status, body, attempts, wait, tasks, faults, acked, written>>
profileVars == <<citizen, edits, row, answers, task, profileFaults, outdated>>
mcVars      == <<focus, vars, queueVars, profileVars>>

MCInit ==
    /\ focus \in {"breaker", "webhooks", "profile"}
    /\ Init /\ Queue!Init /\ Profile!Init

OnBreaker(A) == focus = "breaker" /\ A /\ UNCHANGED <<focus, queueVars, profileVars>>
OnQueue(A)   == focus = "webhooks" /\ A /\ UNCHANGED <<focus, vars, profileVars>>
OnProfile(A) == focus = "profile" /\ A /\ UNCHANGED <<focus, vars, queueVars>>

MCNext ==
    \/ OnBreaker(Next)
    \/ OnQueue(Queue!Next)
    \/ OnProfile(Profile!Next)

\* The fairness of each part.
MCSpec ==
    /\ MCInit /\ [][MCNext]_mcVars
    /\ WF_mcVars(OnBreaker(Tick))
    /\ \A c \in Callers :
        /\ WF_mcVars(OnBreaker(Start(c)))
        /\ SF_mcVars(OnBreaker(Answered(c)))
        /\ WF_mcVars(OnBreaker(Retry(c)))
    /\ WF_mcVars(OnQueue(Queue!Tick))
    /\ \A e \in EventIds : SF_mcVars(OnQueue(Queue!ClaimOf(e)))
    /\ \A e \in EventIds, n \in 1 .. MaxTries : WF_mcVars(OnQueue(Queue!AttemptStep(e, n)))
    /\ WF_mcVars(OnProfile(Profile!Tick))
    /\ \A r \in Requests : WF_mcVars(OnProfile(Profile!GetOrSync(r)))
    /\ \A w \in Profile!Workers : WF_mcVars(OnProfile(Profile!TaskStep(w)))

-----------------------------------------------------------------------------
\* WebhookQueue: every acknowledged change reaches the catalogue.
AckedChangeApplied == focus = "webhooks" => Queue!AckedChangeApplied

\* CitizenProfile: a profile that is not stale was app-rmi's a short time ago.
FreshProfileIsRecent == Profile!FreshProfileIsRecent

\* CitizenProfile: row and cached recommendations come to be of app-rmi's data.
ProfileFollows == focus = "profile" => Profile!ProfileFollows

===============================================================================
