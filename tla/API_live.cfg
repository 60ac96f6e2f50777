SPECIFICATION MCSpec
CONSTANTS
    Callers = {c1, c2, c3}
    FailureThreshold = 2
    OpenTimeout = 2
    MaxAttempts = 2
    Slugs = {s1}
    EventIds = {e1, e2}
    Replicas = {r1, r2}
    Lease = 2
    ProcessTimeout = 1
    RetryBaseDelay = 1
    RetryMaxDelay = 2
    BatchSize = 2
    MaxVersion = 2
    MaxTries = 2
    MaxFaults = 1
    NoBody = NoBody
    Requests = {q1, q2}
    Refreshers = {g1}
    StaleThreshold = 1
    CacheTTL = 1
    Patience = 1
    MaxEdits = 1
INVARIANTS
    TypeOK
    ProbeHasOwner
    FreshProfileIsRecent
PROPERTIES
    NoCallWhileResting
    ClosesAfterRecovery
    AckedChangeApplied
    ProfileFollows
