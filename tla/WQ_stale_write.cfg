SPECIFICATION Spec
CONSTANTS
    Slugs = {s1}
    EventIds = {e1, e2}
    Replicas = {r1}
    Lease = 2
    ProcessTimeout = 1
    RetryBaseDelay = 1
    RetryMaxDelay = 2
    BatchSize = 1
    MaxVersion = 2
    MaxAttempts = 1
    MaxFaults = 0
    NoBody = NoBody
SYMMETRY Symmetry
INVARIANT CatalogConverges
