SPECIFICATION MCSpec
CONSTANTS
    Slugs = {s1, s2}
    EventIds = {e1, e2}
    Replicas = {r1, r2}
    Lease = 2
    ProcessTimeout = 1
    RetryBaseDelay = 1
    RetryMaxDelay = 1
    BatchSize = 2
    MaxVersion = 2
    MaxAttempts = 3
    MaxFaults = 2
    NoBody = NoBody
    Users = {t1, t2}
    Lifetimes = {1, 3, 6}
    AssumedLife = 5
    Margin = 3
    Timeout = 1
    Requests = {q1, q2}
    Kids = {k1, k2}
    NoRequest = NoRequest
    RefreshTTL = 3
    MinRefresh = 2
    FetchTimeout = 1
    MaxRotations = 2
    MaxOutages = 1
    Items = {1, 2, 3}
    FtsOrder <- MCFtsOrder
    SemOrders <- MCSemOrders
    HydeDocs <- MCHydeDocs
    ListLimit = 2
    Denominator = 3782
    PerPage = 2
    RerankTop = 1
    MaxPage = 3
SYMMETRY Symmetry
INVARIANTS
    TypeOK
    AckedChangeNotLost
    CoverInv
    AttemptsDistinct
    OnlyBatchesOverlap
    
    PagesFit
PROPERTIES
    NewestAttemptKeepsLease
    ImplementsPromise
    WithdrawnKeyExpires
    ServedKeyIsFound
    FetchesApart
