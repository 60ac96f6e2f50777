SPECIFICATION Spec
CONSTANTS
    Callers = {c1, c2, c3}
    FailureThreshold = 1
    OpenTimeout = 1
    MaxAttempts = 1
INVARIANT SingleProbe
