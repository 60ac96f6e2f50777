SPECIFICATION Spec
CONSTANTS
    Services = {v1}
    Nameless = {}
    Dateless = {}
    Slugs = {a, b}
    Subthemes = {t1}
    PageSize = 1
    Syncers = {worker}
    Recorders = {}
    ListingLags = TRUE
    MaxClock = 2
    MaxFaults = 0
    None = None
SYMMETRY Symmetry
INVARIANT CanonicalKept
