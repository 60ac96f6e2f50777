SPECIFICATION Spec
CONSTANTS
    Services = {v1, v2}
    Nameless = {}
    Dateless = {}
    Slugs = {a, b}
    Subthemes = {t1}
    PageSize = 1
    Syncers = {worker}
    Recorders = {}
    ListingLags = FALSE
    MaxClock = 3
    MaxFaults = 0
    None = None
SYMMETRY Symmetry
INVARIANT PublishedKept
