SPECIFICATION Spec
CONSTANTS
    Services = {v1}
    Nameless = {}
    Dateless = {}
    Slugs = {a}
    Subthemes = {t1}
    PageSize = 1
    Syncers = {worker}
    Recorders = {}
    ListingLags = FALSE
    MaxClock = 2
    MaxFaults = 0
    None = None
SYMMETRY Symmetry
INVARIANT StaleIsDue
