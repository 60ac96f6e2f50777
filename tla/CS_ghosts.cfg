SPECIFICATION FairSpec
CONSTANTS
    Services = {v1}
    Nameless = {}
    Dateless = {}
    Slugs = {a, b}
    Subthemes = {t1}
    PageSize = 1
    Syncers = {worker}
    Recorders = {w1}
    ListingLags = TRUE
    MaxClock = 3
    MaxFaults = 1
    None = None
INVARIANT QuietFullSyncMatches
PROPERTY GhostsRemoved
