SPECIFICATION MCSpec
CONSTANTS
    Services = {v1, v2, v3}
    Nameless = {v3}
    Dateless = {v2}
    Slugs = {a, b}
    Subthemes = {t1, t2}
    PageSize = 1
    Syncers = {worker}
    Recorders = {}
    ListingLags = TRUE
    MaxClock = 3
    MaxFaults = 1
    None = None
    Themes = {t1, t2}
    ThemeOf <- MCThemeOf
    Attempts = {w1}
    MaxChanges = 1
SYMMETRY Symmetry
INVARIANTS
    TypeOK
    QuietFullSyncMatches
    FailedStaysDue
    QuietSyncShowsHierarchy
PROPERTY HidesOnlyEmptyThemes
