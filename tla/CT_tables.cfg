SPECIFICATION MCSpec
CONSTANTS
    Slugs = {a, b, c}
    Writers = {w1, w2}
    MaxJobs = 2
    MaxHistory = 1
    MaxFaults = 1
    None = None
    Highlights = {h1, h2}
    Blank = Blank
    Positions = {1, 2}
    MaxEntries = 3
    HomeSyncs = {p1, p2}
    MaxSnapshots = 3
SYMMETRY Symmetry
INVARIANTS
    TypeOK
    NoRedirectCycle
    AliasesWritten
    HomeIsWhole
PROPERTY NoSlugLost
