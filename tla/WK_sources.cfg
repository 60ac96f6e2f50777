SPECIFICATION MCSpec
CONSTANTS
    Courses = {c1, c2}
    Jobs = {j1}
    Kinds <- MCKinds
    Items <- MCItems
    KindOf <- MCKindOf
    PageSize = 1
    Worker = worker
    Manual = {manual}
    MaxAttempts = 2
    MaxChanges = 1
    MaxFaults = 1
    MoreFaults = 2
    Docs = {d1, d2}
    MaxTime = 2
    MaxEdits = 2
    Entries = {i1, i2, i3, i4}
    Refused = {i1, i2}
    PassSize = 3
    ChunkSize = 2
    MaxWrites = 2
INVARIANTS
    TypeOK
    ItemsTypeOK
    NothingForgotten
    OwnVector
PROPERTIES
    OfferedIsKept
    CatalogFollowsItems
    PublishedIsKept
    CatalogFollowsDocs
    Backfilled
