SPECIFICATION Spec
CONSTANTS
    Requests = {q1}
    Items = {1, 2, 3}
    FtsOrder <- TiedFtsOrder
    SemOrders <- TiedSemOrders
    HydeDocs = {}
    ListLimit = 2
    Denominator = 3782
    PerPage = 1
    RerankTop = 1
    MaxPage = 3
INVARIANTS
    PagesAlwaysFit
