SPECIFICATION Spec
CONSTANTS
    Titles = {t1}
    Kinds = {"offer"}
    Unusable = "unusable"
    History = 2
    Lag = 0
    MaxTime = 1
    MaxSales = 2
    PageSize = 1
    MaxPages = 4
    Concurrent = 1
    MaxAge = 2
    Interval = 2
    SalesWhilePaging = TRUE
    MaxTroubles = 0
INVARIANT StoredOnce
CHECK_DEADLOCK FALSE
