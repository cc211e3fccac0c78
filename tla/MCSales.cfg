SPECIFICATION MCSpec
CONSTANTS
    Titles = {t1, t2}
    Kinds = {"offer", "unusable"}
    Unusable = "unusable"
    History = 2
    Lag = 0
    MaxTime = 3
    MaxSales = 3
    PageSize = 1
    MaxPages = 4
    Concurrent = 1
    MaxAge = 2
    Interval = 2
    SalesWhilePaging = FALSE
    MaxTroubles = 1
    Traded = "t"
    TradedKinds <- MCKinds
    NoSale <- MCNoSale
    LabelHistory = 9
    LabelLag = 1
    LabelTime = 6
    LabelSales = 2
    Configs <- MCConfigs
    Listings <- MCListings
    Item <- MCItem
    Price <- MCPrice
    Skew = 1
    Window = 1
    MaxSightings = 2
    LastSighting = 1
    LastSale = 4
    BuildTimes = {0, 5}
    ReadAlone = TRUE
    None <- MCNone
SYMMETRY Symmetry
  
PROPERTIES SalesStoreSpec 
CHECK_DEADLOCK FALSE
