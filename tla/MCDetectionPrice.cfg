SPECIFICATION Spec
CONSTANTS
    Listings = {l1, l2}
    NoListing = nolisting
    Lowest = lowest
    Prices = {9, 10}
    Stickered = {}
    Baselines <- MCBaselines
    NoBaseline = nobaseline
    NoEntry = noentry
    NoJob = nojob
    Fee = 2
    WindowSize = 3
    MinHistory = 2
    CacheSize = 2
    DedupWindow = 2
    Hourly = 3
    Lag = 0
    MaxTime = 1
    MaxTicks = 3
    MaxTroubles = 0
INVARIANT ScoresOwnPrice
