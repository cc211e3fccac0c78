SPECIFICATION Spec
CONSTANTS
    Listings = {l1, l2}
    NoListing = nolisting
    Lowest = lowest
    Prices = {9, 10}
    Stickered = {l1, l2}
    Baselines <- MCBaselines
    NoBaseline = nobaseline
    NoEntry = noentry
    NoJob = nojob
    Fee = 2
    WindowSize = 3
    MinHistory = 2
    CacheSize = 1
    DedupWindow = 2
    Hourly = 3
    Lag = 1
    MaxTime = 4
    MaxTicks = 4
    MaxTroubles = 1
VIEW View
SYMMETRY Symmetry
INVARIANTS WindowSound  NoLossTrade
