SPECIFICATION MCSpec
CONSTANTS
    Listings = {"l1", "l2"}
    Lowest = "lowest"
    Prices = {1, 2}
    Scores <- MCScores
    NoScore = noScore
    Rules = {r}
    NoRule = noRule
    LiveZ <- MCLiveZ
    LiveSavings = 2
    StickerZ <- MCStickerZ
    PollGap = 1
    WarmupStart = 1
    LogStart = 2
    LogEnd = 5
    MaxLogged = 3
    LabelRows <- MCLabels
    NoLabel = noLabel
    AsOf = 13
    Horizon = 10
    TradableFrom = 2
    Day = 2
    SliceDays = 2
    SweepZ <- MCSweepZ
    SweepSavings = {1, 2}
    MinSample = 1
    Cases <- MCCases
    Variants <- MCVariants
    Concurrency = 2
    MaxToolRounds = 2
    MaxRetries = 2
    Unit = 10
    Verdicts = {2, 5, 10}
    Failed <- MCFailed
    Thresholds = {3, 6}
    Bins = 5
    SalesSpan = 2
    ListingsSpan = 1
    LastMoment = 3
    MaxRuns = 2
    Keys = {"a", "b"}
    Inputs <- MCInputs
    RateWindow = 2
    LastTick = 5
    MaxRows = 4
CHECK_DEADLOCK FALSE
INVARIANTS BuildInEffect TradesArePurchases  ReportExact SeesWhatWasKnown PaidOnce FoldsSound 
