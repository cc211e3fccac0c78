SPECIFICATION MCSpec
CONSTANTS
    Listeners = {"skinport"}
    MaxBuild = 3
    Bare = {2}
    MaxFailures = 2
    RedisRestarts = 1
    RestartMidway = FALSE
    Listings = {"a", "b"}
    MaxPrice = 3
    Prepared = 2
    Limit <- MCLimit
    MaxTracked = 1
    MaxEvents = 2
    MaxChanges = 3
    MaxDrops = 1
    MaxCrashes = 1
    Interval = 2
    PingTimeout = 2
    DefaultTimeout = 6
    FirstDelay = 1
    MaxDelay = 3
    Latency = 1
    MaxHold = 3
    MaxFrames = 2
    MaxFaults = 2
    MaxTime = 5
    Worthy = {1, 2, 4, 5}
    PageSize = 2
    LiveMaxPages = 2
    LiveOverlap = 1
    ResumeOverlap = 3
    MaxPollTime = 2
    MaxCatchUp = 4
    MaxMishaps = 1
    MaxOutages = 1
INVARIANTS EdgeFresh MarketRecorded  SessionsSound
PROPERTIES  RawHandedOn FeedsRecover
