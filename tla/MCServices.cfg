SPECIFICATION MCSpec
CONSTANTS
    Channels = {"discord"}
    Alerts = {"l1", "l2", "s"}
    Key <- MCKey
    Snapshot <- MCSnapshot
    QueueSize = 1
    MaxPerWindow = 2
    Window = 2
    MaxWait = 1
    MaxAttempts = 2
    RetryAfters = {1, 2}

    Poll = 2
    Margin = 1
    MaxRetryAfter = 5
    MaxFallback = 7
    PollRetryAfters = {0, 1, 5, 6}
    MaxFaults = 3

    Callers = {"builder", "fees", "offers"}
    Interval = 1
    Second = 2
    MaxBackoff = 4
    MaxRetries = 1
    ClientRetryAfters = {0, 3}

    Trades = {"t1", "t2"}
    Models = {"m1", "m2", "m3"}
    Configs <- MCConfigs
    MaxToolRounds = 1
    AuditAttempts = 2
    ApproveAt = 70
    Scores = {69, 70}
    Waits = {0, 5}
    DefaultWait = 3
    NoTrade = "none"
    Absent <- MCAbsent
    Garbled <- MCGarbled

    Requests = {1, 2}
    Names <- MCNames
    NoVersion = "none"
    Stored <- MCStored
    IsStored <- MCIsStored
    NoMacro <- MCNoMacro
    Listed <- MCListed
    Spread <- MCSpread
    TTL = 2
    Timeout = 1
    Limit = 2
    MaxTime = 3
INVARIANTS Paced   ContextFresh
PROPERTIES Settles Returns
