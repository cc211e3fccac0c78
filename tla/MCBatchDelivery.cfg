SPECIFICATION MCSpec
CONSTANTS
    Records = {r1, r2}
    BatchIds = {b1, b2}
    NoBatch = NoBatch
    NoJob = NoJob
    Workers = {w1, w2}
    Replayer = replay
    QueueSize = 1
    MaxAttempts = 1
    MaxStops = 1
    RedisMayFail = TRUE
    Actors = {"skinport", "waxpeer", "replay"}
    Adopts = {"skinport", "replay"}
    Windowed = {"skinport", "waxpeer"}
    Reads <- MCReads
    Loads = {"b1", "torn", "d", "n"}
    Form <- MCForm
    MovePage = 2
    ScanPage = 2
    Items = {1, 2, 3}
    Before <- MCBefore
    MaxRestarts = 1
SYMMETRY Symmetry
INVARIANTS LedgerSound Adopted
PROPERTIES NothingDropped CleanShutdown DurableRecordsSpec
