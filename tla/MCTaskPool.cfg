SPECIFICATION MCSpec
CONSTANTS
    Workers = {w1, w2}
    Jobs = {j1, j2, j3, j4, j5}
    Stop = Stop
    NoJob = NoJob
    QueueSize = 2
    SubmittersEndFirst = TRUE
INVARIANTS UnfinishedExact CloseDrains
PROPERTIES CloseEnds DeliverySettles
