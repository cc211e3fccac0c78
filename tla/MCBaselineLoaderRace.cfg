SPECIFICATION Spec
CONSTANTS
    Listeners = {a, b}
    MaxBuild = 2
    Bare = {}
    MaxFailures = 0
    RedisRestarts = 0
    RestartMidway = TRUE
INVARIANTS RestBacked
