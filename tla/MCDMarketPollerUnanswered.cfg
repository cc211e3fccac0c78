SPECIFICATION Spec
CONSTANTS
    MaxTime = 6
    Worthy = {1, 2, 4, 5, 6}
    PageSize = 2
    LiveMaxPages = 2
    LiveOverlap = 1
    ResumeOverlap = 3
    MaxPollTime = 1
    MaxCatchUp = 4
    MaxFailures = 0
    MaxCrashes = 1
    Unanswered = 1
INVARIANT Coverage
