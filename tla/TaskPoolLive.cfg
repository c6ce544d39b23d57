\* A task of the runtime with a deadline, fair scheduling, kills that succeed, a crash and a restart.
SPECIFICATION FairSpec
CONSTANTS
    MaxId = 1
    System = {1}
    Limited = {1}
    MaxDeaths = 1
    MaxConcurrent = 1
    Reapable = {1}
    KillMayFail = FALSE
CHECK_DEADLOCK FALSE
INVARIANT NothingLeftRunning
PROPERTIES StopsEnd DeadlineEnds
