\* Two tasks under a limit of one, kills that may fail, a crash and a restart, a shutdown, history cleared in between.
SPECIFICATION Spec
CONSTANTS
    MaxId = 2
    System = {}
    Limited = {}
    MaxDeaths = 1
    MaxConcurrent = 1
    Reapable = {1}
    KillMayFail = TRUE
VIEW safetyView
CHECK_DEADLOCK FALSE
INVARIANT PoolIsConsistent
PROPERTIES HistoryIsKept ImplementsLife
