SPECIFICATION Spec
CONSTANTS
    MaxTurns = 2
    RetryMax = 1
    ContinueMax = 1
    LadderMax = 1
    LimitMax = 1
    NudgeMax = 1
    StopLimit = 1
    RestartsBeforeAnswer = 1
    BlockedBeforeAnswer = 1
    StuckActions = {"stop", "quarantine"}
    Windows = {1}
    MaxBatch = 1
    MaxQueued = 1
CHECK_DEADLOCK FALSE
INVARIANTS ResultsOwed LimitIsEarned FollowUpsAnswered
PROPERTIES ShownOnce TurnEnds
