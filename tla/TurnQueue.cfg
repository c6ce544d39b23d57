SPECIFICATION QueueSpec
CONSTANTS
    Clients = {c1}
    MaxId = 3
    QueueCap = 2
    MaxFollowUps = 1
    MaxAfterTurns = 1
    MaxTurns = 2
    MaxVersion = 4
    MaxFrames = 2
CHECK_DEADLOCK FALSE
INVARIANTS QueueIsConsistent SteerNotStranded ClientConverges
PROPERTY NeverDropsDeferred
