\* Two attempters in two processes and one prober, fair scheduling.
SPECIFICATION FairSpec
CONSTANTS
    Attempters <- MCAttempters2
    ProcOf <- MCProcOf2
    Hidden <- MCHidden
    Probers = {q1}
    Inodes <- MCInodes3
    a1 = a1
    a2 = a2
    a3 = a3
    p1 = p1
    p2 = p2
    i1 = i1
    i2 = i2
    i3 = i3
    i4 = i4
    Processes <- MCProcesses
    NoFile = NoFile
    Nobody = Nobody
    Blank = Blank
    MaxAttempts = 3
CHECK_DEADLOCK FALSE
INVARIANTS ExclusiveUntilStrayed
PROPERTY AcquisitionEnds
