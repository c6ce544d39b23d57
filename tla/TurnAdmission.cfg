\* Two turns, two deletions, a route that loads and saves, a Stop, and a surface
\* that lets go of the session.  Turns and deletions are used up, so the system stops.
SPECIFICATION Spec
CONSTANTS
    Turns = {t1, t2}
    Deleters = {d1,d2}
    Requests = {r1}
    MaxStates = 2
    MaxStops = 1
    Forgetful = TRUE
VIEW MCView
SYMMETRY MCSymmetry
CHECK_DEADLOCK FALSE
INVARIANTS EdgesBalance StopIsNotSwallowed
PROPERTY NoTurnPastRemoval
