CONSTANTS
  Callers = {c1, c2}
  Entries = {e1, e2}
  MaxCalls = 2
  MaxKeeps = 2
  MaxMoves = 1
  MaxDeaths = 1
SPECIFICATION Spec
SYMMETRY Symmetry
CHECK_DEADLOCK FALSE
INVARIANTS ConnectionIsConsistent NoneStranded CloseLeavesNothing
