CONSTANTS
  Calls = {r1, r2, r3}
  Dels = {d1}
  Procs = {p1, p2}
  MaxRuns = 2
  NoCall = NoCall
  NoProc = NoProc
SPECIFICATION Spec
SYMMETRY Symmetry
CHECK_DEADLOCK FALSE
INVARIANT ChildIsConsistent
PROPERTIES KeptWithinProcess DeletedStaysGone
