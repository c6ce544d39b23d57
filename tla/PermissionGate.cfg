CONSTANTS
  Procs = {p1, p2}
  Batch = 2
  Posts = {a1, a2, a3}
  MaxPrompts = 1
  MaxStops = 1
  MaxRepeats = 1
  MaxCrashes = 2
SYMMETRY Symmetry
SPECIFICATION Spec
CHECK_DEADLOCK FALSE
INVARIANTS OneOutcome RunsOnce BatchIsWhole
