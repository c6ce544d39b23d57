CONSTANTS
  Procs = {p1, p2}
  MaxMsgs = 2
  MaxTurns = 1
  MaxTouches = 1
  MaxRewinds = 1
  MaxFaults = 1
  MaxCrashes = 1
SPECIFICATION BundleSpec
SYMMETRY Symmetry
CHECK_DEADLOCK FALSE
INVARIANT BundleIsConsistent
PROPERTIES SavesGoForward TurnSeesAll
