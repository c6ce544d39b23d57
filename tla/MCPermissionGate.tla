--------------------------- MODULE MCPermissionGate ---------------------------
EXTENDS PermissionGate, TLC

Symmetry == Permutations(Procs) \cup Permutations(Posts)
==============================================================================
