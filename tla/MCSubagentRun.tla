----------------------------- MODULE MCSubagentRun -----------------------------
(* SubagentRun for TLC: calls and processes are interchangeable.         *)
EXTENDS SubagentRun, TLC

Symmetry == Permutations(Calls) \cup Permutations(Procs)
===============================================================================
