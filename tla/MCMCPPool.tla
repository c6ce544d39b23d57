------------------------------- MODULE MCMCPPool -------------------------------
(* MCPPool for TLC: callers are interchangeable, and so are the starts.  *)
EXTENDS MCPPool, TLC

Symmetry == Permutations(Callers) \cup Permutations(Entries)
===============================================================================
