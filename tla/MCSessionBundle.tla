--------------------------- MODULE MCSessionBundle ---------------------------
(* Instance of SessionBundle for TLC: two processes, interchangeable. *)
EXTENDS SessionBundle
Symmetry == Permutations(Procs)
=============================================================================
