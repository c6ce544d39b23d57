----------------------------- MODULE MCTurnLock -----------------------------
(* Instances of TurnLock: attempters a1 and a2 share a process, a3 has its own. *)
EXTENDS TurnLock, TLC

CONSTANTS a1, a2, a3, p1, p2, i1, i2, i3, i4

MCAttempters2 == {a1, a3}
MCAttempters3 == {a1, a2, a3}
MCProcesses == {p1, p2}
MCHidden == {<<p1, p2>>}
MCInodes3 == {i1, i2, i3}
MCInodes4 == {i1, i2, i3, i4}
MCInodeSymmetry == Permutations(MCInodes4)
MCProcOf2 == a1 :> p1 @@ a3 :> p2
MCProcOf3 == a1 :> p1 @@ a2 :> p1 @@ a3 :> p2
=============================================================================
