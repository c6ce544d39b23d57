--------------------------- MODULE MCTurnAdmission ---------------------------
(* Instances of TurnAdmission: turns are alike, and so are deletions. *)
EXTENDS TurnAdmission, TLC

MCSymmetry == Permutations(Turns) \cup Permutations(Deleters)

\* What a turn that is over resolved, and whether it was cancelled, matters to
\* nobody once its poll has ended; stopped is looked at by StopIsHeard only.
MCAlive == {t \in Turns : pc[t] # "over" \/ poll[t] # "none"}
MCView == <<sessionVars, diskVars, pc, owes, del, req, stop, stops, balance,
            [t \in MCAlive |-> <<state[t], poll[t]>>],
            [s \in States |-> cancel[s] \cap MCAlive], cancelled \cap MCAlive>>
=============================================================================
