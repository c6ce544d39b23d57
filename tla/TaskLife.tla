------------------------------ MODULE TaskLife ------------------------------
(***************************************************************************)
(* What the background tasks of a session promise to whoever lists them:   *)
(* a task runs, has one outcome that never changes, and may be forgotten   *)
(* once it is over.  Only the death of the process that owns it can take   *)
(* an outcome back, and then the task reads as orphaned until it is reaped *)
(* or forgotten.  One more thing can: a reaping of survivors that meets a  *)
(* task still at work.  Such a task is in doubt: it may read as stopped    *)
(* although it had another outcome.  TaskPool implements this.             *)
(***************************************************************************)
CONSTANT Tasks

VARIABLES
    state,   \* what a listing of the session shows for each task
    doubt,   \* the running tasks a reaping took for survivors
    up       \* the process that owns the running tasks lives

vars == <<state, doubt, up>>

Outcomes == {"succeeded", "failed", "timed_out", "stopped"}

Init ==
    /\ state = [k \in Tasks |-> "none"]
    /\ doubt = {}
    /\ up = TRUE

Become(k, s) == state' = [state EXCEPT ![k] = s]

Begin(k) == up /\ state[k] = "none" /\ Become(k, "running") /\ UNCHANGED <<doubt, up>>

End(k) ==
    /\ up /\ state[k] = "running"
    /\ \E o \in Outcomes : Become(k, o)
    /\ UNCHANGED <<doubt, up>>

Reap(k) ==
    /\ up /\ state[k] = "orphaned" /\ Become(k, "stopped")
    /\ UNCHANGED <<doubt, up>>

Mistake(k) ==
    /\ up /\ state[k] = "running"
    /\ doubt' = doubt \cup {k}
    /\ UNCHANGED <<state, up>>

\* The tasks of S are forgotten; those of R are shown from then on by the record
\* the reaping left of them.
LetGo(S, R) ==
    /\ up
    /\ \A k \in S : state[k] \in Outcomes \cup {"orphaned"}
    /\ \A k \in R : k \in doubt /\ state[k] \in Outcomes
    /\ state' = [k \in Tasks |-> IF k \in S THEN "none"
                               ELSE IF k \in R THEN "stopped" ELSE state[k]]
    /\ UNCHANGED <<doubt, up>>

\* What a death leaves of a task depends on what had reached the bundle.
Left(k) ==
    LET s == state[k]
        reaped == IF k \in doubt THEN {"stopped"} ELSE {}
    IN  CASE s = "running"    -> {"none", "orphaned"} \cup reaped
          [] s \in Outcomes   -> {s, "none", "orphaned"} \cup reaped
          [] OTHER            -> {s}

Die ==
    /\ up /\ up' = FALSE
    /\ doubt' = {}
    /\ state' \in [Tasks -> Outcomes \cup {"none", "orphaned"}]
    /\ \A k \in Tasks : state'[k] \in Left(k)

Restart == ~ up /\ up' = TRUE /\ UNCHANGED <<state, doubt>>

Next ==
    \/ \E k \in Tasks : Begin(k) \/ End(k) \/ Reap(k) \/ Mistake(k)
    \/ \E S, R \in SUBSET Tasks : LetGo(S, R)
    \/ Die \/ Restart

Spec == Init /\ [][Next]_vars
=============================================================================
