-------------------------- MODULE BackgroundWaker --------------------------
(***************************************************************************)
(* How finished background tasks of one session become agent turns         *)
(* (internal/agent/background_notify.go): the pool's watcher queues an     *)
(* outcome, a drain goroutine turns what is queued into one turn, and      *)
(* waits out a session whose turn lock somebody else holds.  The pool is   *)
(* seen through WakePending and its draining flag, the turn through the    *)
(* lock it takes and the moment it marks its tasks (MarkWokeAgent).        *)
(*                                                                         *)
(* Tasks are the notify_on_finish tasks of the session, each of which      *)
(* finishes at most once; the waker's maps are keyed by session, so other  *)
(* sessions change nothing here.                                           *)
(***************************************************************************)
EXTENDS Naturals, FiniteSets

CONSTANTS
    Tasks,      \* tasks started with notify_on_finish
    MaxWakes    \* maxWakesPerSession

ASSUME TasksAssumption == IsFiniteSet(Tasks)
ASSUME MaxWakesAssumption == MaxWakes \in Nat

VARIABLES
    running,    \* tasks that have not finished
    unheard,    \* finished tasks whose watchers have not been called
    collected,  \* task.resultAcknowledged
    woke,       \* Snapshot.WokeAgent
    forgotten,  \* finished tasks the pool has let go of
    shutdown,   \* Pool.draining
    pending,    \* BackgroundWaker.pending of the session
    draining,   \* BackgroundWaker.draining of the session
    wakes,      \* BackgroundWaker.wakes of the session
    pc,         \* where the drain goroutine stands
    batch,      \* the tasks of the turn it is starting
    late,       \* the deadline of startTurn has passed
    turn,       \* who holds the session's turn lock
    begun,      \* history: woken turns that reached the model
    clean,      \* history: woken turns that ended without an error
    dropped,    \* history: tasks of the batches that were given up
    skipped,    \* history: tasks of the batches taken for woken, with no turn run
    unpaid,     \* history: how many such batches there were
    gaveUp      \* history: the last drain ended by giving up

poolVars == <<running, unheard, collected, woke, forgotten, shutdown>>
skips == <<skipped, unpaid>>
history == <<begun, clean, dropped, skips, gaveUp>>
vars == <<poolVars, pending, draining, wakes, pc, batch, late, turn, history>>

Reserved == {"attempt", "absorb", "filter", "run", "running"}

TypeOK ==
    /\ running \subseteq Tasks
    /\ unheard \subseteq Tasks
    /\ collected \subseteq Tasks
    /\ woke \subseteq Tasks
    /\ forgotten \subseteq Tasks
    /\ shutdown \in BOOLEAN
    /\ pending \subseteq Tasks
    /\ draining \in BOOLEAN
    /\ wakes \in 0 .. MaxWakes
    /\ pc \in Reserved \cup {"none", "settle"}
    /\ batch \subseteq Tasks
    /\ late \in BOOLEAN
    /\ turn \in {"free", "user", "waking", "woken"}
    /\ begun \in Nat /\ clean \in Nat
    /\ dropped \subseteq Tasks
    /\ skipped \subseteq Tasks
    /\ unpaid \in Nat
    /\ gaveUp \in BOOLEAN

Init ==
    /\ running = Tasks
    /\ unheard = {} /\ collected = {} /\ woke = {} /\ forgotten = {}
    /\ shutdown = FALSE
    /\ pending = {}
    /\ draining = FALSE
    /\ wakes = 0
    /\ pc = "none"
    /\ batch = {}
    /\ late = FALSE
    /\ turn = "free"
    /\ begun = 0 /\ clean = 0
    /\ dropped = {}
    /\ skipped = {} /\ unpaid = 0
    /\ gaveUp = FALSE

-----------------------------------------------------------------------------
(* Vocabulary *)

WakePending(t) ==
    t \notin running \cup collected \cup woke \cup forgotten

\* refundWake: the budget reserved for a turn that did not run comes back.
Refund == wakes' = IF wakes > 0 THEN wakes - 1 ELSE wakes

\* end: the goroutine returns and clears its flag in the same critical section.
End ==
    /\ pc' = "none"
    /\ draining' = FALSE
    /\ batch' = {}

\* startTurn reports FALSE: drain ends, whatever has been queued meanwhile.
GiveUp ==
    /\ Refund
    /\ End
    /\ dropped' = dropped \cup batch
    /\ gaveUp' = TRUE

-----------------------------------------------------------------------------
(* The pool *)

Finish(t) ==
    /\ t \in running
    /\ running' = running \ {t}
    /\ unheard' = unheard \cup {t}
    /\ UNCHANGED <<collected, woke, forgotten, shutdown, pending, draining, wakes,
                   pc, batch, late, turn, history>>

OnSnapshot(t) ==
    /\ t \in unheard
    /\ unheard' = unheard \ {t}
    /\ pending' = pending \cup {t}
    /\ draining' = TRUE
    /\ pc' = IF draining THEN pc ELSE "settle"
    /\ gaveUp' = (draining /\ gaveUp)
    /\ UNCHANGED <<running, collected, woke, forgotten, shutdown, wakes, batch, late,
                   turn, begun, clean, dropped, skips>>

\* background_output, background_wait and background_stop hand the result to
\* the model of the turn that is running (AcknowledgeResult).
Collect(t) ==
    /\ turn \in {"user", "woken"}
    /\ t \notin running \cup forgotten
    /\ collected' = collected \cup {t}
    /\ UNCHANGED <<running, unheard, woke, forgotten, shutdown, pending, draining,
                   wakes, pc, batch, late, turn, history>>

\* The operator clears the session's finished tasks.
Forget(t) ==
    /\ t \notin running
    /\ forgotten' = forgotten \cup {t}
    /\ UNCHANGED <<running, unheard, collected, woke, shutdown, pending, draining,
                   wakes, pc, batch, late, turn, history>>

SetDraining ==
    /\ shutdown' = ~ shutdown
    /\ UNCHANGED <<running, unheard, collected, woke, forgotten, pending, draining,
                   wakes, pc, batch, late, turn, history>>

-----------------------------------------------------------------------------
(* drain *)

\* The settle delay is over: take what is queued, or end when nothing is.
TakeBatch ==
    /\ pc = "settle"
    /\ pending' = {}
    /\ \/ pending = {} /\ End /\ UNCHANGED <<wakes, dropped>>
       \/ /\ pending # {} /\ wakes >= MaxWakes
          /\ End
          /\ dropped' = dropped \cup pending
          /\ UNCHANGED wakes
       \/ /\ pending # {} /\ wakes < MaxWakes
          /\ wakes' = wakes + 1
          /\ batch' = pending
          /\ pc' = "attempt"
          /\ UNCHANGED <<draining, dropped>>
    /\ late' = FALSE
    /\ UNCHANGED <<poolVars, turn, begun, clean, skips, gaveUp>>

\* startTurn: a process that is going away wakes nobody.
CheckDraining ==
    /\ pc = "attempt"
    /\ IF shutdown
         THEN GiveUp
         ELSE /\ pc' = "absorb"
              /\ UNCHANGED <<wakes, draining, batch, dropped, gaveUp>>
    /\ UNCHANGED <<poolVars, pending, late, turn, begun, clean, skips>>

\* Mutant: what landed during the wait replaces the batch instead of joining it.
AbsorbInstead ==
    /\ pc = "absorb"
    /\ pc' = "filter"
    /\ batch' = IF pending = {} THEN batch ELSE pending
    /\ pending' = {}
    /\ UNCHANGED <<poolVars, draining, wakes, late, turn, history>>

AbsorbPending ==
    /\ pc = "absorb"
    /\ pc' = "filter"
    /\ batch' = batch \cup pending
    /\ pending' = {}
    /\ UNCHANGED <<poolVars, draining, wakes, late, turn, history>>

UnclaimedResults ==
    /\ pc = "filter"
    /\ batch' = {t \in batch : WakePending(t)}
    /\ IF batch' = {}
         THEN Refund /\ pc' = "settle"
         ELSE pc' = "run" /\ UNCHANGED wakes
    /\ UNCHANGED <<poolVars, pending, draining, late, turn, history>>

\* Mutant: the deadline of the wait is never looked at.
RunBusyForever ==
    /\ pc = "run"
    /\ pc' = "attempt"
    /\ UNCHANGED <<poolVars, pending, draining, wakes, batch, late, turn, history>>

\* ErrSessionTurnBusy: try again after a delay, unless the wait was too long.
\* The lock may be free: a surface that shows another session answers it too.
RunBusy ==
    /\ pc = "run"
    /\ IF late
         THEN GiveUp
         ELSE /\ pc' = "attempt"
              /\ UNCHANGED <<wakes, draining, batch, dropped, gaveUp>>
    /\ UNCHANGED <<poolVars, pending, late, turn, begun, clean, skips>>

RunBegins ==
    /\ pc = "run"
    /\ turn = "free"
    /\ turn' = "waking"
    /\ pc' = "running"
    /\ UNCHANGED <<poolVars, pending, draining, wakes, batch, late, history>>

\* Any other error ends the attempt: before the turn, or out of it.
RunFails ==
    /\ pc \in {"run", "running"}
    /\ GiveUp
    /\ turn' = IF pc = "running" THEN "free" ELSE turn
    /\ UNCHANGED <<poolVars, pending, late, begun, clean, skips>>

\* Mutant: the loop ends after one turn and never looks at the queue again.
RunReturnsOnce ==
    /\ pc = "running" /\ turn = "woken"
    /\ turn' = "free"
    /\ End
    /\ clean' = clean + 1
    /\ UNCHANGED <<poolVars, pending, wakes, late, begun, dropped, skips, gaveUp>>

RunReturns ==
    /\ pc = "running" /\ turn = "woken"
    /\ turn' = "free"
    /\ pc' = "settle"
    /\ batch' = {}
    /\ clean' = clean + 1
    /\ UNCHANGED <<poolVars, pending, draining, wakes, late, begun, dropped, skips, gaveUp>>

\* The process began to go away after CheckDraining: the surface that runs the
\* turn, or the runtime without one, returns nil and runs none.  The loop takes
\* that for a turn that ended well, so nothing is refunded and nothing dropped.
RunSkips ==
    /\ pc = "run" /\ shutdown
    /\ pc' = "settle"
    /\ batch' = {}
    /\ skipped' = skipped \cup batch
    /\ unpaid' = unpaid + 1
    /\ UNCHANGED <<poolVars, pending, draining, wakes, late, turn, begun, clean, dropped, gaveUp>>

DeadlinePasses ==
    /\ pc \in Reserved /\ ~ late
    /\ late' = TRUE
    /\ UNCHANGED <<poolVars, pending, draining, wakes, pc, batch, turn, history>>

-----------------------------------------------------------------------------
(* Turns *)

\* The woken turn opens: its tasks are marked before the model reads anything.
MarkWokeTasks ==
    /\ turn = "waking"
    /\ turn' = "woken"
    /\ woke' = woke \cup (batch \ forgotten)
    /\ begun' = begun + 1
    /\ UNCHANGED <<running, unheard, collected, forgotten, shutdown, pending, draining,
                   wakes, pc, batch, late, clean, dropped, skips, gaveUp>>

UserTurnBegins ==
    /\ turn = "free"
    /\ turn' = "user"
    /\ UNCHANGED <<poolVars, pending, draining, wakes, pc, batch, late, history>>

UserTurnEnds ==
    /\ turn = "user"
    /\ turn' = "free"
    /\ UNCHANGED <<poolVars, pending, draining, wakes, pc, batch, late, history>>

Drain ==
    \/ TakeBatch \/ CheckDraining \/ AbsorbPending \/ UnclaimedResults
    \/ RunBusy \/ RunBegins \/ RunFails \/ RunReturns \/ RunSkips

Next ==
    \/ \E t \in Tasks : Finish(t) \/ OnSnapshot(t) \/ Collect(t) \/ Forget(t)
    \/ SetDraining
    \/ Drain \/ DeadlinePasses
    \/ MarkWokeTasks \/ UserTurnBegins \/ UserTurnEnds

Spec == Init /\ [][Next]_vars

\* The drain goroutine and the turns it starts are scheduled, the clock of its
\* deadline runs; nothing obliges a user's turn to end.
FairSpec ==
    /\ Spec
    /\ WF_vars(Drain) /\ WF_vars(DeadlinePasses) /\ WF_vars(MarkWokeTasks)
    /\ \A t \in Tasks : WF_vars(OnSnapshot(t))

-----------------------------------------------------------------------------
(* Properties *)

\* An outcome that is queued has a goroutine to serve it, unless the last one
\* gave its own batch up and left the rest behind (drain, OnSnapshot).
PendingIsServed == pending # {} => draining \/ gaveUp

\* The outcome of a finished task is always somewhere: not yet announced,
\* queued, in the batch of a turn, told, collected, or given up by name; or the
\* process went away at the moment its turn was to begin.
NothingVanishes ==
    \A t \in Tasks \ running :
        t \in unheard \cup pending \cup batch \cup woke \cup collected
              \cup forgotten \cup dropped \cup skipped

\* The wake budget is what the turns that ended well spent, what the attempts
\* that a process going away answered without a turn were not paid back, and what
\* the attempt in flight holds: whatever else ends an attempt early pays it back
\* (refundWake), and pays it back once.
BudgetHonest == wakes = clean + unpaid + (IF pc \in Reserved THEN 1 ELSE 0)

\* A finished task's outcome is told, collected, forgotten, given up or skipped
\* by a process that goes away, even when somebody's turn never lets the session
\* go (startTurn's deadline).
OutcomeSettles ==
    \A t \in Tasks :
        t \notin running ~>
            t \in woke \cup collected \cup forgotten \cup dropped \cup skipped \/ gaveUp

\* background_notify.go:193-196: ending apart from the check that found the
\* queue empty would leave a completion nobody wakes for.  A process that is
\* going away wakes nobody anyway.
NoStranded ==
    [][draining /\ ~ draining' /\ pending' # {} => shutdown]_vars

\* background_notify.go:189-192: only startTurn gives a batch up, never the loop.
LoopNeverDrops == [][pc = "settle" => dropped' = dropped]_vars

\* background_notify.go:189-192: "a task that finished has an outcome the model
\* was promised", and a batch that is not given up was told.
NobodySkipped == skipped \subseteq woke \cup collected \cup forgotten

\* background_notify.go:338-340: "The cap counts turns the model was actually
\* woken into, so an attempt refused ... by shutdown must not spend one."
CapCountsWokenTurns == wakes <= begun + (IF pc \in Reserved THEN 1 ELSE 0)

\* pool.go:219-220: a result the model already has starts no redundant turn.
NoRedundantWake ==
    [][turn = "waking" /\ turn' = "woken" => batch \ collected # {}]_vars

\* background_notify.go:18-19: a bound on the turns a session is woken into.
WakesBounded == begun <= MaxWakes
=============================================================================
