------------------------------ MODULE TaskPool ------------------------------
(***************************************************************************)
(* The background tasks of one session: the pool of internal/bgtask, the   *)
(* records it keeps in the session bundle, and the processes it starts,    *)
(* which outlive it when it dies.                                          *)
(*                                                                         *)
(* A task is its number: bg_<n>.  The goroutine that starts and supervises *)
(* a task moves through Phases; callers of Stop, the deadline, the clearing*)
(* of history, shutdown and crashes come in between its steps.  The pool   *)
(* lock makes admission atomic and the lock of a task makes a claim atomic;*)
(* everything else is a step of its own.  Several sessions share only the  *)
(* counter, so one session is enough.                                      *)
(***************************************************************************)
EXTENDS Naturals, FiniteSets

CONSTANTS
    MaxId,           \* bound: how many numbers are ever handed out
    System,          \* the tasks of the runtime itself (AgentInfo.System)
    Limited,         \* the tasks with a hard timeout
    MaxConcurrent,   \* Config.MaxConcurrent
    KillMayFail,     \* whether terminating a process may fail
    MaxDeaths,       \* bound: how often the process of the pool dies
    Reapable         \* bound: the tasks a reaping of survivors comes across

ASSUME MaxIdAssumption == MaxId \in Nat
ASSUME MaxConcurrentAssumption == MaxConcurrent \in Nat \ {0}
ASSUME KillMayFailAssumption == KillMayFail \in BOOLEAN
ASSUME MaxDeathsAssumption == MaxDeaths \in Nat

Tasks == 1 .. MaxId
None == 0

Killers == {"nobody", "start", "caller", "deadline", "shutdown"}
Terminal == {"succeeded", "failed", "timed_out", "stopped"}
Phases == {"none",                                            \* not in this process
           "admitted", "launching", "launched", "attached",   \* start
           "supervised", "reaped", "settled", "saved",        \* supervise
           "failing", "failClosed",                           \* the launch failed
           "unnotified", "over"}

VARIABLES
    up,        \* the process that holds the pool runs
    deaths,    \* how often it has died
    seq,       \* Pool.seq
    dirKnown,  \* Pool.sessionDirs has the session
    mode,      \* serving, or how far a shutdown has come; draining unless serving
    toStop,    \* tasks StopAll has listed and not yet stopped
    stopping,  \* the task StopAll waits for, or None
    held,      \* Pool.tasks
    phase,     \* where the task's own goroutine stands
    status,    \* Snapshot.Status
    reason,    \* task.termReason, "unclaimed" while unclaimed
    killer,    \* who is inside Handle.Stop: start, a caller of Stop, the deadline, StopAll
    armed,     \* tasks whose deadline has yet to elapse
    waiting,   \* tasks a caller of Stop waits for on task.done
    proc,      \* the operating-system process of a task
    dirs,      \* tasks with a directory in the bundle
    record,    \* Status in the task's meta.json, "none" without one
    clear,     \* where a ClearFinished stands
    clearLive, \* the tasks it took for live
    reap       \* how far a reaping has come with a task it takes for a survivor

poolVars == <<seq, dirKnown, held>>
downVars == <<mode, toStop, stopping>>
lifeVars == <<up, deaths>>
taskVars == <<phase, status, reason, killer, armed, waiting>>
diskVars == <<dirs, record>>
callerVars == <<clear, clearLive, reap>>
vars == <<lifeVars, poolVars, downVars, taskVars, proc, diskVars, callerVars>>

\* Nothing but the return of Stop depends on who waits, and once a task has its
\* outcome nothing depends on how it was decided, nor on a reaping that can neither kill
\* it nor write: a view for safety runs.
Decided == {k \in Tasks : status[k] \in Terminal \cup {"none"}}
safetyView == <<lifeVars, poolVars, downVars, phase, status,
                [k \in Tasks \ Decided |-> <<reason[k], proc[k]>>],
                {k \in Decided : proc[k] = "up"}, killer, armed, diskVars,
                clear, clearLive, [k \in dirs \cup {j \in Tasks : proc[j] = "up"} |-> reap[k]]>>

TypeOK ==
    /\ up \in BOOLEAN
    /\ deaths \in 0 .. MaxDeaths
    /\ seq \in 0 .. MaxId
    /\ dirKnown \in BOOLEAN
    /\ mode \in {"serving", "draining", "stopping", "stopped"}
    /\ toStop \subseteq Tasks
    /\ stopping \in Tasks \cup {None}
    /\ held \subseteq Tasks
    /\ phase \in [Tasks -> Phases]
    /\ status \in [Tasks -> {"none", "running"} \cup Terminal]
    /\ reason \in [Tasks -> {"unclaimed", "timed_out", "stopped"}]
    /\ killer \in [Tasks -> Killers]
    /\ armed \subseteq Tasks
    /\ waiting \subseteq Tasks
    /\ proc \in [Tasks -> {"none", "up", "ok", "bad", "killed"}]
    /\ dirs \subseteq Tasks
    /\ record \in [Tasks -> {"none", "running"} \cup Terminal]
    /\ clear \in {"idle", "listing", "erasing"}
    /\ clearLive \subseteq Tasks
    /\ reap \in [Tasks -> {"none", "found", "spared"}]

Init ==
    /\ up = TRUE
    /\ deaths = 0
    /\ seq = 0
    /\ dirKnown = FALSE
    /\ mode = "serving"
    /\ toStop = {}
    /\ stopping = None
    /\ held = {}
    /\ phase = [k \in Tasks |-> "none"]
    /\ status = [k \in Tasks |-> "none"]
    /\ reason = [k \in Tasks |-> "unclaimed"]
    /\ killer = [k \in Tasks |-> "nobody"]
    /\ armed = {}
    /\ waiting = {}
    /\ proc = [k \in Tasks |-> "none"]
    /\ dirs = {}
    /\ record = [k \in Tasks |-> "none"]
    /\ clear = "idle"
    /\ clearLive = {}
    /\ reap = [k \in Tasks |-> "none"]

-----------------------------------------------------------------------------
(* Vocabulary *)

Finished(k) == status[k] \in Terminal

\* task.done is closed.
Done(k) == phase[k] \in {"failClosed", "unnotified", "over"}

HasHandle(k) == phase[k] \in {"attached", "supervised", "reaped"}

\* What runningForSession counts.
Counted == {k \in held : k \notin System /\ ~ Finished(k)}

Highest(S) == IF S = {} THEN 0 ELSE CHOOSE k \in S : \A j \in S : j <= k

GotoPhase(k, p) == phase' = [phase EXCEPT ![k] = p]

\* persist: best effort, a task whose directory is gone leaves no record.
Persist(k, s) ==
    record' = IF k \in dirs THEN [record EXCEPT ![k] = s] ELSE record

Erase(S) ==
    /\ dirs' = dirs \ S
    /\ record' = [k \in Tasks |-> IF k \in S THEN "none" ELSE record[k]]

\* claimTermination: one caller wins, and none after the exit was observed.
Claimable(k) == phase[k] # "reaped" /\ ~ Finished(k) /\ reason[k] = "unclaimed"

Claim(k, why, who) ==
    IF Claimable(k)
      THEN /\ reason' = [reason EXCEPT ![k] = why]
           /\ killer' = IF HasHandle(k) THEN [killer EXCEPT ![k] = who] ELSE killer
      ELSE UNCHANGED <<reason, killer>>

-----------------------------------------------------------------------------
(* start *)

\* Mutant: the counter is left where it is.
SetSessionDirKeeping ==
    /\ up /\ ~ dirKnown
    /\ dirKnown' = TRUE
    /\ UNCHANGED <<lifeVars, seq, held, downVars, taskVars, proc, diskVars,
                   callerVars>>

\* SetSessionDir: number past everything the bundle records.
SetSessionDir ==
    /\ up /\ ~ dirKnown
    /\ dirKnown' = TRUE
    /\ seq' = IF Highest(dirs) > seq THEN Highest(dirs) ELSE seq
    /\ UNCHANGED <<lifeVars, held, downVars, taskVars, proc, diskVars,
                   callerVars>>

\* Mutant: a draining pool still admits.
AdmitDraining(k) ==
    /\ dirKnown
    /\ k = seq + 1
    /\ seq' = k
    /\ held' = held \cup {k}
    /\ GotoPhase(k, "admitted")
    /\ status' = [status EXCEPT ![k] = "running"]
    /\ reason' = [reason EXCEPT ![k] = "unclaimed"]
    /\ proc' = [proc EXCEPT ![k] = "none"]
    /\ k \in System \/ Cardinality(Counted) < MaxConcurrent
    /\ armed' = IF k \in Limited THEN armed \cup {k} ELSE armed
    /\ UNCHANGED <<lifeVars, dirKnown, downVars, killer, waiting, diskVars,
                   callerVars>>

\* Admission and registration, under the pool lock.
Admit(k) ==
    /\ dirKnown
    /\ mode = "serving"
    /\ k = seq + 1
    /\ seq' = k
    /\ held' = held \cup {k}
    /\ GotoPhase(k, "admitted")
    /\ status' = [status EXCEPT ![k] = "running"]
    /\ reason' = [reason EXCEPT ![k] = "unclaimed"]
    /\ proc' = [proc EXCEPT ![k] = "none"]
    /\ k \in System \/ Cardinality(Counted) < MaxConcurrent
    /\ armed' = IF k \in Limited THEN armed \cup {k} ELSE armed
    /\ UNCHANGED <<lifeVars, dirKnown, downVars, killer, waiting, diskVars,
                   callerVars>>

PrepareDir(k) ==
    /\ phase[k] = "admitted"
    /\ dirs' = dirs \cup {k}
    /\ GotoPhase(k, "launching")
    /\ UNCHANGED <<lifeVars, poolVars, downVars, status, reason, killer, armed,
                   waiting, proc, record, callerVars>>

LaunchFails(k) ==
    /\ phase[k] = "launching"
    /\ GotoPhase(k, "failing")
    /\ status' = [status EXCEPT ![k] = "failed"]
    /\ UNCHANGED <<lifeVars, poolVars, downVars, reason, killer, armed, waiting,
                   proc, diskVars, callerVars>>

\* A failed launch releases the waiters first and writes the record second.
CloseFailed(k) ==
    /\ phase[k] = "failing"
    /\ GotoPhase(k, "failClosed")
    /\ UNCHANGED <<lifeVars, poolVars, downVars, status, reason, killer, armed,
                   waiting, proc, diskVars, callerVars>>

PersistFailed(k) ==
    /\ phase[k] = "failClosed"
    /\ Persist(k, status[k])
    /\ GotoPhase(k, "unnotified")
    /\ UNCHANGED <<lifeVars, poolVars, downVars, status, reason, killer, armed,
                   waiting, proc, dirs, callerVars>>

LaunchSucceeds(k) ==
    /\ phase[k] = "launching"
    /\ GotoPhase(k, "launched")
    /\ proc' = [proc EXCEPT ![k] = "up"]
    /\ UNCHANGED <<lifeVars, poolVars, downVars, status, reason, killer, armed,
                   waiting, diskVars, callerVars>>

\* Mutant: a claim made while the runner started is forgotten.
AttachHandleOnly(k) ==
    /\ phase[k] = "launched"
    /\ GotoPhase(k, "attached")
    /\ UNCHANGED <<lifeVars, poolVars, downVars, status, reason, killer, armed, waiting,
                   proc, diskVars, callerVars>>

\* attachHandle: a claim made while the runner started is honoured now.
AttachHandle(k) ==
    /\ phase[k] = "launched"
    /\ GotoPhase(k, "attached")
    /\ killer' = IF reason[k] # "unclaimed" THEN [killer EXCEPT ![k] = "start"] ELSE killer
    /\ UNCHANGED <<lifeVars, poolVars, downVars, status, reason, armed, waiting,
                   proc, diskVars, callerVars>>

PersistRunning(k) ==
    /\ phase[k] = "attached"
    /\ killer[k] # "start"
    /\ Persist(k, "running")
    /\ GotoPhase(k, "supervised")
    /\ UNCHANGED <<lifeVars, poolVars, downVars, status, reason, killer, armed,
                   waiting, proc, dirs, callerVars>>

-----------------------------------------------------------------------------
(* supervise *)

\* Wait returns and the exit is observed: no claim wins from here on.
ObserveExit(k) ==
    /\ phase[k] = "supervised"
    /\ proc[k] \in {"ok", "bad", "killed"}
    /\ GotoPhase(k, "reaped")
    /\ UNCHANGED <<lifeVars, poolVars, downVars, status, reason, killer, armed,
                   waiting, proc, diskVars, callerVars>>

\* Mutant: the deadline claims the task and does not stop it.
DeadlineMarks(k) ==
    /\ phase[k] \in {"supervised", "reaped"} /\ k \in armed
    /\ armed' = armed \ {k}
    /\ reason' = IF Claimable(k) THEN [reason EXCEPT ![k] = "timed_out"] ELSE reason
    /\ UNCHANGED <<lifeVars, poolVars, downVars, phase, status, killer, waiting, proc,
                   diskVars, callerVars>>

DeadlineFires(k) ==
    /\ phase[k] \in {"supervised", "reaped"} /\ k \in armed
    /\ armed' = armed \ {k}
    /\ Claim(k, "timed_out", "deadline")
    /\ UNCHANGED <<lifeVars, poolVars, downVars, phase, status, waiting, proc,
                   diskVars, callerVars>>

Outcome(k) ==
    IF reason[k] # "unclaimed" THEN reason[k]
    ELSE IF proc[k] = "ok" THEN "succeeded" ELSE "failed"

Settle(k) ==
    /\ phase[k] = "reaped"
    /\ killer[k] # "deadline"
    /\ status' = [status EXCEPT ![k] = Outcome(k)]
    /\ GotoPhase(k, "settled")
    /\ armed' = armed \ {k}
    /\ UNCHANGED <<lifeVars, poolVars, downVars, reason, killer, waiting, proc,
                   diskVars, callerVars>>

\* Mutant: the record is written from a snapshot taken before the exit.
PersistOutcomeStale(k) ==
    /\ phase[k] = "settled"
    /\ Persist(k, "running")
    /\ GotoPhase(k, "saved")
    /\ UNCHANGED <<lifeVars, poolVars, downVars, status, reason, killer, armed,
                   waiting, proc, dirs, callerVars>>

PersistOutcome(k) ==
    /\ phase[k] = "settled"
    /\ Persist(k, status[k])
    /\ GotoPhase(k, "saved")
    /\ UNCHANGED <<lifeVars, poolVars, downVars, status, reason, killer, armed,
                   waiting, proc, dirs, callerVars>>

CloseDone(k) ==
    /\ phase[k] = "saved"
    /\ GotoPhase(k, "unnotified")
    /\ UNCHANGED <<lifeVars, poolVars, downVars, status, reason, killer, armed,
                   waiting, proc, diskVars, callerVars>>

\* The watchers hear the outcome (BackgroundWaker!OnSnapshot).
Notify(k) ==
    /\ phase[k] = "unnotified"
    /\ GotoPhase(k, "over")
    /\ UNCHANGED <<lifeVars, poolVars, downVars, status, reason, killer, armed,
                   waiting, proc, diskVars, callerVars>>

-----------------------------------------------------------------------------
(* Stop *)

StopTask(k) ==
    /\ k \in held
    /\ Claim(k, "stopped", "caller")
    /\ waiting' = IF killer'[k] # killer[k] THEN waiting ELSE waiting \cup {k}
    /\ UNCHANGED <<lifeVars, poolVars, downVars, phase, status, armed, proc,
                   diskVars, callerVars>>

KillLands(k) ==
    /\ killer[k] # "nobody"
    /\ killer' = [killer EXCEPT ![k] = "nobody"]
    /\ proc' = IF proc[k] = "up" THEN [proc EXCEPT ![k] = "killed"] ELSE proc
    /\ waiting' = IF killer[k] = "caller" THEN waiting \cup {k} ELSE waiting
    /\ UNCHANGED <<lifeVars, poolVars, downVars, phase, status, reason, armed,
                   diskVars, callerVars>>

\* Handle.Stop returns an error: Stop passes it on without waiting, start and
\* the deadline ignore it.  The claim stays.
KillFails(k) ==
    /\ KillMayFail
    /\ killer[k] # "nobody" /\ proc[k] = "up"
    /\ killer' = [killer EXCEPT ![k] = "nobody"]
    /\ stopping' = IF killer[k] = "shutdown" THEN None ELSE stopping
    /\ UNCHANGED <<lifeVars, poolVars, mode, toStop, phase, status, reason,
                   armed, waiting, proc, diskVars, callerVars>>

StopReturns(k) ==
    /\ k \in waiting /\ Done(k)
    /\ waiting' = waiting \ {k}
    /\ UNCHANGED <<lifeVars, poolVars, downVars, phase, status, reason, killer,
                   armed, proc, diskVars, callerVars>>

-----------------------------------------------------------------------------
(* stopSurvivor, and ReapSurvivors with Survivors: no lock is held from the  *)
(* look at the live tasks to the write of the last record, any number of them*)
(* may be under way, and none ends before the process does: a reaping that   *)
(* found or killed a task may come back to it at any time.                   *)

\* The reading of the bundle finds a record that says running, of a process that
\* lives.  The list of live tasks (for stopSurvivor, the lookup that failed) is
\* older than this reading: a task admitted since then is met like a survivor.
ReapFinds(k) ==
    /\ k \in Reapable
    /\ (dirKnown /\ k \notin held) \/ phase[k] # "none"
    /\ reap[k] = "none"
    /\ record[k] = "running" /\ proc[k] = "up"
    /\ reap' = [reap EXCEPT ![k] = "found"]
    /\ UNCHANGED <<lifeVars, poolVars, downVars, taskVars, proc, diskVars, clear,
                   clearLive>>

\* The kill, by the recorded process group; its result is ignored, and a process
\* that has ended by itself is not touched.
ReapKills(k) ==
    /\ reap[k] # "none" /\ proc[k] = "up"
    /\ \/ proc' = [proc EXCEPT ![k] = "killed"] /\ UNCHANGED reap
       \/ KillMayFail /\ reap' = [reap EXCEPT ![k] = "spared"] /\ UNCHANGED proc
    /\ UNCHANGED <<lifeVars, poolVars, downVars, taskVars, diskVars, clear, clearLive>>

\* After the kill, the record that was read is written back as stopped, whatever
\* it says by now.
ReapWrites(k) ==
    /\ reap[k] = "spared" \/ (reap[k] = "found" /\ proc[k] # "up")
    /\ Persist(k, "stopped")
    /\ UNCHANGED <<lifeVars, poolVars, downVars, taskVars, proc, dirs, callerVars>>

-----------------------------------------------------------------------------
(* Shutdown: SetDraining(true), then StopAll, then the process ends. *)

SetDraining ==
    /\ up /\ mode = "serving"
    /\ mode' = "draining"
    /\ UNCHANGED <<lifeVars, poolVars, toStop, stopping, taskVars, proc,
                   diskVars, callerVars>>

\* A server constructed in the same process opens the pool again.
Reopen ==
    /\ mode = "stopped"
    /\ mode' = "serving"
    /\ UNCHANGED <<lifeVars, poolVars, toStop, stopping, taskVars, proc,
                   diskVars, callerVars>>

StopAllLists ==
    /\ mode = "draining"
    /\ mode' = "stopping"
    /\ toStop' = {k \in held : ~ Finished(k)}
    /\ UNCHANGED <<lifeVars, poolVars, stopping, taskVars, proc, diskVars,
                   callerVars>>

StopAllStops(k) ==
    /\ mode = "stopping" /\ stopping = None
    /\ k \in toStop
    /\ toStop' = toStop \ {k}
    /\ IF k \in held
         THEN stopping' = k /\ Claim(k, "stopped", "shutdown")
         ELSE UNCHANGED <<stopping, reason, killer>>
    /\ UNCHANGED <<lifeVars, poolVars, mode, phase, status, armed, waiting,
                   proc, diskVars, callerVars>>

StopAllWaited ==
    /\ mode = "stopping" /\ stopping # None
    /\ Done(stopping) /\ killer[stopping] # "shutdown"
    /\ stopping' = None
    /\ UNCHANGED <<lifeVars, poolVars, mode, toStop, taskVars, proc, diskVars,
                   callerVars>>

StopAllEnds ==
    /\ mode = "stopping" /\ stopping = None /\ toStop = {}
    /\ mode' = "stopped"
    /\ UNCHANGED <<lifeVars, poolVars, toStop, stopping, taskVars, proc,
                   diskVars, callerVars>>

-----------------------------------------------------------------------------
(* Letting go of history *)

Drop(S) == held' = held \ S

\* ClearFinished, under the pool lock: what the pool holds and is finished.
ClearMemory ==
    /\ clear = "idle"
    /\ \E k \in held : Finished(k)
    /\ clear' = "listing"
    /\ Drop({k \in held : Finished(k)})
    /\ Erase({k \in held : Finished(k)})
    /\ UNCHANGED <<lifeVars, seq, dirKnown, downVars, taskVars, proc,
                   clearLive, reap>>

\* ClearFinished goes on to the bundle: first which tasks are live ...
ClearLists ==
    /\ up
    /\ clear = "listing" \/ (clear = "idle" /\ \A k \in held : ~ Finished(k))
    /\ IF dirKnown
         THEN clear' = "erasing" /\ clearLive' = held
         ELSE clear' = "idle" /\ UNCHANGED clearLive
    /\ UNCHANGED <<lifeVars, poolVars, downVars, taskVars, proc, diskVars, reap>>

\* ... then the records of the others, each of which reads as finished, since
\* LoadPersisted reports a running record as orphaned.
ClearErases ==
    /\ clear = "erasing"
    /\ clear' = "idle"
    /\ clearLive' = {}
    /\ Erase({k \in dirs : record[k] # "none" /\ k \notin clearLive})
    /\ UNCHANGED <<lifeVars, poolVars, downVars, taskVars, proc, reap>>

Forget(k) ==
    /\ \/ k \in held /\ Finished(k)
       \/ k \notin held /\ dirKnown /\ record[k] # "none"
    /\ Drop({k})
    /\ Erase({k})
    /\ UNCHANGED <<lifeVars, seq, dirKnown, downVars, taskVars, proc,
                   callerVars>>

ReleaseSession ==
    /\ dirKnown
    /\ Drop({k \in held : Finished(k)})
    /\ dirKnown' = FALSE
    /\ UNCHANGED <<lifeVars, seq, downVars, taskVars, proc, diskVars,
                   callerVars>>

-----------------------------------------------------------------------------
(* The world outside *)

ProcessExits(k) ==
    /\ proc[k] = "up"
    /\ \E code \in {"ok", "bad"} : proc' = [proc EXCEPT ![k] = code]
    /\ UNCHANGED <<lifeVars, poolVars, downVars, taskVars, diskVars, callerVars>>

\* The process of the pool dies, of a crash or after a shutdown.  Task
\* processes lead groups of their own and go on; the bundle stays.
Die ==
    /\ up
    /\ deaths < MaxDeaths
    /\ deaths' = deaths + 1
    /\ up' = FALSE
    /\ seq' = 0 /\ dirKnown' = FALSE /\ held' = {}
    /\ mode' = "serving" /\ toStop' = {} /\ stopping' = None
    /\ phase' = [k \in Tasks |-> "none"]
    /\ status' = [k \in Tasks |-> "none"]
    /\ reason' = [k \in Tasks |-> "unclaimed"]
    /\ killer' = [k \in Tasks |-> "nobody"]
    /\ armed' = {} /\ waiting' = {}
    /\ clear' = "idle" /\ clearLive' = {}
    /\ reap' = [k \in Tasks |-> "none"]
    /\ UNCHANGED <<proc, diskVars>>

Restart ==
    /\ ~ up
    /\ up' = TRUE
    /\ UNCHANGED <<deaths, poolVars, downVars, taskVars, proc, diskVars,
                   callerVars>>

-----------------------------------------------------------------------------
\* The goroutine of start, which goes on as the one of supervise.
Run(k) ==
    \/ PrepareDir(k)
    \/ LaunchFails(k) \/ CloseFailed(k) \/ PersistFailed(k)
    \/ LaunchSucceeds(k) \/ AttachHandle(k) \/ PersistRunning(k)
    \/ ObserveExit(k) \/ DeadlineFires(k)
    \/ Settle(k) \/ PersistOutcome(k) \/ CloseDone(k) \/ Notify(k)

Kill(k) == KillLands(k) \/ KillFails(k)

StopAll ==
    \/ StopAllLists \/ StopAllWaited \/ StopAllEnds
    \/ \E k \in Tasks : StopAllStops(k)

Reaping(k) == ReapFinds(k) \/ ReapKills(k) \/ ReapWrites(k)

Requests ==
    \/ SetSessionDir \/ SetDraining \/ Reopen
    \/ ClearMemory \/ ClearLists \/ ClearErases \/ ReleaseSession
    \/ \E k \in Tasks : Admit(k) \/ StopTask(k) \/ Forget(k)

Next ==
    \/ Requests
    \/ StopAll
    \/ \E k \in Tasks :
        Run(k) \/ Kill(k) \/ StopReturns(k) \/ Reaping(k) \/ ProcessExits(k)
    \/ Die \/ Restart

Spec == Init /\ [][Next]_vars

\* Goroutines, callers and StopAll are scheduled while the process lives;
\* requests, exits, crashes and restarts may never come.
FairSpec ==
    /\ Spec
    /\ \A k \in Tasks :
        WF_vars(Run(k)) /\ WF_vars(Kill(k)) /\ WF_vars(StopReturns(k))
    /\ WF_vars(StopAll)

-----------------------------------------------------------------------------
(* Properties *)

\* "MaxConcurrent is how many tasks one session may run at once" (pool.go),
\* counting the tasks that are still being launched and sparing the runtime's.
CapRespected == Cardinality(Counted) <= MaxConcurrent

\* A number the bundle already has a directory for is never handed out again,
\* a restart included: "the new task overwrites the log and metadata of the
\* identically named task from the previous process" (SetSessionDir).
FreshNumbers ==
    [][\A k \in Tasks : Admit(k) => k \notin dirs]_vars

\* A task of this process that a reaping took for one an earlier process left.
Mistaken(k) == phase[k] # "none" /\ reap[k] # "none"

\* "Survivors returns the tasks of a session whose processes outlived the foxxycode
\* run that started them ... the only tasks the pool itself cannot stop" (pool.go).
OnlySurvivorsReaped == \A k \in Tasks : ~ Mistaken(k)

\* Whoever waited for a task finds its outcome in the bundle, and never a
\* record that says it runs (supervise: "Persist before releasing waiters").
\* Only a reaping that took the task for a survivor may have put stopped there.
DoneIsRecorded ==
    \A k \in dirs :
        /\ Done(k) => record[k] # "running"
        /\ phase[k] \in {"unnotified", "over"} =>
             record[k] = status[k] \/ (Mistaken(k) /\ record[k] = "stopped")

\* An outcome that reached the bundle is never rewritten, by a late claim, by
\* reaping survivors after a crash, or by the next process; a task a reaping took
\* for a survivor has two that are written in any order, stopped and its own.
RecordIsFinal ==
    [][\A k \in Tasks :
          record[k] \in Terminal =>
            \/ record'[k] \in {record[k], "none"}
            \/ Mistaken(k) /\ {record[k], record'[k]} \subseteq {"stopped", status[k]}]_vars

\* A record that says a task is over is never written while its process runs:
\* that record is what keeps Survivors from offering the process again.
OverMeansExited ==
    \A k \in Tasks : record[k] \in Terminal => proc[k] # "up"

\* SessionTasks, what a listing of the session shows: the pool wins where both
\* know a task, and a record that says running is reported as orphaned.
Listing(k) ==
    IF k \in held THEN status[k]
    ELSE IF record[k] = "running" THEN "orphaned" ELSE record[k]

\* The listing, once an outcome that is on its way to the bundle has landed.
View(k) ==
    IF k \in dirs /\ phase[k] \in {"settled", "failing", "failClosed"}
      THEN status[k] ELSE Listing(k)

Life == INSTANCE TaskLife WITH state <- [k \in Tasks |-> View(k)],
                               doubt <- {k \in Tasks : Mistaken(k)}

\* The pool implements the promise of TaskLife: one outcome a task, taken back
\* by nothing but the death of the process, or a reaping that met the task alive.
ImplementsLife == Life!Spec

\* A shutdown that has gone through leaves none of this process's children.
ShutdownLeavesNothing ==
    mode = "stopped" => \A k \in Tasks : phase[k] # "none" => proc[k] # "up"

\* "Tasks recorded as still in flight are reported as orphaned, because the
\* process that owned them is gone" (LoadPersisted): never a task of this one.
OrphanMeansOwnerGone ==
    \A k \in Tasks : Listing(k) = "orphaned" => phase[k] = "none"

\* ClearFinished: "Running tasks are left alone."
RunningIsLeftAlone ==
    \A k \in Tasks : phase[k] \in {"attached", "supervised"} => k \in dirs

\* "Stop terminates a running task and waits for it to settle."
StopSettles ==
    \A k \in Tasks : up /\ k \in waiting ~> ~ (up /\ k \in waiting)

\* A task with a hard timeout cannot run for ever.
DeadlineEnds ==
    \A k \in Tasks :
        up /\ k \in armed /\ phase[k] = "supervised"
            ~> ~ up \/ phase[k] = "over"

\* Shutdown comes to its end whatever tasks were being launched or stopped.
ShutdownEnds == up /\ mode = "draining" ~> mode = "stopped" \/ ~ up

\* What the pool and the bundle know of a task agrees with its process's history: variables
\* have their types, the limit holds however launches overlap, and whoever waited for an
\* outcome finds it recorded.
PoolIsConsistent == TypeOK /\ CapRespected /\ DoneIsRecorded

\* No restart, late claim or reaping overwrites what an earlier task left in the bundle: its
\* number is not handed out again, and its outcome is not rewritten.
HistoryIsKept == FreshNumbers /\ RecordIsFinal

\* Nothing goes on running unseen: not behind a record that says it is over, and not behind a
\* shutdown that has gone through.
NothingLeftRunning == OverMeansExited /\ ShutdownLeavesNothing

\* Everybody who waits for a stop is released: the callers of Stop, and StopAll.
StopsEnd == StopSettles /\ ShutdownEnds
=============================================================================
