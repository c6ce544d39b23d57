# FoxxyCode in TLA+

A verification development kept beside the FoxxyCode agent (Go, `src/`). It models
the parts of the runtime whose correctness depends on the order in which
goroutines, requests, processes and crashes take their steps; checks them with TLC
on small instances; and proves the most important invariants with TLAPS for every
value of the constants.

    tlc -workers 2 -config TaskPool.cfg TaskPool      # any run of PROJECT.json
    tlapm GateQueueProofs.tla                         # any *Proofs module

PROJECT.json lists the components, the runs, the mutants (a plausible bug each
property was seen to catch), the source lines every definition stands for, the
hazards and the theorems.

## 1. The system

FoxxyCode is one binary, `foxxycode`. A *session* is a conversation with an agent
in one working directory; it lives in memory (`session.State`) and in a *bundle*
directory on disk. A *turn* is one prompt and everything the agent does until it
answers. Several processes may share one sessions directory: the HTTP server
(`serve`), a console, an editor's ACP child.

| Component (code) | State | Operations | Hard behaviour | Correct when |
| --- | --- | --- | --- | --- |
| Turn lock (`internal/session/manager_turn_lock_*.go`, `turn_busy.go`) | `composer-turn.lock` in the bundle: an inode, its flock, the JSON stamp with a PID | `acquirePromptTurnLock` (with one retry after breaking a stale file), `unlock`, `TurnLockHeld` | Two processes, crash at any point, a probe that locks what it probes, unlinking a name others have open | at most one turn at a time; an attempt ends; busy means a turn runs |
| Message queue of a turn (`turn_queue.go`, `manager_queue.go`, the boundary loop in `manager.go`) | `State.queue`, `queueOpen`, `queueVersion`, `queueNotify`; the bounds of the loop | enqueue, take back, change mode, clear, read between steps, drain-or-close, return, close, announce, receive | requests race the turn's last look at the queue; announcements overtake each other; a run may end before its prompt is read | no accepted message is lost or told twice; clients converge; runs are bounded |
| Turn admission and cancellation (`manager.go`, `turn_active.go`, `turn_events.go`, `cancel_signal.go`, `manager_cancel_poll.go`, `subagent.go`) | the live-session map, deletion marks, active-turn counts, the context of a turn, the cancel file, edges sent to observers | `beginTurn`, `finish`, `HandleSessionCancel`, the cancel poll, `DeleteSessionTree`, load, new | a turn admitted while its session is deleted, a cancel before the turn can hear it, edges delivered out of order | a deleted session stays deleted; a cancel reaches the turn it was meant for |
| State, bundle and file store (`filesystem.go`, `disk_refresh.go`, `rewind.go`, `state.go`, `manager_load_flight.go`) | the history in memory, `messages.json` and `session.json`, a cache of the encoded history, stamps of both files | load (single flight), append, save (two files, whole or by appending), refresh from disk, rewind | two processes save one bundle, a crash between the two files, a save that fails, a cache entry behind the file | no save drops a turn it has not seen; a turn begins on the whole transcript; a count that is trusted is right |
| Background tasks (`internal/bgtask`) | the pool (tasks, numbers, draining flag), a record per task in the bundle, operating-system processes | start, supervise, deadline, Stop, survivors, StopAll, ClearFinished, Forget, ReleaseSession | a stop during a launch, a kill that fails, a crash between outcome and record, numbers after a restart | one outcome per task; no child left; no record overwritten |
| Background waker (`internal/agent/background_notify.go`) | per session: queued outcomes, a draining flag, the wake budget | `OnSnapshot`, `drain`, `startTurn`, refund | a completion racing the end of the drain goroutine, a busy session, results collected meanwhile, shutdown | every outcome is told, collected or accounted for; the budget is exact |
| ReAct loop, compaction, loop guard (`internal/agent/react.go`, `stall_retry.go`, `limit_wait.go`, `provider_recovery.go`, `loop_quarantine.go`, `compaction.go`, `loopguard.go`) | the counters of a turn: steps, recoveries, retries, continuations, waits, nudges; the execution checkpoint | request, answer, tool calls, recovery, pause, follow-up, correction, end | an answer cut with calls in it, a limit reached during a recovery, settings that move under a request, a stop between two calls | the transcript pairs calls with results; a recovery is not charged to the model; the turn ends |
| Subagents (`internal/agent/subagent*.go`, `internal/session/subagent.go`, `internal/subagents`) | children (a live entry, a bundle inside the parent's), a task for each run, slots of a limiter that refuses and never queues | spawn, resume, create with its rollback, run the one turn, retire, delete the tree | a stop or a deletion in the middle of a creation, a resume from another process, the folders of a deleted parent made again | a deleted child stays deleted; slots are given back once; a transcript is written by one run |
| Permissions and questions (`session/pending_permission.go`, `agent/resume_permission.go`, `external/httpserver/bridge.go`, `permissionhub.go`, `permission_resume.go`) | waits in memory, `pending_permission.json` in the bundle, the results in the transcript | ask, answer, give up, resume from the record | an answer that comes late, twice or to another process; a stop; a crash with a prompt open | no call runs unanswered or twice; every call has one outcome |
| MCP pool (`internal/mcp/pool.go`) | entries with a count, a kept flag, an idle timer; servers | acquire, join a start, release, keep, recheck, watch, close | a timer that fires as a session takes the server, a late answer, a caller that gives up, a server that dies | no server stopped under a lease; none left running unseen |
| LLM providers (`internal/llm`) | the retry allowance of a step | call, retry, fall back | partial streams, timeouts, retries by two layers | one allowance for all; nothing shown twice |
| Configuration (`internal/config`, `internal/configapi`) | one file and pending changes | read, stage, commit, revert | partial writes | the file is old or new |
| Serve supervisor (`internal/serve`, `cmd/foxxycode/serve.go`) | surfaces by kind, a one-slot channel of reloads, a failures channel; the dispatcher above it | start, rebuild on a change, stop with a drain, ask to be replaced, stop for good | a drain that runs out, a failure during a change, a signal during a start | one instance of a surface; never a process that serves nothing; a stop is final |
| HTTP server and event streams (`external/httpserver`) | subscribers with bounded buffers | publish, subscribe, snapshot | slow subscribers | a snapshot repairs what was dropped |
| Remote client, swarm relay, scheduler, messenger gateway | connections, registrations, jobs, offsets | reconnect, register, claim, poll | lost connections, overlap, replays | at most one holder of a name, one run of a job |
| Everything else (console, ACP framing, web interface, editors, tools, memory, hooks, plans, skills, working copies, export, update, commands) | none that is shared, or a document edited by one turn | I/O and conversions | | |

How they interact: a surface (HTTP, console, ACP, scheduler, gateway, waker) calls
the manager, which admits a turn (activity count, *turn lock*, context), opens the
*queue* and runs the ReAct loop; tools start tasks in the *pool*; the pool calls its
watchers when a task is over, one of which is the *waker*, which asks the manager
for a turn again and finds the turn lock busy or free.

## 2. Modules

| Module | Models | Proofs |
| --- | --- | --- |
| `TurnLock`, `MCTurnLock` | the flock protocol, call by call | `TurnLockSupervisorProofs` |
| `TurnQueue` | the queue of a session, the boundary loop, announcements, clients | `GateQueueProofs` |
| `TaskPool` | the task pool, its records and the processes | `TaskPoolProofs` |
| `TaskLife` | the abstract promise of the pool, refined by `TaskPool` | the refinement, in `TaskPoolProofs` |
| `BackgroundWaker` | the waker of a session | `WakerBundleProofs` |
| `TurnAdmission`, `MCTurnAdmission` | registration, activity edges, cancel signal, deletion, load and save of a session | `TurnAdmissionProofs` |
| `ReActLoop` | the loop of one turn | `ReActLoopProofs` |
| `SessionBundle`, `MCSessionBundle` | the transcript of a session in several processes and on disk | `WakerBundleProofs` |
| `PermissionGate`, `MCPermissionGate` | tool calls that wait for an answer | `GateQueueProofs` |
| `SubagentRun`, `MCSubagentRun` | the runs of one subagent child, and its deletion | `SubagentRunProofs` |
| `MCPPool`, `MCMCPPool` | the pool of shared MCP servers | `MCPPoolProofs` |
| `Supervisor`, `MCSupervisor` | the worker of `serve` and its dispatcher | `TurnLockSupervisorProofs` |

Three proof modules hold the theorems of two components each, which share no state: a part
per component, each with its own invariant. Such a module extends both components, so
that their names must differ; the definitions of `Supervisor`, `SessionBundle` and
`TurnQueue` that every module has therefore begin with `Sup`, `Bundle` and `Queue`
(`QueueInit`, `QueueNext`, `QueueSpec`, `QueueTypeOK`).

### TurnLock

`names` maps the lock path to an inode; inodes carry a stamp and are held by open
descriptors. Every system call of `acquireTurnLockFlock` and `tryBreakStaleTurnLock`
is an action (open, flock, truncate, write, read, kill(pid, 0), unlink, close), so
two attempts interleave between any two calls. `Crash` kills a process and lets
the kernel close its descriptors. `stampFails` is the error path of the stamp; the
retry of `acquirePromptTurnLock` is the counter `tries`. Only the unix build is
modelled: the Windows build and the stub use other calls, and sessions without a
bundle use a mutex.

`Exclusive` is what the lock is for, and it does not hold (section 8): a file locked and not yet
stamped reads as blank to the stale check. What does hold, and is proved, is
`ExclusiveUntilStrayed`: the loss of exclusion always begins with the unlink of a file that an
owner has open whom the check had not read: it read the file before that owner stamped it, or
an older file under the name. An owner whose PID was read loses nothing, so the protocol has
no hole besides the gap between open and stamp and `Hidden`.

`kill(pid, 0)` has errors besides the absence of the process, and the code takes them all for a
dead holder: a process of another user (EPERM), a PID of another namespace. `Hidden` holds the
pairs of processes for which it fails although the second lives; `stamped` records whose stamps
a check could have read, and `ReadOf` takes the hidden ones out, which makes an unlink under a
hidden owner one of those that stray.

### TaskPool and TaskLife

A task is its number. `phase` is where the goroutine of `start` (and then of
`supervise`) stands; `status`, `reason` (the claimed termination) and `held` are
the pool's memory, `dirs` and `record` the bundle, `proc` the operating system.
The pool lock makes `Admit`, `ClearMemory`, `Forget` and `StopAllLists` atomic, the
lock of a task makes `Claim` atomic; anything between two critical sections is a
step of its own. `stopSurvivor` and `ReapSurvivors` hold no lock from their look at the live
tasks to the write of a record, so they are three steps to a task (`reap`): `ReapFinds` reads a
record that says running of a process that lives, `ReapKills` terminates it, `ReapWrites` puts
the stopped record there. The look at the live tasks is older than the reading, so a task
launched in between is met as well; it is `Mistaken`, and what follows of it is in doubt.
`Die` wipes memory and keeps `proc` and the bundle: task processes lead groups of their own and
survive. One process lives at a time. The error of
`Handle.Stop` is `KillFails`, enabled by the constant `KillMayFail`, so the runs say
which properties depend on kills that succeed.

`TaskLife` is what a listing promises: a task runs, has one outcome, and is
forgotten; only a death may take an outcome back, or a reaping that met the task at work, which
`doubt` names. The refinement maps `state` to
`View`, which is `Listing` (the code's `SessionTasks`) except while an outcome is on
its way to the bundle. That exception is needed: `OrphanMeansOwnerGone` is the
listing without it, and it fails (section 8).

### BackgroundWaker

`pending`, `draining` and `wakes` are the waker's maps for one session. The drain
goroutine's `pc` follows `drain` and `startTurn`: settle, reserve a wake, attempt,
absorb what landed meanwhile, filter what was collected, run. The turn lock is
`turn`, which a user's turn may hold; a woken turn first marks its tasks. `RunSkips` is the
answer of a process that began to go away after `CheckDraining`: whoever runs the turn
(`serve/wake.go`, `background_http.go`) returns nil without one, and the waker takes that for a
turn that ended well. The history variables `begun`, `clean`, `dropped`, `skipped`, `unpaid`
and `gaveUp` only record; the properties compare them with the state.

### TurnQueue

`queue` holds rows (number, mode); texts and images do not matter to the queue.
Requests run concurrently with the turn's goroutine; `op` is the position of a
request after its critical section (its announcement, and for an edit the second
look at whether the queue is open). `pc` follows `HandleSessionPrompt`'s boundary
loop. Every announcement reads queue and version under one lock (`Publish`) and
travels in a set, so announcements overtake each other. `takeSteer` and `keepAfterTurn`
are `OfMode`, which names the rows of a mode by their places. The real version counter
is process-wide; here it counts per session, which keeps the order it is used for.

### TurnAdmission

One session id of the manager. A live `State` is a number, its incarnation; `live`
is `Manager.sessions[id]`, `marks` is `Manager.deleting[id]`, the set of turns whose
`pc` lies in `Registered` is `activeTurns[id]`, `bundle` and `signal` are the
directory and the cancel file. A turn goes through `beginTurn`, the run and
`finish`, one action for each critical section or file operation: resolve, first
`admissible`, register, publish the edge, lock, `SetCancel`, second `admissible`,
`ClearCancelRequest`, the run, cancel, unlock, unregister, publish. The cancel poll
is a goroutine of its own that may outlive its turn by one round. `DeleteSessionTree`
is mark, cancel, await (or give up), drop the live entry, remove, unmark, each a step;
deletions overlap. A request resolves or loads the session (single flight) and may
save it, the save in two steps because the lock file is opened before and the files
are written after the bundle may have been removed. `HandleSessionCancel` writes the
file and then cancels the live `State`; in another process only the first half happens.

What is simplified: one session, so neither the tree of children nor the stopping of
their tasks (`TaskPool` has Stop); no turn nested in another one (`skipLock`); no
creation of a session under a deleted id; the lock is one bit, its protocol is
`TurnLock`; the flag `userCancelledTurn` is left out; `os.RemoveAll` is atomic; the
timeout of the wait may come whenever somebody is active.

### ReActLoop

One turn of `runReActLoop`. `pc` is the place in the loop: the top of an iteration,
the request being prepared, the call, the pauses between a failed call and its
continuation, the tools, the end. Every counter of the code that bounds something is a
variable of the same name; what the model says is an input (`Returns`), told apart only
as far as the loop does: text, calls, empty, cut by its length, by the provider, by
silence, by a limit, by the loop guard, cancelled. The transcript is reduced to history
variables: `open` (announced calls without a result), `unread` (a user message no
request has carried), `cut` (a half answer not yet continued), `shown`, `changed`,
`steps`, `silent`, `corrected`. `shown` is what the last call put before the user, as far as
`hasAnyOutput` tells it apart: nothing; rows of calls alone, which it does not count, so that
the request is sent again after a transport that broke behind them; the reasoning of an empty
answer, which it counts and `EmptyReplayed` does not ask about; or an answer.
The operator queues follow-ups, moves the settings, stops the turn or ends the process between any two steps.

The retries inside one call (`resilient.go`) are `WrapperRetries`, on the allowance they
share with the loop. Left out: the fallback for a provider that rejects images, which
runs the wrapper a second time and whose first attempt is charged to nobody (so
`UnansweredBounded` is about calls without it); the compactions, which rewrite history
and keep these facts; wording. `StuckActions` lets the setting change between two
readings, which allows more than one configuration does.

### SessionBundle

`disk` and `meta` are `messages.json` and `session.json`, each with a version in the
place of size and modification time. A process has a `state` (absent, loading, idle,
in a refresh, in a turn, in a rewind) with the stamps it took, and a `cache`, the
history its store last wrote. A save is two steps, `WriteMessages` and `WriteMeta`,
under the lock of the bundle; a crash or an error may come between them. The guards of
`disk_refresh.go` are `Stale` and `Newer`, the count a listing trusts is `meta.count`
with the version it names.

`diverged` marks a State whose read or save failed, or in whose turn another State
wrote the transcript: the properties about what a State knows exempt it, and
section 8 says what goes wrong there. Simplified: meta and messages are read in one
step; `touch` (a save without a new message) comes only to an idle State; a State that
was let go of, the other sidecar files, the contents of titles and modes, and the
replacement of a whole history by `/v1/chat/completions` are left out.

### PermissionGate

One batch of calls that all ask. `turn` walks `RequestPermission` and the tool loop:
the wait is registered, the record written, the wait ends (answer, stop, given up), the
record goes, the wait goes, the call runs or is denied, its result is recorded. An
answer (`post`) is looked up in memory first, then in the record, and admits a resumed
turn that looks for its call in the transcript. `Crash` kills a process anywhere; what
is in the bundle stays. Results are recorded by a persist hook in the step that makes
them. Calls that need no permission, standing grants, hooks, refusals of the mode, plan
releases and the cleanup of a rewind are left out; a crash of a process without a turn
only loses its waits and posts.

### SubagentRun

A call of `spawn_agent` is its run and its task. `pc` walks the decision in the
parent's turn (`findResumeTarget`, the limiter, the pool), `CreateSubagentSession` on
the goroutine of the run (look, read, publish, check, layout, recheck, save, or the
deferred rollback), the child's one turn (two looks at the marks around the lock) and
`finish`. `DeleteSessionTree`, of the child or of its parent, is mark, rescan until
stable, cancel, await or give up, stop the tasks and wait for them, forget, remove,
unmark. `live` is per process, `disk` and `file` are shared. `file` is the set of runs
whose messages the transcript holds, `mem` that of a State.

One child of one parent: the foreground wait, hooks, relayed prompts, tool sets, depth
limits, grandchildren, memory and scheduled children, retention and MCP servers are
left out. The parent's turn makes one call at a time, as the tool loop does. `Stop`
stands for `background_stop`, a timeout and the end of a turn that waits for its child.
Processes do not crash here.

### MCPPool

One key of the pool; an entry is one start of the server. Each action is one critical
section of `pool.go` or one step between two: a caller starts, joins or uses an entry,
waits, gives up, holds, releases; a dial answers, fails or answers too late; an idle
timer fires and its callback waits for the lock; `stopIfUnwanted` reads the
configuration and then takes the lock; `Keep`, `Recheck`, `watch` and `Close`.
`server` is the process behind an entry, which may die by itself. The overall
deadline of `Close` is left out, and counting a connection as stopping ends in the step
its server has stopped. The pool's probe, which releases without delay, is the branch
of `Idle` that ends at once.

### Supervisor

`insts` are the surfaces this worker started, in order; `running` names the one of each
kind. `phase` is the supervisor's select loop, `applyConfig` or `shutdown`, which look at
one kind (`at`) at a time. A surface fails on its own, stops when told, or outlasts its
drain. The channel of reloads holds one configuration, the newest replacing the older.
Above the worker the dispatcher starts it again, pauses, and stops. A configuration is
which kinds are on, what each is built from and where it listens.

## 3. Runs

All twelve are expected to pass.

| Run | Properties | What it shows |
| --- | --- | --- |
| `turn_lock` (TurnLock.cfg) | `ExclusiveUntilStrayed`, `AcquisitionEnds` | Acquisitions in two processes, a shared probe, failed stamps, crashes and a liveness check that errs in one direction: the lock is exclusive as long as no stale check unlinks a file that somebody has open and whose owner it did not read, and every acquisition ends, however often stale files are broken around it. |
| `task_pool` (TaskPool.cfg) | `PoolIsConsistent`, `HistoryIsKept`, `ImplementsLife` | Tasks launched under a limit, stopped by kills that may fail, cleared, forgotten and released around two lives of the process, with a reaping of survivors that may meet a task still at work: the limit holds, records agree with outcomes, numbers are never reused, outcomes are final, and the pool implements TaskLife. |
| `task_pool_live` (TaskPoolLive.cfg) | `NothingLeftRunning`, `StopsEnd`, `DeadlineEnds` | When terminating a process does not fail: a record says over only of a process that is, every stop returns, a hard timeout ends its task, and a shutdown comes to its end and leaves no child behind, one being launched when it began included. |
| `background_waker` (BackgroundWaker.cfg) | `PendingIsServed`, `NothingVanishes`, `OutcomeSettles` | Three tasks finishing around turns of the user, collections, history clearing and a shutdown that can come between the waker's check and the turn: a queued outcome has a goroutine, no outcome vanishes unaccounted, and every outcome is settled even when the turn of the user never ends. |
| `turn_queue` (TurnQueue.cfg) | `QueueIsConsistent`, `SteerNotStranded`, `ClientConverges`, `NeverDropsDeferred` | Edits racing the steps of a turn, its boundary, Stops, refused prompts, exhausted bounds and announcements that overtake each other: every accepted message is in exactly one place, no steer message is accepted by a turn that is over, deferred messages are never dropped, the runs of a turn are bounded, a version names one content and clients end up showing the queue. |
| `turn_admission` (TurnAdmission.cfg) | `EdgesBalance`, `StopIsNotSwallowed`, `NoTurnPastRemoval` | Turns admitted around overlapping deletions, loads, saves, a Stop and a surface that lets go of the session: no turn runs past the removal of its bundle, busy and idle edges balance, and a Stop taken off the disk has cancelled the turn whose poll took it. |
| `react_loop` (ReActLoop.cfg) | `ResultsOwed`, `LimitIsEarned`, `FollowUpsAnswered`, `ShownOnce`, `TurnEnds` | One turn against every answer, failure, silence and limit of the provider, with follow-ups, moving settings and stops beside it: every announced call gets its result, recoveries are not charged to the model, an answer that was shown is not asked for again and less than one only at the cost of a retry, no follow-up dangles, and the turn ends. |
| `supervisor` (Supervisor.cfg) | `SurfacesAreConsistent`, `TwinsOutlastedTheDrain`, `AppliedWhole`, `WordIsHeard` | One worker and its dispatcher through two configurations, failing surfaces, drains that run out, signals and crashes: no surface is lost or doubled unnoticed, the process never serves nothing, a change is applied whole, a replacement is asked for only where it can start, a failure ends the process, and a stop is final. |
| `session_bundle` (SessionBundle.cfg) | `BundleIsConsistent`, `SavesGoForward`, `TurnSeesAll` | Two processes over one bundle, with turns, a rewind, saves outside a turn, a failed read or write and a crash between the two files: no save drops a turn its State never saw, every turn begins on the whole transcript, the count that is trusted is right, and neither the cache of encoded histories nor the stamp lies. |
| `permission_gate` (PermissionGate.cfg) | `OneOutcome`, `RunsOnce`, `BatchIsWhole` | A batch of calls that ask, answers that come early, late, twice or to another process, prompts given up, stops, new prompts and a crash: no call runs twice, none has two outcomes, and the calls and results of a batch stay whole. |
| `mcp_pool` (MCPPool.cfg) | `ConnectionIsConsistent`, `NoneStranded`, `CloseLeavesNothing` | Two sessions that acquire and release one server while starts fail, time out or answer late, delays expire, the configuration lets it go, the server dies, and the pool closes: a held or kept server is never stopped, no server is started beside a usable one or left running unseen, and a closed pool has nothing behind it. |
| `subagent_run` (SubagentRun.cfg) | `ChildIsConsistent`, `KeptWithinProcess`, `DeletedStaysGone` | Three calls that spawn and resume one child in two processes, stopped and refused at any point, around a deletion of the child or of its parent: slots are given back, one run writes the transcript, nothing takes the live entry from a run, no half-built child is left, no run takes from the transcript what its own process wrote, and a bundle that a deletion removed is not brought back by a run of its process. |

Seven of these names are conjunctions of the parts defined above them in their module, type
invariant included: `PoolIsConsistent`, `NothingLeftRunning`, `QueueIsConsistent`,
`SurfacesAreConsistent`, `BundleIsConsistent`, `ConnectionIsConsistent`, `ChildIsConsistent`;
`HistoryIsKept`, `StopsEnd`, `ShownOnce`, `WordIsHeard` and `SavesGoForward` join properties of
steps and of behaviours. The type invariants of `TurnLock`, `BackgroundWaker`, `TurnAdmission`,
`ReActLoop` and `PermissionGate`, and `BudgetHonest`, `DeletionReachesTurns`,
`UnansweredBounded`, `StoppedAfterCorrection`, `RunsOnlyAllowed`, `GateIsOpen` and
`BegunIsNotOffered`, are theorems for every value of the constants (section 6); the runs do not
repeat them, and naming one in the configuration of its module checks it on the same instance.

## 4. Bounds

Every bound is a constant of its module, declared with the word *bound*.

| Module | Instance | Why it is enough |
| --- | --- | --- |
| TurnLock | two attempters in two processes, one of which cannot signal the other, one prober, three inodes, three attempts each | the loss of exclusion needs an owner, an attempt that unlinks and one that locks afresh, all of which two attempters with several attempts play; three inodes let a name be lost and made again twice |
| TaskPool (safety) | two tasks under a limit of one, one death and one restart, kills that may fail, a shutdown that may be reopened, reapings of one of the tasks (`Reapable`) | one task is launched while the other settles, so every pair of critical sections meets; numbers and records are compared across the death; a reaping treats every task alike, and the task it spares meets it only through the limit |
| TaskPool (liveness) | one task of the runtime with a deadline, a death and a restart, kills that succeed | the promises are about one task; with kills that fail they do not hold (section 8) |
| BackgroundWaker | three tasks, two wakes | a batch of two can be in flight while the third completes, and the budget runs out with an outcome left |
| TurnQueue | three messages, a cap of two, one follow-up and one deferred run, two turns, announcements that overtake each other | the cap is hit, both bounds are exhausted, a message of one turn meets the next |
| TurnAdmission | two turns, two deletions, one request, two incarnations, one Stop, a surface that lets go | marks overlap; a turn starts while another ends; a stale `State` and its successor exist together |
| ReActLoop | two steps, one of everything else, one follow-up, one call in an answer | every budget is exhausted while another is not, and a recovery falls on the last step; the proofs are about any limits |
| SessionBundle | two processes, two messages, one turn outcome, one save beside a turn, one rewind, one fault, one crash | a State is behind by one turn, its cache entry by one write, and the crash or the fault falls between the two files |
| PermissionGate | two processes, two calls, three answers, one stop, one more prompt, one prompt asked again, two crashes | a late and a duplicate answer meet the second call; a process dies in the middle of the resume of what another died in |
| SubagentRun | three calls, two processes, one deletion, a limit of two | a spawn, its resume and a resume from the other process are in flight around the deletion |
| MCPPool | two sessions, two starts, two acquisitions, two keeps, one change of the configuration, one death | a late answer of the first start meets the second; the count goes to two; every pair of critical sections meets |
| Supervisor | three kinds (one not built in), four configurations, two stored, two workers | a change that rebuilds, one that turns off, one that is refused and one that needs a new process, in any order |

`TaskPool.cfg` and `TurnAdmission.cfg` use a VIEW. It hides what no later step and no
property of the run reads: who waits for a Stop, how a task that has its outcome came
by it, and what a turn that is over had resolved. `TurnAdmission.cfg` uses symmetry
over turns and over deletions, `SessionBundle.cfg` over processes, `PermissionGate.cfg`
over processes and answers, `SubagentRun.cfg` over processes and calls, `MCPPool.cfg`
over sessions and starts; these check no liveness. `CHECK_DEADLOCK FALSE` is set
because the environment may stop for good: tasks, turns and messages are used up,
and a stopped dispatcher stays stopped.

## 5. Fairness

Safety runs assume none. Weak fairness is assumed of steps that a goroutine, once
started, takes without waiting for anybody: the steps of an acquisition (TurnLock), of
`start`, `supervise`, a kill and a returning Stop (TaskPool), of the drain goroutine,
its clock and the watcher (BackgroundWaker), of a turn's admission, its end and its
poll (TurnAdmission), of the loop of a turn and of a provider call, which ends because
`resilient.go` puts a timeout on silence (ReActLoop), of the supervisor's loop and the
report of a failure (Supervisor). The Go scheduler is fair to runnable goroutines and timers
expire. Nothing is assumed of users, operating-system processes, crashes, or the
length of a run: a user's turn, a task or a model call may last for ever, and
`OutcomeSettles`, `DeadlineEnds`, and `StopSettles` and `ShutdownEnds` (`StopsEnd`) hold
regardless; so do `StopIsFinal` and `FailureIsFatal` (`WordIsHeard`), although a surface
need never end.

## 6. Proofs

Checked by TLAPS for every value of the constants.

**TurnLock** (`TypeCorrect`, `ExclusionUntilStrayed`). Assumed: `Hidden` is a set of pairs of
processes, attempters run in processes, the markers `NoFile`, `Nobody`, `Blank` are no inode, no
attempter and no process, at least one attempt. Exclusion alone is not inductive:
nothing in it says that two owners look at one file. The invariant adds that a
descriptor is open exactly from open to unlock (`DescriptorInv`), that past the flock
an attempter owns the inode it has open (`OwnerInv`), that until something strays every
open descriptor leads to the inode the name leads to (`SameFileInv`), and the attempt
counter (`TriesInv`). Two owners then own one inode, and an inode has one owner. An unlink
under an owner whose stamp was read never happens (`ReadInv`): the file of a holder has its PID in
it (`StampInv`), so that PID is what the check probed, and it goes on to unlink only when the
process is dead, which then has no descriptors and acts no more (`DeadInv`), or hidden from it.

**BackgroundWaker** (`TypeCorrect`, `QueueIsServed`, `NoOutcomeVanishes`,
`RefundsAreExact`). Assumed: finitely many tasks, a natural budget. `ControlInv` ties
the draining flag, the batch and the turn to where the goroutine stands; `BatchInv`
says that only finished tasks travel. With them the properties are inductive
together: the flag and the queue change in one critical section everywhere but after a
failed turn, which is what the exception of `PendingIsServed` names. `RefundsAreExact` is
`BudgetHonest`: a wake is spent on a turn that ended well, on a batch a shutdown kept from its
turn (`unpaid`), or by the attempt in flight; every other end of an attempt pays it back, once.

**TurnAdmission** (`TypeCorrect`, `RemovalFindsNobody`, `DeletionTellsTurns`,
`EdgesAddUp`, `StopsAreDelivered`). Assumed: finitely many turns and deletions, at least
one incarnation. `MarksInv` says that marks count the deletions under way: this is what
makes overlapping deletions safe, and a flag in its place fails (mutant `UnmarkAll`).
`SettledInv`: once a deletion has stopped waiting nobody is past admission; it is kept
because with a mark up the second `admissible` refuses. `LockInv` and `CancelInv`: the
turn that holds the session is the one its State cancels, so a deletion that marks
before it cancels reaches it. `BuiltInv` and `LoadInv` keep a stale State apart from a
loaded one. `BalanceInv` is the ledger behind `EdgesBalance`: what was published is the
state of the session less what is still owed.

**ReActLoop** (`TypeCorrect`, `EveryCallHasAResult`, `StepLimitIsEarned`,
`RetriesAreShared`, `VerdictFollowsCorrection`, `NoFollowUpDangles`, `ShownIsNotRepeated`).
Assumed: the limits
are natural numbers, at least one step and one call in an answer. `StepsCounted`
balances the counters of the code, `turn` less `recoveryTurns`, against the answers that
really were steps; `AllowanceCounted` adds what was attempted to what is left of the
allowance, place by place, where a pause and a reissue differ by one; `CorrectionSent`
says that a request with repeats in its window carried the correction; `UnreadHasAStep`
that a user message is read only where a request is still to come. Each property follows
from its conjunct and `CountersTyped`. `ShownIsNotRepeated` is about steps. It adds
`AnswersFollowed`: until the next request either the slice was changed or what was shown is paid
for (`ReplayIsPaid`: no answer, reasoning only out of the step's re-issue, rows only out of its
retries or a wait for a limit), a call starts with an allowance and an unchanged slice, and a
half answer waits for the queue only where a retake of the settings lets it be read.
`FollowedStep` keeps it, `QueueReadStep` uses it.

**PermissionGate** (`TypeCorrect`, `OnlyAllowedCallsRun`, `OutcomeIsOne`, `CallsRunOnce`,
`RecordIsOpen`, `BegunIsHidden`, `BatchesAreWhole`). Assumed: finite sets of processes and
of answers, a batch of at least one call. The invariant says at each place of a turn what the
record names (`Recorded`), which calls have results (`Undecided`, `Behind`, `GateBehind`,
`PostsBehind`), that runs, results and deaths add up for every call (`RunsCounted`), that a
wait and what is in its channel belong to the prompt of the turn (`WaitIsOfTurn`), and
where an allowing verdict came from (`TurnGiven`, `InboxGiven`, `PostsGiven`).
`RunsCounted` is why a crash is in the properties: a process may die between the run of a
call and its result.

**TurnQueue** (`QueueStaysConsistent`, `NoSteerIsStranded`, `ClientsConverge`,
`DeferredMessagesStay`). Assumed: the bounds are natural numbers; nothing of the clients.
None of the four is inductive. `QueueInv` adds where the turn's goroutine stands
(`TurnStands`: what is open, installed and in hand), what a run was charged (`RunsCharged`),
that the five places of a message share none and make up all that was accepted, each row
once (`EachPlaced`), and that no answer is ahead of the queue (`VersionsTell`).
`ToldOrPending` is what convergence rests on: either some answer tells the queue as it is
and none that would win over it tells anything else, or somebody still has to announce - the
turn, an edit on its way, an acceptance while the queue is open, a recheck that will find it
shut. The second look of an edit is needed exactly there: its notifier may have gone. Rows
are counted without an induction: `PlacesAreNumbered` shows that the places of a mode,
taken by how many lie before them, are all of them, in order, once, by cardinality, and the
lemmas after it say so of the rows a drain takes and leaves.

**TaskPool** (`Invariance`, `PoolConsistent`, `HistoryKept`, `NothingLeft`,
`PoolImplementsLife`). Assumed: a bound on task numbers and on deaths, a limit of at least
one. Neither the limit nor the finality of records is inductive, since nothing in them ties
a record to the task that writes it. The invariant walks the goroutine of a task and says
what its place means for its status and for what the pool holds (`StatusFollows`), for the
record (`RecordFollows`: none, then running, then the outcome of that status) and for the
process (`ProcFollows`); `Numbered` keeps every directory under the counter once the
bundle was read, which is why a number is not handed out twice after a restart;
`DownIsBlank` says what a death leaves.
A reaping is outside all of this, for it holds nothing: `ReapFollows` says what it may know of a
task, and the record of a task it met is that task's outcome or stopped, whoever wrote last
(`Marred`). `NothingLeft` adds `ShutdownCovers`: a shutdown has
listed every running task or waits for it. It has the hypothesis `~KillMayFail`, as its run
has: when `Handle.Stop` fails the property is false of the code (section 8).
`PoolImplementsLife` maps every action to a step of `TaskLife` or a stutter: `View` of each
task is computed before and after (`Shows`), and only a death takes an outcome back, or a
reaping: `Wavers` and `DoubtKept` say which tasks it can and that a task once in doubt stays so.

**MCPPool** (`Invariance`, `ConnectionConsistent`, `NoneLeftStranded`, `CloseLeft`).
Assumed: finitely many callers and starts, `NoEntry` names no start. `Shaped` says what the
goroutine of a start and the flags of its entry mean for its server: up and owed to nobody,
or ended and on its way to be closed. `TimerIffUnneeded` is the promise of the delay: a
timer runs exactly for a live connection without users that is not kept. `RefsCounted`, the
count being the number of callers that use the entry, needs `CallersKnow`, and finiteness,
as one caller more or less must change a cardinality by one. `UsedEnded` is why a lease is
safe although entries are taken off the map under it: only Close or a death does that.
`CloseSaw` says what `Close` waits for; the exception in `CloseLeavesNothing` is what it
cannot see.

**SubagentRun** (`Invariance`, `ChildConsistent`, `KeptWithin`, `DeletedStays`). Assumed:
finitely many calls, a natural limit, and that the markers (`NoCall`, `NoProc`, `Copy`,
`Nothing`) are no calls and no processes. `OneInFlight`, one call of a process at a time, and
`EntryIsInFlight` and `LockHeld` place every run against the live entry and the turn lock;
`FromTheNew` says that whatever exists of the child came from the one call that makes it;
`SlotsExact` is a cardinality and needs the finiteness. `ReadIsFresh` carries
`KeptWithinProcess`: what a run has read holds all its process wrote, up to the write that
relies on it. For `DeletedStaysGone` the invariant follows a deletion (`Marks`, `Halts`):
what it marked, that it stops what was published, that this is over when it removes the
bundle; `GoneStays` then says that no run of that process could still make it.

**SessionBundle** (`BundleStaysConsistent`, `SavesNeverGoBack`, `TurnsBeginOnAll`).
Assumed: finitely many processes, `Nobody` is none of them, natural bounds. Finiteness is
needed because a new version must differ from every version anything refers to:
`FreshIsUnused` counts what refers to one. `BundleInv` says of every process that its
histories name appended messages, each once (`HistoriesProper`), who saves under which lock
(`TurnsExclude`, `OneSaves`), what the flags of a cache entry are worth (`CacheTells`: with
the file's version it is the file, unmoved it is the history, unedited a prefix of it),
what a save between its two files has written (`SavesTell`), when the stamp of a State is
true of the file (`StampTells`), that inside a turn nothing of the transcript is news
(`NothingUnseen`) and that only the turn that runs is ahead of the counter on disk
(`TurnsCounted`). None stands alone: a splice is right because of the cache, the cache
because the history moves only with its flag, a refresh because of the stamp. The two
theorems about steps look at `WriteMessages`, `WriteMeta` and the entry of a turn from it.

**Supervisor** (`SurfacesStayConsistent`, `TwinsHadTheirDrain`, `ConfigIsAppliedWhole`).
Assumed: kinds are declared once, the sets of kinds and configurations are of declared
kinds, natural bounds and at least one life. `SupInv` follows the walk over a configuration:
the kinds before the one it is at are settled, with at most one of them kept though it is
off, and something runs (`WalkSettles`); at the end of the walk this is `AppliedWhole` and
`NeverEmpty`. An instance is told to stop by the walk alone, which waits for it
(`StopsWatched`): so a goroutine at work that was told to stop, and is not waited for,
outlasted its drain. `InstsPaid` bounds the list of instances by the configurations stored,
one still in the channel or being walked having paid for the instances it may start;
`EndsFor` says why a worker comes to its end; which kinds a worker starts with, and that
there is one of each, is `FirstKindsListed`.

## 7. Findings

PROJECT.json lists none: its runs are spent on what holds. Where the code does not do what a
comment or a document of the repository says, the statement is kept in its module and listed in
the next section with the lines that disagree; the passing runs check what holds in its place.

## 8. Known not to hold

Statements of the modules that TLC refutes and no run checks; each is defined in its
module and can be checked by naming it in a configuration. `StopSettles` of TaskPool
fails with `KillMayFail = TRUE`, and `CutStaysCut` to `RunsAreKept` fail in the instances of
section 4.

| Statement | Trace |
| --- | --- |
| `TurnLock!Exclusive` | An attempt refused by flock reads the lock file by name and unlinks it when it is empty (manager_turn_lock_unix.go:102). Its new owner may be between flock (:69) and WriteAt (:88): the name goes, and the next attempt locks a fresh file. manager.go:1156: "acquires the exclusive per-session turn lock" |
| `TaskPool!StopSettles` with kills that may fail | when `Handle.Stop` fails the claim stays (pool.go:662): a later Stop and the deadline (:486) claim nothing, and Stop waits at :669 for a task nobody will terminate. pool.go:645: "terminates a running task and waits for it to settle" |
| `TaskPool!RunningIsLeftAlone` | `ClearFinished` lists the live tasks (pool.go:866) before it reads the records (:870); a task registered in between reads as orphaned and its directory is removed. pool.go:828: "Running tasks are left alone." |
| `BackgroundWaker!NoStranded` | after a failed `startTurn` the flag is cleared without a look at the queue (background_notify.go:234): a completion appended meanwhile has no goroutine, which :194 says is avoided |
| `TurnAdmission!DeletedIsGone` | the mark refuses turns and nothing else: a load registers its State after the live entry was dropped (manager.go:1788), and a save that opened its lock before the removal writes after it (filesystem.go:1673). subagent.go:895: "in an order that leaves no writer behind" |
| `TurnAdmission!StopIsHeard` | a turn clears the cancel marker after it took the lock (manager.go:1446): a marker written in between is erased unread. docs/reference/http-api.md:162 |
| `ReActLoop!CutAnswerNotSplit` | a retake of the step goes back to the queue read after `replaying` was lowered (react.go:940, :1035): a follow-up stands between a half answer and its continuation, which :926 says it must not |
| `ReActLoop!OutputNotReplayed` | `hasAnyOutput` counts text and reasoning (react.go:1393): a Codex call announced mid-stream (codex.go:198) before the transport broke (:293) leaves it false, and the same request is sent again (react.go:1717-1725); so is that of an empty answer whose reasoning was watched (:1874-1889). :1386: "a call that delivered anything never may" be replayed |
| `Supervisor!ApiGoesLast` | every surface runs under a child of one context, so a signal ends all of them at once, and `shutdown` only waits. supervisor.go:319: "the API is the last thing to go" |
| `SessionBundle!CutStaysCut` | `diskHistoryIsNewer` takes a file with a proper prefix of the history in memory for older (disk_refresh.go:192): after a rewind another process's next save writes the dropped messages back. docs/features/sessions.md:87 |
| `PermissionGate!AnswerDecides` | an answer acknowledged from the record resumes a turn that may find the call settled, the batch gone or a newer message: it allowed what then does not run |
| `MCPPool!CloseWaitsForAll` | a caller takes a dead server off the map (pool.go:328) and `Close` runs before its watcher: `Close` returns while the process group is still to be closed |
| `SubagentRun!RunsAreKept` | a task of another process reads as orphaned, so `findResumeTarget` (agent/subagent.go:1346) lets its child be resumed while it works. The resumed run reads the transcript, the other run writes and ends, the resumed run takes the lock and saves what it read. session/subagent.go:427: such a run "is refused at that lock with nothing of its own on disk" |
| `TurnLock!BusyMeansTurn` | `TurnLockHeld` takes LOCK_SH (manager_turn_lock_unix.go:53); an acquisition that comes in meanwhile is refused and answers `ErrSessionTurnBusy` although no turn runs (turn_busy.go:5 says another turn holds the lock) |
| `TaskPool!OverMeansExited` with kills that may fail | `ReapSurvivors` ignores the error of the kill (pool.go:779) and records the task as stopped, so the survivor is never offered again (pool.go:770 "terminates every survivor of a session") |
| `TaskPool!OrphanMeansOwnerGone` | `ReleaseSession` (pool.go:971) between the settling of a task and the write of its record: a listing calls it orphaned while its process lives (persist.go:57) |
| `TaskPool!OnlySurvivorsReaped` | `Survivors` lists the live tasks (pool.go:746) before it reads the records (:751): a task launched in between has a record that says running and reads as orphaned, is killed, and recorded as stopped (:784) before or after its supervisor records what it saw. pool.go:734-736: survivors are "the only tasks the pool itself cannot stop" |
| `BackgroundWaker!NobodySkipped` | a shutdown between the waker's look at the draining flag (background_notify.go:262) and the turn's own (serve/wake.go:95, background_http.go:58): nil comes back without a turn, :281 takes it for one, and the batch is neither told nor given up. :191: "a task that finished has an outcome the model was promised" |
| `BackgroundWaker!CapCountsWokenTurns` | the same return is not refunded. background_notify.go:338: "The cap counts turns the model was actually woken into", so a shutdown "must not spend one" |
| `BackgroundWaker!LoopNeverDrops` | at the cap the loop deletes the batch (background_notify.go:216-222), although :190 says a batch is only given up on by `startTurn` |
| `BackgroundWaker!NoRedundantWake` | collected results are filtered before the turn lock is asked for (:272); a turn granted the lock first collects them all and the woken turn has nothing to tell (pool.go:220) |
| `BackgroundWaker!WakesBounded` | every error but busy is refunded (:286), also that of a turn that reached the model, so the turns exceed `maxWakesPerSession` (:18) |
| `TurnQueue!QueueBounded` | `ReturnQueuedMessages` puts a batch back on a queue that was refilled meanwhile (turn_queue.go:476, cap at :16) |
| `TurnQueue!AfterTurnInOrder` | a steer batch over its bound is put back before older after_turn rows (manager.go:1595); switched to after_turn before the close, it is taken first (turn_queue.go:433 "in the order they were queued") |
| `TurnAdmission!OneWriter` | a console or a chat lets go of a session whose turn runs (manager.go:934), a load builds a second State: two writers of one bundle (manager.go:1784) |
| `TurnAdmission!LastEdgeTells` | the counter is released before the edge is delivered (turn_active.go:85-90): the started edge of the next turn can overtake the ended edge of the last, and a watcher ends up believing a busy session idle; within one turn the order of turn_events.go:134 holds |

Two properties of `SubagentRun` say what holds for any number of calls and processes, and
no more. A message another process took out (`RunsAreKept`) can come back with that
process's State and be lost again by a write of the first: `KeptWithinProcess` therefore asks
who wrote last. And after one process deleted a child, a run of a second can bring it back,
a run of the first take it up again, and outlive a deletion by the second: `DeletedStaysGone`
therefore speaks of the process whose deletion removed the bundle that is missing.

Not statements of a module, and met in `SessionBundle`: a `messages.json` that cannot be
read opens as an empty session and the next save overwrites it (filesystem.go:625); a failed
save leaves a State for which both divergence guards are off; a save of a State that is not
stale rewrites `session.json` whole and undoes another process's change of it.

A poll that has seen the cancel file and whose turn ends before it acts calls `Cancel`
of the State (manager_cancel_poll.go:26), which by then may hold the cancel of the next
turn of the session: in `TurnAdmission` this is `PollCancels` after `SetCancel` of
another turn.

## 9. What is only model-checked, and what is not modelled

Only model-checked: the liveness properties - `AcquisitionEnds`, `StopsEnd`, `DeadlineEnds`,
`OutcomeSettles`, `TurnEnds`, `WordIsHeard` -, since liveness and `ENABLED` are out of the
prover's reach. Every invariant and every property of steps that a run checks is stated by a
theorem of section 6. What a recursive definition computes for every input is an induction
the prover cannot do either; the modules are written so that no theorem needs one.

Not modelled, per component, with the reason: see `components` in PROJECT.json.
In short: front ends, tools, text and format conversions keep no state that others
interleave with, and they are most of the lines of the repository; the Windows and stub
builds of the turn lock use other calls; the event hub, the scheduler, the swarm relay, the
remote client and the configuration editor have concurrent state of their own and are
the candidates of section 10. Of the modelled components, abstracted away are the contents
of messages, records and logs, times (a deadline elapses at any moment), and sessions other
than the one at hand, except where they share a counter.

## 10. Plan

Done: the modules of section 2 and the proofs of section 6. Left, in order:

1. `EventsHub`: bounded subscribers, dropped frames, the snapshot that repairs them, with
   the edges of TurnAdmission: a client that reads a snapshot after the last edge agrees
   with `activeTurns`.
2. `Scheduler` (claim of a due job, overlap), `SwarmRegistry` (names, reconnects).
3. Compositions: TaskPool with BackgroundWaker (`Notify` is `OnSnapshot`), TurnAdmission
   with TurnLock in place of its one bit (as a refinement), SubagentRun with TaskPool.
