----------------------------- MODULE Supervisor -----------------------------
(***************************************************************************)
(* `foxxycode serve`: one worker process whose supervisor runs a surface   *)
(* per enabled kind, rebuilds the ones a new configuration moved, and ends *)
(* the process over a failure, a signal or a change only a fresh process   *)
(* can adopt; and the dispatcher that starts the worker again.             *)
(*                                                                         *)
(* internal/serve/supervisor.go, subsystem.go, dispatcher.go, daemon.go,   *)
(* cmd/foxxycode/serve.go.                                                 *)
(*                                                                         *)
(* A surface is a goroutine that may fail on its own, stop when its        *)
(* context ends, or outlast the drain it is given.  A configuration says   *)
(* which kinds are on, what each is built from (its fingerprint) and where *)
(* each listens (its restart key).                                         *)
(***************************************************************************)
EXTENDS Integers, Sequences, FiniteSets

CONSTANTS
  Subs,          \* the kinds in their declared order, the HTTP API first
  Available,     \* the kinds this binary was built with
  Rebuildable,   \* the kinds with a Fingerprint: rebuilt in place
  NeedsSessions, \* the kinds that run agent turns
  Configs,       \* records [on, print, key]: a set of kinds, two functions of kinds
  Restartable,   \* whether a dispatcher waits to start the process again
  MaxReloads,    \* bound: configurations stored after the start
  MaxLives       \* bound: workers started

Kinds == {Subs[n] : n \in 1..Len(Subs)}

ASSUME SubsAssumption ==
  /\ Subs \in Seq(Kinds) /\ Len(Subs) > 0
  /\ \A m, n \in 1..Len(Subs) : Subs[m] = Subs[n] => m = n
ASSUME KindsAssumption ==
  Available \subseteq Kinds /\ Rebuildable \subseteq Kinds /\ NeedsSessions \subseteq Kinds
ASSUME ConfigsAssumption ==
  Configs \subseteq [on : SUBSET Kinds, print : [Kinds -> 0..1], key : [Kinds -> 0..1]]
ASSUME BoundsAssumption ==
  Restartable \in BOOLEAN /\ MaxReloads \in Nat /\ MaxLives \in Nat \ {0}

NoInst == 0
\* Bound: a worker starts every kind once, and once more for each configuration.
MaxInsts == Len(Subs) * (MaxReloads + 1)

VARIABLES
  file,        \* the newest configuration stored: on disk and in the live pointer
  reloads,     \* the one-slot channel to the supervisor, a set of at most one
  adopted,     \* the configuration the last completed applyConfig went through
  at, next,    \* applyConfig / shutdown: the kind being looked at, the configuration
  phase,       \* the supervisor: "down", "select", "apply", "shutdown"
  stopping,    \* the instance Supervisor.stop waits for, or NoInst
  rebuild,     \* whether that stop is followed by a start
  insts,       \* the instances of this worker, in the order they were started
  running,     \* Supervisor.running: the instance of each kind, or NoInst
  ctxDone,     \* the context of Run has ended
  failures,    \* errors waiting in the failures channel
  runErr,      \* the first failure has been read
  wantRestart, \* Run goes on to return ErrRestartRequested
  sessionless, \* this worker opened no session store
  signalled,   \* the operator told this worker to stop
  exit,        \* how the last worker ended: "none", "clean", "restart", "failed"
  dispatcher,  \* "running", "pausing", "stopping" or "stopped"
  stored, lives

supervisorVars == <<adopted, at, next, phase, stopping, rebuild, insts, running, ctxDone,
                    failures, runErr, wantRestart, sessionless, signalled>>
supVars == <<file, reloads, supervisorVars, exit, dispatcher, stored, lives>>

-----------------------------------------------------------------------------
(* What a configuration asks for. *)

\* Resolve: every kind asked for is built in, and at least one is asked for.
Resolves(c) == c.on # {} /\ c.on \subseteq Available

Instance(k, c) == [kind |-> k, print |-> c.print[k], key |-> c.key[k],
                   st |-> "up", cancelled |-> FALSE, overstayed |-> FALSE]

\* The kinds asked for that only a fresh process can give: needsFreshProcess.
NeedsFresh(c) ==
  {k \in c.on :
     IF running[k] = NoInst
     THEN k \in Available /\ k \in NeedsSessions /\ sessionless
     ELSE insts[running[k]].key # c.key[k]}

Live(i) == insts[i].st # "done"
Cancelled(i) == insts[i].cancelled \/ ctxDone
Running == {k \in Kinds : running[k] # NoInst}

-----------------------------------------------------------------------------
(* The process. *)

SupInit ==
  /\ file \in {c \in Configs : Resolves(c)}
  /\ reloads = {} /\ adopted = file
  /\ at = 0 /\ next = file /\ phase = "down" /\ stopping = NoInst /\ rebuild = FALSE
  /\ insts = <<>> /\ running = [k \in Kinds |-> NoInst]
  /\ ctxDone = FALSE /\ failures = 0 /\ runErr = FALSE /\ wantRestart = FALSE
  /\ sessionless = FALSE /\ signalled = FALSE
  /\ exit = "none" /\ dispatcher = "running" /\ stored = 0 /\ lives = 0

\* The kinds asked for, in declared order, as the instances Run starts with.
FirstKinds(c) ==
  LET asked == {n \in 1..Len(Subs) : Subs[n] \in c.on \cap Available} IN
  [p \in 1..Cardinality(asked) |->
     Subs[CHOOSE n \in asked : Cardinality({m \in asked : m <= n}) = p]]

\* A worker comes up on the file: Resolve, the session store if a surface needs one,
\* then one instance per enabled surface.
StartWorker ==
  /\ phase = "down" /\ dispatcher = "running" /\ lives < MaxLives
  /\ exit = "none" \/ Restartable
  /\ lives' = lives + 1
  /\ reloads' = {} /\ signalled' = FALSE
  /\ IF Resolves(file)
     THEN LET first == FirstKinds(file) IN
          /\ phase' = "select"
          /\ insts' = [n \in 1..Len(first) |-> Instance(first[n], file)]
          /\ running' = [k \in Kinds |->
               IF \E n \in 1..Len(first) : first[n] = k
               THEN CHOOSE n \in 1..Len(first) : first[n] = k ELSE NoInst]
          /\ sessionless' = (file.on \cap NeedsSessions = {})
          /\ adopted' = file /\ exit' = "none"
          /\ UNCHANGED dispatcher
     ELSE /\ exit' = "failed"
          /\ dispatcher' = IF Restartable THEN "pausing" ELSE "stopped"
          /\ UNCHANGED <<phase, insts, running, sessionless, adopted>>
  /\ next' = file
  /\ UNCHANGED <<file, at, stopping, rebuild, ctxDone, failures, runErr, wantRestart, stored>>

\* A settings form, config_commit, an edited file: the live configuration is replaced
\* and offerNewest leaves the newest one in the slot.
Store(c) ==
  /\ stored < MaxReloads /\ c # file
  /\ stored' = stored + 1 /\ file' = c
  /\ reloads' = IF phase = "down" THEN {} ELSE {c}
  /\ UNCHANGED <<supervisorVars, exit, dispatcher, lives>>

\* SIGTERM to the worker: the context Run derives its own from ends.
Signal ==
  /\ phase # "down" /\ ~signalled
  /\ signalled' = TRUE /\ ctxDone' = TRUE
  /\ UNCHANGED <<file, reloads, adopted, at, next, phase, stopping, rebuild, insts, running,
                 failures, runErr, wantRestart, sessionless, exit, dispatcher, stored, lives>>

\* Mutant: a worker that fails while it is being stopped is replaced.
EndWorkerAlwaysReplaced(how) ==
  /\ exit' = how
  /\ phase' = "down" /\ insts' = <<>> /\ running' = [k \in Kinds |-> NoInst]
  /\ reloads' = {} /\ stopping' = NoInst /\ rebuild' = FALSE /\ at' = 0
  /\ ctxDone' = FALSE /\ failures' = 0 /\ runErr' = FALSE /\ wantRestart' = FALSE
  /\ sessionless' = FALSE
  /\ dispatcher' = CASE ~Restartable \/ how = "clean" -> "stopped"
                     [] how = "restart" -> "running"
                     [] OTHER -> "pausing"
  /\ UNCHANGED <<file, adopted, next, signalled, stored, lives>>

\* The worker is gone and every goroutine with it.  The dispatcher takes a clean exit
\* for the operator's word, starts a replacement at once when one was asked for, and
\* waits out a failure.
EndWorker(how) ==
  /\ exit' = how
  /\ phase' = "down" /\ insts' = <<>> /\ running' = [k \in Kinds |-> NoInst]
  /\ reloads' = {} /\ stopping' = NoInst /\ rebuild' = FALSE /\ at' = 0
  /\ ctxDone' = FALSE /\ failures' = 0 /\ runErr' = FALSE /\ wantRestart' = FALSE
  /\ sessionless' = FALSE
  /\ dispatcher' = CASE dispatcher = "stopping" \/ ~Restartable \/ how = "clean" -> "stopped"
                     [] how = "restart" -> "running"
                     [] OTHER -> "pausing"
  /\ UNCHANGED <<file, adopted, next, signalled, stored, lives>>

\* A panic that escaped, an OOM kill.
WorkerCrash == phase # "down" /\ EndWorker("failed")

PauseEnds ==
  /\ dispatcher = "pausing" /\ dispatcher' = "running"
  /\ UNCHANGED <<file, reloads, supervisorVars, exit, stored, lives>>

\* SIGTERM to the dispatcher: it signals the worker, waits for it, and stops.
StopDispatcher ==
  /\ Restartable /\ dispatcher \in {"running", "pausing"}
  /\ IF phase = "down"
     THEN dispatcher' = "stopped" /\ UNCHANGED <<signalled, ctxDone>>
     ELSE dispatcher' = "stopping" /\ signalled' = TRUE /\ ctxDone' = TRUE
  /\ UNCHANGED <<file, reloads, adopted, at, next, phase, stopping, rebuild, insts, running,
                 failures, runErr, wantRestart, sessionless, exit, stored, lives>>

-----------------------------------------------------------------------------
(* A surface. *)

\* Run returns on its own, an error or nil: that is a failure.
Fail(i) ==
  /\ insts[i].st = "up" /\ ~Cancelled(i)
  /\ insts' = [insts EXCEPT ![i].st = "failing"]
  /\ UNCHANGED <<file, reloads, adopted, at, next, phase, stopping, rebuild, running, ctxDone,
                 failures, runErr, wantRestart, sessionless, signalled, exit, dispatcher,
                 stored, lives>>

\* The failure goes into a channel as long as the list of subsystems.
Report(i) ==
  /\ insts[i].st = "failing" /\ failures < Len(Subs)
  /\ failures' = failures + 1
  /\ insts' = [insts EXCEPT ![i].st = "done"]
  /\ UNCHANGED <<file, reloads, adopted, at, next, phase, stopping, rebuild, running, ctxDone,
                 runErr, wantRestart, sessionless, signalled, exit, dispatcher, stored, lives>>

\* The surface leaves when its context ends; what it returns is noise.
Leave(i) ==
  /\ insts[i].st = "up" /\ Cancelled(i)
  /\ insts' = [insts EXCEPT ![i].st = "done"]
  /\ UNCHANGED <<file, reloads, adopted, at, next, phase, stopping, rebuild, running, ctxDone,
                 failures, runErr, wantRestart, sessionless, signalled, exit, dispatcher,
                 stored, lives>>

-----------------------------------------------------------------------------
(* Supervisor.Run. *)

Idle == phase = "select"
rest == <<file, exit, dispatcher, stored, lives>>

ContextEnds ==
  /\ Idle /\ ctxDone
  /\ phase' = "shutdown" /\ at' = Len(Subs)
  /\ UNCHANGED <<rest, reloads, adopted, next, stopping, rebuild, insts, running, ctxDone,
                 failures, runErr, wantRestart, sessionless, signalled>>

ReadFailure ==
  /\ Idle /\ failures > 0
  /\ failures' = failures - 1 /\ runErr' = TRUE /\ ctxDone' = TRUE
  /\ UNCHANGED <<rest, reloads, adopted, at, next, phase, stopping, rebuild, insts, running,
                 wantRestart, sessionless, signalled>>

\* A configuration is taken from the slot.  What only a fresh process can adopt is weighed
\* before anything moves: refused whole, left to the replacement, or applied in place.
ReadReload ==
  /\ Idle /\ reloads # {}
  /\ \E c \in reloads :
       LET fresh == NeedsFresh(c) # {} IN
       /\ next' = c
       /\ CASE fresh /\ ~Resolves(c) -> UNCHANGED <<phase, at, wantRestart>>
            [] fresh /\ Resolves(c) /\ Restartable ->
                 wantRestart' = TRUE /\ phase' = "shutdown" /\ at' = Len(Subs)
            [] OTHER -> phase' = "apply" /\ at' = 1 /\ UNCHANGED wantRestart
  /\ reloads' = {}
  /\ UNCHANGED <<rest, adopted, stopping, rebuild, insts, running, ctxDone, failures, runErr,
                 sessionless, signalled>>

\* Supervisor.start for the kind at hand.
StartInst(k, list) ==
  /\ insts' = Append(list, Instance(k, next))
  /\ running' = [running EXCEPT ![k] = Len(list) + 1]

Starts(k) ==
  /\ running[k] = NoInst /\ k \in next.on \cap Available
  /\ ~(k \in NeedsSessions /\ sessionless)

\* The only surface running is kept, and said to be, when a configuration turns it off.
StopsOff(k) == running[k] # NoInst /\ k \notin next.on /\ Cardinality(Running) > 1

\* A listener that moved is not rebuilt under the caller talking through it.
Rebuilds(k) ==
  /\ running[k] # NoInst /\ k \in next.on \cap Rebuildable
  /\ insts[running[k]].key = next.key[k] /\ insts[running[k]].print # next.print[k]

Acts(k) == Starts(k) \/ StopsOff(k) \/ Rebuilds(k)

\* The kinds the walk still has to act on.  Only the supervisor's own state decides, so the
\* ones it passes over are no step.
Turn == IF phase = "apply" THEN {n \in at..Len(Subs) : Acts(Subs[n])}
        ELSE {n \in 1..at : running[Subs[n]] # NoInst}
AtTurn(n) ==
  /\ stopping = NoInst /\ n \in Turn
  /\ \A m \in Turn : IF phase = "apply" THEN n <= m ELSE m <= n

ApplyStart ==
  /\ phase = "apply"
  /\ \E n \in 1..Len(Subs) :
       AtTurn(n) /\ Starts(Subs[n]) /\ StartInst(Subs[n], insts) /\ at' = n + 1
  /\ UNCHANGED <<rest, reloads, adopted, next, phase, stopping, rebuild, ctxDone, failures, runErr,
                 wantRestart, sessionless, signalled>>

\* Mutant: the old instance is left running beside its replacement.
BeginStopUncancelled(k) == stopping' = running[k] /\ UNCHANGED insts

\* Supervisor.stop: the instance's context ends and its goroutine is waited for.
BeginStop(k) ==
  /\ stopping' = running[k]
  /\ insts' = [insts EXCEPT ![running[k]].cancelled = TRUE]

\* Mutant: the surface is taken for gone and never rebuilt.
ApplyStopNoRebuild ==
  /\ phase = "apply"
  /\ \E n \in 1..Len(Subs) :
       AtTurn(n) /\ ~Starts(Subs[n]) /\ BeginStop(Subs[n]) /\ rebuild' = FALSE /\ at' = n
  /\ UNCHANGED <<rest, reloads, adopted, next, phase, running, ctxDone, failures, runErr,
                 wantRestart, sessionless, signalled>>

ApplyStop ==
  /\ phase = "apply"
  /\ \E n \in 1..Len(Subs) :
       /\ AtTurn(n) /\ ~Starts(Subs[n]) /\ BeginStop(Subs[n])
       /\ rebuild' = Rebuilds(Subs[n]) /\ at' = n
  /\ UNCHANGED <<rest, reloads, adopted, next, phase, running, ctxDone, failures, runErr,
                 wantRestart, sessionless, signalled>>

Applied ==
  /\ phase = "apply" /\ stopping = NoInst /\ Turn = {}
  /\ phase' = "select" /\ at' = 0 /\ adopted' = next
  /\ UNCHANGED <<rest, reloads, next, stopping, rebuild, insts, running, ctxDone, failures,
                 runErr, wantRestart, sessionless, signalled>>

\* The rest of Supervisor.stop and what follows it in the walk it was called from.
Stopped(list) ==
  LET k == list[stopping].kind IN
  /\ stopping' = NoInst /\ rebuild' = FALSE
  /\ IF rebuild THEN StartInst(k, list)
     ELSE insts' = list /\ running' = [running EXCEPT ![k] = NoInst]
  /\ at' = IF phase = "apply" THEN at + 1 ELSE at - 1
  /\ UNCHANGED <<rest, reloads, adopted, next, phase, ctxDone, failures, runErr, wantRestart,
                 sessionless, signalled>>

\* Mutant: the replacement does not wait for the goroutine it replaces.
StopSeenEarly == stopping # NoInst /\ Stopped(insts)

StopSeen == stopping # NoInst /\ ~Live(stopping) /\ Stopped(insts)

\* restartDrain: the goroutine is left to itself and its place is free.
DrainEnds ==
  /\ stopping # NoInst /\ Live(stopping)
  /\ Stopped([insts EXCEPT ![stopping].overstayed = TRUE])

\* Supervisor.shutdown walks the declared order backwards.
ShutdownStop ==
  /\ phase = "shutdown"
  /\ \E n \in 1..Len(Subs) : AtTurn(n) /\ BeginStop(Subs[n]) /\ rebuild' = FALSE /\ at' = n
  /\ UNCHANGED <<rest, reloads, adopted, next, phase, running, ctxDone, failures, runErr,
                 wantRestart, sessionless, signalled>>

\* A failure read outweighs a replacement wanted.
Outcome == IF runErr THEN "failed" ELSE IF wantRestart THEN "restart" ELSE "clean"

ShutdownDone ==
  /\ phase = "shutdown" /\ stopping = NoInst /\ Turn = {}
  /\ EndWorker(Outcome)

RunStep ==
  \/ ContextEnds \/ ReadFailure \/ ReadReload
  \/ ApplyStart \/ ApplyStop \/ Applied
  \/ StopSeen \/ DrainEnds
  \/ ShutdownStop \/ ShutdownDone

SurfaceStep == \E i \in 1..Len(insts) : Fail(i) \/ Report(i) \/ Leave(i)
ProcessStep == StartWorker \/ Signal \/ WorkerCrash \/ PauseEnds \/ StopDispatcher
SupNext == RunStep \/ SurfaceStep \/ ProcessStep \/ (\E c \in Configs : Store(c))

\* The supervisor's goroutine runs while there is a worker and the dispatcher while there is
\* none; a surface's goroutine reports the failure it met.  No surface is bound to leave, nor
\* is anything bound to go wrong.
Fairness ==
  /\ WF_supVars(RunStep \/ StartWorker \/ PauseEnds)
  /\ WF_supVars(\E i \in 1..Len(insts) : Report(i))

SupSpec == SupInit /\ [][SupNext]_supVars /\ Fairness

-----------------------------------------------------------------------------
(* What must hold. *)

\* The variables have their types.
SupTypeOK ==
  /\ file \in Configs /\ adopted \in Configs /\ next \in Configs
  /\ reloads \subseteq Configs /\ Cardinality(reloads) <= 1
  /\ phase \in {"down", "select", "apply", "shutdown"} /\ at \in 0..(Len(Subs) + 1)
  /\ Len(insts) <= MaxInsts
  /\ \A i \in 1..Len(insts) :
       /\ insts[i].kind \in Kinds /\ insts[i].st \in {"up", "failing", "done"}
       /\ insts[i].cancelled \in BOOLEAN /\ insts[i].overstayed \in BOOLEAN
  /\ running \in [Kinds -> 0..Len(insts)] /\ stopping \in 0..Len(insts)
  /\ failures \in 0..Len(Subs)
  /\ {ctxDone, runErr, wantRestart, sessionless, signalled, rebuild} \subseteq BOOLEAN
  /\ exit \in {"none", "clean", "restart", "failed"}
  /\ dispatcher \in {"running", "pausing", "stopping", "stopped"}
  /\ stored \in 0..MaxReloads /\ lives \in 0..MaxLives

\* No surface is lost: a goroutine nobody told to stop is the one its kind names, across
\* every interleaving of rebuilds, failures and drains that ran out.
NoneLost ==
  \A i \in 1..Len(insts) :
    Live(i) /\ ~insts[i].cancelled => running[insts[i].kind] = i

\* Two goroutines of one kind run together only when the older was given its whole drain
\* and did not leave.
TwinsOutlastedTheDrain ==
  \A i, j \in 1..Len(insts) :
    i < j /\ insts[i].kind = insts[j].kind /\ Live(i) /\ Live(j) => insts[i].overstayed

\* Whatever the configurations, a process that is not stopping runs at least one surface:
\* one that runs nothing can no longer be reached to say otherwise.
NeverEmpty == phase = "select" => Running # {}

\* Between two configurations the surfaces are what the last one applied asks for, or it was
\* refused whole: every kind it can start runs, at most one it turned off was kept (the only
\* one running at that moment), and what can be rebuilt was rebuilt.
AppliedWhole ==
  phase = "select" =>
    /\ \A k \in adopted.on \cap Available :
         ~(k \in NeedsSessions /\ sessionless) => running[k] # NoInst
    /\ Cardinality(Running \ adopted.on) <= 1
    /\ \A k \in Running \cap adopted.on \cap Rebuildable :
         insts[running[k]].key = adopted.key[k] => insts[running[k]].print = adopted.print[k]

\* The process ends cleanly, which is what stops the dispatcher for good, only when the
\* operator said so: a failure never passes for a stop.
CleanMeansTold == exit = "clean" => signalled

\* The process asks to be replaced only over a configuration the replacement can start on,
\* as long as that is still the newest one.
ReplacementCanStart == exit = "restart" /\ file = next => Resolves(file)

\* A failed surface takes the process down, whatever configuration arrives meanwhile.
FailureIsFatal ==
  (\E i \in 1..Len(insts) : insts[i].st = "failing") ~> (phase = "down")

\* The newest configuration is never lost: it is read, or the process it was meant for ends
\* and the next one starts from it.
NewestIsRead ==
  (phase # "down" /\ file # next) ~> (file = next \/ phase = "down")

\* Told to stop, the dispatcher stops with its worker, whatever that worker is in the
\* middle of and however long its surfaces take.
StopIsFinal == (dispatcher = "stopping") ~> (dispatcher = "stopped" /\ phase = "down")

\* "Intake stops first ... and the API is the last thing to go" (supervisor.go): the first
\* kind declared is told to stop only when no later one is still at work.
ApiGoesLast ==
  \A i \in 1..Len(insts) :
    insts[i].kind = Subs[1] /\ insts[i].st = "up" /\ Cancelled(i) /\ phase = "shutdown" =>
      \A j \in 1..Len(insts) : insts[j].kind # Subs[1] => ~Live(j) \/ insts[j].overstayed

\* The bookkeeping of the worker matches the surfaces that run: none is running unlisted, the
\* process never serves nothing while it lives, it ends clean only after it was told to, and
\* it gives way only to a replacement that can start.
SurfacesAreConsistent == SupTypeOK /\ NoneLost /\ NeverEmpty /\ CleanMeansTold /\ ReplacementCanStart

\* A message to the dispatcher is not lost among others: the failure of a surface ends the
\* process, the newest configuration is the one that is read, a stop is final.
WordIsHeard == FailureIsFatal /\ NewestIsRead /\ StopIsFinal
=============================================================================
