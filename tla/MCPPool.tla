-------------------------------- MODULE MCPPool --------------------------------
(***************************************************************************)
(* The pool that shares one MCP server connection between the sessions of  *)
(* a process (internal/mcp/pool.go).  A start serves every caller that     *)
(* joins it; a connection nothing holds and nothing keeps is ended, at     *)
(* once or after a delay; a server that goes away is forgotten, so that    *)
(* the next caller starts it again.                                        *)
(*                                                                         *)
(* One key, that is one declaration in one workspace: connections of       *)
(* different keys share nothing but the lock.  An entry of the pool is one *)
(* start of the server.  Every action is one section under the lock, or    *)
(* one step outside it.                                                    *)
(***************************************************************************)
EXTENDS Integers, FiniteSets

CONSTANTS
  Callers,     \* the sessions that want the server
  Entries,     \* bound: the starts of the server
  MaxCalls,    \* bound: calls of Acquire
  MaxKeeps,    \* bound: calls of Keep
  MaxMoves,    \* bound: changes of what the configuration wants
  MaxDeaths    \* bound: servers that go away by themselves

ASSUME SetsAssumption == IsFiniteSet(Callers) /\ IsFiniteSet(Entries)
ASSUME BoundsAssumption ==
  MaxCalls \in Nat /\ MaxKeeps \in Nat /\ MaxMoves \in Nat /\ MaxDeaths \in Nat

NoEntry == "no entry"

ASSUME NoEntryAssumption == NoEntry \notin Entries

VARIABLES
  current, \* p.entries[key]
  kept,    \* whether p.kept has the key
  closed,  \* p.closed
  closer,  \* where Close is: "none", "wait", "done"
  awaited, \* the connections Close waits for
  entry,   \* per entry: its fields, see NoStart
  server,  \* per entry: its process and connection, "none" to "stopped"
  dial,    \* per entry: the goroutine of its start
  caller,  \* per caller: where it is and with which entry
  asks,    \* per entry: a wanted check that has still to read the configuration
  refused, \* per entry: a wanted check that read "no" and goes for the lock
  wanted,  \* what the configuration says of the declaration
  died,    \* history: the servers that went away by themselves
  left     \* what the bounds leave

vars == <<current, kept, closed, closer, awaited, entry, server, dial, caller, asks, refused,
          wanted, died, left>>
poolVars == <<kept, closed, closer, awaited>>
checkVars == <<asks, refused, wanted>>

\* fired: the generations of timers whose callback waits for the lock. late: the start is out
\* of time. owed: endLocked detached the connection and its caller has still to close it.
NoStart == [conn |-> FALSE, ready |-> FALSE, err |-> FALSE, refs |-> 0, kept |-> FALSE,
            ended |-> FALSE, idle |-> FALSE, gen |-> 0, fired |-> {}, late |-> FALSE,
            owed |-> FALSE, stopping |-> FALSE]

\* "wait" for the start, "give up" and "gone" on the way out, "hold" the lease, "retry" once.
NoCaller == [pc |-> "idle", at |-> NoEntry, again |-> FALSE]

Init ==
  /\ current = NoEntry /\ kept = FALSE /\ closed = FALSE /\ closer = "none" /\ awaited = {}
  /\ entry = [e \in Entries |-> NoStart] /\ server = [e \in Entries |-> "none"]
  /\ dial = [e \in Entries |-> "none"] /\ caller = [c \in Callers |-> NoCaller]
  /\ asks = [e \in Entries |-> FALSE] /\ refused = [e \in Entries |-> FALSE] /\ wanted = TRUE
  /\ died = {} /\ left = [call |-> MaxCalls, keep |-> MaxKeeps, move |-> MaxMoves, death |-> MaxDeaths]

Spend(what) == left[what] > 0 /\ left' = [left EXCEPT ![what] = @ - 1]
Gone(e) == server[e] \in {"gone", "closing", "stopped"}
\* cancelIdleLocked.
CancelIdle(r) == IF r.idle THEN [r EXCEPT !.idle = FALSE, !.gen = @ + 1] ELSE r
\* endLocked.
End(r) == [CancelIdle(r) EXCEPT !.ended = TRUE, !.stopping = TRUE, !.owed = TRUE]
Forget(e) == IF current = e THEN NoEntry ELSE current
Unneeded(r) == r.refs = 0 /\ ~r.kept /\ r.conn /\ ~r.ended

\* idleLocked on the record r that entry e is about to have.  The stop delay is a setting: it
\* may be none.
Idle(e, r) ==
  \/ ~Unneeded(r) /\ entry' = [entry EXCEPT ![e] = r] /\ UNCHANGED current
  \/ Unneeded(r) /\ entry' = [entry EXCEPT ![e] = End(r)] /\ current' = Forget(e)
  \/ /\ Unneeded(r) /\ ~closed /\ UNCHANGED current
     /\ entry' = [entry EXCEPT ![e] = IF r.idle THEN r ELSE [r EXCEPT !.idle = TRUE, !.gen = @ + 1]]

\* An entry left to its timer is put to the wanted check.
Linger(e) == asks' = [asks EXCEPT ![e] = @ \/ (entry'[e].idle /\ entry'[e].refs = 0)]

\* startLocked.
Start(e, r) ==
  /\ server[e] = "none" /\ dial[e] = "none"
  /\ entry' = [entry EXCEPT ![e] = r]
  /\ server' = [server EXCEPT ![e] = "starting"] /\ dial' = [dial EXCEPT ![e] = "running"]
  /\ current' = e

-----------------------------------------------------------------------------
(* Acquire and the lease. *)

Join(c, e) ==
  /\ entry' = [entry EXCEPT ![e] = [CancelIdle(entry[e]) EXCEPT !.refs = @ + 1]]
  /\ UNCHANGED <<current, server, dial>>
  /\ caller' = [caller EXCEPT ![c].pc = "wait", ![c].at = e]

Acquire(c) ==
  /\ caller[c].pc \in {"idle", "retry"} /\ ~closed
  /\ IF caller[c].pc = "idle" THEN Spend("call") ELSE UNCHANGED left
  /\ IF current # NoEntry THEN Join(c, current)
     ELSE \E e \in Entries :
            /\ Start(e, [NoStart EXCEPT !.refs = 1, !.kept = kept])
            /\ caller' = [caller EXCEPT ![c].pc = "wait", ![c].at = e]
  /\ UNCHANGED <<poolVars, checkVars, died>>

\* The pool closed while the caller was to try once more.
Refused(c) ==
  /\ caller[c].pc = "retry" /\ closed
  /\ caller' = [caller EXCEPT ![c] = NoCaller]
  /\ UNCHANGED <<current, poolVars, entry, server, dial, checkVars, died, left>>

\* The start settled: a lease, a failure, or a server that went away as it answered.
Settled(c) ==
  /\ caller[c].pc = "wait"
  /\ LET e == caller[c].at
     IN  /\ entry[e].ready
         /\ caller' = [caller EXCEPT ![c].pc = IF entry[e].err THEN "release"
                                               ELSE IF Gone(e) THEN "gone" ELSE "hold"]
  /\ UNCHANGED <<current, poolVars, entry, server, dial, checkVars, died, left>>

\* The context of the caller ends while it waits; a start that is out of time is dropped.
GiveUp(c) ==
  /\ caller[c].pc = "wait"
  /\ LET e == caller[c].at
     IN  current' = IF ~entry[e].conn /\ entry[e].late THEN Forget(e) ELSE current
  /\ caller' = [caller EXCEPT ![c].pc = "release"]
  /\ UNCHANGED <<poolVars, entry, server, dial, checkVars, died, left>>

\* The server went away as it answered: the entry is forgotten before the one retry.
ForgetGone(c) ==
  /\ caller[c].pc = "gone"
  /\ current' = Forget(caller[c].at)
  /\ caller' = [caller EXCEPT ![c].pc = "drop"]
  /\ UNCHANGED <<poolVars, entry, server, dial, checkVars, died, left>>

AfterRelease(c) ==
  caller' = [caller EXCEPT ![c] = IF caller[c].pc = "drop" /\ ~caller[c].again
                                  THEN [NoCaller EXCEPT !.pc = "retry", !.again = TRUE]
                                  ELSE NoCaller]

\* release: of a lease, or of the wait for a start.
Release(c) ==
  /\ caller[c].pc \in {"hold", "release", "drop"}
  /\ LET e == caller[c].at
     IN  Idle(e, [entry[e] EXCEPT !.refs = @ - 1]) /\ Linger(e)
  /\ AfterRelease(c)
  /\ UNCHANGED <<poolVars, server, dial, refused, wanted, died, left>>

-----------------------------------------------------------------------------
(* The start. *)

\* The deadline of a start passes, or Close cancels it; the callback takes it off the map.
Late(e) ==
  /\ dial[e] = "running" /\ ~entry[e].late /\ current = e
  /\ entry' = [entry EXCEPT ![e].late = TRUE]
  /\ UNCHANGED <<current, poolVars, server, dial, caller, checkVars, died, left>>

DropLate(e) ==
  /\ (entry[e].late \/ closed) /\ ~entry[e].conn /\ current = e
  /\ current' = NoEntry
  /\ UNCHANGED <<poolVars, entry, server, dial, caller, checkVars, died, left>>

DialFails(e) ==
  /\ dial[e] \in {"running", "discarded"} /\ server[e] \in {"starting", "stopped"}
  /\ dial[e] = "discarded" => server[e] = "stopped"
  /\ dial' = [dial EXCEPT ![e] = "over"] /\ server' = [server EXCEPT ![e] = "stopped"]
  /\ entry' = [entry EXCEPT ![e].err = TRUE, ![e].ended = TRUE, ![e].ready = TRUE]
  /\ current' = Forget(e)
  /\ UNCHANGED <<poolVars, caller, checkVars, died, left>>

\* Mutant: an answer is installed though its entry was dropped.
DialInstalled(e) ==
  /\ dial[e] = "running" /\ server[e] = "starting"
  /\ server' = [server EXCEPT ![e] = "live"] /\ dial' = [dial EXCEPT ![e] = "over"]
  /\ Idle(e, [entry[e] EXCEPT !.conn = TRUE, !.ready = TRUE]) /\ Linger(e)
  /\ UNCHANGED <<poolVars, caller, refused, wanted, died, left>>

\* The server answers and its entry is still on the map.
DialAnswers(e) ==
  /\ dial[e] = "running" /\ server[e] = "starting" /\ ~closed /\ current = e
  /\ server' = [server EXCEPT ![e] = "live"] /\ dial' = [dial EXCEPT ![e] = "over"]
  /\ Idle(e, [entry[e] EXCEPT !.conn = TRUE, !.ready = TRUE]) /\ Linger(e)
  /\ UNCHANGED <<poolVars, caller, refused, wanted, died, left>>

\* The server answers after its entry was dropped: it is closed, and waited for, before the
\* start counts as over.
DialDiscarded(e) ==
  /\ dial[e] = "running" /\ server[e] = "starting" /\ (closed \/ current # e)
  /\ server' = [server EXCEPT ![e] = "closing"] /\ dial' = [dial EXCEPT ![e] = "discarded"]
  /\ UNCHANGED <<current, poolVars, entry, caller, checkVars, died, left>>

-----------------------------------------------------------------------------
(* The end of a connection. *)

\* The timer of the stop delay fires; its callback waits for the lock.
TimerFires(e) ==
  /\ entry[e].idle /\ entry[e].gen \notin entry[e].fired
  /\ entry' = [entry EXCEPT ![e].fired = @ \cup {entry[e].gen}]
  /\ UNCHANGED <<current, poolVars, server, dial, caller, checkVars, died, left>>

\* expire.
Expire(e) ==
  \E g \in entry[e].fired :
    LET r == [entry[e] EXCEPT !.fired = @ \ {g}]
        s == [r EXCEPT !.idle = FALSE]
    IN  /\ IF ~r.idle \/ r.gen # g
           THEN entry' = [entry EXCEPT ![e] = r] /\ UNCHANGED current
           ELSE IF Unneeded(s)
           THEN entry' = [entry EXCEPT ![e] = End(s)] /\ current' = Forget(e)
           ELSE entry' = [entry EXCEPT ![e] = s] /\ UNCHANGED current
        /\ UNCHANGED <<poolVars, server, dial, caller, checkVars, died, left>>

\* stopIfUnwanted: the configuration is read outside the lock.
ReadWanted(e) ==
  /\ asks[e] /\ asks' = [asks EXCEPT ![e] = FALSE]
  /\ refused' = [refused EXCEPT ![e] = @ \/ ~wanted]
  /\ UNCHANGED <<current, poolVars, entry, server, dial, caller, wanted, died, left>>

StopUnwanted(e) ==
  /\ refused[e] /\ refused' = [refused EXCEPT ![e] = FALSE]
  /\ IF Unneeded(entry[e])
     THEN entry' = [entry EXCEPT ![e] = End(@)] /\ current' = Forget(e)
     ELSE UNCHANGED <<entry, current>>
  /\ UNCHANGED <<poolVars, server, dial, caller, asks, wanted, died, left>>

\* stop: close by the one that detached the connection.
CloseConn(e) ==
  /\ entry[e].owed
  /\ entry' = [entry EXCEPT ![e].owed = FALSE]
  /\ server' = [server EXCEPT ![e] = "closing"]
  /\ UNCHANGED <<current, poolVars, dial, caller, checkVars, died, left>>

\* It is no longer counted among those that stop once it is gone for good.
Stopped(e) ==
  /\ server[e] = "closing" /\ ~entry[e].owed
  /\ server' = [server EXCEPT ![e] = "stopped"]
  /\ entry' = [entry EXCEPT ![e].stopping = FALSE]
  /\ UNCHANGED <<current, poolVars, dial, caller, checkVars, died, left>>

\* The server exits or drops the connection; its process group can outlive it.
Dies(e) ==
  /\ server[e] = "live" /\ Spend("death")
  /\ server' = [server EXCEPT ![e] = "gone"] /\ died' = died \cup {e}
  /\ UNCHANGED <<current, poolVars, entry, dial, caller, checkVars>>

\* Mutant: a connection that ended by itself is forgotten and not closed.
WatchForgets(e) ==
  /\ entry[e].conn /\ Gone(e) /\ ~entry[e].ended
  /\ entry' = [entry EXCEPT ![e] = [CancelIdle(@) EXCEPT !.ended = TRUE]]
  /\ current' = Forget(e)
  /\ UNCHANGED <<poolVars, server, dial, caller, checkVars, died, left>>

\* watch.
Watch(e) ==
  /\ entry[e].conn /\ Gone(e) /\ ~entry[e].ended
  /\ entry' = [entry EXCEPT ![e] = End(@)] /\ current' = Forget(e)
  /\ UNCHANGED <<poolVars, server, dial, caller, checkVars, died, left>>

-----------------------------------------------------------------------------
(* Keep, Recheck and Close. *)

KeepOn ==
  /\ ~closed /\ Spend("keep") /\ kept' = TRUE
  /\ IF current # NoEntry
     THEN /\ entry' = [entry EXCEPT ![current] = [CancelIdle(@) EXCEPT !.kept = TRUE]]
          /\ UNCHANGED <<current, server, dial>>
     ELSE \E e \in Entries : Start(e, [NoStart EXCEPT !.kept = TRUE])
  /\ UNCHANGED <<closed, closer, awaited, caller, checkVars, died>>

KeepOff ==
  /\ ~closed /\ kept /\ Spend("keep") /\ kept' = FALSE
  /\ IF current = NoEntry THEN UNCHANGED <<entry, current>>
     ELSE LET r == [entry[current] EXCEPT !.kept = FALSE]
          IN  IF Unneeded(r)
              THEN entry' = [entry EXCEPT ![current] = End(r)] /\ current' = NoEntry
              ELSE entry' = [entry EXCEPT ![current] = r] /\ UNCHANGED current
  /\ UNCHANGED <<closed, closer, awaited, server, dial, caller, checkVars, died>>

\* The configuration changes, and Recheck looks at the servers that wait out their delay.
Recheck ==
  /\ Spend("move") /\ wanted' = ~wanted
  /\ asks' = [e \in Entries |-> asks[e] \/ (e = current /\ entry[e].idle /\ Unneeded(entry[e]))]
  /\ UNCHANGED <<current, poolVars, entry, server, dial, caller, refused, died>>

\* Close, up to its waits: every connection on the map is ended, every start is cancelled.
Close ==
  /\ ~closed /\ closed' = TRUE /\ closer' = "wait" /\ kept' = FALSE
  /\ entry' = [e \in Entries |->
                 IF e # current THEN entry[e]
                 ELSE IF entry[e].conn /\ ~entry[e].ended THEN End(entry[e]) ELSE CancelIdle(entry[e])]
  /\ current' = NoEntry
  /\ awaited' = {e \in Entries : entry'[e].stopping}
  /\ UNCHANGED <<server, dial, caller, checkVars, died, left>>

\* Mutant: the starts it cancelled are not waited for.
CloseReturnsEarly ==
  /\ closer = "wait" /\ \A e \in awaited : server[e] = "stopped"
  /\ closer' = "done"
  /\ UNCHANGED <<current, kept, closed, awaited, entry, server, dial, caller, checkVars, died, left>>

CloseReturns ==
  /\ closer = "wait"
  /\ \A e \in awaited : server[e] = "stopped"
  /\ \A e \in Entries : dial[e] \in {"none", "over"}
  /\ closer' = "done"
  /\ UNCHANGED <<current, kept, closed, awaited, entry, server, dial, caller, checkVars, died, left>>

-----------------------------------------------------------------------------
CallerStep(c) == Acquire(c) \/ Refused(c) \/ Settled(c) \/ GiveUp(c) \/ ForgetGone(c) \/ Release(c)
DialStep(e) == DialFails(e) \/ DialAnswers(e) \/ DialDiscarded(e)
EndStep(e) ==
  \/ TimerFires(e) \/ Expire(e) \/ ReadWanted(e) \/ StopUnwanted(e)
  \/ CloseConn(e) \/ Stopped(e) \/ Watch(e)
Next ==
  \/ \E c \in Callers : CallerStep(c)
  \/ \E e \in Entries : Late(e) \/ DropLate(e) \/ DialStep(e) \/ EndStep(e) \/ Dies(e)
  \/ KeepOn \/ KeepOff \/ Recheck \/ Close \/ CloseReturns

Spec == Init /\ [][Next]_vars

-----------------------------------------------------------------------------
TypeOK ==
  /\ current \in Entries \cup {NoEntry} /\ kept \in BOOLEAN /\ closed \in BOOLEAN
  /\ closer \in {"none", "wait", "done"} /\ awaited \subseteq Entries
  /\ entry \in [Entries -> [conn : BOOLEAN, ready : BOOLEAN, err : BOOLEAN, refs : Nat,
                            kept : BOOLEAN, ended : BOOLEAN, idle : BOOLEAN, gen : Nat,
                            fired : SUBSET Nat, late : BOOLEAN, owed : BOOLEAN,
                            stopping : BOOLEAN]]
  /\ server \in [Entries -> {"none", "starting", "live", "gone", "closing", "stopped"}]
  /\ dial \in [Entries -> {"none", "running", "discarded", "over"}]
  /\ caller \in [Callers -> [pc : {"idle", "wait", "gone", "drop", "release", "hold", "retry"},
                             at : Entries \cup {NoEntry}, again : BOOLEAN]]
  /\ asks \in [Entries -> BOOLEAN] /\ refused \in [Entries -> BOOLEAN] /\ wanted \in BOOLEAN
  /\ died \subseteq Entries
  /\ left \in [call : 0..MaxCalls, keep : 0..MaxKeeps, move : 0..MaxMoves, death : 0..MaxDeaths]

Users(e) == {c \in Callers : caller[c].at = e}

\* The count of an entry is what sessions hold and wait for, whichever way each of them left.
RefsCounted ==
  \A e \in Entries : entry[e].refs = Cardinality(Users(e))

\* A lease is on a connection the pool does not end under its holder, unless the pool closes or
\* the server went away by itself: not by a timer that was cancelled, a wanted check made
\* before the lease, or the release of another session.
HeldIsAlive ==
  \A c \in Callers :
    caller[c].pc = "hold" /\ ~closed /\ caller[c].at \notin died => server[caller[c].at] = "live"

\* So is a connection the pool keeps.
KeptIsAlive ==
  \A e \in Entries : entry[e].kept /\ entry[e].conn /\ ~closed /\ e \notin died => ~entry[e].ended

\* Sessions with one declaration share one connection: what the pool has not ended, and is up,
\* is what the next session gets.
OneConnection ==
  \A e \in Entries : server[e] = "live" /\ ~entry[e].ended => current = e

\* What the pool keeps and what its entry thinks agree.
KeptAgrees == current # NoEntry => entry[current].kept = kept

\* No order of starts, releases, Keep and Close leaves a server running that nobody will stop:
\* one the pool let go of is on its way to be closed, one that went away by itself still has its
\* watcher, and any other is held, kept, or waits for its timer.
NoneStranded ==
  \A e \in Entries :
    server[e] \in {"live", "gone"} =>
      IF entry[e].ended THEN entry[e].owed
      ELSE server[e] = "gone" \/ entry[e].refs > 0 \/ entry[e].kept \/ entry[e].idle

\* When Close returns nothing of the pool runs any more, the starts it cancelled and the
\* servers that were on their way out included; what is left of a server that went away by
\* itself, and that Close could not see because a caller had taken it off the map, aside.
CloseLeavesNothing ==
  closer = "done" =>
    \A e \in Entries : server[e] \in {"none", "stopped"} \/ e \in died \ awaited

\* Known not to hold: ... and of such a server too.  The watcher that would close what is left of
\* it has not run, and Close neither finds it on the map nor among those that stop.
CloseWaitsForAll ==
  closer = "done" => \A e \in Entries : server[e] \in {"none", "stopped"}

\* What the pool keeps of an entry matches its users and its server: the count is theirs,
\* what is held or kept is not ended, and no second server is started beside a usable one.
ConnectionIsConsistent ==
  TypeOK /\ RefsCounted /\ KeptAgrees /\ HeldIsAlive /\ KeptIsAlive /\ OneConnection
===============================================================================
