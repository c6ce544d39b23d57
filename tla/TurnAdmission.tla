----------------------------- MODULE TurnAdmission -----------------------------
(***************************************************************************)
(* One session of the manager (internal/session): turns that are admitted  *)
(* while it is deleted, loaded again, let go of or stopped.                *)
(*                                                                         *)
(* A State is a number: an incarnation of the session in memory, built by  *)
(* a load.  A turn is beginTurn, the run and finish, one step for each     *)
(* thing another goroutine can see.  The turn lock is held from one step   *)
(* to another (TurnLock has its protocol), the queue is TurnQueue's.  A    *)
(* turn saves only while it runs; requests save at any time.               *)
(***************************************************************************)
EXTENDS Integers, FiniteSets

CONSTANTS
    Turns,      \* prompts that ask for a turn, each once
    Deleters,   \* calls of DeleteSessionTree, each once
    Requests,   \* goroutines serving the per-session routes
    MaxStates,  \* bound: incarnations of the session
    MaxStops,   \* bound: Stops
    Forgetful   \* a surface may let go of the session (ForgetLiveSession)

ASSUME BoundsAssumption == MaxStates \in Nat \ {0} /\ MaxStops \in Nat
ASSUME ForgetfulAssumption == Forgetful \in BOOLEAN
ASSUME TurnsAssumption == IsFiniteSet(Turns) /\ IsFiniteSet(Deleters)

States == 1 .. MaxStates
None == 0

VARIABLES
    live,       \* Manager.sessions[id], or None
    built,      \* incarnations so far
    bundle,     \* the session directory exists
    marks,      \* Manager.deleting[id]
    signal,     \* the cancel-request file exists
    pc,         \* where a turn stands
    state,      \* the State a turn resolved
    owes,       \* the edge a turn has yet to publish
    cancel,     \* State.cancel: the turn it cancels, if any
    cancelled,  \* turns whose context is done
    poll,       \* where the cancel poll of a turn stands
    del,        \* where a deletion stands
    req,        \* where a request stands
    stop,       \* a Stop has written the file and has yet to call State.Cancel
    stops,      \* Stops so far
    balance,    \* history: started edges less ended ones
    stopped     \* history: turns that held the session when a Stop came

sessionVars == <<live, built, marks>>
diskVars == <<bundle, signal>>
turnVars == <<pc, state, owes>>
cancelVars == <<cancel, cancelled, poll>>
callVars == <<del, req, stop, stops, stopped>>
vars == <<sessionVars, diskVars, turnVars, cancelVars, balance, callVars>>

Registered == {"marked", "locked", "installed", "begun", "running",
               "finishing", "unlocking", "clearing"}
Locked == {"locked", "installed", "begun", "running", "finishing", "unlocking"}
Admitted == {"begun", "running"}

TypeOK ==
    /\ live \in States \cup {None} /\ built \in States
    /\ bundle \in BOOLEAN /\ signal \in BOOLEAN
    /\ marks \in 0 .. Cardinality(Deleters)
    /\ pc \in [Turns -> Registered \cup {"out", "resolved", "admitted", "over"}]
    /\ state \in [Turns -> States \cup {None}]
    /\ owes \in [Turns -> {"nothing", "started", "ended"}]
    /\ cancel \in [States -> SUBSET Turns]
    /\ cancelled \subseteq Turns
    /\ poll \in [Turns -> {"none", "watching", "seen", "clearing"}]
    /\ del \in [Deleters -> {"idle", "marked", "awaiting", "settled", "forgotten",
                             "removed", "aborted", "over", "failed"}]
    /\ req \in [Requests -> {"idle", "loading", "resolved", "saving"}]
    /\ stop \in BOOLEAN /\ stops \in 0 .. MaxStops
    /\ balance \in Int
    /\ stopped \subseteq Turns

Init ==
    /\ live = 1 /\ built = 1
    /\ bundle = TRUE /\ marks = 0 /\ signal = FALSE
    /\ pc = [t \in Turns |-> "out"]
    /\ state = [t \in Turns |-> None]
    /\ owes = [t \in Turns |-> "nothing"]
    /\ cancel = [s \in States |-> {}]
    /\ cancelled = {}
    /\ poll = [t \in Turns |-> "none"]
    /\ del = [d \in Deleters |-> "idle"]
    /\ req = [r \in Requests |-> "idle"]
    /\ stop = FALSE /\ stops = 0
    /\ balance = 0
    /\ stopped = {}

-----------------------------------------------------------------------------
(* Vocabulary *)

\* activeTurns counts them, turns waiting for the lock included.
Active == {t \in Turns : pc[t] \in Registered}

Held == \E t \in Turns : pc[t] \in Locked

Admissible(t) == live = state[t] /\ marks = 0

Goto(t, from, to) == pc[t] = from /\ owes[t] = "nothing" /\ pc' = [pc EXCEPT ![t] = to]

\* State.Cancel: whatever turn installed its cancel last.
CancelState(s) == cancelled' = cancelled \cup cancel[s]

-----------------------------------------------------------------------------
(* A turn *)

\* HandleSessionPromptWithSender resolves the session it was asked for.
Resolve(t) ==
    /\ Goto(t, "out", "resolved")
    /\ live # None
    /\ state' = [state EXCEPT ![t] = live]
    /\ UNCHANGED <<sessionVars, diskVars, owes, cancelVars, balance, callVars>>

Admit(t) ==
    /\ \/ Admissible(t) /\ Goto(t, "resolved", "admitted")
       \/ ~ Admissible(t) /\ Goto(t, "resolved", "over")
    /\ UNCHANGED <<sessionVars, diskVars, state, owes, cancelVars, balance, callVars>>

\* The first turn of an idle session owes the started edge.
MarkActive(t) ==
    /\ Goto(t, "admitted", "marked")
    /\ owes' = IF Active = {} THEN [owes EXCEPT ![t] = "started"] ELSE owes
    /\ UNCHANGED <<sessionVars, diskVars, state, cancelVars, balance, callVars>>

\* An edge reaches the observers after activeTurnMu is let go of.
PublishEdge(t) ==
    /\ owes[t] # "nothing"
    /\ owes' = [owes EXCEPT ![t] = "nothing"]
    /\ balance' = IF owes[t] = "started" THEN balance + 1 ELSE balance - 1
    /\ UNCHANGED <<sessionVars, diskVars, pc, state, cancelVars, callVars>>

AcquireLock(t) ==
    /\ Goto(t, "marked", "locked")
    /\ ~ Held /\ bundle
    /\ UNCHANGED <<sessionVars, diskVars, state, owes, cancelVars, balance, callVars>>

\* Another turn holds the lock, here or in another process, or the lock file
\* cannot be opened.
LockRefused(t) ==
    /\ Goto(t, "marked", "clearing")
    /\ UNCHANGED <<sessionVars, diskVars, state, owes, cancelVars, balance, callVars>>

SetCancel(t) ==
    /\ Goto(t, "locked", "installed")
    /\ cancel' = [cancel EXCEPT ![state[t]] = {t}]
    /\ UNCHANGED <<sessionVars, diskVars, state, owes, cancelled, poll, balance, callVars>>

\* The MCP servers of the turn have been brought in; admission is decided again.
Recheck(t) ==
    /\ \/ Admissible(t) /\ Goto(t, "installed", "begun")
       \/ ~ Admissible(t) /\ Goto(t, "installed", "finishing")
    /\ UNCHANGED <<sessionVars, diskVars, state, owes, cancelVars, balance, callVars>>

\* A signal left by an earlier turn is cleared, and the poll of this one starts.
ClearCancelRequest(t) ==
    /\ Goto(t, "begun", "running")
    /\ signal' = FALSE
    /\ poll' = [poll EXCEPT ![t] = "watching"]
    /\ UNCHANGED <<sessionVars, bundle, state, owes, cancel, cancelled, balance, callVars>>

RunEnds(t) ==
    /\ Goto(t, "running", "finishing")
    /\ UNCHANGED <<sessionVars, diskVars, state, owes, cancelVars, balance, callVars>>

\* finish: cancel and close the queue, ...
Finish(t) ==
    /\ Goto(t, "finishing", "unlocking")
    /\ cancelled' = cancelled \cup {t}
    /\ UNCHANGED <<sessionVars, diskVars, state, owes, cancel, poll, balance, callVars>>

\* ... release the lock ...
Unlock(t) ==
    /\ Goto(t, "unlocking", "clearing")
    /\ UNCHANGED <<sessionVars, diskVars, state, owes, cancelVars, balance, callVars>>

\* Mutant: every release ends the turn for the watchers, not only the last.
ClearActiveEach(t) ==
    /\ Goto(t, "clearing", "over")
    /\ owes' = [owes EXCEPT ![t] = "ended"]
    /\ UNCHANGED <<sessionVars, diskVars, state, cancelVars, balance, callVars>>

\* ... and unregister; the last one owes the ended edge.
ClearActive(t) ==
    /\ Goto(t, "clearing", "over")
    /\ owes' = IF Active = {t} THEN [owes EXCEPT ![t] = "ended"] ELSE owes
    /\ UNCHANGED <<sessionVars, diskVars, state, cancelVars, balance, callVars>>

-----------------------------------------------------------------------------
(* The cancel poll of a turn, which may outlive it by a round. *)

PollSees(t) ==
    /\ poll[t] = "watching" /\ signal
    /\ poll' = [poll EXCEPT ![t] = "seen"]
    /\ UNCHANGED <<sessionVars, diskVars, turnVars, cancel, cancelled, balance, callVars>>

\* Mutant: the poll looks the session up again instead of keeping its State.
PollCancelsLive(t) ==
    /\ poll[t] = "seen"
    /\ poll' = [poll EXCEPT ![t] = "clearing"]
    /\ IF live = None THEN UNCHANGED cancelled ELSE CancelState(live)
    /\ UNCHANGED <<sessionVars, diskVars, turnVars, cancel, balance, callVars>>

PollCancels(t) ==
    /\ poll[t] = "seen"
    /\ poll' = [poll EXCEPT ![t] = "clearing"]
    /\ CancelState(state[t])
    /\ UNCHANGED <<sessionVars, diskVars, turnVars, cancel, balance, callVars>>

PollClears(t) ==
    /\ poll[t] = "clearing"
    /\ poll' = [poll EXCEPT ![t] = "watching"]
    /\ signal' = FALSE
    /\ UNCHANGED <<sessionVars, bundle, turnVars, cancel, cancelled, balance, callVars>>

PollEnds(t) ==
    /\ poll[t] = "watching" /\ t \in cancelled
    /\ poll' = [poll EXCEPT ![t] = "none"]
    /\ UNCHANGED <<sessionVars, diskVars, turnVars, cancel, cancelled, balance, callVars>>

-----------------------------------------------------------------------------
(* Stop: HandleSessionCancel, here or in another process over the same bundle *)

\* WriteCrossProcessCancelRequest, the first half.
WriteSignal ==
    /\ ~ stop /\ stops < MaxStops
    /\ stops' = stops + 1
    /\ signal' = bundle
    /\ stopped' = stopped \cup
          {t \in Turns : bundle /\ pc[t] \in {"locked", "installed"} \cup Admitted}
    /\ stop' \in BOOLEAN        \* TRUE: in this process, which goes on
    /\ UNCHANGED <<sessionVars, bundle, turnVars, cancelVars, balance, del, req>>

CancelLive ==
    /\ stop
    /\ stop' = FALSE
    /\ IF live = None THEN UNCHANGED cancelled ELSE CancelState(live)
    /\ UNCHANGED <<sessionVars, diskVars, turnVars, cancel, poll, balance, del, req,
                   stops, stopped>>

-----------------------------------------------------------------------------
(* DeleteSessionTree, of a session without children and background tasks *)

DelGoto(d, from, to) == del[d] = from /\ del' = [del EXCEPT ![d] = to]

MarkDeleting(d) ==
    /\ DelGoto(d, "idle", "marked")
    /\ marks' = marks + 1
    /\ UNCHANGED <<live, built, diskVars, turnVars, cancelVars, balance, req,
                   stop, stops, stopped>>

\* cancelAndAwaitTurns: the live State is cancelled once, ...
CancelTurns(d) ==
    /\ DelGoto(d, "marked", "awaiting")
    /\ IF live = None THEN UNCHANGED cancelled ELSE CancelState(live)
    /\ UNCHANGED <<sessionVars, diskVars, turnVars, cancel, poll, balance, req,
                   stop, stops, stopped>>

\* ... then nobody may be active, or the deletion is given up.
AwaitTurns(d) ==
    /\ \/ Active = {} /\ DelGoto(d, "awaiting", "settled")
       \/ Active # {} /\ DelGoto(d, "awaiting", "aborted")
    /\ UNCHANGED <<sessionVars, diskVars, turnVars, cancelVars, balance, req,
                   stop, stops, stopped>>

ForgetLive(d) ==
    /\ DelGoto(d, "settled", "forgotten")
    /\ live' = None
    /\ UNCHANGED <<built, marks, diskVars, turnVars, cancelVars, balance, req,
                   stop, stops, stopped>>

RemoveAll(d) ==
    /\ DelGoto(d, "forgotten", "removed")
    /\ bundle' = FALSE /\ signal' = FALSE
    /\ UNCHANGED <<sessionVars, turnVars, cancelVars, balance, req,
                   stop, stops, stopped>>

\* The tree cannot be read or does not settle, or the bundle cannot be removed.
GiveUp(d) ==
    /\ DelGoto(d, "marked", "aborted") \/ DelGoto(d, "forgotten", "aborted")
    /\ UNCHANGED <<sessionVars, diskVars, turnVars, cancelVars, balance, req,
                   stop, stops, stopped>>

\* Mutant: the mark is a flag, and the first deletion to end takes it down.
UnmarkAll(d) ==
    /\ DelGoto(d, "removed", "over") \/ DelGoto(d, "aborted", "failed")
    /\ marks' = 0
    /\ UNCHANGED <<live, built, diskVars, turnVars, cancelVars, balance, req,
                   stop, stops, stopped>>

Unmark(d) ==
    /\ DelGoto(d, "removed", "over") \/ DelGoto(d, "aborted", "failed")
    /\ marks' = marks - 1
    /\ UNCHANGED <<live, built, diskVars, turnVars, cancelVars, balance, req,
                   stop, stops, stopped>>

-----------------------------------------------------------------------------
(* A per-session route: resolve or load the session, then perhaps save it. *)

ReqGoto(r, from, to) == req[r] = from /\ req' = [req EXCEPT ![r] = to]

FindLive(r) ==
    /\ ReqGoto(r, "idle", "resolved")
    /\ live # None
    /\ UNCHANGED <<sessionVars, diskVars, turnVars, cancelVars, balance, del, stop,
                   stops, stopped>>

\* The leader of the one load in flight reads the bundle, ...
ReadSnapshot(r) ==
    /\ ReqGoto(r, "idle", "loading")
    /\ live = None /\ bundle
    /\ \A q \in Requests : req[q] # "loading"
    /\ built < MaxStates
    /\ UNCHANGED <<sessionVars, diskVars, turnVars, cancelVars, balance, del, stop,
                   stops, stopped>>

\* ... and registers the State built from it, unless there is one by now.
RegisterSession(r) ==
    /\ ReqGoto(r, "loading", "resolved")
    /\ IF live = None THEN built' = built + 1 /\ live' = built'
                      ELSE UNCHANGED <<built, live>>
    /\ UNCHANGED <<marks, diskVars, turnVars, cancelVars, balance, del, stop, stops,
                   stopped>>

Answer(r) ==
    /\ ReqGoto(r, "resolved", "idle")
    /\ UNCHANGED <<sessionVars, diskVars, turnVars, cancelVars, balance, del, stop,
                   stops, stopped>>

\* FileStore.Save: the bundle's own lock file is opened in the directory, ...
SaveLocks(r) ==
    /\ ReqGoto(r, "resolved", "saving")
    /\ bundle
    /\ UNCHANGED <<sessionVars, diskVars, turnVars, cancelVars, balance, del, stop,
                   stops, stopped>>

\* ... and every file is written into it, the directory made when it is missing.
SaveWrites(r) ==
    /\ ReqGoto(r, "saving", "idle")
    /\ bundle' = TRUE
    /\ UNCHANGED <<sessionVars, signal, turnVars, cancelVars, balance, del, stop,
                   stops, stopped>>

\* A console or a chat turns to another session.
ForgetLiveSession ==
    /\ Forgetful /\ live # None
    /\ live' = None
    /\ UNCHANGED <<built, marks, diskVars, turnVars, cancelVars, balance, callVars>>

-----------------------------------------------------------------------------
Begin(t) ==
    \/ Resolve(t) \/ Admit(t) \/ MarkActive(t) \/ PublishEdge(t)
    \/ AcquireLock(t) \/ LockRefused(t)
    \/ SetCancel(t) \/ Recheck(t) \/ ClearCancelRequest(t)

End(t) == Finish(t) \/ Unlock(t) \/ ClearActive(t)

Poll(t) == PollSees(t) \/ PollCancels(t) \/ PollClears(t) \/ PollEnds(t)

Delete(d) ==
    \/ MarkDeleting(d) \/ CancelTurns(d) \/ AwaitTurns(d)
    \/ ForgetLive(d) \/ RemoveAll(d) \/ GiveUp(d) \/ Unmark(d)

Serve(r) ==
    \/ FindLive(r) \/ ReadSnapshot(r) \/ RegisterSession(r)
    \/ Answer(r) \/ SaveLocks(r) \/ SaveWrites(r)

Next ==
    \/ \E t \in Turns : Begin(t) \/ RunEnds(t) \/ End(t) \/ Poll(t)
    \/ \E d \in Deleters : Delete(d)
    \/ \E r \in Requests : Serve(r)
    \/ WriteSignal \/ CancelLive \/ ForgetLiveSession

Spec == Init /\ [][Next]_vars

\* The goroutines of turns and polls are scheduled; a run ends when it likes.
FairSpec ==
    /\ Spec
    /\ \A t \in Turns : WF_vars(Begin(t)) /\ WF_vars(End(t)) /\ WF_vars(Poll(t))

-----------------------------------------------------------------------------
(* Properties *)

\* "no turn runs on past the removal of its bundle" (beginTurn): whatever the
\* order of marks, cancels and rechecks, and however many deletions overlap.
NoTurnPastRemoval ==
    [][bundle /\ ~ bundle' => \A t \in Turns : pc[t] \notin Admitted]_vars

\* "either the delete sees this turn's cancel or this recheck sees the mark":
\* a deletion never waits for a turn of the live State it has not cancelled.
DeletionReachesTurns ==
    \A d \in Deleters, t \in Turns :
        del[d] = "awaiting" /\ pc[t] \in Admitted /\ state[t] = live => t \in cancelled

\* Each time the session turns busy or idle exactly one edge says so: once all
\* are published, the started ones exceed the ended ones by the busy session.
EdgesBalance ==
    (\A t \in Turns : owes[t] = "nothing")
        => balance = IF Active = {} THEN 0 ELSE 1

\* A Stop that a polling turn has taken off the disk has cancelled that turn, even
\* when a surface let go of the session meanwhile and another State is live: while
\* a turn runs uncancelled, its poll still has the signal to see or to act on.
StopIsNotSwallowed ==
    \A t \in Turns :
        pc[t] = "running" /\ t \notin cancelled => poll[t] \in {"watching", "seen"}

\* DELETE "Removes the entire persisted session directory (...) plus in-memory
\* MCP clients" (docs/reference/http-api.md): nobody creates the session here, so
\* after a deletion that reported success it is neither on disk nor live.
DeletedIsGone == (\E d \in Deleters : del[d] = "over") => ~ bundle /\ live = None

\* A cancel marker stops the turn "another foxxycode process" holds
\* (docs/reference/http-api.md), from the moment it holds the session.
StopIsHeard == \A t \in Turns : t \in stopped ~> t \in cancelled

\* registerSession: no "two State objects for one session id".  A turn that runs
\* on a State the manager has let go of leaves room for a second one.
OneWriter == \A t \in Turns : pc[t] \in Admitted => live \in {None, state[t]}

\* "a session's started edge always reaches an observer before its ended edge"
\* (turn_events.go): an idle edge is never still to come for a session whose next
\* busy edge has been delivered.
LastEdgeTells ==
    \A t \in Turns : owes[t] = "ended" =>
        Active = {} \/ \E u \in Active : owes[u] = "started"
=============================================================================
