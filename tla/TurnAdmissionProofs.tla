------------------------- MODULE TurnAdmissionProofs -------------------------
(***************************************************************************)
(* What TurnAdmission guarantees for any number of turns, deletions,       *)
(* requests, loads and Stops.  The argument of beginTurn is that a         *)
(* deletion marks before it cancels and a turn installs its cancel before  *)
(* it looks at the marks.  The inductive invariant makes it precise: marks *)
(* count the deletions under way, the turn that holds the session is the   *)
(* one its State would cancel, and a deletion that has settled has nobody  *)
(* running.                                                                *)
(***************************************************************************)
EXTENDS TurnAdmission, FiniteSetTheorems, TLAPS

\* Deletions under way, and the turns that owe an edge.
Marking == {d \in Deleters : del[d] \notin {"idle", "over", "failed"}}
Starting == {t \in Turns : owes[t] = "started"}
Ending == {t \in Turns : owes[t] = "ended"}
Busy == IF Active = {} THEN 0 ELSE 1

\* markDeleting counts.
MarksInv == marks = Cardinality(Marking)

\* Nobody runs between the end of a deletion's wait and the removal.
SettledInv ==
    \A d \in Deleters, t \in Turns :
        del[d] \in {"settled", "forgotten"} => pc[t] \notin Admitted

\* One turn at a time is past the lock.
LockInv == \A t, u \in Turns : pc[t] \in Locked /\ pc[u] \in Locked => t = u

\* A turn that has resolved its session keeps a State that has been built.
BuiltInv == live <= built /\ \A t \in Turns : pc[t] # "out" => state[t] \in 1 .. built

\* The turn that holds the session is the one its State cancels.
CancelInv ==
    \A t \in Turns : pc[t] \in {"installed"} \cup Admitted => t \in cancel[state[t]]

\* A poll belongs to a turn that has resolved its session.
PollInv == \A t \in Turns : poll[t] # "none" => pc[t] # "out"

\* There is one load in flight, and it has room for the State it builds.
LoadInv ==
    /\ \A r, q \in Requests : req[r] = "loading" /\ req[q] = "loading" => r = q
    /\ \A r \in Requests : req[r] = "loading" => built < MaxStates

\* What the observers were told lags behind by the edges still owed.
BalanceInv == balance = Busy - Cardinality(Starting) + Cardinality(Ending)

IInv ==
    /\ TypeOK /\ MarksInv /\ SettledInv /\ LockInv /\ BuiltInv /\ CancelInv
    /\ PollInv /\ LoadInv /\ BalanceInv /\ DeletionReachesTurns /\ StopIsNotSwallowed

-----------------------------------------------------------------------------
LEMMA Finiteness ==
    /\ IsFiniteSet(Marking) /\ IsFiniteSet(Starting) /\ IsFiniteSet(Ending)
    /\ Cardinality(Marking) \in 0 .. Cardinality(Deleters)
    /\ Cardinality(Starting) \in Nat /\ Cardinality(Ending) \in Nat
<1>1. Marking \in SUBSET Deleters /\ Starting \in SUBSET Turns /\ Ending \in SUBSET Turns
  BY DEF Marking, Starting, Ending
<1>2. IsFiniteSet(Marking) /\ Cardinality(Marking) <= Cardinality(Deleters)
  BY <1>1, FS_Subset, TurnsAssumption
<1>3. IsFiniteSet(Starting) /\ IsFiniteSet(Ending)
  BY <1>1, FS_Subset, TurnsAssumption
<1>4. /\ Cardinality(Marking) \in Nat /\ Cardinality(Deleters) \in Nat
      /\ Cardinality(Starting) \in Nat /\ Cardinality(Ending) \in Nat
  BY <1>2, <1>3, FS_CardinalityType, TurnsAssumption
<1>. QED
  BY <1>2, <1>3, <1>4

LEMMA FinitenessNext ==
    Cardinality(Marking') \in 0 .. Cardinality(Deleters)
<1>1. Marking' \in SUBSET Deleters
  BY DEF Marking
<1>2. IsFiniteSet(Marking') /\ Cardinality(Marking') <= Cardinality(Deleters)
  BY <1>1, FS_Subset, TurnsAssumption
<1>3. Cardinality(Marking') \in Nat /\ Cardinality(Deleters) \in Nat
  BY <1>2, FS_CardinalityType, TurnsAssumption
<1>. QED
  BY <1>2, <1>3

\* Without a mark no deletion is under way.
LEMMA NoMarks == IInv /\ marks = 0 => \A d \in Deleters : del[d] \in {"idle", "over", "failed"}
<1> SUFFICES ASSUME IInv, marks = 0
             PROVE  \A d \in Deleters : del[d] \in {"idle", "over", "failed"}
  OBVIOUS
<1>1. Marking = {}
  BY Finiteness, FS_EmptySet DEF IInv, MarksInv
<1>. QED
  BY <1>1 DEF Marking

LEMMA InitEstablishes == Init => IInv
<1> SUFFICES ASSUME Init PROVE IInv
  OBVIOUS
<1>1. Marking = {} /\ Starting = {} /\ Ending = {} /\ Active = {}
  BY DEF Init, Marking, Starting, Ending, Active, Registered
<1>2. MarksInv
  BY <1>1, FS_EmptySet DEF Init, MarksInv
<1>3. BalanceInv
  BY <1>1, FS_EmptySet DEF Init, BalanceInv, Busy
<1>4. TypeOK
  <2>1. 1 \in States /\ 0 \in 0 .. MaxStops /\ 0 \in 0 .. Cardinality(Deleters)
    BY BoundsAssumption, TurnsAssumption, FS_CardinalityType DEF States
  <2>2. pc \in [Turns -> Registered \cup {"out", "resolved", "admitted", "over"}]
    BY DEF Init
  <2>3. state \in [Turns -> States \cup {None}] /\ cancel \in [States -> SUBSET Turns]
    BY DEF Init
  <2>4. /\ owes \in [Turns -> {"nothing", "started", "ended"}]
        /\ poll \in [Turns -> {"none", "watching", "seen", "clearing"}]
    BY DEF Init
  <2>5. /\ del \in [Deleters -> {"idle", "marked", "awaiting", "settled", "forgotten",
                                "removed", "aborted", "over", "failed"}]
        /\ req \in [Requests -> {"idle", "loading", "resolved", "saving"}]
    BY DEF Init
  <2>6. /\ live \in States /\ built \in States
        /\ marks \in 0 .. Cardinality(Deleters) /\ stops \in 0 .. MaxStops
    BY <2>1 DEF Init
  <2>7. /\ bundle \in BOOLEAN /\ signal \in BOOLEAN /\ stop \in BOOLEAN
    BY DEF Init
  <2>8. balance \in Int /\ cancelled \subseteq Turns /\ stopped \subseteq Turns
    BY DEF Init
  <2>. QED
    BY <2>2, <2>3, <2>4, <2>5, <2>6, <2>7, <2>8 DEF TypeOK
<1>5. SettledInv /\ LockInv /\ BuiltInv /\ CancelInv /\ PollInv /\ LoadInv
  BY DEF Init, SettledInv, LockInv, BuiltInv, CancelInv, PollInv, LoadInv, Locked, Admitted
<1>6. DeletionReachesTurns /\ StopIsNotSwallowed
  BY DEF Init, DeletionReachesTurns, StopIsNotSwallowed
<1>. QED
  BY <1>2, <1>3, <1>4, <1>5, <1>6 DEF IInv

-----------------------------------------------------------------------------
\* Only a turn moves itself, and only it installs a cancel.
LEMMA OthersLeaveTurns ==
    /\ \A d \in Deleters : Delete(d) => UNCHANGED <<turnVars, cancel, poll, balance>>
    /\ \A r \in Requests : Serve(r) => UNCHANGED <<turnVars, cancelVars, balance>>
    /\ WriteSignal \/ CancelLive \/ ForgetLiveSession \/ UNCHANGED vars
            => UNCHANGED <<turnVars, cancel, poll, balance>>
<1>1. ASSUME NEW d \in Deleters, Delete(d) PROVE UNCHANGED <<turnVars, cancel, poll, balance>>
  BY <1>1 DEF Delete, MarkDeleting, CancelTurns, AwaitTurns, ForgetLive, RemoveAll, GiveUp,
              Unmark, cancelVars
<1>2. ASSUME NEW r \in Requests, Serve(r) PROVE UNCHANGED <<turnVars, cancelVars, balance>>
  BY <1>2 DEF Serve, FindLive, ReadSnapshot, RegisterSession, Answer, SaveLocks, SaveWrites
<1>3. ASSUME WriteSignal \/ CancelLive \/ ForgetLiveSession \/ UNCHANGED vars
      PROVE  UNCHANGED <<turnVars, cancel, poll, balance>>
  BY <1>3 DEF WriteSignal, CancelLive, ForgetLiveSession, vars, cancelVars
<1>. QED
  BY <1>1, <1>2, <1>3

\* A mark goes up when a deletion starts and down when it ends.
LEMMA MarksStep == IInv /\ [Next]_vars => MarksInv'
<1> SUFFICES ASSUME IInv, [Next]_vars PROVE MarksInv'
  OBVIOUS
<1>0. marks = Cardinality(Marking) /\ IsFiniteSet(Marking) /\ Cardinality(Marking) \in Nat
  BY Finiteness DEF IInv, MarksInv
<1>1. ASSUME NEW d \in Deleters, MarkDeleting(d) PROVE MarksInv'
  <2>1. d \notin Marking /\ Marking' = Marking \cup {d} /\ marks' = marks + 1
    BY <1>1 DEF MarkDeleting, DelGoto, Marking, IInv, TypeOK
  <2>. QED
    BY <1>0, <2>1, FS_AddElement DEF MarksInv
<1>2. ASSUME NEW d \in Deleters, Unmark(d) PROVE MarksInv'
  <2>1. d \in Marking /\ Marking' = Marking \ {d} /\ marks' = marks - 1
    BY <1>2 DEF Unmark, DelGoto, Marking, IInv, TypeOK
  <2>. QED
    BY <1>0, <2>1, FS_RemoveElement DEF MarksInv
<1>3. ASSUME NEW d \in Deleters,
             CancelTurns(d) \/ AwaitTurns(d) \/ ForgetLive(d) \/ RemoveAll(d) \/ GiveUp(d)
      PROVE  MarksInv'
  <2>1. Marking' = Marking /\ marks' = marks
    BY <1>3 DEF CancelTurns, AwaitTurns, ForgetLive, RemoveAll, GiveUp, DelGoto, Marking,
                sessionVars, IInv, TypeOK
  <2>. QED
    BY <1>0, <2>1 DEF MarksInv
<1>4. CASE UNCHANGED <<marks, del>>
  <2>1. Marking' = Marking
    BY <1>4 DEF Marking
  <2>. QED
    BY <1>0, <1>4, <2>1 DEF MarksInv
<1>5. ASSUME NEW t \in Turns, Begin(t) \/ RunEnds(t) \/ End(t) \/ Poll(t)
      PROVE  UNCHANGED <<marks, del>>
  BY <1>5 DEF Begin, End, Poll, Resolve, Admit, MarkActive, PublishEdge, AcquireLock,
              LockRefused, SetCancel, Recheck, ClearCancelRequest, RunEnds, Finish, Unlock,
              ClearActive, PollSees, PollCancels, PollClears, PollEnds, sessionVars, callVars
<1>6. ASSUME NEW r \in Requests, Serve(r) PROVE UNCHANGED <<marks, del>>
  BY <1>6 DEF Serve, FindLive, ReadSnapshot, RegisterSession, Answer, SaveLocks, SaveWrites,
              sessionVars
<1>7. CASE WriteSignal \/ CancelLive \/ ForgetLiveSession \/ UNCHANGED vars
  <2>1. UNCHANGED <<marks, del>>
    BY <1>7 DEF WriteSignal, CancelLive, ForgetLiveSession, vars, sessionVars, callVars
  <2>. QED
    BY <1>4, <2>1
<1>. QED
  BY <1>1, <1>2, <1>3, <1>4, <1>5, <1>6, <1>7 DEF Next, Delete

\* The lock is granted to nobody while it is held, and SetCancel follows it.
LEMMA LockStep == IInv /\ [Next]_vars => LockInv'
<1> SUFFICES ASSUME IInv, [Next]_vars PROVE LockInv'
  OBVIOUS
<1> USE DEF IInv, TypeOK, LockInv, Goto, Locked
<1>1. ASSUME NEW t \in Turns, AcquireLock(t) PROVE LockInv'
  BY <1>1 DEF AcquireLock, Held
<1>2. ASSUME NEW t \in Turns,
             Resolve(t) \/ Admit(t) \/ MarkActive(t) \/ LockRefused(t) \/ SetCancel(t)
             \/ Recheck(t) \/ ClearCancelRequest(t)
      PROVE  LockInv'
  BY <1>2 DEF Resolve, Admit, MarkActive, LockRefused, SetCancel, Recheck, ClearCancelRequest
<1>3. ASSUME NEW t \in Turns, RunEnds(t) \/ End(t) PROVE LockInv'
  BY <1>3 DEF RunEnds, End, Finish, Unlock, ClearActive
<1>4. CASE UNCHANGED pc
  BY <1>4
<1>5. ASSUME NEW t \in Turns, PublishEdge(t) \/ Poll(t) PROVE UNCHANGED pc
  BY <1>5 DEF PublishEdge, Poll, PollSees, PollCancels, PollClears, PollEnds, turnVars
<1>6. CASE UNCHANGED turnVars
  BY <1>4, <1>6 DEF turnVars
<1>. QED
  BY <1>1, <1>2, <1>3, <1>4, <1>5, <1>6, OthersLeaveTurns DEF Next, Begin

\* States are built one after the other; a turn resolves the live one.
LEMMA BuiltStep == IInv /\ [Next]_vars => BuiltInv'
<1> SUFFICES ASSUME IInv, [Next]_vars PROVE BuiltInv'
  OBVIOUS
<1> USE DEF IInv, TypeOK, BuiltInv, States, None
<1>1. ASSUME NEW t \in Turns, Resolve(t) PROVE BuiltInv'
  BY <1>1 DEF Resolve, Goto, sessionVars
<1>2. ASSUME NEW t \in Turns,
             Admit(t) \/ MarkActive(t) \/ AcquireLock(t) \/ LockRefused(t)
             \/ SetCancel(t) \/ Recheck(t) \/ ClearCancelRequest(t) \/ RunEnds(t) \/ End(t)
      PROVE  BuiltInv'
  BY <1>2 DEF Admit, MarkActive, AcquireLock, LockRefused, SetCancel, Recheck,
              ClearCancelRequest, RunEnds, End, Finish, Unlock, ClearActive, Goto, sessionVars
<1>3. ASSUME NEW t \in Turns, PublishEdge(t) \/ Poll(t) PROVE BuiltInv'
  BY <1>3 DEF PublishEdge, Poll, PollSees, PollCancels, PollClears, PollEnds, sessionVars, turnVars
<1>4. ASSUME NEW d \in Deleters, Delete(d) PROVE BuiltInv'
  BY <1>4 DEF Delete, MarkDeleting, CancelTurns, AwaitTurns, ForgetLive, RemoveAll, GiveUp,
              Unmark, sessionVars, turnVars
<1>5. ASSUME NEW r \in Requests, Serve(r) PROVE BuiltInv'
  BY <1>5 DEF Serve, FindLive, ReadSnapshot, RegisterSession, Answer, SaveLocks, SaveWrites,
              sessionVars, turnVars
<1>6. CASE WriteSignal \/ CancelLive \/ ForgetLiveSession \/ UNCHANGED vars
  BY <1>6 DEF WriteSignal, CancelLive, ForgetLiveSession, vars, sessionVars, turnVars
<1>. QED
  BY <1>1, <1>2, <1>3, <1>4, <1>5, <1>6 DEF Next, Begin

\* A cancel is installed under the lock, so nobody else's is replaced by it.
LEMMA CancelStep == IInv /\ [Next]_vars => CancelInv'
<1> SUFFICES ASSUME IInv, [Next]_vars PROVE CancelInv'
  OBVIOUS
<1> USE DEF IInv, TypeOK, CancelInv, Goto, Admitted
<1>1. ASSUME NEW t \in Turns, SetCancel(t) PROVE CancelInv'
  <2>1. \A u \in Turns : pc[u] \in {"installed"} \cup Admitted => u # t /\ pc[u] \in Locked
    BY <1>1 DEF SetCancel, Locked
  <2>2. \A u \in Turns : pc[u] \notin {"installed"} \cup Admitted
    BY <1>1, <2>1 DEF SetCancel, LockInv, Locked
  <2>3. state[t] \in States
    BY <1>1 DEF SetCancel, BuiltInv, States, None
  <2>. QED
    BY <1>1, <2>2, <2>3 DEF SetCancel
<1>2. ASSUME NEW t \in Turns, Resolve(t) PROVE CancelInv'
  BY <1>2 DEF Resolve, cancelVars
<1>3. ASSUME NEW t \in Turns,
             Admit(t) \/ MarkActive(t) \/ AcquireLock(t) \/ LockRefused(t)
             \/ Recheck(t) \/ ClearCancelRequest(t) \/ RunEnds(t) \/ End(t)
      PROVE  CancelInv'
  BY <1>3 DEF Admit, MarkActive, AcquireLock, LockRefused, Recheck,
              ClearCancelRequest, RunEnds, End, Finish, Unlock, ClearActive, cancelVars
<1>4. CASE UNCHANGED <<pc, state, cancel>>
  BY <1>4
<1>5. ASSUME NEW t \in Turns, PublishEdge(t) \/ Poll(t) PROVE UNCHANGED <<pc, state, cancel>>
  BY <1>5 DEF PublishEdge, Poll, PollSees, PollCancels, PollClears, PollEnds, turnVars, cancelVars
<1>6. CASE UNCHANGED <<turnVars, cancel>>
  BY <1>4, <1>6 DEF turnVars
<1>7. ASSUME NEW r \in Requests, Serve(r) PROVE UNCHANGED <<turnVars, cancel>>
  BY <1>7, OthersLeaveTurns DEF cancelVars
<1>. QED
  BY <1>1, <1>2, <1>3, <1>4, <1>5, <1>6, <1>7, OthersLeaveTurns DEF Next, Begin

\* One leader loads at a time, and only a load builds.
LEMMA LoadStep == IInv /\ [Next]_vars => LoadInv'
<1> SUFFICES ASSUME IInv, [Next]_vars PROVE LoadInv'
  OBVIOUS
<1> USE DEF IInv, TypeOK, LoadInv, ReqGoto
<1>1. ASSUME NEW r \in Requests, ReadSnapshot(r) PROVE LoadInv'
  BY <1>1 DEF ReadSnapshot, sessionVars
<1>2. ASSUME NEW r \in Requests, RegisterSession(r) PROVE LoadInv'
  BY <1>2 DEF RegisterSession
<1>3. ASSUME NEW r \in Requests, FindLive(r) \/ Answer(r) \/ SaveLocks(r) \/ SaveWrites(r)
      PROVE  LoadInv'
  BY <1>3 DEF FindLive, Answer, SaveLocks, SaveWrites, sessionVars
<1>4. CASE UNCHANGED <<built, req>>
  BY <1>4
<1>5. ASSUME NEW t \in Turns, Begin(t) \/ RunEnds(t) \/ End(t) \/ Poll(t)
      PROVE  UNCHANGED <<built, req>>
  BY <1>5 DEF Begin, End, Poll, Resolve, Admit, MarkActive, PublishEdge, AcquireLock,
              LockRefused, SetCancel, Recheck, ClearCancelRequest, RunEnds, Finish, Unlock,
              ClearActive, PollSees, PollCancels, PollClears, PollEnds, sessionVars, callVars
<1>6. ASSUME NEW d \in Deleters, Delete(d) PROVE UNCHANGED <<built, req>>
  BY <1>6 DEF Delete, MarkDeleting, CancelTurns, AwaitTurns, ForgetLive, RemoveAll, GiveUp,
              Unmark, sessionVars
<1>7. ASSUME WriteSignal \/ CancelLive \/ ForgetLiveSession \/ UNCHANGED vars
      PROVE  UNCHANGED <<built, req>>
  BY <1>7 DEF WriteSignal, CancelLive, ForgetLiveSession, vars, sessionVars, callVars
<1>. QED
  BY <1>1, <1>2, <1>3, <1>4, <1>5, <1>6, <1>7 DEF Next, Serve

\* A deletion settles when nobody is active, and its mark stops whoever comes.
LEMMA SettledStep == IInv /\ [Next]_vars => SettledInv'
<1> SUFFICES ASSUME IInv, [Next]_vars PROVE SettledInv'
  OBVIOUS
<1> USE DEF IInv, TypeOK, SettledInv, Admitted
<1>1. ASSUME NEW d \in Deleters, AwaitTurns(d) PROVE SettledInv'
  BY <1>1 DEF AwaitTurns, DelGoto, turnVars, Active, Registered
<1>2. ASSUME NEW d \in Deleters,
             MarkDeleting(d) \/ CancelTurns(d) \/ ForgetLive(d) \/ RemoveAll(d)
             \/ GiveUp(d) \/ Unmark(d)
      PROVE  SettledInv'
  BY <1>2 DEF MarkDeleting, CancelTurns, ForgetLive, RemoveAll, GiveUp, Unmark, DelGoto, turnVars
<1>3. ASSUME NEW t \in Turns, Recheck(t) PROVE SettledInv'
  <2>1. CASE marks = 0
    BY <1>3, <2>1, NoMarks DEF Recheck, Goto, callVars
  <2>2. CASE marks # 0
    BY <1>3, <2>2 DEF Recheck, Admissible, Goto, callVars
  <2>. QED
    BY <2>1, <2>2
<1>4. ASSUME NEW t \in Turns,
             Resolve(t) \/ Admit(t) \/ MarkActive(t) \/ AcquireLock(t) \/ LockRefused(t)
             \/ SetCancel(t) \/ ClearCancelRequest(t) \/ RunEnds(t) \/ End(t)
      PROVE  SettledInv'
  BY <1>4 DEF Resolve, Admit, MarkActive, AcquireLock, LockRefused, SetCancel,
              ClearCancelRequest, RunEnds, End, Finish, Unlock, ClearActive, Goto, callVars
<1>5. CASE UNCHANGED <<pc, del>>
  BY <1>5
<1>6. ASSUME NEW t \in Turns, PublishEdge(t) \/ Poll(t) PROVE UNCHANGED <<pc, del>>
  BY <1>6 DEF PublishEdge, Poll, PollSees, PollCancels, PollClears, PollEnds, turnVars, callVars
<1>7. ASSUME NEW r \in Requests, Serve(r) PROVE UNCHANGED <<pc, del>>
  BY <1>7 DEF Serve, FindLive, ReadSnapshot, RegisterSession, Answer, SaveLocks, SaveWrites,
              turnVars
<1>8. ASSUME WriteSignal \/ CancelLive \/ ForgetLiveSession \/ UNCHANGED vars
      PROVE  UNCHANGED <<pc, del>>
  BY <1>8 DEF WriteSignal, CancelLive, ForgetLiveSession, vars, turnVars, callVars
<1>. QED
  BY <1>1, <1>2, <1>3, <1>4, <1>5, <1>6, <1>7, <1>8 DEF Next, Begin, Delete

\* A deletion cancels what the live State would cancel, and with its mark up
\* nobody begins: that is the either-or of beginTurn.
LEMMA ReachStep == IInv /\ [Next]_vars => DeletionReachesTurns'
<1> SUFFICES ASSUME IInv, [Next]_vars PROVE DeletionReachesTurns'
  OBVIOUS
<1> USE DEF IInv, TypeOK, DeletionReachesTurns, Admitted
<1>1. ASSUME NEW d \in Deleters, CancelTurns(d) PROVE DeletionReachesTurns'
  <2>1. CASE live = None
    <3>1. \A t \in Turns : pc[t] \in Admitted => state[t] # live
      BY <2>1 DEF BuiltInv, None
    <3>. QED
      BY <1>1, <3>1 DEF CancelTurns, sessionVars, turnVars
  <2>2. CASE live # None
    <3>1. cancelled' = cancelled \cup cancel[live]
      BY <1>1, <2>2 DEF CancelTurns, CancelState
    <3>2. \A t \in Turns : pc[t] \in Admitted /\ state[t] = live => t \in cancelled'
      BY <3>1 DEF CancelInv
    <3>. QED
      BY <1>1, <3>2 DEF CancelTurns, sessionVars, turnVars
  <2>. QED
    BY <2>1, <2>2
<1>2. ASSUME NEW d \in Deleters,
             MarkDeleting(d) \/ AwaitTurns(d) \/ RemoveAll(d) \/ GiveUp(d) \/ Unmark(d)
      PROVE  DeletionReachesTurns'
  BY <1>2 DEF MarkDeleting, AwaitTurns, RemoveAll, GiveUp, Unmark, DelGoto, turnVars,
              cancelVars, sessionVars
<1>3. ASSUME live' = None, UNCHANGED <<pc, state>> PROVE DeletionReachesTurns'
  BY <1>3 DEF BuiltInv, None
<1>4. ASSUME NEW d \in Deleters, ForgetLive(d) PROVE live' = None /\ UNCHANGED <<pc, state>>
  BY <1>4 DEF ForgetLive, turnVars
<1>5. ASSUME ForgetLiveSession PROVE live' = None /\ UNCHANGED <<pc, state>>
  BY <1>5 DEF ForgetLiveSession, turnVars
<1>6. ASSUME NEW t \in Turns, Recheck(t) PROVE DeletionReachesTurns'
  <2>1. CASE marks = 0
    BY <1>6, <2>1, NoMarks DEF Recheck, Goto, callVars
  <2>2. CASE marks # 0
    BY <1>6, <2>2 DEF Recheck, Admissible, Goto, callVars, cancelVars, sessionVars
  <2>. QED
    BY <2>1, <2>2
<1>7. ASSUME NEW t \in Turns,
             Resolve(t) \/ Admit(t) \/ MarkActive(t) \/ AcquireLock(t) \/ LockRefused(t)
             \/ SetCancel(t) \/ ClearCancelRequest(t) \/ RunEnds(t) \/ End(t)
      PROVE  DeletionReachesTurns'
  BY <1>7 DEF Resolve, Admit, MarkActive, AcquireLock, LockRefused, SetCancel,
              ClearCancelRequest, RunEnds, End, Finish, Unlock, ClearActive, Goto, callVars,
              cancelVars, sessionVars
<1>8. CASE UNCHANGED <<pc, state, del, live>> /\ cancelled \subseteq cancelled'
  BY <1>8
<1>9. ASSUME NEW t \in Turns, PublishEdge(t) \/ Poll(t)
      PROVE  UNCHANGED <<pc, state, del, live>> /\ cancelled \subseteq cancelled'
  BY <1>9 DEF PublishEdge, Poll, PollSees, PollCancels, PollClears, PollEnds, CancelState,
              turnVars, callVars, cancelVars, sessionVars
<1>10. ASSUME NEW r \in Requests, RegisterSession(r) PROVE DeletionReachesTurns'
  <2>1. CASE live = None
    <3>1. \A t \in Turns : pc[t] \in Admitted => state[t] # built + 1
      BY DEF BuiltInv, States
    <3>2. live' = built + 1 /\ UNCHANGED <<pc, state>>
      BY <1>10, <2>1 DEF RegisterSession, turnVars
    <3>. QED
      BY <3>1, <3>2
  <2>2. CASE live # None
    BY <1>10, <2>2, <1>8 DEF RegisterSession, turnVars, cancelVars
  <2>. QED
    BY <2>1, <2>2
<1>11. ASSUME NEW r \in Requests,
              FindLive(r) \/ ReadSnapshot(r) \/ Answer(r) \/ SaveLocks(r) \/ SaveWrites(r)
       PROVE  UNCHANGED <<pc, state, del, live>> /\ cancelled \subseteq cancelled'
  BY <1>11 DEF FindLive, ReadSnapshot, Answer, SaveLocks, SaveWrites, turnVars, sessionVars,
               cancelVars
<1>12. ASSUME WriteSignal \/ CancelLive \/ UNCHANGED vars
       PROVE  UNCHANGED <<pc, state, del, live>> /\ cancelled \subseteq cancelled'
  BY <1>12 DEF WriteSignal, CancelLive, CancelState, vars, turnVars, callVars, sessionVars,
               cancelVars
<1>. QED
  BY <1>1, <1>2, <1>3, <1>4, <1>5, <1>6, <1>7, <1>8, <1>9, <1>10, <1>11, <1>12
  DEF Next, Begin, Delete, Serve

\* A poll cancels the turn it was started for before it clears the signal.
LEMMA SwallowStep == IInv /\ [Next]_vars => StopIsNotSwallowed'
<1> SUFFICES ASSUME IInv, [Next]_vars PROVE StopIsNotSwallowed'
  OBVIOUS
<1> USE DEF IInv, TypeOK, StopIsNotSwallowed
<1>1. ASSUME NEW t \in Turns, ClearCancelRequest(t) PROVE StopIsNotSwallowed'
  BY <1>1 DEF ClearCancelRequest, Goto
<1>2. ASSUME NEW t \in Turns, PollCancels(t) PROVE StopIsNotSwallowed'
  <2>1. pc[t] = "running" => t \in cancelled'
    BY <1>2 DEF PollCancels, CancelState, CancelInv, Admitted
  <2>2. cancelled \subseteq cancelled' /\ pc' = pc
    BY <1>2 DEF PollCancels, CancelState, turnVars
  <2>. QED
    BY <1>2, <2>1, <2>2 DEF PollCancels
<1>3. ASSUME NEW t \in Turns, PollSees(t) \/ PollClears(t) \/ PollEnds(t)
      PROVE  StopIsNotSwallowed'
  BY <1>3 DEF PollSees, PollClears, PollEnds, turnVars
<1>4. ASSUME NEW t \in Turns,
             Resolve(t) \/ Admit(t) \/ MarkActive(t) \/ AcquireLock(t) \/ LockRefused(t)
             \/ SetCancel(t) \/ Recheck(t) \/ RunEnds(t) \/ End(t)
      PROVE  StopIsNotSwallowed'
  BY <1>4 DEF Resolve, Admit, MarkActive, AcquireLock, LockRefused, SetCancel, Recheck,
              RunEnds, End, Finish, Unlock, ClearActive, Goto, cancelVars
<1>5. CASE UNCHANGED <<pc, poll>> /\ cancelled \subseteq cancelled'
  BY <1>5
<1>6. ASSUME NEW t \in Turns, PublishEdge(t)
      PROVE  UNCHANGED <<pc, poll>> /\ cancelled \subseteq cancelled'
  BY <1>6 DEF PublishEdge, cancelVars
<1>7. ASSUME NEW d \in Deleters, Delete(d)
      PROVE  UNCHANGED <<pc, poll>> /\ cancelled \subseteq cancelled'
  BY <1>7 DEF Delete, MarkDeleting, CancelTurns, AwaitTurns, ForgetLive, RemoveAll, GiveUp,
              Unmark, CancelState, turnVars, cancelVars
<1>8. ASSUME NEW r \in Requests, Serve(r)
      PROVE  UNCHANGED <<pc, poll>> /\ cancelled \subseteq cancelled'
  BY <1>8, OthersLeaveTurns DEF turnVars, cancelVars
<1>9. ASSUME WriteSignal \/ CancelLive \/ ForgetLiveSession \/ UNCHANGED vars
      PROVE  UNCHANGED <<pc, poll>> /\ cancelled \subseteq cancelled'
  BY <1>9 DEF WriteSignal, CancelLive, ForgetLiveSession, CancelState, vars, turnVars, cancelVars
<1>. QED
  BY <1>1, <1>2, <1>3, <1>4, <1>5, <1>6, <1>7, <1>8, <1>9 DEF Next, Begin, Poll

\* No turn goes back to where it started, and a poll starts with its run.
LEMMA PollStep == IInv /\ [Next]_vars => PollInv'
<1> SUFFICES ASSUME IInv, [Next]_vars PROVE PollInv'
  OBVIOUS
<1> USE DEF IInv, TypeOK, PollInv, Goto
<1>1. ASSUME NEW t \in Turns, Begin(t) \/ RunEnds(t) \/ End(t) PROVE PollInv'
  BY <1>1 DEF Begin, End, Resolve, Admit, MarkActive, PublishEdge, AcquireLock, LockRefused,
              SetCancel, Recheck, ClearCancelRequest, RunEnds, Finish, Unlock, ClearActive,
              cancelVars
<1>2. ASSUME NEW t \in Turns, Poll(t) PROVE PollInv'
  BY <1>2 DEF Poll, PollSees, PollCancels, PollClears, PollEnds, turnVars
<1>3. CASE UNCHANGED <<turnVars, poll>>
  BY <1>3 DEF turnVars
<1>4. ASSUME NEW r \in Requests, Serve(r) PROVE UNCHANGED <<turnVars, poll>>
  BY <1>4, OthersLeaveTurns DEF cancelVars
<1>. QED
  BY <1>1, <1>2, <1>3, <1>4, OthersLeaveTurns DEF Next

\* The ledger of edges: the first turn owes one, the last turn owes one, and a
\* turn has at most one to publish.
LEMMA BalanceStep == IInv /\ [Next]_vars => BalanceInv'
<1> SUFFICES ASSUME IInv, [Next]_vars PROVE BalanceInv'
  OBVIOUS
<1>0. /\ balance = Busy - Cardinality(Starting) + Cardinality(Ending)
      /\ IsFiniteSet(Starting) /\ IsFiniteSet(Ending)
      /\ Cardinality(Starting) \in Nat /\ Cardinality(Ending) \in Nat
      /\ Busy \in {0, 1}
  BY Finiteness DEF IInv, BalanceInv, Busy
<1>1. CASE Busy' = Busy /\ UNCHANGED <<owes, balance>>
  <2>1. Starting' = Starting /\ Ending' = Ending
    BY <1>1 DEF Starting, Ending
  <2>. QED
    BY <1>0, <1>1, <2>1 DEF BalanceInv
<1>2. ASSUME NEW t \in Turns, MarkActive(t) PROVE BalanceInv'
  <2>1. Active' = Active \cup {t} /\ owes[t] = "nothing" /\ balance' = balance
    BY <1>2 DEF MarkActive, Goto, Active, Registered, IInv, TypeOK
  <2>2. CASE Active = {}
    <3>1. Starting' = Starting \cup {t} /\ t \notin Starting /\ Ending' = Ending
      BY <1>2, <2>1, <2>2 DEF MarkActive, Starting, Ending, IInv, TypeOK
    <3>2. Cardinality(Starting') = Cardinality(Starting) + 1
      BY <1>0, <3>1, FS_AddElement
    <3>3. Busy = 0 /\ Busy' = 1
      BY <2>1, <2>2 DEF Busy
    <3>. QED
      BY <1>0, <2>1, <3>1, <3>2, <3>3 DEF BalanceInv
  <2>3. CASE Active # {}
    <3>1. Busy' = Busy /\ UNCHANGED <<owes, balance>>
      BY <1>2, <2>1, <2>3 DEF MarkActive, Busy
    <3>. QED
      BY <1>1, <3>1
  <2>. QED
    BY <2>2, <2>3
<1>3. ASSUME NEW t \in Turns, ClearActive(t) PROVE BalanceInv'
  <2>1. /\ t \in Active /\ Active' = Active \ {t}
        /\ owes[t] = "nothing" /\ balance' = balance
    BY <1>3 DEF ClearActive, Goto, Active, Registered, IInv, TypeOK
  <2>2. CASE Active = {t}
    <3>1. Ending' = Ending \cup {t} /\ t \notin Ending /\ Starting' = Starting
      BY <1>3, <2>1, <2>2 DEF ClearActive, Starting, Ending, IInv, TypeOK
    <3>2. Cardinality(Ending') = Cardinality(Ending) + 1
      BY <1>0, <3>1, FS_AddElement
    <3>3. Busy = 1 /\ Busy' = 0
      BY <2>1, <2>2 DEF Busy
    <3>. QED
      BY <1>0, <2>1, <3>1, <3>2, <3>3 DEF BalanceInv
  <2>3. CASE Active # {t}
    <3>1. Busy' = Busy /\ UNCHANGED <<owes, balance>>
      BY <1>3, <2>1, <2>3 DEF ClearActive, Busy
    <3>. QED
      BY <1>1, <3>1
  <2>. QED
    BY <2>2, <2>3
<1>4. ASSUME NEW t \in Turns, PublishEdge(t) PROVE BalanceInv'
  <2>1. Busy' = Busy
    BY <1>4 DEF PublishEdge, Busy, Active
  <2>2. CASE owes[t] = "started"
    <3>1. Starting' = Starting \ {t} /\ t \in Starting /\ Ending' = Ending
      BY <1>4, <2>2 DEF PublishEdge, Starting, Ending, IInv, TypeOK
    <3>2. Cardinality(Starting') = Cardinality(Starting) - 1 /\ balance' = balance + 1
      BY <1>0, <1>4, <2>2, <3>1, FS_RemoveElement DEF PublishEdge
    <3>. QED
      BY <1>0, <2>1, <3>1, <3>2 DEF BalanceInv
  <2>3. CASE owes[t] = "ended"
    <3>1. Ending' = Ending \ {t} /\ t \in Ending /\ Starting' = Starting
      BY <1>4, <2>3 DEF PublishEdge, Starting, Ending, IInv, TypeOK
    <3>2. Cardinality(Ending') = Cardinality(Ending) - 1 /\ balance' = balance - 1
      BY <1>0, <1>4, <2>3, <3>1, FS_RemoveElement DEF PublishEdge
    <3>. QED
      BY <1>0, <2>1, <3>1, <3>2 DEF BalanceInv
  <2>. QED
    BY <1>4, <2>2, <2>3 DEF PublishEdge, IInv, TypeOK
<1>5. ASSUME Active' = Active, UNCHANGED <<owes, balance>> PROVE BalanceInv'
  BY <1>1, <1>5 DEF Busy
<1>6. ASSUME NEW t \in Turns,
             Resolve(t) \/ Admit(t) \/ AcquireLock(t) \/ LockRefused(t) \/ SetCancel(t)
             \/ Recheck(t) \/ ClearCancelRequest(t) \/ RunEnds(t) \/ Finish(t) \/ Unlock(t)
      PROVE  Active' = Active /\ UNCHANGED <<owes, balance>>
  BY <1>6 DEF Resolve, Admit, AcquireLock, LockRefused, SetCancel, Recheck,
              ClearCancelRequest, RunEnds, Finish, Unlock, Goto, Active, Registered, IInv, TypeOK
<1>7. CASE UNCHANGED <<turnVars, balance>>
  BY <1>5, <1>7 DEF Active, turnVars
<1>8. ASSUME NEW t \in Turns, Poll(t) PROVE UNCHANGED <<turnVars, balance>>
  BY <1>8 DEF Poll, PollSees, PollCancels, PollClears, PollEnds
<1>. QED
  BY <1>2, <1>3, <1>4, <1>5, <1>6, <1>7, <1>8, OthersLeaveTurns DEF Next, Begin, End

-----------------------------------------------------------------------------
LEMMA TypeStep == IInv /\ [Next]_vars => TypeOK'
<1> SUFFICES ASSUME IInv, [Next]_vars PROVE TypeOK'
  OBVIOUS
<1>0. marks' \in 0 .. Cardinality(Deleters)
  BY MarksStep, FinitenessNext DEF MarksInv
<1> USE DEF IInv, TypeOK, sessionVars, diskVars, turnVars, cancelVars, callVars
<1>1. ASSUME NEW t \in Turns, Resolve(t) PROVE TypeOK'
  BY <1>1 DEF Resolve, Goto
<1>2. ASSUME NEW t \in Turns, Admit(t) PROVE TypeOK'
  BY <1>2 DEF Admit, Goto
<1>3. ASSUME NEW t \in Turns, MarkActive(t) PROVE TypeOK'
  BY <1>3 DEF MarkActive, Goto, Registered
<1>4. ASSUME NEW t \in Turns, PublishEdge(t) PROVE TypeOK'
  BY <1>4 DEF PublishEdge
<1>5. ASSUME NEW t \in Turns,
             AcquireLock(t) \/ LockRefused(t) \/ Recheck(t) \/ RunEnds(t) \/ Unlock(t)
      PROVE  TypeOK'
  BY <1>5 DEF AcquireLock, LockRefused, Recheck, RunEnds, Unlock, Goto, Registered
<1>6. ASSUME NEW t \in Turns, SetCancel(t) PROVE TypeOK'
  BY <1>6 DEF SetCancel, Goto, Registered
<1>7. ASSUME NEW t \in Turns, ClearCancelRequest(t) PROVE TypeOK'
  BY <1>7 DEF ClearCancelRequest, Goto, Registered
<1>8. ASSUME NEW t \in Turns, Finish(t) PROVE TypeOK'
  BY <1>8 DEF Finish, Goto, Registered
<1>9. ASSUME NEW t \in Turns, ClearActive(t) PROVE TypeOK'
  BY <1>9 DEF ClearActive, Goto, Registered
<1>10. ASSUME NEW t \in Turns, PollSees(t) \/ PollClears(t) \/ PollEnds(t) PROVE TypeOK'
  <2>1. signal' \in BOOLEAN
    BY <1>10 DEF PollSees, PollClears, PollEnds
  <2>. QED
    BY <1>10, <2>1 DEF PollSees, PollClears, PollEnds
<1>11. ASSUME NEW t \in Turns, PollCancels(t) PROVE TypeOK'
  <2>1. cancelled' \subseteq Turns
    BY <1>11 DEF PollCancels, CancelState, PollInv, BuiltInv, States, None
  <2>. QED
    BY <1>11, <2>1 DEF PollCancels
<1>12. ASSUME NEW d \in Deleters, CancelTurns(d) PROVE TypeOK'
  <2>1. cancelled' \subseteq Turns
    BY <1>12 DEF CancelTurns, CancelState
  <2>. QED
    BY <1>12, <2>1 DEF CancelTurns, DelGoto
<1>13. ASSUME NEW d \in Deleters,
              MarkDeleting(d) \/ AwaitTurns(d) \/ ForgetLive(d) \/ GiveUp(d) \/ Unmark(d)
       PROVE  TypeOK'
  BY <1>0, <1>13 DEF MarkDeleting, AwaitTurns, ForgetLive, GiveUp, Unmark, DelGoto
<1>14. ASSUME NEW d \in Deleters, RemoveAll(d) PROVE TypeOK'
  BY <1>14 DEF RemoveAll, DelGoto
<1>15. ASSUME NEW r \in Requests,
              FindLive(r) \/ ReadSnapshot(r) \/ Answer(r) \/ SaveLocks(r)
       PROVE  TypeOK'
  BY <1>15 DEF FindLive, ReadSnapshot, Answer, SaveLocks, ReqGoto
<1>16. ASSUME NEW r \in Requests, SaveWrites(r) PROVE TypeOK'
  BY <1>16 DEF SaveWrites, ReqGoto
<1>17. ASSUME NEW r \in Requests, RegisterSession(r) PROVE TypeOK'
  <2>1. built + 1 \in States
    BY <1>17, BoundsAssumption DEF RegisterSession, ReqGoto, LoadInv, States
  <2>. QED
    BY <1>17, <2>1 DEF RegisterSession, ReqGoto
<1>18. CASE WriteSignal
  <2>1. signal' \in BOOLEAN /\ stop' \in BOOLEAN
    BY <1>18 DEF WriteSignal
  <2>2. stops' \in 0 .. MaxStops /\ stopped' \subseteq Turns
    BY <1>18, BoundsAssumption DEF WriteSignal
  <2>. QED
    BY <1>18, <2>1, <2>2 DEF WriteSignal
<1>19. CASE CancelLive
  <2>1. cancelled' \subseteq Turns
    BY <1>19 DEF CancelLive, CancelState
  <2>2. stop' \in BOOLEAN
    BY <1>19 DEF CancelLive
  <2>. QED
    BY <1>19, <2>1, <2>2 DEF CancelLive
<1>20. CASE ForgetLiveSession
  BY <1>20 DEF ForgetLiveSession
<1>21. CASE UNCHANGED vars
  BY <1>21 DEF vars
<1>. QED
  BY <1>1, <1>2, <1>3, <1>4, <1>5, <1>6, <1>7, <1>8, <1>9, <1>10, <1>11, <1>12, <1>13,
     <1>14, <1>15, <1>16, <1>17, <1>18, <1>19, <1>20, <1>21
  DEF Next, Begin, End, Poll, Delete, Serve

LEMMA InvariantHolds == Spec => []IInv
<1>1. IInv /\ [Next]_vars => IInv'
  BY TypeStep, MarksStep, SettledStep, LockStep, BuiltStep, CancelStep, LoadStep,
     PollStep, BalanceStep, ReachStep, SwallowStep DEF IInv
<1>. QED
  BY <1>1, InitEstablishes, PTL DEF Spec

-----------------------------------------------------------------------------
\* The manager's tables keep their types; in particular the marks of a session
\* are never more than the deletions that run, and never negative.
THEOREM TypeCorrect == Spec => []TypeOK
<1>1. IInv => TypeOK
  BY DEF IInv
<1>. QED
  BY <1>1, InvariantHolds, PTL

\* However many turns, deletions and loads overlap: when DeleteSessionTree removes
\* the bundle no turn of the session is past its admission (beginTurn's promise).
THEOREM RemovalFindsNobody == Spec => NoTurnPastRemoval
<1>1. IInv /\ [Next]_vars =>
         [bundle /\ ~ bundle' => \A t \in Turns : pc[t] \notin Admitted]_vars
  <2> SUFFICES ASSUME IInv, Next, bundle, ~ bundle'
               PROVE  \A t \in Turns : pc[t] \notin Admitted
    BY DEF vars
  <2>1. PICK d \in Deleters : RemoveAll(d)
    <3>1. ASSUME NEW t \in Turns, Begin(t) \/ RunEnds(t) \/ End(t) \/ Poll(t)
          PROVE  bundle' = bundle
      BY <3>1 DEF Begin, End, Poll, Resolve, Admit, MarkActive, PublishEdge, AcquireLock,
                  LockRefused, SetCancel, Recheck, ClearCancelRequest, RunEnds, Finish, Unlock,
                  ClearActive, PollSees, PollCancels, PollClears, PollEnds, diskVars
    <3>2. ASSUME NEW d \in Deleters,
                 MarkDeleting(d) \/ CancelTurns(d) \/ AwaitTurns(d) \/ ForgetLive(d)
                 \/ GiveUp(d) \/ Unmark(d)
          PROVE  bundle' = bundle
      BY <3>2 DEF MarkDeleting, CancelTurns, AwaitTurns, ForgetLive, GiveUp, Unmark, diskVars
    <3>3. ASSUME NEW r \in Requests, Serve(r) PROVE bundle' = bundle \/ bundle'
      BY <3>3 DEF Serve, FindLive, ReadSnapshot, RegisterSession, Answer, SaveLocks, SaveWrites,
                  diskVars
    <3>4. ASSUME WriteSignal \/ CancelLive \/ ForgetLiveSession PROVE bundle' = bundle
      BY <3>4 DEF WriteSignal, CancelLive, ForgetLiveSession, diskVars
    <3>. QED
      BY <3>1, <3>2, <3>3, <3>4 DEF Next, Delete
  <2>2. del[d] = "forgotten"
    BY <2>1 DEF RemoveAll, DelGoto
  <2>. QED
    BY <2>2 DEF IInv, SettledInv
<1>. QED
  BY <1>1, InvariantHolds, PTL DEF Spec, NoTurnPastRemoval

\* A deletion never waits for a turn of the live State it has not cancelled: the
\* wait of cancelAndAwaitTurns is for turns that have been told.
THEOREM DeletionTellsTurns == Spec => []DeletionReachesTurns
<1>1. IInv => DeletionReachesTurns
  BY DEF IInv
<1>. QED
  BY <1>1, InvariantHolds, PTL

\* Whenever nothing is left to publish, the started edges exceed the ended ones
\* by one if the session is busy and by none if it is idle (markTurnActive).
THEOREM EdgesAddUp == Spec => []EdgesBalance
<1>1. IInv => EdgesBalance
  <2> SUFFICES ASSUME IInv, \A t \in Turns : owes[t] = "nothing" PROVE balance = Busy
    BY DEF EdgesBalance, Busy
  <2>1. Starting = {} /\ Ending = {}
    BY DEF Starting, Ending
  <2>2. balance = Busy - 0 + 0
    BY <2>1, FS_EmptySet DEF IInv, BalanceInv
  <2>. QED
    BY <2>2 DEF Busy
<1>. QED
  BY <1>1, InvariantHolds, PTL

\* The poll of a running turn never takes a Stop off the disk without having
\* cancelled that turn, whatever State has become the live one.
THEOREM StopsAreDelivered == Spec => []StopIsNotSwallowed
<1>1. IInv => StopIsNotSwallowed
  BY DEF IInv
<1>. QED
  BY <1>1, InvariantHolds, PTL
=============================================================================
