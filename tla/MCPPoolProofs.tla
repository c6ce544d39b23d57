----------------------------- MODULE MCPPoolProofs -----------------------------
(***************************************************************************)
(* Proofs about the pool of MCP connections (MCPPool).  What the goroutine *)
(* of a start says of its entry and of its server, what is on the map,     *)
(* what the callers hold and what Close has seen is inductive; the count   *)
(* of references, the sharing of one connection, the safety of a lease and *)
(* the three promises about servers nobody would stop follow from it, for  *)
(* any number of sessions, starts and changes.                             *)
(***************************************************************************)
EXTENDS MCPPool, FiniteSetTheorems, TLAPS

\* The server and the entry of a start, by how far its goroutine has come.
StartShaped(e) ==
  /\ dial[e] = "none" => server[e] = "none"
  /\ dial[e] = "running" => server[e] = "starting"
  /\ dial[e] = "discarded" => server[e] \in {"closing", "stopped"}
  /\ dial[e] # "over" =>
       ~entry[e].conn /\ ~entry[e].ready /\ ~entry[e].ended /\ ~entry[e].err
  /\ dial[e] = "over" => entry[e].ready /\ (entry[e].conn <=> ~entry[e].err)
  /\ entry[e].err => entry[e].ended /\ server[e] = "stopped"

\* A connection is either up and owed to nobody, or ended and on its way to be closed.
ConnShaped(e) ==
  /\ ~entry[e].conn => ~entry[e].owed /\ ~entry[e].stopping
  /\ entry[e].conn /\ ~entry[e].ended =>
       server[e] \in {"live", "gone"} /\ ~entry[e].owed /\ ~entry[e].stopping
  /\ entry[e].conn /\ entry[e].ended =>
       \/ server[e] \in {"live", "gone"} /\ entry[e].owed /\ entry[e].stopping
       \/ server[e] = "closing" /\ ~entry[e].owed /\ entry[e].stopping
       \/ server[e] = "stopped" /\ ~entry[e].owed /\ ~entry[e].stopping
  /\ server[e] = "gone" => e \in died
Shaped == \A e \in Entries : StartShaped(e) /\ ConnShaped(e)

\* What is on the map was started and is not ended, and a pool that closed has nothing there.
Mapped ==
  /\ current # NoEntry => dial[current] \in {"running", "over"} /\ ~entry[current].ended
  /\ closed => current = NoEntry
  /\ closed <=> closer # "none"

\* A timer runs for a connection nobody needs, and one nobody needs has a timer.
TimerIffUnneeded ==
  \A e \in Entries :
    /\ entry[e].idle => Unneeded(entry[e])
    /\ Unneeded(entry[e]) /\ server[e] = "live" => entry[e].idle

\* Where a caller stands says what it knows of its entry.
CallersKnow ==
  \A c \in Callers :
    /\ caller[c].pc \in {"idle", "retry"} <=> caller[c].at = NoEntry
    /\ caller[c].at # NoEntry => dial[caller[c].at] # "none"
    /\ caller[c].pc = "gone" => Gone(caller[c].at)
    /\ caller[c].pc = "hold" => entry[caller[c].at].conn

\* What is held or kept was ended only by Close, or because its server had gone away.
UsedEnded ==
  \A e \in Entries :
    entry[e].conn /\ entry[e].ended /\ ~closed /\ (entry[e].refs > 0 \/ entry[e].kept) =>
      e \in died

\* Once the pool closed, every connection is awaited, stopped, or had gone away by itself; and
\* when Close has returned, what it awaited is stopped and no start is under way.
CloseSaw ==
  /\ closed => \A e \in Entries :
       entry[e].conn => e \in awaited \/ server[e] = "stopped" \/ e \in died
  /\ closer = "done" =>
       /\ \A e \in awaited : server[e] = "stopped"
       /\ \A e \in Entries : dial[e] \in {"none", "over"}

Inv ==
  /\ TypeOK /\ Shaped /\ Mapped /\ TimerIffUnneeded /\ CallersKnow /\ RefsCounted
  /\ KeptAgrees /\ OneConnection /\ UsedEnded /\ CloseSaw

-----------------------------------------------------------------------------
(* Lemmas about the operators on entries *)

\* What an entry is, and what it is when it settles nothing about its connection.
EntryRec == [conn : BOOLEAN, ready : BOOLEAN, err : BOOLEAN, refs : Nat, kept : BOOLEAN,
             ended : BOOLEAN, idle : BOOLEAN, gen : Nat, fired : SUBSET Nat, late : BOOLEAN,
             owed : BOOLEAN, stopping : BOOLEAN]
SameStart(r, s) ==
  s.conn = r.conn /\ s.ready = r.ready /\ s.err = r.err /\ s.refs = r.refs /\ s.kept = r.kept
SameEnd(r, s) == s.ended = r.ended /\ s.owed = r.owed /\ s.stopping = r.stopping

\* Setting or stopping the timer of an entry changes nothing else of it.
LEMMA SetIdle ==
  ASSUME NEW r \in EntryRec, NEW b \in BOOLEAN,
         NEW s, s = [r EXCEPT !.idle = b, !.gen = @ + 1]
  PROVE  s \in EntryRec /\ SameStart(r, s) /\ SameEnd(r, s) /\ s.idle = b
<1>1. r.gen + 1 \in Nat
    BY DEF EntryRec
<1>2. s.gen = r.gen + 1 /\ s.fired = r.fired /\ s.late = r.late
    BY DEF EntryRec
<1>3. SameStart(r, s) /\ SameEnd(r, s) /\ s.idle = b
    BY DEF EntryRec, SameStart, SameEnd
<1>4. s \in EntryRec
    <2> DEFINE g == r.gen + 1
    <2>1. g \in Nat /\ s = [r EXCEPT !.idle = b, !.gen = g]
        BY <1>1
    <2> HIDE DEF g
    <2>q. QED
        BY <2>1 DEF EntryRec
<1>q. QED
    BY <1>3, <1>4

\* cancelIdleLocked changes nothing but the timer.
LEMMA CancelIdleIs ==
  ASSUME NEW r \in EntryRec
  PROVE  /\ CancelIdle(r) \in EntryRec /\ SameStart(r, CancelIdle(r)) /\ SameEnd(r, CancelIdle(r))
         /\ ~CancelIdle(r).idle
<1>1. CASE r.idle
    <2>1. CancelIdle(r) = [r EXCEPT !.idle = FALSE, !.gen = @ + 1]
        BY <1>1 DEF CancelIdle
    <2>q. QED
        BY <2>1, SetIdle
<1>2. CASE ~r.idle
    BY <1>2 DEF CancelIdle, SameStart, SameEnd
<1>q. QED
    BY <1>1, <1>2

\* endLocked marks the connection as ended and owed, and stops its timer.
LEMMA EndIs ==
  ASSUME NEW r \in EntryRec
  PROVE  /\ End(r) \in EntryRec /\ SameStart(r, End(r))
         /\ End(r).ended /\ End(r).owed /\ End(r).stopping /\ ~End(r).idle
<1>1. /\ CancelIdle(r) \in EntryRec /\ SameStart(r, CancelIdle(r)) /\ ~CancelIdle(r).idle
    BY CancelIdleIs
<1>q. QED
    BY <1>1 DEF End, EntryRec, SameStart

\* The changes of single fields keep an entry an entry.
LEMMA FieldsTyped ==
  ASSUME NEW r \in EntryRec
  PROVE  /\ [r EXCEPT !.late = TRUE] \in EntryRec
         /\ [r EXCEPT !.err = TRUE, !.ended = TRUE, !.ready = TRUE] \in EntryRec
         /\ [r EXCEPT !.conn = TRUE, !.ready = TRUE] \in EntryRec
         /\ [r EXCEPT !.idle = FALSE] \in EntryRec
         /\ [r EXCEPT !.owed = FALSE] \in EntryRec
         /\ [r EXCEPT !.stopping = FALSE] \in EntryRec
         /\ [r EXCEPT !.kept = TRUE] \in EntryRec
         /\ [r EXCEPT !.kept = FALSE] \in EntryRec
BY DEF EntryRec

\* So do those of the count.
LEMMA CountsTyped ==
  ASSUME NEW r \in EntryRec
  PROVE  /\ [r EXCEPT !.refs = @ + 1] \in EntryRec
         /\ r.refs > 0 => [r EXCEPT !.refs = @ - 1] \in EntryRec
<1>1. ASSUME NEW n \in Nat PROVE [r EXCEPT !.refs = n] \in EntryRec
    BY DEF EntryRec
<1>2. r.refs \in Nat
    BY DEF EntryRec
<1>3. r.refs + 1 \in Nat /\ (r.refs > 0 => r.refs - 1 \in Nat)
    BY <1>2
<1>q. QED
    BY <1>1, <1>3

\* So do those of the timers that fired.
LEMMA FiredTyped ==
  ASSUME NEW r \in EntryRec
  PROVE  /\ [r EXCEPT !.fired = @ \cup {r.gen}] \in EntryRec
         /\ \A g : [r EXCEPT !.fired = @ \ {g}] \in EntryRec
<1>1. ASSUME NEW F \in SUBSET Nat PROVE [r EXCEPT !.fired = F] \in EntryRec
    BY DEF EntryRec
<1>2. r.fired \cup {r.gen} \in SUBSET Nat /\ \A g : r.fired \ {g} \in SUBSET Nat
    BY DEF EntryRec
<1>q. QED
    BY <1>1, <1>2

\* A new entry is an entry without a connection.
LEMMA NoStartIs == NoStart \in EntryRec /\ ~NoStart.conn /\ ~NoStart.idle /\ ~NoStart.ended
BY DEF NoStart, EntryRec

\* idleLocked: the entry keeps its connection, with a timer when nobody needs it, or loses it
\* and its place on the map.
IdleKeeps(e, r, s) ==
  /\ SameEnd(r, s) /\ current' = current
  /\ Unneeded(s) => s.idle
  /\ ~Unneeded(r) => s.idle = r.idle
IdleEnds(e, r, s) ==
  /\ Unneeded(r) /\ current' = Forget(e)
  /\ s.ended /\ s.owed /\ s.stopping /\ ~s.idle

\* Those are the two things idleLocked does.
LEMMA IdleIs ==
  ASSUME NEW e \in Entries, NEW r \in EntryRec, Idle(e, r)
  PROVE  \E s \in EntryRec :
           /\ entry' = [entry EXCEPT ![e] = s] /\ SameStart(r, s)
           /\ IdleKeeps(e, r, s) \/ IdleEnds(e, r, s)
<1>1. CASE ~Unneeded(r) /\ entry' = [entry EXCEPT ![e] = r] /\ UNCHANGED current
    BY <1>1 DEF SameStart, SameEnd, IdleKeeps
<1>2. CASE Unneeded(r) /\ entry' = [entry EXCEPT ![e] = End(r)] /\ current' = Forget(e)
    BY <1>2, EndIs DEF IdleEnds
<1>3. CASE /\ Unneeded(r) /\ ~closed /\ UNCHANGED current
           /\ entry' = [entry EXCEPT ![e] = IF r.idle THEN r ELSE [r EXCEPT !.idle = TRUE, !.gen = @ + 1]]
    <2> DEFINE s == IF r.idle THEN r ELSE [r EXCEPT !.idle = TRUE, !.gen = @ + 1]
    <2>1. s \in EntryRec /\ SameStart(r, s) /\ SameEnd(r, s) /\ s.idle
        <3>1. CASE r.idle
            BY <3>1 DEF SameStart, SameEnd
        <3>2. CASE ~r.idle
            BY <3>2, SetIdle
        <3>q. QED
            BY <3>1, <3>2
    <2>2. entry' = [entry EXCEPT ![e] = s] /\ current' = current
        BY <1>3
    <2> HIDE DEF s
    <2>q. QED
        BY <1>3, <2>1, <2>2 DEF IdleKeeps
<1>q. QED
    BY <1>1, <1>2, <1>3 DEF Idle

\* The types of the variables, with names for the records.
CallerRec == [pc : {"idle", "wait", "gone", "drop", "release", "hold", "retry"},
              at : Entries \cup {NoEntry}, again : BOOLEAN]
Budget == [call : 0..MaxCalls, keep : 0..MaxKeeps, move : 0..MaxMoves, death : 0..MaxDeaths]
Typed ==
  /\ current \in Entries \cup {NoEntry} /\ kept \in BOOLEAN /\ closed \in BOOLEAN
  /\ closer \in {"none", "wait", "done"} /\ awaited \subseteq Entries
  /\ entry \in [Entries -> EntryRec]
  /\ server \in [Entries -> {"none", "starting", "live", "gone", "closing", "stopped"}]
  /\ dial \in [Entries -> {"none", "running", "discarded", "over"}]
  /\ caller \in [Callers -> CallerRec]
  /\ asks \in [Entries -> BOOLEAN] /\ refused \in [Entries -> BOOLEAN] /\ wanted \in BOOLEAN
  /\ died \subseteq Entries /\ left \in Budget

\* They say what TypeOK says.
LEMMA TypedIs == TypeOK <=> Typed
BY DEF TypeOK, Typed, EntryRec, CallerRec, Budget

\* The bounds stay bounds when they are spent.
LEMMA SpendTyped ==
  ASSUME left \in Budget, NEW what \in {"call", "keep", "move", "death"}, Spend(what)
  PROVE  left' \in Budget
BY BoundsAssumption DEF Budget, Spend

\* A new caller record, and one that moves on.
LEMMA CallerMoves ==
  ASSUME caller \in [Callers -> CallerRec], NEW c \in Callers,
         NEW p \in {"idle", "wait", "gone", "drop", "release", "hold", "retry"}
  PROVE  [caller EXCEPT ![c].pc = p] \in [Callers -> CallerRec]
BY DEF CallerRec

\* So is one that takes an entry.
LEMMA CallerTakes ==
  ASSUME caller \in [Callers -> CallerRec], NEW c \in Callers, NEW e \in Entries
  PROVE  [caller EXCEPT ![c].pc = "wait", ![c].at = e] \in [Callers -> CallerRec]
BY DEF CallerRec

\* A caller that is through, or tries once more, is a caller.
LEMMA NoCallerIs ==
  NoCaller \in CallerRec /\ [NoCaller EXCEPT !.pc = "retry", !.again = TRUE] \in CallerRec
BY DEF NoCaller, CallerRec

\* The users of an entry can be counted.
LEMMA UsersFinite ==
  ASSUME NEW e \in Entries
  PROVE  IsFiniteSet(Users(e)) /\ Cardinality(Users(e)) \in Nat
<1>1. Users(e) \in SUBSET Callers
    BY DEF Users
<1>q. QED
    BY <1>1, SetsAssumption, FS_Subset, FS_CardinalityType

\* An entry with a user has a count above zero.
LEMMA UsedCounts ==
  ASSUME RefsCounted, NEW e \in Entries, NEW c \in Users(e)
  PROVE  entry[e].refs > 0
<1>1. Cardinality(Users(e)) # 0
    BY UsersFinite, FS_EmptySet
<1>q. QED
    BY <1>1, UsersFinite DEF RefsCounted

-----------------------------------------------------------------------------
(* What the steps that change an entry do to it *)

\* A caller or Keep finds the entry on the map, or starts a new one.
Joins(e, s) ==
  /\ current = e /\ current' = e /\ server' = server /\ dial' = dial
  /\ SameEnd(entry[e], s) /\ ~s.idle
  /\ s.conn = entry[e].conn /\ s.ready = entry[e].ready /\ s.err = entry[e].err
Starts(e, s) ==
  /\ current = NoEntry /\ current' = e /\ server[e] = "none" /\ dial[e] = "none"
  /\ server' = [server EXCEPT ![e] = "starting"] /\ dial' = [dial EXCEPT ![e] = "running"]
  /\ ~s.conn /\ ~s.ready /\ ~s.err /\ ~s.ended /\ ~s.owed /\ ~s.stopping /\ ~s.idle
  /\ s.kept = kept'

\* The pool lets go of a connection nobody needs any more (r is the entry before endLocked).
Ends(e, r, s) ==
  /\ Unneeded(r) /\ current' = Forget(e) /\ SameStart(r, s)
  /\ s.ended /\ s.owed /\ s.stopping /\ ~s.idle

\* It stays as it is, with a timer if nobody needs it.
Stays(e, r, s) ==
  /\ current' = current /\ SameStart(r, s) /\ SameEnd(r, s)
  /\ s.idle <=> Unneeded(s)

Becomes(e, s) == s \in EntryRec /\ entry' = [entry EXCEPT ![e] = s]

\* Acquire joins the entry on the map, or starts one with the caller as its one user.
LEMMA AcquireDoes ==
  ASSUME Typed, NEW c \in Callers, Acquire(c)
  PROVE  \E e \in Entries, s \in EntryRec :
           /\ Becomes(e, s) /\ caller' = [caller EXCEPT ![c].pc = "wait", ![c].at = e]
           /\ \/ Joins(e, s) /\ s.kept = entry[e].kept /\ s.refs = entry[e].refs + 1
              \/ Starts(e, s) /\ s.refs = 1
<1> USE DEF Typed
<1>1. CASE current # NoEntry
    <2> DEFINE r == CancelIdle(entry[current])
               s == [r EXCEPT !.refs = @ + 1]
    <2>1. current \in Entries
        BY <1>1
    <2>2. r \in EntryRec /\ SameStart(entry[current], r) /\ SameEnd(entry[current], r) /\ ~r.idle
        BY <2>1, CancelIdleIs
    <2>3. s \in EntryRec
        BY <2>2, CountsTyped
    <2>4. /\ SameEnd(entry[current], s) /\ ~s.idle /\ s.refs = entry[current].refs + 1
          /\ s.conn = entry[current].conn /\ s.ready = entry[current].ready
          /\ s.err = entry[current].err /\ s.kept = entry[current].kept
        BY <2>2 DEF SameStart, SameEnd, EntryRec
    <2>5. /\ entry' = [entry EXCEPT ![current] = s] /\ UNCHANGED <<current, server, dial>>
          /\ caller' = [caller EXCEPT ![c].pc = "wait", ![c].at = current]
        BY <1>1, <2>1 DEF Acquire, Join
    <2> HIDE DEF s
    <2>q. QED
        BY <2>1, <2>3, <2>4, <2>5 DEF Becomes, Joins
<1>2. CASE current = NoEntry
    <2> DEFINE s == [NoStart EXCEPT !.refs = 1, !.kept = kept]
    <2>1. PICK e \in Entries :
            Start(e, s) /\ caller' = [caller EXCEPT ![c].pc = "wait", ![c].at = e]
        BY <1>2 DEF Acquire
    <2>2. s \in EntryRec
        BY DEF NoStart, EntryRec
    <2>3. kept' = kept
        BY DEF Acquire, poolVars
    <2>4. /\ ~s.conn /\ ~s.ready /\ ~s.err /\ ~s.ended /\ ~s.owed /\ ~s.stopping /\ ~s.idle
          /\ s.kept = kept' /\ s.refs = 1
        BY <2>3 DEF NoStart
    <2> HIDE DEF s
    <2>q. QED
        BY <1>2, <2>1, <2>2, <2>4 DEF Becomes, Starts, Start
<1>q. QED
    BY <1>1, <1>2

\* Keep turned on joins the entry on the map, or starts one that nobody uses yet.
LEMMA KeepOnDoes ==
  ASSUME Typed, KeepOn
  PROVE  \E e \in Entries, s \in EntryRec :
           /\ Becomes(e, s) /\ s.kept
           /\ \/ Joins(e, s) /\ s.refs = entry[e].refs
              \/ Starts(e, s) /\ s.refs = 0
<1> USE DEF Typed
<1>1. CASE current # NoEntry
    <2> DEFINE r == CancelIdle(entry[current])
               s == [r EXCEPT !.kept = TRUE]
    <2>1. current \in Entries
        BY <1>1
    <2>2. r \in EntryRec /\ SameStart(entry[current], r) /\ SameEnd(entry[current], r) /\ ~r.idle
        BY <2>1, CancelIdleIs
    <2>3. s \in EntryRec
        BY <2>2, FieldsTyped
    <2>4. /\ SameEnd(entry[current], s) /\ ~s.idle /\ s.refs = entry[current].refs
          /\ s.conn = entry[current].conn /\ s.ready = entry[current].ready
          /\ s.err = entry[current].err /\ s.kept
        BY <2>2 DEF SameStart, SameEnd, EntryRec
    <2>5. entry' = [entry EXCEPT ![current] = s] /\ UNCHANGED <<current, server, dial>>
        BY <1>1, <2>1 DEF KeepOn
    <2> HIDE DEF s
    <2>q. QED
        BY <2>1, <2>3, <2>4, <2>5 DEF Becomes, Joins
<1>2. CASE current = NoEntry
    <2> DEFINE s == [NoStart EXCEPT !.kept = TRUE]
    <2>1. PICK e \in Entries : Start(e, s)
        BY <1>2 DEF KeepOn
    <2>2. s \in EntryRec
        BY DEF NoStart, EntryRec
    <2>3. kept' = TRUE
        BY DEF KeepOn
    <2>4. /\ ~s.conn /\ ~s.ready /\ ~s.err /\ ~s.ended /\ ~s.owed /\ ~s.stopping /\ ~s.idle
          /\ s.kept = kept' /\ s.kept /\ s.refs = 0
        BY <2>3 DEF NoStart
    <2> HIDE DEF s
    <2>q. QED
        BY <1>2, <2>1, <2>2, <2>4 DEF Becomes, Starts, Start
<1>q. QED
    BY <1>1, <1>2

\* A release takes one from the count, and may leave the connection to its timer or end it.
LEMMA ReleaseDoes ==
  ASSUME Typed, Inv, NEW c \in Callers, Release(c)
  PROVE  \E s, r :
           /\ caller[c].at \in Entries /\ entry[caller[c].at].refs > 0 /\ r \in EntryRec
           /\ r = [entry[caller[c].at] EXCEPT !.refs = @ - 1]
           /\ Becomes(caller[c].at, s) /\ Linger(caller[c].at)
           /\ Stays(caller[c].at, r, s) \/ Ends(caller[c].at, r, s)
<1> USE DEF Typed
<1> DEFINE e == caller[c].at
           r == [entry[e] EXCEPT !.refs = @ - 1]
<1>1. e \in Entries /\ c \in Users(e)
    BY DEF Release, Inv, CallersKnow, CallerRec, Users
<1>2. entry[e] \in EntryRec /\ entry[e].refs \in Nat /\ entry[e].refs > 0
    BY <1>1, UsedCounts DEF Inv, EntryRec
<1>3. r \in EntryRec
    BY <1>1, <1>2, CountsTyped
<1>4. ~r.idle
    BY <1>1, <1>2 DEF Inv, TimerIffUnneeded, Unneeded, EntryRec
<1>5. Idle(e, r) /\ Linger(e)
    BY DEF Release
<1>6. r = [entry[e] EXCEPT !.refs = @ - 1]
    OBVIOUS
<1> HIDE DEF r
<1>7. PICK s \in EntryRec :
        /\ entry' = [entry EXCEPT ![e] = s] /\ SameStart(r, s)
        /\ IdleKeeps(e, r, s) \/ IdleEnds(e, r, s)
    BY <1>1, <1>3, <1>5, IdleIs
<1>8. IdleKeeps(e, r, s) => Stays(e, r, s)
    BY <1>4, <1>7 DEF IdleKeeps, Stays, SameStart, SameEnd, Unneeded, EntryRec
<1>9. IdleEnds(e, r, s) => Ends(e, r, s)
    BY <1>7 DEF IdleEnds, Ends
<1>q. QED
    BY <1>1, <1>2, <1>3, <1>5, <1>6, <1>7, <1>8, <1>9 DEF Becomes

\* An answered start has its connection, which is left to its timer or ended if all have gone.
LEMMA AnswerDoes ==
  ASSUME Typed, Inv, NEW e \in Entries, DialAnswers(e)
  PROVE  \E s, r :
           /\ r \in EntryRec /\ r = [entry[e] EXCEPT !.conn = TRUE, !.ready = TRUE]
           /\ Becomes(e, s) /\ Linger(e)
           /\ Stays(e, r, s) \/ Ends(e, r, s)
<1> USE DEF Typed
<1> DEFINE r == [entry[e] EXCEPT !.conn = TRUE, !.ready = TRUE]
<1>1. entry[e] \in EntryRec /\ ~entry[e].conn
    BY DEF DialAnswers, Inv, Shaped, StartShaped
<1>2. r \in EntryRec
    BY <1>1, FieldsTyped
<1>3. ~r.idle
    BY <1>1 DEF Inv, TimerIffUnneeded, Unneeded, EntryRec
<1>4. Idle(e, r) /\ Linger(e)
    BY DEF DialAnswers
<1>5. r = [entry[e] EXCEPT !.conn = TRUE, !.ready = TRUE]
    OBVIOUS
<1> HIDE DEF r
<1>6. PICK s \in EntryRec :
        /\ entry' = [entry EXCEPT ![e] = s] /\ SameStart(r, s)
        /\ IdleKeeps(e, r, s) \/ IdleEnds(e, r, s)
    BY <1>2, <1>4, IdleIs
<1>7. IdleKeeps(e, r, s) => Stays(e, r, s)
    BY <1>3, <1>6 DEF IdleKeeps, Stays, SameStart, SameEnd, Unneeded, EntryRec
<1>8. IdleEnds(e, r, s) => Ends(e, r, s)
    BY <1>6 DEF IdleEnds, Ends
<1>q. QED
    BY <1>2, <1>4, <1>5, <1>6, <1>7, <1>8 DEF Becomes

\* A timer that fires ends the connection it was set for, or nothing.
LEMMA ExpireDoes ==
  ASSUME Typed, Inv, NEW e \in Entries, Expire(e)
  PROVE  \E s :
           /\ Becomes(e, s) /\ UNCHANGED <<poolVars, server, dial, caller, died>>
           /\ \/ /\ current' = current /\ SameStart(entry[e], s) /\ SameEnd(entry[e], s)
                 /\ s.idle = entry[e].idle
              \/ Ends(e, entry[e], s)
<1> USE DEF Typed
<1>1. PICK g \in entry[e].fired :
        LET r == [entry[e] EXCEPT !.fired = @ \ {g}]
            s == [r EXCEPT !.idle = FALSE]
        IN  /\ IF ~r.idle \/ r.gen # g
                 THEN entry' = [entry EXCEPT ![e] = r] /\ UNCHANGED current
                 ELSE IF Unneeded(s)
                 THEN entry' = [entry EXCEPT ![e] = End(s)] /\ current' = Forget(e)
                 ELSE entry' = [entry EXCEPT ![e] = s] /\ UNCHANGED current
            /\ UNCHANGED <<poolVars, server, dial, caller, checkVars, died, left>>
    BY DEF Expire
<1> DEFINE r == [entry[e] EXCEPT !.fired = @ \ {g}]
           t == [r EXCEPT !.idle = FALSE]
<1>2. /\ r \in EntryRec /\ SameStart(entry[e], r) /\ SameEnd(entry[e], r)
      /\ r.idle = entry[e].idle
    BY FiredTyped DEF SameStart, SameEnd, EntryRec
<1>3. t \in EntryRec /\ SameStart(entry[e], t) /\ SameEnd(entry[e], t)
    <2>1. t \in EntryRec
        BY <1>2, FieldsTyped
    <2>2. SameStart(r, t) /\ SameEnd(r, t)
        BY <1>2 DEF SameStart, SameEnd, EntryRec
    <2>q. QED
        BY <1>2, <2>1, <2>2 DEF SameStart, SameEnd
<1>4. /\ IF ~r.idle \/ r.gen # g
           THEN entry' = [entry EXCEPT ![e] = r] /\ UNCHANGED current
           ELSE IF Unneeded(t)
           THEN entry' = [entry EXCEPT ![e] = End(t)] /\ current' = Forget(e)
           ELSE entry' = [entry EXCEPT ![e] = t] /\ UNCHANGED current
      /\ UNCHANGED <<poolVars, server, dial, caller, died>>
    BY <1>1
<1> HIDE DEF r, t
<1>5. r.idle => Unneeded(entry[e]) /\ Unneeded(t)
    BY <1>2, <1>3 DEF Inv, TimerIffUnneeded, Unneeded, SameStart, SameEnd
<1>6. CASE ~r.idle \/ r.gen # g
    BY <1>2, <1>4, <1>6 DEF Becomes
<1>7. CASE ~(~r.idle \/ r.gen # g)
    <2>1. entry' = [entry EXCEPT ![e] = End(t)] /\ current' = Forget(e) /\ Unneeded(entry[e])
        BY <1>4, <1>5, <1>7
    <2>2. /\ End(t) \in EntryRec /\ SameStart(entry[e], End(t))
          /\ End(t).ended /\ End(t).owed /\ End(t).stopping /\ ~End(t).idle
        BY <1>3, EndIs DEF SameStart
    <2>q. QED
        BY <1>4, <2>1, <2>2 DEF Becomes, Ends
<1>q. QED
    BY <1>6, <1>7

\* Keep turned off ends the connection on the map if nobody else needs it.
LEMMA KeepOffDoes ==
  ASSUME Typed, KeepOff, current # NoEntry
  PROVE  \E s, r :
           /\ current \in Entries /\ r \in EntryRec
           /\ r = [entry[current] EXCEPT !.kept = FALSE] /\ Becomes(current, s)
           /\ \/ current' = current /\ s = r /\ ~Unneeded(r)
              \/ Ends(current, r, s)
<1> USE DEF Typed
<1> DEFINE r == [entry[current] EXCEPT !.kept = FALSE]
<1>1. current \in Entries
    OBVIOUS
<1>2. r \in EntryRec
    BY <1>1, FieldsTyped
<1>3. IF Unneeded(r)
        THEN entry' = [entry EXCEPT ![current] = End(r)] /\ current' = NoEntry
        ELSE entry' = [entry EXCEPT ![current] = r] /\ UNCHANGED current
    BY DEF KeepOff
<1>4. r = [entry[current] EXCEPT !.kept = FALSE]
    OBVIOUS
<1> HIDE DEF r
<1>5. CASE Unneeded(r)
    BY <1>1, <1>2, <1>3, <1>4, <1>5, EndIs DEF Becomes, Ends, Forget
<1>6. CASE ~Unneeded(r)
    BY <1>1, <1>2, <1>3, <1>4, <1>6 DEF Becomes
<1>q. QED
    BY <1>5, <1>6

-----------------------------------------------------------------------------
(* The invariant is inductive *)

\* The types of the variables.
LEMMA TypeStep == Inv /\ [Next]_vars => TypeOK'
<1> SUFFICES ASSUME Typed, Inv, [Next]_vars PROVE Typed'
    BY TypedIs DEF Inv, TypeOK, Typed, EntryRec, CallerRec, Budget
<1> USE DEF Typed, poolVars, checkVars
<1>1. ASSUME NEW c \in Callers, Acquire(c) PROVE Typed'
    <2>1. left' \in Budget
        BY <1>1, SpendTyped DEF Acquire
    <2>2. PICK e \in Entries, s \in EntryRec :
            /\ Becomes(e, s) /\ caller' = [caller EXCEPT ![c].pc = "wait", ![c].at = e]
            /\ Joins(e, s) \/ Starts(e, s)
        BY <1>1, AcquireDoes
    <2>3. caller' \in [Callers -> CallerRec]
        BY <2>2, CallerTakes
    <2>4. UNCHANGED <<poolVars, checkVars, died>>
        BY <1>1 DEF Acquire
    <2>5. CASE Joins(e, s)
        BY <2>1, <2>2, <2>3, <2>4, <2>5 DEF Becomes, Joins
    <2>6. CASE Starts(e, s)
        BY <2>1, <2>2, <2>3, <2>4, <2>6 DEF Becomes, Starts
    <2>q. QED
        BY <2>2, <2>5, <2>6
<1>2. ASSUME NEW c \in Callers, Refused(c) PROVE Typed'
    BY <1>2, NoCallerIs DEF Refused
<1>3. ASSUME NEW c \in Callers, Settled(c) PROVE Typed'
    BY <1>3, CallerMoves DEF Settled
<1>4. ASSUME NEW c \in Callers, GiveUp(c) PROVE Typed'
    BY <1>4, CallerMoves DEF GiveUp, Forget
<1>5. ASSUME NEW c \in Callers, ForgetGone(c) PROVE Typed'
    BY <1>5, CallerMoves DEF ForgetGone, Forget
<1>6. ASSUME NEW c \in Callers, Release(c) PROVE Typed'
    <2>1. PICK s, r :
            /\ caller[c].at \in Entries /\ Becomes(caller[c].at, s) /\ Linger(caller[c].at)
            /\ Stays(caller[c].at, r, s) \/ Ends(caller[c].at, r, s)
        BY <1>6, ReleaseDoes
    <2>2. current' \in Entries \cup {NoEntry} /\ entry' \in [Entries -> EntryRec]
        BY <2>1 DEF Becomes, Stays, Ends, Forget
    <2>3. asks' \in [Entries -> BOOLEAN]
        BY <2>1, <2>2 DEF Linger, EntryRec
    <2>4. caller' \in [Callers -> CallerRec]
        BY <1>6, NoCallerIs DEF Release, AfterRelease
    <2>q. QED
        BY <1>6, <2>2, <2>3, <2>4 DEF Release
<1>7. ASSUME NEW e \in Entries, Late(e) PROVE Typed'
    <2>1. [entry[e] EXCEPT !.late = TRUE] \in EntryRec
        BY FieldsTyped
    <2>q. QED
        BY <1>7, <2>1 DEF Late
<1>8. ASSUME NEW e \in Entries, DropLate(e) PROVE Typed'
    BY <1>8 DEF DropLate
<1>9. ASSUME NEW e \in Entries, DialFails(e) PROVE Typed'
    <2>1. [entry[e] EXCEPT !.err = TRUE, !.ended = TRUE, !.ready = TRUE] \in EntryRec
        BY FieldsTyped
    <2>q. QED
        BY <1>9, <2>1 DEF DialFails, Forget
<1>10. ASSUME NEW e \in Entries, DialAnswers(e) PROVE Typed'
    <2>1. PICK s, r : Becomes(e, s) /\ Linger(e) /\ (Stays(e, r, s) \/ Ends(e, r, s))
        BY <1>10, AnswerDoes
    <2>2. current' \in Entries \cup {NoEntry} /\ entry' \in [Entries -> EntryRec]
        BY <2>1 DEF Becomes, Stays, Ends, Forget
    <2>3. asks' \in [Entries -> BOOLEAN]
        BY <2>1, <2>2 DEF Linger, EntryRec
    <2>q. QED
        BY <1>10, <2>2, <2>3 DEF DialAnswers
<1>11. ASSUME NEW e \in Entries, DialDiscarded(e) PROVE Typed'
    BY <1>11 DEF DialDiscarded
<1>12. ASSUME NEW e \in Entries, TimerFires(e) PROVE Typed'
    <2>1. [entry[e] EXCEPT !.fired = @ \cup {entry[e].gen}] \in EntryRec
        BY FiredTyped
    <2>q. QED
        BY <1>12, <2>1 DEF TimerFires
<1>13. ASSUME NEW e \in Entries, Expire(e) PROVE Typed'
    <2>1. PICK s : Becomes(e, s) /\ (current' = current \/ current' = Forget(e))
        BY <1>13, ExpireDoes DEF Ends
    <2>q. QED
        BY <1>13, <2>1 DEF Expire, Becomes, Forget
<1>14. ASSUME NEW e \in Entries, ReadWanted(e) PROVE Typed'
    BY <1>14 DEF ReadWanted
<1>15. ASSUME NEW e \in Entries, StopUnwanted(e) \/ Watch(e) PROVE Typed'
    <2>1. End(entry[e]) \in EntryRec
        BY EndIs
    <2>q. QED
        BY <1>15, <2>1 DEF StopUnwanted, Watch, Forget
<1>16. ASSUME NEW e \in Entries, CloseConn(e) \/ Stopped(e) PROVE Typed'
    <2>1. [entry[e] EXCEPT !.owed = FALSE] \in EntryRec /\ [entry[e] EXCEPT !.stopping = FALSE] \in EntryRec
        BY FieldsTyped
    <2>q. QED
        <3>1. CASE CloseConn(e)
            BY <2>1, <3>1 DEF CloseConn
        <3>2. CASE Stopped(e)
            BY <2>1, <3>2 DEF Stopped
        <3>q. QED
            BY <1>16, <3>1, <3>2
<1>17. ASSUME NEW e \in Entries, Dies(e) PROVE Typed'
    BY <1>17, SpendTyped DEF Dies
<1>18. CASE KeepOn
    <2>1. left' \in Budget
        BY <1>18, SpendTyped DEF KeepOn
    <2>2. PICK e \in Entries, s \in EntryRec : Becomes(e, s) /\ (Joins(e, s) \/ Starts(e, s))
        BY <1>18, KeepOnDoes
    <2>3. entry' \in [Entries -> EntryRec] /\ current' \in Entries \cup {NoEntry}
        BY <2>2 DEF Becomes, Joins, Starts
    <2>4. /\ server' \in [Entries -> {"none", "starting", "live", "gone", "closing", "stopped"}]
          /\ dial' \in [Entries -> {"none", "running", "discarded", "over"}]
        BY <2>2 DEF Joins, Starts
    <2>q. QED
        BY <1>18, <2>1, <2>3, <2>4 DEF KeepOn
<1>19. CASE KeepOff
    <2>1. left' \in Budget
        BY <1>19, SpendTyped DEF KeepOff
    <2>2. CASE current = NoEntry
        BY <1>19, <2>1, <2>2 DEF KeepOff
    <2>3. CASE current # NoEntry
        <3>1. PICK s : Becomes(current, s) /\ (current' = current \/ current' = Forget(current))
            BY <1>19, <2>3, KeepOffDoes DEF Ends
        <3>q. QED
            BY <1>19, <2>1, <2>3, <3>1 DEF KeepOff, Becomes, Forget
    <2>q. QED
        BY <2>2, <2>3
<1>20. CASE Recheck
    <2>1. left' \in Budget
        BY <1>20, SpendTyped DEF Recheck
    <2>q. QED
        BY <1>20, <2>1 DEF Recheck, EntryRec, Unneeded
<1>21. CASE Close
    <2>1. \A e \in Entries : End(entry[e]) \in EntryRec /\ CancelIdle(entry[e]) \in EntryRec
        BY EndIs, CancelIdleIs
    <2>2. entry' \in [Entries -> EntryRec]
        BY <1>21, <2>1 DEF Close
    <2>q. QED
        BY <1>21, <2>2 DEF Close
<1>22. CASE CloseReturns
    BY <1>22 DEF CloseReturns
<1>23. CASE UNCHANGED vars
    BY <1>23 DEF vars
<1>q. QED
    BY <1>1, <1>2, <1>3, <1>4, <1>5, <1>6, <1>7, <1>8, <1>9, <1>10, <1>11, <1>12, <1>13,
        <1>14, <1>15, <1>16, <1>17, <1>18, <1>19, <1>20, <1>21, <1>22, <1>23
        DEF Next, CallerStep, DialStep, EndStep

\* Every step moves a start and its connection along, and none takes one back.
LEMMA ShapedStep == Inv /\ [Next]_vars => Shaped'
<1> SUFFICES ASSUME Typed, Inv, [Next]_vars, NEW f \in Entries
             PROVE  StartShaped(f)' /\ ConnShaped(f)'
    BY TypedIs DEF Inv, Shaped
<1>0. StartShaped(f) /\ ConnShaped(f) /\ entry[f] \in EntryRec
    BY DEF Inv, Shaped, Typed
<1> DEFINE Goal == StartShaped(f)' /\ ConnShaped(f)'
<1> USE DEF Typed, StartShaped, ConnShaped, Becomes, poolVars, checkVars
<1>1. ASSUME NEW c \in Callers, Acquire(c) PROVE Goal
    <2>1. PICK e \in Entries, s \in EntryRec : Becomes(e, s) /\ (Joins(e, s) \/ Starts(e, s))
        BY <1>1, AcquireDoes
    <2>2. died' = died
        BY <1>1 DEF Acquire
    <2>3. CASE Joins(e, s)
        BY <1>0, <2>1, <2>2, <2>3 DEF Joins, SameEnd
    <2>4. CASE Starts(e, s)
        BY <1>0, <2>1, <2>2, <2>4 DEF Starts
    <2>q. QED
        BY <2>1, <2>3, <2>4
<1>2. ASSUME NEW c \in Callers, Refused(c) \/ Settled(c) \/ GiveUp(c) \/ ForgetGone(c) PROVE Goal
    BY <1>0, <1>2 DEF Refused, Settled, GiveUp, ForgetGone
<1>3. ASSUME NEW c \in Callers, Release(c) PROVE Goal
    <2> DEFINE e == caller[c].at
    <2>1. PICK s, r :
            /\ e \in Entries /\ r = [entry[e] EXCEPT !.refs = @ - 1]
            /\ Becomes(e, s) /\ (Stays(e, r, s) \/ Ends(e, r, s))
        BY <1>3, ReleaseDoes
    <2>2. UNCHANGED <<server, dial, died>>
        BY <1>3 DEF Release
    <2>3. /\ r.conn = entry[e].conn /\ r.ready = entry[e].ready /\ r.err = entry[e].err
          /\ SameEnd(entry[e], r)
        BY <2>1 DEF EntryRec, SameEnd
    <2> HIDE DEF e
    <2>4. CASE Stays(e, r, s)
        BY <1>0, <2>1, <2>2, <2>3, <2>4 DEF Stays, SameStart, SameEnd
    <2>5. CASE Ends(e, r, s)
        BY <1>0, <2>1, <2>2, <2>3, <2>5 DEF Ends, Unneeded, SameStart, SameEnd
    <2>q. QED
        BY <2>1, <2>4, <2>5
<1>4. ASSUME NEW e \in Entries, Late(e) \/ DropLate(e) \/ TimerFires(e) PROVE Goal
    <2>1. CASE Late(e)
        BY <1>0, <2>1 DEF Late, EntryRec
    <2>2. CASE DropLate(e)
        BY <1>0, <2>2 DEF DropLate, EntryRec
    <2>3. CASE TimerFires(e)
        BY <1>0, <2>3 DEF TimerFires, EntryRec
    <2>q. QED
        BY <1>4, <2>1, <2>2, <2>3
<1>5. ASSUME NEW e \in Entries, DialFails(e) PROVE Goal
    <2>1. ~entry[e].conn /\ ~entry[e].owed /\ ~entry[e].stopping
        BY <1>5 DEF DialFails, Inv, Shaped
    <2>q. QED
        BY <1>0, <1>5, <2>1 DEF DialFails, EntryRec
<1>6. ASSUME NEW e \in Entries, DialAnswers(e) PROVE Goal
    <2>1. PICK s, r :
            /\ r = [entry[e] EXCEPT !.conn = TRUE, !.ready = TRUE]
            /\ Becomes(e, s) /\ (Stays(e, r, s) \/ Ends(e, r, s))
        BY <1>6, AnswerDoes
    <2>2. /\ dial[e] = "running" /\ dial' = [dial EXCEPT ![e] = "over"]
          /\ server' = [server EXCEPT ![e] = "live"] /\ died' = died
        BY <1>6 DEF DialAnswers
    <2>3. entry[e] \in EntryRec /\ ~entry[e].err /\ ~entry[e].owed /\ ~entry[e].stopping /\ ~entry[e].ended
        BY <2>2 DEF Inv, Shaped
    <2>4. r.conn /\ r.ready /\ ~r.err /\ ~r.owed /\ ~r.stopping /\ ~r.ended
        BY <2>1, <2>3 DEF EntryRec
    <2>5. CASE Stays(e, r, s)
        BY <1>0, <2>1, <2>2, <2>4, <2>5 DEF Stays, SameStart, SameEnd
    <2>6. CASE Ends(e, r, s)
        BY <1>0, <2>1, <2>2, <2>4, <2>6 DEF Ends, SameStart
    <2>q. QED
        BY <2>1, <2>5, <2>6
<1>7. ASSUME NEW e \in Entries, DialDiscarded(e) PROVE Goal
    BY <1>0, <1>7 DEF DialDiscarded
<1>8. ASSUME NEW e \in Entries, Expire(e) PROVE Goal
    <2>1. PICK s :
            /\ Becomes(e, s) /\ UNCHANGED <<server, dial, died>>
            /\ \/ SameStart(entry[e], s) /\ SameEnd(entry[e], s)
               \/ Ends(e, entry[e], s)
        BY <1>8, ExpireDoes
    <2>q. QED
        BY <1>0, <2>1 DEF Ends, Unneeded, SameStart, SameEnd
<1>9. ASSUME NEW e \in Entries, ReadWanted(e) PROVE Goal
    BY <1>0, <1>9 DEF ReadWanted
<1>10. ASSUME NEW e \in Entries, StopUnwanted(e) \/ Watch(e) PROVE Goal
    <2>1. /\ entry' = entry \/ /\ entry[e].conn /\ ~entry[e].ended
                               /\ entry' = [entry EXCEPT ![e] = End(entry[e])]
          /\ UNCHANGED <<server, dial, died>>
        BY <1>10 DEF StopUnwanted, Watch, Unneeded
    <2>2. /\ SameStart(entry[e], End(entry[e]))
          /\ End(entry[e]).ended /\ End(entry[e]).owed /\ End(entry[e]).stopping
        BY EndIs
    <2>q. QED
        BY <1>0, <2>1, <2>2 DEF SameStart
<1>11. ASSUME NEW e \in Entries, CloseConn(e) \/ Stopped(e) PROVE Goal
    <2>0. entry[e] \in EntryRec /\ StartShaped(e) /\ ConnShaped(e)
        BY DEF Inv, Shaped
    <2>1. CASE CloseConn(e)
        <3>1. entry[e].conn /\ entry[e].ended /\ entry[e].stopping /\ ~entry[e].err
            BY <2>0, <2>1 DEF CloseConn
        <3>2. dial[e] = "over"
            BY <2>0, <3>1
        <3>q. QED
            BY <1>0, <2>0, <2>1, <3>1, <3>2 DEF CloseConn, EntryRec
    <2>2. CASE Stopped(e)
        <3>1. dial[e] \in {"discarded", "over"} /\ ~entry[e].owed /\ ~entry[e].err
            BY <2>0, <2>2 DEF Stopped
        <3>2. entry[e].conn => entry[e].ended
            BY <2>0, <2>2 DEF Stopped
        <3>q. QED
            BY <1>0, <2>0, <2>2, <3>1, <3>2 DEF Stopped, EntryRec
    <2>q. QED
        BY <1>11, <2>1, <2>2
<1>12. ASSUME NEW e \in Entries, Dies(e) PROVE Goal
    BY <1>0, <1>12 DEF Dies
<1>13. CASE KeepOn
    <2>1. PICK e \in Entries, s \in EntryRec : Becomes(e, s) /\ (Joins(e, s) \/ Starts(e, s))
        BY <1>13, KeepOnDoes
    <2>2. died' = died
        BY <1>13 DEF KeepOn
    <2>3. CASE Joins(e, s)
        BY <1>0, <2>1, <2>2, <2>3 DEF Joins, SameEnd
    <2>4. CASE Starts(e, s)
        BY <1>0, <2>1, <2>2, <2>4 DEF Starts
    <2>q. QED
        BY <2>1, <2>3, <2>4
<1>14. CASE KeepOff
    <2>1. UNCHANGED <<server, dial, died>>
        BY <1>14 DEF KeepOff
    <2>2. CASE current = NoEntry
        BY <1>0, <1>14, <2>1, <2>2 DEF KeepOff
    <2>3. CASE current # NoEntry
        <3>1. PICK s, r :
                /\ current \in Entries /\ r = [entry[current] EXCEPT !.kept = FALSE]
                /\ Becomes(current, s) /\ (s = r \/ Ends(current, r, s))
            BY <1>14, <2>3, KeepOffDoes
        <3>2. /\ r.conn = entry[current].conn /\ r.ready = entry[current].ready
              /\ r.err = entry[current].err /\ SameEnd(entry[current], r)
            BY <3>1 DEF EntryRec, SameEnd
        <3>q. QED
            BY <1>0, <2>1, <3>1, <3>2 DEF Ends, Unneeded, SameStart, SameEnd
    <2>q. QED
        BY <2>2, <2>3
<1>15. CASE Recheck \/ CloseReturns
    BY <1>0, <1>15 DEF Recheck, CloseReturns
<1>16. CASE Close
    <2>1. /\ SameStart(entry[f], End(entry[f])) /\ SameStart(entry[f], CancelIdle(entry[f]))
          /\ SameEnd(entry[f], CancelIdle(entry[f]))
          /\ End(entry[f]).ended /\ End(entry[f]).owed /\ End(entry[f]).stopping
        BY <1>0, EndIs, CancelIdleIs
    <2>q. QED
        BY <1>0, <1>16, <2>1 DEF Close, SameStart, SameEnd
<1>17. CASE UNCHANGED vars
    BY <1>0, <1>17 DEF vars
<1>q. QED
    BY <1>1, <1>2, <1>3, <1>4, <1>5, <1>6, <1>7, <1>8, <1>9, <1>10, <1>11, <1>12, <1>13,
        <1>14, <1>15, <1>16, <1>17 DEF Next, CallerStep, DialStep, EndStep

\* An entry leaves the map with the step that ends it, and Close takes the last one off.
LEMMA MappedStep == Inv /\ [Next]_vars => Mapped'
<1> SUFFICES ASSUME Typed, Inv, [Next]_vars PROVE Mapped'
    BY TypedIs DEF Inv
<1>0. Mapped
    BY DEF Inv
<1> USE NoEntryAssumption DEF Typed, Mapped, Becomes, poolVars, checkVars
<1>1. ASSUME NEW c \in Callers, Acquire(c) PROVE Mapped'
    <2>1. PICK e \in Entries, s \in EntryRec : Becomes(e, s) /\ (Joins(e, s) \/ Starts(e, s))
        BY <1>1, AcquireDoes
    <2>2. ~closed /\ UNCHANGED <<closed, closer>>
        BY <1>1 DEF Acquire
    <2>q. QED
        BY <1>0, <2>1, <2>2 DEF Joins, Starts, SameEnd
<1>2. ASSUME NEW c \in Callers, Refused(c) \/ Settled(c) \/ GiveUp(c) \/ ForgetGone(c)
      PROVE Mapped'
    BY <1>0, <1>2 DEF Refused, Settled, GiveUp, ForgetGone, Forget
<1>3. ASSUME NEW c \in Callers, Release(c) PROVE Mapped'
    <2> DEFINE e == caller[c].at
    <2>1. PICK s, r :
            /\ e \in Entries /\ r = [entry[e] EXCEPT !.refs = @ - 1]
            /\ Becomes(e, s) /\ (Stays(e, r, s) \/ Ends(e, r, s))
        BY <1>3, ReleaseDoes
    <2>2. UNCHANGED <<dial, closed, closer>>
        BY <1>3 DEF Release
    <2>3. r.ended = entry[e].ended
        BY <2>1 DEF EntryRec
    <2> HIDE DEF e
    <2>q. QED
        BY <1>0, <2>1, <2>2, <2>3 DEF Stays, Ends, SameEnd, Forget
<1>4. ASSUME NEW e \in Entries, Late(e) \/ DropLate(e) \/ TimerFires(e) PROVE Mapped'
    BY <1>0, <1>4 DEF Late, DropLate, TimerFires, EntryRec
<1>5. ASSUME NEW e \in Entries, DialFails(e) PROVE Mapped'
    BY <1>0, <1>5 DEF DialFails, Forget
<1>6. ASSUME NEW e \in Entries, DialAnswers(e) PROVE Mapped'
    <2>1. PICK s, r :
            /\ r = [entry[e] EXCEPT !.conn = TRUE, !.ready = TRUE]
            /\ Becomes(e, s) /\ (Stays(e, r, s) \/ Ends(e, r, s))
        BY <1>6, AnswerDoes
    <2>2. r.ended = entry[e].ended
        BY <2>1 DEF EntryRec
    <2>3. dial' = [dial EXCEPT ![e] = "over"] /\ UNCHANGED <<closed, closer>>
        BY <1>6 DEF DialAnswers
    <2>q. QED
        BY <1>0, <2>1, <2>2, <2>3 DEF Stays, Ends, SameEnd, Forget
<1>7. ASSUME NEW e \in Entries, DialDiscarded(e) PROVE Mapped'
    BY <1>0, <1>7 DEF DialDiscarded
<1>8. ASSUME NEW e \in Entries, Expire(e) PROVE Mapped'
    <2>1. PICK s :
            /\ Becomes(e, s) /\ UNCHANGED <<poolVars, dial>>
            /\ \/ current' = current /\ SameEnd(entry[e], s)
               \/ Ends(e, entry[e], s)
        BY <1>8, ExpireDoes
    <2>q. QED
        BY <1>0, <2>1 DEF Ends, SameEnd, Forget
<1>9. ASSUME NEW e \in Entries, ReadWanted(e) \/ Dies(e) PROVE Mapped'
    BY <1>0, <1>9 DEF ReadWanted, Dies
<1>10. ASSUME NEW e \in Entries, StopUnwanted(e) \/ Watch(e) PROVE Mapped'
    BY <1>0, <1>10 DEF StopUnwanted, Watch, Forget
<1>11. ASSUME NEW e \in Entries, CloseConn(e) \/ Stopped(e) PROVE Mapped'
    <2>1. CASE CloseConn(e)
        BY <1>0, <2>1 DEF CloseConn, EntryRec
    <2>2. CASE Stopped(e)
        BY <1>0, <2>2 DEF Stopped, EntryRec
    <2>q. QED
        BY <1>11, <2>1, <2>2
<1>12. CASE KeepOn
    <2>1. PICK e \in Entries, s \in EntryRec : Becomes(e, s) /\ (Joins(e, s) \/ Starts(e, s))
        BY <1>12, KeepOnDoes
    <2>2. ~closed /\ UNCHANGED <<closed, closer>>
        BY <1>12 DEF KeepOn
    <2>q. QED
        BY <1>0, <2>1, <2>2 DEF Joins, Starts, SameEnd
<1>13. CASE KeepOff
    <2>1. UNCHANGED <<dial, closed, closer>>
        BY <1>13 DEF KeepOff
    <2>2. CASE current = NoEntry
        BY <1>0, <1>13, <2>1, <2>2 DEF KeepOff
    <2>3. CASE current # NoEntry
        <3>1. PICK s, r :
                /\ r = [entry[current] EXCEPT !.kept = FALSE] /\ Becomes(current, s)
                /\ ((current' = current /\ s = r) \/ Ends(current, r, s))
            BY <1>13, <2>3, KeepOffDoes
        <3>2. r.ended = entry[current].ended
            BY <2>3, <3>1 DEF EntryRec
        <3>3. Ends(current, r, s) => current' = NoEntry
            BY DEF Ends, Forget
        <3>4. current' = current /\ s = r => ~entry'[current'].ended
            BY <1>0, <2>3, <3>1, <3>2
        <3>q. QED
            BY <1>0, <2>1, <2>3, <3>1, <3>3, <3>4
    <2>q. QED
        BY <2>2, <2>3
<1>14. CASE Recheck \/ Close \/ CloseReturns
    BY <1>0, <1>14 DEF Recheck, Close, CloseReturns
<1>15. CASE UNCHANGED vars
    BY <1>0, <1>15 DEF vars
<1>q. QED
    BY <1>1, <1>2, <1>3, <1>4, <1>5, <1>6, <1>7, <1>8, <1>9, <1>10, <1>11, <1>12, <1>13,
        <1>14, <1>15 DEF Next, CallerStep, DialStep, EndStep

\* What the map has up is what the pool has not ended: the connection is put there when its start
\* is answered, and only what ends it, or finds it gone, takes it off.
LEMMA OneStep == Inv /\ [Next]_vars => OneConnection'
<1> SUFFICES ASSUME Typed, Inv, [Next]_vars, NEW f \in Entries,
                    server'[f] = "live", ~entry'[f].ended
             PROVE  current' = f
    BY TypedIs DEF Inv, OneConnection
<1>0. /\ server[f] = "live" /\ ~entry[f].ended => current = f
      /\ server[f] = "live" => dial[f] = "over" /\ entry[f].conn
    BY DEF Inv, OneConnection, Shaped, StartShaped, Typed
<1> USE NoEntryAssumption DEF Typed, Becomes, poolVars, checkVars
<1>1. ASSUME NEW c \in Callers, Acquire(c) PROVE current' = f
    <2>1. PICK e \in Entries, s \in EntryRec : Becomes(e, s) /\ (Joins(e, s) \/ Starts(e, s))
        BY <1>1, AcquireDoes
    <2>q. QED
        BY <1>0, <2>1 DEF Joins, Starts, SameEnd
<1>2. ASSUME NEW c \in Callers, Refused(c) \/ Settled(c) PROVE current' = f
    BY <1>0, <1>2 DEF Refused, Settled
<1>3. ASSUME NEW c \in Callers, GiveUp(c) PROVE current' = f
    BY <1>0, <1>3 DEF GiveUp, Forget
<1>4. ASSUME NEW c \in Callers, ForgetGone(c) PROVE current' = f
    <2>1. Gone(caller[c].at)
        BY <1>4 DEF ForgetGone, Inv, CallersKnow
    <2>q. QED
        BY <1>0, <1>4, <2>1 DEF ForgetGone, Forget, Gone
<1>5. ASSUME NEW c \in Callers, Release(c) PROVE current' = f
    <2> DEFINE e == caller[c].at
    <2>1. PICK s, r :
            /\ e \in Entries /\ r = [entry[e] EXCEPT !.refs = @ - 1]
            /\ Becomes(e, s) /\ (Stays(e, r, s) \/ Ends(e, r, s))
        BY <1>5, ReleaseDoes
    <2>2. server' = server
        BY <1>5 DEF Release
    <2>3. r.ended = entry[e].ended
        BY <2>1 DEF EntryRec
    <2> HIDE DEF e
    <2>q. QED
        BY <1>0, <2>1, <2>2, <2>3 DEF Stays, Ends, SameEnd, Forget
<1>6. ASSUME NEW e \in Entries, Late(e) \/ TimerFires(e) PROVE current' = f
    BY <1>0, <1>6 DEF Late, TimerFires, EntryRec
<1>7. ASSUME NEW e \in Entries, DropLate(e) PROVE current' = f
    BY <1>0, <1>7 DEF DropLate
<1>8. ASSUME NEW e \in Entries, DialFails(e) PROVE current' = f
    BY <1>0, <1>8 DEF DialFails, Forget
<1>9. ASSUME NEW e \in Entries, DialAnswers(e) PROVE current' = f
    <2>1. PICK s, r :
            /\ r = [entry[e] EXCEPT !.conn = TRUE, !.ready = TRUE]
            /\ Becomes(e, s) /\ (Stays(e, r, s) \/ Ends(e, r, s))
        BY <1>9, AnswerDoes
    <2>2. current = e /\ server' = [server EXCEPT ![e] = "live"]
        BY <1>9 DEF DialAnswers
    <2>q. QED
        BY <1>0, <2>1, <2>2 DEF Stays, Ends, SameEnd, Forget
<1>10. ASSUME NEW e \in Entries, DialDiscarded(e) \/ ReadWanted(e) \/ Dies(e) PROVE current' = f
    BY <1>0, <1>10 DEF DialDiscarded, ReadWanted, Dies
<1>11. ASSUME NEW e \in Entries, Expire(e) PROVE current' = f
    <2>1. PICK s :
            /\ Becomes(e, s) /\ UNCHANGED server
            /\ \/ current' = current /\ SameEnd(entry[e], s)
               \/ Ends(e, entry[e], s)
        BY <1>11, ExpireDoes
    <2>q. QED
        BY <1>0, <2>1 DEF Ends, SameEnd, Forget
<1>12. ASSUME NEW e \in Entries, StopUnwanted(e) \/ Watch(e) PROVE current' = f
    <2>1. End(entry[e]).ended
        BY EndIs
    <2>q. QED
        BY <1>0, <1>12, <2>1 DEF StopUnwanted, Watch, Forget
<1>13. ASSUME NEW e \in Entries, CloseConn(e) \/ Stopped(e) PROVE current' = f
    BY <1>0, <1>13 DEF CloseConn, Stopped, EntryRec
<1>14. CASE KeepOn
    <2>1. PICK e \in Entries, s \in EntryRec : Becomes(e, s) /\ (Joins(e, s) \/ Starts(e, s))
        BY <1>14, KeepOnDoes
    <2>q. QED
        BY <1>0, <2>1 DEF Joins, Starts, SameEnd
<1>15. CASE KeepOff
    <2>1. UNCHANGED server
        BY <1>15 DEF KeepOff
    <2>2. CASE current = NoEntry
        BY <1>0, <1>15, <2>1, <2>2 DEF KeepOff
    <2>3. CASE current # NoEntry
        <3>1. PICK s, r :
                /\ r = [entry[current] EXCEPT !.kept = FALSE] /\ Becomes(current, s)
                /\ ((current' = current /\ s = r) \/ Ends(current, r, s))
            BY <1>15, <2>3, KeepOffDoes
        <3>2. CASE f = current
            <4>1. entry'[f] = s
                BY <3>1, <3>2
            <4>q. QED
                BY <3>1, <3>2, <4>1 DEF Ends
        <3>3. CASE f # current
            <4>1. entry'[f] = entry[f]
                BY <3>1, <3>3
            <4>q. QED
                BY <1>0, <2>1, <3>3, <4>1
        <3>q. QED
            BY <3>2, <3>3
    <2>q. QED
        BY <2>2, <2>3
<1>16. CASE Recheck \/ CloseReturns
    BY <1>0, <1>16 DEF Recheck, CloseReturns
<1>17. CASE Close
    <2>1. End(entry[f]).ended /\ SameEnd(entry[f], CancelIdle(entry[f]))
        BY EndIs, CancelIdleIs
    <2>2. server[f] = "live" /\ (entry'[f].ended <=> f = current \/ entry[f].ended)
        BY <1>0, <1>17, <2>1 DEF Close, SameEnd
    <2>q. QED
        BY <1>0, <2>2
<1>18. CASE UNCHANGED vars
    BY <1>0, <1>18 DEF vars
<1>q. QED
    BY <1>1, <1>2, <1>3, <1>4, <1>5, <1>6, <1>7, <1>8, <1>9, <1>10, <1>11, <1>12, <1>13,
        <1>14, <1>15, <1>16, <1>17, <1>18 DEF Next, CallerStep, DialStep, EndStep

\* Keep is carried to the entry on the map, and a start that follows it takes it over.
LEMMA KeptStep == Inv /\ [Next]_vars => KeptAgrees'
<1> SUFFICES ASSUME Typed, Inv, [Next]_vars, current' # NoEntry
             PROVE  entry'[current'].kept = kept'
    BY TypedIs DEF Inv, KeptAgrees
<1>0. current # NoEntry => entry[current].kept = kept
    BY DEF Inv, KeptAgrees
<1> USE NoEntryAssumption DEF Typed, Becomes, poolVars, checkVars
<1>1. ASSUME NEW c \in Callers, Acquire(c) PROVE entry'[current'].kept = kept'
    <2>1. PICK e \in Entries, s \in EntryRec :
            Becomes(e, s) /\ ((Joins(e, s) /\ s.kept = entry[e].kept) \/ Starts(e, s))
        BY <1>1, AcquireDoes
    <2>2. kept' = kept
        BY <1>1 DEF Acquire
    <2>q. QED
        BY <1>0, <2>1, <2>2 DEF Joins, Starts
<1>2. ASSUME NEW c \in Callers, Refused(c) \/ Settled(c) \/ GiveUp(c) \/ ForgetGone(c)
      PROVE entry'[current'].kept = kept'
    BY <1>0, <1>2 DEF Refused, Settled, GiveUp, ForgetGone, Forget
<1>3. ASSUME NEW c \in Callers, Release(c) PROVE entry'[current'].kept = kept'
    <2> DEFINE e == caller[c].at
    <2>1. PICK s, r :
            /\ e \in Entries /\ r = [entry[e] EXCEPT !.refs = @ - 1]
            /\ Becomes(e, s) /\ (Stays(e, r, s) \/ Ends(e, r, s))
        BY <1>3, ReleaseDoes
    <2>2. kept' = kept
        BY <1>3 DEF Release
    <2>3. r.kept = entry[e].kept
        BY <2>1 DEF EntryRec
    <2> HIDE DEF e
    <2>q. QED
        BY <1>0, <2>1, <2>2, <2>3 DEF Stays, Ends, SameStart, Forget
<1>4. ASSUME NEW e \in Entries, Late(e) \/ DropLate(e) \/ TimerFires(e)
      PROVE entry'[current'].kept = kept'
    BY <1>0, <1>4 DEF Late, DropLate, TimerFires, EntryRec
<1>5. ASSUME NEW e \in Entries, DialFails(e) PROVE entry'[current'].kept = kept'
    BY <1>0, <1>5 DEF DialFails, Forget, EntryRec
<1>6. ASSUME NEW e \in Entries, DialAnswers(e) PROVE entry'[current'].kept = kept'
    <2>1. PICK s, r :
            /\ r = [entry[e] EXCEPT !.conn = TRUE, !.ready = TRUE]
            /\ Becomes(e, s) /\ (Stays(e, r, s) \/ Ends(e, r, s))
        BY <1>6, AnswerDoes
    <2>2. kept' = kept
        BY <1>6 DEF DialAnswers
    <2>3. r.kept = entry[e].kept
        BY <2>1 DEF EntryRec
    <2>q. QED
        BY <1>0, <2>1, <2>2, <2>3 DEF Stays, Ends, SameStart, Forget
<1>7. ASSUME NEW e \in Entries, DialDiscarded(e) \/ ReadWanted(e) \/ Dies(e)
      PROVE entry'[current'].kept = kept'
    BY <1>0, <1>7 DEF DialDiscarded, ReadWanted, Dies
<1>8. ASSUME NEW e \in Entries, Expire(e) PROVE entry'[current'].kept = kept'
    <2>1. PICK s :
            /\ Becomes(e, s) /\ UNCHANGED poolVars
            /\ \/ current' = current /\ SameStart(entry[e], s)
               \/ Ends(e, entry[e], s)
        BY <1>8, ExpireDoes
    <2>q. QED
        BY <1>0, <2>1 DEF Ends, SameStart, Forget
<1>9. ASSUME NEW e \in Entries, StopUnwanted(e) \/ Watch(e) PROVE entry'[current'].kept = kept'
    BY <1>0, <1>9 DEF StopUnwanted, Watch, Forget
<1>10. ASSUME NEW e \in Entries, CloseConn(e) \/ Stopped(e) PROVE entry'[current'].kept = kept'
    BY <1>0, <1>10 DEF CloseConn, Stopped, EntryRec
<1>11. CASE KeepOn
    <2>1. PICK e \in Entries, s \in EntryRec : Becomes(e, s) /\ s.kept /\ (Joins(e, s) \/ Starts(e, s))
        BY <1>11, KeepOnDoes
    <2>2. kept' = TRUE /\ s.kept = TRUE
        BY <1>11, <2>1 DEF KeepOn, EntryRec
    <2>3. current' = e /\ entry'[e] = s
        BY <2>1 DEF Joins, Starts
    <2>q. QED
        BY <2>2, <2>3
<1>12. CASE KeepOff
    <2>1. kept' = FALSE
        BY <1>12 DEF KeepOff
    <2>2. CASE current = NoEntry
        BY <1>0, <1>12, <2>1, <2>2 DEF KeepOff
    <2>3. CASE current # NoEntry
        <3>1. PICK s, r :
                /\ r = [entry[current] EXCEPT !.kept = FALSE] /\ Becomes(current, s)
                /\ ((current' = current /\ s = r) \/ Ends(current, r, s))
            BY <1>12, <2>3, KeepOffDoes
        <3>2. r.kept = FALSE
            BY <2>3, <3>1 DEF EntryRec
        <3>3. Ends(current, r, s) => current' = NoEntry
            BY DEF Ends, Forget
        <3>q. QED
            BY <2>1, <2>3, <3>1, <3>2, <3>3
    <2>q. QED
        BY <2>2, <2>3
<1>13. CASE Recheck \/ Close \/ CloseReturns
    BY <1>0, <1>13 DEF Recheck, Close, CloseReturns
<1>14. CASE UNCHANGED vars
    BY <1>0, <1>14 DEF vars
<1>q. QED
    BY <1>1, <1>2, <1>3, <1>4, <1>5, <1>6, <1>7, <1>8, <1>9, <1>10, <1>11, <1>12, <1>13,
        <1>14 DEF Next, CallerStep, DialStep, EndStep

\* A timer is set when nobody needs a connection any more, and stopped when somebody does.
LEMMA TimerStep == Inv /\ [Next]_vars => TimerIffUnneeded'
<1> DEFINE Goal(f) == /\ entry'[f].idle => Unneeded(entry'[f])
                      /\ Unneeded(entry'[f]) /\ server'[f] = "live" => entry'[f].idle
<1> SUFFICES ASSUME Typed, Inv, [Next]_vars, NEW f \in Entries PROVE Goal(f)
    BY TypedIs DEF Inv, TimerIffUnneeded, Unneeded
<1>0. /\ entry[f].idle => Unneeded(entry[f])
      /\ Unneeded(entry[f]) /\ server[f] = "live" => entry[f].idle
    BY DEF Inv, TimerIffUnneeded
<1>a. /\ entry[f] \in EntryRec /\ entry'[f] \in EntryRec
    BY TypeStep DEF Inv, Typed, TypeOK, EntryRec
<1>b. \A r, s \in EntryRec : SameStart(r, s) /\ SameEnd(r, s) => (Unneeded(r) <=> Unneeded(s))
    BY DEF SameStart, SameEnd, Unneeded
<1> USE DEF Typed, Becomes, poolVars, checkVars
<1>1. ASSUME NEW c \in Callers, Acquire(c) PROVE Goal(f)
    <2>1. PICK e \in Entries, s \in EntryRec :
            /\ Becomes(e, s) /\ caller' = [caller EXCEPT ![c].pc = "wait", ![c].at = e]
            /\ \/ Joins(e, s) /\ s.kept = entry[e].kept /\ s.refs = entry[e].refs + 1
               \/ Starts(e, s) /\ s.refs = 1
        BY <1>1, AcquireDoes
    <2>2. ~s.idle /\ (f # e => entry'[f] = entry[f] /\ server'[f] = server[f])
        BY <2>1 DEF Joins, Starts
    <2>3. ~Unneeded(s)
        BY <2>1 DEF Unneeded, EntryRec
    <2>q. QED
        BY <1>0, <2>1, <2>2, <2>3
<1>2. ASSUME NEW c \in Callers, Refused(c) \/ Settled(c) \/ GiveUp(c) \/ ForgetGone(c)
      PROVE Goal(f)
    BY <1>0, <1>2 DEF Refused, Settled, GiveUp, ForgetGone
<1>3. ASSUME NEW c \in Callers, Release(c) PROVE Goal(f)
    <2> DEFINE e == caller[c].at
    <2>1. PICK s, r : e \in Entries /\ Becomes(e, s) /\ (Stays(e, r, s) \/ Ends(e, r, s))
        BY <1>3, ReleaseDoes
    <2>2. server' = server
        BY <1>3 DEF Release
    <2> HIDE DEF e
    <2>q. QED
        BY <1>0, <2>1, <2>2 DEF Stays, Ends, Unneeded
<1>4. ASSUME NEW e \in Entries, Late(e) \/ DropLate(e) \/ TimerFires(e) PROVE Goal(f)
    BY <1>0, <1>4 DEF Late, DropLate, TimerFires, Unneeded, EntryRec
<1>5. ASSUME NEW e \in Entries, DialFails(e) PROVE Goal(f)
    <2>1. ~entry[e].conn
        BY <1>5 DEF DialFails, Inv, Shaped, StartShaped
    <2>q. QED
        BY <1>0, <1>5, <2>1 DEF DialFails, Unneeded, EntryRec
<1>6. ASSUME NEW e \in Entries, DialAnswers(e) PROVE Goal(f)
    <2>1. PICK s, r : Becomes(e, s) /\ (Stays(e, r, s) \/ Ends(e, r, s))
        BY <1>6, AnswerDoes
    <2>2. server' = [server EXCEPT ![e] = "live"]
        BY <1>6 DEF DialAnswers
    <2>q. QED
        BY <1>0, <2>1, <2>2 DEF Stays, Ends, Unneeded
<1>7. ASSUME NEW e \in Entries, DialDiscarded(e) \/ ReadWanted(e) \/ Dies(e) PROVE Goal(f)
    BY <1>0, <1>7 DEF DialDiscarded, ReadWanted, Dies
<1>8. ASSUME NEW e \in Entries, Expire(e) PROVE Goal(f)
    <2>1. PICK s :
            /\ Becomes(e, s) /\ UNCHANGED server
            /\ \/ SameStart(entry[e], s) /\ SameEnd(entry[e], s) /\ s.idle = entry[e].idle
               \/ Ends(e, entry[e], s)
        BY <1>8, ExpireDoes
    <2>2. f = e => (Unneeded(s) <=> Unneeded(entry[e])) \/ Ends(e, entry[e], s)
        BY <1>a, <1>b, <2>1
    <2>q. QED
        BY <1>0, <2>1, <2>2 DEF Ends, Unneeded
<1>9. ASSUME NEW e \in Entries, StopUnwanted(e) \/ Watch(e) PROVE Goal(f)
    <2>1. ~End(entry[e]).idle /\ End(entry[e]).ended
        BY EndIs
    <2>q. QED
        BY <1>0, <1>9, <2>1 DEF StopUnwanted, Watch, Unneeded
<1>10. ASSUME NEW e \in Entries, CloseConn(e) \/ Stopped(e) PROVE Goal(f)
    <2>1. CASE CloseConn(e)
        BY <1>0, <2>1 DEF CloseConn, Unneeded, EntryRec
    <2>2. CASE Stopped(e)
        BY <1>0, <2>2 DEF Stopped, Unneeded, EntryRec
    <2>q. QED
        BY <1>10, <2>1, <2>2
<1>11. CASE KeepOn
    <2>1. PICK e \in Entries, s \in EntryRec : Becomes(e, s) /\ s.kept /\ (Joins(e, s) \/ Starts(e, s))
        BY <1>11, KeepOnDoes
    <2>2. ~s.idle /\ (f # e => entry'[f] = entry[f] /\ server'[f] = server[f])
        BY <2>1 DEF Joins, Starts
    <2>q. QED
        BY <1>0, <2>1, <2>2 DEF Unneeded
<1>12. CASE KeepOff
    <2>1. UNCHANGED server
        BY <1>12 DEF KeepOff
    <2>2. CASE current = NoEntry
        BY <1>0, <1>12, <2>1, <2>2 DEF KeepOff
    <2>3. CASE current # NoEntry
        <3>1. PICK s, r :
                /\ current \in Entries /\ r = [entry[current] EXCEPT !.kept = FALSE]
                /\ Becomes(current, s) /\ ((s = r /\ ~Unneeded(r)) \/ Ends(current, r, s))
            BY <1>12, <2>3, KeepOffDoes
        <3>2. kept /\ entry[current].kept
            BY <1>12, <2>3 DEF KeepOff, Inv, KeptAgrees
        <3>3. f = current => ~entry[f].idle
            BY <1>0, <3>2 DEF Unneeded
        <3>4. r.idle = entry[current].idle
            BY <3>1 DEF EntryRec
        <3>q. QED
            BY <1>0, <2>1, <3>1, <3>3, <3>4 DEF Ends, Unneeded
    <2>q. QED
        BY <2>2, <2>3
<1>13. CASE Recheck \/ CloseReturns
    BY <1>0, <1>13 DEF Recheck, CloseReturns
<1>14. CASE Close
    <2>1. /\ ~End(entry[f]).idle /\ End(entry[f]).ended
          /\ ~CancelIdle(entry[f]).idle /\ SameStart(entry[f], CancelIdle(entry[f]))
          /\ SameEnd(entry[f], CancelIdle(entry[f]))
        BY EndIs, CancelIdleIs
    <2>q. QED
        BY <1>0, <1>14, <2>1 DEF Close, Unneeded, SameStart, SameEnd
<1>15. CASE UNCHANGED vars
    BY <1>0, <1>15 DEF vars
<1>q. QED
    BY <1>1, <1>2, <1>3, <1>4, <1>5, <1>6, <1>7, <1>8, <1>9, <1>10, <1>11, <1>12, <1>13,
        <1>14, <1>15 DEF Next, CallerStep, DialStep, EndStep

\* What a caller's entry has become does not go back: a start stays started, a connection
\* stays one, and a server that is gone stays gone.
LEMMA NothingGoesBack ==
  ASSUME Typed, Inv, [Next]_vars, NEW f \in Entries
  PROVE  /\ dial[f] # "none" => dial'[f] # "none"
         /\ dial[f] # "none" /\ Gone(f) => Gone(f)'
         /\ dial[f] # "none" /\ entry[f].conn => entry'[f].conn
<1> DEFINE Goal == /\ dial[f] # "none" => dial'[f] # "none"
                   /\ dial[f] # "none" /\ Gone(f) => Gone(f)'
                   /\ dial[f] # "none" /\ entry[f].conn => entry'[f].conn
<1> USE DEF Typed, Becomes, Gone, poolVars, checkVars
<1>1. ASSUME NEW c \in Callers, Acquire(c) PROVE Goal
    <2>1. PICK e \in Entries, s \in EntryRec : Becomes(e, s) /\ (Joins(e, s) \/ Starts(e, s))
        BY <1>1, AcquireDoes
    <2>q. QED
        BY <2>1 DEF Joins, Starts
<1>2. ASSUME NEW c \in Callers, Refused(c) \/ Settled(c) \/ GiveUp(c) \/ ForgetGone(c) PROVE Goal
    BY <1>2 DEF Refused, Settled, GiveUp, ForgetGone
<1>3. ASSUME NEW c \in Callers, Release(c) PROVE Goal
    <2> DEFINE e == caller[c].at
    <2>1. PICK s, r :
            /\ e \in Entries /\ r = [entry[e] EXCEPT !.refs = @ - 1]
            /\ Becomes(e, s) /\ (Stays(e, r, s) \/ Ends(e, r, s))
        BY <1>3, ReleaseDoes
    <2>2. s.conn = entry[e].conn
        BY <2>1 DEF Stays, Ends, SameStart, EntryRec
    <2> HIDE DEF e
    <2>q. QED
        BY <1>3, <2>1, <2>2 DEF Release
<1>4. ASSUME NEW e \in Entries, Late(e) \/ DropLate(e) \/ TimerFires(e) PROVE Goal
    <2>1. CASE Late(e)
        BY <2>1 DEF Late, EntryRec
    <2>2. CASE DropLate(e)
        BY <2>2 DEF DropLate, EntryRec
    <2>3. CASE TimerFires(e)
        BY <2>3 DEF TimerFires, EntryRec
    <2>q. QED
        BY <1>4, <2>1, <2>2, <2>3
<1>5. ASSUME NEW e \in Entries, DialFails(e) PROVE Goal
    BY <1>5 DEF DialFails, EntryRec
<1>6. ASSUME NEW e \in Entries, DialAnswers(e) PROVE Goal
    <2>1. PICK s, r :
            /\ r = [entry[e] EXCEPT !.conn = TRUE, !.ready = TRUE]
            /\ Becomes(e, s) /\ (Stays(e, r, s) \/ Ends(e, r, s))
        BY <1>6, AnswerDoes
    <2>2. s.conn
        BY <2>1 DEF Stays, Ends, SameStart, EntryRec
    <2>q. QED
        BY <1>6, <2>1, <2>2 DEF DialAnswers
<1>7. ASSUME NEW e \in Entries, DialDiscarded(e) \/ ReadWanted(e) \/ Dies(e) PROVE Goal
    BY <1>7 DEF DialDiscarded, ReadWanted, Dies
<1>8. ASSUME NEW e \in Entries, Expire(e) PROVE Goal
    <2>1. PICK s :
            /\ Becomes(e, s) /\ UNCHANGED <<server, dial>>
            /\ SameStart(entry[e], s) \/ Ends(e, entry[e], s)
        BY <1>8, ExpireDoes
    <2>q. QED
        BY <2>1 DEF Ends, SameStart
<1>9. ASSUME NEW e \in Entries, StopUnwanted(e) \/ Watch(e) PROVE Goal
    <2>1. SameStart(entry[e], End(entry[e]))
        BY EndIs
    <2>q. QED
        BY <1>9, <2>1 DEF StopUnwanted, Watch, SameStart
<1>10. ASSUME NEW e \in Entries, CloseConn(e) \/ Stopped(e) PROVE Goal
    <2>1. /\ server' = [server EXCEPT ![e] = "closing"] \/ server' = [server EXCEPT ![e] = "stopped"]
          /\ dial' = dial
        BY <1>10 DEF CloseConn, Stopped
    <2>2. entry'[f].conn = entry[f].conn
        BY <1>10 DEF CloseConn, Stopped, EntryRec
    <2>q. QED
        BY <2>1, <2>2
<1>11. CASE KeepOn
    <2>1. PICK e \in Entries, s \in EntryRec : Becomes(e, s) /\ (Joins(e, s) \/ Starts(e, s))
        BY <1>11, KeepOnDoes
    <2>q. QED
        BY <2>1 DEF Joins, Starts
<1>12. CASE KeepOff
    <2>1. UNCHANGED <<server, dial>>
        BY <1>12 DEF KeepOff
    <2>2. CASE current = NoEntry
        BY <1>12, <2>1, <2>2 DEF KeepOff
    <2>3. CASE current # NoEntry
        <3>1. PICK s, r :
                /\ r = [entry[current] EXCEPT !.kept = FALSE] /\ Becomes(current, s)
                /\ s = r \/ Ends(current, r, s)
            BY <1>12, <2>3, KeepOffDoes
        <3>2. s.conn = entry[current].conn
            <4>1. s.conn = r.conn
                BY <3>1 DEF Ends, SameStart
            <4>2. r.conn = entry[current].conn
                BY <2>3, <3>1 DEF EntryRec
            <4>q. QED
                BY <4>1, <4>2
        <3>q. QED
            BY <2>1, <3>1, <3>2
    <2>q. QED
        BY <2>2, <2>3
<1>13. CASE Recheck \/ CloseReturns
    BY <1>13 DEF Recheck, CloseReturns
<1>14. CASE Close
    <2>1. SameStart(entry[f], End(entry[f])) /\ SameStart(entry[f], CancelIdle(entry[f]))
        BY EndIs, CancelIdleIs
    <2>q. QED
        BY <1>14, <2>1 DEF Close, SameStart
<1>15. CASE UNCHANGED vars
    BY <1>15 DEF vars
<1>q. QED
    BY <1>1, <1>2, <1>3, <1>4, <1>5, <1>6, <1>7, <1>8, <1>9, <1>10, <1>11, <1>12, <1>13,
        <1>14, <1>15 DEF Next, CallerStep, DialStep, EndStep

\* A caller that moves knows its entry, and what it knows stays true while others move.
LEMMA CallersStep == Inv /\ [Next]_vars => CallersKnow'
<1> DEFINE Knows(d) ==
             /\ caller[d].pc \in {"idle", "retry"} <=> caller[d].at = NoEntry
             /\ caller[d].at # NoEntry => dial[caller[d].at] # "none"
             /\ caller[d].pc = "gone" => Gone(caller[d].at)
             /\ caller[d].pc = "hold" => entry[caller[d].at].conn
<1> SUFFICES ASSUME Typed, Inv, [Next]_vars, NEW d \in Callers PROVE Knows(d)'
    BY TypedIs DEF Inv, CallersKnow, Gone
<1>0. Knows(d)
    BY DEF Inv, CallersKnow
<1> USE NoEntryAssumption DEF Typed, poolVars, checkVars
<1>a. caller[d] \in CallerRec /\ caller[d].at \in Entries \cup {NoEntry}
    BY DEF CallerRec
<1>b. caller'[d] = caller[d] => Knows(d)'
    <2> SUFFICES ASSUME caller'[d] = caller[d] PROVE Knows(d)'
        OBVIOUS
    <2>1. CASE caller[d].at = NoEntry
        BY <1>0, <2>1
    <2>2. CASE caller[d].at \in Entries
        BY <1>0, <2>2, NothingGoesBack DEF Gone
    <2>q. QED
        BY <1>a, <2>1, <2>2
<1>1. ASSUME NEW c \in Callers, Acquire(c) PROVE Knows(d)'
    <2>1. PICK e \in Entries, s \in EntryRec :
            /\ Becomes(e, s) /\ caller' = [caller EXCEPT ![c].pc = "wait", ![c].at = e]
            /\ Joins(e, s) \/ Starts(e, s)
        BY <1>1, AcquireDoes
    <2>2. dial'[e] # "none"
        BY <2>1 DEF Joins, Starts, Inv, Mapped
    <2>3. CASE d = c
        BY <2>1, <2>2, <2>3 DEF CallerRec
    <2>4. CASE d # c
        BY <1>b, <2>1, <2>4
    <2>q. QED
        BY <2>3, <2>4
<1>2. ASSUME NEW c \in Callers, Refused(c) PROVE Knows(d)'
    BY <1>2, <1>b DEF Refused, NoCaller
<1>3. ASSUME NEW c \in Callers, Settled(c) PROVE Knows(d)'
    <2>1. CASE d = c
        <3>1. caller[c].at \in Entries /\ entry[caller[c].at].ready
            BY <1>0, <1>3, <1>a, <2>1 DEF Settled
        <3>2. ~entry[caller[c].at].err => entry[caller[c].at].conn
            BY <3>1 DEF Inv, Shaped, StartShaped
        <3>3. /\ caller'[c].at = caller[c].at
              /\ caller'[c].pc = IF entry[caller[c].at].err THEN "release"
                                 ELSE IF Gone(caller[c].at) THEN "gone" ELSE "hold"
            BY <1>3 DEF Settled, CallerRec
        <3>4. UNCHANGED <<entry, server, dial>>
            BY <1>3 DEF Settled
        <3>q. QED
            BY <1>0, <2>1, <3>1, <3>2, <3>3, <3>4 DEF Gone
    <2>2. CASE d # c
        BY <1>3, <1>b, <2>2 DEF Settled
    <2>q. QED
        BY <2>1, <2>2
<1>4. ASSUME NEW c \in Callers, GiveUp(c) \/ ForgetGone(c) PROVE Knows(d)'
    <2>1. CASE d = c
        BY <1>0, <1>4, <2>1 DEF GiveUp, ForgetGone, CallerRec
    <2>2. CASE d # c
        BY <1>4, <1>b, <2>2 DEF GiveUp, ForgetGone
    <2>q. QED
        BY <2>1, <2>2
<1>5. ASSUME NEW c \in Callers, Release(c) PROVE Knows(d)'
    <2>1. CASE d = c
        BY <1>5, <2>1 DEF Release, AfterRelease, NoCaller
    <2>2. CASE d # c
        BY <1>5, <1>b, <2>2 DEF Release, AfterRelease
    <2>q. QED
        BY <2>1, <2>2
<1>6. ASSUME NEW e \in Entries, Late(e) \/ DropLate(e) \/ DialStep(e) PROVE Knows(d)'
    BY <1>6, <1>b DEF Late, DropLate, DialStep, DialFails, DialAnswers, DialDiscarded
<1>7. ASSUME NEW e \in Entries, EndStep(e) \/ Dies(e) PROVE Knows(d)'
    BY <1>7, <1>b DEF EndStep, TimerFires, Expire, ReadWanted, StopUnwanted, CloseConn, Stopped,
                      Watch, Dies
<1>8. CASE KeepOn \/ KeepOff \/ Recheck \/ Close \/ CloseReturns
    BY <1>8, <1>b DEF KeepOn, KeepOff, Recheck, Close, CloseReturns
<1>9. CASE UNCHANGED vars
    BY <1>9, <1>b DEF vars
<1>q. QED
    BY <1>1, <1>2, <1>3, <1>4, <1>5, <1>6, <1>7, <1>8, <1>9 DEF Next, CallerStep

\* What is used is ended by Close, or when its server was found gone; every other end is that of
\* a connection nobody uses.
LEMMA UsedStep == Inv /\ [Next]_vars => UsedEnded'
<1> DEFINE Used(f) == entry[f].refs > 0 \/ entry[f].kept
           Goal(f) == entry'[f].conn /\ entry'[f].ended /\ Used(f)' => f \in died'
<1> SUFFICES ASSUME Typed, Inv, [Next]_vars, ~closed', NEW f \in Entries PROVE Goal(f)
    BY TypedIs DEF Inv, UsedEnded
<1>0. /\ entry[f].conn /\ entry[f].ended /\ ~closed /\ Used(f) => f \in died
      /\ entry[f] \in EntryRec
    BY DEF Inv, UsedEnded, Typed
<1> USE DEF Typed, Becomes, poolVars, checkVars
<1>a. \A r, s : Ends(f, r, s) => ~(s.refs > 0 \/ s.kept)
    BY DEF Ends, Unneeded, SameStart
<1>1. ASSUME NEW c \in Callers, Acquire(c) PROVE Goal(f)
    <2>1. PICK e \in Entries, s \in EntryRec : Becomes(e, s) /\ (Joins(e, s) \/ Starts(e, s))
        BY <1>1, AcquireDoes
    <2>2. (e = current => ~entry[e].ended) /\ ~closed /\ died' = died
        BY <1>1, NoEntryAssumption DEF Acquire, Inv, Mapped
    <2>3. ~s.ended
        BY <2>1, <2>2 DEF Joins, Starts, SameEnd
    <2>q. QED
        BY <1>0, <2>1, <2>2, <2>3
<1>2. ASSUME NEW c \in Callers, Refused(c) \/ Settled(c) \/ GiveUp(c) \/ ForgetGone(c)
      PROVE Goal(f)
    BY <1>0, <1>2 DEF Refused, Settled, GiveUp, ForgetGone
<1>3. ASSUME NEW c \in Callers, Release(c) PROVE Goal(f)
    <2> DEFINE e == caller[c].at
    <2>1. PICK s, r :
            /\ e \in Entries /\ entry[e].refs > 0
            /\ r = [entry[e] EXCEPT !.refs = @ - 1]
            /\ Becomes(e, s) /\ (Stays(e, r, s) \/ Ends(e, r, s))
        BY <1>3, ReleaseDoes
    <2>2. UNCHANGED <<closed, died>>
        BY <1>3 DEF Release
    <2>3. /\ r.conn = entry[e].conn /\ r.kept = entry[e].kept /\ r.ended = entry[e].ended
        BY <2>1 DEF EntryRec
    <2> HIDE DEF e
    <2>4. CASE f = e /\ Stays(e, r, s)
        <3>1. s.conn = entry[f].conn /\ s.kept = entry[f].kept /\ s.ended = entry[f].ended
            BY <2>3, <2>4 DEF Stays, SameStart, SameEnd
        <3>q. QED
            BY <1>0, <2>1, <2>2, <2>4, <3>1
    <2>5. CASE f = e /\ Ends(e, r, s)
        BY <1>a, <2>1, <2>5
    <2>6. CASE f # e
        BY <1>0, <2>1, <2>2, <2>6
    <2>q. QED
        BY <2>1, <2>4, <2>5, <2>6
<1>4. ASSUME NEW e \in Entries, Late(e) \/ DropLate(e) \/ TimerFires(e) PROVE Goal(f)
    <2>1. /\ entry'[f].conn = entry[f].conn /\ entry'[f].ended = entry[f].ended
          /\ entry'[f].refs = entry[f].refs /\ entry'[f].kept = entry[f].kept
        <3>1. Late(e) \/ DropLate(e) => (UNCHANGED entry \/ entry' = [entry EXCEPT ![e].late = TRUE])
            BY DEF Late, DropLate
        <3>2. TimerFires(e) => entry' = [entry EXCEPT ![e].fired = @ \cup {entry[e].gen}]
            BY DEF TimerFires
        <3>3. CASE f = e
            BY <1>0, <1>4, <3>1, <3>2, <3>3 DEF EntryRec
        <3>4. CASE f # e
            BY <1>4, <3>1, <3>2, <3>4
        <3>q. QED
            BY <3>3, <3>4
    <2>2. UNCHANGED <<closed, died>>
        BY <1>4 DEF Late, DropLate, TimerFires
    <2>q. QED
        BY <1>0, <2>1, <2>2
<1>5. ASSUME NEW e \in Entries, DialFails(e) PROVE Goal(f)
    <2>1. ~entry[e].conn
        BY <1>5 DEF DialFails, Inv, Shaped, StartShaped
    <2>q. QED
        BY <1>0, <1>5, <2>1 DEF DialFails, EntryRec
<1>6. ASSUME NEW e \in Entries, DialAnswers(e) PROVE Goal(f)
    <2>1. PICK s, r :
            /\ r = [entry[e] EXCEPT !.conn = TRUE, !.ready = TRUE]
            /\ Becomes(e, s) /\ (Stays(e, r, s) \/ Ends(e, r, s))
        BY <1>6, AnswerDoes
    <2>2. dial[e] = "running" /\ UNCHANGED <<closed, died>>
        BY <1>6 DEF DialAnswers
    <2>3. ~r.ended
        BY <2>1, <2>2 DEF Inv, Shaped, StartShaped, EntryRec
    <2>4. CASE f = e
        BY <1>a, <2>1, <2>3, <2>4 DEF Stays, SameEnd
    <2>5. CASE f # e
        BY <1>0, <2>1, <2>2, <2>5
    <2>q. QED
        BY <2>4, <2>5
<1>7. ASSUME NEW e \in Entries, DialDiscarded(e) \/ ReadWanted(e) \/ Dies(e) PROVE Goal(f)
    BY <1>0, <1>7 DEF DialDiscarded, ReadWanted, Dies
<1>8. ASSUME NEW e \in Entries, Expire(e) PROVE Goal(f)
    <2>1. PICK s :
            /\ Becomes(e, s) /\ UNCHANGED <<closed, died>>
            /\ \/ SameStart(entry[e], s) /\ SameEnd(entry[e], s)
               \/ Ends(e, entry[e], s)
        BY <1>8, ExpireDoes
    <2>q. QED
        BY <1>0, <1>a, <2>1 DEF SameStart, SameEnd
<1>9. ASSUME NEW e \in Entries, StopUnwanted(e) PROVE Goal(f)
    <2>1. SameStart(entry[e], End(entry[e]))
        BY EndIs
    <2>q. QED
        BY <1>0, <1>9, <2>1 DEF StopUnwanted, SameStart, Unneeded
<1>10. ASSUME NEW e \in Entries, Watch(e) PROVE Goal(f)
    <2>1. e \in died
        BY <1>10 DEF Watch, Gone, Inv, Shaped, ConnShaped
    <2>q. QED
        BY <1>0, <1>10, <2>1 DEF Watch
<1>11. ASSUME NEW e \in Entries, CloseConn(e) \/ Stopped(e) PROVE Goal(f)
    <2>1. /\ entry'[f].conn = entry[f].conn /\ entry'[f].ended = entry[f].ended
          /\ entry'[f].refs = entry[f].refs /\ entry'[f].kept = entry[f].kept
        BY <1>11 DEF CloseConn, Stopped, EntryRec
    <2>2. UNCHANGED <<closed, died>>
        BY <1>11 DEF CloseConn, Stopped
    <2>q. QED
        BY <1>0, <2>1, <2>2
<1>12. CASE KeepOn
    <2>1. PICK e \in Entries, s \in EntryRec : Becomes(e, s) /\ (Joins(e, s) \/ Starts(e, s))
        BY <1>12, KeepOnDoes
    <2>2. (e = current => ~entry[e].ended) /\ ~closed /\ died' = died
        BY <1>12, NoEntryAssumption DEF KeepOn, Inv, Mapped
    <2>3. ~s.ended
        BY <2>1, <2>2 DEF Joins, Starts, SameEnd
    <2>q. QED
        BY <1>0, <2>1, <2>2, <2>3
<1>13. CASE KeepOff
    <2>1. UNCHANGED <<closed, died>>
        BY <1>13 DEF KeepOff
    <2>2. CASE current = NoEntry
        BY <1>0, <1>13, <2>1, <2>2 DEF KeepOff
    <2>3. CASE current # NoEntry
        <3>1. PICK s, r :
                /\ r = [entry[current] EXCEPT !.kept = FALSE] /\ Becomes(current, s)
                /\ s = r \/ Ends(current, r, s)
            BY <1>13, <2>3, KeepOffDoes
        <3>2. ~r.ended
            BY <2>3, <3>1 DEF Inv, Mapped, EntryRec
        <3>3. CASE f = current
            BY <1>a, <3>1, <3>2, <3>3
        <3>4. CASE f # current
            BY <1>0, <2>1, <3>1, <3>4
        <3>q. QED
            BY <3>3, <3>4
    <2>q. QED
        BY <2>2, <2>3
<1>14. CASE Recheck \/ CloseReturns
    BY <1>0, <1>14 DEF Recheck, CloseReturns
<1>15. CASE Close
    BY <1>15 DEF Close
<1>16. CASE UNCHANGED vars
    BY <1>0, <1>16 DEF vars
<1>q. QED
    BY <1>1, <1>2, <1>3, <1>4, <1>5, <1>6, <1>7, <1>8, <1>9, <1>10, <1>11, <1>12, <1>13,
        <1>14, <1>15, <1>16 DEF Next, CallerStep, DialStep, EndStep

\* The count of an entry moves with its users: one more with Acquire, one less with a release,
\* whichever way the caller came to it.
LEMMA RefsStep == Inv /\ [Next]_vars => RefsCounted'
<1> DEFINE Goal(f) == entry'[f].refs = Cardinality(Users(f)')
           Same == \A c \in Callers : caller'[c].at = caller[c].at
<1> SUFFICES ASSUME Typed, Inv, [Next]_vars, NEW f \in Entries PROVE Goal(f)
    BY TypedIs DEF Inv, RefsCounted
<1>0. entry[f].refs = Cardinality(Users(f)) /\ entry[f] \in EntryRec
    BY DEF Inv, RefsCounted, Typed
<1>a. Same /\ entry'[f].refs = entry[f].refs => Goal(f)
    <2> SUFFICES ASSUME Same, entry'[f].refs = entry[f].refs PROVE Goal(f)
        OBVIOUS
    <2>1. Users(f)' = Users(f)
        BY DEF Users
    <2>q. QED
        BY <1>0, <2>1
<1>b. \A e \in Entries : dial[e] = "none" => Users(e) = {}
    BY NoEntryAssumption DEF Inv, CallersKnow, Users
<1> USE DEF Typed, Becomes, poolVars, checkVars
<1>1. ASSUME NEW c \in Callers, Acquire(c) PROVE Goal(f)
    <2>1. PICK e \in Entries, s \in EntryRec :
            /\ Becomes(e, s) /\ caller' = [caller EXCEPT ![c].pc = "wait", ![c].at = e]
            /\ \/ Joins(e, s) /\ s.refs = entry[e].refs + 1
               \/ Starts(e, s) /\ s.refs = 1
        BY <1>1, AcquireDoes
    <2>2. caller[c].at = NoEntry
        BY <1>1 DEF Acquire, Inv, CallersKnow
    <2>3. caller'[c].at = e /\ \A d \in Callers \ {c} : caller'[d] = caller[d]
        BY <2>1 DEF CallerRec
    <2>4. CASE f = e
        <3>1. Users(f)' = Users(f) \cup {c} /\ c \notin Users(f)
            BY <2>2, <2>3, <2>4, NoEntryAssumption DEF Users
        <3>2. Cardinality(Users(f)') = Cardinality(Users(f)) + 1
            BY <3>1, UsersFinite, FS_AddElement
        <3>3. Starts(e, s) => Cardinality(Users(f)) = 0
            BY <1>b, <2>4, FS_EmptySet DEF Starts
        <3>q. QED
            BY <1>0, <2>1, <2>4, <3>2, <3>3
    <2>5. CASE f # e
        <3>1. Users(f)' = Users(f)
            BY <2>2, <2>3, <2>5, NoEntryAssumption DEF Users
        <3>q. QED
            BY <1>0, <2>1, <2>5, <3>1
    <2>q. QED
        BY <2>4, <2>5
<1>2. ASSUME NEW c \in Callers, Refused(c) PROVE Goal(f)
    <2>1. caller[c].at = NoEntry
        BY <1>2 DEF Refused, Inv, CallersKnow
    <2>q. QED
        BY <1>2, <1>a, <2>1 DEF Refused, NoCaller
<1>3. ASSUME NEW c \in Callers, Settled(c) \/ GiveUp(c) \/ ForgetGone(c) PROVE Goal(f)
    BY <1>3, <1>a DEF Settled, GiveUp, ForgetGone, CallerRec
<1>4. ASSUME NEW c \in Callers, Release(c) PROVE Goal(f)
    <2> DEFINE e == caller[c].at
    <2>1. PICK s, r :
            /\ e \in Entries /\ entry[e].refs > 0
            /\ r = [entry[e] EXCEPT !.refs = @ - 1]
            /\ Becomes(e, s) /\ (Stays(e, r, s) \/ Ends(e, r, s))
        BY <1>4, ReleaseDoes
    <2>2. s.refs = entry[e].refs - 1
        BY <2>1 DEF Stays, Ends, SameStart, EntryRec
    <2>3. caller'[c].at = NoEntry /\ \A d \in Callers \ {c} : caller'[d] = caller[d]
        BY <1>4 DEF Release, AfterRelease, NoCaller
    <2>4. c \in Users(e)
        BY DEF Users
    <2>5. \A d \in Callers : d \in Users(f) <=> caller[d].at = f
        BY DEF Users
    <2>6. \A d \in Callers : d \in Users(f)' <=> caller'[d].at = f
        BY DEF Users
    <2>7. Users(f) \subseteq Callers /\ Users(f)' \subseteq Callers
        BY DEF Users
    <2> HIDE DEF e
    <2>8. CASE f = e
        <3>1. Users(f)' = Users(f) \ {c} /\ c \in Users(f)
            BY <2>3, <2>4, <2>5, <2>6, <2>7, <2>8, NoEntryAssumption
        <3>2. Cardinality(Users(f)') = Cardinality(Users(f)) - 1
            BY <3>1, UsersFinite, FS_RemoveElement
        <3>q. QED
            BY <1>0, <2>1, <2>2, <2>8, <3>2
    <2>9. CASE f # e
        <3>1. c \notin Users(f)
            BY <2>9 DEF Users, e
        <3>2. \A d \in Callers : d \in Users(f)' <=> d \in Users(f)
            BY <2>3, <2>5, <2>6, <3>1, NoEntryAssumption
        <3>3. Users(f)' = Users(f)
            BY <2>7, <3>2
        <3>q. QED
            BY <1>0, <2>1, <2>9, <3>3
    <2>q. QED
        BY <2>8, <2>9
<1>5. ASSUME NEW e \in Entries, Late(e) \/ DropLate(e) \/ TimerFires(e) PROVE Goal(f)
    <2>1. CASE Late(e)
        BY <1>a, <2>1 DEF Late, EntryRec
    <2>2. CASE DropLate(e)
        BY <1>a, <2>2 DEF DropLate, EntryRec
    <2>3. CASE TimerFires(e)
        BY <1>a, <2>3 DEF TimerFires, EntryRec
    <2>q. QED
        BY <1>5, <2>1, <2>2, <2>3
<1>6. ASSUME NEW e \in Entries, DialFails(e) PROVE Goal(f)
    BY <1>6, <1>a DEF DialFails, EntryRec
<1>7. ASSUME NEW e \in Entries, DialAnswers(e) PROVE Goal(f)
    <2>1. PICK s, r :
            /\ r = [entry[e] EXCEPT !.conn = TRUE, !.ready = TRUE]
            /\ Becomes(e, s) /\ (Stays(e, r, s) \/ Ends(e, r, s))
        BY <1>7, AnswerDoes
    <2>2. s.refs = entry[e].refs
        BY <2>1 DEF Stays, Ends, SameStart, EntryRec
    <2>3. caller' = caller
        BY <1>7 DEF DialAnswers
    <2>q. QED
        BY <1>a, <2>1, <2>2, <2>3
<1>8. ASSUME NEW e \in Entries, DialDiscarded(e) \/ ReadWanted(e) \/ Dies(e) PROVE Goal(f)
    BY <1>8, <1>a DEF DialDiscarded, ReadWanted, Dies
<1>9. ASSUME NEW e \in Entries, Expire(e) PROVE Goal(f)
    <2>1. PICK s :
            /\ Becomes(e, s) /\ UNCHANGED caller
            /\ SameStart(entry[e], s) \/ Ends(e, entry[e], s)
        BY <1>9, ExpireDoes
    <2>q. QED
        BY <1>a, <2>1 DEF Ends, SameStart
<1>10. ASSUME NEW e \in Entries, StopUnwanted(e) \/ Watch(e) PROVE Goal(f)
    <2>1. SameStart(entry[e], End(entry[e]))
        BY EndIs
    <2>q. QED
        BY <1>10, <1>a, <2>1 DEF StopUnwanted, Watch, SameStart
<1>11. ASSUME NEW e \in Entries, CloseConn(e) \/ Stopped(e) PROVE Goal(f)
    <2>1. CASE CloseConn(e)
        BY <1>a, <2>1 DEF CloseConn, EntryRec
    <2>2. CASE Stopped(e)
        BY <1>a, <2>2 DEF Stopped, EntryRec
    <2>q. QED
        BY <1>11, <2>1, <2>2
<1>12. CASE KeepOn
    <2>1. PICK e \in Entries, s \in EntryRec :
            /\ Becomes(e, s) /\ s.kept
            /\ \/ Joins(e, s) /\ s.refs = entry[e].refs
               \/ Starts(e, s) /\ s.refs = 0
        BY <1>12, KeepOnDoes
    <2>2. caller' = caller
        BY <1>12 DEF KeepOn
    <2>3. f = e /\ Starts(e, s) => entry[f].refs = 0
        BY <1>0, <1>b, FS_EmptySet DEF Starts
    <2>4. entry'[f].refs = entry[f].refs
        BY <2>1, <2>3
    <2>q. QED
        BY <1>a, <2>2, <2>4
<1>13. CASE KeepOff
    <2>1. UNCHANGED caller
        BY <1>13 DEF KeepOff
    <2>2. CASE current = NoEntry
        BY <1>a, <1>13, <2>1, <2>2 DEF KeepOff
    <2>3. CASE current # NoEntry
        <3>1. PICK s, r :
                /\ r = [entry[current] EXCEPT !.kept = FALSE] /\ Becomes(current, s)
                /\ s = r \/ Ends(current, r, s)
            BY <1>13, <2>3, KeepOffDoes
        <3>2. s.refs = entry[current].refs
            <4>1. s.refs = r.refs
                BY <3>1 DEF Ends, SameStart
            <4>2. r.refs = entry[current].refs
                BY <2>3, <3>1 DEF EntryRec
            <4>q. QED
                BY <4>1, <4>2
        <3>q. QED
            BY <1>a, <2>1, <3>1, <3>2
    <2>q. QED
        BY <2>2, <2>3
<1>14. CASE Recheck \/ CloseReturns
    BY <1>14, <1>a DEF Recheck, CloseReturns
<1>15. CASE Close
    <2>1. SameStart(entry[f], End(entry[f])) /\ SameStart(entry[f], CancelIdle(entry[f]))
        BY EndIs, CancelIdleIs
    <2>q. QED
        BY <1>15, <1>a, <2>1 DEF Close, SameStart
<1>16. CASE UNCHANGED vars
    BY <1>16, <1>a DEF vars
<1>q. QED
    BY <1>1, <1>2, <1>3, <1>4, <1>5, <1>6, <1>7, <1>8, <1>9, <1>10, <1>11, <1>12, <1>13,
        <1>14, <1>15, <1>16 DEF Next, CallerStep, DialStep, EndStep

\* Close sees every connection but one whose server went away unwatched; nothing starts after
\* it, and what it has waited for does not come back.
LEMMA CloseSawStep == Inv /\ [Next]_vars => CloseSaw'
<1> DEFINE Seen(f) == entry[f].conn => f \in awaited \/ server[f] = "stopped" \/ f \in died
           Through(f) == /\ f \in awaited => server[f] = "stopped"
                         /\ dial[f] \in {"none", "over"}
           Goal(f) == (closed' => Seen(f)') /\ (closer' = "done" => Through(f)')
<1> SUFFICES ASSUME Typed, Inv, [Next]_vars, NEW f \in Entries PROVE Goal(f)
    <2>1. Inv /\ [Next]_vars => TypeOK'
        BY TypeStep
    <2>q. QED
        BY <2>1, TypedIs DEF Inv, CloseSaw, TypeOK
<1>0. (closed => Seen(f)) /\ (closer = "done" => Through(f) /\ closed)
    BY DEF Inv, CloseSaw, Mapped, Typed
<1>a. StartShaped(f) /\ ConnShaped(f) /\ entry[f] \in EntryRec
    BY DEF Inv, Shaped, Typed
<1> USE DEF Typed, Becomes, poolVars, checkVars
<1>1. ASSUME NEW c \in Callers, Acquire(c) PROVE Goal(f)
    BY <1>0, <1>1 DEF Acquire
<1>2. ASSUME NEW c \in Callers, Refused(c) \/ Settled(c) \/ GiveUp(c) \/ ForgetGone(c)
      PROVE Goal(f)
    BY <1>0, <1>2 DEF Refused, Settled, GiveUp, ForgetGone
<1>3. ASSUME NEW c \in Callers, Release(c) PROVE Goal(f)
    <2> DEFINE e == caller[c].at
    <2>1. PICK s, r :
            /\ e \in Entries /\ r = [entry[e] EXCEPT !.refs = @ - 1]
            /\ Becomes(e, s) /\ (Stays(e, r, s) \/ Ends(e, r, s))
        BY <1>3, ReleaseDoes
    <2>2. s.conn = entry[e].conn
        BY <2>1 DEF Stays, Ends, SameStart, EntryRec
    <2>3. UNCHANGED <<closed, closer, awaited, server, dial, died>>
        BY <1>3 DEF Release
    <2> HIDE DEF e
    <2>4. entry'[f].conn = entry[f].conn
        BY <2>1, <2>2
    <2>q. QED
        BY <1>0, <2>3, <2>4
<1>4. ASSUME NEW e \in Entries, Late(e) \/ DropLate(e) \/ TimerFires(e) PROVE Goal(f)
    <2>1. CASE Late(e)
        BY <1>0, <2>1 DEF Late, EntryRec
    <2>2. CASE DropLate(e)
        BY <1>0, <2>2 DEF DropLate, EntryRec
    <2>3. CASE TimerFires(e)
        BY <1>0, <2>3 DEF TimerFires, EntryRec
    <2>q. QED
        BY <1>4, <2>1, <2>2, <2>3
<1>5. ASSUME NEW e \in Entries, DialFails(e) PROVE Goal(f)
    BY <1>0, <1>a, <1>5 DEF DialFails, EntryRec
<1>6. ASSUME NEW e \in Entries, DialAnswers(e) PROVE Goal(f)
    BY <1>0, <1>6 DEF DialAnswers
<1>7. ASSUME NEW e \in Entries, DialDiscarded(e) PROVE Goal(f)
    BY <1>0, <1>a, <1>7 DEF DialDiscarded, StartShaped
<1>8. ASSUME NEW e \in Entries, ReadWanted(e) \/ Dies(e) PROVE Goal(f)
    BY <1>0, <1>8 DEF ReadWanted, Dies
<1>9. ASSUME NEW e \in Entries, Expire(e) PROVE Goal(f)
    <2>1. PICK s :
            /\ Becomes(e, s) /\ UNCHANGED <<poolVars, server, dial, died>>
            /\ SameStart(entry[e], s) \/ Ends(e, entry[e], s)
        BY <1>9, ExpireDoes
    <2>q. QED
        BY <1>0, <2>1 DEF Ends, SameStart
<1>10. ASSUME NEW e \in Entries, StopUnwanted(e) \/ Watch(e) PROVE Goal(f)
    <2>1. SameStart(entry[e], End(entry[e]))
        BY EndIs
    <2>q. QED
        BY <1>0, <1>10, <2>1 DEF StopUnwanted, Watch, SameStart
<1>11. ASSUME NEW e \in Entries, CloseConn(e) PROVE Goal(f)
    <2>1. entry[e].owed => server[e] # "stopped"
        BY DEF Inv, Shaped, ConnShaped
    <2>2. entry'[f].conn = entry[f].conn
        BY <1>11 DEF CloseConn, EntryRec
    <2>q. QED
        BY <1>0, <1>11, <2>1, <2>2 DEF CloseConn
<1>12. ASSUME NEW e \in Entries, Stopped(e) PROVE Goal(f)
    <2>1. entry'[f].conn = entry[f].conn
        BY <1>12 DEF Stopped, EntryRec
    <2>q. QED
        BY <1>0, <1>12, <2>1 DEF Stopped
<1>13. CASE KeepOn \/ KeepOff
    BY <1>0, <1>13 DEF KeepOn, KeepOff
<1>14. CASE Recheck
    BY <1>0, <1>14 DEF Recheck
<1>15. CASE Close
    <2>1. /\ awaited' = {e \in Entries : entry'[e].stopping} /\ closer' = "wait"
          /\ UNCHANGED <<server, died>>
          /\ entry'[f] = IF f # current THEN entry[f]
                         ELSE IF entry[f].conn /\ ~entry[f].ended THEN End(entry[f])
                         ELSE CancelIdle(entry[f])
        BY <1>15 DEF Close
    <2>2. CASE f = current
        <3>1. ~entry[f].ended
            BY <2>2, NoEntryAssumption DEF Inv, Mapped
        <3>2. End(entry[f]).stopping /\ SameStart(entry[f], CancelIdle(entry[f]))
            BY <1>a, EndIs, CancelIdleIs
        <3>q. QED
            BY <2>1, <2>2, <3>1, <3>2 DEF SameStart
    <2>3. CASE f # current
        <3>1. server[f] = "live" => entry[f].ended
            BY <2>3 DEF Inv, OneConnection
        <3>2. entry[f].conn => entry[f].stopping \/ server[f] = "stopped" \/ f \in died
            BY <1>a, <3>1 DEF ConnShaped
        <3>q. QED
            BY <2>1, <2>3, <3>2
    <2>q. QED
        BY <2>2, <2>3
<1>16. CASE CloseReturns
    BY <1>0, <1>16 DEF CloseReturns, Inv, Mapped
<1>17. CASE UNCHANGED vars
    BY <1>0, <1>17 DEF vars
<1>q. QED
    BY <1>1, <1>2, <1>3, <1>4, <1>5, <1>6, <1>7, <1>8, <1>9, <1>10, <1>11, <1>12, <1>13,
        <1>14, <1>15, <1>16, <1>17 DEF Next, CallerStep, DialStep, EndStep

\* Nothing is started, held, kept or closed at first.
LEMMA InvInit == Init => Inv
<1> SUFFICES ASSUME Init PROVE Inv
    OBVIOUS
<1>1. NoStart \in EntryRec /\ NoCaller \in CallerRec
    BY NoStartIs, NoCallerIs
<1>2. Typed
    <2>1. left \in Budget
        BY BoundsAssumption DEF Init, Budget
    <2>2. entry \in [Entries -> EntryRec] /\ caller \in [Callers -> CallerRec]
        BY <1>1 DEF Init
    <2>q. QED
        BY <2>1, <2>2 DEF Init, Typed
<1>3. \A e \in Entries : Users(e) = {}
    BY NoEntryAssumption DEF Init, Users, NoCaller
<1>4. RefsCounted
    BY <1>3, FS_EmptySet DEF Init, RefsCounted, NoStart
<1>5. Shaped /\ Mapped
    BY DEF Init, Shaped, StartShaped, ConnShaped, Mapped, NoStart
<1>6. TimerIffUnneeded /\ CallersKnow
    BY DEF Init, TimerIffUnneeded, CallersKnow, Unneeded, NoStart, NoCaller
<1>7. KeptAgrees /\ OneConnection /\ UsedEnded /\ CloseSaw
    BY DEF Init, KeptAgrees, OneConnection, UsedEnded, CloseSaw, NoStart
<1>q. QED
    BY <1>2, <1>4, <1>5, <1>6, <1>7, TypedIs DEF Inv

\* Every step keeps the invariant.
LEMMA InvStep == Inv /\ [Next]_vars => Inv'
BY TypeStep, ShapedStep, MappedStep, TimerStep, CallersStep, RefsStep, KeptStep, OneStep, UsedStep,
    CloseSawStep DEF Inv

-----------------------------------------------------------------------------
(* The theorems *)

\* Every reachable state satisfies the invariant, for any sessions, starts and bounds.
THEOREM Invariance == Spec => []Inv
BY InvInit, InvStep, PTL DEF Spec

\* The count of an entry is that of its users, what a session holds or the pool keeps is not
\* ended under it, and no second server is started beside a usable one.
THEOREM ConnectionConsistent == Spec => []ConnectionIsConsistent
<1>1. ASSUME Inv PROVE HeldIsAlive
    <2> SUFFICES ASSUME NEW c \in Callers, caller[c].pc = "hold", ~closed, caller[c].at \notin died
                 PROVE  server[caller[c].at] = "live"
        BY DEF HeldIsAlive
    <2> DEFINE e == caller[c].at
    <2>1. e \in Entries /\ c \in Users(e)
        BY <1>1 DEF Inv, TypeOK, CallersKnow, Users
    <2>2. entry[e].refs > 0
        BY <1>1, <2>1, UsedCounts DEF Inv
    <2>3. entry[e].conn /\ ~entry[e].ended
        BY <1>1, <2>1, <2>2 DEF Inv, CallersKnow, UsedEnded
    <2>q. QED
        BY <1>1, <2>1, <2>3 DEF Inv, Shaped, ConnShaped
<1>2. Inv => KeptIsAlive
    BY DEF Inv, UsedEnded, KeptIsAlive
<1>3. Inv => ConnectionIsConsistent
    BY <1>1, <1>2 DEF Inv, ConnectionIsConsistent
<1>q. QED
    BY <1>3, Invariance, PTL

\* No server is left running that nobody will stop, in any order of starts, releases, Keep and
\* Close.
THEOREM NoneLeftStranded == Spec => []NoneStranded
<1>1. ASSUME Inv, NEW e \in Entries, server[e] \in {"live", "gone"}
      PROVE  IF entry[e].ended THEN entry[e].owed
             ELSE server[e] = "gone" \/ entry[e].refs > 0 \/ entry[e].kept \/ entry[e].idle
    <2>1. dial[e] = "over" /\ ~entry[e].err
        BY <1>1 DEF Inv, TypeOK, Shaped, StartShaped
    <2>2. entry[e].conn
        BY <1>1, <2>1 DEF Inv, Shaped, StartShaped
    <2>3. entry[e].refs \in Nat
        BY <1>1 DEF Inv, TypeOK
    <2>4. entry[e].ended => entry[e].owed
        BY <1>1, <2>2 DEF Inv, Shaped, ConnShaped
    <2>5. ~entry[e].ended /\ server[e] = "live" /\ entry[e].refs = 0 /\ ~entry[e].kept => entry[e].idle
        BY <1>1, <2>2 DEF Inv, TimerIffUnneeded, Unneeded
    <2>q. QED
        BY <1>1, <2>3, <2>4, <2>5
<1>2. Inv => NoneStranded
    BY <1>1 DEF NoneStranded
<1>q. QED
    BY <1>2, Invariance, PTL

\* When Close has returned nothing of the pool runs, a server that went away by itself and that
\* Close could not see aside.
THEOREM CloseLeft == Spec => []CloseLeavesNothing
<1>1. ASSUME Inv, closer = "done", NEW e \in Entries
      PROVE  server[e] \in {"none", "stopped"} \/ e \in died \ awaited
    <2>1. closed /\ dial[e] \in {"none", "over"} /\ (e \in awaited => server[e] = "stopped")
        BY <1>1 DEF Inv, Mapped, CloseSaw
    <2>2. CASE dial[e] = "none"
        BY <1>1, <2>2 DEF Inv, Shaped, StartShaped
    <2>3. CASE dial[e] = "over" /\ entry[e].err
        BY <1>1, <2>3 DEF Inv, Shaped, StartShaped
    <2>4. CASE dial[e] = "over" /\ ~entry[e].err
        <3>1. entry[e].conn
            BY <1>1, <2>4 DEF Inv, Shaped, StartShaped
        <3>q. QED
            BY <1>1, <2>1, <3>1 DEF Inv, CloseSaw
    <2>q. QED
        BY <2>1, <2>2, <2>3, <2>4
<1>2. Inv => CloseLeavesNothing
    BY <1>1 DEF CloseLeavesNothing
<1>q. QED
    BY <1>2, Invariance, PTL
================================================================================
