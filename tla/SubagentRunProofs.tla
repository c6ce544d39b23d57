--------------------------- MODULE SubagentRunProofs ---------------------------
(***************************************************************************)
(* Proofs about the runs of a subagent child (SubagentRun).  What a call   *)
(* knows of itself, who holds the live entry of the child and its turn     *)
(* lock, where its bundle comes from, and what a deletion has marked,      *)
(* stopped and waited for is inductive; the consistency of the child, the  *)
(* transcript within a process and the end of a deletion follow from it,   *)
(* for any number of calls, deletions and processes.                       *)
(***************************************************************************)
EXTENDS SubagentRun, FiniteSetTheorems, TLAPS

\* A call is in flight from the tool call to its end; a new one, which resumes nothing, is the
\* one that makes the child.
InFlight(r) == call[r].pc \notin {"idle", "refused", "over"}
New(r) == call[r].pc # "idle" /\ ~call[r].resume
InTurn == {"enter", "lock", "admit", "work", "wrote", "unlock"}

\* What the place of a call says of the rest of it, and of its task.
KnowsItself(r) ==
  /\ call[r].pc = "idle" <=> call[r].by = NoProc
  /\ call[r].pc = "idle" => ~call[r].resume /\ ~call[r].created
  /\ row[r] = "none" <=> call[r].pc \in {"idle", "asked", "refused"}
  /\ row[r] = "over" <=> call[r].pc = "over"
  /\ call[r].pc \in InTurn => call[r].created
  /\ call[r].created => call[r].pc \in InTurn \cup {"finish", "settle", "over"}
  /\ call[r].pc \in {"look", "read"} => call[r].resume
  /\ call[r].pc \in {"layout", "save"} => ~call[r].resume
CallsKnow == \A r \in Calls : KnowsItself(r)

\* The child is made once, and a process has one call of it in flight.
OneNew == \A r, s \in Calls : New(r) /\ New(s) => r = s
OneInFlight ==
  \A r, s \in Calls : InFlight(r) /\ InFlight(s) /\ call[r].by = call[s].by => r = s

\* The live entry of a process is a run that is between its publish and its end.
Holds(r) == Published(r) \/ At(r, "rollback") \/ (At(r, "finish") /\ call[r].created)
EntryIsInFlight == \A p \in Procs : live[p] \in Calls => call[live[p]].by = p /\ Holds(live[p])

LockHeld == \A r \in Calls : call[r].pc \in {"admit", "work", "wrote", "unlock"} => lock = r

\* Whatever there is of the child came from the new call: Founded once that is past its publish,
\* Made once its first save named the child.
Founded == \E r \in Calls : New(r) /\ call[r].pc \notin {"asked", "refused", "publish"}
Made == \E r \in Calls : ~call[r].resume /\ call[r].created
FromTheNew ==
  /\ (\E r \in Calls : call[r].resume) => Made
  /\ disk = "child" \/ file # {} \/ author # NoCall => Made
  /\ disk = "layout" =>
       \E r \in Calls : New(r) /\ call[r].pc \in {"recheck", "save", "rollback"}
  /\ author = NoCall => file = {}
  /\ author # NoCall => call[author].created

\* A run that has read the transcript has all of it, as long as no other process wrote since.
HasRead(r) == call[r].pc \in {"publish", "check", "recheck", "enter", "lock", "admit", "work"}
ReadIsFresh ==
  \A r \in Calls :
    HasRead(r) /\ author # NoCall /\ call[author].by = call[r].by =>
      file \subseteq call[r].mem \cup {r}

\* The stages of a deletion.
Marked == {"scan", "cancel", "await", "stop", "wait", "forget", "remove", "last", "end"}
Halted == {"stop", "wait", "forget", "remove", "last", "end"}
Cleared == {"forget", "remove", "last", "end"}

\* A deletion marks the nodes it found, and what it marks was there.
Marks(d) ==
  /\ del[d].pc \in Marked \cup {"mark"} => del[d].by \in Procs
  /\ del[d].pc \in Marked \cup {"mark"} =>
       IF del[d].tree THEN "parent" \in del[d].nodes ELSE del[d].nodes = {"child"}
  /\ del[d].pc \in Marked => del[d].nodes \subseteq del[d].up
  /\ del[d].pc \in Marked \cup {"mark"} /\ "child" \in del[d].nodes => Founded
  /\ del[d].pc = "last" => del[d].tree
  /\ del[d].pc \in {"forget", "remove"} => "child" \in del[d].nodes

\* Then it stops the run it found, or all runs of a parent that makes no call any more, and
\* goes on when they are over.
Halts(d) ==
  /\ del[d].tree /\ del[d].pc \in Halted => \A r \in Mine(del[d].by) : ~At(r, "asked")
  /\ del[d].tree /\ del[d].pc = "end" => ~parent[del[d].by]
  /\ ~del[d].tree /\ del[d].pc \in {"cancel", "await", "stop", "wait"} =>
       \A r \in Mine(del[d].by) : Published(r) => r \in del[d].stop
  /\ del[d].tree /\ del[d].pc = "wait" =>
       \A r \in Mine(del[d].by) : row[r] = "running" => r \in del[d].stop
  /\ del[d].tree /\ del[d].pc \in Cleared => \A r \in Mine(del[d].by) : ~InFlight(r)
  /\ ~del[d].tree /\ del[d].pc \in Cleared => \A r \in Mine(del[d].by) : ~Published(r)
DelsHalt == \A d \in Dels : Marks(d) /\ Halts(d)

\* Where a deletion of a process removed the bundle, that process has no run that could make it:
\* a later one would have to be new, or to find the child on the disk.
Making(r) ==
  \/ call[r].pc \in {"layout", "recheck", "save", "enter", "lock", "admit", "work"}
  \/ ~call[r].resume /\ call[r].pc \in {"asked", "publish", "check"}
GoneStays ==
  \A p \in gone :
    /\ disk = "absent" /\ (~parent[p] \/ Founded)
    /\ \A r \in Mine(p) : ~Making(r)

Inv ==
  /\ TypeOK /\ CallsKnow /\ OneNew /\ OneInFlight /\ LiveIsTheRun /\ EntryIsInFlight
  /\ LockHeld /\ FromTheNew /\ SlotsExact /\ ReadIsFresh /\ DelsHalt /\ GoneStays

-----------------------------------------------------------------------------
(* What the steps do to the calls *)

\* The types of the variables, with names for the records.
Places == {"idle", "asked", "refused", "look", "read", "publish", "check", "layout", "recheck",
           "save", "rollback", "enter", "lock", "admit", "work", "wrote", "unlock", "finish",
           "settle", "over"}
CallRec == [pc : Places, by : Procs \cup {NoProc}, resume : BOOLEAN, created : BOOLEAN,
            stopped : BOOLEAN, mem : SUBSET Calls]
Nodes == {"parent", "child"}
Stages == {"idle", "mark", "scan", "cancel", "await", "stop", "wait", "forget", "remove", "last",
           "end", "done", "failed"}
DelRec == [pc : Stages, by : Procs \cup {NoProc}, tree : BOOLEAN, nodes : SUBSET Nodes,
           up : SUBSET Nodes, stop : SUBSET Calls]
Typed ==
  /\ call \in [Calls -> CallRec] /\ row \in [Calls -> {"none", "running", "over"}]
  /\ live \in [Procs -> Calls \cup {Copy, Nothing}] /\ parent \in [Procs -> BOOLEAN]
  /\ slots \in [Procs -> 0..MaxRuns] /\ lock \in Calls \cup {NoCall}
  /\ disk \in {"absent", "layout", "child"} /\ file \subseteq Calls
  /\ author \in Calls \cup {NoCall} /\ gone \subseteq Procs
  /\ del \in [Dels -> DelRec]

\* They say what TypeOK says.
LEMMA TypedIs == TypeOK <=> Typed
BY DEF TypeOK, Typed, CallRec, Places, DelRec, Stages, Nodes

\* A call goes to a place, and the others stay where they are.
Others(r) == \A q \in Calls \ {r} : call'[q] = call[q]
Goes(r, s) ==
  /\ Others(r) /\ call' \in [Calls -> CallRec]
  /\ call'[r].pc = s /\ call'[r].by = call[r].by /\ call'[r].resume = call[r].resume
Keeps(r) == call'[r].created = call[r].created /\ call'[r].mem = call[r].mem

\* A call that only changes its place keeps the rest of what it knows.
LEMMA GotoIs ==
  ASSUME call \in [Calls -> CallRec], NEW r \in Calls, NEW s \in Places, Goto(r, s)
  PROVE  Goes(r, s) /\ Keeps(r)
BY DEF Goto, Goes, Keeps, Others, CallRec

\* Where the steps of a run take its call, and what it learns on the way.
LEMMA RunsGo ==
  ASSUME Typed, NEW r \in Calls
  PROVE  /\ Refuse(r) => At(r, "asked") /\ Goes(r, "refused") /\ Keeps(r)
         /\ Launch(r) => At(r, "asked") /\ Keeps(r)
                         /\ Goes(r, IF call[r].resume THEN "look" ELSE "publish")
         /\ Look(r) => At(r, "look") /\ Keeps(r) /\ (Goes(r, "finish") \/ Goes(r, "read"))
         /\ Publish(r) => At(r, "publish") /\ Keeps(r) /\ (Goes(r, "finish") \/ Goes(r, "check"))
         /\ Check(r) =>
              /\ At(r, "check") /\ Keeps(r)
              /\ \/ Goes(r, "rollback")
                 \/ Goes(r, "layout") /\ ~call[r].resume
                 \/ Goes(r, "recheck") /\ call[r].resume /\ disk = "child"
         /\ Layout(r) => At(r, "layout") /\ Goes(r, "recheck") /\ Keeps(r)
         /\ Rollback(r) => At(r, "rollback") /\ Goes(r, "finish") /\ Keeps(r)
         /\ Enter(r) => At(r, "enter") /\ Keeps(r) /\ (Goes(r, "lock") \/ Goes(r, "finish"))
         /\ Lock(r) => At(r, "lock") /\ Keeps(r) /\ (Goes(r, "admit") \/ Goes(r, "finish"))
         /\ Admit(r) => At(r, "admit") /\ Keeps(r) /\ (Goes(r, "work") \/ Goes(r, "unlock"))
         /\ Write(r) => At(r, "work") /\ Goes(r, "wrote") /\ Keeps(r)
         /\ TurnOver(r) => call[r].pc \in {"work", "wrote"} /\ Goes(r, "unlock") /\ Keeps(r)
         /\ Unlock(r) => At(r, "unlock") /\ Goes(r, "finish") /\ Keeps(r)
         /\ Finish(r) => At(r, "finish") /\ Goes(r, "settle") /\ Keeps(r)
         /\ Settle(r) => At(r, "settle") /\ Goes(r, "over") /\ Keeps(r)
<1> DEFINE G(s) == Goto(r, s) => Goes(r, s) /\ Keeps(r)
<1>1. \A s \in Places : G(s)
    BY GotoIs DEF Typed
<1>2. /\ G("refused") /\ G("look") /\ G("publish") /\ G("finish") /\ G("read") /\ G("check")
      /\ G("rollback") /\ G("layout") /\ G("recheck") /\ G("lock") /\ G("admit") /\ G("work")
      /\ G("unlock") /\ G("wrote") /\ G("settle") /\ G("over")
    BY <1>1 DEF Places
<1>3. /\ Refuse(r) => At(r, "asked") /\ Goes(r, "refused") /\ Keeps(r)
      /\ Launch(r) => At(r, "asked") /\ Keeps(r)
                      /\ Goes(r, IF call[r].resume THEN "look" ELSE "publish")
      /\ Look(r) => At(r, "look") /\ Keeps(r) /\ (Goes(r, "finish") \/ Goes(r, "read"))
    BY <1>2 DEF Refuse, Launch, Look
<1>4. Publish(r) => At(r, "publish") /\ Keeps(r) /\ (Goes(r, "finish") \/ Goes(r, "check"))
    BY <1>2 DEF Publish
<1>5. Check(r) =>
        /\ At(r, "check") /\ Keeps(r)
        /\ \/ Goes(r, "rollback")
           \/ Goes(r, "layout") /\ ~call[r].resume
           \/ Goes(r, "recheck") /\ call[r].resume /\ disk = "child"
    <2> DEFINE s == IF Unwanted(r) THEN "rollback"
                    ELSE IF ~call[r].resume THEN "layout"
                    ELSE IF disk = "child" THEN "recheck" ELSE "rollback"
    <2>1. Check(r) => At(r, "check") /\ Goto(r, s)
        BY DEF Check
    <2>2. \/ s = "rollback"
          \/ s = "layout" /\ ~call[r].resume
          \/ s = "recheck" /\ call[r].resume /\ disk = "child"
        OBVIOUS
    <2> HIDE DEF s
    <2>q. QED
        BY <1>2, <2>1, <2>2
<1>6. /\ Layout(r) => At(r, "layout") /\ Goes(r, "recheck") /\ Keeps(r)
      /\ Rollback(r) => At(r, "rollback") /\ Goes(r, "finish") /\ Keeps(r)
      /\ Enter(r) => At(r, "enter") /\ Keeps(r) /\ (Goes(r, "lock") \/ Goes(r, "finish"))
      /\ Lock(r) => At(r, "lock") /\ Keeps(r) /\ (Goes(r, "admit") \/ Goes(r, "finish"))
      /\ Admit(r) => At(r, "admit") /\ Keeps(r) /\ (Goes(r, "work") \/ Goes(r, "unlock"))
    BY <1>2 DEF Layout, Rollback, Enter, Lock, Admit
<1>7. /\ Write(r) => At(r, "work") /\ Goes(r, "wrote") /\ Keeps(r)
      /\ TurnOver(r) => call[r].pc \in {"work", "wrote"} /\ Goes(r, "unlock") /\ Keeps(r)
      /\ Unlock(r) => At(r, "unlock") /\ Goes(r, "finish") /\ Keeps(r)
      /\ Finish(r) => At(r, "finish") /\ Goes(r, "settle") /\ Keeps(r)
      /\ Settle(r) => At(r, "settle") /\ Goes(r, "over") /\ Keeps(r)
    BY <1>2 DEF Write, TurnOver, Unlock, Finish, Settle
<1>q. QED
    BY <1>3, <1>4, <1>5, <1>6, <1>7

\* The steps in which a call learns the transcript, or that it has its session.
Learns(r, file1) ==
  call'[r].created = call[r].created /\ call'[r].mem = file1
Created(r) == call'[r].created /\ call'[r].mem = call[r].mem

\* They end in one of these ways.
LEMMA RunsLearn ==
  ASSUME Typed, NEW r \in Calls
  PROVE  /\ Read(r) =>
              /\ At(r, "read")
              /\ \/ disk = "child" /\ Goes(r, "publish") /\ Learns(r, file)
                 \/ Goes(r, "finish") /\ Keeps(r)
         /\ Recheck(r) =>
              /\ At(r, "recheck")
              /\ \/ Goes(r, "rollback") /\ Keeps(r)
                 \/ call[r].resume /\ Goes(r, "enter") /\ Created(r)
                 \/ ~call[r].resume /\ Goes(r, "save") /\ Keeps(r)
         /\ Save(r) =>
              /\ At(r, "save")
              /\ \/ /\ Goes(r, "enter") /\ Created(r)
                    /\ disk' = "child" /\ author' = r /\ gone' = {}
                 \/ Goes(r, "rollback") /\ Keeps(r) /\ UNCHANGED <<disk, author, gone>>
<1> DEFINE c == call[r]
<1>0. c \in CallRec
    BY DEF Typed
<1>a. ASSUME NEW k \in CallRec, call' = [call EXCEPT ![r] = k], k.by = c.by, k.resume = c.resume
      PROVE  Goes(r, k.pc) /\ call'[r] = k
    BY <1>a DEF Typed, Goes, Others
<1>b. ASSUME NEW s \in Places, NEW m \in SUBSET Calls, NEW b \in BOOLEAN
      PROVE  [c EXCEPT !.pc = s, !.mem = m] \in CallRec /\ [c EXCEPT !.pc = s, !.created = b] \in CallRec
    BY <1>0 DEF CallRec
<1>1. Read(r) => /\ At(r, "read")
                 /\ \/ disk = "child" /\ Goes(r, "publish") /\ Learns(r, file)
                    \/ Goes(r, "finish") /\ Keeps(r)
    <2> SUFFICES ASSUME Read(r)
                 PROVE  \/ disk = "child" /\ Goes(r, "publish") /\ Learns(r, file)
                        \/ Goes(r, "finish") /\ Keeps(r)
        BY DEF Read
    <2> DEFINE k == [c EXCEPT !.pc = "publish", !.mem = file]
               n == [c EXCEPT !.pc = "finish"]
    <2>1. CASE disk = "child"
        <3>1. call' = [call EXCEPT ![r] = k] /\ k \in CallRec
            BY <1>b, <2>1 DEF Read, Typed, Places
        <3>2. k.pc = "publish" /\ k.by = c.by /\ k.resume = c.resume /\ k.created = c.created
              /\ k.mem = file
            BY <1>0 DEF CallRec
        <3> HIDE DEF k, c
        <3>q. QED
            BY <1>a, <2>1, <3>1, <3>2 DEF Learns, c
    <2>2. CASE disk # "child"
        <3>1. Goto(r, "finish")
            BY <2>2 DEF Read, Goto, Typed
        <3>q. QED
            BY <3>1, GotoIs DEF Typed, Places
    <2>q. QED
        BY <2>1, <2>2
<1>2. Recheck(r) => /\ At(r, "recheck")
                    /\ \/ Goes(r, "rollback") /\ Keeps(r)
                       \/ call[r].resume /\ Goes(r, "enter") /\ Created(r)
                       \/ ~call[r].resume /\ Goes(r, "save") /\ Keeps(r)
    <2> SUFFICES ASSUME Recheck(r)
                 PROVE  \/ Goes(r, "rollback") /\ Keeps(r)
                        \/ call[r].resume /\ Goes(r, "enter") /\ Created(r)
                        \/ ~call[r].resume /\ Goes(r, "save") /\ Keeps(r)
        BY DEF Recheck
    <2> DEFINE k == [c EXCEPT !.pc = "enter", !.created = TRUE]
    <2>1. CASE call[r].stopped \/ Unwanted(r)
        <3>1. Goto(r, "rollback")
            BY <2>1 DEF Recheck, Goto, Typed
        <3>q. QED
            BY <3>1, GotoIs DEF Typed, Places
    <2>2. CASE ~(call[r].stopped \/ Unwanted(r)) /\ call[r].resume
        <3>1. call' = [call EXCEPT ![r] = k] /\ k \in CallRec
            BY <1>b, <2>2 DEF Recheck, Typed, Places
        <3>2. k.pc = "enter" /\ k.by = c.by /\ k.resume = c.resume /\ k.created /\ k.mem = c.mem
            BY <1>0 DEF CallRec
        <3> HIDE DEF k, c
        <3>q. QED
            BY <1>a, <2>2, <3>1, <3>2 DEF Created, c
    <2>3. CASE ~(call[r].stopped \/ Unwanted(r)) /\ ~call[r].resume
        <3>1. Goto(r, "save")
            BY <2>3 DEF Recheck, Goto, Typed
        <3>q. QED
            BY <2>3, <3>1, GotoIs DEF Typed, Places
    <2>q. QED
        BY <2>1, <2>2, <2>3
<1>3. Save(r) => /\ At(r, "save")
                 /\ \/ /\ Goes(r, "enter") /\ Created(r)
                       /\ disk' = "child" /\ author' = r /\ gone' = {}
                    \/ Goes(r, "rollback") /\ Keeps(r) /\ UNCHANGED <<disk, author, gone>>
    <2> DEFINE k == [c EXCEPT !.pc = "enter", !.created = TRUE]
    <2>1. k \in CallRec
        BY <1>b DEF Places
    <2>2. k.pc = "enter" /\ k.by = c.by /\ k.resume = c.resume /\ k.created /\ k.mem = c.mem
        BY <1>0 DEF CallRec
    <2>3. call' = [call EXCEPT ![r].pc = "enter", ![r].created = TRUE] =>
            call' = [call EXCEPT ![r] = k]
        BY DEF Typed
    <2> HIDE DEF k, c
    <2>4. call' = [call EXCEPT ![r].pc = "enter", ![r].created = TRUE] => Goes(r, "enter") /\ Created(r)
        BY <1>a, <2>1, <2>2, <2>3 DEF Created, c
    <2>5. Goto(r, "rollback") => Goes(r, "rollback") /\ Keeps(r)
        BY GotoIs DEF Typed, Places
    <2>q. QED
        BY <2>4, <2>5 DEF Save
<1>q. QED
    BY <1>1, <1>2, <1>3

\* A call is made: it leaves the idle calls.
Called(r, p) ==
  /\ MayCall(r, p) /\ Others(r) /\ call' \in [Calls -> CallRec]
  /\ call'[r].pc = "asked" /\ call'[r].by = p /\ ~call'[r].created
  /\ UNCHANGED <<row, live, parent, slots, lock, bundleVars, delVars>>

\* Those of spawn_agent are made as new ones or as resumed ones.
LEMMA CallIs ==
  ASSUME Typed, NEW r \in Calls, NEW p \in Procs
  PROVE  /\ Spawn(r, p) =>
              /\ Called(r, p) /\ ~call'[r].resume
              /\ \A s \in Calls : call[s].by = NoProc \/ call[s].resume
         /\ Resume(r, p) =>
              /\ Called(r, p) /\ call'[r].resume /\ disk = "child"
              /\ \A s \in Mine(p) : row[s] # "running"
<1>1. ASSUME NEW k \in CallRec, k.pc = "asked", k.by = p, ~k.created, call' = [call EXCEPT ![r] = k]
      PROVE  /\ Others(r) /\ call' \in [Calls -> CallRec] /\ call'[r].resume = k.resume
             /\ call'[r].pc = "asked" /\ call'[r].by = p /\ ~call'[r].created
    BY <1>1 DEF Typed, Others
<1>2. Spawn(r, p) => Called(r, p) /\ ~call'[r].resume
    <2> DEFINE k == [NewCall EXCEPT !.pc = "asked", !.by = p]
    <2>1. k \in CallRec /\ k.pc = "asked" /\ k.by = p /\ ~k.created /\ ~k.resume
        BY DEF NewCall, CallRec, Places
    <2>2. Spawn(r, p) => call' = [call EXCEPT ![r] = k]
        BY DEF Spawn
    <2> HIDE DEF k
    <2>q. QED
        BY <1>1, <2>1, <2>2 DEF Spawn, Called
<1>3. Resume(r, p) => Called(r, p) /\ call'[r].resume
    <2> DEFINE k == [NewCall EXCEPT !.pc = "asked", !.by = p, !.resume = TRUE]
    <2>1. k \in CallRec /\ k.pc = "asked" /\ k.by = p /\ ~k.created /\ k.resume
        BY DEF NewCall, CallRec, Places
    <2>2. Resume(r, p) => call' = [call EXCEPT ![r] = k]
        BY DEF Resume
    <2> HIDE DEF k
    <2>q. QED
        BY <1>1, <2>1, <2>2 DEF Resume, Called
<1>q. QED
    BY <1>2, <1>3 DEF Spawn, Resume

\* The steps of surfaces and deletions, and a stop, leave every call where it is.
Still(r) ==
  /\ call'[r].pc = call[r].pc /\ call'[r].by = call[r].by /\ call'[r].resume = call[r].resume
  /\ call'[r].created = call[r].created /\ call'[r].mem = call[r].mem
Quiet ==
  /\ call' \in [Calls -> CallRec] /\ \A r \in Calls : Still(r)
  /\ row' = row /\ slots' = slots /\ lock' = lock

\* A stop changes nothing else of the calls it reaches.
LEMMA StoppedIs ==
  ASSUME Typed, NEW T, UNCHANGED <<row, slots, lock>>,
         call' = [r \in Calls |-> IF r \in T THEN [call[r] EXCEPT !.stopped = TRUE] ELSE call[r]]
  PROVE  Quiet
<1>1. \A c \in CallRec : [c EXCEPT !.stopped = TRUE] \in CallRec
    BY DEF CallRec
<1>2. \A r \in Calls : call[r] \in CallRec
    BY DEF Typed
<1>3. call' \in [Calls -> CallRec]
    BY <1>1, <1>2
<1>4. ASSUME NEW r \in Calls PROVE Still(r)
    BY <1>2 DEF Still, CallRec
<1>q. QED
    BY <1>3, <1>4 DEF Quiet

\* Those steps are quiet.
LEMMA QuietIs ==
  ASSUME Typed
  PROVE  /\ \A r \in Calls : Stop(r) => Quiet
         /\ \A p \in Procs : Show(p) => Quiet
         /\ \A d \in Dels, p \in Procs, tree \in BOOLEAN : Delete(d, p, tree) => Quiet
         /\ \A d \in Dels : DelStep(d) \/ GiveUp(d) => Quiet
         /\ UNCHANGED vars => Quiet
<1>1. UNCHANGED <<call, row, slots, lock>> => Quiet
    BY DEF Typed, Quiet, Still
<1>2. ASSUME NEW r \in Calls, call' = [call EXCEPT ![r].stopped = TRUE], UNCHANGED <<row, slots, lock>>
      PROVE  Quiet
    <2>1. call' = [q \in Calls |-> IF q \in {r} THEN [call[q] EXCEPT !.stopped = TRUE] ELSE call[q]]
        BY <1>2 DEF Typed
    <2>q. QED
        BY <1>2, <2>1, StoppedIs
<1>3. ASSUME NEW r \in Calls, Stop(r) PROVE Quiet
    BY <1>2, <1>3 DEF Stop
<1>4. ASSUME NEW d \in Dels, Cancel(d) PROVE Quiet
    BY <1>1, <1>2, <1>4 DEF Cancel
<1>5. ASSUME NEW d \in Dels, StopTasks(d) PROVE Quiet
    <2> DEFINE T == {r \in Mine(del[d].by) : row[r] = "running" /\ (r \in del[d].stop \/ del[d].tree)}
    <2>1. /\ call' = [r \in Calls |-> IF r \in T THEN [call[r] EXCEPT !.stopped = TRUE] ELSE call[r]]
          /\ UNCHANGED <<row, slots, lock>>
        BY <1>5 DEF StopTasks
    <2> HIDE DEF T
    <2>q. QED
        BY <2>1, StoppedIs
<1>6. ASSUME NEW d \in Dels, DelStep(d) \/ GiveUp(d) PROVE Quiet
    BY <1>1, <1>4, <1>5, <1>6 DEF DelStep, GiveUp, Mark, Scan, Await, TasksOver, Forget, Remove,
       RemoveParent, End, runVars
<1>7. ASSUME NEW d \in Dels, NEW p \in Procs, NEW tree \in BOOLEAN, Delete(d, p, tree) PROVE Quiet
    BY <1>1, <1>7 DEF Delete, runVars
<1>8. UNCHANGED vars => Quiet
    BY <1>1 DEF vars
<1>9. ASSUME NEW p \in Procs, Show(p) PROVE Quiet
    BY <1>1, <1>9 DEF Show
<1>q. QED
    BY <1>3, <1>6, <1>7, <1>8, <1>9

\* In any other step a call goes on: it does not become another one, comes to nothing it had
\* left, and makes the child only if it was about to, or found it on the disk.
On(r) ==
  /\ call'[r].by = call[r].by /\ call'[r].resume = call[r].resume
  /\ call[r].created => call'[r].created
  /\ call'[r].pc = "idle" <=> call[r].pc = "idle"
  /\ call'[r].pc = "asked" => call[r].pc = "asked"
  /\ InFlight(r)' => InFlight(r)
  /\ New(r) /\ call[r].pc \notin {"asked", "refused", "publish"} =>
       call'[r].pc \notin {"asked", "refused", "publish"}
  /\ Making(r)' => Making(r) \/ (call[r].resume /\ disk = "child")
RunMoves(r) == Refuse(r) \/ Launch(r) \/ RunStep(r) \/ Write(r) \/ TurnOver(r)

\* A call that stays where it is goes on.
LEMMA StillOn ==
  ASSUME NEW r \in Calls, Still(r) \/ call'[r] = call[r]
  PROVE  On(r)
BY DEF Still, On, InFlight, New, Making

\* So does the call of a step of a run.
LEMMA RunGoesOn ==
  ASSUME Typed, NEW r \in Calls, KnowsItself(r), RunMoves(r)
  PROVE  Others(r) /\ call' \in [Calls -> CallRec] /\ On(r)
<1> USE DEF Goes, Keeps, Learns, Created, At
<1>1. CASE Refuse(r) \/ Launch(r) \/ Look(r) \/ Publish(r)
    BY <1>1, RunsGo DEF On, InFlight, New, Making
<1>2. CASE Read(r)
    BY <1>2, RunsLearn DEF On, InFlight, New, Making, KnowsItself
<1>3. CASE Check(r)
    BY <1>3, RunsGo DEF On, InFlight, New, Making
<1>4. CASE Layout(r) \/ Rollback(r) \/ Enter(r) \/ Lock(r) \/ Admit(r)
    BY <1>4, RunsGo DEF On, InFlight, New, Making
<1>5. CASE Write(r) \/ TurnOver(r) \/ Unlock(r) \/ Finish(r) \/ Settle(r)
    BY <1>5, RunsGo DEF On, InFlight, New, Making
<1>6. CASE Recheck(r) \/ Save(r)
    BY <1>6, RunsLearn DEF On, InFlight, New, Making
<1>q. QED
    BY <1>1, <1>2, <1>3, <1>4, <1>5, <1>6 DEF RunMoves, RunStep

\* Whatever step is made, a call goes on or is made.
LEMMA Forth ==
  ASSUME Typed, CallsKnow, [Next]_vars, NEW q \in Calls
  PROVE  On(q) \/ \E p \in Procs : Called(q, p)
<1>1. CASE Quiet
    BY <1>1, StillOn DEF Quiet
<1>2. ASSUME NEW r \in Calls, NEW p \in Procs, Spawn(r, p) \/ Resume(r, p)
      PROVE  On(q) \/ Called(q, p)
    <2>1. Called(r, p)
        BY <1>2, CallIs
    <2>q. QED
        BY <2>1, StillOn DEF Called, Others
<1>3. ASSUME NEW r \in Calls, RunMoves(r) PROVE On(q)
    <2>1. Others(r) /\ On(r)
        BY <1>3, RunGoesOn DEF CallsKnow
    <2>q. QED
        BY <2>1, StillOn DEF Others
<1>q. QED
    BY <1>1, <1>2, <1>3, QuietIs DEF Next, RunMoves
-----------------------------------------------------------------------------
(* What the calls know, and that the child is made once *)

\* Once there is the child, there is the new call that made it, and it goes on from there.
LEMMA MadeIsFounded == CallsKnow /\ Made => Founded
BY DEF CallsKnow, KnowsItself, Made, Founded, New, InTurn

\* The new call that is past its publish stays past it.
LEMMA FoundedStays ==
  ASSUME Typed, CallsKnow, [Next]_vars, Founded
  PROVE  Founded'
<1>1. PICK r \in Calls : New(r) /\ call[r].pc \notin {"asked", "refused", "publish"}
    BY DEF Founded
<1>2. ~ \E p \in Procs : Called(r, p)
    BY <1>1 DEF New, Called, MayCall, At
<1>3. On(r)
    BY <1>2, Forth
<1>q. QED
    BY <1>1, <1>3 DEF On, New, Founded

\* The new call that named the child stays the one that did.
LEMMA MadeStays ==
  ASSUME Typed, CallsKnow, [Next]_vars, Made
  PROVE  Made'
<1>1. PICK r \in Calls : ~call[r].resume /\ call[r].created
    BY DEF Made
<1>2. ~ \E p \in Procs : Called(r, p)
    BY <1>1 DEF CallsKnow, KnowsItself, Called, MayCall, At
<1>3. On(r)
    BY <1>2, Forth
<1>q. QED
    BY <1>1, <1>3 DEF On, Made

\* The new call is the only one that makes the child.
LEMMA NewIsMade ==
  ASSUME CallsKnow, OneNew, Made, NEW r \in Calls, New(r)
  PROVE  call[r].created
<1>1. PICK s \in Calls : ~call[s].resume /\ call[s].created
    BY DEF Made
<1>2. New(s)
    BY <1>1 DEF New, CallsKnow, KnowsItself
<1>q. QED
    BY <1>1, <1>2 DEF OneNew

\* spawn_agent makes a child only when there is none, nor a call of it.
LEMMA SpawnIsFirst ==
  ASSUME Typed, CallsKnow, FromTheNew, NEW r \in Calls, NEW p \in Procs, Spawn(r, p)
  PROVE  \A s \in Calls : call[s].pc = "idle"
<1>1. \A s \in Calls : call[s].pc = "idle" \/ call[s].resume
    BY CallIs DEF CallsKnow, KnowsItself
<1>2. ~Made
    BY <1>1 DEF Made, CallsKnow, KnowsItself
<1>q. QED
    BY <1>1, <1>2 DEF FromTheNew

\* A call keeps to what its place says, whoever moves.
LEMMA CallsStep ==
  ASSUME Typed, CallsKnow, [Next]_vars
  PROVE  CallsKnow'
<1> SUFFICES ASSUME NEW q \in Calls PROVE KnowsItself(q)'
    BY DEF CallsKnow
<1>0. KnowsItself(q) /\ call[q] \in CallRec
    BY DEF CallsKnow, Typed
<1>1. CASE Quiet
    BY <1>0, <1>1 DEF Quiet, Still, KnowsItself
<1>2. ASSUME NEW r \in Calls, NEW p \in Procs, Spawn(r, p) \/ Resume(r, p)
      PROVE  KnowsItself(q)'
    <2>1. Called(r, p)
        BY <1>2, CallIs
    <2>2. CASE q = r
        BY <1>0, <2>1, <2>2, CallsAssumption DEF Called, MayCall, At, KnowsItself, InTurn
    <2>3. CASE q # r
        BY <1>0, <2>1, <2>3 DEF Called, Others, KnowsItself
    <2>q. QED
        BY <2>2, <2>3
<1>3. ASSUME NEW r \in Calls, RunMoves(r), q # r PROVE KnowsItself(q)'
    <2>1. Others(r)
        BY <1>3, RunGoesOn DEF CallsKnow
    <2>2. row'[q] = row[q]
        BY <1>3 DEF RunMoves, RunStep, Refuse, Launch, Look, Read, Publish, Check, Layout, Recheck,
           Save, Rollback, Enter, Lock, Admit, Write, TurnOver, Unlock, Finish, Settle, Typed
    <2>q. QED
        BY <1>0, <1>3, <2>1, <2>2 DEF Others, KnowsItself
<1>4. ASSUME RunMoves(q) PROVE KnowsItself(q)'
    <2> USE DEF Goes, Keeps, Learns, Created, At, KnowsItself, InTurn
    <2>1. CASE Refuse(q) \/ Look(q) \/ Publish(q)
        BY <1>0, <2>1, RunsGo DEF Refuse, Look, Publish
    <2>2. CASE Launch(q) \/ Settle(q)
        BY <1>0, <2>2, RunsGo DEF Launch, Settle, Typed
    <2>3. CASE Read(q) \/ Recheck(q) \/ Save(q)
        BY <1>0, <2>3, RunsLearn DEF Read, Recheck, Save
    <2>4. CASE Check(q) \/ Layout(q) \/ Rollback(q)
        BY <1>0, <2>4, RunsGo DEF Check, Layout, Rollback
    <2>5. CASE Enter(q) \/ Lock(q) \/ Admit(q)
        BY <1>0, <2>5, RunsGo DEF Enter, Lock, Admit
    <2>6. CASE Write(q) \/ TurnOver(q) \/ Unlock(q) \/ Finish(q)
        BY <1>0, <2>6, RunsGo DEF Write, TurnOver, Unlock, Finish
    <2>q. QED
        BY <1>4, <2>1, <2>2, <2>3, <2>4, <2>5, <2>6 DEF RunMoves, RunStep
<1>q. QED
    BY <1>1, <1>2, <1>3, <1>4, QuietIs DEF Next, RunMoves

\* No second call makes the child.
LEMMA OneNewStep ==
  ASSUME Typed, CallsKnow, OneNew, FromTheNew, [Next]_vars
  PROVE  OneNew'
<1> SUFFICES ASSUME NEW r \in Calls, NEW s \in Calls, New(r)', New(s)', r # s
             PROVE  FALSE
    BY DEF OneNew
<1>1. ASSUME NEW q \in Calls, New(q)' PROVE New(q) \/ \A t \in Calls \ {q} : ~New(t)'
    <2>1. CASE On(q)
        BY <1>1, <2>1 DEF On, New
    <2>2. CASE \E p \in Procs : Called(q, p)
        <3>1. PICK p \in Procs : Called(q, p)
            BY <2>2
        <3>2. PICK t \in Calls, p1 \in Procs : Spawn(t, p1) \/ Resume(t, p1)
            <4>1. ~Quiet
                BY <3>1 DEF Called, MayCall, At, Quiet, Still
            <4>2. ASSUME NEW t \in Calls, RunMoves(t) PROVE FALSE
                <5>1. Others(t) /\ On(t)
                    BY <4>2, RunGoesOn DEF CallsKnow
                <5>q. QED
                    BY <5>1, <3>1 DEF On, Others, Called, MayCall, At
            <4>q. QED
                BY <4>1, <4>2, QuietIs DEF Next, RunMoves
        <3>3. t = q
            BY <3>1, <3>2, CallIs DEF Called, MayCall, At, Others
        <3>4. Spawn(t, p1)
            BY <1>1, <3>2, <3>3, CallIs DEF New
        <3>5. \A u \in Calls : call[u].pc = "idle"
            BY <3>4, SpawnIsFirst
        <3>q. QED
            BY <3>1, <3>5 DEF Called, Others, New
    <2>q. QED
        BY <2>1, <2>2, Forth
<1>q. QED
    BY <1>1 DEF OneNew

\* A process does not take up a child that one of its calls has in flight.
LEMMA OneInFlightStep ==
  ASSUME Typed, CallsKnow, OneInFlight, FromTheNew, [Next]_vars
  PROVE  OneInFlight'
<1>1. CASE \A q \in Calls : On(q)
    BY <1>1 DEF On, OneInFlight
<1>2. ASSUME NEW r \in Calls, NEW p \in Procs, Spawn(r, p) \/ Resume(r, p)
      PROVE  OneInFlight'
    <2>1. Called(r, p)
        BY <1>2, CallIs
    <2>2. \A s \in Calls : InFlight(s) => call[s].by # p
        <3>1. CASE Spawn(r, p)
            BY <3>1, SpawnIsFirst DEF InFlight
        <3>2. CASE Resume(r, p)
            <4>1. \A s \in Calls : call[s].by = p => row[s] # "running"
                BY <3>2, CallIs DEF Mine
            <4>2. \A s \in Calls : ~At(s, "asked")
                BY <2>1 DEF Called, MayCall
            <4>3. \A s \in Calls : row[s] \in {"none", "running", "over"}
                BY DEF Typed
            <4>q. QED
                BY <4>1, <4>2, <4>3 DEF CallsKnow, KnowsItself, InFlight, At
        <3>q. QED
            BY <1>2, <3>1, <3>2
    <2>q. QED
        BY <2>1, <2>2 DEF Called, Others, OneInFlight, InFlight
<1>3. ASSUME NEW r \in Calls, RunMoves(r) PROVE \A q \in Calls : On(q)
    <2>1. Others(r) /\ On(r)
        BY <1>3, RunGoesOn DEF CallsKnow
    <2>q. QED
        BY <2>1, StillOn DEF Others
<1>4. Quiet => \A q \in Calls : On(q)
    BY StillOn DEF Quiet
<1>q. QED
    BY <1>1, <1>2, <1>3, <1>4, QuietIs DEF Next, RunMoves
-----------------------------------------------------------------------------
(* The live entry and the turn lock *)

\* A step that leaves the live entries alone, publishes no run and ends none that holds one.
LEMMA EntryStays ==
  ASSUME LiveIsTheRun, EntryIsInFlight, UNCHANGED live,
         \A q \in Calls : /\ call'[q].by = call[q].by
                          /\ Published(q)' => Published(q)
                          /\ Holds(q) => Holds(q)'
  PROVE  LiveIsTheRun' /\ EntryIsInFlight'
BY DEF LiveIsTheRun, EntryIsInFlight

\* The entry of a run is taken by its end or by a deletion that has waited for it.
LEMMA LiveStep ==
  ASSUME Typed, CallsKnow, OneInFlight, LiveIsTheRun, EntryIsInFlight, DelsHalt, [Next]_vars
  PROVE  LiveIsTheRun' /\ EntryIsInFlight'
<1> DEFINE Stay == \A q \in Calls : /\ call'[q].by = call[q].by
                                    /\ Published(q)' => Published(q)
                                    /\ Holds(q) => Holds(q)'
           Goal == LiveIsTheRun' /\ EntryIsInFlight'
<1>0. /\ \A q \in Calls : call[q] \in CallRec /\ KnowsItself(q)
      /\ \A q \in Calls : Published(q) => live[call[q].by] = q
      /\ \A p \in Procs : live[p] \in Calls => call[live[p]].by = p /\ Holds(live[p])
      /\ \A p \in Procs : live[p] \in Calls \cup {Copy, Nothing}
      /\ \A q \in Calls : call[q].pc # "idle" => call[q].by \in Procs
      /\ live \in [Procs -> Calls \cup {Copy, Nothing}]
    BY DEF Typed, CallsKnow, KnowsItself, LiveIsTheRun, EntryIsInFlight, CallRec
<1>a. ASSUME NEW r \in Calls, Others(r), call'[r].by = call[r].by,
             Published(r)' => Published(r), Holds(r) => Holds(r)'
      PROVE  Stay
    BY <1>a DEF Others, Published, Holds, At
<1>b. Quiet => Stay
    BY DEF Quiet, Still, Published, Holds, At
<1>c. Stay /\ UNCHANGED live => Goal
    BY EntryStays
<1>1. ASSUME NEW r \in Calls, NEW p \in Procs, Spawn(r, p) \/ Resume(r, p) PROVE Goal
    <2>1. Called(r, p)
        BY <1>1, CallIs
    <2>2. ~Holds(r) /\ ~Published(r)'
        BY <2>1 DEF Called, MayCall, At, Holds, Published
    <2>3. \A q \in Calls \ {r} : /\ call'[q].by = call[q].by
                                 /\ Published(q)' <=> Published(q)
                                 /\ Holds(q)' <=> Holds(q)
        BY <2>1 DEF Called, Others, Published, Holds, At
    <2>4. live' = live
        BY <2>1 DEF Called
    <2>q. QED
        BY <1>0, <2>2, <2>3, <2>4 DEF LiveIsTheRun, EntryIsInFlight
<1>2. ASSUME NEW r \in Calls, Refuse(r) \/ Launch(r) \/ Look(r) \/ Read(r) \/ Settle(r) PROVE Goal
    <2>1. Others(r) /\ call'[r].by = call[r].by /\ ~Holds(r) /\ ~Published(r)' /\ live' = live
        BY <1>2, RunsGo, RunsLearn DEF Goes, At, Holds, Published, Refuse, Launch, Look, Read, Settle
    <2>q. QED
        BY <1>a, <1>c, <2>1
<1>3. ASSUME NEW r \in Calls, Check(r) \/ Layout(r) \/ Recheck(r) \/ Save(r) PROVE Goal
    <2>1. Others(r) /\ call'[r].by = call[r].by /\ Published(r) /\ Holds(r)' /\ live' = live
        BY <1>3, RunsGo, RunsLearn DEF Goes, At, Holds, Published, Check, Layout, Recheck, Save
    <2>q. QED
        BY <1>a, <1>c, <2>1
<1>4. ASSUME NEW r \in Calls,
             Enter(r) \/ Lock(r) \/ Admit(r) \/ Write(r) \/ TurnOver(r) \/ Unlock(r)
      PROVE  Goal
    <2>1. /\ Others(r) /\ call'[r].by = call[r].by /\ Published(r) /\ Keeps(r) /\ live' = live
          /\ call[r].pc \in InTurn /\ (Published(r)' \/ call'[r].pc = "finish")
        BY <1>4, RunsGo DEF Goes, At, Published, InTurn, Enter, Lock, Admit, Write, TurnOver, Unlock
    <2>2. Holds(r)'
        BY <1>0, <2>1 DEF KnowsItself, Keeps, Holds, At
    <2>q. QED
        BY <1>a, <1>c, <2>1, <2>2
<1>5. ASSUME NEW r \in Calls, Publish(r) PROVE Goal
    <2> DEFINE p == call[r].by
    <2>1. At(r, "publish") /\ Others(r) /\ call'[r].by = p /\ p \in Procs
        BY <1>0, <1>5, RunsGo DEF Goes, At
    <2>2. CASE Goto(r, "finish") /\ live' = live
        <3>1. ~Holds(r) /\ ~Published(r)'
            BY <2>1, <2>2, GotoIs DEF Typed, Places, Goes, Holds, Published, At
        <3>q. QED
            BY <1>a, <1>c, <2>1, <2>2, <3>1
    <2>3. CASE Goto(r, "check") /\ ~Running(p) /\ live' = [live EXCEPT ![p] = r]
        <3>1. live'[p] = r /\ \A t \in Procs \ {p} : live'[t] = live[t]
            BY <1>0, <2>1, <2>3
        <3>2. Holds(r)' /\ Published(r)'
            BY <2>1, <2>3, GotoIs DEF Typed, Places, Goes, Holds, Published, At
        <3>3. \A q \in Calls \ {r} : /\ call'[q].by = call[q].by
                                     /\ Published(q)' <=> Published(q)
                                     /\ Holds(q)' <=> Holds(q)
            BY <2>1 DEF Others, Published, Holds, At
        <3>4. \A q \in Calls : Published(q) => call[q].by # p /\ call[q].by \in Procs
            BY <1>0, <2>3 DEF Running, Published
        <3>5. \A t \in Procs \ {p} : live[t] # r
            BY <1>0, <2>1
        <3> HIDE DEF p
        <3>6. LiveIsTheRun'
            BY <2>1, <3>1, <3>2, <3>3, <3>4 DEF LiveIsTheRun
        <3>7. EntryIsInFlight'
            BY <1>0, <2>1, <3>1, <3>2, <3>3, <3>5 DEF EntryIsInFlight
        <3>q. QED
            BY <3>6, <3>7
    <2>q. QED
        BY <1>5, <2>2, <2>3 DEF Publish
<1>6. ASSUME NEW r \in Calls, Rollback(r) PROVE Goal
    <2> DEFINE p == call[r].by
    <2>1. /\ At(r, "rollback") /\ Others(r) /\ call'[r].by = p /\ p \in Procs
          /\ ~Published(r)
          /\ ~Published(r)'
        BY <1>0, <1>6, RunsGo DEF Goes, At, Published
    <2>2. /\ live'[p] = IF live[p] = r THEN Nothing ELSE live[p]
          /\ \A t \in Procs \ {p} : live'[t] = live[t]
        BY <1>0, <1>6, <2>1 DEF Rollback
    <2>3. \A q \in Calls \ {r} : /\ call'[q].by = call[q].by
                                 /\ Published(q)' <=> Published(q)
                                 /\ Holds(q)' <=> Holds(q)
        BY <2>1 DEF Others, Published, Holds, At
    <2>4. \A q \in Calls : Published(q) => call[q].by \in Procs
        BY <1>0 DEF Published
    <2>5. \A t \in Procs : live'[t] # r
        BY <1>0, <2>1, <2>2, EntryAssumption
    <2> HIDE DEF p
    <2>6. LiveIsTheRun'
        BY <1>0, <2>1, <2>2, <2>3, <2>4 DEF LiveIsTheRun
    <2>7. EntryIsInFlight'
        BY <1>0, <2>1, <2>2, <2>3, <2>5, EntryAssumption DEF EntryIsInFlight
    <2>q. QED
        BY <2>6, <2>7
<1>7. ASSUME NEW r \in Calls, Finish(r) PROVE Goal
    <2> DEFINE p == call[r].by
    <2>1. /\ At(r, "finish") /\ Others(r) /\ call'[r].by = p /\ p \in Procs
          /\ ~Published(r) /\ ~Published(r)' /\ InFlight(r)
        BY <1>0, <1>7, RunsGo DEF Goes, At, Published, InFlight
    <2>2. /\ live'[p] = live[p] \/ live'[p] = Nothing
          /\ live[p] = r => live'[p] = Nothing
          /\ \A t \in Procs \ {p} : live'[t] = live[t]
        BY <1>0, <1>7, <2>1 DEF Finish, Holds, Published, At
    <2>3. \A q \in Calls \ {r} : /\ call'[q].by = call[q].by
                                 /\ Published(q)' <=> Published(q)
                                 /\ Holds(q)' <=> Holds(q)
        BY <2>1 DEF Others, Published, Holds, At
    <2>4. \A q \in Calls : Published(q) => call[q].by \in Procs /\ (call[q].by = p => q = r)
        BY <1>0, <2>1 DEF Published, OneInFlight, InFlight
    <2>5. \A t \in Procs : live'[t] # r
        BY <1>0, <2>1, <2>2, EntryAssumption
    <2> HIDE DEF p
    <2>6. LiveIsTheRun'
        BY <1>0, <2>1, <2>2, <2>3, <2>4 DEF LiveIsTheRun
    <2>7. EntryIsInFlight'
        BY <1>0, <2>1, <2>2, <2>3, <2>5, EntryAssumption DEF EntryIsInFlight
    <2>q. QED
        BY <2>6, <2>7
<1>8. ASSUME NEW p \in Procs, Quiet, NEW e \in {Copy, Nothing}, live' = [live EXCEPT ![p] = e],
             \A q \in Calls : Published(q) => call[q].by # p
      PROVE  Goal
    <2>1. live'[p] \notin Calls /\ \A t \in Procs \ {p} : live'[t] = live[t]
        BY <1>0, <1>8, EntryAssumption
    <2>2. \A q \in Calls : Published(q) => call[q].by \in Procs \ {p}
        BY <1>0, <1>8 DEF Published
    <2>q. QED
        BY <1>0, <1>b, <1>8, <2>1, <2>2 DEF LiveIsTheRun, EntryIsInFlight
<1>9. ASSUME NEW p \in Procs, Show(p) PROVE Goal
    <2>1. \A q \in Calls : Published(q) => call[q].by # p
        BY <1>0, <1>9, EntryAssumption DEF Show
    <2>q. QED
        BY <1>8, <1>9, <2>1, QuietIs DEF Show
<1>10. ASSUME NEW d \in Dels, Forget(d) PROVE Goal
    <2> DEFINE p == del[d].by
    <2>1. p \in Procs /\ \A q \in Calls : Published(q) => call[q].by # p
        BY <1>10 DEF Forget, DelAt, DelsHalt, Marks, Halts, Marked, Cleared, Mine, Published, InFlight
    <2>2. Quiet /\ live' = [live EXCEPT ![p] = Nothing]
        BY <1>10, QuietIs DEF DelStep, Forget
    <2> HIDE DEF p
    <2>q. QED
        BY <1>8, <2>1, <2>2
<1>11. ASSUME NEW d \in Dels, DelStep(d) \/ GiveUp(d) PROVE Goal
    <2>1. Forget(d) \/ UNCHANGED live
        BY <1>11 DEF DelStep, GiveUp, Mark, Scan, Cancel, Await, StopTasks, TasksOver, Remove,
           RemoveParent, End
    <2>q. QED
        BY <1>b, <1>c, <1>10, <1>11, <2>1, QuietIs
<1>12. ASSUME NEW d \in Dels, NEW p \in Procs, NEW tree \in BOOLEAN, Delete(d, p, tree) PROVE Goal
    BY <1>b, <1>c, <1>12, QuietIs DEF Delete
<1>13. ASSUME NEW r \in Calls, Stop(r) PROVE Goal
    BY <1>b, <1>c, <1>13, QuietIs DEF Stop
<1>14. CASE UNCHANGED vars
    BY <1>b, <1>c, <1>14, QuietIs DEF vars
<1>q. QED
    BY <1>1, <1>2, <1>3, <1>4, <1>5, <1>6, <1>7, <1>9, <1>11, <1>12, <1>13, <1>14
       DEF Next, RunStep

\* A run takes the turn lock before its turn and has it to the end of it.
LEMMA LockStep ==
  ASSUME Typed, LockHeld, [Next]_vars
  PROVE  LockHeld'
<1> USE DEF LockHeld, Goes, Others
<1>1. CASE Quiet
    BY <1>1 DEF Quiet, Still
<1>2. ASSUME NEW r \in Calls, NEW p \in Procs, Spawn(r, p) \/ Resume(r, p) PROVE LockHeld'
    BY <1>2, CallIs DEF Called
<1>3. ASSUME NEW r \in Calls,
             \/ Refuse(r) \/ Launch(r) \/ Look(r) \/ Publish(r) \/ Check(r) \/ Layout(r)
             \/ Rollback(r) \/ Enter(r) \/ Finish(r) \/ Settle(r)
      PROVE  LockHeld'
    <2>1. Others(r) /\ call'[r].pc \notin {"admit", "work", "wrote", "unlock"} /\ lock' = lock
        BY <1>3, RunsGo DEF Refuse, Launch, Look, Publish, Check, Layout, Rollback, Enter, Finish, Settle
    <2>q. QED
        BY <2>1
<1>4. ASSUME NEW r \in Calls, Read(r) \/ Recheck(r) \/ Save(r) PROVE LockHeld'
    BY <1>4, RunsLearn DEF Read, Recheck, Save
<1>5. ASSUME NEW r \in Calls, Lock(r) PROVE LockHeld'
    <2>1. At(r, "lock") /\ Others(r) /\ (Goes(r, "admit") \/ Goes(r, "finish"))
        BY <1>5, RunsGo
    <2>2. CASE lock = NoCall /\ lock' = r
        BY <2>1, <2>2, CallsAssumption
    <2>3. CASE Goto(r, "finish") /\ lock' = lock
        <3>1. Goes(r, "finish")
            BY <2>3, GotoIs DEF Typed, Places
        <3>q. QED
            BY <2>3, <3>1
    <2>q. QED
        BY <1>5, <2>2, <2>3 DEF Lock
<1>6. ASSUME NEW r \in Calls, Admit(r) \/ Write(r) \/ TurnOver(r) PROVE LockHeld'
    BY <1>6, RunsGo DEF Admit, Write, TurnOver, At
<1>7. ASSUME NEW r \in Calls, Unlock(r) PROVE LockHeld'
    BY <1>7, RunsGo DEF Unlock, At
<1>q. QED
    BY <1>1, <1>2, <1>3, <1>4, <1>5, <1>6, <1>7, QuietIs DEF Next, RunStep
-----------------------------------------------------------------------------
(* The bundle and the slots *)

\* A bundle comes from the new call: it is made by it, and goes with it or with a deletion.
LEMMA BundleStep ==
  ASSUME Typed, CallsKnow, OneNew, FromTheNew, [Next]_vars
  PROVE  FromTheNew'
<1> DEFINE Half(q) == New(q) /\ call[q].pc \in {"recheck", "save", "rollback"}
           Bundle == /\ disk = "child" \/ file # {} \/ author # NoCall => Made
                     /\ disk = "layout" => \E q \in Calls : Half(q)
                     /\ author = NoCall => file = {}
                     /\ author # NoCall => call[author].created
           Same == UNCHANGED bundleVars
<1>0. /\ \A q \in Calls : call[q] \in CallRec /\ KnowsItself(q)
      /\ author \in Calls \cup {NoCall}
      /\ Bundle /\ ((\E q \in Calls : call[q].resume) => Made)
    BY DEF Typed, CallsKnow, FromTheNew
<1>1. (\E q \in Calls : call'[q].resume) => Made'
    <2>1. CASE \E q \in Calls, p \in Procs : Resume(q, p)
        BY <2>1, CallIs, MadeStays DEF FromTheNew
    <2>2. CASE ~ \E q \in Calls, p \in Procs : Resume(q, p)
        <3>1. ASSUME NEW q \in Calls, call'[q].resume PROVE Made
            <4>1. CASE Quiet
                BY <1>0, <3>1, <4>1 DEF Quiet, Still
            <4>2. ASSUME NEW r \in Calls, RunMoves(r) PROVE Made
                <5>1. Others(r) /\ On(r)
                    BY <4>2, RunGoesOn DEF CallsKnow
                <5>q. QED
                    BY <1>0, <3>1, <5>1 DEF Others, On
            <4>3. ASSUME NEW r \in Calls, NEW p \in Procs, Spawn(r, p) PROVE Made
                BY <1>0, <3>1, <4>3, CallIs DEF Called, Others
            <4>q. QED
                BY <2>2, <4>1, <4>2, <4>3, QuietIs DEF Next, RunMoves
        <3>q. QED
            BY <3>1, MadeStays
    <2>q. QED
        BY <2>1, <2>2
<1>2. author # NoCall => call'[author].created
    <2>1. ASSUME author # NoCall PROVE call'[author].created
        <3>1. author \in Calls /\ call[author].created /\ ~At(author, "idle")
            BY <1>0, <2>1 DEF KnowsItself, At
        <3>2. On(author)
            BY <3>1, Forth DEF Called, MayCall
        <3>q. QED
            BY <3>1, <3>2 DEF On
    <2>q. QED
        BY <2>1
<1>3. (disk = "layout" => \E q \in Calls : Half(q)') /\ Same => Bundle'
    BY <1>0, <1>2, MadeStays DEF bundleVars
<1>4. ASSUME NEW r \in Calls, Others(r),
             (Half(r) /\ disk = "layout" => \E q \in Calls : Half(q)'), Same
      PROVE  Bundle'
    BY <1>0, <1>3, <1>4 DEF Others, New
<1>5. NoBundle => Bundle'
    BY DEF NoBundle
<1>a. ASSUME Quiet, UNCHANGED bundleVars \/ NoBundle PROVE Bundle'
    <2>1. \A q \in Calls : Half(q) => Half(q)'
        BY <1>a DEF Quiet, Still, New
    <2>2. CASE UNCHANGED bundleVars
        BY <1>0, <1>3, <2>1, <2>2
    <2>q. QED
        BY <1>5, <1>a, <2>2
<1>6. ASSUME NEW r \in Calls, NEW p \in Procs, Spawn(r, p) \/ Resume(r, p) PROVE Bundle'
    <2>1. Called(r, p) /\ ~Half(r)
        BY <1>6, CallIs DEF Called, MayCall, At, New
    <2>q. QED
        BY <1>4, <2>1 DEF Called
<1>7. ASSUME NEW r \in Calls,
             \/ Refuse(r) \/ Launch(r) \/ Look(r) \/ Publish(r) \/ Check(r) \/ Enter(r)
             \/ Lock(r) \/ Admit(r) \/ TurnOver(r) \/ Unlock(r) \/ Finish(r) \/ Settle(r)
      PROVE  Bundle'
    <2>1. Others(r) /\ ~Half(r) /\ Same
        BY <1>7, RunsGo DEF Goes, At, Refuse, Launch, Look, Publish, Check, Enter, Lock, Admit,
           TurnOver, Unlock, Finish, Settle
    <2>q. QED
        BY <1>4, <2>1
<1>8. ASSUME NEW r \in Calls, Read(r) PROVE Bundle'
    <2>1. Others(r) /\ ~Half(r) /\ Same
        BY <1>8, RunsLearn DEF Goes, At, Read
    <2>q. QED
        BY <1>4, <2>1
<1>9. ASSUME NEW r \in Calls, Layout(r) PROVE Bundle'
    <2>1. /\ Others(r) /\ ~call[r].resume /\ Goes(r, "recheck")
          /\ UNCHANGED <<file, author>> /\ disk' = IF disk = "absent" THEN "layout" ELSE disk
        BY <1>0, <1>9, RunsGo DEF Goes, At, Layout, KnowsItself
    <2>2. Half(r)'
        BY <2>1 DEF Goes, New
    <2>q. QED
        BY <1>0, <1>2, <2>1, <2>2, MadeStays
<1>10. ASSUME NEW r \in Calls, Recheck(r) PROVE Bundle'
    <2>1. /\ Others(r) /\ call'[r].resume = call[r].resume /\ Same
          /\ ~call[r].resume => call'[r].pc \in {"rollback", "save"}
        BY <1>10, RunsLearn DEF Goes, At, Recheck
    <2>2. Half(r) => Half(r)'
        BY <2>1 DEF New
    <2>q. QED
        BY <1>4, <2>1, <2>2
<1>11. ASSUME NEW r \in Calls, Save(r) PROVE Bundle'
    <2>1. /\ At(r, "save") /\ ~call[r].resume /\ Others(r) /\ call'[r].resume = call[r].resume
          /\ file' = file
        BY <1>0, <1>11, RunsLearn DEF Goes, At, Save, KnowsItself
    <2>2. CASE Goes(r, "enter") /\ Created(r) /\ disk' = "child" /\ author' = r
        <3>1. Made' /\ author' # NoCall /\ call'[r].created
            BY <2>1, <2>2, CallsAssumption DEF Created, Made
        <3>q. QED
            BY <2>2, <3>1
    <2>3. CASE Goes(r, "rollback") /\ UNCHANGED <<disk, author>>
        <3>1. Half(r)' /\ Same
            BY <2>1, <2>3 DEF Goes, New, bundleVars
        <3>q. QED
            BY <1>4, <2>1, <3>1
    <2>q. QED
        BY <1>11, <2>2, <2>3, RunsLearn
<1>12. ASSUME NEW r \in Calls, Rollback(r) PROVE Bundle'
    <2>1. Others(r) /\ (call[r].resume => ~Half(r))
        BY <1>12, RunsGo DEF Goes, New
    <2>2. CASE call[r].resume /\ Same
        BY <1>4, <2>1, <2>2
    <2>q. QED
        BY <1>5, <1>12, <2>2 DEF Rollback, NoBundle
<1>13. ASSUME NEW r \in Calls, Write(r) PROVE Bundle'
    <2>1. call[r].created
        BY <1>0, <1>13 DEF Write, At, KnowsItself, InTurn
    <2>2. Made
        BY <1>0, <2>1 DEF Made
    <2>3. call'[r].created
        BY <1>13, <2>1, RunsGo DEF Keeps
    <2>4. author' = r /\ disk' = "child" /\ r # NoCall
        BY <1>13, CallsAssumption DEF Write
    <2>q. QED
        BY <2>2, <2>3, <2>4, MadeStays
<1>15. ASSUME NEW d \in Dels, DelStep(d) \/ GiveUp(d) PROVE Bundle'
    <2>1. Same \/ NoBundle
        BY <1>15 DEF DelStep, GiveUp, Mark, Scan, Cancel, Await, StopTasks, TasksOver, Forget, Remove,
           RemoveParent, End
    <2>q. QED
        BY <1>a, <1>15, <2>1, QuietIs
<1>16. ASSUME NEW d \in Dels, NEW p \in Procs, NEW tree \in BOOLEAN, Delete(d, p, tree) PROVE Bundle'
    BY <1>a, <1>16, QuietIs DEF Delete
<1>17. ASSUME NEW r \in Calls, Stop(r) PROVE Bundle'
    BY <1>a, <1>17, QuietIs DEF Stop
<1>18. ASSUME NEW p \in Procs, Show(p) PROVE Bundle'
    BY <1>a, <1>18, QuietIs DEF Show
<1>19. UNCHANGED vars => Bundle'
    BY <1>a, QuietIs DEF vars, bundleVars
<1>20. Bundle'
    BY <1>6, <1>7, <1>8, <1>9, <1>10, <1>11, <1>12, <1>13, <1>15, <1>16, <1>17, <1>18, <1>19
       DEF Next, RunStep
<1>q. QED
    BY <1>1, <1>20 DEF FromTheNew

\* The slots of a process can be counted.
LEMMA HoldingFinite ==
  ASSUME NEW p \in Procs
  PROVE  IsFiniteSet(Holding(p)) /\ Cardinality(Holding(p)) \in Nat
<1>1. Holding(p) \in SUBSET Calls
    BY DEF Holding, Mine
<1>q. QED
    BY <1>1, CallsAssumption, FS_Subset, FS_CardinalityType

\* A call has a slot of p.
HasSlot(r, p) == call[r].by = p /\ row[r] = "running" /\ ~At(r, "settle")

\* A slot is taken by a launch and given back when the run finishes, once.
LEMMA SlotsStep ==
  ASSUME Typed, CallsKnow, SlotsExact, [Next]_vars, NEW p \in Procs
  PROVE  slots'[p] = Cardinality(Holding(p)') /\ slots'[p] \in 0..MaxRuns
<1> DEFINE Goal == slots'[p] = Cardinality(Holding(p)') /\ slots'[p] \in 0..MaxRuns
<1>0. /\ slots \in [Procs -> 0..MaxRuns] /\ slots[p] = Cardinality(Holding(p))
      /\ \A q \in Calls : call[q] \in CallRec /\ KnowsItself(q)
      /\ row \in [Calls -> {"none", "running", "over"}]
    BY DEF Typed, SlotsExact, CallsKnow
<1>a. Holding(p) = {q \in Calls : HasSlot(q, p)} /\ Holding(p)' = {q \in Calls : HasSlot(q, p)'}
    BY DEF Holding, Mine, HasSlot
<1>b. ASSUME \A q \in Calls : HasSlot(q, p)' <=> HasSlot(q, p), UNCHANGED slots
      PROVE  Goal
    <2>1. Holding(p)' = Holding(p)
        BY <1>a, <1>b
    <2>q. QED
        BY <1>0, <1>b, <2>1
<1>1. CASE Quiet
    <2>1. \A q \in Calls : HasSlot(q, p)' <=> HasSlot(q, p)
        BY <1>1 DEF Quiet, Still, At, HasSlot
    <2>q. QED
        BY <1>1, <1>b, <2>1 DEF Quiet
<1>2. ASSUME NEW r \in Calls, NEW t \in Procs, Spawn(r, t) \/ Resume(r, t) PROVE Goal
    <2>1. Called(r, t)
        BY <1>2, CallIs
    <2>2. row[r] = "none" /\ row' = row /\ UNCHANGED slots
        BY <1>0, <2>1 DEF Called, MayCall, At, KnowsItself
    <2>3. \A q \in Calls : HasSlot(q, p)' <=> HasSlot(q, p)
        BY <2>1, <2>2 DEF Called, Others, At, HasSlot
    <2>q. QED
        BY <1>b, <2>2, <2>3
<1>c. ASSUME NEW r \in Calls, Others(r), call'[r].by = call[r].by, ~At(r, "settle"),
             ~At(r, "settle")', UNCHANGED <<slots, row>>
      PROVE  Goal
    <2>1. \A q \in Calls : HasSlot(q, p)' <=> HasSlot(q, p)
        BY <1>c DEF Others, At, HasSlot
    <2>q. QED
        BY <1>b, <1>c, <2>1
<1>3. ASSUME NEW r \in Calls,
             \/ Refuse(r) \/ Look(r) \/ Publish(r) \/ Check(r) \/ Layout(r) \/ Rollback(r)
             \/ Enter(r) \/ Lock(r) \/ Admit(r) \/ Write(r) \/ TurnOver(r) \/ Unlock(r)
      PROVE  Goal
    <2>1. /\ Others(r) /\ call'[r].by = call[r].by /\ ~At(r, "settle") /\ ~At(r, "settle")'
          /\ UNCHANGED <<slots, row>>
        BY <1>3, RunsGo DEF Goes, At, Refuse, Look, Publish, Check, Layout, Rollback, Enter, Lock,
           Admit, Write, TurnOver, Unlock
    <2>q. QED
        BY <1>c, <2>1
<1>4. ASSUME NEW r \in Calls, Read(r) \/ Recheck(r) \/ Save(r) PROVE Goal
    <2>1. /\ Others(r) /\ call'[r].by = call[r].by /\ ~At(r, "settle") /\ ~At(r, "settle")'
          /\ UNCHANGED <<slots, row>>
        BY <1>4, RunsLearn DEF Goes, At, Read, Recheck, Save
    <2>q. QED
        BY <1>c, <2>1
<1>5. ASSUME NEW r \in Calls, Settle(r) PROVE Goal
    <2>1. Others(r) /\ At(r, "settle") /\ row' = [row EXCEPT ![r] = "over"] /\ UNCHANGED slots
        BY <1>5, RunsGo DEF Goes, Settle
    <2>2. ~HasSlot(r, p) /\ ~HasSlot(r, p)'
        BY <1>0, <2>1 DEF HasSlot
    <2>3. \A q \in Calls \ {r} : HasSlot(q, p)' <=> HasSlot(q, p)
        BY <1>0, <2>1 DEF Others, At, HasSlot
    <2>q. QED
        BY <1>b, <2>1, <2>2, <2>3
<1>6. ASSUME NEW r \in Calls, Launch(r) PROVE Goal
    <2>1. /\ Others(r) /\ At(r, "asked") /\ call'[r].by = call[r].by /\ ~At(r, "settle")'
          /\ row' = [row EXCEPT ![r] = "running"]
          /\ slots' = [slots EXCEPT ![call[r].by] = @ + 1] /\ slots[call[r].by] < MaxRuns
        BY <1>6, RunsGo DEF Goes, At, Launch
    <2>2. row[r] # "running"
        BY <1>0, <2>1 DEF KnowsItself, At
    <2>3. /\ ~HasSlot(r, p) /\ (HasSlot(r, p)' <=> call[r].by = p)
          /\ \A q \in Calls \ {r} : HasSlot(q, p)' <=> HasSlot(q, p)
        BY <1>0, <2>1, <2>2 DEF Others, At, HasSlot
    <2>4. CASE call[r].by = p
        <3>1. Holding(p)' = Holding(p) \cup {r} /\ r \notin Holding(p)
            BY <1>a, <2>3, <2>4
        <3>2. Cardinality(Holding(p)') = Cardinality(Holding(p)) + 1
            BY <3>1, HoldingFinite, FS_AddElement
        <3>q. QED
            BY <1>0, <2>1, <2>4, <3>2, LimitAssumption
    <2>5. CASE call[r].by # p
        <3>1. Holding(p)' = Holding(p)
            BY <1>a, <2>3, <2>5
        <3>q. QED
            BY <1>0, <2>1, <2>5, <3>1
    <2>q. QED
        BY <2>4, <2>5
<1>7. ASSUME NEW r \in Calls, Finish(r) PROVE Goal
    <2>1. /\ Others(r) /\ At(r, "finish") /\ At(r, "settle")' /\ row' = row
          /\ slots' = [slots EXCEPT ![call[r].by] = @ - 1]
        BY <1>7, RunsGo DEF Goes, At, Finish, Release
    <2>2. row[r] = "running"
        BY <1>0, <2>1 DEF KnowsItself, At
    <2>3. /\ ~HasSlot(r, p)' /\ (HasSlot(r, p) <=> call[r].by = p)
          /\ \A q \in Calls \ {r} : HasSlot(q, p)' <=> HasSlot(q, p)
        BY <1>0, <2>1, <2>2 DEF Others, At, HasSlot
    <2>4. CASE call[r].by = p
        <3>1. Holding(p)' = Holding(p) \ {r} /\ r \in Holding(p)
            BY <1>a, <2>3, <2>4
        <3>2. /\ Cardinality(Holding(p)') = Cardinality(Holding(p)) - 1
              /\ Cardinality(Holding(p)') \in Nat
            BY <3>1, HoldingFinite, FS_RemoveElement, FS_CardinalityType
        <3>q. QED
            BY <1>0, <2>1, <2>4, <3>2, LimitAssumption
    <2>5. CASE call[r].by # p
        <3>1. Holding(p)' = Holding(p)
            BY <1>a, <2>3, <2>5
        <3>q. QED
            BY <1>0, <2>1, <2>5, <3>1
    <2>q. QED
        BY <2>4, <2>5
<1>q. QED
    BY <1>1, <1>2, <1>3, <1>4, <1>5, <1>6, <1>7, QuietIs DEF Next, RunStep

\* A run goes on from all that its process wrote: it reads when no other run of the process can
\* write, and none can before it is over.
LEMMA FreshStep ==
  ASSUME Typed, CallsKnow, OneNew, OneInFlight, FromTheNew, ReadIsFresh, [Next]_vars
  PROVE  ReadIsFresh'
<1> DEFINE Goal(q) == HasRead(q)' /\ author' # NoCall /\ call'[author'].by = call'[q].by =>
                        file' \subseteq call'[q].mem \cup {q}
<1> SUFFICES ASSUME NEW q \in Calls PROVE Goal(q)
    BY DEF ReadIsFresh
<1>0. /\ \A r \in Calls : call[r] \in CallRec /\ KnowsItself(r)
      /\ author \in Calls \cup {NoCall} /\ (author = NoCall => file = {})
      /\ HasRead(q) /\ author # NoCall /\ call[author].by = call[q].by =>
           file \subseteq call[q].mem \cup {q}
    BY DEF Typed, CallsKnow, FromTheNew, ReadIsFresh
<1>a. author # NoCall => author \in Calls /\ call'[author].by = call[author].by
    <2> SUFFICES ASSUME author # NoCall PROVE call'[author].by = call[author].by
        BY <1>0
    <2>1. author \in Calls /\ ~At(author, "idle")
        BY <1>0 DEF FromTheNew, KnowsItself, At
    <2>2. On(author)
        BY <2>1, Forth DEF Called, MayCall
    <2>q. QED
        BY <2>2 DEF On
<1>b. ASSUME NEW r \in Calls, New(r), ~call[r].created PROVE author = NoCall /\ file = {}
    BY <1>0, <1>b, NewIsMade DEF FromTheNew
<1>c. ASSUME call'[q].by = call[q].by, call'[q].mem = call[q].mem, HasRead(q)' => HasRead(q),
             UNCHANGED bundleVars
      PROVE  Goal(q)
    BY <1>0, <1>a, <1>c DEF bundleVars
<1>d. ASSUME NEW r \in Calls, Others(r), UNCHANGED bundleVars, call'[r].by = call[r].by,
             call'[r].mem = call[r].mem, HasRead(r)' => HasRead(r)
      PROVE  Goal(q)
    <2>1. q # r => call'[q] = call[q]
        BY <1>d DEF Others
    <2>2. call'[q].by = call[q].by /\ call'[q].mem = call[q].mem /\ (HasRead(q)' => HasRead(q))
        BY <1>d, <2>1 DEF HasRead
    <2>q. QED
        BY <1>c, <1>d, <2>2
<1>1. ASSUME Quiet, UNCHANGED bundleVars \/ NoBundle PROVE Goal(q)
    <2>1. call'[q].by = call[q].by /\ call'[q].mem = call[q].mem /\ (HasRead(q)' => HasRead(q))
        BY <1>1 DEF Quiet, Still, HasRead
    <2>q. QED
        BY <1>1, <1>c, <2>1 DEF NoBundle
<1>2. ASSUME NEW r \in Calls, NEW p \in Procs, Spawn(r, p) \/ Resume(r, p) PROVE Goal(q)
    <2>1. Called(r, p)
        BY <1>2, CallIs
    <2>2. CASE q = r
        BY <2>1, <2>2 DEF Called, HasRead
    <2>3. CASE q # r
        <3>1. call'[q] = call[q] /\ UNCHANGED bundleVars
            BY <2>1, <2>3 DEF Called, Others
        <3>q. QED
            BY <1>c, <3>1 DEF HasRead
    <2>q. QED
        BY <2>2, <2>3
<1>3. ASSUME NEW r \in Calls,
             \/ Refuse(r) \/ Look(r) \/ Publish(r) \/ Check(r) \/ Enter(r) \/ Lock(r)
             \/ Admit(r) \/ TurnOver(r) \/ Unlock(r) \/ Finish(r) \/ Settle(r)
      PROVE  Goal(q)
    <2>1. /\ Others(r) /\ UNCHANGED bundleVars /\ call'[r].by = call[r].by
          /\ call'[r].mem = call[r].mem /\ (HasRead(r)' => HasRead(r))
        BY <1>3, RunsGo DEF Goes, Keeps, At, HasRead, Refuse, Look, Publish, Check, Enter, Lock,
           Admit, TurnOver, Unlock, Finish, Settle
    <2>q. QED
        BY <1>d, <2>1
<1>4. ASSUME NEW r \in Calls, Recheck(r) PROVE Goal(q)
    <2>1. /\ Others(r) /\ UNCHANGED bundleVars /\ call'[r].by = call[r].by
          /\ call'[r].mem = call[r].mem /\ (HasRead(r)' => HasRead(r))
        BY <1>4, RunsLearn DEF Goes, Keeps, Created, At, HasRead, Recheck
    <2>q. QED
        BY <1>d, <2>1
<1>5. ASSUME NEW r \in Calls, Launch(r) PROVE Goal(q)
    <2>1. /\ At(r, "asked") /\ Others(r) /\ UNCHANGED bundleVars /\ call'[r].by = call[r].by
          /\ call'[r].mem = call[r].mem
          /\ call'[r].pc = IF call[r].resume THEN "look" ELSE "publish"
        BY <1>5, RunsGo DEF Goes, Keeps, Launch
    <2>2. CASE call[r].resume
        BY <1>d, <2>1, <2>2 DEF HasRead
    <2>3. CASE ~call[r].resume
        <3>1. New(r) /\ ~call[r].created
            BY <1>0, <2>1, <2>3 DEF New, At, KnowsItself, InTurn
        <3>q. QED
            BY <1>b, <2>1, <3>1 DEF bundleVars
    <2>q. QED
        BY <2>2, <2>3
<1>6. ASSUME NEW r \in Calls, Layout(r) \/ Save(r) PROVE Goal(q)
    <2>1. New(r) /\ ~call[r].created
        BY <1>0, <1>6 DEF Layout, Save, New, At, KnowsItself, InTurn
    <2>2. file' = {}
        BY <1>b, <1>6, <2>1 DEF Layout, Save
    <2>q. QED
        BY <2>2
<1>7. ASSUME NEW r \in Calls, Read(r) PROVE Goal(q)
    <2>1. /\ Others(r) /\ UNCHANGED bundleVars /\ call'[r].by = call[r].by
          /\ call'[r].mem = file \/ call'[r].pc = "finish"
        BY <1>7, RunsLearn DEF Goes, Learns, Read
    <2>2. CASE q = r
        BY <2>1, <2>2 DEF HasRead, bundleVars
    <2>3. CASE q # r
        <3>1. call'[q] = call[q]
            BY <2>1, <2>3 DEF Others
        <3>q. QED
            BY <1>c, <2>1, <3>1 DEF HasRead
    <2>q. QED
        BY <2>2, <2>3
<1>8. ASSUME NEW r \in Calls, Rollback(r) PROVE Goal(q)
    <2>1. /\ Others(r) /\ call'[r].by = call[r].by /\ call'[r].mem = call[r].mem /\ ~HasRead(r)'
          /\ UNCHANGED bundleVars \/ NoBundle
        BY <1>8, RunsGo DEF Goes, Keeps, HasRead, Rollback, NoBundle
    <2>q. QED
        BY <1>d, <2>1 DEF NoBundle
<1>9. ASSUME NEW r \in Calls, Write(r) PROVE Goal(q)
    <2>1. /\ At(r, "work") /\ Goes(r, "wrote") /\ author' = r
        BY <1>9, RunsGo DEF Write
    <2>2. CASE q = r
        BY <2>1, <2>2 DEF HasRead, Goes
    <2>3. CASE q # r
        <3>1. call'[q] = call[q] /\ call'[r].by = call[r].by
            BY <2>1, <2>3 DEF Goes, Others
        <3>2. call[q].by = call[r].by => ~InFlight(q)
            BY <2>1, <2>3 DEF OneInFlight, InFlight, At
        <3>q. QED
            BY <2>1, <3>1, <3>2 DEF HasRead, InFlight
    <2>q. QED
        BY <2>2, <2>3
<1>10. ASSUME NEW d \in Dels, DelStep(d) \/ GiveUp(d) PROVE Goal(q)
    <2>1. UNCHANGED bundleVars \/ NoBundle
        BY <1>10 DEF DelStep, GiveUp, Mark, Scan, Cancel, Await, StopTasks, TasksOver, Forget,
           Remove, RemoveParent, End
    <2>q. QED
        BY <1>1, <1>10, <2>1, QuietIs
<1>11. ASSUME NEW d \in Dels, NEW p \in Procs, NEW tree \in BOOLEAN, Delete(d, p, tree) PROVE Goal(q)
    BY <1>1, <1>11, QuietIs DEF Delete
<1>12. ASSUME NEW r \in Calls, Stop(r) PROVE Goal(q)
    BY <1>1, <1>12, QuietIs DEF Stop
<1>13. ASSUME NEW p \in Procs, Show(p) PROVE Goal(q)
    BY <1>1, <1>13, QuietIs DEF Show
<1>14. UNCHANGED vars => Goal(q)
    BY <1>1, QuietIs DEF vars, bundleVars
<1>q. QED
    BY <1>2, <1>3, <1>4, <1>5, <1>6, <1>7, <1>8, <1>9, <1>10, <1>11, <1>12, <1>13, <1>14
       DEF Next, RunStep
-----------------------------------------------------------------------------
(* The deletions *)

\* A deletion goes to a stage, with what it has found, marked and stopped.
Found(d) == IF del[d].tree THEN Tree(del[d].by) ELSE {}
Tasks(d) == {r \in Mine(del[d].by) : row[r] = "running" /\ (r \in del[d].stop \/ del[d].tree)}
DelOthers(d) == \A e \in Dels \ {d} : del'[e] = del[e]
DelGoes(d, s, nodes, up, stop) ==
  /\ DelOthers(d) /\ del' \in [Dels -> DelRec]
  /\ del'[d].pc = s /\ del'[d].by = del[d].by /\ del'[d].tree = del[d].tree
  /\ del'[d].nodes = nodes /\ del'[d].up = up /\ del'[d].stop = stop
DelMoves(d, s) == DelGoes(d, s, del[d].nodes, del[d].up, del[d].stop)

\* Any new record of a deletion that keeps its process and its tree is such a move.
LEMMA DelGoesTo ==
  ASSUME Typed, NEW d \in Dels, NEW k \in DelRec, del' = [del EXCEPT ![d] = k],
         k.by = del[d].by, k.tree = del[d].tree
  PROVE  DelGoes(d, k.pc, k.nodes, k.up, k.stop)
BY DEF Typed, DelGoes, DelOthers

\* A move changes only the stage.
LEMMA MoveIs ==
  ASSUME Typed, NEW d \in Dels, NEW s \in Stages, Move(d, s)
  PROVE  DelMoves(d, s)
BY DEF Typed, Move, DelMoves, DelGoes, DelOthers, DelRec

\* What a scan of the tree shows, and the task it names.
LEMMA SeenIs ==
  ASSUME Typed, NEW d \in Dels, del[d].by \in Procs
  PROVE  Found(d) \subseteq {"child"} /\ Task(del[d].by) \subseteq Calls
BY DEF Typed, Found, Tree, Task, Running

\* The moves of a deletion.
LEMMA DelsGo ==
  ASSUME Typed, NEW d \in Dels
  PROVE  /\ Mark(d) => DelAt(d, "mark") /\ DelGoes(d, "scan", del[d].nodes, del[d].nodes, del[d].stop)
         /\ Cancel(d) => DelAt(d, "cancel") /\ DelMoves(d, "await")
         /\ Await(d) => DelAt(d, "await") /\ DelMoves(d, "stop")
         /\ TasksOver(d) =>
              /\ DelAt(d, "wait")
              /\ DelMoves(d, IF "child" \in del[d].nodes THEN "forget" ELSE "last")
         /\ Forget(d) => DelAt(d, "forget") /\ DelMoves(d, "remove")
         /\ Remove(d) => DelAt(d, "remove") /\ DelMoves(d, IF del[d].tree THEN "last" ELSE "end")
         /\ RemoveParent(d) => DelAt(d, "last") /\ DelMoves(d, "end")
         /\ End(d) => DelAt(d, "end") /\ DelGoes(d, "done", del[d].nodes, {}, del[d].stop)
         /\ GiveUp(d) => DelAt(d, "await") /\ DelGoes(d, "failed", del[d].nodes, {}, del[d].stop)
         /\ StopTasks(d) => DelAt(d, "stop") /\ DelGoes(d, "wait", del[d].nodes, del[d].up, Tasks(d))
<1> DEFINE k == del[d]
<1>0. k \in DelRec
    BY DEF Typed
<1>1. \A s \in Stages : Move(d, s) => DelMoves(d, s)
    BY MoveIs
<1>2. /\ Cancel(d) => DelAt(d, "cancel") /\ DelMoves(d, "await")
      /\ Await(d) => DelAt(d, "await") /\ DelMoves(d, "stop")
      /\ Forget(d) => DelAt(d, "forget") /\ DelMoves(d, "remove")
      /\ RemoveParent(d) => DelAt(d, "last") /\ DelMoves(d, "end")
    BY <1>1 DEF Cancel, Await, Forget, RemoveParent, Stages
<1>3. TasksOver(d) =>
        /\ DelAt(d, "wait")
        /\ DelMoves(d, IF "child" \in del[d].nodes THEN "forget" ELSE "last")
    BY <1>1 DEF TasksOver, Stages
<1>4. Remove(d) => DelAt(d, "remove") /\ DelMoves(d, IF del[d].tree THEN "last" ELSE "end")
    BY <1>1 DEF Remove, Stages
<1>5. ASSUME NEW s \in Stages, NEW u \in SUBSET Nodes, del' = [del EXCEPT ![d].pc = s, ![d].up = u]
      PROVE  DelGoes(d, s, del[d].nodes, u, del[d].stop)
    <2> DEFINE n == [k EXCEPT !.pc = s, !.up = u]
    <2>1. /\ n \in DelRec /\ n.pc = s /\ n.up = u /\ n.by = k.by /\ n.tree = k.tree
          /\ n.nodes = k.nodes /\ n.stop = k.stop
        BY <1>0 DEF DelRec
    <2>2. del' = [del EXCEPT ![d] = n]
        BY <1>5 DEF Typed
    <2> HIDE DEF n
    <2>q. QED
        BY <2>1, <2>2, DelGoesTo
<1>6. k.nodes \in SUBSET Nodes /\ {} \in SUBSET Nodes /\ {"scan", "done", "failed"} \subseteq Stages
    BY <1>0 DEF DelRec, Stages
<1>7. /\ Mark(d) => DelAt(d, "mark") /\ DelGoes(d, "scan", del[d].nodes, del[d].nodes, del[d].stop)
      /\ End(d) => DelAt(d, "end") /\ DelGoes(d, "done", del[d].nodes, {}, del[d].stop)
      /\ GiveUp(d) => DelAt(d, "await") /\ DelGoes(d, "failed", del[d].nodes, {}, del[d].stop)
    BY <1>5, <1>6 DEF Mark, End, GiveUp
<1>8. ASSUME StopTasks(d)
      PROVE  DelAt(d, "stop") /\ DelGoes(d, "wait", del[d].nodes, del[d].up, Tasks(d))
    <2> DEFINE t == Tasks(d)
               n == [k EXCEPT !.pc = "wait", !.stop = t]
    <2>0. t \in SUBSET Calls
        BY DEF Tasks, Mine
    <2>1. del' = [del EXCEPT ![d].pc = "wait", ![d].stop = t]
        BY <1>8 DEF StopTasks, Tasks
    <2> HIDE DEF t
    <2>2. /\ n \in DelRec /\ n.pc = "wait" /\ n.up = k.up /\ n.by = k.by /\ n.tree = k.tree
          /\ n.nodes = k.nodes /\ n.stop = t
        BY <1>0, <2>0 DEF DelRec, Stages
    <2>3. del' = [del EXCEPT ![d] = n]
        BY <2>1 DEF Typed
    <2> HIDE DEF n
    <2>q. QED
        BY <1>8, <2>2, <2>3, DelGoesTo DEF StopTasks, t
<1>q. QED
    BY <1>2, <1>3, <1>4, <1>7, <1>8

\* A scan sends a deletion back to mark what it found, or on with the tree it has marked.
LEMMA ScanIs ==
  ASSUME Typed, NEW d \in Dels, Scan(d), del[d].by \in Procs
  PROVE  /\ DelAt(d, "scan")
         /\ \/ DelGoes(d, "mark", del[d].nodes \cup Found(d), del[d].up, del[d].stop)
            \/ /\ Found(d) \subseteq del[d].nodes
               /\ DelGoes(d, "cancel",
                          IF del[d].nodes = {"child"} THEN del[d].nodes ELSE {"parent"} \cup Found(d),
                          del[d].up,
                          IF "child" \in Found(d) \/ ~del[d].tree THEN Task(del[d].by) ELSE {})
<1> DEFINE k == del[d]
           f == Found(d)
           n1 == k.nodes \cup f
           n2 == IF k.nodes = {"child"} THEN k.nodes ELSE {"parent"} \cup f
           t2 == IF "child" \in f \/ ~k.tree THEN Task(k.by) ELSE {}
           k1 == [k EXCEPT !.pc = "mark", !.nodes = n1]
           k2 == [k EXCEPT !.pc = "cancel", !.nodes = n2, !.stop = t2]
<1>0. k \in DelRec
    BY DEF Typed
<1>1. n1 \in SUBSET Nodes /\ n2 \in SUBSET Nodes /\ t2 \in SUBSET Calls
    <2>1. k.nodes \subseteq Nodes /\ f \subseteq {"child"} /\ Task(k.by) \subseteq Calls
        BY <1>0, SeenIs DEF DelRec
    <2>2. {"child"} \subseteq Nodes /\ {"parent"} \subseteq Nodes
        BY DEF Nodes
    <2>q. QED
        BY <2>1, <2>2
<1>2. del' = [del EXCEPT ![d] = IF f \ k.nodes # {} THEN k1 ELSE k2]
    BY DEF Scan, Found
<1> HIDE DEF f, t2
<1>3. IF f \ k.nodes # {} THEN del' = [del EXCEPT ![d] = k1] ELSE del' = [del EXCEPT ![d] = k2]
    BY <1>2
<1> HIDE DEF n1, n2
<1>4. /\ k1 \in DelRec /\ k1.pc = "mark" /\ k1.up = k.up /\ k1.by = k.by /\ k1.tree = k.tree
      /\ k1.nodes = n1 /\ k1.stop = k.stop
    BY <1>0, <1>1 DEF DelRec, Stages
<1>5. /\ k2 \in DelRec /\ k2.pc = "cancel" /\ k2.up = k.up /\ k2.by = k.by /\ k2.tree = k.tree
      /\ k2.nodes = n2 /\ k2.stop = t2
    BY <1>0, <1>1 DEF DelRec, Stages
<1> HIDE DEF k1, k2
<1>6. CASE f \ k.nodes # {}
    <2>1. DelGoes(d, "mark", n1, k.up, k.stop)
        BY <1>3, <1>4, <1>6, DelGoesTo
    <2>q. QED
        BY <2>1 DEF Scan, n1, f
<1>7. CASE f \ k.nodes = {}
    <2>1. DelGoes(d, "cancel", n2, k.up, t2) /\ f \subseteq k.nodes
        BY <1>3, <1>5, <1>7, DelGoesTo
    <2>q. QED
        BY <2>1 DEF Scan, n2, t2, f
<1>q. QED
    BY <1>6, <1>7

\* A deletion that begins.
LEMMA DeleteIs ==
  ASSUME Typed, NEW d \in Dels, NEW p \in Procs, NEW tree \in BOOLEAN, Delete(d, p, tree)
  PROVE  /\ DelOthers(d) /\ del' \in [Dels -> DelRec]
         /\ del'[d].pc = "mark" /\ del'[d].by = p /\ del'[d].tree = tree
         /\ del'[d].nodes = IF tree THEN {"parent"} \cup Tree(p) ELSE {"child"}
         /\ ~tree => Tree(p) # {}
<1> DEFINE n == IF tree THEN {"parent"} \cup Tree(p) ELSE {"child"}
           k == [NewDel EXCEPT !.pc = "mark", !.by = p, !.tree = tree, !.nodes = n]
<1>1. n \in SUBSET Nodes
    BY DEF Tree, Nodes
<1>2. del' = [del EXCEPT ![d] = k]
    BY DEF Delete
<1> HIDE DEF n
<1>3. k \in DelRec /\ k.pc = "mark" /\ k.by = p /\ k.tree = tree /\ k.nodes = n
    BY <1>1 DEF NewDel, DelRec, Stages
<1> HIDE DEF k
<1>q. QED
    BY <1>2, <1>3 DEF Typed, DelOthers, Delete, n

\* No parent comes back.
LEMMA ParentsBack ==
  ASSUME Typed, [Next]_vars, NEW p \in Procs, parent'[p]
  PROVE  parent[p]
<1>1. UNCHANGED parent \/ \E d \in Dels : RemoveParent(d)
    BY CallIs DEF Next, RunStep, Called, Refuse, Launch, Look, Read, Publish, Check, Layout,
       Recheck, Save, Rollback, Enter, Lock, Admit, Write, TurnOver, Unlock, Finish, Settle,
       Stop, Show, Delete, DelStep, GiveUp, Mark, Scan, Cancel, Await, StopTasks, TasksOver,
       Forget, Remove, End, vars
<1>q. QED
    BY <1>1 DEF RemoveParent, Typed

\* No run is published in a process whose deletion has its marks up, and none begins to run
\* that was not called.
LEMMA StepsBack ==
  ASSUME Typed, CallsKnow, [Next]_vars, NEW r \in Calls
  PROVE  /\ Published(r)' => Published(r) \/ (call'[r].by = call[r].by /\ ~Deleting(r))
         /\ row'[r] = "running" => row[r] = "running" \/ At(r, "asked")
<1> DEFINE Back == Published(r)' => Published(r) \/ (call'[r].by = call[r].by /\ ~Deleting(r))
           RowBack == row'[r] = "running" => row[r] = "running" \/ At(r, "asked")
<1>1. ASSUME Quiet PROVE Back /\ RowBack
    BY <1>1 DEF Quiet, Still, Published
<1>2. ASSUME NEW q \in Calls, NEW p \in Procs, Spawn(q, p) \/ Resume(q, p) PROVE Back /\ RowBack
    <2>1. Called(q, p)
        BY <1>2, CallIs
    <2>q. QED
        BY <2>1 DEF Called, Others, Published
<1>3. ASSUME NEW q \in Calls, RunMoves(q), q # r PROVE Back /\ RowBack
    <2>1. Others(q)
        BY <1>3, RunGoesOn DEF CallsKnow
    <2>2. row'[r] = row[r]
        BY <1>3 DEF RunMoves, RunStep, Refuse, Launch, Look, Read, Publish, Check, Layout, Recheck,
           Save, Rollback, Enter, Lock, Admit, Write, TurnOver, Unlock, Finish, Settle, Typed
    <2>q. QED
        BY <1>3, <2>1, <2>2 DEF Others, Published
<1>4. ASSUME RunMoves(r) PROVE RowBack
    BY <1>4 DEF RunMoves, RunStep, Refuse, Launch, Look, Read, Publish, Check, Layout, Recheck,
       Save, Rollback, Enter, Lock, Admit, Write, TurnOver, Unlock, Finish, Settle, Typed
<1>5. ASSUME RunMoves(r) PROVE Back
    <2>1. CASE Publish(r)
        <3>1. Goes(r, "finish") \/ ~Deleting(r)
            BY <2>1, GotoIs DEF Publish, Typed, Places
        <3>2. call'[r].by = call[r].by
            BY <2>1, RunsGo DEF Goes
        <3>q. QED
            BY <3>1, <3>2 DEF Goes, Published
    <2>2. CASE Refuse(r) \/ Launch(r) \/ Look(r) \/ Rollback(r) \/ Finish(r) \/ Settle(r) \/ Unlock(r)
        BY <2>2, RunsGo DEF Goes, Published
    <2>3. CASE Read(r)
        BY <2>3, RunsLearn DEF Goes, Published
    <2>4. CASE \/ Check(r) \/ Layout(r) \/ Recheck(r) \/ Save(r) \/ Enter(r) \/ Lock(r) \/ Admit(r)
               \/ Write(r) \/ TurnOver(r)
        BY <2>4 DEF Check, Layout, Recheck, Save, Enter, Lock, Admit, Write, TurnOver, At, Published
    <2>q. QED
        BY <1>5, <2>1, <2>2, <2>3, <2>4 DEF RunMoves, RunStep
<1>q. QED
    BY <1>1, <1>2, <1>3, <1>4, <1>5, QuietIs DEF Next, RunMoves

\* A deletion that does not move keeps what it has waited for.
LEMMA HaltsStay ==
  ASSUME Typed, CallsKnow, [Next]_vars, NEW d \in Dels, Marks(d), Halts(d), del'[d] = del[d]
  PROVE  Halts(d)'
<1> DEFINE p == del[d].by
<1>0. del[d].pc \in Marked => p \in Procs
    BY DEF Marks
<1>1. ASSUME NEW r \in Calls, call'[r].by = p, del[d].pc \in Marked
      PROVE  \/ On(r) /\ call[r].by = p
             \/ /\ Called(r, p) /\ parent[p]
                /\ del[d].tree => del[d].pc \notin {"stop", "wait", "forget", "remove", "last"}
    <2>1. CASE On(r)
        BY <1>1, <2>1 DEF On
    <2>2. CASE \E t \in Procs : Called(r, t)
        BY <1>1, <2>2 DEF Called, MayCall
    <2>q. QED
        BY <2>1, <2>2, Forth
<1>2. del[d].tree /\ del[d].pc = "end" => ~parent'[p]
    BY <1>0, ParentsBack DEF Halts, Marked
<1>3. ASSUME del[d].tree, del[d].pc \in Halted, NEW r \in Calls, call'[r].by = p
      PROVE  On(r) /\ call[r].by = p
    <2>1. del[d].pc \in Marked /\ (del[d].pc = "end" => ~parent[p])
        BY <1>3 DEF Halted, Marked, Halts
    <2>q. QED
        BY <1>1, <1>3, <2>1 DEF Halted
<1>4. ASSUME ~del[d].tree, del[d].pc \in {"cancel", "await", "stop", "wait"} \cup Cleared,
             NEW r \in Calls, call'[r].by = p, Published(r)'
      PROVE  Published(r) /\ call[r].by = p
    <2>1. del[d].pc \in Marked
        BY <1>4 DEF Cleared, Marked
    <2>2. del[d].up # {}
        BY <1>4, <2>1 DEF Marks
    <2>3. On(r) /\ call[r].by = p
        <3>1. ~Called(r, p)
            BY <1>4 DEF Called, Published
        <3>q. QED
            BY <1>1, <1>4, <2>1, <3>1
    <2>4. Deleting(r)
        BY <2>2, <2>3 DEF Deleting
    <2>q. QED
        BY <1>4, <2>3, <2>4, StepsBack
<1> HIDE DEF p
<1>5. ASSUME del[d].tree, del[d].pc \in Halted, NEW r \in Calls, call'[r].by = p
      PROVE  call'[r].pc # "asked"
    <2>1. call'[r].pc = "asked" => call[r].pc = "asked"
        BY <1>3, <1>5 DEF On
    <2>q. QED
        BY <1>3, <1>5, <2>1 DEF Halts, Mine, At, p
<1>6. ASSUME ~del[d].tree, del[d].pc \in {"cancel", "await", "stop", "wait"}, NEW r \in Calls,
             call'[r].by = p, Published(r)'
      PROVE  r \in del[d].stop
    BY <1>4, <1>6 DEF Mine, Halts, p
<1>7. ASSUME del[d].tree, del[d].pc = "wait", NEW r \in Calls, call'[r].by = p,
             row'[r] = "running"
      PROVE  r \in del[d].stop
    <2>1. r \in Mine(p)
        BY <1>3, <1>7 DEF Mine, Halted
    <2>2. ~At(r, "asked")
        BY <1>7, <2>1 DEF Halts, Halted, p
    <2>3. row[r] = "running"
        BY <1>7, <2>2, StepsBack
    <2>q. QED
        BY <1>7, <2>1, <2>3 DEF Halts, p
<1>8. ASSUME del[d].tree, del[d].pc \in Cleared, NEW r \in Calls, call'[r].by = p
      PROVE  ~InFlight(r)'
    <2>1. On(r) /\ r \in Mine(p)
        BY <1>3, <1>8 DEF Mine, Halted, Cleared
    <2>q. QED
        BY <1>8, <2>1 DEF On, Halts, p
<1>9. ASSUME ~del[d].tree, del[d].pc \in Cleared, NEW r \in Calls, call'[r].by = p
      PROVE  ~Published(r)'
    BY <1>4, <1>9 DEF Mine, Halts, p
<1>q. QED
    BY <1>2, <1>5, <1>6, <1>7, <1>8, <1>9 DEF Halts, Mine, At, p

\* A deletion finds the child only after the new call has made or published it.
LEMMA TreeIsFounded ==
  ASSUME CallsKnow, FromTheNew, EntryIsInFlight, Typed, NEW p \in Procs, Tree(p) # {}
  PROVE  Founded
<1>1. CASE disk = "child"
    BY <1>1, MadeIsFounded DEF FromTheNew
<1>2. CASE disk = "layout"
    BY <1>2 DEF FromTheNew, Founded
<1>3. CASE Running(p)
    <2> DEFINE r == live[p]
    <2>1. r \in Calls /\ Holds(r)
        BY <1>3 DEF Running, EntryIsInFlight
    <2> HIDE DEF r
    <2>2. CASE call[r].resume
        BY <2>1, <2>2, MadeIsFounded DEF FromTheNew
    <2>3. CASE ~call[r].resume
        BY <2>1, <2>3 DEF Holds, Published, At, New, Founded
    <2>q. QED
        BY <2>2, <2>3
<1>q. QED
    BY <1>1, <1>2, <1>3 DEF Tree, Typed

\* Nor does it lose what it has found and marked.
LEMMA MarksStay ==
  ASSUME Typed, CallsKnow, [Next]_vars, NEW d \in Dels, Marks(d), del'[d] = del[d]
  PROVE  Marks(d)'
BY FoundedStays DEF Marks

\* A deletion that moves does so for what it has marked, and goes on from a wait only when what
\* it waits for is over.
LEMMA DelMovesOn ==
  ASSUME Typed, CallsKnow, LiveIsTheRun, EntryIsInFlight, FromTheNew, [Next]_vars,
         NEW d \in Dels, Marks(d), Halts(d), DelStep(d) \/ GiveUp(d)
  PROVE  Marks(d)' /\ Halts(d)'
<1> DEFINE p == del[d].by
           Goal == Marks(d)' /\ Halts(d)'
<1> USE DEF Marked, Halted, Cleared, DelAt
<1>0. /\ Quiet /\ \A r \in Calls : Still(r)
      /\ row' = row /\ (Founded => Founded')
      /\ \A r \in Calls : KnowsItself(r) /\ row[r] \in {"none", "running", "over"}
      /\ \A r \in Calls : Published(r) => live[call[r].by] = r
    BY QuietIs, FoundedStays DEF Quiet, Typed, CallsKnow, LiveIsTheRun
<1>a. \A r \in Calls : /\ call'[r].by = call[r].by
                       /\ Published(r)' <=> Published(r)
                       /\ InFlight(r)' <=> InFlight(r)
                       /\ At(r, "asked")' <=> At(r, "asked")
    BY <1>0 DEF Still, Published, InFlight, At
<1>1. CASE Mark(d)
    BY <1>0, <1>1, DelsGo DEF DelGoes, Marks, Halts, Mine
<1>2. CASE Scan(d)
    <2>1. p \in Procs /\ DelAt(d, "scan")
        BY <1>2 DEF Scan, Marks
    <2>2. Found(d) \subseteq {"child"}
        BY <2>1, SeenIs
    <2>3. CASE DelGoes(d, "mark", del[d].nodes \cup Found(d), del[d].up, del[d].stop)
        <3>1. "child" \in Found(d) => Founded
            BY <2>1, TreeIsFounded DEF Found
        <3>2. ~del[d].tree => Found(d) = {}
            BY DEF Found
        <3>q. QED
            BY <1>0, <2>1, <2>3, <3>1, <3>2 DEF DelGoes, Marks, Halts, Mine
    <2>4. CASE /\ Found(d) \subseteq del[d].nodes
               /\ DelGoes(d, "cancel",
                          IF del[d].nodes = {"child"} THEN del[d].nodes ELSE {"parent"} \cup Found(d),
                          del[d].up,
                          IF "child" \in Found(d) \/ ~del[d].tree THEN Task(del[d].by) ELSE {})
        <3>1. Marks(d)'
            BY <1>0, <2>1, <2>4 DEF DelGoes, Marks
        <3>2. \A r \in Mine(p) : Published(r) => r \in Task(p)
            BY <1>0, <1>a DEF Task, Running, Mine
        <3>3. ~del[d].tree => \A r \in Mine(p) : Published(r) => r \in del'[d].stop
            BY <2>4, <3>2 DEF DelGoes
        <3>4. del'[d].by = p /\ del'[d].pc = "cancel" /\ del'[d].tree = del[d].tree
            BY <2>4 DEF DelGoes
        <3>5. Halts(d)'
            BY <1>a, <3>3, <3>4 DEF Halts, Mine
        <3>q. QED
            BY <3>1, <3>5
    <2>q. QED
        BY <1>2, <2>1, <2>3, <2>4, ScanIs
<1>3. CASE Cancel(d)
    <2>1. DelAt(d, "cancel") /\ DelMoves(d, "await")
        BY <1>3, DelsGo
    <2>q. QED
        BY <1>0, <1>a, <2>1 DEF DelMoves, DelGoes, Marks, Halts, Mine
<1>4. CASE Await(d)
    <2>1. DelAt(d, "await") /\ DelMoves(d, "stop") /\ ~Busy(d)
        BY <1>4, DelsGo DEF Await
    <2>2. del[d].tree => \A r \in Mine(p) : ~At(r, "asked")
        BY <2>1 DEF Busy, Turn, Marks
    <2>q. QED
        BY <1>0, <1>a, <2>1, <2>2 DEF DelMoves, DelGoes, Marks, Halts, Mine
<1>5. CASE StopTasks(d)
    <2>1. DelAt(d, "stop") /\ DelGoes(d, "wait", del[d].nodes, del[d].up, Tasks(d))
        BY <1>5, DelsGo
    <2>2. \A r \in Mine(p) : Published(r) => row[r] = "running"
        BY <1>0, <1>a DEF KnowsItself, Published, Mine
    <2>3. ~del[d].tree => \A r \in Mine(p) : Published(r) => r \in Tasks(d)
        BY <2>1, <2>2 DEF Halts, Tasks, Mine
    <2>4. del[d].tree => \A r \in Mine(p) : row[r] = "running" => r \in Tasks(d)
        BY DEF Tasks, Mine
    <2>5. Marks(d)'
        BY <1>0, <2>1 DEF DelGoes, Marks
    <2>6. Halts(d)'
        BY <1>0, <1>a, <2>1, <2>3, <2>4 DEF DelGoes, Halts, Mine
    <2>q. QED
        BY <2>5, <2>6
<1>6. CASE TasksOver(d)
    <2>1. /\ DelAt(d, "wait") /\ DelMoves(d, IF "child" \in del[d].nodes THEN "forget" ELSE "last")
          /\ \A r \in del[d].stop \cap Mine(p) : row[r] # "running"
        BY <1>6, DelsGo DEF TasksOver, Mine
    <2>2. \A r \in Mine(p) : Published(r) => row[r] = "running"
        BY <1>0, <1>a DEF KnowsItself, Published, Mine
    <2>3. ~del[d].tree => \A r \in Mine(p) : ~Published(r)
        BY <2>1, <2>2 DEF Halts, Mine
    <2>4. del[d].tree => \A r \in Mine(p) : row[r] # "running" /\ ~At(r, "asked")
        BY <2>1 DEF Halts, Mine
    <2>5. del[d].tree => \A r \in Mine(p) : ~InFlight(r)
        BY <1>0, <1>a, <2>4 DEF KnowsItself, InFlight, At, Mine
    <2>6. Marks(d)'
        BY <1>0, <2>1 DEF DelMoves, DelGoes, Marks
    <2>7. Halts(d)'
        BY <1>a, <2>1, <2>3, <2>4, <2>5 DEF DelMoves, DelGoes, Halts, Mine
    <2>q. QED
        BY <2>6, <2>7
<1>7. CASE Forget(d)
    <2>1. DelAt(d, "forget") /\ DelMoves(d, "remove")
        BY <1>7, DelsGo
    <2>q. QED
        BY <1>0, <1>a, <2>1 DEF DelMoves, DelGoes, Marks, Halts, Mine
<1>8. CASE Remove(d)
    <2>1. DelAt(d, "remove") /\ DelMoves(d, IF del[d].tree THEN "last" ELSE "end")
        BY <1>8, DelsGo
    <2>2. Marks(d)'
        BY <1>0, <2>1 DEF DelMoves, DelGoes, Marks
    <2>3. Halts(d)'
        BY <1>a, <2>1 DEF DelMoves, DelGoes, Halts, Mine
    <2>q. QED
        BY <2>2, <2>3
<1>9. CASE RemoveParent(d)
    <2>1. DelAt(d, "last") /\ DelMoves(d, "end") /\ p \in Procs /\ del[d].tree
        BY <1>9, DelsGo DEF Marks
    <2>2. ~parent'[p]
        BY <1>9, <2>1 DEF RemoveParent, Typed
    <2>3. Marks(d)'
        BY <1>0, <2>1 DEF DelMoves, DelGoes, Marks
    <2>4. Halts(d)'
        BY <1>a, <2>1, <2>2 DEF DelMoves, DelGoes, Halts, Mine
    <2>q. QED
        BY <2>3, <2>4
<1>10. CASE End(d) \/ GiveUp(d)
    BY <1>10, DelsGo DEF DelGoes, Marks, Halts, Mine
<1>q. QED
    BY <1>1, <1>2, <1>3, <1>4, <1>5, <1>6, <1>7, <1>8, <1>9, <1>10 DEF DelStep

\* Every step keeps what the deletions have marked, stopped and waited for.
LEMMA DelsStep ==
  ASSUME Typed, CallsKnow, LiveIsTheRun, EntryIsInFlight, FromTheNew, DelsHalt, [Next]_vars
  PROVE  DelsHalt'
<1> SUFFICES ASSUME NEW e \in Dels PROVE Marks(e)' /\ Halts(e)'
    BY DEF DelsHalt
<1>0. Marks(e) /\ Halts(e)
    BY DEF DelsHalt
<1>1. CASE del'[e] = del[e]
    BY <1>0, <1>1, MarksStay, HaltsStay
<1>2. CASE DelStep(e) \/ GiveUp(e)
    BY <1>0, <1>2, DelMovesOn
<1>3. ASSUME NEW p \in Procs, NEW tree \in BOOLEAN, Delete(e, p, tree)
      PROVE  Marks(e)' /\ Halts(e)'
    <2>1. /\ del'[e].pc = "mark" /\ del'[e].by = p /\ del'[e].tree = tree
          /\ del'[e].nodes = IF tree THEN {"parent"} \cup Tree(p) ELSE {"child"}
          /\ ~tree => Tree(p) # {}
        BY <1>3, DeleteIs
    <2>2. "child" \in del'[e].nodes => Tree(p) # {}
        BY <2>1
    <2>3. "child" \in del'[e].nodes => Founded'
        BY <2>2, TreeIsFounded, FoundedStays
    <2>q. QED
        BY <2>1, <2>3 DEF Marks, Halts, Marked, Halted, Cleared
<1>4. ASSUME NEW d \in Dels \ {e}, DelStep(d) \/ GiveUp(d) PROVE del'[e] = del[e]
    <2>1. CASE Scan(d)
        <3>1. Marks(d) /\ DelAt(d, "scan")
            BY <2>1 DEF DelsHalt, Scan
        <3>2. del[d].by \in Procs
            BY <3>1 DEF Marks, Marked, DelAt
        <3>3. DelOthers(d)
            BY <2>1, <3>2, ScanIs DEF DelGoes
        <3>q. QED
            BY <3>3 DEF DelOthers
    <2>2. CASE ~Scan(d)
        BY <1>4, <2>2, DelsGo DEF DelStep, DelMoves, DelGoes, DelOthers
    <2>q. QED
        BY <2>1, <2>2
<1>5. ASSUME NEW d \in Dels \ {e}, NEW p \in Procs, NEW tree \in BOOLEAN, Delete(d, p, tree)
      PROVE  del'[e] = del[e]
    <2>1. DelOthers(d)
        BY <1>5, DeleteIs
    <2>q. QED
        BY <2>1 DEF DelOthers
<1>6. UNCHANGED del \/ \E d \in Dels : \/ DelStep(d) \/ GiveUp(d)
                                       \/ \E p \in Procs, tree \in BOOLEAN : Delete(d, p, tree)
    BY CallIs DEF Next, RunStep, Called, Refuse, Launch, Look, Read, Publish, Check, Layout,
       Recheck, Save, Rollback, Enter, Lock, Admit, Write, TurnOver, Unlock, Finish, Settle, Stop,
       Show, vars, delVars
<1>q. QED
    BY <1>1, <1>2, <1>3, <1>4, <1>5, <1>6

-----------------------------------------------------------------------------
(* What is gone stays gone, and the types *)

\* A process whose deletion removed the bundle has no run left that could make it.
LEMMA GoneStep ==
  ASSUME Typed, CallsKnow, OneNew, FromTheNew, DelsHalt, GoneStays, [Next]_vars
  PROVE  GoneStays'
<1> DEFINE Out(p) == /\ disk = "absent" /\ (~parent[p] \/ Founded)
                     /\ \A r \in Calls : call[r].by = p => ~Making(r)
<1>0. \A p \in gone : p \in Procs /\ Out(p)
    BY DEF GoneStays, Mine, Typed
<1>1. ASSUME NEW p \in Procs, Out(p), disk' = "absent", NEW r \in Calls, call'[r].by = p
      PROVE  ~Making(r)'
    <2>1. CASE On(r)
        BY <1>1, <2>1 DEF On
    <2>2. CASE \E t \in Procs : Called(r, t)
        <3>1. Called(r, p)
            BY <1>1, <2>2 DEF Called
        <3>2. Founded
            BY <1>1, <3>1 DEF Called, MayCall
        <3>3. call'[r].resume
            <4>1. PICK t \in Calls : New(t)
                BY <3>2 DEF Founded
            <4>2. New(t)' /\ t # r
                BY <3>1, <4>1 DEF Called, Others, MayCall, At, New
            <4>3. ~New(r)'
                BY <4>2, OneNewStep DEF OneNew
            <4>q. QED
                BY <3>1, <4>3 DEF Called, New
        <3>q. QED
            BY <3>1, <3>3 DEF Called, Making
    <2>q. QED
        BY <2>1, <2>2, Forth
<1>2. ASSUME NEW p \in Procs, Out(p), disk' = "absent"
      PROVE  (disk = "absent" /\ (~parent[p] \/ Founded) /\ \A r \in Mine(p) : ~Making(r))'
    <2>1. ~parent'[p] \/ Founded'
        BY <1>2, ParentsBack, FoundedStays
    <2>q. QED
        BY <1>1, <1>2, <2>1 DEF Mine
<1>3. CASE gone' = {}
    BY <1>3 DEF GoneStays
<1>4. CASE gone' = gone /\ (UNCHANGED disk \/ disk' = "absent")
    BY <1>0, <1>2, <1>4 DEF GoneStays
<1>5. ASSUME NEW d \in Dels, Remove(d) \/ RemoveParent(d) PROVE GoneStays'
    <2> DEFINE p == del[d].by
    <2>1. Quiet /\ disk' = "absent" /\ gone' = gone \cup {p}
        BY <1>5, QuietIs DEF DelStep, Remove, RemoveParent, NoBundle
    <2>2. /\ Marks(d) /\ Halts(d) /\ del[d].pc \in {"remove", "last"}
          /\ RemoveParent(d) => del[d].pc = "last"
        BY <1>5 DEF DelsHalt, Remove, RemoveParent, DelAt
    <2>3. p \in Procs /\ (del[d].pc = "last" => del[d].tree)
        BY <2>2 DEF Marks, Marked
    <2>4. ~parent'[p] \/ Founded'
        <3>1. CASE RemoveParent(d)
            BY <2>3, <3>1 DEF RemoveParent, Typed
        <3>2. CASE Remove(d)
            <4>1. Founded
                BY <2>2, <3>2 DEF Marks, Marked, Remove, DelAt
            <4>q. QED
                BY <4>1, FoundedStays
        <3>q. QED
            BY <1>5, <3>1, <3>2
    <2>5. ASSUME NEW r \in Calls, call[r].by = p PROVE ~Making(r)
        <3>1. CASE del[d].tree
            <4>1. ~InFlight(r)
                BY <2>2, <2>5, <3>1 DEF Halts, Cleared, Mine
            <4>q. QED
                BY <4>1 DEF InFlight, Making
        <3>2. CASE ~del[d].tree
            <4>1. ~Published(r) /\ Founded
                BY <2>2, <2>3, <2>5, <3>2 DEF Halts, Cleared, Mine, Marks, Marked
            <4>2. PICK t \in Calls : New(t) /\ call[t].pc \notin {"asked", "refused", "publish"}
                BY <4>1 DEF Founded
            <4>3. New(r) => r = t
                BY <4>2 DEF OneNew
            <4>q. QED
                BY <4>1, <4>2, <4>3 DEF Published, Making, New
        <3>q. QED
            BY <3>1, <3>2
    <2>6. \A r \in Calls : call'[r].by = call[r].by /\ (Making(r)' => Making(r))
        BY <2>1 DEF Quiet, Still, Making
    <2> HIDE DEF p
    <2>7. /\ disk' = "absent" /\ (~parent'[p] \/ Founded')
          /\ \A r \in Calls : call'[r].by = p => ~Making(r)'
        BY <2>1, <2>4, <2>5, <2>6
    <2>8. ASSUME NEW t \in gone
          PROVE  (disk = "absent" /\ (~parent[t] \/ Founded) /\ \A r \in Mine(t) : ~Making(r))'
        BY <1>0, <1>2, <2>1, <2>8
    <2>q. QED
        BY <2>1, <2>7, <2>8 DEF GoneStays, Mine
<1>6. \/ gone' = {} \/ (gone' = gone /\ (UNCHANGED disk \/ disk' = "absent"))
      \/ \E d \in Dels : Remove(d) \/ RemoveParent(d)
    <2> DEFINE Goal == gone' = {} \/ (gone' = gone /\ (UNCHANGED disk \/ disk' = "absent"))
    <2>1. ASSUME NEW r \in Calls, Write(r) \/ Save(r) \/ Layout(r) \/ Rollback(r) PROVE Goal
        BY <2>1 DEF Write, Save, Layout, Rollback, delVars, bundleVars
    <2>2. ASSUME NEW r \in Calls,
                 \/ Look(r) \/ Read(r) \/ Publish(r) \/ Check(r) \/ Recheck(r) \/ Enter(r)
                 \/ Lock(r) \/ Admit(r) \/ TurnOver(r) \/ Unlock(r) \/ Finish(r) \/ Settle(r)
          PROVE  Goal
        BY <2>2 DEF Look, Read, Publish, Check, Recheck, Enter, Lock, Admit, TurnOver, Unlock,
           Finish, Settle, delVars, bundleVars
    <2>q. QED
        BY <2>1, <2>2, CallIs DEF Next, RunStep, Called, Refuse, Launch, Stop, Show, Delete,
           DelStep, GiveUp, Mark, Scan, Cancel, Await, StopTasks, TasksOver, Forget, End, vars,
           delVars, bundleVars
<1>q. QED
    BY <1>3, <1>4, <1>5, <1>6

\* The calls and the deletions keep their types.
LEMMA RecordsTyped ==
  ASSUME Typed, CallsKnow, DelsHalt, [Next]_vars
  PROVE  call' \in [Calls -> CallRec] /\ del' \in [Dels -> DelRec]
<1>1. call' \in [Calls -> CallRec]
    <2>1. ASSUME NEW r \in Calls, RunMoves(r) PROVE call' \in [Calls -> CallRec]
        BY <2>1, RunGoesOn DEF CallsKnow
    <2>2. ASSUME NEW r \in Calls, NEW p \in Procs, Spawn(r, p) \/ Resume(r, p)
          PROVE  call' \in [Calls -> CallRec]
        BY <2>2, CallIs DEF Called
    <2>q. QED
        BY <2>1, <2>2, QuietIs DEF Next, RunMoves, Quiet
<1>2. ASSUME NEW d \in Dels, DelStep(d) \/ GiveUp(d) PROVE del' \in [Dels -> DelRec]
    <2>1. CASE Scan(d)
        <3>1. Marks(d) /\ DelAt(d, "scan")
            BY <2>1 DEF DelsHalt, Scan
        <3>2. del[d].by \in Procs
            BY <3>1 DEF Marks, Marked, DelAt
        <3>q. QED
            BY <2>1, <3>2, ScanIs DEF DelGoes
    <2>2. CASE ~Scan(d)
        BY <1>2, <2>2, DelsGo DEF DelStep, DelMoves, DelGoes
    <2>q. QED
        BY <2>1, <2>2
<1>3. ASSUME NEW d \in Dels, NEW p \in Procs, NEW tree \in BOOLEAN, Delete(d, p, tree)
      PROVE  del' \in [Dels -> DelRec]
    BY <1>3, DeleteIs
<1>4. UNCHANGED del \/ \E d \in Dels : \/ DelStep(d) \/ GiveUp(d)
                                       \/ \E p \in Procs, tree \in BOOLEAN : Delete(d, p, tree)
    BY CallIs DEF Next, RunStep, Called, Refuse, Launch, Look, Read, Publish, Check, Layout,
       Recheck, Save, Rollback, Enter, Lock, Admit, Write, TurnOver, Unlock, Finish, Settle, Stop,
       Show, vars, delVars
<1>q. QED
    BY <1>1, <1>2, <1>3, <1>4 DEF Typed

\* Every step keeps the types.
LEMMA TypeStep ==
  ASSUME Typed, CallsKnow, SlotsExact, DelsHalt, [Next]_vars
  PROVE  Typed'
<1> DEFINE Rest == /\ row' \in [Calls -> {"none", "running", "over"}]
                   /\ live' \in [Procs -> Calls \cup {Copy, Nothing}]
                   /\ parent' \in [Procs -> BOOLEAN] /\ lock' \in Calls \cup {NoCall}
                   /\ disk' \in {"absent", "layout", "child"} /\ file' \subseteq Calls
                   /\ author' \in Calls \cup {NoCall} /\ gone' \subseteq Procs
<1>0. /\ \A r \in Calls : call[r] \in CallRec /\ (call[r].pc # "idle" => call[r].by \in Procs)
      /\ \A d \in Dels : DelAt(d, "remove") \/ DelAt(d, "last") => del[d].by \in Procs
    BY DEF Typed, CallsKnow, KnowsItself, CallRec, DelsHalt, Marks, Marked, DelAt
<1>1. ASSUME NEW r \in Calls, NEW p \in Procs, Spawn(r, p) \/ Resume(r, p) PROVE Rest
    BY <1>1, CallIs DEF Called, Typed, bundleVars, delVars
<1>2. ASSUME NEW r \in Calls,
             Refuse(r) \/ Stop(r) \/ Look(r) \/ Read(r) \/ Check(r) \/ Recheck(r) \/ Enter(r)
               \/ Admit(r) \/ TurnOver(r)
      PROVE  Rest
    BY <1>2 DEF Typed, Refuse, Stop, Look, Read, Check, Recheck, Enter, Admit, TurnOver, bundleVars,
       delVars
<1>3. ASSUME NEW r \in Calls, Launch(r) \/ Settle(r) PROVE Rest
    BY <1>3 DEF Typed, Launch, Settle, bundleVars, delVars
<1>4. ASSUME NEW r \in Calls, Publish(r) \/ Finish(r) \/ Rollback(r) PROVE Rest
    BY <1>4 DEF Typed, Publish, Finish, Rollback, bundleVars, delVars
<1>5. ASSUME NEW r \in Calls, Lock(r) \/ Unlock(r) PROVE Rest
    BY <1>5 DEF Typed, Lock, Unlock, bundleVars, delVars
<1>6. ASSUME NEW r \in Calls, Layout(r) \/ Save(r) PROVE Rest
    BY <1>6 DEF Typed, Layout, Save
<1>7. ASSUME NEW r \in Calls, Write(r) PROVE Rest
    <2>1. call[r].mem \subseteq Calls
        BY <1>0 DEF CallRec
    <2>q. QED
        BY <1>7, <2>1 DEF Typed, Write
<1>8. ASSUME NEW p \in Procs, Show(p) PROVE Rest
    BY <1>8 DEF Typed, Show, bundleVars, delVars
<1>9. ASSUME NEW d \in Dels, Remove(d) \/ RemoveParent(d) PROVE Rest
    <2>1. del[d].by \in Procs
        BY <1>0, <1>9 DEF Remove, RemoveParent
    <2>q. QED
        BY <1>9, <2>1 DEF Typed, Remove, RemoveParent, NoBundle, runVars
<1>10. ASSUME NEW d \in Dels, Forget(d) PROVE Rest
    BY <1>10 DEF Typed, Forget, runVars, bundleVars
<1>11. ASSUME NEW d \in Dels,
              Mark(d) \/ Scan(d) \/ Cancel(d) \/ Await(d) \/ StopTasks(d) \/ TasksOver(d)
                \/ End(d) \/ GiveUp(d)
       PROVE  Rest
    BY <1>11 DEF Typed, Mark, Scan, Cancel, Await, StopTasks, TasksOver, End, GiveUp, runVars,
       bundleVars
<1>12. ASSUME NEW d \in Dels, NEW p \in Procs, NEW tree \in BOOLEAN, Delete(d, p, tree) PROVE Rest
    BY <1>12 DEF Typed, Delete, runVars, bundleVars
<1>13. UNCHANGED vars => Rest
    BY DEF Typed, vars
<1>14. Rest
    BY <1>1, <1>2, <1>3, <1>4, <1>5, <1>6, <1>7, <1>8, <1>9, <1>10, <1>11, <1>12, <1>13
       DEF Next, RunStep, DelStep
<1>15. slots' \in [Procs -> 0..MaxRuns]
    <2>1. slots' = slots \/ \E p \in Procs, n \in Int : slots' = [slots EXCEPT ![p] = n]
        <3>1. ASSUME NEW r \in Calls, Launch(r) \/ Finish(r)
              PROVE  \E p \in Procs, n \in Int : slots' = [slots EXCEPT ![p] = n]
            <4>1. call[r].by \in Procs /\ slots[call[r].by] \in Int
                BY <1>0, <3>1 DEF Launch, Finish, At, Typed
            <4>q. QED
                BY <3>1, <4>1 DEF Launch, Finish, Release
        <3>2. ASSUME NEW r \in Calls, RunMoves(r), ~Launch(r), ~Finish(r) PROVE slots' = slots
            BY <3>2 DEF RunMoves, RunStep, Refuse, Look, Read, Publish, Check, Layout, Recheck,
               Save, Rollback, Enter, Lock, Admit, Write, TurnOver, Unlock, Settle
        <3>q. QED
            BY <3>1, <3>2, QuietIs, CallIs DEF Next, RunMoves, Quiet, Called
    <2>2. \A p \in Procs : slots'[p] \in 0..MaxRuns
        BY SlotsStep
    <2>q. QED
        BY <2>1, <2>2 DEF Typed
<1>q. QED
    BY <1>14, <1>15, RecordsTyped DEF Typed

\* Nothing is called, published, on disk or deleted at first.
LEMMA InvInit == Init => Inv
<1> SUFFICES ASSUME Init PROVE Inv
    OBVIOUS
<1>1. NewCall \in CallRec /\ NewDel \in DelRec
    BY DEF NewCall, CallRec, Places, NewDel, DelRec, Stages
<1>2. Typed
    BY <1>1, LimitAssumption DEF Init, Typed
<1>3. \A r \in Calls : call[r] = NewCall /\ row[r] = "none"
    BY DEF Init
<1>4. CallsKnow
    BY <1>3 DEF CallsKnow, KnowsItself, NewCall, InTurn
<1>5. OneNew /\ OneInFlight /\ LockHeld /\ LiveIsTheRun /\ ReadIsFresh
    BY <1>3 DEF OneNew, New, OneInFlight, InFlight, LockHeld, LiveIsTheRun, Published,
       ReadIsFresh, HasRead, NewCall
<1>6. EntryIsInFlight
    BY EntryAssumption DEF Init, EntryIsInFlight
<1>7. FromTheNew
    BY <1>3 DEF Init, FromTheNew, NewCall
<1>8. SlotsExact
    <2>1. \A p \in Procs : Holding(p) = {}
        BY <1>3 DEF Holding, Mine
    <2>q. QED
        BY <2>1, FS_EmptySet DEF Init, SlotsExact
<1>9. DelsHalt
    BY DEF Init, DelsHalt, Marks, Halts, NewDel, Marked, Halted, Cleared
<1>10. GoneStays
    BY DEF Init, GoneStays
<1>q. QED
    BY <1>2, <1>4, <1>5, <1>6, <1>7, <1>8, <1>9, <1>10, TypedIs DEF Inv

\* Every step keeps the invariant.
LEMMA InvStep == Inv /\ [Next]_vars => Inv'
<1> SUFFICES ASSUME Inv, [Next]_vars PROVE Inv'
    OBVIOUS
<1>0. /\ Typed /\ CallsKnow /\ OneNew /\ OneInFlight /\ LiveIsTheRun /\ EntryIsInFlight
      /\ LockHeld /\ FromTheNew /\ SlotsExact /\ ReadIsFresh /\ DelsHalt /\ GoneStays
    BY TypedIs DEF Inv
<1>1. Typed'
    BY <1>0, TypeStep
<1>2. TypeOK'
    BY <1>1, TypedIs, PTL
<1>3. CallsKnow' /\ OneNew' /\ OneInFlight'
    BY <1>0, CallsStep, OneNewStep, OneInFlightStep
<1>4. LiveIsTheRun' /\ EntryIsInFlight' /\ LockHeld'
    BY <1>0, LiveStep, LockStep
<1>5. FromTheNew' /\ ReadIsFresh'
    BY <1>0, BundleStep, FreshStep
<1>6. SlotsExact'
    BY <1>0, SlotsStep DEF SlotsExact
<1>7. DelsHalt' /\ GoneStays'
    BY <1>0, DelsStep, GoneStep
<1>q. QED
    BY <1>2, <1>3, <1>4, <1>5, <1>6, <1>7 DEF Inv

-----------------------------------------------------------------------------
(* The theorems *)

\* Every reachable state satisfies the invariant, for any calls, deletions and processes.
THEOREM Invariance == Spec => []Inv
BY InvInit, InvStep, PTL DEF Spec

\* The slots are those of the runs in flight, a run has the live entry of its child to its end,
\* one run writes the transcript at a time, and a bundle that names no child is being made.
THEOREM ChildConsistent == Spec => []ChildIsConsistent
<1>1. Inv => OneWriter
    BY DEF Inv, LockHeld, OneWriter
<1>2. Inv => NoHalfChild
    <2> SUFFICES ASSUME Inv, disk = "layout"
                 PROVE  \E r \in Calls : ~call[r].resume /\ (Published(r) \/ At(r, "rollback"))
        BY DEF NoHalfChild
    <2>1. PICK r \in Calls : New(r) /\ call[r].pc \in {"recheck", "save", "rollback"}
        BY DEF Inv, FromTheNew
    <2>q. QED
        BY <2>1 DEF New, Published, At
<1>3. Inv => ChildIsConsistent
    BY <1>1, <1>2 DEF Inv, ChildIsConsistent
<1>q. QED
    BY <1>3, Invariance, PTL

\* A write takes nothing from the transcript that a run of its own process wrote last.
THEOREM KeptWithin == Spec => KeptWithinProcess
<1> DEFINE Kept == \/ disk' = "absent" \/ file \subseteq file'
                   \/ lock # NoCall /\ author # NoCall /\ call[author].by # call[lock].by
<1>1. ASSUME Inv, NEW r \in Calls, Write(r) PROVE Kept
    <2>1. lock = r /\ file' = call[r].mem \cup {r} /\ HasRead(r)
        BY <1>1 DEF Write, At, Inv, LockHeld, HasRead
    <2>2. author = NoCall => file = {}
        BY <1>1 DEF Inv, FromTheNew
    <2>3. author # NoCall /\ call[author].by = call[r].by => file \subseteq file'
        BY <1>1, <2>1 DEF Inv, ReadIsFresh
    <2>4. lock # NoCall
        BY <2>1, CallsAssumption
    <2>q. QED
        BY <2>1, <2>2, <2>3, <2>4
<1>2. ASSUME Next, ~ \E r \in Calls : Write(r) PROVE file \subseteq file' \/ disk' = "absent"
    <2>1. ASSUME NEW r \in Calls, RunStep(r) PROVE file' = file \/ disk' = "absent"
        BY <2>1 DEF RunStep, Look, Read, Publish, Check, Layout, Recheck, Save, Rollback, Enter,
           Lock, Admit, Unlock, Finish, Settle, bundleVars
    <2>2. ASSUME NEW d \in Dels, DelStep(d) \/ GiveUp(d) PROVE file' = file \/ disk' = "absent"
        BY <2>2 DEF DelStep, GiveUp, Mark, Scan, Cancel, Await, StopTasks, TasksOver, Forget, Remove,
           RemoveParent, End, NoBundle, bundleVars
    <2>q. QED
        BY <1>2, <2>1, <2>2 DEF Next, Spawn, Resume, Refuse, Launch, Stop, TurnOver, Show, Delete,
           bundleVars
<1>3. Inv /\ [Next]_vars => [Kept]_vars
    BY <1>1, <1>2
<1>q. QED
    BY <1>3, Invariance, PTL DEF Spec, KeptWithinProcess

\* A bundle that is gone is not brought back by a run of a process whose deletion removed it.
THEOREM DeletedStays == Spec => DeletedStaysGone
<1> DEFINE Stays == disk = "absent" /\ disk' # "absent" =>
                      \E r \in Calls : Acted(r) /\ call[r].by \notin gone
<1>1. ASSUME Inv, NEW r \in Calls, Layout(r) \/ Save(r) \/ Write(r), disk = "absent", disk' # "absent"
      PROVE  Acted(r) /\ call[r].by \notin gone
    <2>1. Typed /\ KnowsItself(r)
        BY <1>1, TypedIs DEF Inv, CallsKnow
    <2>2. Making(r)
        BY <1>1 DEF Layout, Save, Write, At, Making
    <2>3. call[r].by \notin gone
        BY <1>1, <2>2 DEF Inv, GoneStays, Mine
    <2>4. call'[r].pc # call[r].pc
        BY <1>1, <2>1, RunsGo, RunsLearn DEF Goes, At
    <2>q. QED
        BY <2>3, <2>4 DEF Acted
<1>2. ASSUME Next, disk = "absent", disk' # "absent"
      PROVE  \E r \in Calls : Layout(r) \/ Save(r) \/ Write(r)
    <2>1. ASSUME NEW r \in Calls, RunStep(r) PROVE Layout(r) \/ Save(r)
        BY <1>2, <2>1 DEF RunStep, Look, Read, Publish, Check, Recheck, Rollback, Enter,
           Lock, Admit, Unlock, Finish, Settle, bundleVars
    <2>2. ASSUME NEW d \in Dels, DelStep(d) \/ GiveUp(d) PROVE FALSE
        BY <1>2, <2>2 DEF DelStep, GiveUp, Mark, Scan, Cancel, Await, StopTasks, TasksOver, Forget,
           Remove, RemoveParent, End, NoBundle, bundleVars
    <2>q. QED
        BY <1>2, <2>1, <2>2 DEF Next, Spawn, Resume, Refuse, Launch, Stop, TurnOver, Show, Delete,
           bundleVars
<1>3. Inv /\ [Next]_vars => [Stays]_vars
    BY <1>1, <1>2
<1>q. QED
    BY <1>3, Invariance, PTL DEF Spec, DeletedStaysGone
================================================================================
