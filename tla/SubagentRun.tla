------------------------------ MODULE SubagentRun ------------------------------
(***************************************************************************)
(* The runs of one subagent child: spawn_agent starts it, a later call     *)
(* resumes it, and a deletion removes it alone or with its parent          *)
(* (internal/agent/subagent.go, internal/session/subagent.go).             *)
(*                                                                         *)
(* A call of spawn_agent is its run and its task.  Processes share the     *)
(* bundles: the turn of the parent may be in one while a run of the child  *)
(* that an earlier turn left in the background is in another.  The turn    *)
(* lock of the child is one variable here; its protocol is TurnLock, and   *)
(* the admission of a turn is TurnAdmission.                               *)
(***************************************************************************)
EXTENDS Integers, FiniteSets

CONSTANTS
  Calls,      \* bound: the calls of spawn_agent that name this child
  Dels,       \* bound: the deletions
  Procs,      \* the processes that share the sessions
  MaxRuns,    \* subagents.max_concurrent
  NoCall, NoProc

ASSUME CallsAssumption == IsFiniteSet(Calls) /\ NoCall \notin Calls /\ NoProc \notin Procs
ASSUME LimitAssumption == MaxRuns \in Nat

VARIABLES
  call,    \* per call: where its goroutine is and what it knows, see NewCall
  row,     \* per call: its task, "none", "running", "over"
  live,    \* per process: the entry of the child in the live map
  parent,  \* per process: whether the parent is live
  slots,   \* per process: the slots of the limiter in use
  lock,    \* the turn lock of the child
  disk,    \* the bundle of the child: "absent", "layout" or "child"
  file,    \* the runs whose messages the transcript on disk holds
  author,  \* the task the bundle names
  del,     \* per deletion: where it is and what it saw, see NewDel
  gone     \* history: the processes whose deletion removed the bundle, as long as none is there

vars == <<call, row, live, parent, slots, lock, disk, file, author, del, gone>>
bundleVars == <<disk, file, author>>
delVars == <<del, gone>>

\* resume: the call continues the child. created: the run got its session. stopped: its context,
\* or that of its turn, is over. mem: the runs whose messages its State holds.
NewCall == [pc |-> "idle", by |-> NoProc, resume |-> FALSE, created |-> FALSE,
            stopped |-> FALSE, mem |-> {}]
\* nodes: what it saw of the tree. up: the marks it has raised. stop: the tasks it stops.
NewDel == [pc |-> "idle", by |-> NoProc, tree |-> FALSE, nodes |-> {}, up |-> {}, stop |-> {}]

Copy == "copy"    \* the entry of a surface that shows the transcript
Nothing == "nothing"

ASSUME EntryAssumption == Copy \notin Calls /\ Nothing \notin Calls

Init ==
  /\ call = [r \in Calls |-> NewCall] /\ row = [r \in Calls |-> "none"]
  /\ live = [p \in Procs |-> Nothing] /\ parent = [p \in Procs |-> TRUE]
  /\ slots = [p \in Procs |-> 0]
  /\ lock = NoCall /\ disk = "absent" /\ file = {} /\ author = NoCall
  /\ del = [d \in Dels |-> NewDel] /\ gone = {}

At(r, s) == call[r].pc = s
Goto(r, s) == call' = [call EXCEPT ![r].pc = s]
Mine(p) == {r \in Calls : call[r].by = p}
\* isDeleting of the parent, or of the child: marks count, and here the deletions are counted.
Deleting(r) == \E d \in Dels : del[d].by = call[r].by /\ del[d].up # {}
\* The turn of the parent, which makes the calls one after the other, is in one process.
Turn(p) == \E r \in Mine(p) : At(r, "asked")
\* SessionTurnActiveInProcess of the child.
Active(r) == call[r].pc \in {"lock", "admit", "work", "wrote"}

-----------------------------------------------------------------------------
(* spawn_agent, on the goroutine of the parent's turn. *)

\* The turn of the parent runs in p and calls the tool: a turn is refused to a parent that is
\* not live, and one that a deletion waited for is over.
MayCall(r, p) ==
  /\ At(r, "idle") /\ parent[p] /\ \A s \in Calls : ~At(s, "asked")
  /\ \A d \in Dels : del[d].by = p /\ del[d].tree =>
                      del[d].pc \notin {"stop", "wait", "forget", "remove", "last"}

Spawn(r, p) ==
  /\ MayCall(r, p) /\ \A s \in Calls : call[s].by = NoProc \/ call[s].resume
  /\ call' = [call EXCEPT ![r] = [NewCall EXCEPT !.pc = "asked", !.by = p]]
  /\ UNCHANGED <<row, live, parent, slots, lock, bundleVars, delVars>>

\* Mutant: a run of the child that is in flight is not looked for.
ResumeRunning(r, p) ==
  /\ MayCall(r, p) /\ \E s \in Calls : row[s] # "none"
  /\ disk = "child"
  /\ call' = [call EXCEPT ![r] = [NewCall EXCEPT !.pc = "asked", !.by = p, !.resume = TRUE]]
  /\ UNCHANGED <<row, live, parent, slots, lock, bundleVars, delVars>>

\* findResumeTarget: the child has a task, none of this process runs (a task that another
\* process runs reads as an orphan, which is over), and its transcript is on disk.
Resume(r, p) ==
  /\ MayCall(r, p) /\ \E s \in Calls : row[s] # "none"
  /\ \A s \in Mine(p) : row[s] # "running"
  /\ disk = "child"
  /\ call' = [call EXCEPT ![r] = [NewCall EXCEPT !.pc = "asked", !.by = p, !.resume = TRUE]]
  /\ UNCHANGED <<row, live, parent, slots, lock, bundleVars, delVars>>

\* A hook blocks the call, the limiter is full, or the pool does not take the task.  In that last
\* case the launcher runs finish, which for a new child retires an entry there is not.
Refuse(r) ==
  /\ At(r, "asked") /\ Goto(r, "refused")
  /\ UNCHANGED <<row, live, parent, slots, lock, bundleVars, delVars>>

Launch(r) ==
  /\ At(r, "asked") /\ slots[call[r].by] < MaxRuns
  /\ slots' = [slots EXCEPT ![call[r].by] = @ + 1]
  /\ row' = [row EXCEPT ![r] = "running"]
  /\ Goto(r, IF call[r].resume THEN "look" ELSE "publish")
  /\ UNCHANGED <<live, parent, lock, bundleVars, delVars>>

\* background_stop, the timeout of the task, or the end of a turn that waits for the run.
Stop(r) ==
  /\ row[r] = "running" /\ ~call[r].stopped
  /\ call' = [call EXCEPT ![r].stopped = TRUE]
  /\ UNCHANGED <<row, live, parent, slots, lock, bundleVars, delVars>>

-----------------------------------------------------------------------------
(* CreateSubagentSession, on the goroutine of the run. *)

Running(p) == live[p] \in Calls

Look(r) ==
  /\ At(r, "look") /\ Goto(r, IF Running(call[r].by) THEN "finish" ELSE "read")
  /\ UNCHANGED <<row, live, parent, slots, lock, bundleVars, delVars>>

\* resumableChildSnapshot.
Read(r) ==
  /\ At(r, "read")
  /\ call' = [call EXCEPT ![r] = IF disk = "child" THEN [@ EXCEPT !.pc = "publish", !.mem = file]
                                 ELSE [@ EXCEPT !.pc = "finish"]]
  /\ UNCHANGED <<row, live, parent, slots, lock, bundleVars, delVars>>

\* One section of the lock of the live map.  The copy of a surface gives way.
Publish(r) ==
  /\ At(r, "publish")
  /\ LET p == call[r].by
         refused == call[r].stopped \/ Running(p) \/ ~parent[p] \/ Deleting(r)
     IN  /\ Goto(r, IF refused THEN "finish" ELSE "check")
         /\ live' = IF refused THEN live ELSE [live EXCEPT ![p] = r]
  /\ UNCHANGED <<row, parent, slots, lock, bundleVars, delVars>>

\* refuseIfParentDeleting.
Unwanted(r) == live[call[r].by] # r \/ Deleting(r)

\* Before the layout.  A resumed child has its layout, if it was not deleted in between.
Check(r) ==
  /\ At(r, "check")
  /\ Goto(r, IF Unwanted(r) THEN "rollback"
             ELSE IF ~call[r].resume THEN "layout"
             ELSE IF disk = "child" THEN "recheck" ELSE "rollback")
  /\ UNCHANGED <<row, live, parent, slots, lock, bundleVars, delVars>>

\* EnsureChildLayout makes the folders above the bundle too.
Layout(r) ==
  /\ At(r, "layout") /\ Goto(r, "recheck")
  /\ disk' = IF disk = "absent" THEN "layout" ELSE disk
  /\ gone' = {}
  /\ UNCHANGED <<row, live, parent, slots, lock, file, author, del>>

\* After the servers of the child were dialled.
Recheck(r) ==
  /\ At(r, "recheck")
  /\ call' = [call EXCEPT ![r] =
       IF call[r].stopped \/ Unwanted(r) THEN [@ EXCEPT !.pc = "rollback"]
       ELSE IF call[r].resume THEN [@ EXCEPT !.pc = "enter", !.created = TRUE]
       ELSE [@ EXCEPT !.pc = "save"]]
  /\ UNCHANGED <<row, live, parent, slots, lock, bundleVars, delVars>>

\* The first save names the child on disk; it may fail.
Save(r) ==
  /\ At(r, "save")
  /\ \/ /\ disk' = "child" /\ author' = r /\ gone' = {}
        /\ call' = [call EXCEPT ![r].pc = "enter", ![r].created = TRUE]
     \/ Goto(r, "rollback") /\ UNCHANGED <<disk, author, gone>>
  /\ UNCHANGED <<row, live, parent, slots, lock, file, del>>

\* Mutant: the bundle of a creation that failed is left.
RollbackLeaves(r) ==
  /\ At(r, "rollback") /\ Goto(r, "finish")
  /\ live' = [live EXCEPT ![call[r].by] = IF @ = r THEN Nothing ELSE @]
  /\ UNCHANGED <<row, parent, slots, lock, bundleVars, delVars>>

\* The deferred rollback: only a new child takes its bundle along.
Rollback(r) ==
  /\ At(r, "rollback") /\ Goto(r, "finish")
  /\ live' = [live EXCEPT ![call[r].by] = IF @ = r THEN Nothing ELSE @]
  /\ IF call[r].resume THEN UNCHANGED bundleVars
     ELSE disk' = "absent" /\ file' = {} /\ author' = NoCall
  /\ UNCHANGED <<row, parent, slots, lock, delVars>>

-----------------------------------------------------------------------------
(* RunSubagentTurn and the end of the run. *)

\* admissible, of the child's own mark; after the first look the turn counts as active.
Admissible(r) ==
  /\ live[call[r].by] = r
  /\ \A d \in Dels : del[d].by = call[r].by => "child" \notin del[d].up

Enter(r) ==
  /\ At(r, "enter") /\ Goto(r, IF Admissible(r) THEN "lock" ELSE "finish")
  /\ UNCHANGED <<row, live, parent, slots, lock, bundleVars, delVars>>

\* The turn lock, and SetCancel: a turn of another process refuses this one.
Lock(r) ==
  /\ At(r, "lock")
  /\ IF lock = NoCall THEN Goto(r, "admit") /\ lock' = r
     ELSE Goto(r, "finish") /\ UNCHANGED lock
  /\ UNCHANGED <<row, live, parent, slots, bundleVars, delVars>>

Admit(r) ==
  /\ At(r, "admit") /\ Goto(r, IF Admissible(r) /\ ~call[r].stopped THEN "work" ELSE "unlock")
  /\ UNCHANGED <<row, live, parent, slots, lock, bundleVars, delVars>>

\* What the run adds is saved behind what its State holds.
Write(r) ==
  /\ At(r, "work") /\ Goto(r, "wrote")
  /\ disk' = "child" /\ file' = call[r].mem \cup {r} /\ author' = r /\ gone' = {}
  /\ UNCHANGED <<row, live, parent, slots, lock, del>>

TurnOver(r) ==
  /\ call[r].pc \in {"work", "wrote"} /\ Goto(r, "unlock")
  /\ UNCHANGED <<row, live, parent, slots, lock, bundleVars, delVars>>

Unlock(r) ==
  /\ At(r, "unlock") /\ Goto(r, "finish") /\ lock' = NoCall
  /\ UNCHANGED <<row, live, parent, slots, bundleVars, delVars>>

Release(r) == slots' = [slots EXCEPT ![call[r].by] = @ - 1]

\* finish: what the run owns is retired, whatever entry that is, and the slot goes back.
Finish(r) ==
  /\ At(r, "finish") /\ Goto(r, "settle")
  /\ live' = IF call[r].created \/ ~call[r].resume THEN [live EXCEPT ![call[r].by] = Nothing] ELSE live
  /\ Release(r)
  /\ UNCHANGED <<row, parent, lock, bundleVars, delVars>>

\* The handle is closed, and the pool's supervisor settles the task.
Settle(r) ==
  /\ At(r, "settle") /\ Goto(r, "over") /\ row' = [row EXCEPT ![r] = "over"]
  /\ UNCHANGED <<live, parent, slots, lock, bundleVars, delVars>>

\* A surface loads the transcript to show it, or lets go of it.
Show(p) ==
  /\ \/ live[p] = Nothing /\ disk = "child" /\ live' = [live EXCEPT ![p] = Copy]
     \/ live[p] = Copy /\ live' = [live EXCEPT ![p] = Nothing]
  /\ UNCHANGED <<call, row, parent, slots, lock, bundleVars, delVars>>

-----------------------------------------------------------------------------
(* DeleteSessionTree, of the child or of its parent. *)

\* SessionTree: the child is a bundle on disk, or published and not yet saved.
Tree(p) == IF disk # "absent" \/ Running(p) THEN {"child"} ELSE {}
DelAt(d, s) == del[d].pc = s
Move(d, s) == del' = [del EXCEPT ![d].pc = s]
runVars == <<call, row, slots, lock>>

Delete(d, p, tree) ==
  /\ DelAt(d, "idle") /\ IF tree THEN parent[p] ELSE Tree(p) # {}
  /\ del' = [del EXCEPT ![d] =
       [NewDel EXCEPT !.pc = "mark", !.by = p, !.tree = tree,
                      !.nodes = IF tree THEN {"parent"} \cup Tree(p) ELSE {"child"}]]
  /\ UNCHANGED <<runVars, live, parent, bundleVars, gone>>

Mark(d) ==
  /\ DelAt(d, "mark") /\ del' = [del EXCEPT ![d].pc = "scan", ![d].up = del[d].nodes]
  /\ UNCHANGED <<runVars, live, parent, bundleVars, gone>>

\* The task of the child is that of the run that holds it, or the one its bundle names.
Task(p) == IF Running(p) THEN {live[p]} ELSE {author} \ {NoCall}

\* The tree is scanned until it shows no node without a mark.
Scan(d) ==
  /\ DelAt(d, "scan")
  /\ LET p == del[d].by
         seen == del[d].nodes
         found == IF del[d].tree THEN Tree(p) ELSE {}
     IN  del' = [del EXCEPT ![d] =
           IF found \ seen # {} THEN [@ EXCEPT !.pc = "mark", !.nodes = seen \cup found]
           ELSE [@ EXCEPT !.pc = "cancel", !.nodes = IF seen = {"child"} THEN seen ELSE {"parent"} \cup found,
                          !.stop = IF "child" \in found \/ ~del[d].tree THEN Task(p) ELSE {}]]
  /\ UNCHANGED <<runVars, live, parent, bundleVars, gone>>

\* State.Cancel reaches a run whose turn has set its cancel.
Cancel(d) ==
  /\ DelAt(d, "cancel") /\ Move(d, "await")
  /\ LET r == live[del[d].by]
     IN  call' = IF "child" \in del[d].nodes /\ r \in Calls /\ call[r].pc \in {"admit", "work", "wrote"}
                 THEN [call EXCEPT ![r].stopped = TRUE] ELSE call
  /\ UNCHANGED <<row, slots, lock, live, parent, bundleVars, gone>>

Busy(d) ==
  \/ "child" \in del[d].nodes /\ \E r \in Mine(del[d].by) : Active(r)
  \/ "parent" \in del[d].nodes /\ Turn(del[d].by)

Await(d) ==
  /\ DelAt(d, "await") /\ ~Busy(d) /\ Move(d, "stop")
  /\ UNCHANGED <<runVars, live, parent, bundleVars, gone>>

\* A turn outlives the wait: the deletion is given up, and the marks go down.
GiveUp(d) ==
  /\ DelAt(d, "await") /\ Busy(d)
  /\ del' = [del EXCEPT ![d].pc = "failed", ![d].up = {}]
  /\ UNCHANGED <<runVars, live, parent, bundleVars, gone>>

\* Mutant: a run that is between two turns, or has none yet, is not stopped.
StopNothing(d) ==
  /\ DelAt(d, "stop") /\ del' = [del EXCEPT ![d].pc = "wait", ![d].stop = {}]
  /\ UNCHANGED <<runVars, live, parent, bundleVars, gone>>

\* pool.Stop of the child's task, and StopSession: every task of a parent that goes too.
StopTasks(d) ==
  /\ DelAt(d, "stop")
  /\ LET p == del[d].by
         tasks == {r \in Mine(p) : row[r] = "running" /\ (r \in del[d].stop \/ del[d].tree)}
     IN  /\ del' = [del EXCEPT ![d].pc = "wait", ![d].stop = tasks]
         /\ call' = [r \in Calls |-> IF r \in tasks THEN [call[r] EXCEPT !.stopped = TRUE] ELSE call[r]]
  /\ UNCHANGED <<row, slots, lock, live, parent, bundleVars, gone>>

TasksOver(d) ==
  /\ DelAt(d, "wait") /\ \A r \in del[d].stop \cap Mine(del[d].by) : row[r] # "running"
  /\ Move(d, IF "child" \in del[d].nodes THEN "forget" ELSE "last")
  /\ UNCHANGED <<runVars, live, parent, bundleVars, gone>>

Forget(d) ==
  /\ DelAt(d, "forget") /\ Move(d, "remove")
  /\ live' = [live EXCEPT ![del[d].by] = Nothing]
  /\ UNCHANGED <<runVars, parent, bundleVars, gone>>

NoBundle == disk' = "absent" /\ file' = {} /\ author' = NoCall

Remove(d) ==
  /\ DelAt(d, "remove") /\ Move(d, IF del[d].tree THEN "last" ELSE "end") /\ NoBundle
  /\ gone' = gone \cup {del[d].by}
  /\ UNCHANGED <<runVars, live, parent>>

\* The parent's live entry and its folder, the bundle of the child inside it.
RemoveParent(d) ==
  /\ DelAt(d, "last") /\ Move(d, "end") /\ NoBundle
  /\ parent' = [parent EXCEPT ![del[d].by] = FALSE]
  /\ gone' = gone \cup {del[d].by}
  /\ UNCHANGED <<runVars, live>>

End(d) ==
  /\ DelAt(d, "end") /\ del' = [del EXCEPT ![d].pc = "done", ![d].up = {}]
  /\ UNCHANGED <<runVars, live, parent, bundleVars, gone>>

-----------------------------------------------------------------------------
RunStep(r) ==
  \/ Look(r) \/ Read(r) \/ Publish(r) \/ Check(r) \/ Layout(r) \/ Recheck(r) \/ Save(r)
  \/ Rollback(r) \/ Enter(r) \/ Lock(r) \/ Admit(r) \/ Unlock(r) \/ Finish(r) \/ Settle(r)
DelStep(d) ==
  \/ Mark(d) \/ Scan(d) \/ Cancel(d) \/ Await(d) \/ StopTasks(d) \/ TasksOver(d)
  \/ Forget(d) \/ Remove(d) \/ RemoveParent(d) \/ End(d)
Next ==
  \/ \E r \in Calls, p \in Procs : Spawn(r, p) \/ Resume(r, p)
  \/ \E r \in Calls : Refuse(r) \/ Launch(r) \/ Stop(r) \/ RunStep(r) \/ Write(r) \/ TurnOver(r)
  \/ \E p \in Procs : Show(p)
  \/ \E d \in Dels, p \in Procs, tree \in BOOLEAN : Delete(d, p, tree)
  \/ \E d \in Dels : DelStep(d) \/ GiveUp(d)

Spec == Init /\ [][Next]_vars

-----------------------------------------------------------------------------
TypeOK ==
  /\ call \in [Calls -> [pc : {"idle", "asked", "refused", "look", "read", "publish", "check",
                               "layout", "recheck", "save", "rollback", "enter", "lock", "admit",
                               "work", "wrote", "unlock", "finish", "settle", "over"},
                         by : Procs \cup {NoProc}, resume : BOOLEAN, created : BOOLEAN,
                         stopped : BOOLEAN, mem : SUBSET Calls]]
  /\ row \in [Calls -> {"none", "running", "over"}]
  /\ live \in [Procs -> Calls \cup {Copy, Nothing}] /\ parent \in [Procs -> BOOLEAN]
  /\ slots \in [Procs -> 0..MaxRuns] /\ lock \in Calls \cup {NoCall}
  /\ disk \in {"absent", "layout", "child"} /\ file \subseteq Calls
  /\ author \in Calls \cup {NoCall} /\ gone \subseteq Procs
  /\ del \in [Dels -> [pc : {"idle", "mark", "scan", "cancel", "await", "stop", "wait", "forget",
                             "remove", "last", "end", "done", "failed"},
                       by : Procs \cup {NoProc}, tree : BOOLEAN, nodes : SUBSET {"parent", "child"},
                       up : SUBSET {"parent", "child"}, stop : SUBSET Calls]]

\* The slots of the limiter in use are those of the runs in flight, whichever way a run ends:
\* none is leaked by a refused resume, and none is given back twice.
Holding(p) == {r \in Mine(p) : row[r] = "running" /\ ~At(r, "settle")}
SlotsExact == \A p \in Procs : slots[p] = Cardinality(Holding(p))

\* A run has the live entry of its child from the publish to its end: no surface that shows the
\* child or lets go of it, no other run, and no deletion, which stops a run in its creation and
\* waits for it, takes the entry away or puts another in its place.
Published(r) ==
  call[r].pc \in {"check", "layout", "recheck", "save", "enter", "lock", "admit", "work", "wrote", "unlock"}
LiveIsTheRun == \A r \in Calls : Published(r) => live[call[r].by] = r

\* The transcript of a child is written by one run at a time.
OneWriter == \A r, s \in Calls : {call[r].pc, call[s].pc} \subseteq {"work", "wrote"} => r = s

\* No half-built child is left: a bundle that names no subagent belongs to a run that is
\* being created.
NoHalfChild == disk = "layout" => \E r \in Calls : ~call[r].resume /\ (Published(r) \/ At(r, "rollback"))

\* What a run goes on from is what its process wrote last: a write takes nothing from the
\* transcript unless a run of another process wrote it in between, however resumes, refused
\* resumes, deletions and shown copies interleave in the process of that run.
KeptWithinProcess ==
  [][\/ disk' = "absent" \/ file \subseteq file'
     \/ lock # NoCall /\ author # NoCall /\ call[author].by # call[lock].by]_vars

\* Once a deletion has removed the bundle, no run of its process brings it back, whatever that
\* run had read or was building by then.
Acted(r) == call'[r] # call[r]
DeletedStaysGone ==
  [][disk = "absent" /\ disk' # "absent" => \E r \in Calls : Acted(r) /\ call[r].by \notin gone]_vars

\* Known not to hold: ... in every process.  A task of another process reads as an orphan, so
\* its child is resumed while it works; if it is over when the resumed run asks for the turn
\* lock, that run goes on from the transcript it read before.
RunsAreKept == [][disk' = "absent" \/ file \subseteq file']_vars

\* What a process keeps of a child matches its runs: the slots, the live entry, the turn lock
\* over the transcript and the bundle on the disk.
ChildIsConsistent == TypeOK /\ SlotsExact /\ LiveIsTheRun /\ OneWriter /\ NoHalfChild
===============================================================================
