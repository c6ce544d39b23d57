---------------------------- MODULE PermissionGate ----------------------------
(***************************************************************************)
(* A turn of the HTTP server asks before it runs a tool call.  The prompt  *)
(* waits in memory and is recorded in the bundle, pending_permission.json, *)
(* so that an answer finds the wait, or, when the stream dropped or the    *)
(* process is gone, finds the record and resumes the turn from it.         *)
(*                                                                         *)
(* external/httpserver/bridge.go (RequestPermission), permissionhub.go,    *)
(* foxxycode_foxxycode.go (the POST), permission_resume.go,                *)
(* internal/session/pending_permission.go, internal/agent/react.go (the    *)
(* batch), resume_permission.go.                                           *)
(*                                                                         *)
(* One session, one batch of calls that each need an answer, and processes *)
(* that share the bundle.  The turn lock is TurnLock's, the transcript,    *)
(* which a turn re-reads when it begins, is SessionBundle's: here one turn *)
(* runs at a time and sees every result recorded before it.                *)
(***************************************************************************)
EXTENDS Integers, Sequences, FiniteSets

CONSTANTS
  Procs,       \* the processes that share the bundle
  Batch,       \* the length of the batch of calls
  Posts,       \* bound: the answers posted
  MaxPrompts,  \* bound: prompts typed after the first
  MaxStops,    \* bound: turns stopped
  MaxRepeats,  \* bound: prompts asked again because the request moved
  MaxCrashes   \* bound: processes killed

ASSUME SetsAssumption == IsFiniteSet(Procs) /\ IsFiniteSet(Posts)
ASSUME BoundsAssumption ==
  /\ Batch \in Nat \ {0} /\ MaxPrompts \in Nat /\ MaxStops \in Nat
  /\ MaxRepeats \in Nat /\ MaxCrashes \in Nat

Calls == 1..Batch
Nobody == "nobody"
NoCall == 0
Verdicts == {"allow", "deny"}

VARIABLES
  turn,      \* the turn that holds the lock, see NoTurn
  announced, \* the assistant message with the batch is in the transcript
  newer,     \* a message follows the batch and its results
  results,   \* per call: the results the transcript holds for it
  gate,      \* pending_permission.json: the call it names, or NoCall
  waits,     \* per process: the call it has a wait registered for, or NoCall
  inbox,     \* per process: the buffered channel of that wait
  post,      \* per answer: where its request stands, see NoPost
  ran,       \* history: how often a call was run
  allowed,   \* history: the calls an acknowledged answer allowed
  killed,    \* history: how often a process died between the run of a call and its result
  left       \* what the bounds leave

vars == <<turn, announced, newer, results, gate, waits, inbox, post, ran, allowed, killed, left>>

\* pc: "call" (the next call is looked at), "ask" (a wait is registered), "wait", "lift" (the
\* prompt is over: its record goes), "leave" (the wait goes), "run", "record", "find" (a
\* resumed turn looks for its call), "again" (it asks once more), "deny", "close" (the rest of the batch), "model".
TurnOf(p, pc, c) ==
  [proc |-> p, pc |-> pc, at |-> c, verdict |-> "none", stop |-> FALSE, by |-> "prompt"]
NoTurn == TurnOf(Nobody, "none", NoCall)
NoPost == [pc |-> "unsent", proc |-> Nobody, call |-> NoCall, verdict |-> "none"]

Budgets == {"prompt", "stop", "repeat", "crash"}
Bound(b) == CASE b = "prompt" -> MaxPrompts [] b = "stop" -> MaxStops
              [] b = "repeat" -> MaxRepeats [] b = "crash" -> MaxCrashes

Init ==
  /\ turn = NoTurn /\ announced = FALSE /\ newer = FALSE
  /\ results = [c \in Calls |-> <<>>] /\ gate = NoCall
  /\ waits = [p \in Procs |-> NoCall] /\ inbox = [p \in Procs |-> <<>>]
  /\ post = [i \in Posts |-> NoPost]
  /\ ran = [c \in Calls |-> 0] /\ allowed = {} /\ killed = [c \in Calls |-> 0]
  /\ left = [b \in Budgets |-> Bound(b)]

At(pc) == turn.pc = pc
Go(pc) == turn' = [turn EXCEPT !.pc = pc]
Spend(what) == left[what] > 0 /\ left' = [left EXCEPT ![what] = @ - 1]
Answered(c) == results[c] # <<>>
Record(c, r) == results' = [results EXCEPT ![c] = Append(@, r)]
\* Every call from c on that has no result is given one.
RecordRest(c, r) ==
  results' = [d \in Calls |-> IF d >= c /\ ~Answered(d) THEN <<r>> ELSE results[d]]

-----------------------------------------------------------------------------
(* A turn and its batch. *)

\* The first prompt leads to the batch; a later one is a message after it.
Prompt(p) ==
  /\ turn = NoTurn
  /\ IF announced
     THEN /\ Spend("prompt") /\ newer' = TRUE /\ UNCHANGED announced
          /\ turn' = TurnOf(p, "model", NoCall)
     ELSE /\ announced' = TRUE /\ UNCHANGED <<newer, left>>
          /\ turn' = TurnOf(p, "call", 1)
  /\ UNCHANGED <<results, gate, waits, inbox, post, ran, allowed, killed>>

\* Between two calls a stopped turn gives the rest of the batch a result and ends.
BatchStopped ==
  /\ At("call") /\ turn.stop
  /\ RecordRest(turn.at, "skipped")
  /\ turn' = NoTurn
  /\ UNCHANGED <<announced, newer, gate, waits, inbox, post, ran, allowed, killed, left>>

BatchDone ==
  /\ At("call") /\ turn.at > Batch /\ ~turn.stop
  /\ Go("model")
  /\ UNCHANGED <<announced, newer, results, gate, waits, inbox, post, ran, allowed, killed, left>>

\* registerPermissionWait: before anything announces the prompt.
Register ==
  /\ At("again") \/ (At("call") /\ turn.at <= Batch /\ ~turn.stop)
  /\ waits' = [waits EXCEPT ![turn.proc] = turn.at]
  /\ inbox' = [inbox EXCEPT ![turn.proc] = <<>>]
  /\ Go("ask")
  /\ UNCHANGED <<announced, newer, results, gate, post, ran, allowed, killed, left>>

WriteGate ==
  /\ At("ask")
  /\ gate' = turn.at /\ Go("wait")
  /\ UNCHANGED <<announced, newer, results, waits, inbox, post, ran, allowed, killed, left>>

Heard ==
  /\ At("wait") /\ inbox[turn.proc] # <<>>
  /\ turn' = [turn EXCEPT !.pc = "lift", !.verdict = Head(inbox[turn.proc])]
  /\ inbox' = [inbox EXCEPT ![turn.proc] = Tail(@)]
  /\ UNCHANGED <<announced, newer, results, gate, waits, post, ran, allowed, killed, left>>

\* The context of the prompt ends: the turn is stopped, or permission_timeout_seconds is up.
\* select may choose this with an answer in the channel.
GivenUp ==
  /\ At("wait")
  /\ turn' = [turn EXCEPT !.pc = "lift", !.verdict = "deny"]
  /\ UNCHANGED <<announced, newer, results, gate, waits, inbox, post, ran, allowed, killed, left>>

\* The deferred calls: the record first, the wait after it.
LiftGate ==
  /\ At("lift")
  /\ gate' = NoCall /\ Go("leave")
  /\ UNCHANGED <<announced, newer, results, waits, inbox, post, ran, allowed, killed, left>>

\* An answer that found the wait after the prompt was given up goes with the channel.
Unregister ==
  /\ At("leave")
  /\ waits' = [waits EXCEPT ![turn.proc] = NoCall]
  /\ inbox' = [inbox EXCEPT ![turn.proc] = <<>>]
  /\ Go(IF turn.verdict = "allow" THEN "run" ELSE "deny")
  /\ UNCHANGED <<announced, newer, results, gate, post, ran, allowed, killed, left>>

Run ==
  /\ At("run")
  /\ ran' = [ran EXCEPT ![turn.at] = @ + 1] /\ Go("record")
  /\ UNCHANGED <<announced, newer, results, gate, waits, inbox, post, allowed, killed, left>>

\* Where the loop goes with a result: on through its batch, or, resumed, to close it.
Next1 == IF turn.by = "prompt"
         THEN turn' = [turn EXCEPT !.pc = "call", !.at = @ + 1, !.verdict = "none"]
         ELSE Go("close")

RecordResult ==
  /\ At("record")
  /\ Record(turn.at, "done") /\ Next1
  /\ UNCHANGED <<announced, newer, gate, waits, inbox, post, ran, allowed, killed, left>>

RecordDenial ==
  /\ At("deny")
  /\ Record(turn.at, "denied") /\ Next1
  /\ UNCHANGED <<announced, newer, gate, waits, inbox, post, ran, allowed, killed, left>>

\* The rest of the turn: the model is asked with the transcript as it is.
EndTurn ==
  /\ At("model")
  /\ turn' = NoTurn
  /\ UNCHANGED <<announced, newer, results, gate, waits, inbox, post, ran, allowed, killed, left>>

Stop ==
  /\ turn # NoTurn /\ ~turn.stop /\ Spend("stop")
  /\ turn' = [turn EXCEPT !.stop = TRUE]
  /\ UNCHANGED <<announced, newer, results, gate, waits, inbox, post, ran, allowed, killed>>

-----------------------------------------------------------------------------
(* An answer. *)

\* CompletePermissionAnswer: the wait is taken and its channel filled, under one lock.
PostLive(i, p, c, v) ==
  /\ waits[p] = c
  /\ waits' = [waits EXCEPT ![p] = NoCall]
  /\ inbox' = [inbox EXCEPT ![p] = Append(@, v)]
  /\ post' = [post EXCEPT ![i] = [pc |-> "over", proc |-> p, call |-> c, verdict |-> v]]
  /\ allowed' = IF v = "allow" THEN allowed \cup {c} ELSE allowed

PostNoWait(i, p, c, v) ==
  /\ waits[p] # c
  /\ post' = [post EXCEPT ![i] = [pc |-> "look", proc |-> p, call |-> c, verdict |-> v]]
  /\ UNCHANGED <<waits, inbox, allowed>>

Post(i) ==
  /\ post[i].pc = "unsent" /\ announced
  /\ \E p \in Procs, c \in Calls, v \in Verdicts : PostLive(i, p, c, v) \/ PostNoWait(i, p, c, v)
  /\ UNCHANGED <<turn, announced, newer, results, gate, ran, killed, left>>

Over(i) == post' = [post EXCEPT ![i].pc = "over"]

\* tryResumePendingPermission: a record that names the call is acknowledged, and resumed on a
\* goroutine of its own; any other answer is refused.
Look(i) ==
  /\ post[i].pc = "look"
  /\ IF gate = post[i].call
     THEN /\ post' = [post EXCEPT ![i].pc = "admit"]
          /\ allowed' = IF post[i].verdict = "allow" THEN allowed \cup {post[i].call} ELSE allowed
     ELSE Over(i) /\ UNCHANGED allowed
  /\ UNCHANGED <<turn, announced, newer, results, gate, waits, inbox, ran, killed, left>>

\* BeginTurn: a busy session loses the answer.
Admit(i) ==
  /\ post[i].pc = "admit" /\ Over(i)
  /\ turn' = IF turn # NoTurn THEN turn
             ELSE [proc |-> post[i].proc, pc |-> "find", at |-> post[i].call,
                   verdict |-> post[i].verdict, stop |-> FALSE, by |-> "answer"]
  /\ UNCHANGED <<announced, newer, results, gate, waits, inbox, ran, allowed, killed, left>>

\* Mutant: a result the call already has is not looked for.
FindUnanswered ==
  /\ At("find") /\ ~newer
  /\ IF turn.verdict = "deny" THEN gate' = NoCall /\ Go("deny")
     ELSE gate' = NoCall /\ Go("run")
  /\ UNCHANGED <<announced, newer, results, waits, inbox, post, ran, allowed, killed, left>>

\* A call that has its result, or that a newer message follows, is settled without it: only
\* the record goes, when it still names the call.
FindSettled ==
  /\ At("find") /\ (Answered(turn.at) \/ newer)
  /\ gate' = IF gate = turn.at THEN NoCall ELSE gate
  /\ turn' = NoTurn
  /\ UNCHANGED <<announced, newer, results, waits, inbox, post, ran, allowed, killed, left>>

\* The record goes before anything runs.
FindPending ==
  /\ At("find") /\ ~Answered(turn.at) /\ ~newer
  /\ gate' = NoCall
  /\ Go(IF turn.verdict = "deny" THEN "deny" ELSE "run")
  /\ UNCHANGED <<announced, newer, results, waits, inbox, post, ran, allowed, killed, left>>

\* The arguments the prompt showed cannot be read: nothing runs and the record stays.
FindFails ==
  /\ At("find") /\ ~Answered(turn.at) /\ ~newer /\ turn.verdict = "allow"
  /\ turn' = NoTurn
  /\ UNCHANGED <<announced, newer, results, gate, waits, inbox, post, ran, allowed, killed, left>>

\* httpPromptMoved: the answer was given for another request, or the record is another one by
\* now, and the call goes through the whole prompt again.
FindMoved ==
  /\ At("find") /\ ~Answered(turn.at) /\ ~newer /\ turn.verdict = "allow" /\ Spend("repeat")
  /\ gate' = NoCall
  /\ turn' = [turn EXCEPT !.pc = "again", !.verdict = "none"]
  /\ UNCHANGED <<announced, newer, results, waits, inbox, post, ran, allowed, killed>>

\* Mutant: the calls after the one that was asked about stay as they are.
CloseNothing ==
  /\ At("close")
  /\ Go("model")
  /\ UNCHANGED <<announced, newer, results, gate, waits, inbox, post, ran, allowed, killed, left>>

\* closeUnexecutedPermissionBatch: an answer is for one call, not for its siblings.
Close ==
  /\ At("close")
  /\ RecordRest(turn.at + 1, "skipped")
  /\ Go("model")
  /\ UNCHANGED <<announced, newer, gate, waits, inbox, post, ran, allowed, killed, left>>

\* The process dies with its turn, its waits and the answers it was working on.
Crash(p) ==
  /\ turn # NoTurn /\ turn.proc = p /\ Spend("crash")
  /\ turn' = NoTurn
  /\ killed' = IF At("record") THEN [killed EXCEPT ![turn.at] = @ + 1] ELSE killed
  /\ waits' = [waits EXCEPT ![p] = NoCall] /\ inbox' = [inbox EXCEPT ![p] = <<>>]
  /\ post' = [i \in Posts |-> IF post[i].proc = p /\ post[i].pc # "unsent"
                             THEN [post[i] EXCEPT !.pc = "over"] ELSE post[i]]
  /\ UNCHANGED <<announced, newer, results, gate, ran, allowed>>

-----------------------------------------------------------------------------
AskStep == Register \/ WriteGate \/ Heard \/ GivenUp \/ LiftGate \/ Unregister
BatchStep == BatchStopped \/ BatchDone \/ Run \/ RecordResult \/ RecordDenial \/ EndTurn \/ Stop
ResumeStep == FindSettled \/ FindPending \/ FindFails \/ FindMoved \/ Close
Next ==
  \/ AskStep \/ BatchStep \/ ResumeStep
  \/ \E p \in Procs : Prompt(p) \/ Crash(p)
  \/ \E i \in Posts : Post(i) \/ Look(i) \/ Admit(i)

Spec == Init /\ [][Next]_vars

-----------------------------------------------------------------------------
Places == {"none", "call", "ask", "wait", "lift", "leave", "run", "record", "find", "again",
           "deny", "close", "model"}
Results == {"done", "denied", "skipped"}

TurnTyped ==
  turn \in [proc : Procs \cup {Nobody}, pc : Places, at : 0..(Batch + 1),
            verdict : Verdicts \cup {"none"}, stop : BOOLEAN, by : {"prompt", "answer"}]
BundleTyped ==
  /\ announced \in BOOLEAN /\ newer \in BOOLEAN
  /\ results \in [Calls -> Seq(Results)] /\ gate \in Calls \cup {NoCall}
WaitsTyped ==
  /\ waits \in [Procs -> Calls \cup {NoCall}] /\ inbox \in [Procs -> Seq(Verdicts)]
PostsTyped ==
  post \in [Posts -> [pc : {"unsent", "look", "admit", "over"}, proc : Procs \cup {Nobody},
                      call : Calls \cup {NoCall}, verdict : Verdicts \cup {"none"}]]
HistoryTyped ==
  /\ ran \in [Calls -> Nat] /\ allowed \subseteq Calls /\ killed \in [Calls -> Nat]
  /\ left \in [Budgets -> Nat]

\* Type invariant; the channel of a wait is sent to once, so the send never blocks under the
\* lock of the registry.
TypeOK ==
  /\ TurnTyped /\ BundleTyped /\ WaitsTyped /\ PostsTyped /\ HistoryTyped
  /\ \A p \in Procs : Len(inbox[p]) <= 1

\* No call runs that no answer allowed, whichever way the answer came.
RunsOnlyAllowed == \A c \in Calls : ran[c] > 0 => c \in allowed

\* A call has one result at most, and one that was refused or skipped has not run, whatever
\* was answered in the meantime; only a process that died in the middle of it may have run it.
OneOutcome ==
  \A c \in Calls :
    /\ Len(results[c]) <= 1
    /\ Answered(c) /\ results[c][1] # "done" => ran[c] = killed[c]

\* A call runs once, and again only for each process that died between its run and its result
\* while another process had already acknowledged an answer of its own.
RunsOnce == \A c \in Calls : ran[c] <= killed[c] + 1

\* The record in the bundle names a call without a result, whatever became of its prompt: the
\* card that a reload shows is one that nothing has settled.
GateIsOpen == gate # NoCall => ~Answered(gate)

\* The record is gone before its call is decided: a process that dies in the middle of a call
\* leaves nothing that offers the call again to the next one.
BegunIsNotOffered == turn.pc \in {"run", "record", "deny"} => gate # turn.at

\* The model is never asked to go on from a batch with a call that has no result.
BatchIsWhole == At("model") /\ ~newer => \A c \in Calls : Answered(c)

\* Known not to hold: an acknowledged answer decides what it was given for.
AnswerDecides ==
  \A i \in Posts :
    post[i].pc = "over" /\ post[i].call \in allowed /\ turn = NoTurn /\ Answered(post[i].call)
      => ran[post[i].call] > 0
=============================================================================
