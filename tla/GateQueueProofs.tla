--------------------------- MODULE GateQueueProofs ----------------------------
(*****************************************************************************)
(* What requests do to a turn that runs: the permission gate (PermissionGate)*)
(* for any number of processes, calls, answers, stops, prompts and crashes,  *)
(* and the queue of follow-ups (TurnQueue), for any number of clients and any*)
(* bounds.  The two share no state: each part speaks of its own component.   *)
(*****************************************************************************)
EXTENDS PermissionGate, TurnQueue, SequenceTheorems, FiniteSetTheorems, FunctionTheorems, TLAPS

-------------------------------------------------------------------------------
(*****************************************************************************)
(* The gate.  What a place of the turn says of the record in the bundle, of  *)
(* the results of the batch, of the wait and of what was answered is         *)
(* inductive; the properties follow from it.                                 *)
(*****************************************************************************)

\* The places where a prompt stands, and those of a call that is being decided.
Asking == {"ask", "wait", "lift", "leave"}
Deciding == Asking \cup {"again", "run", "record", "deny"}

\* Nothing happened before the first prompt; a turn that is not there is NoTurn.
Fresh ==
  /\ turn.pc = "none" => turn = NoTurn
  /\ turn.pc # "none" => turn.proc \in Procs /\ announced
  /\ ~announced =>
       /\ gate = NoCall /\ \A c \in Calls : results[c] = <<>>
       /\ \A i \in Posts : post[i].pc = "unsent"

\* Which call a turn is at, and how it came there.
CallKnown ==
  /\ turn.pc \in Deciding \cup {"find", "close"} => turn.at \in Calls
  /\ turn.pc = "call" => turn.at # 0 /\ turn.by = "prompt"
  /\ turn.pc \in {"find", "again", "close"} => turn.by = "answer"
  /\ turn.pc \in {"lift", "leave", "find"} => turn.verdict \in Verdicts

\* What an answer that was sent was sent for.
PostsKnown ==
  \A i \in Posts : post[i].pc # "unsent" =>
    post[i].proc \in Procs /\ post[i].call \in Calls /\ post[i].verdict \in Verdicts

\* A call that is being decided has no result, and in the turn that announced the batch no
\* later call has one.
Undecided ==
  /\ turn.pc \in Deciding => ~Answered(turn.at)
  /\ turn.pc \in Deciding \cup {"call"} /\ turn.by = "prompt" =>
       \A c \in Calls : c >= turn.at => ~Answered(c)

\* The calls before the one a turn is at have their results.
Behind ==
  /\ turn.pc \in Deciding \cup {"call", "find", "close"} =>
       \A c \in Calls : c < turn.at => Answered(c)
  /\ turn.pc = "close" => Answered(turn.at)
  /\ turn.pc = "model" /\ ~newer => \A c \in Calls : Answered(c)

\* The record names a call without a result, and all before it have theirs; so has every call
\* before one whose answer was acknowledged from the record.
GateBehind ==
  gate # NoCall => ~Answered(gate) /\ \A c \in Calls : c < gate => Answered(c)
PostsBehind ==
  \A i \in Posts : post[i].pc = "admit" => \A c \in Calls : c < post[i].call => Answered(c)

\* Where the record stands while a turn is on.
Recorded ==
  /\ turn.pc \in {"wait", "lift"} => gate = turn.at
  /\ turn.pc \in {"call", "ask", "leave", "again", "run", "record", "deny", "close"} =>
       gate = NoCall

\* Every run of a call is behind a result, a death or the result about to be recorded.
UnderWay(c) == turn.pc = "record" /\ turn.at = c
Counted(c) ==
  /\ Len(results[c]) <= 1
  /\ Answered(c) /\ results[c][1] = "done" => ran[c] = killed[c] + 1
  /\ Answered(c) /\ results[c][1] # "done" => ran[c] = killed[c]
  /\ ~Answered(c) /\ UnderWay(c) => ran[c] = killed[c] + 1
  /\ ~Answered(c) /\ ~UnderWay(c) => ran[c] = killed[c]
RunsCounted == \A c \in Calls : Counted(c)

\* A wait, and an answer in its channel, belong to the prompt of the turn.
WaitOf(p) ==
  /\ waits[p] # NoCall =>
       turn.proc = p /\ turn.at = waits[p] /\ turn.pc \in Asking /\ inbox[p] = <<>>
  /\ inbox[p] # <<>> => turn.proc = p /\ turn.pc \in Asking
  /\ Len(inbox[p]) <= 1
WaitIsOfTurn == \A p \in Procs : WaitOf(p)

\* An allowing verdict, wherever it is, was acknowledged for the call it acts on.
TurnGiven ==
  /\ turn.pc \in {"lift", "leave", "find"} /\ turn.verdict = "allow" => turn.at \in allowed
  /\ turn.pc = "run" => turn.at \in allowed
InboxGiven == \A p \in Procs : inbox[p] # <<>> /\ inbox[p][1] = "allow" => turn.at \in allowed
PostsGiven ==
  \A i \in Posts : post[i].pc = "admit" /\ post[i].verdict = "allow" => post[i].call \in allowed

Typed == TurnTyped /\ BundleTyped /\ WaitsTyped /\ PostsTyped /\ HistoryTyped
Inv ==
  /\ Typed /\ Fresh /\ CallKnown /\ PostsKnown
  /\ Undecided /\ Behind /\ GateBehind /\ PostsBehind
  /\ Recorded /\ RunsCounted /\ WaitIsOfTurn
  /\ TurnGiven /\ InboxGiven /\ PostsGiven /\ RunsOnlyAllowed

\* What appending to a sequence of results or verdicts gives, and taking its head.
LEMMA Appended ==
  ASSUME NEW S, NEW s \in Seq(S), NEW e \in S
  PROVE  /\ Append(s, e) \in Seq(S) /\ Len(Append(s, e)) = Len(s) + 1 /\ Append(s, e) # <<>>
         /\ s = <<>> => Append(s, e)[1] = e /\ Len(Append(s, e)) = 1
OBVIOUS

LEMMA Headed ==
  ASSUME NEW S, NEW s \in Seq(S), s # <<>>
  PROVE  /\ Head(s) = s[1] /\ Head(s) \in S /\ Tail(s) \in Seq(S) /\ Len(Tail(s)) = Len(s) - 1
         /\ Len(s) = 1 => Tail(s) = <<>>
<1>1. Tail(s) \in Seq(S) /\ Len(Tail(s)) = Len(s) - 1 /\ Head(s) \in S
    BY HeadTailProperties
<1>2. Head(s) = s[1]
    OBVIOUS
<1>3. Len(s) = 1 => Tail(s) = <<>>
    <2> SUFFICES ASSUME Len(s) = 1 PROVE Tail(s) = <<>>
        OBVIOUS
    <2>1. Len(Tail(s)) = 0
        BY <1>1
    <2>q. QED
        BY <1>1, <2>1, EmptySeq
<1>q. QED
    BY <1>1, <1>2, <1>3

LEMMA Single ==
  ASSUME NEW S, NEW e \in S
  PROVE  <<e>> \in Seq(S) /\ Len(<<e>>) = 1 /\ <<e>> # <<>> /\ <<e>>[1] = e
OBVIOUS

\* The turn stays a turn.
LEMMA TurnStep == TurnTyped /\ Inv /\ [Next]_vars => TurnTyped'
<1> SUFFICES ASSUME TurnTyped /\ Inv, [Next]_vars PROVE TurnTyped'
    OBVIOUS
<1> USE BoundsAssumption DEF TurnTyped, Places, Verdicts, At, Go, Calls, NoCall
<1>1. ASSUME NEW p \in Procs, Prompt(p) PROVE TurnTyped'
    <2>1. turn' = TurnOf(p, "model", NoCall) \/ turn' = TurnOf(p, "call", 1)
        BY <1>1 DEF Prompt, Spend, NoTurn, TurnOf
    <2>2. ASSUME turn' = TurnOf(p, "model", NoCall) PROVE TurnTyped'
        BY <2>2 DEF TurnOf
    <2>3. ASSUME turn' = TurnOf(p, "call", 1) PROVE TurnTyped'
        BY <2>3 DEF TurnOf
    <2>q. QED
        BY <2>1, <2>2, <2>3
<1>2. CASE BatchStopped
    BY <1>2 DEF BatchStopped, RecordRest, NoTurn, TurnOf
<1>3. CASE BatchDone
    BY <1>3 DEF BatchDone
<1>4. CASE Register
    BY <1>4 DEF Register
<1>5. CASE WriteGate
    BY <1>5 DEF WriteGate
<1>6. CASE Heard
    <2>1. Head(inbox[turn.proc]) \in Verdicts
        BY <1>6, Headed DEF Heard, Inv, Typed, WaitsTyped, Fresh
    <2>q. QED
        BY <1>6, <2>1 DEF Heard
<1>7. CASE GivenUp
    BY <1>7 DEF GivenUp
<1>8. CASE LiftGate
    BY <1>8 DEF LiftGate
<1>9. CASE Unregister
    BY <1>9 DEF Unregister
<1>10. CASE Run
    BY <1>10 DEF Run
<1>11. CASE RecordResult
    <2>1. turn.at + 1 \in 0..(Batch + 1)
        BY <1>11 DEF RecordResult, Record, Next1, Inv, CallKnown, PostsKnown, Asking, Deciding
    <2>q. QED
        BY <1>11, <2>1 DEF RecordResult, Record, Next1
<1>12. CASE RecordDenial
    <2>1. turn.at + 1 \in 0..(Batch + 1)
        BY <1>12 DEF RecordDenial, Record, Next1, Inv, CallKnown, PostsKnown, Asking, Deciding
    <2>q. QED
        BY <1>12, <2>1, ZenonT(30) DEF RecordDenial, Record, Next1
<1>13. CASE EndTurn
    BY <1>13 DEF EndTurn, NoTurn, TurnOf
<1>14. CASE Stop
    BY <1>14 DEF Stop, Spend, NoTurn, TurnOf
<1>15. ASSUME NEW i \in Posts, Post(i) PROVE TurnTyped'
    BY <1>15 DEF Post, PostLive, PostNoWait
<1>16. ASSUME NEW i \in Posts, Look(i) PROVE TurnTyped'
    BY <1>16 DEF Look, Over
<1>17. ASSUME NEW i \in Posts, Admit(i) PROVE TurnTyped'
    <2>1. post[i].proc \in Procs /\ post[i].call \in Calls /\ post[i].verdict \in Verdicts
        BY <1>17 DEF Admit, Over, NoTurn, TurnOf, Inv, CallKnown, PostsKnown, Asking, Deciding
    <2>q. QED
        BY <1>17, <2>1 DEF Admit, Over, NoTurn, TurnOf
<1>18. CASE FindSettled
    BY <1>18 DEF FindSettled, NoTurn, TurnOf
<1>19. CASE FindPending
    BY <1>19 DEF FindPending
<1>20. CASE FindFails
    BY <1>20 DEF FindFails, NoTurn, TurnOf
<1>21. CASE FindMoved
    BY <1>21 DEF FindMoved, Spend
<1>22. CASE Close
    BY <1>22 DEF Close, RecordRest
<1>23. ASSUME NEW p \in Procs, Crash(p) PROVE TurnTyped'
    BY <1>23 DEF Crash, Spend, NoTurn, TurnOf
<1>24. CASE UNCHANGED vars
    BY <1>24 DEF vars
<1>q. QED
    BY <1>1, <1>2, <1>3, <1>4, <1>5, <1>6, <1>7, <1>8, <1>9, <1>10, <1>11, <1>12, <1>13,
        <1>14, <1>15, <1>16, <1>17, <1>18, <1>19, <1>20, <1>21, <1>22, <1>23, <1>24
        DEF Next, AskStep, BatchStep, ResumeStep

\* The record and the results keep their form.
LEMMA BundleStep == BundleTyped /\ TurnTyped /\ Inv /\ [Next]_vars => BundleTyped'
<1> SUFFICES ASSUME BundleTyped /\ TurnTyped /\ Inv, [Next]_vars PROVE BundleTyped'
    OBVIOUS
<1> USE BoundsAssumption DEF BundleTyped, Results, NoCall
<1>1. CASE \/ BatchDone \/ Register \/ Heard \/ GivenUp \/ Unregister \/ Run
         \/ EndTurn \/ Stop \/ FindFails
    BY <1>1 DEF BatchDone, Register, Heard, GivenUp, Unregister, Run, EndTurn, NoTurn,
        TurnOf, Stop, Spend, FindFails
<1>2. ASSUME NEW p \in Procs, Prompt(p) PROVE BundleTyped'
    BY <1>2 DEF Prompt, Spend, NoTurn, TurnOf
<1>3. CASE BatchStopped
    BY <1>3, Single DEF BatchStopped, RecordRest, NoTurn, TurnOf, TurnTyped
<1>4. CASE WriteGate
    BY <1>4 DEF WriteGate, At, Inv, CallKnown, Asking, Deciding
<1>5. CASE LiftGate
    BY <1>5 DEF LiftGate
<1>6. CASE RecordResult
    BY <1>6, Appended DEF RecordResult, Record, Next1, TurnTyped
<1>7. CASE RecordDenial
    BY <1>7, Appended DEF RecordDenial, Record, Next1, TurnTyped
<1>8. ASSUME NEW i \in Posts, Post(i) PROVE BundleTyped'
    BY <1>8 DEF Post, PostLive, PostNoWait
<1>9. ASSUME NEW i \in Posts, Look(i) PROVE BundleTyped'
    BY <1>9 DEF Look, Over
<1>10. ASSUME NEW i \in Posts, Admit(i) PROVE BundleTyped'
    BY <1>10 DEF Admit, Over, NoTurn, TurnOf
<1>11. CASE FindSettled
    BY <1>11 DEF FindSettled, NoTurn, TurnOf
<1>12. CASE FindPending
    BY <1>12 DEF FindPending
<1>13. CASE FindMoved
    BY <1>13 DEF FindMoved, Spend
<1>14. CASE Close
    BY <1>14, Single DEF Close, RecordRest, TurnTyped
<1>15. ASSUME NEW p \in Procs, Crash(p) PROVE BundleTyped'
    BY <1>15 DEF Crash, Spend, NoTurn, TurnOf
<1>16. CASE UNCHANGED vars
    BY <1>16 DEF vars
<1>q. QED
    BY <1>1, <1>2, <1>3, <1>4, <1>5, <1>6, <1>7, <1>8, <1>9, <1>10, <1>11, <1>12, <1>13,
        <1>14, <1>15, <1>16 DEF Next, AskStep, BatchStep, ResumeStep

\* The waits and their channels keep their form.
LEMMA WaitsStep == WaitsTyped /\ TurnTyped /\ Inv /\ [Next]_vars => WaitsTyped'
<1> SUFFICES ASSUME WaitsTyped /\ TurnTyped /\ Inv, [Next]_vars PROVE WaitsTyped'
    OBVIOUS
<1> USE BoundsAssumption DEF WaitsTyped, NoCall
<1>1. CASE \/ BatchStopped \/ BatchDone \/ WriteGate \/ GivenUp \/ LiftGate \/ Run
         \/ RecordResult \/ RecordDenial \/ EndTurn \/ Stop \/ FindSettled \/ FindPending
         \/ FindFails \/ FindMoved \/ Close
    BY <1>1 DEF BatchStopped, RecordRest, NoTurn, TurnOf, BatchDone, WriteGate, GivenUp,
        LiftGate, Run, RecordResult, Record, Next1, RecordDenial, EndTurn, Stop, Spend,
        FindSettled, FindPending, FindFails, FindMoved, Close
<1>2. ASSUME NEW p \in Procs, Prompt(p) PROVE WaitsTyped'
    BY <1>2 DEF Prompt, Spend, NoTurn, TurnOf
<1>3. CASE Register
    <2>1. turn.at \in Calls
        BY <1>3 DEF Register, Inv, CallKnown, PostsKnown, Asking, Deciding, At, Calls, TurnTyped
    <2>q. QED
        BY <1>3, <2>1, EmptySeq DEF Register
<1>4. CASE Heard
    BY <1>4, Headed DEF Heard, At, Fresh, Inv
<1>5. CASE Unregister
    BY <1>5, EmptySeq DEF Unregister, At, Fresh, Inv
<1>6. ASSUME NEW i \in Posts, Post(i) PROVE WaitsTyped'
    <2>1. PICK p \in Procs, c \in Calls, v \in Verdicts : PostLive(i, p, c, v) \/ PostNoWait(i, p, c, v)
        BY <1>6 DEF Post
    <2>2. CASE PostLive(i, p, c, v)
        BY <1>6, <2>2, Appended DEF Post, PostLive, Verdicts
    <2>3. CASE PostNoWait(i, p, c, v)
        BY <1>6, <2>3, Appended DEF Post, PostNoWait, Verdicts
    <2>q. QED
        BY <2>1, <2>2, <2>3
<1>7. ASSUME NEW i \in Posts, Look(i) PROVE WaitsTyped'
    BY <1>7 DEF Look, Over
<1>8. ASSUME NEW i \in Posts, Admit(i) PROVE WaitsTyped'
    BY <1>8 DEF Admit, Over, NoTurn, TurnOf
<1>9. ASSUME NEW p \in Procs, Crash(p) PROVE WaitsTyped'
    BY <1>9, EmptySeq DEF Crash, Spend, NoTurn, TurnOf
<1>10. CASE UNCHANGED vars
    BY <1>10 DEF vars
<1>q. QED
    BY <1>1, <1>2, <1>3, <1>4, <1>5, <1>6, <1>7, <1>8, <1>9, <1>10
        DEF Next, AskStep, BatchStep, ResumeStep

\* The answers keep their form.
LEMMA PostsStep == PostsTyped /\ Inv /\ [Next]_vars => PostsTyped'
<1> SUFFICES ASSUME PostsTyped /\ Inv, [Next]_vars PROVE PostsTyped'
    OBVIOUS
<1> USE BoundsAssumption DEF PostsTyped, NoCall
<1>1. CASE \/ BatchStopped \/ BatchDone \/ Register \/ WriteGate \/ Heard \/ GivenUp
         \/ LiftGate \/ Unregister \/ Run \/ RecordResult \/ RecordDenial \/ EndTurn
         \/ Stop \/ FindSettled \/ FindPending \/ FindFails \/ FindMoved \/ Close
    BY <1>1 DEF BatchStopped, RecordRest, NoTurn, TurnOf, BatchDone, Register, WriteGate,
        Heard, GivenUp, LiftGate, Unregister, Run, RecordResult, Record, Next1, RecordDenial,
        EndTurn, Stop, Spend, FindSettled, FindPending, FindFails, FindMoved, Close
<1>2. ASSUME NEW p \in Procs, Prompt(p) PROVE PostsTyped'
    BY <1>2 DEF Prompt, Spend, NoTurn, TurnOf
<1>3. ASSUME NEW i \in Posts, Post(i) PROVE PostsTyped'
    BY <1>3 DEF Post, PostLive, PostNoWait
<1>4. ASSUME NEW i \in Posts, Look(i) PROVE PostsTyped'
    BY <1>4 DEF Look, Over
<1>5. ASSUME NEW i \in Posts, Admit(i) PROVE PostsTyped'
    BY <1>5 DEF Admit, Over, NoTurn, TurnOf
<1>6. ASSUME NEW p \in Procs, Crash(p) PROVE PostsTyped'
    BY <1>6 DEF Crash, Spend, NoTurn, TurnOf
<1>7. CASE UNCHANGED vars
    BY <1>7 DEF vars
<1>q. QED
    BY <1>1, <1>2, <1>3, <1>4, <1>5, <1>6, <1>7 DEF Next, AskStep, BatchStep, ResumeStep

\* The histories and the bounds keep their form.
LEMMA HistoryStep == HistoryTyped /\ Inv /\ [Next]_vars => HistoryTyped'
<1> SUFFICES ASSUME HistoryTyped /\ Inv, [Next]_vars PROVE HistoryTyped'
    OBVIOUS
<1> USE BoundsAssumption DEF HistoryTyped, Budgets
<1>1. CASE \/ BatchStopped \/ BatchDone \/ Register \/ WriteGate \/ Heard \/ GivenUp
         \/ LiftGate \/ Unregister \/ RecordResult \/ RecordDenial \/ EndTurn \/ FindSettled
         \/ FindPending \/ FindFails \/ Close
    BY <1>1 DEF BatchStopped, RecordRest, NoTurn, TurnOf, BatchDone, Register, WriteGate,
        Heard, GivenUp, LiftGate, Unregister, RecordResult, Record, Next1, RecordDenial,
        EndTurn, FindSettled, FindPending, FindFails, Close
<1>2. ASSUME NEW p \in Procs, Prompt(p) PROVE HistoryTyped'
    BY <1>2 DEF Prompt, Spend, NoTurn, TurnOf
<1>3. CASE Run
    BY <1>3 DEF Run, At, Inv, CallKnown, Asking, Deciding
<1>4. CASE Stop
    BY <1>4 DEF Stop, Spend, NoTurn, TurnOf
<1>5. ASSUME NEW i \in Posts, Post(i) PROVE HistoryTyped'
    BY <1>5 DEF Post, PostLive, PostNoWait, Calls
<1>6. ASSUME NEW i \in Posts, Look(i) PROVE HistoryTyped'
    BY <1>6 DEF Look, Over, Inv, PostsKnown
<1>7. ASSUME NEW i \in Posts, Admit(i) PROVE HistoryTyped'
    BY <1>7 DEF Admit, Over, NoTurn, TurnOf
<1>8. CASE FindMoved
    BY <1>8 DEF FindMoved, Spend
<1>9. ASSUME NEW p \in Procs, Crash(p) PROVE HistoryTyped'
    <2>1. left' \in [Budgets -> Nat] /\ ran' = ran /\ allowed' = allowed
        BY <1>9 DEF Crash, Spend
    <2>2. killed' \in [Calls -> Nat]
        <3>1. At("record") => turn.at \in Calls
            BY DEF At, Inv, CallKnown, PostsKnown, Asking, Deciding
        <3>q. QED
            BY <1>9, <3>1, SMTT(30) DEF Crash
    <2>q. QED
        BY <2>1, <2>2
<1>10. CASE UNCHANGED vars
    BY <1>10 DEF vars
<1>q. QED
    BY <1>1, <1>2, <1>3, <1>4, <1>5, <1>6, <1>7, <1>8, <1>9, <1>10
        DEF Next, AskStep, BatchStep, ResumeStep

\* Nothing happens before the first prompt.
LEMMA FreshStep == Fresh /\ TurnTyped /\ BundleTyped /\ PostsKnown /\ [Next]_vars => Fresh'
<1> SUFFICES ASSUME Fresh /\ TurnTyped /\ BundleTyped /\ PostsKnown, [Next]_vars PROVE Fresh'
    OBVIOUS
<1> USE DEF Fresh, At, Go, TurnTyped, NoCall
<1>1. ASSUME NEW p \in Procs, Prompt(p) PROVE Fresh'
    BY <1>1 DEF Prompt, Spend, NoTurn, TurnOf
<1>2. CASE BatchStopped
    BY <1>2 DEF BatchStopped, RecordRest, NoTurn, TurnOf
<1>3. CASE BatchDone
    BY <1>3 DEF BatchDone
<1>4. CASE Register
    BY <1>4 DEF Register
<1>5. CASE WriteGate
    BY <1>5 DEF WriteGate
<1>6. CASE Heard
    BY <1>6 DEF Heard
<1>7. CASE GivenUp
    BY <1>7 DEF GivenUp
<1>8. CASE LiftGate
    BY <1>8 DEF LiftGate
<1>9. CASE Unregister
    BY <1>9 DEF Unregister
<1>10. CASE Run
    BY <1>10 DEF Run
<1>11. CASE RecordResult
    BY <1>11 DEF RecordResult, Record, Next1
<1>12. CASE RecordDenial
    BY <1>12 DEF RecordDenial, Record, Next1
<1>13. CASE EndTurn
    BY <1>13 DEF EndTurn, NoTurn, TurnOf
<1>14. CASE Stop
    BY <1>14 DEF Stop, Spend, NoTurn, TurnOf
<1>15. ASSUME NEW i \in Posts, Post(i) PROVE Fresh'
    BY <1>15 DEF Post, PostLive, PostNoWait
<1>16. ASSUME NEW i \in Posts, Look(i) PROVE Fresh'
    BY <1>16 DEF Look, Over
<1>17. ASSUME NEW i \in Posts, Admit(i) PROVE Fresh'
    <2>1. announced /\ post[i].proc \in Procs
        BY <1>17 DEF Admit, Over, NoTurn, TurnOf, PostsKnown
    <2>q. QED
        BY <1>17, <2>1 DEF Admit, Over, NoTurn, TurnOf
<1>18. CASE FindSettled
    BY <1>18 DEF FindSettled, NoTurn, TurnOf
<1>19. CASE FindPending
    BY <1>19 DEF FindPending
<1>20. CASE FindFails
    BY <1>20 DEF FindFails, NoTurn, TurnOf
<1>21. CASE FindMoved
    BY <1>21 DEF FindMoved, Spend
<1>22. CASE Close
    BY <1>22 DEF Close, RecordRest
<1>23. ASSUME NEW p \in Procs, Crash(p) PROVE Fresh'
    <2>1. announced' /\ turn' = NoTurn
        BY <1>23 DEF Crash
    <2>q. QED
        BY <2>1 DEF NoTurn, TurnOf
<1>24. CASE UNCHANGED vars
    BY <1>24 DEF vars
<1>q. QED
    BY <1>1, <1>2, <1>3, <1>4, <1>5, <1>6, <1>7, <1>8, <1>9, <1>10, <1>11, <1>12, <1>13,
        <1>14, <1>15, <1>16, <1>17, <1>18, <1>19, <1>20, <1>21, <1>22, <1>23, <1>24
        DEF Next, AskStep, BatchStep, ResumeStep

\* A turn knows the call it is at.
LEMMA CallKnownStep ==
        CallKnown /\ PostsKnown /\ Fresh /\ TurnTyped /\ WaitsTyped /\ [Next]_vars => CallKnown'
        
<1> SUFFICES ASSUME CallKnown /\ PostsKnown /\ Fresh /\ TurnTyped /\ WaitsTyped, [Next]_vars PROVE CallKnown'
    OBVIOUS
<1> USE BoundsAssumption DEF CallKnown, Asking, Deciding, At, Go, NoCall
<1>1. CASE EndTurn \/ FindSettled \/ FindFails
    BY <1>1 DEF EndTurn, NoTurn, TurnOf, FindSettled, FindFails
<1>2. ASSUME NEW p \in Procs, Prompt(p) PROVE CallKnown'
    BY <1>2 DEF Prompt, Spend, NoTurn, TurnOf
<1>3. CASE BatchStopped
    BY <1>3 DEF BatchStopped, RecordRest, NoTurn, TurnOf
<1>4. CASE BatchDone
    BY <1>4 DEF BatchDone
<1>5. CASE Register
    <2>1. turn.at \in Calls
        BY <1>5 DEF Register, TurnTyped, Calls
    <2>q. QED
        BY <1>5, <2>1 DEF Register
<1>6. CASE WriteGate
    BY <1>6 DEF WriteGate
<1>7. CASE Heard
    <2>1. Head(inbox[turn.proc]) \in Verdicts
        BY <1>7 DEF Heard, WaitsTyped, Fresh
    <2>q. QED
        BY <1>7, <2>1 DEF Heard
<1>8. CASE GivenUp
    BY <1>8 DEF GivenUp, Verdicts
<1>9. CASE LiftGate
    BY <1>9 DEF LiftGate
<1>10. CASE Unregister
    BY <1>10 DEF Unregister
<1>11. CASE Run
    BY <1>11 DEF Run
<1>12. CASE RecordResult
    <2>1. turn.at + 1 # 0 /\ turn.at \in Calls
        BY <1>12 DEF RecordResult, Record, Next1, TurnTyped
    <2>2. CASE turn.by = "prompt"
        BY <1>12, <2>1, <2>2 DEF RecordResult, Record, Next1, TurnTyped
    <2>3. CASE turn.by = "answer"
        BY <1>12, <2>1, <2>3 DEF RecordResult, Record, Next1, TurnTyped
    <2>q. QED
        BY <2>2, <2>3 DEF TurnTyped
<1>13. CASE RecordDenial
    <2>1. turn.at + 1 # 0 /\ turn.at \in Calls
        BY <1>13 DEF RecordDenial, Record, Next1, TurnTyped
    <2>2. CASE turn.by = "prompt"
        BY <1>13, <2>1, <2>2 DEF RecordDenial, Record, Next1, TurnTyped
    <2>3. CASE turn.by = "answer"
        BY <1>13, <2>1, <2>3 DEF RecordDenial, Record, Next1, TurnTyped
    <2>q. QED
        BY <2>2, <2>3 DEF TurnTyped
<1>14. CASE Stop
    BY <1>14 DEF Stop, Spend, NoTurn, TurnOf
<1>15. ASSUME NEW i \in Posts, Post(i) PROVE CallKnown'
    BY <1>15 DEF Post, PostLive, PostNoWait
<1>16. ASSUME NEW i \in Posts, Look(i) PROVE CallKnown'
    BY <1>16 DEF Look, Over
<1>17. ASSUME NEW i \in Posts, Admit(i) PROVE CallKnown'
    BY <1>17 DEF Admit, Over, NoTurn, TurnOf, PostsKnown
<1>18. CASE FindPending
    BY <1>18 DEF FindPending
<1>19. CASE FindMoved
    BY <1>19 DEF FindMoved, Spend
<1>20. CASE Close
    BY <1>20 DEF Close, RecordRest
<1>21. ASSUME NEW p \in Procs, Crash(p) PROVE CallKnown'
    BY <1>21 DEF Crash, Spend, NoTurn, TurnOf
<1>22. CASE UNCHANGED vars
    BY <1>22 DEF vars
<1>q. QED
    BY <1>1, <1>2, <1>3, <1>4, <1>5, <1>6, <1>7, <1>8, <1>9, <1>10, <1>11, <1>12, <1>13,
        <1>14, <1>15, <1>16, <1>17, <1>18, <1>19, <1>20, <1>21, <1>22
        DEF Next, AskStep, BatchStep, ResumeStep

\* An answer is for a call, in a process.
LEMMA PostsKnownStep == PostsKnown /\ PostsTyped /\ [Next]_vars => PostsKnown'
<1> SUFFICES ASSUME PostsKnown /\ PostsTyped, [Next]_vars PROVE PostsKnown'
    OBVIOUS
<1> USE DEF PostsKnown, PostsTyped
<1>1. CASE \/ BatchStopped \/ BatchDone \/ Register \/ WriteGate \/ Heard \/ GivenUp
         \/ LiftGate \/ Unregister \/ Run \/ RecordResult \/ RecordDenial \/ EndTurn
         \/ Stop \/ FindSettled \/ FindPending \/ FindFails \/ FindMoved \/ Close
    BY <1>1 DEF BatchStopped, RecordRest, NoTurn, TurnOf, BatchDone, Register, WriteGate,
        Heard, GivenUp, LiftGate, Unregister, Run, RecordResult, Record, Next1, RecordDenial,
        EndTurn, Stop, Spend, FindSettled, FindPending, FindFails, FindMoved, Close
<1>2. ASSUME NEW p \in Procs, Prompt(p) PROVE PostsKnown'
    BY <1>2 DEF Prompt, Spend, NoTurn, TurnOf
<1>3. ASSUME NEW i \in Posts, Post(i) PROVE PostsKnown'
    <2>1. PICK p \in Procs, c \in Calls, v \in Verdicts : PostLive(i, p, c, v) \/ PostNoWait(i, p, c, v)
        BY <1>3 DEF Post
    <2>2. CASE PostLive(i, p, c, v)
        BY <1>3, <2>2 DEF Post, PostLive
    <2>3. CASE PostNoWait(i, p, c, v)
        BY <1>3, <2>3 DEF Post, PostNoWait
    <2>q. QED
        BY <2>1, <2>2, <2>3
<1>4. ASSUME NEW i \in Posts, Look(i) PROVE PostsKnown'
    BY <1>4 DEF Look, Over
<1>5. ASSUME NEW i \in Posts, Admit(i) PROVE PostsKnown'
    BY <1>5 DEF Admit, Over, NoTurn, TurnOf
<1>6. ASSUME NEW p \in Procs, Crash(p) PROVE PostsKnown'
    <2> SUFFICES ASSUME NEW j \in Posts, post'[j].pc # "unsent"
                 PROVE  post'[j].proc \in Procs /\ post'[j].call \in Calls /\ post'[j].verdict \in Verdicts
        OBVIOUS
    <2>1. CASE post[j].proc = p /\ post[j].pc # "unsent"
        BY <1>6, <2>1 DEF Crash, PostsTyped
    <2>2. CASE ~(post[j].proc = p /\ post[j].pc # "unsent")
        BY <1>6, <2>2 DEF Crash
    <2>q. QED
        BY <2>1, <2>2
<1>7. CASE UNCHANGED vars
    BY <1>7 DEF vars
<1>q. QED
    BY <1>1, <1>2, <1>3, <1>4, <1>5, <1>6, <1>7 DEF Next, AskStep, BatchStep, ResumeStep

\* What recording does, for one call and for the rest of a batch.
LEMMA Recording ==
  ASSUME BundleTyped, NEW c \in Calls, NEW r \in Results, Record(c, r)
  PROVE  /\ results'[c] # <<>> /\ results'[c] = Append(results[c], r)
         /\ ~Answered(c) => Len(results'[c]) = 1 /\ results'[c][1] = r
         /\ \A d \in Calls : d # c => results'[d] = results[d]
<1>1. results[c] \in Seq(Results)
    BY DEF BundleTyped
<1>2. results'[c] = Append(results[c], r)
    BY DEF Record, BundleTyped
<1>3. \A d \in Calls : d # c => results'[d] = results[d]
    BY DEF Record, BundleTyped
<1>4. Append(results[c], r) # <<>>
    BY <1>1, Appended
<1>5. results[c] = <<>> => Len(Append(results[c], r)) = 1 /\ Append(results[c], r)[1] = r
    BY <1>1, Appended
<1>q. QED
    BY <1>2, <1>3, <1>4, <1>5 DEF Answered

LEMMA RecordingRest ==
  ASSUME BundleTyped, NEW c \in Nat, NEW r \in Results, RecordRest(c, r)
  PROVE  /\ \A d \in Calls : d >= c => Answered(d)'
         /\ \A d \in Calls : Answered(d) \/ d < c => results'[d] = results[d]
         /\ \A d \in Calls : d >= c /\ ~Answered(d) =>
              Len(results'[d]) = 1 /\ results'[d][1] = r /\ results'[d] # <<>>
<1>1. <<r>> # <<>> /\ Len(<<r>>) = 1 /\ <<r>>[1] = r
    OBVIOUS
<1>2. \A d \in Calls : results'[d] = IF d >= c /\ ~Answered(d) THEN <<r>> ELSE results[d]
    BY DEF RecordRest
<1>q. QED
    BY <1>1, <1>2, SMTT(30) DEF Answered, Calls

\* A result stays.
LEMMA Grow == BundleTyped /\ TurnTyped /\ Inv /\ [Next]_vars => \A c \in Calls : Answered(c) => Answered(c)'
<1> SUFFICES ASSUME BundleTyped, TurnTyped, Inv, [Next]_vars, NEW c \in Calls, Answered(c)
             PROVE  Answered(c)'
    OBVIOUS
<1> USE DEF Answered, BundleTyped
<1>1. CASE RecordResult
    BY <1>1, Recording DEF RecordResult, Results, Inv, CallKnown, Deciding, At
<1>2. CASE RecordDenial
    BY <1>2, Recording DEF RecordDenial, Results, Inv, CallKnown, Deciding, At
<1>3. CASE BatchStopped
    BY <1>3 DEF BatchStopped, RecordRest
<1>4. CASE Close
    BY <1>4 DEF Close, RecordRest
<1>5. CASE UNCHANGED results
    BY <1>5
<1>q. QED
    BY <1>1, <1>2, <1>3, <1>4, <1>5 DEF Next, AskStep, BatchStep, ResumeStep, vars, Prompt, Register, WriteGate,
       Heard, GivenUp, LiftGate, Unregister, Run, EndTurn, Stop, Post, Look, Admit, FindSettled,
       FindPending, FindFails, FindMoved, BatchDone, Crash

\* The record stands only while its prompt waits.
LEMMA RecordedStep == Recorded /\ Fresh /\ CallKnown /\ TurnTyped /\ [Next]_vars => Recorded'
<1> SUFFICES ASSUME Recorded /\ Fresh /\ CallKnown /\ TurnTyped, [Next]_vars PROVE Recorded'
    OBVIOUS
<1> USE DEF Recorded, At, Go, TurnTyped, NoCall
<1>1. ASSUME NEW p \in Procs, Prompt(p) PROVE Recorded'
    BY <1>1 DEF Prompt, Spend, NoTurn, TurnOf, Fresh
<1>2. CASE BatchStopped
    BY <1>2 DEF BatchStopped, RecordRest, NoTurn, TurnOf
<1>3. CASE BatchDone
    BY <1>3 DEF BatchDone
<1>4. CASE Register
    BY <1>4 DEF Register
<1>5. CASE WriteGate
    BY <1>5 DEF WriteGate
<1>6. CASE Heard
    BY <1>6 DEF Heard
<1>7. CASE GivenUp
    BY <1>7 DEF GivenUp
<1>8. CASE LiftGate
    BY <1>8 DEF LiftGate
<1>9. CASE Unregister
    BY <1>9 DEF Unregister
<1>10. CASE Run
    BY <1>10 DEF Run
<1>11. CASE RecordResult
    BY <1>11 DEF RecordResult, Record, Next1
<1>12. CASE RecordDenial
    BY <1>12 DEF RecordDenial, Record, Next1
<1>13. CASE EndTurn
    BY <1>13 DEF EndTurn, NoTurn, TurnOf
<1>14. CASE Stop
    BY <1>14 DEF Stop, Spend, NoTurn, TurnOf
<1>15. ASSUME NEW i \in Posts, Post(i) PROVE Recorded'
    BY <1>15 DEF Post, PostLive, PostNoWait
<1>16. ASSUME NEW i \in Posts, Look(i) PROVE Recorded'
    BY <1>16 DEF Look, Over
<1>17. ASSUME NEW i \in Posts, Admit(i) PROVE Recorded'
    BY <1>17 DEF Admit, Over, NoTurn, TurnOf
<1>18. CASE FindSettled
    BY <1>18 DEF FindSettled, NoTurn, TurnOf
<1>19. CASE FindPending
    BY <1>19 DEF FindPending
<1>20. CASE FindFails
    BY <1>20 DEF FindFails, NoTurn, TurnOf
<1>21. CASE FindMoved
    BY <1>21 DEF FindMoved, Spend
<1>22. CASE Close
    BY <1>22 DEF Close, RecordRest
<1>23. ASSUME NEW p \in Procs, Crash(p) PROVE Recorded'
    <2>1. turn' = NoTurn
        BY <1>23 DEF Crash
    <2>q. QED
        BY <2>1 DEF NoTurn, TurnOf
<1>24. CASE UNCHANGED vars
    BY <1>24 DEF vars
<1>q. QED
    BY <1>1, <1>2, <1>3, <1>4, <1>5, <1>6, <1>7, <1>8, <1>9, <1>10, <1>11, <1>12, <1>13,
        <1>14, <1>15, <1>16, <1>17, <1>18, <1>19, <1>20, <1>21, <1>22, <1>23, <1>24
        DEF Next, AskStep, BatchStep, ResumeStep

\* What is being decided is open.
LEMMA UndecidedStep ==
        Undecided /\ Fresh /\ CallKnown /\ TurnTyped /\ BundleTyped /\ [Next]_vars => Undecided'
        
<1> SUFFICES ASSUME Undecided /\ Fresh /\ CallKnown /\ TurnTyped /\ BundleTyped, [Next]_vars PROVE Undecided'
    OBVIOUS
<1> USE DEF Undecided, CallKnown, Asking, Deciding, At, Go, TurnTyped, NoCall
<1>1. ASSUME NEW p \in Procs, Prompt(p) PROVE Undecided'
    BY <1>1 DEF Prompt, Spend, NoTurn, TurnOf, Fresh, Answered
<1>2. CASE BatchStopped
    BY <1>2 DEF BatchStopped, RecordRest, NoTurn, TurnOf, Answered
<1>3. CASE BatchDone
    BY <1>3 DEF BatchDone, Answered
<1>4. CASE Register
    <2>1. turn.at \in Calls
        BY <1>4 DEF Register, Calls
    <2>q. QED
        BY <1>4, <2>1 DEF Register, Answered
<1>5. CASE WriteGate
    BY <1>5 DEF WriteGate, Answered
<1>6. CASE Heard
    BY <1>6 DEF Heard, Answered
<1>7. CASE GivenUp
    BY <1>7 DEF GivenUp, Answered
<1>8. CASE LiftGate
    BY <1>8 DEF LiftGate, Answered
<1>9. CASE Unregister
    BY <1>9 DEF Unregister, Answered
<1>10. CASE Run
    BY <1>10 DEF Run, Answered
<1>11. CASE RecordResult
    <2>1. turn.at \in Calls /\ turn.at \in Int /\ Record(turn.at, "done") /\ newer' = newer
        BY <1>11 DEF RecordResult, Calls
    <2>2. results'[turn.at] # <<>> /\ \A c \in Calls : c # turn.at => results'[c] = results[c]
        <3>1. "done" \in Results
            BY DEF Results
        <3>q. QED
            BY <2>1, <3>1, Recording
    <2>3. \/ turn'.pc = "call" /\ turn'.at = turn.at + 1 /\ turn.by = "prompt"
          \/ turn'.pc = "close" /\ turn'.at = turn.at /\ turn.by = "answer" /\ turn'.by = turn.by
        BY <1>11 DEF RecordResult, Next1
    <2>q. QED
        BY <1>11, <2>1, <2>2, <2>3 DEF RecordResult, Calls, Answered
<1>12. CASE RecordDenial
    <2>1. turn.at \in Calls /\ turn.at \in Int /\ Record(turn.at, "denied") /\ newer' = newer
        BY <1>12 DEF RecordDenial, Calls
    <2>2. results'[turn.at] # <<>> /\ \A c \in Calls : c # turn.at => results'[c] = results[c]
        <3>1. "denied" \in Results
            BY DEF Results
        <3>q. QED
            BY <2>1, <3>1, Recording
    <2>3. \/ turn'.pc = "call" /\ turn'.at = turn.at + 1 /\ turn.by = "prompt"
          \/ turn'.pc = "close" /\ turn'.at = turn.at /\ turn.by = "answer" /\ turn'.by = turn.by
        BY <1>12 DEF RecordDenial, Next1
    <2>q. QED
        BY <1>12, <2>1, <2>2, <2>3 DEF RecordDenial, Calls, Answered
<1>13. CASE EndTurn
    BY <1>13 DEF EndTurn, NoTurn, TurnOf, Answered
<1>14. CASE Stop
    BY <1>14 DEF Stop, Spend, NoTurn, TurnOf, Answered
<1>15. ASSUME NEW i \in Posts, Post(i) PROVE Undecided'
    BY <1>15 DEF Post, PostLive, PostNoWait, Answered
<1>16. ASSUME NEW i \in Posts, Look(i) PROVE Undecided'
    BY <1>16 DEF Look, Over, Answered
<1>17. ASSUME NEW i \in Posts, Admit(i) PROVE Undecided'
    BY <1>17 DEF Admit, Over, NoTurn, TurnOf, Answered
<1>18. CASE FindSettled
    BY <1>18 DEF FindSettled, NoTurn, TurnOf, Answered
<1>19. CASE FindPending
    BY <1>19 DEF FindPending, Answered
<1>20. CASE FindFails
    BY <1>20 DEF FindFails, NoTurn, TurnOf, Answered
<1>21. CASE FindMoved
    BY <1>21 DEF FindMoved, Spend, Answered
<1>22. CASE Close
    BY <1>22 DEF Close, RecordRest, Answered
<1>23. ASSUME NEW p \in Procs, Crash(p) PROVE Undecided'
    <2>1. turn' = NoTurn
        BY <1>23 DEF Crash
    <2>q. QED
        BY <2>1 DEF NoTurn, TurnOf
<1>24. CASE UNCHANGED vars
    BY <1>24 DEF vars, Answered
<1>q. QED
    BY <1>1, <1>2, <1>3, <1>4, <1>5, <1>6, <1>7, <1>8, <1>9, <1>10, <1>11, <1>12, <1>13,
        <1>14, <1>15, <1>16, <1>17, <1>18, <1>19, <1>20, <1>21, <1>22, <1>23, <1>24
        DEF Next, AskStep, BatchStep, ResumeStep

\* The turn leaves no call behind it without a result.
LEMMA BehindStep ==
        Behind /\ PostsBehind /\ Inv /\ CallKnown /\ TurnTyped /\ BundleTyped /\ [Next]_vars => Behind'
        
<1> SUFFICES ASSUME Behind /\ PostsBehind /\ Inv /\ CallKnown /\ TurnTyped /\ BundleTyped, [Next]_vars PROVE Behind'
    OBVIOUS
<1>g. \A c \in Calls : Answered(c) => Answered(c)'
    BY Grow DEF Inv, Typed
<1> USE <1>g DEF Behind, CallKnown, Asking, Deciding, At, Go, TurnTyped, NoCall
<1>1. ASSUME NEW p \in Procs, Prompt(p) PROVE Behind'
    BY <1>1 DEF Prompt, Spend, NoTurn, TurnOf, Calls
<1>2. CASE BatchStopped
    <2>1. turn' = NoTurn
        BY <1>2 DEF BatchStopped
    <2>q. QED
        BY <2>1 DEF NoTurn, TurnOf
<1>3. CASE BatchDone
    BY <1>3, BoundsAssumption DEF BatchDone, Calls
<1>4. CASE Register
    BY <1>4 DEF Register, Calls
<1>5. CASE WriteGate
    BY <1>5 DEF WriteGate
<1>6. CASE Heard
    BY <1>6 DEF Heard
<1>7. CASE GivenUp
    BY <1>7 DEF GivenUp
<1>8. CASE LiftGate
    BY <1>8 DEF LiftGate
<1>9. CASE Unregister
    BY <1>9 DEF Unregister
<1>10. CASE Run
    BY <1>10 DEF Run
<1>11. CASE RecordResult
    <2>1. turn.at \in Calls /\ turn.at \in Int /\ Record(turn.at, "done") /\ newer' = newer
        BY <1>11 DEF RecordResult, Calls
    <2>2. results'[turn.at] # <<>> /\ \A c \in Calls : c # turn.at => results'[c] = results[c]
        <3>1. "done" \in Results
            BY DEF Results
        <3>q. QED
            BY <2>1, <3>1, Recording
    <2>3. \/ turn'.pc = "call" /\ turn'.at = turn.at + 1 /\ turn.by = "prompt"
          \/ turn'.pc = "close" /\ turn'.at = turn.at /\ turn.by = "answer" /\ turn'.by = turn.by
        BY <1>11 DEF RecordResult, Next1
    <2>q. QED
        BY <1>11, <2>1, <2>2, <2>3 DEF RecordResult, Calls, Answered
<1>12. CASE RecordDenial
    <2>1. turn.at \in Calls /\ turn.at \in Int /\ Record(turn.at, "denied") /\ newer' = newer
        BY <1>12 DEF RecordDenial, Calls
    <2>2. results'[turn.at] # <<>> /\ \A c \in Calls : c # turn.at => results'[c] = results[c]
        <3>1. "denied" \in Results
            BY DEF Results
        <3>q. QED
            BY <2>1, <3>1, Recording
    <2>3. \/ turn'.pc = "call" /\ turn'.at = turn.at + 1 /\ turn.by = "prompt"
          \/ turn'.pc = "close" /\ turn'.at = turn.at /\ turn.by = "answer" /\ turn'.by = turn.by
        BY <1>12 DEF RecordDenial, Next1
    <2>q. QED
        BY <1>12, <2>1, <2>2, <2>3 DEF RecordDenial, Calls, Answered
<1>13. CASE EndTurn
    <2>1. turn' = NoTurn
        BY <1>13 DEF EndTurn
    <2>q. QED
        BY <2>1 DEF NoTurn, TurnOf
<1>14. CASE Stop
    BY <1>14 DEF Stop, Spend, NoTurn, TurnOf
<1>15. ASSUME NEW i \in Posts, Post(i) PROVE Behind'
    BY <1>15 DEF Post, PostLive, PostNoWait
<1>16. ASSUME NEW i \in Posts, Look(i) PROVE Behind'
    BY <1>16 DEF Look, Over
<1>17. ASSUME NEW i \in Posts, Admit(i) PROVE Behind'
    BY <1>17 DEF Admit, Over, NoTurn, TurnOf, PostsBehind
<1>18. CASE FindSettled
    <2>1. turn' = NoTurn
        BY <1>18 DEF FindSettled
    <2>q. QED
        BY <2>1 DEF NoTurn, TurnOf
<1>19. CASE FindPending
    BY <1>19 DEF FindPending
<1>20. CASE FindFails
    <2>1. turn' = NoTurn
        BY <1>20 DEF FindFails
    <2>q. QED
        BY <2>1 DEF NoTurn, TurnOf
<1>21. CASE FindMoved
    BY <1>21 DEF FindMoved, Spend
<1>22. CASE Close
    <2>1. \A c \in Calls : c >= turn.at + 1 => Answered(c)'
        <3>1. turn.at + 1 \in Nat /\ "skipped" \in Results
            BY DEF Results
        <3>q. QED
            BY <1>22, <3>1, RecordingRest DEF Close
    <2>2. \A c \in Calls : c < turn.at + 1 => Answered(c)'
        BY <1>22 DEF Close, Calls
    <2>q. QED
        BY <1>22, <2>1, <2>2 DEF Close, Calls
<1>23. ASSUME NEW p \in Procs, Crash(p) PROVE Behind'
    <2>1. turn' = NoTurn
        BY <1>23 DEF Crash
    <2>q. QED
        BY <2>1 DEF NoTurn, TurnOf
<1>24. CASE UNCHANGED vars
    BY <1>24 DEF vars, Answered
<1>q. QED
    BY <1>1, <1>2, <1>3, <1>4, <1>5, <1>6, <1>7, <1>8, <1>9, <1>10, <1>11, <1>12, <1>13,
        <1>14, <1>15, <1>16, <1>17, <1>18, <1>19, <1>20, <1>21, <1>22, <1>23, <1>24
        DEF Next, AskStep, BatchStep, ResumeStep

\* The record names a call that nothing has settled.
LEMMA GateBehindStep ==
        GateBehind /\ Recorded /\ Undecided /\ Behind /\ Inv /\ CallKnown /\ [Next]_vars => GateBehind'
        
<1> SUFFICES ASSUME GateBehind /\ Recorded /\ Undecided /\ Behind /\ Inv /\ CallKnown, [Next]_vars PROVE GateBehind'
    OBVIOUS
<1>g. \A c \in Calls : Answered(c) => Answered(c)'
    BY Grow DEF Inv, Typed
<1> USE <1>g DEF GateBehind, At, Go
<1>1. ASSUME NEW p \in Procs, Prompt(p) PROVE GateBehind'
    BY <1>1 DEF Prompt, Spend, NoTurn, TurnOf, Answered
<1>2. CASE BatchStopped
    <2>1. gate = NoCall
        BY <1>2 DEF BatchStopped, Recorded
    <2>q. QED
        BY <1>2, <2>1 DEF BatchStopped
<1>3. CASE BatchDone
    BY <1>3 DEF BatchDone, Answered
<1>4. CASE Register
    BY <1>4 DEF Register, Answered
<1>5. CASE WriteGate
    <2>1. ~Answered(turn.at) /\ (\A c \in Calls : c < turn.at => Answered(c)) /\ results' = results /\ gate' = turn.at
        BY <1>5 DEF WriteGate, Undecided, Behind, Deciding, Asking
    <2>q. QED
        BY <2>1 DEF Answered
<1>6. CASE Heard
    BY <1>6 DEF Heard, Answered
<1>7. CASE GivenUp
    BY <1>7 DEF GivenUp, Answered
<1>8. CASE LiftGate
    BY <1>8 DEF LiftGate, Answered
<1>9. CASE Unregister
    BY <1>9 DEF Unregister, Answered
<1>10. CASE Run
    BY <1>10 DEF Run, Answered
<1>11. CASE RecordResult
    <2>1. gate = NoCall
        BY <1>11 DEF RecordResult, Recorded
    <2>q. QED
        BY <1>11, <2>1 DEF RecordResult
<1>12. CASE RecordDenial
    <2>1. gate = NoCall
        BY <1>12 DEF RecordDenial, Recorded
    <2>q. QED
        BY <1>12, <2>1 DEF RecordDenial
<1>13. CASE EndTurn
    BY <1>13 DEF EndTurn, NoTurn, TurnOf, Answered
<1>14. CASE Stop
    BY <1>14 DEF Stop, Spend, NoTurn, TurnOf, Answered
<1>15. ASSUME NEW i \in Posts, Post(i) PROVE GateBehind'
    BY <1>15 DEF Post, PostLive, PostNoWait, Answered
<1>16. ASSUME NEW i \in Posts, Look(i) PROVE GateBehind'
    BY <1>16 DEF Look, Over, Answered
<1>17. ASSUME NEW i \in Posts, Admit(i) PROVE GateBehind'
    BY <1>17 DEF Admit, Over, NoTurn, TurnOf, Answered
<1>18. CASE FindSettled
    BY <1>18 DEF FindSettled, NoTurn, TurnOf, Answered
<1>19. CASE FindPending
    BY <1>19 DEF FindPending, Answered
<1>20. CASE FindFails
    BY <1>20 DEF FindFails, NoTurn, TurnOf, Answered
<1>21. CASE FindMoved
    BY <1>21 DEF FindMoved, Spend, Answered
<1>22. CASE Close
    <2>1. gate = NoCall
        BY <1>22 DEF Close, Recorded
    <2>q. QED
        BY <1>22, <2>1 DEF Close
<1>23. ASSUME NEW p \in Procs, Crash(p) PROVE GateBehind'
    BY <1>23 DEF Crash, Spend, NoTurn, TurnOf, Answered
<1>24. CASE UNCHANGED vars
    BY <1>24 DEF vars, Answered
<1>q. QED
    BY <1>1, <1>2, <1>3, <1>4, <1>5, <1>6, <1>7, <1>8, <1>9, <1>10, <1>11, <1>12, <1>13,
        <1>14, <1>15, <1>16, <1>17, <1>18, <1>19, <1>20, <1>21, <1>22, <1>23, <1>24
        DEF Next, AskStep, BatchStep, ResumeStep

\* An acknowledged answer has no open call before its own.
LEMMA PostsBehindStep ==
        PostsBehind /\ GateBehind /\ Inv /\ PostsTyped /\ PostsKnown /\ [Next]_vars => PostsBehind'
        
<1> SUFFICES ASSUME PostsBehind /\ GateBehind /\ Inv /\ PostsTyped /\ PostsKnown, [Next]_vars PROVE PostsBehind'
    OBVIOUS
<1>g. \A c \in Calls : Answered(c) => Answered(c)'
    BY Grow DEF Inv, Typed
<1> USE <1>g DEF PostsBehind, PostsTyped
<1>1. CASE \/ BatchStopped \/ BatchDone \/ Register \/ WriteGate \/ Heard \/ GivenUp
         \/ LiftGate \/ Unregister \/ Run \/ RecordResult \/ RecordDenial \/ EndTurn
         \/ Stop \/ FindSettled \/ FindPending \/ FindFails \/ FindMoved \/ Close
    BY <1>1 DEF BatchStopped, RecordRest, NoTurn, TurnOf, BatchDone, Register, WriteGate,
        Heard, GivenUp, LiftGate, Unregister, Run, RecordResult, Record, Next1, RecordDenial,
        EndTurn, Stop, Spend, FindSettled, FindPending, FindFails, FindMoved, Close
<1>2. ASSUME NEW p \in Procs, Prompt(p) PROVE PostsBehind'
    BY <1>2 DEF Prompt, Spend, NoTurn, TurnOf
<1>3. ASSUME NEW i \in Posts, Post(i) PROVE PostsBehind'
    BY <1>3 DEF Post, PostLive, PostNoWait
<1>4. ASSUME NEW i \in Posts, Look(i) PROVE PostsBehind'
    BY <1>4 DEF Look, Over, GateBehind, PostsKnown, NoCall, Calls
<1>5. ASSUME NEW i \in Posts, Admit(i) PROVE PostsBehind'
    BY <1>5 DEF Admit, Over, NoTurn, TurnOf
<1>6. ASSUME NEW p \in Procs, Crash(p) PROVE PostsBehind'
    BY <1>6 DEF Crash, Spend, NoTurn, TurnOf
<1>7. CASE UNCHANGED vars
    BY <1>7 DEF vars
<1>q. QED
    BY <1>1, <1>2, <1>3, <1>4, <1>5, <1>6, <1>7 DEF Next, AskStep, BatchStep, ResumeStep

\* The account of a call that has just got its result.
LEMMA Settled ==
  ASSUME NEW c \in Calls, Len(results'[c]) = 1, results'[c] # <<>>,
         \/ results'[c][1] = "done" /\ ran'[c] = killed'[c] + 1
         \/ results'[c][1] # "done" /\ ran'[c] = killed'[c]
  PROVE  Counted(c)'
BY DEF Counted, UnderWay, Answered

\* Every run of a call is accounted for.
LEMMA RunsCountedStep ==
        RunsCounted /\ Undecided /\ CallKnown /\ TurnTyped /\ BundleTyped /\ HistoryTyped /\ [Next]_vars => RunsCounted'
        
<1> SUFFICES ASSUME RunsCounted /\ Undecided /\ CallKnown /\ TurnTyped /\ BundleTyped /\ HistoryTyped, [Next]_vars PROVE RunsCounted'
    OBVIOUS
<1> USE DEF RunsCounted, Counted, UnderWay, At, Go, TurnTyped, HistoryTyped
<1>1. ASSUME NEW p \in Procs, Prompt(p) PROVE RunsCounted'
    BY <1>1 DEF Prompt, Spend, NoTurn, TurnOf, Answered
<1>2. CASE BatchStopped
    <2>1. /\ \A c \in Calls : Answered(c) \/ c < turn.at => results'[c] = results[c]
          /\ \A c \in Calls : c >= turn.at /\ ~Answered(c) =>
               Len(results'[c]) = 1 /\ results'[c][1] = "skipped" /\ results'[c] # <<>>
        <3>1. turn.at \in Nat /\ "skipped" \in Results
            BY DEF Results
        <3>q. QED
            BY <1>2, <3>1, RecordingRest DEF BatchStopped, Answered, Calls
    <2>2. ran' = ran /\ killed' = killed /\ turn.pc # "record" /\ turn'.pc # "record"
        BY <1>2 DEF BatchStopped, RecordRest, NoTurn, TurnOf
    <2>3. ASSUME NEW c \in Calls PROVE Counted(c)'
        <3>1. CASE Answered(c) \/ c < turn.at
            BY <2>1, <2>2, <3>1 DEF Answered
        <3>2. CASE ~(Answered(c) \/ c < turn.at)
            <4>1. c >= turn.at
                BY <3>2 DEF Calls
            <4>2. ran[c] = killed[c]
                BY <2>2, <3>2
            <4>q. QED
                BY <2>1, <2>2, <3>2, <4>1, <4>2, Settled
        <3>q. QED
            BY <3>1, <3>2
    <2>q. QED
        BY <2>3
<1>3. CASE BatchDone
    BY <1>3 DEF BatchDone, Answered
<1>4. CASE Register
    BY <1>4 DEF Register, Answered
<1>5. CASE WriteGate
    BY <1>5 DEF WriteGate, Answered
<1>6. CASE Heard
    BY <1>6 DEF Heard, Answered
<1>7. CASE GivenUp
    BY <1>7 DEF GivenUp, Answered
<1>8. CASE LiftGate
    BY <1>8 DEF LiftGate, Answered
<1>9. CASE Unregister
    BY <1>9 DEF Unregister, Answered
<1>10. CASE Run
    <2>1. turn.at \in Calls /\ ~Answered(turn.at)
        BY <1>10 DEF Run, CallKnown, Undecided, Deciding
    <2>q. QED
        BY <1>10, <2>1 DEF Run, Answered
<1>11. CASE RecordResult
    <2>1. turn.at \in Calls /\ Record(turn.at, "done") /\ ~Answered(turn.at) /\ turn'.pc # "record"
        BY <1>11 DEF RecordResult, Next1, CallKnown, Undecided, Deciding
    <2>2. /\ Len(results'[turn.at]) = 1 /\ results'[turn.at][1] = "done" /\ results'[turn.at] # <<>>
          /\ \A c \in Calls : c # turn.at => results'[c] = results[c]
        <3>1. "done" \in Results
            BY DEF Results
        <3>q. QED
            BY <2>1, <3>1, Recording
    <2>3. ran' = ran /\ killed' = killed
        BY <1>11 DEF RecordResult
    <2>4. ASSUME NEW c \in Calls PROVE Counted(c)'
        <3>1. CASE c = turn.at
            <4>1. ran[c] = killed[c] + 1
                BY <1>11, <2>1, <3>1 DEF RecordResult
            <4>q. QED
                BY <2>2, <2>3, <3>1, <4>1, Settled
        <3>2. CASE c # turn.at
            BY <1>11, <2>1, <2>2, <2>3, <3>2 DEF RecordResult, Answered
        <3>q. QED
            BY <3>1, <3>2
    <2>q. QED
        BY <2>4
<1>12. CASE RecordDenial
    <2>1. turn.at \in Calls /\ Record(turn.at, "denied") /\ ~Answered(turn.at) /\ turn'.pc # "record"
        BY <1>12 DEF RecordDenial, Next1, CallKnown, Undecided, Deciding
    <2>2. /\ Len(results'[turn.at]) = 1 /\ results'[turn.at][1] = "denied" /\ results'[turn.at] # <<>>
          /\ \A c \in Calls : c # turn.at => results'[c] = results[c]
        <3>1. "denied" \in Results
            BY DEF Results
        <3>q. QED
            BY <2>1, <3>1, Recording
    <2>3. ran' = ran /\ killed' = killed
        BY <1>12 DEF RecordDenial
    <2>4. ASSUME NEW c \in Calls PROVE Counted(c)'
        <3>1. CASE c = turn.at
            <4>1. ran[c] = killed[c]
                BY <1>12, <2>1, <3>1 DEF RecordDenial
            <4>q. QED
                BY <2>2, <2>3, <3>1, <4>1, Settled
        <3>2. CASE c # turn.at
            BY <1>12, <2>1, <2>2, <2>3, <3>2 DEF RecordDenial, Answered
        <3>q. QED
            BY <3>1, <3>2
    <2>q. QED
        BY <2>4
<1>13. CASE EndTurn
    BY <1>13 DEF EndTurn, NoTurn, TurnOf, Answered
<1>14. CASE Stop
    BY <1>14 DEF Stop, Spend, NoTurn, TurnOf, Answered
<1>15. ASSUME NEW i \in Posts, Post(i) PROVE RunsCounted'
    BY <1>15 DEF Post, PostLive, PostNoWait, Answered
<1>16. ASSUME NEW i \in Posts, Look(i) PROVE RunsCounted'
    BY <1>16 DEF Look, Over, Answered
<1>17. ASSUME NEW i \in Posts, Admit(i) PROVE RunsCounted'
    BY <1>17 DEF Admit, Over, NoTurn, TurnOf, Answered
<1>18. CASE FindSettled
    BY <1>18 DEF FindSettled, NoTurn, TurnOf, Answered
<1>19. CASE FindPending
    BY <1>19 DEF FindPending, Answered
<1>20. CASE FindFails
    BY <1>20 DEF FindFails, NoTurn, TurnOf, Answered
<1>21. CASE FindMoved
    BY <1>21 DEF FindMoved, Spend, Answered
<1>22. CASE Close
    <2>1. /\ \A c \in Calls : Answered(c) \/ c < (turn.at + 1) => results'[c] = results[c]
          /\ \A c \in Calls : c >= (turn.at + 1) /\ ~Answered(c) =>
               Len(results'[c]) = 1 /\ results'[c][1] = "skipped" /\ results'[c] # <<>>
        <3>1. (turn.at + 1) \in Nat /\ "skipped" \in Results
            BY DEF Results
        <3>q. QED
            BY <1>22, <3>1, RecordingRest DEF Close, Answered, Calls
    <2>2. ran' = ran /\ killed' = killed /\ turn.pc # "record" /\ turn'.pc # "record"
        BY <1>22 DEF Close, RecordRest
    <2>3. ASSUME NEW c \in Calls PROVE Counted(c)'
        <3>1. CASE Answered(c) \/ c < (turn.at + 1)
            BY <2>1, <2>2, <3>1 DEF Answered
        <3>2. CASE ~(Answered(c) \/ c < (turn.at + 1))
            <4>1. c >= (turn.at + 1)
                BY <3>2 DEF Calls
            <4>2. ran[c] = killed[c]
                BY <2>2, <3>2
            <4>q. QED
                BY <2>1, <2>2, <3>2, <4>1, <4>2, Settled
        <3>q. QED
            BY <3>1, <3>2
    <2>q. QED
        BY <2>3
<1>23. ASSUME NEW p \in Procs, Crash(p) PROVE RunsCounted'
    <2>1. turn'.pc # "record"
        BY <1>23 DEF Crash, Spend, NoTurn, TurnOf
    <2>2. CASE turn.pc = "record"
        <3>1. turn.at \in Calls /\ ~Answered(turn.at)
            BY <2>2 DEF CallKnown, Undecided, Deciding
        <3>q. QED
            BY <1>23, <2>1, <2>2, <3>1 DEF Crash, Answered
    <2>3. CASE turn.pc # "record"
        BY <1>23, <2>1, <2>3 DEF Crash, Answered
    <2>q. QED
        BY <2>2, <2>3
<1>24. CASE UNCHANGED vars
    BY <1>24 DEF vars, Answered
<1>q. QED
    BY <1>1, <1>2, <1>3, <1>4, <1>5, <1>6, <1>7, <1>8, <1>9, <1>10, <1>11, <1>12, <1>13,
        <1>14, <1>15, <1>16, <1>17, <1>18, <1>19, <1>20, <1>21, <1>22, <1>23, <1>24
        DEF Next, AskStep, BatchStep, ResumeStep

\* A wait and its channel are those of the prompt that stands.
LEMMA WaitIsOfTurnStep ==
        WaitIsOfTurn /\ Fresh /\ TurnTyped /\ WaitsTyped /\ [Next]_vars => WaitIsOfTurn'
<1> SUFFICES ASSUME WaitIsOfTurn /\ Fresh /\ TurnTyped /\ WaitsTyped, [Next]_vars PROVE WaitIsOfTurn'
    OBVIOUS
<1> USE DEF WaitIsOfTurn, WaitOf, Asking, At, Go, TurnTyped, NoCall
<1>1. CASE \/ BatchStopped \/ BatchDone \/ Run \/ RecordResult \/ RecordDenial \/ EndTurn
         \/ FindSettled \/ FindPending \/ FindFails \/ FindMoved \/ Close
    BY <1>1 DEF BatchStopped, RecordRest, NoTurn, TurnOf, BatchDone, Run, RecordResult,
        Record, Next1, RecordDenial, EndTurn, FindSettled, FindPending, FindFails, FindMoved,
        Spend, Close
<1>2. ASSUME NEW p \in Procs, Prompt(p) PROVE WaitIsOfTurn'
    BY <1>2 DEF Prompt, Spend, NoTurn, TurnOf, Fresh
<1>3. CASE Register
    BY <1>3, EmptySeq DEF Register, WaitsTyped, Fresh
<1>4. CASE WriteGate
    BY <1>4 DEF WriteGate
<1>5. CASE Heard
    BY <1>5, Headed DEF Heard, WaitsTyped
<1>6. CASE GivenUp
    BY <1>6 DEF GivenUp
<1>7. CASE LiftGate
    BY <1>7 DEF LiftGate
<1>8. CASE Unregister
    BY <1>8, EmptySeq DEF Unregister, WaitsTyped, Fresh
<1>9. CASE Stop
    BY <1>9 DEF Stop, Spend, NoTurn, TurnOf
<1>10. ASSUME NEW i \in Posts, Post(i) PROVE WaitIsOfTurn'
    <2>1. PICK p \in Procs, c \in Calls, v \in Verdicts : PostLive(i, p, c, v) \/ PostNoWait(i, p, c, v)
        BY <1>10 DEF Post
    <2>2. CASE PostLive(i, p, c, v)
        <3>1. inbox[p] = <<>> /\ turn.proc = p /\ turn.at = c /\ turn.pc \in Asking
            BY <2>2 DEF PostLive, WaitIsOfTurn, WaitOf, Calls, NoCall
        <3>2. Len(Append(inbox[p], v)) = 1 /\ Append(inbox[p], v)[1] = v
            BY <3>1, Appended, EmptySeq DEF WaitsTyped
        <3>3. /\ inbox'[p] = Append(inbox[p], v) /\ waits'[p] = NoCall /\ turn' = turn
              /\ \A o \in Procs : o # p => inbox'[o] = inbox[o] /\ waits'[o] = waits[o]
            BY <1>10, <2>2 DEF Post, PostLive, WaitsTyped
        <3>4. ASSUME NEW o \in Procs PROVE WaitOf(o)'
            <4>1. CASE o = p
                <5>1. waits'[o] = NoCall /\ Len(inbox'[o]) = 1
                    BY <3>2, <3>3, <4>1
                <5>2. turn'.proc = o /\ turn'.pc \in Asking
                    BY <3>1, <3>3, <4>1
                <5>q. QED
                    BY <5>1, <5>2
            <4>2. CASE o # p
                BY <3>3, <4>2
            <4>q. QED
                BY <4>1, <4>2
        <3>q. QED
            BY <3>4
    <2>3. CASE PostNoWait(i, p, c, v)
        BY <1>10, <2>3 DEF Post, PostNoWait
    <2>q. QED
        BY <2>1, <2>2, <2>3
<1>11. ASSUME NEW i \in Posts, Look(i) PROVE WaitIsOfTurn'
    BY <1>11 DEF Look, Over
<1>12. ASSUME NEW i \in Posts, Admit(i) PROVE WaitIsOfTurn'
    BY <1>12 DEF Admit, Over, NoTurn, TurnOf
<1>13. ASSUME NEW p \in Procs, Crash(p) PROVE WaitIsOfTurn'
    BY <1>13, EmptySeq DEF Crash, Spend, NoTurn, TurnOf, WaitsTyped
<1>14. CASE UNCHANGED vars
    BY <1>14 DEF vars
<1>q. QED
    BY <1>1, <1>2, <1>3, <1>4, <1>5, <1>6, <1>7, <1>8, <1>9, <1>10, <1>11, <1>12, <1>13, <1>14
        DEF Next, AskStep, BatchStep, ResumeStep

\* A turn acts on an answer given for its call.
LEMMA TurnGivenStep ==
        TurnGiven /\ InboxGiven /\ PostsGiven /\ CallKnown /\ Fresh /\ TurnTyped /\ WaitsTyped /\ [Next]_vars => TurnGiven'
        
<1> SUFFICES ASSUME TurnGiven /\ InboxGiven /\ PostsGiven /\ CallKnown /\ Fresh /\ TurnTyped /\ WaitsTyped, [Next]_vars PROVE TurnGiven'
    OBVIOUS
<1> USE DEF TurnGiven, At, Go, TurnTyped
<1>1. ASSUME NEW p \in Procs, Prompt(p) PROVE TurnGiven'
    BY <1>1 DEF Prompt, Spend, NoTurn, TurnOf
<1>2. CASE BatchStopped
    <2>1. turn' = NoTurn
        BY <1>2 DEF BatchStopped
    <2>q. QED
        BY <2>1 DEF NoTurn, TurnOf
<1>3. CASE BatchDone
    BY <1>3 DEF BatchDone
<1>4. CASE Register
    BY <1>4 DEF Register
<1>5. CASE WriteGate
    BY <1>5 DEF WriteGate
<1>6. CASE Heard
    <2>1. Head(inbox[turn.proc]) = inbox[turn.proc][1] /\ turn.proc \in Procs
        BY <1>6, Headed DEF Heard, WaitsTyped, Fresh
    <2>q. QED
        BY <1>6, <2>1 DEF Heard, InboxGiven
<1>7. CASE GivenUp
    BY <1>7 DEF GivenUp
<1>8. CASE LiftGate
    BY <1>8 DEF LiftGate
<1>9. CASE Unregister
    BY <1>9 DEF Unregister
<1>10. CASE Run
    BY <1>10 DEF Run
<1>11. CASE RecordResult
    BY <1>11 DEF RecordResult, Record, Next1
<1>12. CASE RecordDenial
    BY <1>12 DEF RecordDenial, Record, Next1
<1>13. CASE EndTurn
    <2>1. turn' = NoTurn
        BY <1>13 DEF EndTurn
    <2>q. QED
        BY <2>1 DEF NoTurn, TurnOf
<1>14. CASE Stop
    BY <1>14 DEF Stop, Spend, NoTurn, TurnOf
<1>15. ASSUME NEW i \in Posts, Post(i) PROVE TurnGiven'
    BY <1>15 DEF Post, PostLive, PostNoWait
<1>16. ASSUME NEW i \in Posts, Look(i) PROVE TurnGiven'
    BY <1>16 DEF Look, Over
<1>17. ASSUME NEW i \in Posts, Admit(i) PROVE TurnGiven'
    BY <1>17 DEF Admit, Over, NoTurn, TurnOf, PostsGiven
<1>18. CASE FindSettled
    <2>1. turn' = NoTurn
        BY <1>18 DEF FindSettled
    <2>q. QED
        BY <2>1 DEF NoTurn, TurnOf
<1>19. CASE FindPending
    BY <1>19 DEF FindPending, CallKnown, Verdicts
<1>20. CASE FindFails
    <2>1. turn' = NoTurn
        BY <1>20 DEF FindFails
    <2>q. QED
        BY <2>1 DEF NoTurn, TurnOf
<1>21. CASE FindMoved
    BY <1>21 DEF FindMoved, Spend
<1>22. CASE Close
    BY <1>22 DEF Close, RecordRest
<1>23. ASSUME NEW p \in Procs, Crash(p) PROVE TurnGiven'
    <2>1. turn' = NoTurn
        BY <1>23 DEF Crash
    <2>q. QED
        BY <2>1 DEF NoTurn, TurnOf
<1>24. CASE UNCHANGED vars
    BY <1>24 DEF vars
<1>q. QED
    BY <1>1, <1>2, <1>3, <1>4, <1>5, <1>6, <1>7, <1>8, <1>9, <1>10, <1>11, <1>12, <1>13,
        <1>14, <1>15, <1>16, <1>17, <1>18, <1>19, <1>20, <1>21, <1>22, <1>23, <1>24
        DEF Next, AskStep, BatchStep, ResumeStep

\* An answer in a channel was given for the call of the prompt.
LEMMA InboxGivenStep ==
        InboxGiven /\ WaitIsOfTurn /\ Fresh /\ TurnTyped /\ WaitsTyped /\ [Next]_vars => InboxGiven'
        
<1> SUFFICES ASSUME InboxGiven /\ WaitIsOfTurn /\ Fresh /\ TurnTyped /\ WaitsTyped, [Next]_vars PROVE InboxGiven'
    OBVIOUS
<1> USE DEF InboxGiven, At, Go, TurnTyped
<1>1. CASE \/ WriteGate \/ GivenUp \/ LiftGate \/ FindPending \/ FindMoved \/ Stop
         \/ Run
    BY <1>1 DEF WriteGate, GivenUp, LiftGate, FindPending, FindMoved, Spend, Stop, NoTurn,
        TurnOf, Run
<1>2. ASSUME NEW p \in Procs, Prompt(p) PROVE InboxGiven'
    <2>1. \A o \in Procs : inbox[o] = <<>>
        BY <1>2 DEF Prompt, Spend, NoTurn, TurnOf, WaitIsOfTurn, WaitOf, Asking
    <2>2. inbox' = inbox
        BY <1>2 DEF Prompt, Spend, NoTurn, TurnOf
    <2>q. QED
        BY <2>1, <2>2
<1>3. CASE BatchStopped
    <2>1. \A p \in Procs : inbox[p] = <<>>
        BY <1>3 DEF BatchStopped, RecordRest, NoTurn, TurnOf, WaitIsOfTurn, WaitOf, Asking
    <2>2. inbox' = inbox
        BY <1>3 DEF BatchStopped, RecordRest, NoTurn, TurnOf
    <2>q. QED
        BY <2>1, <2>2
<1>4. CASE BatchDone
    <2>1. \A p \in Procs : inbox[p] = <<>>
        BY <1>4 DEF BatchDone, WaitIsOfTurn, WaitOf, Asking
    <2>2. inbox' = inbox
        BY <1>4 DEF BatchDone
    <2>q. QED
        BY <2>1, <2>2
<1>5. CASE Register
    BY <1>5 DEF Register, WaitsTyped
<1>6. CASE Heard
    <2>1. inbox[turn.proc] # <<>> /\ Len(inbox[turn.proc]) <= 1 /\ turn.proc \in Procs
        BY <1>6 DEF Heard, WaitIsOfTurn, WaitOf, Fresh
    <2>2. Tail(inbox[turn.proc]) = <<>>
        BY <2>1, Headed DEF WaitsTyped
    <2>q. QED
        BY <1>6, <2>1, <2>2 DEF Heard, WaitsTyped
<1>7. CASE Unregister
    BY <1>7 DEF Unregister, WaitsTyped
<1>8. CASE RecordResult
    <2>1. \A p \in Procs : inbox[p] = <<>>
        BY <1>8 DEF RecordResult, Record, Next1, WaitIsOfTurn, WaitOf, Asking
    <2>2. inbox' = inbox
        BY <1>8 DEF RecordResult, Record, Next1
    <2>q. QED
        BY <2>1, <2>2
<1>9. CASE RecordDenial
    <2>1. \A p \in Procs : inbox[p] = <<>>
        BY <1>9 DEF RecordDenial, Record, Next1, WaitIsOfTurn, WaitOf, Asking
    <2>2. inbox' = inbox
        BY <1>9 DEF RecordDenial, Record, Next1
    <2>q. QED
        BY <2>1, <2>2
<1>10. CASE EndTurn
    <2>1. \A p \in Procs : inbox[p] = <<>>
        BY <1>10 DEF EndTurn, NoTurn, TurnOf, WaitIsOfTurn, WaitOf, Asking
    <2>2. inbox' = inbox
        BY <1>10 DEF EndTurn, NoTurn, TurnOf
    <2>q. QED
        BY <2>1, <2>2
<1>11. ASSUME NEW i \in Posts, Post(i) PROVE InboxGiven'
    <2>1. PICK p \in Procs, c \in Calls, v \in Verdicts : PostLive(i, p, c, v) \/ PostNoWait(i, p, c, v)
        BY <1>11 DEF Post
    <2>2. CASE PostLive(i, p, c, v)
        <3>1. inbox[p] = <<>> /\ turn.proc = p /\ turn.at = c /\ turn.pc \in Asking
            BY <2>2 DEF PostLive, WaitIsOfTurn, WaitOf, Calls, NoCall
        <3>2. Len(Append(inbox[p], v)) = 1 /\ Append(inbox[p], v)[1] = v
            BY <3>1, Appended, EmptySeq DEF WaitsTyped
        <3>3. /\ inbox'[p] = Append(inbox[p], v) /\ waits'[p] = NoCall /\ turn' = turn
              /\ \A o \in Procs : o # p => inbox'[o] = inbox[o] /\ waits'[o] = waits[o]
            BY <1>11, <2>2 DEF Post, PostLive, WaitsTyped
        <3>4. allowed' = IF v = "allow" THEN allowed \cup {c} ELSE allowed
            BY <2>2 DEF PostLive
        <3>q. QED
            BY <3>1, <3>2, <3>3, <3>4
    <2>3. CASE PostNoWait(i, p, c, v)
        BY <1>11, <2>3 DEF Post, PostNoWait
    <2>q. QED
        BY <2>1, <2>2, <2>3
<1>12. ASSUME NEW i \in Posts, Look(i) PROVE InboxGiven'
    BY <1>12 DEF Look, Over
<1>13. ASSUME NEW i \in Posts, Admit(i) PROVE InboxGiven'
    <2>1. CASE turn = NoTurn
        <3>1. \A o \in Procs : inbox[o] = <<>>
            BY <2>1 DEF NoTurn, TurnOf, WaitIsOfTurn, WaitOf, Asking
        <3>q. QED
            BY <1>13, <3>1 DEF Admit
    <2>2. CASE turn # NoTurn
        BY <1>13, <2>2 DEF Admit
    <2>q. QED
        BY <2>1, <2>2
<1>14. CASE FindSettled
    <2>1. \A p \in Procs : inbox[p] = <<>>
        BY <1>14 DEF FindSettled, NoTurn, TurnOf, WaitIsOfTurn, WaitOf, Asking
    <2>2. inbox' = inbox
        BY <1>14 DEF FindSettled, NoTurn, TurnOf
    <2>q. QED
        BY <2>1, <2>2
<1>15. CASE FindFails
    <2>1. \A p \in Procs : inbox[p] = <<>>
        BY <1>15 DEF FindFails, NoTurn, TurnOf, WaitIsOfTurn, WaitOf, Asking
    <2>2. inbox' = inbox
        BY <1>15 DEF FindFails, NoTurn, TurnOf
    <2>q. QED
        BY <2>1, <2>2
<1>16. CASE Close
    <2>1. \A p \in Procs : inbox[p] = <<>>
        BY <1>16 DEF Close, RecordRest, WaitIsOfTurn, WaitOf, Asking
    <2>2. inbox' = inbox
        BY <1>16 DEF Close, RecordRest
    <2>q. QED
        BY <2>1, <2>2
<1>17. ASSUME NEW p \in Procs, Crash(p) PROVE InboxGiven'
    <2>1. \A o \in Procs : inbox'[o] = <<>>
        BY <1>17 DEF Crash, WaitIsOfTurn, WaitOf, WaitsTyped
    <2>q. QED
        BY <2>1
<1>18. CASE UNCHANGED vars
    BY <1>18 DEF vars
<1>q. QED
    BY <1>1, <1>2, <1>3, <1>4, <1>5, <1>6, <1>7, <1>8, <1>9, <1>10, <1>11, <1>12, <1>13,
        <1>14, <1>15, <1>16, <1>17, <1>18 DEF Next, AskStep, BatchStep, ResumeStep

\* An acknowledged answer that allows its call is on record as that.
LEMMA PostsGivenStep == PostsGiven /\ PostsTyped /\ [Next]_vars => PostsGiven'
<1> SUFFICES ASSUME PostsGiven /\ PostsTyped, [Next]_vars PROVE PostsGiven'
    OBVIOUS
<1> USE DEF PostsGiven, PostsTyped
<1>1. CASE \/ BatchStopped \/ BatchDone \/ Register \/ WriteGate \/ Heard \/ GivenUp
         \/ LiftGate \/ Unregister \/ Run \/ RecordResult \/ RecordDenial \/ EndTurn
         \/ Stop \/ FindSettled \/ FindPending \/ FindFails \/ FindMoved \/ Close
    BY <1>1 DEF BatchStopped, RecordRest, NoTurn, TurnOf, BatchDone, Register, WriteGate,
        Heard, GivenUp, LiftGate, Unregister, Run, RecordResult, Record, Next1, RecordDenial,
        EndTurn, Stop, Spend, FindSettled, FindPending, FindFails, FindMoved, Close
<1>2. ASSUME NEW p \in Procs, Prompt(p) PROVE PostsGiven'
    BY <1>2 DEF Prompt, Spend, NoTurn, TurnOf
<1>3. ASSUME NEW i \in Posts, Post(i) PROVE PostsGiven'
    <2>1. PICK p \in Procs, c \in Calls, v \in Verdicts : PostLive(i, p, c, v) \/ PostNoWait(i, p, c, v)
        BY <1>3 DEF Post
    <2>2. CASE PostLive(i, p, c, v)
        BY <1>3, <2>2 DEF Post, PostLive
    <2>3. CASE PostNoWait(i, p, c, v)
        BY <1>3, <2>3 DEF Post, PostNoWait
    <2>q. QED
        BY <2>1, <2>2, <2>3
<1>4. ASSUME NEW i \in Posts, Look(i) PROVE PostsGiven'
    BY <1>4 DEF Look, Over
<1>5. ASSUME NEW i \in Posts, Admit(i) PROVE PostsGiven'
    BY <1>5 DEF Admit, Over, NoTurn, TurnOf
<1>6. ASSUME NEW p \in Procs, Crash(p) PROVE PostsGiven'
    BY <1>6 DEF Crash, Spend, NoTurn, TurnOf
<1>7. CASE UNCHANGED vars
    BY <1>7 DEF vars
<1>q. QED
    BY <1>1, <1>2, <1>3, <1>4, <1>5, <1>6, <1>7 DEF Next, AskStep, BatchStep, ResumeStep

\* A run is of an allowed call.
LEMMA RunsStep ==
        RunsOnlyAllowed /\ TurnGiven /\ HistoryTyped /\ CallKnown /\ [Next]_vars => RunsOnlyAllowed'
        
<1> SUFFICES ASSUME RunsOnlyAllowed /\ TurnGiven /\ HistoryTyped /\ CallKnown, [Next]_vars PROVE RunsOnlyAllowed'
    OBVIOUS
<1> USE DEF RunsOnlyAllowed, HistoryTyped
<1>1. CASE \/ BatchStopped \/ BatchDone \/ Register \/ WriteGate \/ Heard \/ GivenUp
         \/ LiftGate \/ Unregister \/ RecordResult \/ RecordDenial \/ EndTurn \/ Stop
         \/ FindSettled \/ FindPending \/ FindFails \/ FindMoved \/ Close
    BY <1>1 DEF BatchStopped, RecordRest, NoTurn, TurnOf, BatchDone, Register, WriteGate,
        Heard, GivenUp, LiftGate, Unregister, RecordResult, Record, Next1, RecordDenial,
        EndTurn, Stop, Spend, FindSettled, FindPending, FindFails, FindMoved, Close
<1>2. ASSUME NEW p \in Procs, Prompt(p) PROVE RunsOnlyAllowed'
    BY <1>2 DEF Prompt, Spend, NoTurn, TurnOf
<1>3. CASE Run
    BY <1>3 DEF Run, At, Go, TurnGiven
<1>4. ASSUME NEW i \in Posts, Post(i) PROVE RunsOnlyAllowed'
    BY <1>4 DEF Post, PostLive, PostNoWait
<1>5. ASSUME NEW i \in Posts, Look(i) PROVE RunsOnlyAllowed'
    BY <1>5 DEF Look, Over
<1>6. ASSUME NEW i \in Posts, Admit(i) PROVE RunsOnlyAllowed'
    BY <1>6 DEF Admit, Over, NoTurn, TurnOf
<1>7. ASSUME NEW p \in Procs, Crash(p) PROVE RunsOnlyAllowed'
    BY <1>7 DEF Crash, Spend, NoTurn, TurnOf
<1>8. CASE UNCHANGED vars
    BY <1>8 DEF vars
<1>q. QED
    BY <1>1, <1>2, <1>3, <1>4, <1>5, <1>6, <1>7, <1>8 DEF Next, AskStep, BatchStep, ResumeStep

\* The first state.
LEMMA InvInit == Init => Inv
<1> SUFFICES ASSUME Init PROVE Inv
    OBVIOUS
<1> USE DEF Init, NoCall
<1>0. \A S : <<>> \in Seq(S) /\ Len(<<>>) = 0
    BY EmptySeq
<1>1. Typed
    <2>1. TurnTyped
        BY BoundsAssumption DEF TurnTyped, NoTurn, TurnOf, Places
    <2>2. BundleTyped /\ WaitsTyped
        BY <1>0 DEF BundleTyped, WaitsTyped
    <2>3. PostsTyped
        BY DEF PostsTyped, NoPost
    <2>4. HistoryTyped
        <3>1. \A b \in Budgets : Bound(b) \in Nat
            BY BoundsAssumption DEF Budgets, Bound
        <3>q. QED
            BY <3>1 DEF HistoryTyped
    <2>q. QED
        BY <2>1, <2>2, <2>3, <2>4 DEF Typed
<1>2. Fresh /\ CallKnown /\ PostsKnown
    BY DEF Fresh, CallKnown, PostsKnown, NoTurn, TurnOf, NoPost, Deciding, Asking
<1>3. Undecided /\ Behind /\ GateBehind /\ PostsBehind /\ Recorded
    BY DEF Undecided, Behind, GateBehind, PostsBehind, Recorded, NoTurn, TurnOf, NoPost, Deciding, Asking
<1>4. RunsCounted /\ WaitIsOfTurn
    BY <1>0 DEF RunsCounted, Counted, UnderWay, Answered, WaitIsOfTurn, WaitOf, NoTurn, TurnOf
<1>5. TurnGiven /\ InboxGiven /\ PostsGiven /\ RunsOnlyAllowed
    BY DEF TurnGiven, InboxGiven, PostsGiven, RunsOnlyAllowed, NoTurn, TurnOf, NoPost
<1>q. QED
    BY <1>1, <1>2, <1>3, <1>4, <1>5 DEF Inv

\* Every step keeps the whole of it.
LEMMA InvStep == Inv /\ [Next]_vars => Inv'
BY TurnStep, BundleStep, WaitsStep, PostsStep, HistoryStep, FreshStep, CallKnownStep,
   PostsKnownStep, UndecidedStep, BehindStep, GateBehindStep, PostsBehindStep, RecordedStep,
   RunsCountedStep, WaitIsOfTurnStep, TurnGivenStep, InboxGivenStep, PostsGivenStep, RunsStep
   DEF Inv, Typed

\* The invariant of every behaviour.
THEOREM Invariance == Spec => []Inv
<1>1. Init => Inv
    BY InvInit
<1>2. Inv /\ [Next]_vars => Inv'
    BY InvStep
<1>q. QED
    BY <1>1, <1>2, PTL DEF Spec

\* Every variable keeps its form, and no channel of a wait is sent to twice
\* (permissionhub.go).
THEOREM TypeCorrect == Spec => []TypeOK
<1>1. Inv => TypeOK
    BY DEF Inv, Typed, TypeOK, WaitIsOfTurn, WaitOf
<1>q. QED
    BY <1>1, Invariance, PTL

\* No call runs without an acknowledged answer that allowed it, live or resumed.
THEOREM OnlyAllowedCallsRun == Spec => []RunsOnlyAllowed
<1>1. Inv => RunsOnlyAllowed
    BY DEF Inv
<1>q. QED
    BY <1>1, Invariance, PTL

\* A call has one result, and a refused or skipped one did not run unless its process died in
\* the middle of it.
THEOREM OutcomeIsOne == Spec => []OneOutcome
<1>1. Inv => OneOutcome
    BY DEF Inv, OneOutcome, RunsCounted, Counted
<1>q. QED
    BY <1>1, Invariance, PTL

\* A call runs once, and once more for each process that died in the middle of it.
THEOREM CallsRunOnce == Spec => []RunsOnce
<1>1. Inv => RunsOnce
    BY SMTT(30) DEF Inv, Typed, HistoryTyped, RunsOnce, RunsCounted, Counted
<1>q. QED
    BY <1>1, Invariance, PTL

\* The record in the bundle never names a call with a result, whatever order prompts, answers,
\* stops and deaths come in.
THEOREM RecordIsOpen == Spec => []GateIsOpen
<1>1. Inv => GateIsOpen
    BY DEF Inv, GateIsOpen, GateBehind
<1>q. QED
    BY <1>1, Invariance, PTL

\* The record of a call is gone before the call is decided, so a death in the middle of it
\* does not offer it again.
THEOREM BegunIsHidden == Spec => []BegunIsNotOffered
<1>1. Inv => BegunIsNotOffered
    BY DEF Inv, BegunIsNotOffered, Recorded, CallKnown, Calls, NoCall, Deciding, Asking
<1>q. QED
    BY <1>1, Invariance, PTL

\* The model is asked to go on only from a batch with a result for every call.
THEOREM BatchesAreWhole == Spec => []BatchIsWhole
<1>1. Inv => BatchIsWhole
    BY DEF Inv, BatchIsWhole, Behind, At
<1>q. QED
    BY <1>1, Invariance, PTL

-------------------------------------------------------------------------------
(*****************************************************************************)
(* The queue.  The inductive invariant QueueInv says where every accepted    *)
(* message is, what every announcement tells, and that somebody still has to *)
(* announce whatever no announcement tells yet.                              *)
(*****************************************************************************)

\* Where the turn's goroutine stands, what is open, installed and in hand.
TurnStands ==
    /\ pc \in {"running", "boundary", "charge", "capped", "starting"} => open
    /\ pc \in {"idle", "released"} => ~ open
    /\ notifier <=> pc # "idle"
    /\ announce => pc # "idle"
    /\ batch # <<>> <=> pc \in {"charge", "starting"}

\* Each run but the first was charged for, and a charge over its bound is the last.
RunsCharged ==
    /\ pc \in {"running", "boundary", "charge", "starting"} =>
           followUps <= MaxFollowUps /\ afterTurns <= MaxAfterTurns
    /\ pc \in {"running", "boundary", "charge"} => runs = 1 + followUps + afterTurns
    /\ pc = "starting" => runs = followUps + afterTurns
    /\ runs <= 1 + MaxFollowUps + MaxAfterTurns

Once(rows) == \A i, j \in DOMAIN rows : rows[i].id = rows[j].id => i = j
Apart(A, B, C, D, E) ==
    /\ A \cap B = {} /\ A \cap C = {} /\ A \cap D = {} /\ A \cap E = {}
    /\ B \cap C = {} /\ B \cap D = {} /\ B \cap E = {}
    /\ C \cap D = {} /\ C \cap E = {} /\ D \cap E = {}

\* Every message accepted is in one place, once.
EachPlaced ==
    /\ Once(queue) /\ Once(batch)
    /\ Apart(Ids(queue), Ids(batch), read, taken, dropped)
    /\ Ids(queue) \cup Ids(batch) \cup read \cup taken \cup dropped = 1 .. nextId - 1

\* No answer is ahead of the queue, and one with its version tells what it holds.
Answers == frames \cup {client}
VersionsTell ==
    /\ \A f \in Answers : f.version <= version /\ (f.version = version => f.rows = queue)
    /\ \A f, g \in Answers : f.version = g.version => f.rows = g.rows

\* Some answer tells the queue as it is, and no answer that would win over it tells
\* anything else.
Told ==
    \E f \in Answers : \A g \in Answers : g.version >= f.version => g.rows = queue
\* Or somebody still has to announce it.
Pending ==
    \/ announce
    \/ \E c \in Clients : \/ op[c] \in {"edited", "publish"}
                          \/ op[c] = "notify" /\ open /\ queue # <<>>
                          \/ op[c] = "recheck" /\ ~ open
ToldOrPending == Told \/ Pending

QueueInv ==
    /\ QueueTypeOK /\ TurnStands /\ RunsCharged /\ EachPlaced /\ VersionsTell
    /\ ToldOrPending /\ SteerNotStranded

-------------------------------------------------------------------------------
(* What the operators on rows do. *)

UpTo(at, i) == {j \in at : j <= i}
Nth(at, n) == CHOOSE i \in at : Cardinality(UpTo(at, i)) = n

\* The places in a finite set of numbers, from the first to the last, each once.
LEMMA PlacesAreNumbered ==
    ASSUME NEW n \in Nat, NEW at \in SUBSET (1 .. n)
    PROVE  /\ Cardinality(at) \in 0 .. n
           /\ \A k \in 1 .. Cardinality(at) : Nth(at, k) \in at
           /\ \A k, l \in 1 .. Cardinality(at) : Nth(at, k) = Nth(at, l) => k = l
           /\ \A i \in at : \E k \in 1 .. Cardinality(at) : Nth(at, k) = i
<1> DEFINE size == Cardinality(at)
           place == [i \in at |-> Cardinality(UpTo(at, i))]
<1>1. IsFiniteSet(1 .. n) /\ Cardinality(1 .. n) = n
    BY FS_Interval
<1>2. IsFiniteSet(at) /\ size \in 0 .. n
    <2>1. IsFiniteSet(at) /\ Cardinality(at) <= Cardinality(1 .. n)
        BY <1>1, FS_Subset
    <2> QED BY <1>1, <2>1, FS_CardinalityType
<1>3. ASSUME NEW i \in at
      PROVE  IsFiniteSet(UpTo(at, i)) /\ Cardinality(UpTo(at, i)) \in 1 .. size
    <2>1. UpTo(at, i) \subseteq at /\ i \in UpTo(at, i)
        BY DEF UpTo
    <2>2. IsFiniteSet(UpTo(at, i)) /\ Cardinality(UpTo(at, i)) <= size
        BY ONLY <2>1, <1>2, FS_Subset
    <2>3. Cardinality(UpTo(at, i)) \in Nat /\ Cardinality(UpTo(at, i)) # 0
        BY ONLY <2>1, <2>2, FS_CardinalityType, FS_EmptySet
    <2> QED BY <1>2, <2>2, <2>3
<1>4. ASSUME NEW i \in at, NEW j \in at, i < j
      PROVE  Cardinality(UpTo(at, i)) < Cardinality(UpTo(at, j))
    <2>1. UpTo(at, i) \subseteq UpTo(at, j) /\ j \in UpTo(at, j) /\ j \notin UpTo(at, i)
        <3>1. at \subseteq Nat /\ i \in Nat /\ j \in Nat /\ i \in at /\ j \in at
            OBVIOUS
        <3>2. \A k \in Nat : k <= i => k <= j
            BY <1>4, <3>1
        <3>3. UpTo(at, i) \subseteq UpTo(at, j)
            BY ONLY <3>1, <3>2 DEF UpTo
        <3>4. j \in UpTo(at, j)
            BY ONLY <3>1 DEF UpTo
        <3>5. j \notin UpTo(at, i)
            BY ONLY <1>4, <3>1 DEF UpTo
        <3> QED BY ONLY <3>3, <3>4, <3>5
    <2>2. IsFiniteSet(UpTo(at, i)) /\ IsFiniteSet(UpTo(at, j))
        BY <1>3
    <2>3. Cardinality(UpTo(at, i)) <= Cardinality(UpTo(at, j))
        BY ONLY <2>1, <2>2, FS_Subset
    <2>4. Cardinality(UpTo(at, i)) # Cardinality(UpTo(at, j))
        BY ONLY <2>1, <2>2, FS_Subset
    <2>5. Cardinality(UpTo(at, i)) \in Nat /\ Cardinality(UpTo(at, j)) \in Nat
        BY <2>2, FS_CardinalityType
    <2> QED BY <2>3, <2>4, <2>5
<1>5. place \in [at -> 1 .. size]
    BY <1>3
<1>6. \A i, j \in at : place[i] = place[j] => i = j
    <2> SUFFICES ASSUME NEW i \in at, NEW j \in at, i # j PROVE place[i] # place[j]
        OBVIOUS
    <2>1. i < j \/ j < i
        OBVIOUS
    <2>2. place[i] < place[j] \/ place[j] < place[i]
        BY <2>1, <1>4
    <2>3. place[i] \in 1 .. size /\ place[j] \in 1 .. size
        BY <1>5
    <2> HIDE DEF place, size
    <2> QED BY <2>2, <2>3, <1>2
<1>7. \A i \in at : place[i] = Cardinality(UpTo(at, i))
    OBVIOUS
<1> HIDE DEF place
<1>8. place \in Injection(at, 1 .. size)
    BY <1>5, <1>6, Fun_IsInj
<1>9. IsFiniteSet(1 .. size) /\ Cardinality(1 .. size) = size
    <2>1. size \in Nat
        BY <1>2
    <2> HIDE DEF size
    <2> QED BY <2>1, FS_Interval
<1>10. place \in Surjection(at, 1 .. size)
    BY <1>8, <1>9, FS_Injection
<1>11. \A k \in 1 .. size : \E i \in at : place[i] = k
    <2> HIDE DEF size
    <2> QED BY <1>10, Fun_SurjectionProperties
<1>12. \A k \in 1 .. size : Nth(at, k) \in at /\ place[Nth(at, k)] = k
    <2> SUFFICES ASSUME NEW k \in 1 .. size
                 PROVE  Nth(at, k) \in at /\ place[Nth(at, k)] = k
        OBVIOUS
    <2>1. PICK i \in at : place[i] = k
        BY <1>11
    <2>2. Cardinality(UpTo(at, i)) = k
        BY <1>7, <2>1
    <2>3. Nth(at, k) \in at /\ Cardinality(UpTo(at, Nth(at, k))) = k
        BY <2>2 DEF Nth
    <2> QED BY <1>7, <2>3
<1>13. \A i \in at : place[i] \in 1 .. size /\ Nth(at, place[i]) = i
    BY <1>5, <1>6, <1>12
<1> HIDE DEF size
<1>14. \A k, l \in 1 .. size : Nth(at, k) = Nth(at, l) => k = l
    BY <1>12
<1> QED
    BY <1>2, <1>12, <1>13, <1>14 DEF size

\* The places of a whole list are the places themselves.
LEMMA EveryPlaceIsItsNumber ==
    ASSUME NEW n \in Nat
    PROVE  Cardinality(1 .. n) = n /\ \A k \in 1 .. n : Nth(1 .. n, k) = k
<1>1. ASSUME NEW i \in 1 .. n PROVE Cardinality(UpTo(1 .. n, i)) = i
    <2>1. UpTo(1 .. n, i) = 1 .. i
        BY DEF UpTo
    <2>2. Cardinality(1 .. i) = IF 1 > i THEN 0 ELSE i - 1 + 1
        BY FS_Interval
    <2> QED BY <2>1, <2>2
<1>2. Cardinality(1 .. n) = IF 1 > n THEN 0 ELSE n - 1 + 1
    BY FS_Interval
<1> QED
    BY <1>1, <1>2 DEF Nth

\* The rows of a mode: those rows, each once if the rows were.
AreOfMode(of, rows, mode) ==
    /\ of \in Seq(Row)
    /\ \A k \in DOMAIN of : of[k].mode = mode /\ \E i \in DOMAIN rows : of[k] = rows[i]
    /\ \A i \in DOMAIN rows : rows[i].mode = mode => \E k \in DOMAIN of : of[k] = rows[i]
    /\ Once(rows) => Once(of)
    /\ (\A i \in DOMAIN rows : rows[i].mode = mode) => of = rows
    /\ (of = <<>>) = (\A i \in DOMAIN rows : rows[i].mode # mode)

LEMMA RowsOfMode ==
    ASSUME NEW rows \in Seq(Row), NEW mode \in Modes
    PROVE  AreOfMode(OfMode(rows, mode), rows, mode)
<1> DEFINE at == {i \in DOMAIN rows : rows[i].mode = mode}
           size == Cardinality(at)
           of == OfMode(rows, mode)
<1>1. /\ Len(rows) \in Nat /\ DOMAIN rows = 1 .. Len(rows) /\ at \in SUBSET (1 .. Len(rows))
      /\ \A i \in DOMAIN rows : rows[i] \in Row
    OBVIOUS
<1>2. of = [k \in 1 .. size |-> rows[Nth(at, k)]]
    BY DEF OfMode, Nth, UpTo
<1>3. /\ size \in 0 .. Len(rows)
      /\ \A k \in 1 .. size : Nth(at, k) \in at
      /\ \A k, l \in 1 .. size : Nth(at, k) = Nth(at, l) => k = l
      /\ \A i \in at : \E k \in 1 .. size : Nth(at, k) = i
    BY <1>1, PlacesAreNumbered
<1>4. at = DOMAIN rows => of = rows
    <2> SUFFICES ASSUME at = DOMAIN rows PROVE of = rows
        OBVIOUS
    <2>1. at = 1 .. Len(rows) /\ Len(rows) \in Nat
        BY <1>1
    <2>3. Cardinality(1 .. Len(rows)) = Len(rows)
        BY ONLY <2>1, EveryPlaceIsItsNumber
    <2>4. \A k \in 1 .. Len(rows) : Nth(1 .. Len(rows), k) = k
        BY ONLY <2>1, EveryPlaceIsItsNumber
    <2>5. size = Len(rows) /\ \A k \in 1 .. Len(rows) : Nth(at, k) = k
        BY ONLY <2>1, <2>3, <2>4
    <2>2. of = [k \in 1 .. Len(rows) |-> rows[k]]
        BY <1>2, <2>5
    <2> QED BY <1>1, <2>2
<1>5. \A i \in at : i \in DOMAIN rows /\ rows[i].mode = mode
    OBVIOUS
<1>6. \A i \in DOMAIN rows : rows[i].mode = mode => i \in at
    OBVIOUS
<1> HIDE DEF at, size, of
<1>7. of \in Seq(Row) /\ Len(of) = size /\ DOMAIN of = 1 .. size
    <2>3. size \in Nat /\ \A k \in 1 .. size : Nth(at, k) \in at
        BY ONLY <1>1, <1>3
    <2>4. \A i \in at : rows[i] \in Row
        BY ONLY <1>1, <1>5
    <2>1. size \in Nat /\ \A k \in 1 .. size : rows[Nth(at, k)] \in Row
        BY ONLY <2>3, <2>4
    <2>2. of \in [1 .. size -> Row]
        BY ONLY <1>2, <2>1
    <2> QED BY ONLY <2>1, <2>2
<1>8. \A k \in DOMAIN of : of[k].mode = mode /\ \E i \in DOMAIN rows : of[k] = rows[i]
    BY <1>2, <1>3, <1>5, <1>7
<1>9. \A i \in DOMAIN rows : rows[i].mode = mode => \E k \in DOMAIN of : of[k] = rows[i]
    BY <1>2, <1>3, <1>6, <1>7
<1>10. Once(rows) => Once(of)
    BY <1>2, <1>3, <1>5, <1>7 DEF Once
<1>11. (\A i \in DOMAIN rows : rows[i].mode = mode) => of = rows
    <2>1. (\A i \in DOMAIN rows : rows[i].mode = mode) => at = DOMAIN rows
        BY DEF at
    <2> QED BY <1>4, <2>1
<1>12. (of = <<>>) = (\A i \in DOMAIN rows : rows[i].mode # mode)
    <2>1. of = <<>> => \A i \in DOMAIN rows : rows[i].mode # mode
        BY <1>9
    <2>2. of # <<>> => 1 \in DOMAIN of
        BY <1>1, <1>3, <1>7
    <2>3. of # <<>> => ~ \A i \in DOMAIN rows : rows[i].mode # mode
        BY <1>8, <2>2
    <2> QED BY <2>1, <2>3
<1> QED
    BY <1>7, <1>8, <1>9, <1>10, <1>11, <1>12 DEF of, AreOfMode

\* The two modes divide the rows between them.
LEMMA ModesDivide ==
    ASSUME NEW rows \in Seq(Row)
    PROVE  LET steer == TakeSteer(rows)
               kept == KeepAfterTurn(rows) IN
           /\ steer \in Seq(Row) /\ kept \in Seq(Row)
           /\ Ids(steer) \cup Ids(kept) = Ids(rows)
           /\ Once(rows) => Once(steer) /\ Once(kept) /\ Ids(steer) \cap Ids(kept) = {}
           /\ steer = <<>> => kept = rows
           /\ kept = <<>> => steer = rows
           /\ \A i \in DOMAIN kept : kept[i].mode = "after_turn"
           /\ \A i \in DOMAIN steer : steer[i].mode = "steer"
<1> DEFINE steer == TakeSteer(rows)
           kept == KeepAfterTurn(rows)
<1>0. rows \in Seq(Row)
    OBVIOUS
<1>1. /\ steer \in Seq(Row) /\ (Once(rows) => Once(steer))
      /\ \A k \in DOMAIN steer : steer[k].mode = "steer" /\ \E i \in DOMAIN rows : steer[k] = rows[i]
      /\ \A i \in DOMAIN rows : rows[i].mode = "steer" => \E k \in DOMAIN steer : steer[k] = rows[i]
      /\ (\A i \in DOMAIN rows : rows[i].mode = "steer") => steer = rows
      /\ (steer = <<>>) = (\A i \in DOMAIN rows : rows[i].mode # "steer")
    <2>1. "steer" \in Modes
        BY DEF Modes
    <2>2. steer = OfMode(rows, "steer")
        BY DEF TakeSteer
    <2>3. AreOfMode(OfMode(rows, "steer"), rows, "steer")
        BY <2>1, RowsOfMode
    <2> HIDE DEF steer
    <2> QED BY ONLY <2>2, <2>3 DEF AreOfMode
<1>2. /\ kept \in Seq(Row) /\ (Once(rows) => Once(kept))
      /\ \A k \in DOMAIN kept : /\ kept[k].mode = "after_turn"
                                /\ \E i \in DOMAIN rows : kept[k] = rows[i]
      /\ \A i \in DOMAIN rows : rows[i].mode = "after_turn" => \E k \in DOMAIN kept : kept[k] = rows[i]
      /\ (\A i \in DOMAIN rows : rows[i].mode = "after_turn") => kept = rows
      /\ (kept = <<>>) = (\A i \in DOMAIN rows : rows[i].mode # "after_turn")
    <2>1. "after_turn" \in Modes
        BY DEF Modes
    <2>2. kept = OfMode(rows, "after_turn")
        BY DEF KeepAfterTurn
    <2>3. AreOfMode(OfMode(rows, "after_turn"), rows, "after_turn")
        BY <2>1, RowsOfMode
    <2> HIDE DEF kept
    <2> QED BY ONLY <2>2, <2>3 DEF AreOfMode
<1>3. \A i \in DOMAIN rows : rows[i].mode = "steer" \/ rows[i].mode = "after_turn"
    <2>1. \A i \in DOMAIN rows : rows[i] \in Row
        OBVIOUS
    <2> QED BY ONLY <2>1 DEF Row, Modes
<1> HIDE DEF steer, kept
<1>4. Ids(steer) \cup Ids(kept) = Ids(rows)
    <2>1. Ids(steer) \subseteq Ids(rows)
        BY <1>1 DEF Ids
    <2>3. Ids(kept) \subseteq Ids(rows)
        BY <1>2 DEF Ids
    <2>2. Ids(rows) \subseteq Ids(steer) \cup Ids(kept)
        <3> SUFFICES ASSUME NEW i \in DOMAIN rows
                     PROVE  rows[i].id \in Ids(steer) \cup Ids(kept)
            BY DEF Ids
        <3>1. CASE rows[i].mode = "steer"
            <4>1. PICK k \in DOMAIN steer : steer[k] = rows[i]
                BY <1>1, <3>1
            <4> QED BY <4>1 DEF Ids
        <3>2. CASE rows[i].mode = "after_turn"
            <4>1. PICK k \in DOMAIN kept : kept[k] = rows[i]
                BY <1>2, <3>2
            <4> QED BY <4>1 DEF Ids
        <3> QED BY <1>3, <3>1, <3>2
    <2> QED BY <2>1, <2>2, <2>3
<1>5. Once(rows) => Ids(steer) \cap Ids(kept) = {}
    <2> SUFFICES ASSUME Once(rows), NEW k \in DOMAIN steer, NEW l \in DOMAIN kept
                 PROVE  steer[k].id # kept[l].id
        BY DEF Ids
    <2>1. PICK i \in DOMAIN rows : steer[k] = rows[i]
        BY <1>1
    <2>2. PICK j \in DOMAIN rows : kept[l] = rows[j]
        BY <1>2
    <2>3. rows[i].mode = "steer"
        BY <1>1, <2>1
    <2>5. rows[j].mode = "after_turn"
        BY <1>2, <2>2
    <2>4. i # j
        BY <2>3, <2>5
    <2> QED BY <2>1, <2>2, <2>4 DEF Once
<1>6. (steer = <<>> => kept = rows) /\ (kept = <<>> => steer = rows)
    <2>1. steer = <<>> => kept = rows
        BY <1>1, <1>2, <1>3
    <2>2. kept = <<>> => steer = rows
        BY <1>1, <1>2, <1>3
    <2> QED BY <2>1, <2>2
<1> QED
    BY <1>1, <1>2, <1>4, <1>5, <1>6 DEF steer, kept

\* A new row at the end.
LEMMA RowAppended ==
    ASSUME NEW rows \in Seq(Row), NEW r \in Row, Once(rows), r.id \notin Ids(rows)
    PROVE  /\ Append(rows, r) \in Seq(Row) /\ Once(Append(rows, r))
           /\ Ids(Append(rows, r)) = Ids(rows) \cup {r.id} /\ Append(rows, r) # <<>>
<1> DEFINE more == Append(rows, r)
<1>1. /\ more \in Seq(Row) /\ DOMAIN more = 1 .. Len(rows) + 1 /\ DOMAIN rows = 1 .. Len(rows)
      /\ Len(rows) \in Nat /\ more[Len(rows) + 1] = r
      /\ \A i \in 1 .. Len(rows) : more[i] = rows[i]
    OBVIOUS
<1> HIDE DEF more
<1>2. \A i \in DOMAIN more : i \in DOMAIN rows \/ i = Len(rows) + 1
    BY <1>1
<1>3. Ids(more) = Ids(rows) \cup {r.id}
    BY <1>1, <1>2 DEF Ids
<1>4. Once(more)
    <2> SUFFICES ASSUME NEW i \in DOMAIN more, NEW j \in DOMAIN more, more[i].id = more[j].id
                 PROVE  i = j
        BY DEF Once
    <2>1. CASE i \in DOMAIN rows /\ j \in DOMAIN rows
        BY <1>1, <2>1 DEF Once
    <2>2. CASE i \in DOMAIN rows /\ j = Len(rows) + 1
        BY <1>1, <2>2 DEF Ids
    <2>3. CASE i = Len(rows) + 1 /\ j \in DOMAIN rows
        BY <1>1, <2>3 DEF Ids
    <2> QED BY <1>2, <2>1, <2>2, <2>3
<1>5. more # <<>>
    BY <1>1
<1> QED
    BY <1>1, <1>3, <1>4, <1>5 DEF more

\* A row taken out.
LEMMA RowTaken ==
    ASSUME NEW rows \in Seq(Row), NEW i \in DOMAIN rows, Once(rows)
    PROVE  /\ RemoveAt(rows, i) \in Seq(Row) /\ Once(RemoveAt(rows, i))
           /\ Ids(RemoveAt(rows, i)) = Ids(rows) \ {rows[i].id}
           /\ \A k \in DOMAIN RemoveAt(rows, i) : \E j \in DOMAIN rows : RemoveAt(rows, i)[k] = rows[j]
<1> DEFINE less == RemoveAt(rows, i)
           from(k) == IF k < i THEN k ELSE k + 1
<1>1. Len(rows) \in Nat /\ DOMAIN rows = 1 .. Len(rows) /\ i \in 1 .. Len(rows)
    OBVIOUS
<1>2. /\ less \in Seq(Row) /\ DOMAIN less = 1 .. Len(rows) - 1
    BY <1>1 DEF RemoveAt
<1>3. ASSUME NEW k \in 1 .. Len(rows) - 1 PROVE less[k] = rows[from(k)]
    <2>1. CASE k < i
        BY <1>1, <2>1 DEF RemoveAt
    <2>2. CASE k >= i
        <3>1. less[k] = SubSeq(rows, i + 1, Len(rows))[k - (i - 1)]
            BY <1>1, <2>2, SMTT(30) DEF RemoveAt
        <3>2. SubSeq(rows, i + 1, Len(rows))[k - (i - 1)] = rows[k + 1]
            BY <1>1, <2>2
        <3> QED BY <2>2, <3>1, <3>2
    <2> QED BY <1>1, <2>1, <2>2
<1> HIDE DEF less
<1>4. \A k \in DOMAIN less : from(k) \in DOMAIN rows /\ from(k) # i
    BY <1>1, <1>2
<1>5. \A k, l \in DOMAIN less : from(k) = from(l) => k = l
    BY <1>1, <1>2
<1>6. ASSUME NEW j \in DOMAIN rows, j # i PROVE \E k \in DOMAIN less : from(k) = j
    <2>1. CASE j < i
        <3>1. j \in DOMAIN less /\ from(j) = j
            BY <1>1, <1>2, <2>1
        <3> QED BY <3>1
    <2>2. CASE j > i
        <3>1. j - 1 \in DOMAIN less /\ from(j - 1) = j
            BY <1>1, <1>2, <2>2
        <3> QED BY <3>1
    <2> QED BY <1>1, <1>6, <2>1, <2>2
<1> HIDE DEF from
<1>7. \A k \in DOMAIN less : less[k] = rows[from(k)]
    BY <1>2, <1>3
<1>8. Once(less)
    BY <1>4, <1>5, <1>7 DEF Once
<1>9. Ids(less) = Ids(rows) \ {rows[i].id}
    <2>1. ASSUME NEW x \in Ids(less) PROVE x \in Ids(rows) \ {rows[i].id}
        BY <1>4, <1>7, <2>1 DEF Ids, Once
    <2>2. ASSUME NEW x \in Ids(rows), x # rows[i].id PROVE x \in Ids(less)
        BY <1>6, <1>7, <2>2 DEF Ids
    <2> QED BY <2>1, <2>2
<1> QED
    BY <1>2, <1>4, <1>7, <1>8, <1>9 DEF less

\* A row of another mode is still that row.
Switched(rows, i, mode) == [rows EXCEPT ![i] = [rows[i] EXCEPT !.mode = mode]]
IsSwitched(now, rows, i, mode) ==
    /\ now \in Seq(Row) /\ Ids(now) = Ids(rows) /\ (Once(rows) => Once(now))
    /\ DOMAIN now = DOMAIN rows /\ now[i].mode = mode
    /\ \A k \in DOMAIN rows : now[k].id = rows[k].id /\ (k # i => now[k] = rows[k])

LEMMA RowSwitched ==
    ASSUME NEW rows \in Seq(Row), NEW i \in DOMAIN rows, NEW mode \in Modes
    PROVE  IsSwitched(Switched(rows, i, mode), rows, i, mode)
<1> DEFINE now == Switched(rows, i, mode)
<1>1. DOMAIN now = DOMAIN rows /\ now = [rows EXCEPT ![i] = [rows[i] EXCEPT !.mode = mode]]
    BY DEF Switched
<1>2. /\ [rows[i] EXCEPT !.mode = mode] \in Row
      /\ [rows[i] EXCEPT !.mode = mode].id = rows[i].id /\ [rows[i] EXCEPT !.mode = mode].mode = mode
    <2>1. rows[i] \in Row
        OBVIOUS
    <2> QED BY ONLY <2>1, mode \in Modes DEF Row
<1> HIDE DEF now
<1>3. now \in Seq(Row)
    BY <1>1, <1>2
<1>4. now[i].mode = mode /\ \A k \in DOMAIN rows : now[k].id = rows[k].id /\ (k # i => now[k] = rows[k])
    BY <1>1, <1>2
<1>5. Ids(now) = Ids(rows) /\ (Once(rows) => Once(now))
    BY <1>1, <1>4 DEF Ids, Once
<1> QED
    BY <1>1, <1>3, <1>4, <1>5 DEF now, IsSwitched

\* Rows put back before others.
LEMMA RowsReturned ==
    ASSUME NEW rows \in Seq(Row), NEW more \in Seq(Row)
    PROVE  /\ rows \o more \in Seq(Row) /\ Ids(rows \o more) = Ids(rows) \cup Ids(more)
           /\ Once(rows) /\ Once(more) /\ Ids(rows) \cap Ids(more) = {} => Once(rows \o more)
           /\ rows = <<>> => rows \o more = more
<1> DEFINE both == rows \o more
<1>1. /\ Len(rows) \in Nat /\ Len(more) \in Nat /\ both \in Seq(Row)
      /\ DOMAIN both = 1 .. Len(rows) + Len(more)
      /\ DOMAIN rows = 1 .. Len(rows) /\ DOMAIN more = 1 .. Len(more)
    OBVIOUS
<1>2. /\ \A i \in 1 .. Len(rows) : both[i] = rows[i]
      /\ \A i \in 1 .. Len(rows) + Len(more) : i > Len(rows) => both[i] = more[i - Len(rows)]
    BY <1>1
<1>3. rows = <<>> => both = more
    <2> SUFFICES ASSUME rows = <<>> PROVE both = more
        OBVIOUS
    <2>1. Len(both) = Len(more) /\ \A i \in 1 .. Len(more) : both[i] = more[i]
        BY <1>1, <1>2
    <2> QED BY <1>1, <2>1
<1> HIDE DEF both
<1>4. Ids(both) = Ids(rows) \cup Ids(more)
    <2>1. Ids(both) \subseteq Ids(rows) \cup Ids(more)
        <3> SUFFICES ASSUME NEW i \in DOMAIN both PROVE both[i].id \in Ids(rows) \cup Ids(more)
            BY DEF Ids
        <3>1. CASE i <= Len(rows)
            BY <1>1, <1>2, <3>1 DEF Ids
        <3>2. CASE i > Len(rows)
            <4>1. i - Len(rows) \in DOMAIN more /\ both[i] = more[i - Len(rows)]
                BY <1>1, <1>2, <3>2
            <4> QED BY <4>1 DEF Ids
        <3> QED BY <1>1, <3>1, <3>2
    <2>2. Ids(rows) \subseteq Ids(both)
        BY <1>1, <1>2 DEF Ids
    <2>3. Ids(more) \subseteq Ids(both)
        <3> SUFFICES ASSUME NEW i \in DOMAIN more PROVE more[i].id \in Ids(both)
            BY DEF Ids
        <3>1. i + Len(rows) \in DOMAIN both /\ both[i + Len(rows)] = more[(i + Len(rows)) - Len(rows)]
            BY <1>1, <1>2
        <3>2. (i + Len(rows)) - Len(rows) = i
            BY <1>1
        <3> QED BY <3>1, <3>2 DEF Ids
    <2> QED BY <2>1, <2>2, <2>3
<1>5. ASSUME Once(rows), Once(more), Ids(rows) \cap Ids(more) = {} PROVE Once(both)
    <2> SUFFICES ASSUME NEW i \in DOMAIN both, NEW j \in DOMAIN both, both[i].id = both[j].id
                 PROVE  i = j
        BY DEF Once
    <2>1. CASE i <= Len(rows) /\ j <= Len(rows)
        BY <1>1, <1>2, <1>5, <2>1 DEF Once
    <2>2. CASE i > Len(rows) /\ j > Len(rows)
        <3>1. /\ i - Len(rows) \in DOMAIN more /\ j - Len(rows) \in DOMAIN more
              /\ both[i] = more[i - Len(rows)] /\ both[j] = more[j - Len(rows)]
            BY <1>1, <1>2, <2>2
        <3>2. i - Len(rows) = j - Len(rows)
            BY <1>5, <3>1 DEF Once
        <3> QED BY <1>1, <3>2
    <2>3. ASSUME NEW k \in DOMAIN both, NEW l \in DOMAIN both, k <= Len(rows), l > Len(rows)
          PROVE  both[k].id # both[l].id
        <3>1. both[k].id \in Ids(rows)
            BY <1>1, <1>2, <2>3 DEF Ids
        <3>2. l - Len(rows) \in DOMAIN more /\ both[l] = more[l - Len(rows)]
            BY <1>1, <1>2, <2>3
        <3>3. both[l].id \in Ids(more)
            BY <3>2 DEF Ids
        <3> QED BY <1>5, <3>1, <3>3
    <2> QED BY <1>1, <2>1, <2>2, <2>3
<1> QED
    BY <1>1, <1>3, <1>4, <1>5 DEF both

\* The first row and the rest of them.
LEMMA RowsHeaded ==
    ASSUME NEW rows \in Seq(Row), rows # <<>>, Once(rows)
    PROVE  /\ <<Head(rows)>> \in Seq(Row) /\ Tail(rows) \in Seq(Row)
           /\ Once(<<Head(rows)>>) /\ Once(Tail(rows))
           /\ Ids(rows) = Ids(<<Head(rows)>>) \cup Ids(Tail(rows))
           /\ Ids(<<Head(rows)>>) \cap Ids(Tail(rows)) = {}
<1>1. /\ Len(rows) \in Nat /\ Len(rows) > 0 /\ DOMAIN rows = 1 .. Len(rows) /\ Head(rows) = rows[1]
      /\ rows[1] \in Row /\ Tail(rows) \in Seq(Row) /\ DOMAIN Tail(rows) = 1 .. Len(rows) - 1
      /\ \A k \in 1 .. Len(rows) - 1 : Tail(rows)[k] = rows[k + 1]
    OBVIOUS
<1>2. /\ <<rows[1]>> \in Seq(Row) /\ DOMAIN <<rows[1]>> = {1} /\ <<rows[1]>>[1] = rows[1]
    BY <1>1
<1> DEFINE tail == Tail(rows)
           one == <<rows[1]>>
<1>3. /\ tail \in Seq(Row) /\ DOMAIN tail = 1 .. Len(rows) - 1
      /\ \A k \in DOMAIN tail : k + 1 \in DOMAIN rows /\ k + 1 # 1 /\ tail[k] = rows[k + 1]
    BY <1>1
<1>4. Ids(one) = {rows[1].id} /\ Once(one)
    BY <1>2 DEF Ids, Once
<1> HIDE DEF tail, one
<1>5. Once(tail)
    BY <1>1, <1>3 DEF Once
<1>6. Ids(tail) \subseteq Ids(rows) /\ rows[1].id \notin Ids(tail)
    BY <1>1, <1>3, SMTT(30) DEF Once, Ids
<1>7. \A i \in DOMAIN rows : i # 1 => i - 1 \in DOMAIN tail /\ tail[i - 1] = rows[i]
    BY <1>1, <1>3
<1>8. Ids(rows) = {rows[1].id} \cup Ids(tail)
    <2>1. 1 \in DOMAIN rows
        BY <1>1
    <2>2. rows[1].id \in Ids(rows)
        BY <2>1 DEF Ids
    <2>3. ASSUME NEW i \in DOMAIN rows, i # 1 PROVE rows[i].id \in Ids(tail)
        <3>1. i - 1 \in DOMAIN tail /\ tail[i - 1] = rows[i]
            BY <1>7, <2>3
        <3> QED BY <3>1 DEF Ids
    <2>4. Ids(rows) \subseteq {rows[1].id} \cup Ids(tail)
        BY <2>3 DEF Ids
    <2> QED BY <1>6, <2>2, <2>4
<1> QED
    BY <1>1, <1>2, <1>3, <1>4, <1>5, <1>6, <1>8 DEF tail, one

\* No rows: no messages.
LEMMA EmptyRows ==
    <<>> \in Seq(Row) /\ Once(<<>>) /\ Ids(<<>>) = {}
<1>1. DOMAIN <<>> = {}
    OBVIOUS
<1> QED
    BY <1>1 DEF Once, Ids

\* The messages of a list are messages.
LEMMA IdsAreMessages ==
    ASSUME NEW rows \in Seq(Row)
    PROVE  Ids(rows) \subseteq 1 .. MaxId
<1>1. \A i \in DOMAIN rows : rows[i] \in Row
    OBVIOUS
<1> QED
    BY ONLY <1>1 DEF Row, Ids

-------------------------------------------------------------------------------
(* What the announcements tell. *)

\* The queue's version goes up, or one true answer more is under way.
LEMMA AnswersStep ==
    ASSUME QueueTypeOK, VersionsTell,
           \/ version' = version + 1 /\ Answers' \subseteq Answers
           \/ /\ UNCHANGED <<version, queue>>
              /\ Answers' \subseteq Answers \cup {[version |-> version, rows |-> queue]}
    PROVE  VersionsTell' /\ \A f \in Answers' : f.version \in Nat /\ f.rows \in Seq(Row)
<1> DEFINE now == [version |-> version, rows |-> queue]
<1>1. now.version = version /\ now.rows = queue
    OBVIOUS
<1>2. \A f \in Answers : f.version \in Nat /\ f.rows \in Seq(Row)
    BY DEF QueueTypeOK, Answers
<1>3. version \in Nat /\ queue \in Seq(Row)
    BY DEF QueueTypeOK
<1>4. /\ \A f \in Answers : f.version <= version /\ (f.version = version => f.rows = queue)
      /\ \A f, g \in Answers : f.version = g.version => f.rows = g.rows
    BY DEF VersionsTell
<1> HIDE DEF now
<1>5. CASE version' = version + 1 /\ Answers' \subseteq Answers
    <2>1. \A f \in Answers' : f.version \in Nat /\ f.rows \in Seq(Row)
        BY <1>2, <1>5
    <2>2. \A f \in Answers' : f.version <= version' /\ f.version # version'
        <3> SUFFICES ASSUME NEW f \in Answers' PROVE f.version <= version' /\ f.version # version'
            OBVIOUS
        <3>1. f \in Answers
            BY <1>5
        <3>2. f.version \in Nat /\ f.version <= version
            BY ONLY <3>1, <1>2, <1>4
        <3> QED BY ONLY <3>2, <1>3, <1>5
    <2>3. \A f, g \in Answers' : f.version = g.version => f.rows = g.rows
        BY <1>4, <1>5
    <2> QED BY <2>1, <2>2, <2>3 DEF VersionsTell
<1>6. CASE UNCHANGED <<version, queue>> /\ Answers' \subseteq Answers \cup {now}
    <2>1. \A f \in Answers' : f.version \in Nat /\ f.rows \in Seq(Row)
        BY <1>1, <1>2, <1>3, <1>6
    <2>2. \A f \in Answers' : f.version <= version /\ (f.version = version => f.rows = queue)
        BY <1>1, <1>3, <1>4, <1>6
    <2>3. \A f, g \in Answers' : f.version = g.version => f.rows = g.rows
        BY <1>1, <1>4, <1>6, <2>2
    <2>4. version' = version /\ queue' = queue
        BY <1>6
    <2> QED BY <2>1, <2>2, <2>3, <2>4 DEF VersionsTell
<1> QED
    BY <1>5, <1>6 DEF now

\* An announcement tells the queue as it is.
LEMMA PublishedIsTold ==
    ASSUME QueueTypeOK, VersionsTell, UNCHANGED <<version, queue, client>>, Publish
    PROVE  /\ Answers' \subseteq Answers \cup {[version |-> version, rows |-> queue]}
           /\ Told'
<1> DEFINE now == [version |-> version, rows |-> queue]
<1>1. now.version = version /\ now.rows = queue
    OBVIOUS
<1>2. Answers' = Answers \cup {now}
    BY DEF Answers, Publish
<1>3. \A f \in Answers : f.version \in Nat /\ f.version <= version /\ (f.version = version => f.rows = queue)
    BY DEF QueueTypeOK, VersionsTell, Answers
<1>4. version \in Nat /\ queue' = queue
    BY DEF QueueTypeOK
<1> HIDE DEF now
<1>5. \A g \in Answers' : g.version >= now.version => g.rows = queue'
    <2> SUFFICES ASSUME NEW g \in Answers', g.version >= now.version PROVE g.rows = queue'
        OBVIOUS
    <2>1. CASE g \in Answers
        BY <1>1, <1>3, <1>4, <2>1
    <2>2. CASE g = now
        BY <1>1, <1>4, <2>2
    <2> QED BY <1>2, <2>1, <2>2
<1>6. Told'
    BY <1>2, <1>5 DEF Told
<1> QED
    BY <1>2, <1>6 DEF now

\* Where the list and its answers stay, so does what is told of them.
LEMMA StillToldOrPending ==
    ASSUME ToldOrPending, UNCHANGED <<queue, frames, client>>, Pending => Pending'
    PROVE  ToldOrPending'
<1>1. Told => Told'
    BY DEF Told, Answers
<1> QED
    BY <1>1 DEF ToldOrPending

-------------------------------------------------------------------------------
(* A step of each action *)

\* A message accepted.
LEMMA EnqueueStep ==
    ASSUME QueueInv, NEW c \in Clients, NEW mode \in Modes, Enqueue(c, mode)
    PROVE  QueueInv'
<1>1. /\ QueueTypeOK /\ TurnStands /\ RunsCharged /\ EachPlaced /\ VersionsTell
      /\ ToldOrPending /\ SteerNotStranded
    BY DEF QueueInv
<1>2. /\ op[c] = "idle" /\ open /\ nextId <= MaxId
      /\ queue' = Append(queue, [id |-> nextId, mode |-> mode])
      /\ nextId' = nextId + 1 /\ version' = version + 1
      /\ op' = [op EXCEPT ![c] = "notify"]
      /\ UNCHANGED <<open, notifier, turnVars, frames, client, fates, edited>>
    BY DEF Enqueue, Bump
<1> DEFINE row == [id |-> nextId, mode |-> mode]
<1>10. /\ nextId \in 1 .. MaxId /\ MaxId \in Nat /\ nextId + 1 \in 1 .. MaxId + 1
       /\ row \in Row /\ row.id = nextId
    BY <1>1, <1>2, QueueBoundsAssumption DEF QueueTypeOK, Row
<1>11. /\ queue' = Append(queue, row) /\ queue \in Seq(Row) /\ Once(queue) /\ nextId \notin Ids(queue)
    BY <1>1, <1>2, <1>10 DEF QueueTypeOK, EachPlaced
<1> HIDE DEF row
<1>12. /\ queue' \in Seq(Row) /\ Once(queue') /\ Ids(queue') = Ids(queue) \cup {nextId} /\ queue' # <<>>
    BY ONLY <1>10, <1>11, RowAppended
<1>13. op' \in [Clients -> {"idle", "notify", "edited", "recheck", "publish"}] /\ op'[c] = "notify"
    BY <1>1, <1>2 DEF QueueTypeOK
<1>3. VersionsTell' /\ \A f \in Answers' : f.version \in Nat /\ f.rows \in Seq(Row)
    <2>1. Answers' = Answers
        BY <1>2 DEF Answers
    <2> QED BY <1>1, <1>2, <2>1, AnswersStep
<1>4. QueueTypeOK'
    BY <1>1, <1>2, <1>3, <1>10, <1>12, <1>13 DEF QueueTypeOK, Answers, turnVars, fates
<1>5. TurnStands'
    BY <1>1, <1>2 DEF TurnStands, turnVars, queueVars
<1>6. RunsCharged'
    BY <1>1, <1>2 DEF RunsCharged, turnVars
<1>7. EachPlaced'
    <2>1. 1 .. nextId' - 1 = (1 .. nextId - 1) \cup {nextId}
        BY <1>2, <1>10
    <2>2. nextId \notin 1 .. nextId - 1
        BY <1>10
    <2>3. UNCHANGED <<batch, read, taken, dropped>>
        BY <1>2 DEF turnVars, fates
    <2>4. Ids(batch)' = Ids(batch) /\ Once(batch)'
        BY <1>1, <2>3 DEF Ids, Once, EachPlaced
    <2>5. Ids(queue') = Ids(queue) \cup {nextId}
        BY <1>12
    <2>6. /\ Apart(Ids(queue), Ids(batch), read, taken, dropped)
          /\ Ids(queue) \cup Ids(batch) \cup read \cup taken \cup dropped = 1 .. nextId - 1
        BY <1>1 DEF EachPlaced
    <2>7. Apart(Ids(queue'), Ids(batch)', read', taken', dropped')
        BY ONLY <2>2, <2>3, <2>4, <2>5, <2>6 DEF Apart
    <2>8. Ids(queue') \cup Ids(batch)' \cup read' \cup taken' \cup dropped' = 1 .. nextId' - 1
        BY ONLY <2>1, <2>3, <2>4, <2>5, <2>6
    <2> QED BY <1>12, <2>4, <2>7, <2>8 DEF EachPlaced
<1>8. ToldOrPending'
    BY <1>2, <1>12, <1>13 DEF ToldOrPending, Pending
<1>9. SteerNotStranded'
    BY <1>2 DEF SteerNotStranded
<1> QED
    BY <1>3, <1>4, <1>5, <1>6, <1>7, <1>8, <1>9 DEF QueueInv

\* A message taken back.
LEMMA TakeBackStep ==
    ASSUME QueueInv, NEW c \in Clients, NEW i \in DOMAIN queue, TakeBack(c, i)
    PROVE  QueueInv'
<1>1. /\ QueueTypeOK /\ TurnStands /\ RunsCharged /\ EachPlaced /\ VersionsTell
      /\ ToldOrPending /\ SteerNotStranded
    BY DEF QueueInv
<1>2. /\ op[c] = "idle"
      /\ queue' = RemoveAt(queue, i) /\ taken' = taken \cup {queue[i].id}
      /\ version' = version + 1
      /\ op' = [op EXCEPT ![c] = "edited"]
      /\ UNCHANGED <<open, notifier, turnVars, frames, client, nextId, read, dropped, edited>>
    BY DEF TakeBack, Bump
<1>11. queue \in Seq(Row) /\ Once(queue) /\ queue[i].id \in Ids(queue) /\ queue[i].id \in 1 .. MaxId
    <2>1. queue \in Seq(Row) /\ Once(queue) /\ queue[i].id \in Ids(queue)
        BY <1>1 DEF QueueTypeOK, EachPlaced, Ids
    <2> QED BY <2>1, IdsAreMessages
<1>12. /\ queue' \in Seq(Row) /\ Once(queue') /\ Ids(queue') = Ids(queue) \ {queue[i].id}
       /\ \A k \in DOMAIN queue' : \E j \in DOMAIN queue : queue'[k] = queue[j]
    BY <1>2, <1>11, RowTaken
<1>13. op' \in [Clients -> {"idle", "notify", "edited", "recheck", "publish"}] /\ op'[c] = "edited"
    BY <1>1, <1>2 DEF QueueTypeOK
<1>3. VersionsTell' /\ \A f \in Answers' : f.version \in Nat /\ f.rows \in Seq(Row)
    <2>1. Answers' = Answers
        BY <1>2 DEF Answers
    <2> QED BY <1>1, <1>2, <2>1, AnswersStep
<1>4. QueueTypeOK'
    BY <1>1, <1>2, <1>3, <1>11, <1>12, <1>13 DEF QueueTypeOK, Answers, turnVars
<1>5. TurnStands'
    BY <1>1, <1>2 DEF TurnStands, turnVars, queueVars
<1>6. RunsCharged'
    BY <1>1, <1>2 DEF RunsCharged, turnVars
<1>7. EachPlaced'
    <2>1. UNCHANGED <<batch, read, dropped, nextId>>
        BY <1>2 DEF turnVars
    <2>2. /\ Apart(Ids(queue), Ids(batch), read, taken, dropped)
          /\ Ids(queue) \cup Ids(batch) \cup read \cup taken \cup dropped = 1 .. nextId - 1
        BY <1>1 DEF EachPlaced
    <2>3. Ids(batch') = Ids(batch) /\ Once(batch')
        BY <1>1, <2>1 DEF EachPlaced
    <2>4. Apart(Ids(queue'), Ids(batch'), read', taken', dropped')
        BY ONLY <1>2, <1>11, <1>12, <2>1, <2>2, <2>3 DEF Apart
    <2>5. Ids(queue') \cup Ids(batch') \cup read' \cup taken' \cup dropped' = 1 .. nextId' - 1
        BY ONLY <1>2, <1>11, <1>12, <2>1, <2>2, <2>3
    <2> QED BY <1>12, <2>3, <2>4, <2>5 DEF EachPlaced
<1>8. ToldOrPending'
    BY <1>13 DEF ToldOrPending, Pending
<1>9. SteerNotStranded'
    BY <1>1, <1>2, <1>12 DEF SteerNotStranded
<1> QED
    BY <1>3, <1>4, <1>5, <1>6, <1>7, <1>8, <1>9 DEF QueueInv

\* A message of another mode.
LEMMA SetModeStep ==
    ASSUME QueueInv, NEW c \in Clients, NEW i \in DOMAIN queue, NEW mode \in Modes,
           SetMode(c, i, mode)
    PROVE  QueueInv'
<1>1. /\ QueueTypeOK /\ TurnStands /\ RunsCharged /\ EachPlaced /\ VersionsTell
      /\ ToldOrPending /\ SteerNotStranded
    BY DEF QueueInv
<1>2. /\ op[c] = "idle"
      /\ queue' = [queue EXCEPT ![i].mode = mode]
      /\ edited' = IF ~ open /\ mode = "steer" THEN edited \cup {queue[i].id} ELSE edited
      /\ version' = version + 1
      /\ op' = [op EXCEPT ![c] = "edited"]
      /\ UNCHANGED <<open, notifier, turnVars, frames, client, nextId, fates>>
    BY DEF SetMode, Bump
<1>11. queue \in Seq(Row) /\ Once(queue) /\ queue[i].id \in Ids(queue) /\ queue[i].id \in 1 .. MaxId
    <2>1. queue \in Seq(Row) /\ Once(queue) /\ queue[i].id \in Ids(queue)
        BY <1>1 DEF QueueTypeOK, EachPlaced, Ids
    <2> QED BY <2>1, IdsAreMessages
<1>12. /\ queue' \in Seq(Row) /\ Ids(queue') = Ids(queue) /\ Once(queue')
       /\ DOMAIN queue' = DOMAIN queue /\ queue'[i].mode = mode
       /\ \A k \in DOMAIN queue : queue'[k].id = queue[k].id /\ (k # i => queue'[k] = queue[k])
    <2>1. queue' = Switched(queue, i, mode)
        BY <1>2 DEF Switched
    <2>2. IsSwitched(Switched(queue, i, mode), queue, i, mode)
        BY <1>11, RowSwitched
    <2> QED BY ONLY <1>11, <2>1, <2>2 DEF IsSwitched
<1>13. op' \in [Clients -> {"idle", "notify", "edited", "recheck", "publish"}] /\ op'[c] = "edited"
    BY <1>1, <1>2 DEF QueueTypeOK
<1>14. edited \subseteq edited' /\ edited' \subseteq edited \cup {queue[i].id}
    BY <1>2
<1>3. VersionsTell' /\ \A f \in Answers' : f.version \in Nat /\ f.rows \in Seq(Row)
    <2>1. Answers' = Answers
        BY <1>2 DEF Answers
    <2> QED BY <1>1, <1>2, <2>1, AnswersStep
<1>4. QueueTypeOK'
    BY <1>1, <1>2, <1>3, <1>11, <1>12, <1>13, <1>14 DEF QueueTypeOK, Answers, turnVars, fates
<1>5. TurnStands'
    BY <1>1, <1>2 DEF TurnStands, turnVars, queueVars
<1>6. RunsCharged'
    BY <1>1, <1>2 DEF RunsCharged, turnVars
<1>7. EachPlaced'
    <2>1. UNCHANGED <<batch, read, taken, dropped, nextId>>
        BY <1>2 DEF turnVars, fates
    <2>2. /\ Apart(Ids(queue), Ids(batch), read, taken, dropped)
          /\ Ids(queue) \cup Ids(batch) \cup read \cup taken \cup dropped = 1 .. nextId - 1
        BY <1>1 DEF EachPlaced
    <2>3. Ids(batch') = Ids(batch) /\ Once(batch')
        BY <1>1, <2>1 DEF EachPlaced
    <2>4. Apart(Ids(queue'), Ids(batch'), read', taken', dropped')
        BY ONLY <1>2, <1>12, <2>1, <2>2, <2>3 DEF Apart
    <2>5. Ids(queue') \cup Ids(batch') \cup read' \cup taken' \cup dropped' = 1 .. nextId' - 1
        BY ONLY <1>2, <1>12, <2>1, <2>2, <2>3
    <2> QED BY <1>12, <2>3, <2>4, <2>5 DEF EachPlaced
<1>8. ToldOrPending'
    BY <1>13 DEF ToldOrPending, Pending
<1>9. SteerNotStranded'
    <2> SUFFICES ASSUME ~ open, NEW k \in DOMAIN queue, queue'[k].mode = "steer"
                 PROVE  queue'[k].id \in edited'
        BY <1>2, <1>12 DEF SteerNotStranded
    <2>1. CASE k = i
        <3>1. mode = "steer"
            BY <1>12, <2>1
        <3>2. queue[i].id \in edited'
            BY <1>2, <3>1
        <3> QED BY <1>12, <2>1, <3>2
    <2>2. CASE k # i
        BY <1>1, <1>12, <1>14, <2>2 DEF SteerNotStranded
    <2> QED BY <2>1, <2>2
<1> QED
    BY <1>3, <1>4, <1>5, <1>6, <1>7, <1>8, <1>9 DEF QueueInv

\* The queue cleared.
LEMMA ClearStep ==
    ASSUME QueueInv, NEW c \in Clients, Clear(c)
    PROVE  QueueInv'
<1>1. /\ QueueTypeOK /\ TurnStands /\ RunsCharged /\ EachPlaced /\ VersionsTell
      /\ ToldOrPending /\ SteerNotStranded
    BY DEF QueueInv
<1>2. /\ op[c] = "idle"
      /\ queue' = <<>> /\ taken' = taken \cup Ids(queue)
      /\ version' = version + 1
      /\ op' = [op EXCEPT ![c] = IF queue = <<>> THEN "recheck" ELSE "edited"]
      /\ UNCHANGED <<open, notifier, turnVars, frames, client, nextId, read, dropped, edited>>
    BY DEF Clear, Bump
<1>11. Ids(queue) \subseteq 1 .. MaxId
    BY <1>1, IdsAreMessages DEF QueueTypeOK
<1>12. queue' \in Seq(Row) /\ Once(queue') /\ Ids(queue') = {} /\ DOMAIN queue' = {}
    BY <1>2, EmptyRows
<1>13. /\ op' \in [Clients -> {"idle", "notify", "edited", "recheck", "publish"}]
       /\ queue # <<>> => op'[c] = "edited"
       /\ \A d \in Clients : d # c => op'[d] = op[d]
    BY <1>1, <1>2 DEF QueueTypeOK
<1>3. VersionsTell' /\ \A f \in Answers' : f.version \in Nat /\ f.rows \in Seq(Row)
    <2>1. Answers' = Answers
        BY <1>2 DEF Answers
    <2> QED BY <1>1, <1>2, <2>1, AnswersStep
<1>4. QueueTypeOK'
    BY <1>1, <1>2, <1>3, <1>11, <1>12, <1>13 DEF QueueTypeOK, Answers, turnVars
<1>5. TurnStands'
    BY <1>1, <1>2 DEF TurnStands, turnVars, queueVars
<1>6. RunsCharged'
    BY <1>1, <1>2 DEF RunsCharged, turnVars
<1>7. EachPlaced'
    <2>1. UNCHANGED <<batch, read, dropped, nextId>>
        BY <1>2 DEF turnVars
    <2>2. /\ Apart(Ids(queue), Ids(batch), read, taken, dropped)
          /\ Ids(queue) \cup Ids(batch) \cup read \cup taken \cup dropped = 1 .. nextId - 1
        BY <1>1 DEF EachPlaced
    <2>3. Ids(batch') = Ids(batch) /\ Once(batch')
        BY <1>1, <2>1 DEF EachPlaced
    <2>4. Apart(Ids(queue'), Ids(batch'), read', taken', dropped')
        BY ONLY <1>2, <1>12, <2>1, <2>2, <2>3 DEF Apart
    <2>5. Ids(queue') \cup Ids(batch') \cup read' \cup taken' \cup dropped' = 1 .. nextId' - 1
        BY ONLY <1>2, <1>12, <2>1, <2>2, <2>3
    <2> QED BY <1>12, <2>3, <2>4, <2>5 DEF EachPlaced
<1>8. ToldOrPending'
    <2>1. CASE queue # <<>>
        BY <1>13, <2>1 DEF ToldOrPending, Pending
    <2>2. CASE queue = <<>>
        <3>1. Pending => Pending'
            BY <1>2, <1>13, <2>2 DEF Pending, turnVars
        <3> QED BY <1>1, <1>2, <2>2, <3>1, StillToldOrPending
    <2> QED BY <2>1, <2>2
<1>9. SteerNotStranded'
    BY <1>12 DEF SteerNotStranded
<1> QED
    BY <1>3, <1>4, <1>5, <1>6, <1>7, <1>8, <1>9 DEF QueueInv

\* A change announced through the turn's notifier, if it is there.
LEMMA NotifyStep ==
    ASSUME QueueInv, NEW c \in Clients, Notify(c)
    PROVE  QueueInv'
<1>1. /\ QueueTypeOK /\ TurnStands /\ RunsCharged /\ EachPlaced /\ VersionsTell
      /\ ToldOrPending /\ SteerNotStranded
    BY DEF QueueInv
<1>2. /\ op[c] \in {"notify", "edited"}
      /\ IF notifier THEN Publish ELSE UNCHANGED frames
      /\ op' = [op EXCEPT ![c] = IF op[c] = "notify" THEN "idle" ELSE "recheck"]
      /\ UNCHANGED <<queueVars, notifier, turnVars, client, nextId, fates, edited>>
    BY DEF Notify
<1>13. /\ op' \in [Clients -> {"idle", "notify", "edited", "recheck", "publish"}]
       /\ op[c] = "edited" => op'[c] = "recheck"
       /\ \A d \in Clients : d # c => op'[d] = op[d]
    BY <1>1, <1>2 DEF QueueTypeOK
<1>3. VersionsTell' /\ \A f \in Answers' : f.version \in Nat /\ f.rows \in Seq(Row)
    <2>1. CASE notifier
        <3>1. Publish
            BY <1>2, <2>1
        <3>2. Answers' \subseteq Answers \cup {[version |-> version, rows |-> queue]}
            BY <1>1, <1>2, <3>1, PublishedIsTold DEF queueVars
        <3> QED BY <1>1, <1>2, <3>2, AnswersStep DEF queueVars
    <2>2. CASE ~ notifier
        <3>1. Answers' = Answers
            BY <1>2, <2>2 DEF Answers
        <3> QED BY <1>1, <1>2, <3>1, AnswersStep DEF queueVars
    <2> QED BY <2>1, <2>2
<1>4. QueueTypeOK'
    BY <1>1, <1>2, <1>3, <1>13 DEF QueueTypeOK, Answers, turnVars, queueVars, fates
<1>5. TurnStands'
    BY <1>1, <1>2 DEF TurnStands, turnVars, queueVars
<1>6. RunsCharged'
    BY <1>1, <1>2 DEF RunsCharged, turnVars
<1>7. EachPlaced'
    BY <1>1, <1>2 DEF EachPlaced, turnVars, queueVars, fates
<1>8. ToldOrPending'
    <2>1. CASE notifier
        BY <1>1, <1>2, <2>1, PublishedIsTold DEF ToldOrPending, queueVars
    <2>2. CASE ~ notifier
        <3>1. ~ open
            BY <1>1, <2>2 DEF TurnStands, QueueTypeOK
        <3>2. Pending => Pending'
            BY <1>2, <1>13, <3>1 DEF Pending, turnVars, queueVars
        <3> QED BY <1>1, <1>2, <2>2, <3>2, StillToldOrPending DEF queueVars
    <2> QED BY <2>1, <2>2
<1>9. SteerNotStranded'
    BY <1>1, <1>2 DEF SteerNotStranded, queueVars
<1> QED
    BY <1>3, <1>4, <1>5, <1>6, <1>7, <1>8, <1>9 DEF QueueInv

\* An edit looked at again once the notifier was asked.
LEMMA RecheckStep ==
    ASSUME QueueInv, NEW c \in Clients, Recheck(c)
    PROVE  QueueInv'
<1>1. /\ QueueTypeOK /\ TurnStands /\ RunsCharged /\ EachPlaced /\ VersionsTell
      /\ ToldOrPending /\ SteerNotStranded
    BY DEF QueueInv
<1>2. /\ op[c] = "recheck"
      /\ op' = [op EXCEPT ![c] = IF open THEN "idle" ELSE "publish"]
      /\ UNCHANGED <<queueVars, notifier, turnVars, frames, client, nextId, fates, edited>>
    BY DEF Recheck
<1>13. /\ op' \in [Clients -> {"idle", "notify", "edited", "recheck", "publish"}]
       /\ ~ open => op'[c] = "publish"
       /\ \A d \in Clients : d # c => op'[d] = op[d]
    BY <1>1, <1>2 DEF QueueTypeOK
<1>14. UNCHANGED <<queue, version>>
    BY <1>2 DEF queueVars
<1>3. VersionsTell' /\ \A f \in Answers' : f.version \in Nat /\ f.rows \in Seq(Row)
    <2>1. Answers' = Answers
        BY <1>2 DEF Answers
    <2> QED BY <1>1, <1>14, <2>1, AnswersStep
<1>4. QueueTypeOK'
    BY <1>1, <1>2, <1>3, <1>13 DEF QueueTypeOK, Answers, turnVars, queueVars, fates
<1>5. TurnStands'
    BY <1>1, <1>2 DEF TurnStands, turnVars, queueVars
<1>6. RunsCharged'
    BY <1>1, <1>2 DEF RunsCharged, turnVars
<1>7. EachPlaced'
    BY <1>1, <1>2 DEF EachPlaced, turnVars, queueVars, fates
<1>8. ToldOrPending'
    <2>1. Pending => Pending'
        BY <1>2, <1>13 DEF Pending, turnVars, queueVars
    <2> QED BY <1>1, <1>2, <1>14, <2>1, StillToldOrPending
<1>9. SteerNotStranded'
    BY <1>1, <1>2 DEF SteerNotStranded, queueVars
<1> QED
    BY <1>3, <1>4, <1>5, <1>6, <1>7, <1>8, <1>9 DEF QueueInv

\* An edit of a shut queue announced by its request.
LEMMA PublishEditStep ==
    ASSUME QueueInv, NEW c \in Clients, PublishEdit(c)
    PROVE  QueueInv'
<1>1. /\ QueueTypeOK /\ TurnStands /\ RunsCharged /\ EachPlaced /\ VersionsTell
      /\ ToldOrPending /\ SteerNotStranded
    BY DEF QueueInv
<1>2. /\ op[c] = "publish" /\ Publish
      /\ op' = [op EXCEPT ![c] = "idle"]
      /\ UNCHANGED <<queueVars, notifier, turnVars, client, nextId, fates, edited>>
    BY DEF PublishEdit
<1>13. op' \in [Clients -> {"idle", "notify", "edited", "recheck", "publish"}]
    BY <1>1, <1>2 DEF QueueTypeOK
<1>14. UNCHANGED <<version, queue, client>>
    BY <1>2 DEF queueVars
<1>15. Answers' \subseteq Answers \cup {[version |-> version, rows |-> queue]} /\ Told'
    BY <1>1, <1>2, <1>14, PublishedIsTold
<1>3. VersionsTell' /\ \A f \in Answers' : f.version \in Nat /\ f.rows \in Seq(Row)
    BY <1>1, <1>14, <1>15, AnswersStep
<1>4. QueueTypeOK'
    BY <1>1, <1>2, <1>3, <1>13 DEF QueueTypeOK, Answers, turnVars, queueVars, fates
<1>5. TurnStands'
    BY <1>1, <1>2 DEF TurnStands, turnVars, queueVars
<1>6. RunsCharged'
    BY <1>1, <1>2 DEF RunsCharged, turnVars
<1>7. EachPlaced'
    BY <1>1, <1>2 DEF EachPlaced, turnVars, queueVars, fates
<1>8. ToldOrPending'
    BY <1>15 DEF ToldOrPending
<1>9. SteerNotStranded'
    BY <1>1, <1>2 DEF SteerNotStranded, queueVars
<1> QED
    BY <1>3, <1>4, <1>5, <1>6, <1>7, <1>8, <1>9 DEF QueueInv

\* A change of the turn's own announced.
LEMMA AnnounceStep ==
    ASSUME QueueInv, Announce
    PROVE  QueueInv'
<1>1. /\ QueueTypeOK /\ TurnStands /\ RunsCharged /\ EachPlaced /\ VersionsTell
      /\ ToldOrPending /\ SteerNotStranded
    BY DEF QueueInv
<1>2. /\ announce /\ announce' = FALSE
      /\ IF notifier THEN Publish ELSE UNCHANGED frames
      /\ UNCHANGED <<queueVars, notifier, op, pc, batch, followUps, afterTurns, runs, turns, client,
                     nextId, fates, edited>>
    BY DEF Announce
<1>13. notifier
    BY <1>1, <1>2 DEF TurnStands
<1>14. UNCHANGED <<version, queue, client>>
    BY <1>2 DEF queueVars
<1>15. Answers' \subseteq Answers \cup {[version |-> version, rows |-> queue]} /\ Told'
    BY <1>1, <1>2, <1>13, <1>14, PublishedIsTold
<1>3. VersionsTell' /\ \A f \in Answers' : f.version \in Nat /\ f.rows \in Seq(Row)
    BY <1>1, <1>14, <1>15, AnswersStep
<1>4. QueueTypeOK'
    BY <1>1, <1>2, <1>3 DEF QueueTypeOK, Answers, queueVars, fates
<1>5. TurnStands'
    BY <1>1, <1>2 DEF TurnStands, queueVars
<1>6. RunsCharged'
    BY <1>1, <1>2 DEF RunsCharged
<1>7. EachPlaced'
    BY <1>1, <1>2 DEF EachPlaced, turnVars, queueVars, fates
<1>8. ToldOrPending'
    BY <1>15 DEF ToldOrPending
<1>9. SteerNotStranded'
    BY <1>1, <1>2 DEF SteerNotStranded, queueVars
<1> QED
    BY <1>3, <1>4, <1>5, <1>6, <1>7, <1>8, <1>9 DEF QueueInv

\* An announcement received.
LEMMA ReceiveStep ==
    ASSUME QueueInv, NEW a \in frames, Receive(a)
    PROVE  QueueInv'
<1>1. /\ QueueTypeOK /\ TurnStands /\ RunsCharged /\ EachPlaced /\ VersionsTell
      /\ ToldOrPending /\ SteerNotStranded
    BY DEF QueueInv
<1>2. /\ frames' = frames \ {a}
      /\ client' = IF a.version < client.version THEN client ELSE a
      /\ UNCHANGED <<queueVars, notifier, op, turnVars, nextId, fates, edited>>
    BY DEF Receive
<1>14. UNCHANGED <<version, queue>>
    BY <1>2 DEF queueVars
<1>15. Answers' \subseteq Answers
    BY <1>2 DEF Answers
<1>16. \A g \in Answers : g.version \in Nat
    BY <1>1 DEF QueueTypeOK, Answers
<1>3. VersionsTell' /\ \A f \in Answers' : f.version \in Nat /\ f.rows \in Seq(Row)
    BY <1>1, <1>14, <1>15, AnswersStep
<1>4. QueueTypeOK'
    BY <1>1, <1>2, <1>3 DEF QueueTypeOK, Answers, turnVars, queueVars, fates
<1>5. TurnStands'
    BY <1>1, <1>2 DEF TurnStands, turnVars, queueVars
<1>6. RunsCharged'
    BY <1>1, <1>2 DEF RunsCharged, turnVars
<1>7. EachPlaced'
    BY <1>1, <1>2 DEF EachPlaced, turnVars, queueVars, fates
<1>8. ToldOrPending'
    <2>1. Pending => Pending'
        BY <1>2 DEF Pending, turnVars, queueVars
    <2>2. ASSUME Told PROVE Told'
        <3>1. PICK g \in Answers : \A h \in Answers : h.version >= g.version => h.rows = queue
            BY <2>2 DEF Told
        <3>2. a \in Answers /\ client \in Answers
            BY DEF Answers
        <3>3. client' \in Answers' /\ (g \in Answers' \/ g = a \/ g = client)
            BY <1>2 DEF Answers
        <3>4. CASE client'.version >= g.version
            <4>1. \A h \in Answers' : h.version >= client'.version => h.version >= g.version
                BY ONLY <1>15, <1>16, <3>3, <3>4, g \in Answers
            <4>2. \A h \in Answers' : h.version >= client'.version => h.rows = queue'
                BY <1>14, <1>15, <3>1, <4>1
            <4> QED BY <3>3, <4>2 DEF Told
        <3>5. CASE ~ (client'.version >= g.version)
            <4>1. g # a /\ g # client
                BY <1>2, <1>16, <3>2, <3>5
            <4>2. g \in Answers'
                BY <3>3, <4>1
            <4> QED BY <1>14, <1>15, <3>1, <4>2 DEF Told
        <3> QED BY <3>4, <3>5
    <2> QED BY <1>1, <2>1, <2>2 DEF ToldOrPending
<1>9. SteerNotStranded'
    BY <1>1, <1>2 DEF SteerNotStranded, queueVars
<1> QED
    BY <1>3, <1>4, <1>5, <1>6, <1>7, <1>8, <1>9 DEF QueueInv

\* A turn begins: the queue was shut.
LEMMA OpenMessageQueueStep ==
    ASSUME QueueInv, OpenMessageQueue
    PROVE  QueueInv'
<1>1. /\ QueueTypeOK /\ TurnStands /\ RunsCharged /\ EachPlaced /\ VersionsTell
      /\ ToldOrPending /\ SteerNotStranded
    BY DEF QueueInv
<1>2. /\ pc = "idle" /\ pc' = "running"
      /\ turns < MaxTurns /\ turns' = turns + 1 /\ notifier' = TRUE
      /\ queue' = IF open THEN KeepAfterTurn(queue) ELSE queue
      /\ dropped' = IF open THEN dropped \cup Ids(TakeSteer(queue)) ELSE dropped
      /\ open' = TRUE /\ version' = version + 1 /\ announce' = TRUE
      /\ followUps' = 0 /\ afterTurns' = 0 /\ runs' = 1
      /\ UNCHANGED <<op, batch, frames, client, nextId, read, taken, edited>>
    BY DEF OpenMessageQueue, Goto, Bump
<1>11. ~ open
    BY <1>1, <1>2 DEF TurnStands
<1>12. queue' = queue /\ dropped' = dropped
    BY <1>2, <1>11
<1>13. turns' \in 0 .. MaxTurns
    BY <1>1, <1>2, QueueBoundsAssumption DEF QueueTypeOK
<1>3. VersionsTell' /\ \A f \in Answers' : f.version \in Nat /\ f.rows \in Seq(Row)
    <2>1. Answers' = Answers
        BY <1>2 DEF Answers
    <2> QED BY <1>1, <1>2, <2>1, AnswersStep
<1>4. QueueTypeOK'
    BY <1>1, <1>2, <1>3, <1>12, <1>13, QueueBoundsAssumption DEF QueueTypeOK, Answers
<1>5. TurnStands'
    BY <1>1, <1>2 DEF TurnStands
<1>6. RunsCharged'
    BY <1>1, <1>2, QueueBoundsAssumption DEF RunsCharged
<1>7. EachPlaced'
    BY <1>1, <1>2, <1>12 DEF EachPlaced
<1>8. ToldOrPending'
    BY <1>2 DEF ToldOrPending, Pending
<1>9. SteerNotStranded'
    BY <1>2 DEF SteerNotStranded
<1> QED
    BY <1>3, <1>4, <1>5, <1>6, <1>7, <1>8, <1>9 DEF QueueInv

\* The messages of a running turn read between two of its steps.
LEMMA ReadQueuedMessagesStep ==
    ASSUME QueueInv, ReadQueuedMessages
    PROVE  QueueInv'
<1>1. /\ QueueTypeOK /\ TurnStands /\ RunsCharged /\ EachPlaced /\ VersionsTell
      /\ ToldOrPending /\ SteerNotStranded
    BY DEF QueueInv
<1>2. /\ pc = "running" /\ ~ announce
      /\ queue' = KeepAfterTurn(queue) /\ read' = read \cup Ids(TakeSteer(queue))
      /\ announce' = (TakeSteer(queue) # <<>>) /\ version' = version + 1
      /\ UNCHANGED <<open, notifier, op, pc, batch, followUps, afterTurns, runs, turns, frames, client,
                     nextId, taken, dropped, edited>>
    BY DEF ReadQueuedMessages, Bump
<1> DEFINE steers == TakeSteer(queue)
           kept == KeepAfterTurn(queue)
<1>11. /\ steers \in Seq(Row) /\ kept \in Seq(Row)
       /\ Ids(steers) \cup Ids(kept) = Ids(queue)
       /\ Once(steers) /\ Once(kept) /\ Ids(steers) \cap Ids(kept) = {}
       /\ steers = <<>> => kept = queue
       /\ \A i \in DOMAIN kept : kept[i].mode = "after_turn"
    BY <1>1, ModesDivide DEF QueueTypeOK, EachPlaced
<1>12. Ids(steers) \subseteq 1 .. MaxId
    BY <1>11, IdsAreMessages
<1>13. queue' = kept /\ read' = read \cup Ids(steers) /\ announce' = (steers # <<>>)
    BY <1>2
<1> HIDE DEF steers, kept
<1>3. VersionsTell' /\ \A f \in Answers' : f.version \in Nat /\ f.rows \in Seq(Row)
    <2>1. Answers' = Answers
        BY <1>2 DEF Answers
    <2> QED BY <1>1, <1>2, <2>1, AnswersStep
<1>4. QueueTypeOK'
    BY <1>1, <1>2, <1>3, <1>11, <1>12, <1>13 DEF QueueTypeOK, Answers
<1>5. TurnStands'
    BY <1>1, <1>2 DEF TurnStands
<1>6. RunsCharged'
    BY <1>1, <1>2 DEF RunsCharged
<1>7. EachPlaced'
    <2>1. UNCHANGED <<batch, taken, dropped, nextId>>
        BY <1>2
    <2>2. /\ Apart(Ids(queue), Ids(batch), read, taken, dropped)
          /\ Ids(queue) \cup Ids(batch) \cup read \cup taken \cup dropped = 1 .. nextId - 1
        BY <1>1 DEF EachPlaced
    <2>3. Ids(batch') = Ids(batch) /\ Once(batch')
        BY <1>1, <2>1 DEF EachPlaced
    <2>4. Apart(Ids(queue'), Ids(batch'), read', taken', dropped')
        BY ONLY <1>2, <1>11, <1>13, <2>1, <2>2, <2>3 DEF Apart
    <2>5. Ids(queue') \cup Ids(batch') \cup read' \cup taken' \cup dropped' = 1 .. nextId' - 1
        BY ONLY <1>2, <1>11, <1>13, <2>1, <2>2, <2>3
    <2> QED BY <1>11, <1>13, <2>3, <2>4, <2>5 DEF EachPlaced
<1>8. ToldOrPending'
    <2>1. CASE steers # <<>>
        BY <1>13, <2>1 DEF ToldOrPending, Pending
    <2>2. CASE steers = <<>>
        <3>1. queue' = queue /\ announce' = announce
            BY <1>1, <1>2, <1>11, <1>13, <2>2 DEF QueueTypeOK
        <3>2. Pending => Pending'
            BY <1>2, <3>1 DEF Pending
        <3> QED BY <1>1, <1>2, <3>1, <3>2, StillToldOrPending
    <2> QED BY <2>1, <2>2
<1>9. SteerNotStranded'
    BY <1>1, <1>2 DEF SteerNotStranded, TurnStands
<1> QED
    BY <1>3, <1>4, <1>5, <1>6, <1>7, <1>8, <1>9 DEF QueueInv

\* A run ends: for the boundary, or for good.
LEMMA RunEndsStep ==
    ASSUME QueueInv, RunEnds
    PROVE  QueueInv'
<1>1. /\ QueueTypeOK /\ TurnStands /\ RunsCharged /\ EachPlaced /\ VersionsTell
      /\ ToldOrPending /\ SteerNotStranded
    BY DEF QueueInv
<1>2. /\ pc = "running" /\ ~ announce /\ pc' \in {"boundary", "closing"}
      /\ UNCHANGED <<queueVars, notifier, op, announce, batch, followUps, afterTurns, runs, turns, frames,
                     client, nextId, fates, edited>>
    BY DEF RunEnds, Goto
<1>3. VersionsTell' /\ \A f \in Answers' : f.version \in Nat /\ f.rows \in Seq(Row)
    <2>1. Answers' = Answers
        BY <1>2 DEF Answers
    <2> QED BY <1>1, <1>2, <2>1, AnswersStep DEF queueVars
<1>4. QueueTypeOK'
    BY <1>1, <1>2, <1>3 DEF QueueTypeOK, Answers, queueVars, fates
<1>5. TurnStands'
    BY <1>1, <1>2 DEF TurnStands, queueVars
<1>6. RunsCharged'
    BY <1>1, <1>2 DEF RunsCharged
<1>7. EachPlaced'
    BY <1>1, <1>2 DEF EachPlaced, queueVars, fates
<1>8. ToldOrPending'
    <2>1. Pending => Pending'
        BY <1>1, <1>2 DEF Pending, queueVars
    <2> QED BY <1>1, <1>2, <2>1, StillToldOrPending DEF queueVars
<1>9. SteerNotStranded'
    BY <1>1, <1>2 DEF SteerNotStranded, queueVars
<1> QED
    BY <1>3, <1>4, <1>5, <1>6, <1>7, <1>8, <1>9 DEF QueueInv

\* Rows in the hands of the boundary.
LEMMA TakenStep ==
    ASSUME QueueInv, NEW rows \in Seq(Row), NEW rest \in Seq(Row), rows # <<>>,
           Once(rows), Once(rest), Ids(queue) = Ids(rows) \cup Ids(rest),
           Ids(rows) \cap Ids(rest) = {},
           pc = "boundary", pc' = "charge", batch' = rows, queue' = rest,
           announce' = TRUE, version' = version + 1,
           UNCHANGED <<open, notifier, op, followUps, afterTurns, runs, turns, frames, client,
                       nextId, fates, edited>>
    PROVE  QueueInv'
<1>1. /\ QueueTypeOK /\ TurnStands /\ RunsCharged /\ EachPlaced /\ VersionsTell
      /\ ToldOrPending /\ SteerNotStranded
    BY DEF QueueInv
<1>2. /\ pc = "boundary" /\ pc' = "charge" /\ batch' = rows /\ queue' = rest /\ rows # <<>>
      /\ announce' = TRUE /\ version' = version + 1
      /\ Once(rows) /\ Once(rest) /\ Ids(queue) = Ids(rows) \cup Ids(rest)
      /\ Ids(rows) \cap Ids(rest) = {}
      /\ UNCHANGED <<open, notifier, op, followUps, afterTurns, runs, turns, frames, client,
                     nextId, fates, edited>>
    OBVIOUS
<1>11. batch = <<>> /\ Ids(batch) = {}
    BY <1>1, <1>2, EmptyRows DEF TurnStands
<1>3. VersionsTell' /\ \A f \in Answers' : f.version \in Nat /\ f.rows \in Seq(Row)
    <2>1. Answers' = Answers
        BY <1>2 DEF Answers
    <2> QED BY <1>1, <1>2, <2>1, AnswersStep
<1>4. QueueTypeOK'
    BY <1>1, <1>2, <1>3 DEF QueueTypeOK, Answers, fates
<1>5. TurnStands'
    BY <1>1, <1>2 DEF TurnStands
<1>6. RunsCharged'
    BY <1>1, <1>2 DEF RunsCharged
<1>7. EachPlaced'
    <2>1. UNCHANGED <<read, taken, dropped, nextId>>
        BY <1>2 DEF fates
    <2>2. /\ Apart(Ids(queue), Ids(batch), read, taken, dropped)
          /\ Ids(queue) \cup Ids(batch) \cup read \cup taken \cup dropped = 1 .. nextId - 1
        BY <1>1 DEF EachPlaced
    <2>3. /\ Ids(queue') = Ids(rest) /\ Once(queue')
          /\ Ids(batch') = Ids(rows) /\ Once(batch')
        BY <1>2
    <2>4. Apart(Ids(queue'), Ids(batch'), read', taken', dropped')
        BY ONLY <1>2, <1>11, <2>1, <2>2, <2>3 DEF Apart
    <2>5. Ids(queue') \cup Ids(batch') \cup read' \cup taken' \cup dropped' = 1 .. nextId' - 1
        BY ONLY <1>2, <1>11, <2>1, <2>2, <2>3
    <2> QED BY <1>11, <2>3, <2>4, <2>5 DEF EachPlaced
<1>8. ToldOrPending'
    BY <1>2 DEF ToldOrPending, Pending
<1>9. SteerNotStranded'
    BY <1>1, <1>2 DEF SteerNotStranded, TurnStands
<1> QED
    BY <1>3, <1>4, <1>5, <1>6, <1>7, <1>8, <1>9 DEF QueueInv

\* The boundary finds nothing to run: the queue is shut.
LEMMA NothingToTakeStep ==
    ASSUME QueueInv, pc = "boundary", pc' = "closing", queue = <<>>, open' = FALSE,
           version' = version + 1,
           UNCHANGED <<queue, batch, announce, notifier, op, followUps, afterTurns, runs, turns,
                       frames, client, nextId, fates, edited>>
    PROVE  QueueInv'
<1>1. /\ QueueTypeOK /\ TurnStands /\ RunsCharged /\ EachPlaced /\ VersionsTell
      /\ ToldOrPending /\ SteerNotStranded
    BY DEF QueueInv
<1>2. /\ pc = "boundary" /\ pc' = "closing" /\ queue = <<>> /\ open' = FALSE
      /\ version' = version + 1
      /\ UNCHANGED <<queue, batch, announce, notifier, op, followUps, afterTurns, runs, turns,
                     frames, client, nextId, fates, edited>>
    OBVIOUS
<1>11. open
    BY <1>1, <1>2 DEF TurnStands
<1>3. VersionsTell' /\ \A f \in Answers' : f.version \in Nat /\ f.rows \in Seq(Row)
    <2>1. Answers' = Answers
        BY <1>2 DEF Answers
    <2> QED BY <1>1, <1>2, <2>1, AnswersStep
<1>4. QueueTypeOK'
    <2>1. version' \in Nat /\ queue' \in Seq(Row) /\ batch' \in Seq(Row)
        BY <1>1, <1>2 DEF QueueTypeOK
    <2>2. /\ open' \in BOOLEAN /\ announce' \in BOOLEAN /\ notifier' \in BOOLEAN
          /\ pc' \in {"idle", "running", "boundary", "charge", "capped", "starting", "closing",
                     "released"}
          /\ op' \in [Clients -> {"idle", "notify", "edited", "recheck", "publish"}]
        BY <1>1, <1>2 DEF QueueTypeOK
    <2>3. /\ followUps' \in 0 .. MaxFollowUps + 1 /\ afterTurns' \in 0 .. MaxAfterTurns + 1
          /\ nextId' \in 1 .. MaxId + 1 /\ turns' \in 0 .. MaxTurns /\ runs' \in Nat
          /\ read' \cup taken' \cup dropped' \cup edited' \subseteq 1 .. MaxId
        BY <1>1, <1>2 DEF QueueTypeOK, fates
    <2> QED BY ONLY <1>3, <2>1, <2>2, <2>3 DEF QueueTypeOK, Answers
<1>5. TurnStands'
    BY <1>1, <1>2 DEF TurnStands
<1>6. RunsCharged'
    BY <1>1, <1>2 DEF RunsCharged
<1>7. EachPlaced'
    BY <1>1, <1>2 DEF EachPlaced, fates
<1>8. ToldOrPending'
    <2>1. Pending => Pending'
        BY <1>1, <1>2, <1>11 DEF Pending
    <2> QED BY <1>1, <1>2, <1>11, <2>1, StillToldOrPending
<1>9. SteerNotStranded'
    <2>1. DOMAIN queue' = {}
        BY <1>2
    <2> QED BY <2>1 DEF SteerNotStranded
<1> QED
    BY <1>3, <1>4, <1>5, <1>6, <1>7, <1>8, <1>9 DEF QueueInv

\* The boundary takes the steer messages, else the oldest deferred one, else shuts the queue.
LEMMA TakeQueuedMessagesOrCloseStep ==
    ASSUME QueueInv, TakeQueuedMessagesOrClose
    PROVE  QueueInv'
<1> DEFINE steer == TakeSteer(queue)
           kept == KeepAfterTurn(queue)
<1>1. queue \in Seq(Row) /\ Once(queue)
    BY DEF QueueInv, QueueTypeOK, EachPlaced
<1>2. /\ steer \in Seq(Row) /\ kept \in Seq(Row)
      /\ Ids(steer) \cup Ids(kept) = Ids(queue)
      /\ Once(steer) /\ Once(kept) /\ Ids(steer) \cap Ids(kept) = {}
    BY <1>1, ModesDivide
<1>3. /\ version' = version + 1 /\ pc = "boundary"
      /\ UNCHANGED <<notifier, op, followUps, afterTurns, runs, turns, frames, client, nextId,
                     fates, edited>>
    BY DEF TakeQueuedMessagesOrClose, Bump, Goto
<1>4. \/ /\ steer # <<>> /\ pc' = "charge" /\ batch' = steer /\ queue' = kept
         /\ announce' = TRUE /\ UNCHANGED open
      \/ /\ queue # <<>> /\ pc' = "charge" /\ batch' = <<Head(queue)>> /\ queue' = Tail(queue)
         /\ announce' = TRUE /\ UNCHANGED open
      \/ /\ queue = <<>> /\ pc' = "closing" /\ open' = FALSE
         /\ UNCHANGED <<queue, batch, announce>>
    BY DEF TakeQueuedMessagesOrClose, Goto
<1> HIDE DEF steer, kept
<1>5. CASE /\ steer # <<>> /\ pc' = "charge" /\ batch' = steer /\ queue' = kept
           /\ announce' = TRUE /\ UNCHANGED open
    BY <1>2, <1>3, <1>5, TakenStep
<1>6. CASE /\ queue # <<>> /\ pc' = "charge" /\ batch' = <<Head(queue)>> /\ queue' = Tail(queue)
           /\ announce' = TRUE /\ UNCHANGED open
    <2>1. /\ <<Head(queue)>> \in Seq(Row) /\ Tail(queue) \in Seq(Row)
          /\ Once(<<Head(queue)>>) /\ Once(Tail(queue))
          /\ Ids(queue) = Ids(<<Head(queue)>>) \cup Ids(Tail(queue))
          /\ Ids(<<Head(queue)>>) \cap Ids(Tail(queue)) = {}
        BY <1>1, <1>6, RowsHeaded
    <2>2. <<Head(queue)>> # <<>>
        OBVIOUS
    <2> DEFINE one == <<Head(queue)>>
               rest == Tail(queue)
    <2>3. /\ one \in Seq(Row) /\ rest \in Seq(Row) /\ one # <<>> /\ Once(one) /\ Once(rest)
          /\ Ids(queue) = Ids(one) \cup Ids(rest) /\ Ids(one) \cap Ids(rest) = {}
          /\ batch' = one /\ queue' = rest
        BY <1>6, <2>1, <2>2
    <2> HIDE DEF one, rest
    <2> QED BY <1>3, <1>6, <2>3, TakenStep
<1>7. CASE /\ queue = <<>> /\ pc' = "closing" /\ open' = FALSE
           /\ UNCHANGED <<queue, batch, announce>>
    BY <1>3, <1>7, NothingToTakeStep
<1> QED
    BY <1>4, <1>5, <1>6, <1>7

\* The rows of the batch put back, but those dropped.
LEMMA ReturnedStep ==
    ASSUME QueueInv, NEW rows \in Seq(Row), NEW gone \in Seq(Row),
           Once(rows), Ids(batch) = Ids(rows) \cup Ids(gone), Ids(rows) \cap Ids(gone) = {},
           \/ pc = "charge" /\ pc' = "capped"
           \/ pc = "starting" /\ pc' = "closing",
           ~ announce, ReturnQueuedMessages(rows), dropped' = dropped \cup Ids(gone),
           RunsCharged', followUps' \in 0 .. MaxFollowUps + 1,
           afterTurns' \in 0 .. MaxAfterTurns + 1, runs' \in Nat,
           UNCHANGED <<notifier, op, turns, frames, client, nextId, read, taken, edited>>
    PROVE  QueueInv'
<1>1. /\ QueueTypeOK /\ TurnStands /\ RunsCharged /\ EachPlaced /\ VersionsTell
      /\ ToldOrPending /\ SteerNotStranded
    BY DEF QueueInv
<1>2. /\ \/ pc = "charge" /\ pc' = "capped"
         \/ pc = "starting" /\ pc' = "closing"
      /\ ~ announce /\ queue' = rows \o queue /\ announce' = (rows # <<>>) /\ batch' = <<>>
      /\ IF rows = <<>> THEN version' = version ELSE version' = version + 1
      /\ dropped' = dropped \cup Ids(gone) /\ UNCHANGED open
      /\ UNCHANGED <<notifier, op, turns, frames, client, nextId, read, taken, edited>>
    BY DEF ReturnQueuedMessages, Bump
<1>11. Ids(queue) \cap Ids(rows) = {} /\ queue \in Seq(Row) /\ Once(queue)
    BY <1>1 DEF EachPlaced, Apart, QueueTypeOK
<1>12. /\ queue' \in Seq(Row) /\ Ids(queue') = Ids(rows) \cup Ids(queue) /\ Once(queue')
       /\ rows = <<>> => queue' = queue
    BY <1>2, <1>11, RowsReturned
<1>13. batch' \in Seq(Row) /\ Once(batch') /\ Ids(batch') = {}
    BY <1>2, EmptyRows
<1>14. Ids(gone) \subseteq 1 .. MaxId
    BY IdsAreMessages
<1>15. Ids(batch) = Ids(rows) \cup Ids(gone) /\ Ids(rows) \cap Ids(gone) = {}
    OBVIOUS
<1>16. \/ version' = version + 1
       \/ version' = version /\ queue' = queue /\ rows = <<>>
    BY <1>2, <1>12
<1>3. VersionsTell' /\ \A f \in Answers' : f.version \in Nat /\ f.rows \in Seq(Row)
    <2>1. Answers' = Answers
        BY <1>2 DEF Answers
    <2> QED BY <1>1, <1>16, <2>1, AnswersStep
<1>4. QueueTypeOK'
    BY <1>1, <1>2, <1>3, <1>12, <1>13, <1>14, <1>16, SMTT(30) DEF QueueTypeOK, Answers
<1>5. TurnStands'
    <2>1. open
        BY <1>1, <1>2 DEF TurnStands
    <2> QED BY <1>1, <1>2, <2>1 DEF TurnStands
<1>6. RunsCharged'
    OBVIOUS
<1>7. EachPlaced'
    <2>1. UNCHANGED <<read, taken, nextId>>
        BY <1>2
    <2>2. /\ Apart(Ids(queue), Ids(batch), read, taken, dropped)
          /\ Ids(queue) \cup Ids(batch) \cup read \cup taken \cup dropped = 1 .. nextId - 1
        BY <1>1 DEF EachPlaced
    <2>3. Once(batch')
        BY <1>13
    <2>4. Apart(Ids(queue'), Ids(batch'), read', taken', dropped')
        BY ONLY <1>2, <1>12, <1>13, <1>15, <2>1, <2>2, <2>3 DEF Apart
    <2>5. Ids(queue') \cup Ids(batch') \cup read' \cup taken' \cup dropped' = 1 .. nextId' - 1
        BY ONLY <1>2, <1>12, <1>13, <1>15, <2>1, <2>2, <2>3
    <2> QED BY <1>12, <1>13, <1>15, <2>3, <2>4, <2>5 DEF EachPlaced
<1>8. ToldOrPending'
    <2>1. CASE rows # <<>>
        BY <1>2, <2>1 DEF ToldOrPending, Pending
    <2>2. CASE rows = <<>>
        <3>1. queue' = queue /\ announce' = announce
            BY <1>1, <1>2, <1>12, <2>2 DEF QueueTypeOK
        <3>2. Pending => Pending'
            BY <1>2, <3>1 DEF Pending
        <3> QED BY <1>1, <1>2, <3>1, <3>2, StillToldOrPending
    <2> QED BY <2>1, <2>2
<1>9. SteerNotStranded'
    <2>1. open
        BY <1>1, <1>2 DEF TurnStands
    <2> QED BY <1>2, <2>1 DEF SteerNotStranded
<1> QED
    BY <1>3, <1>4, <1>5, <1>6, <1>7, <1>8, <1>9 DEF QueueInv

\* A batch charged for, or put back when its bound is reached.
LEMMA ChargeStep ==
    ASSUME QueueInv, Charge
    PROVE  QueueInv'
<1> DEFINE deferred == batch[1].mode = "after_turn"
           over == IF deferred THEN afterTurns >= MaxAfterTurns ELSE followUps >= MaxFollowUps
<1>1. /\ QueueTypeOK /\ TurnStands /\ RunsCharged /\ EachPlaced /\ VersionsTell
      /\ ToldOrPending /\ SteerNotStranded
    BY DEF QueueInv
<1>2. /\ pc = "charge" /\ ~ announce
      /\ IF over THEN pc' = "capped" /\ ReturnQueuedMessages(batch)
                 ELSE pc' = "starting" /\ UNCHANGED <<queueVars, batch, announce>>
      /\ afterTurns' = IF deferred THEN afterTurns + 1 ELSE afterTurns
      /\ followUps' = IF deferred THEN followUps ELSE followUps + 1
      /\ UNCHANGED <<notifier, op, runs, turns, frames, client, nextId, fates, edited>>
    BY DEF Charge, Goto
<1>3. /\ followUps <= MaxFollowUps /\ afterTurns <= MaxAfterTurns
      /\ runs = 1 + followUps + afterTurns /\ runs <= 1 + MaxFollowUps + MaxAfterTurns
      /\ followUps \in Nat /\ afterTurns \in Nat /\ runs \in Nat
    BY <1>1, <1>2 DEF RunsCharged, QueueTypeOK
<1>4. MaxFollowUps \in Nat /\ MaxAfterTurns \in Nat
    BY QueueBoundsAssumption
<1>5. /\ followUps' \in 0 .. MaxFollowUps + 1 /\ afterTurns' \in 0 .. MaxAfterTurns + 1
      /\ runs' = runs /\ followUps' + afterTurns' = runs
    <2> HIDE DEF deferred
    <2>1. CASE deferred
        BY <1>2, <1>3, <1>4, <2>1
    <2>2. CASE ~ deferred
        BY <1>2, <1>3, <1>4, <2>2
    <2> QED BY <2>1, <2>2
<1>6. ~ over => followUps' <= MaxFollowUps /\ afterTurns' <= MaxAfterTurns
    <2> HIDE DEF deferred
    <2> QED BY <1>2, <1>3, <1>4
<1> HIDE DEF over, deferred
<1>7. CASE over
    <2>1. RunsCharged'
        BY <1>2, <1>3, <1>5, <1>7 DEF RunsCharged
    <2>2. batch \in Seq(Row) /\ Once(batch)
        BY <1>1 DEF QueueTypeOK, EachPlaced
    <2>3. UNCHANGED <<read, taken, dropped>>
        BY <1>2 DEF fates
    <2> DEFINE none == <<>>
    <2>4. /\ none \in Seq(Row) /\ Ids(batch) = Ids(batch) \cup Ids(none)
          /\ Ids(batch) \cap Ids(none) = {} /\ dropped' = dropped \cup Ids(none)
        BY <2>3, EmptyRows
    <2> HIDE DEF none
    <2>5. pc' = "capped" /\ ReturnQueuedMessages(batch) /\ runs' \in Nat
        BY <1>2, <1>3, <1>5, <1>7
    <2> QED BY <1>2, <1>5, <2>1, <2>2, <2>3, <2>4, <2>5, ReturnedStep
<1>8. CASE ~ over
    <2>1. pc' = "starting" /\ UNCHANGED <<queueVars, batch, announce, fates>>
        BY <1>2, <1>8
    <2>2. UNCHANGED <<queue, open, version, batch, announce, read, taken, dropped>>
        BY <2>1 DEF queueVars, fates
    <2>3. Answers' = Answers
        BY <1>2 DEF Answers
    <2>4. VersionsTell' /\ \A f \in Answers' : f.version \in Nat /\ f.rows \in Seq(Row)
        BY <1>1, <2>2, <2>3, AnswersStep
    <2>5. QueueTypeOK'
        BY <1>1, <1>2, <1>3, <1>5, <2>1, <2>2, <2>4 DEF QueueTypeOK, Answers
    <2>6. TurnStands'
        BY <1>1, <1>2, <2>1, <2>2 DEF TurnStands
    <2>7. RunsCharged'
        BY <1>3, <1>5, <1>6, <1>8, <2>1 DEF RunsCharged
    <2>8. EachPlaced'
        BY <1>1, <1>2, <2>2 DEF EachPlaced
    <2>9. Pending => Pending'
        BY <1>2, <2>2 DEF Pending
    <2>10. ToldOrPending'
        BY <1>1, <1>2, <2>2, <2>9, StillToldOrPending
    <2>11. SteerNotStranded'
        BY <1>1, <1>2, <2>2 DEF SteerNotStranded
    <2> QED BY <2>4, <2>5, <2>6, <2>7, <2>8, <2>10, <2>11 DEF QueueInv
<1> QED
    BY <1>7, <1>8

\* The queue shut: what steers goes with the turn, what is deferred stays.
LEMMA CloseQueueStep ==
    ASSUME QueueInv, CloseQueue, ~ announce,
           \/ pc = "capped" /\ pc' = "closing"
           \/ pc = "closing" /\ pc' = "released",
           UNCHANGED <<notifier, op, batch, followUps, afterTurns, runs, turns, frames, client,
                       nextId, read, taken, edited>>
    PROVE  QueueInv'
<1>1. /\ QueueTypeOK /\ TurnStands /\ RunsCharged /\ EachPlaced /\ VersionsTell
      /\ ToldOrPending /\ SteerNotStranded
    BY DEF QueueInv
<1>2. /\ \/ pc = "capped" /\ pc' = "closing"
         \/ pc = "closing" /\ pc' = "released"
      /\ queue' = KeepAfterTurn(queue) /\ dropped' = dropped \cup Ids(TakeSteer(queue))
      /\ open' = FALSE /\ ~ announce /\ announce' = (open \/ TakeSteer(queue) # <<>>)
      /\ IF open \/ TakeSteer(queue) # <<>> THEN version' = version + 1 ELSE version' = version
      /\ UNCHANGED <<notifier, op, batch, followUps, afterTurns, runs, turns, frames, client,
                     nextId, read, taken, edited>>
    BY DEF CloseQueue, Bump
<1> DEFINE steers == TakeSteer(queue)
           kept == KeepAfterTurn(queue)
<1>11. /\ steers \in Seq(Row) /\ kept \in Seq(Row)
       /\ Ids(steers) \cup Ids(kept) = Ids(queue)
       /\ Once(steers) /\ Once(kept) /\ Ids(steers) \cap Ids(kept) = {}
       /\ steers = <<>> => kept = queue
       /\ \A i \in DOMAIN kept : kept[i].mode = "after_turn"
    BY <1>1, ModesDivide DEF QueueTypeOK, EachPlaced
<1>12. Ids(steers) \subseteq 1 .. MaxId
    BY <1>11, IdsAreMessages
<1>13. /\ queue' = kept /\ dropped' = dropped \cup Ids(steers)
       /\ announce' = (open \/ steers # <<>>)
       /\ IF open \/ steers # <<>> THEN version' = version + 1 ELSE version' = version
    BY <1>2
<1> HIDE DEF steers, kept
<1>14. \/ version' = version + 1 /\ announce' = TRUE
       \/ version' = version /\ queue' = queue /\ ~ open /\ announce' = FALSE
    BY <1>11, <1>13
<1>3. VersionsTell' /\ \A f \in Answers' : f.version \in Nat /\ f.rows \in Seq(Row)
    <2>1. Answers' = Answers
        BY <1>2 DEF Answers
    <2> QED BY <1>1, <1>14, <2>1, AnswersStep
<1>4. QueueTypeOK'
    <2>1. /\ queue' \in Seq(Row) /\ dropped' = dropped \cup Ids(steers)
          /\ announce' \in BOOLEAN /\ version' \in Nat
        BY <1>1, <1>11, <1>13, <1>14 DEF QueueTypeOK
    <2>2. /\ pc' \in {"closing", "released"} /\ open' = FALSE
          /\ UNCHANGED <<notifier, op, batch, followUps, afterTurns, runs, turns, frames, client,
                         nextId, read, taken, edited>>
        BY <1>2
    <2> QED BY ONLY <1>1, <1>3, <1>12, <2>1, <2>2 DEF QueueTypeOK, Answers
<1>5. TurnStands'
    BY <1>1, <1>2 DEF TurnStands
<1>6. RunsCharged'
    BY <1>1, <1>2 DEF RunsCharged
<1>7. EachPlaced'
    <2>1. UNCHANGED <<batch, read, taken, nextId>>
        BY <1>2
    <2>2. /\ Apart(Ids(queue), Ids(batch), read, taken, dropped)
          /\ Ids(queue) \cup Ids(batch) \cup read \cup taken \cup dropped = 1 .. nextId - 1
        BY <1>1 DEF EachPlaced
    <2>3. Ids(batch') = Ids(batch) /\ Once(batch')
        BY <1>1, <2>1 DEF EachPlaced
    <2>4. Apart(Ids(queue'), Ids(batch'), read', taken', dropped')
        BY ONLY <1>2, <1>11, <1>13, <2>1, <2>2, <2>3 DEF Apart
    <2>5. Ids(queue') \cup Ids(batch') \cup read' \cup taken' \cup dropped' = 1 .. nextId' - 1
        BY ONLY <1>2, <1>11, <1>13, <2>1, <2>2, <2>3
    <2> QED BY <1>11, <1>13, <2>3, <2>4, <2>5 DEF EachPlaced
<1>8. ToldOrPending'
    <2>1. CASE announce' = TRUE
        BY <2>1 DEF ToldOrPending, Pending
    <2>2. CASE version' = version /\ queue' = queue /\ ~ open /\ announce' = FALSE
        <3>1. Pending => Pending'
            BY <1>2, <2>2 DEF Pending
        <3> QED BY <1>1, <1>2, <2>2, <3>1, StillToldOrPending
    <2> QED BY <1>14, <2>1, <2>2
<1>9. SteerNotStranded'
    BY <1>11, <1>13 DEF SteerNotStranded
<1> QED
    BY <1>3, <1>4, <1>5, <1>6, <1>7, <1>8, <1>9 DEF QueueInv

\* A batch that may not run ends the turn.
LEMMA CappedStep ==
    ASSUME QueueInv, Capped
    PROVE  QueueInv'
    BY CloseQueueStep DEF Capped, Goto

\* The end of a turn shuts its queue.
LEMMA CloseMessageQueueStep ==
    ASSUME QueueInv, CloseMessageQueue
    PROVE  QueueInv'
    BY CloseQueueStep DEF CloseMessageQueue, Goto

\* The prompt of a queued run in the conversation.
LEMMA PromptRecordedStep ==
    ASSUME QueueInv, PromptRecorded
    PROVE  QueueInv'
<1>1. /\ QueueTypeOK /\ TurnStands /\ RunsCharged /\ EachPlaced /\ VersionsTell
      /\ ToldOrPending /\ SteerNotStranded
    BY DEF QueueInv
<1>2. /\ pc = "starting" /\ ~ announce /\ pc' = "running"
      /\ runs' = runs + 1 /\ read' = read \cup Ids(batch) /\ batch' = <<>>
      /\ UNCHANGED <<queueVars, notifier, op, announce, followUps, afterTurns, turns, frames, client,
                     nextId, taken, dropped, edited>>
    BY DEF PromptRecorded, Goto
<1>11. Ids(batch) \subseteq 1 .. MaxId
    BY <1>1, IdsAreMessages DEF QueueTypeOK
<1>12. batch' \in Seq(Row) /\ Once(batch') /\ Ids(batch') = {}
    BY <1>2, EmptyRows
<1>13. UNCHANGED <<queue, open, version>>
    BY <1>2 DEF queueVars
<1>3. VersionsTell' /\ \A f \in Answers' : f.version \in Nat /\ f.rows \in Seq(Row)
    <2>1. Answers' = Answers
        BY <1>2 DEF Answers
    <2> QED BY <1>1, <1>2, <2>1, AnswersStep DEF queueVars
<1>4. QueueTypeOK'
    BY <1>1, <1>2, <1>3, <1>11, <1>12, <1>13 DEF QueueTypeOK, Answers
<1>5. TurnStands'
    BY <1>1, <1>2, <1>13 DEF TurnStands
<1>6. RunsCharged'
    <2>1. followUps \in Nat /\ afterTurns \in Nat /\ MaxFollowUps \in Nat /\ MaxAfterTurns \in Nat
        BY <1>1, QueueBoundsAssumption DEF QueueTypeOK
    <2> QED BY <1>1, <1>2, <2>1 DEF RunsCharged
<1>7. EachPlaced'
    <2>1. UNCHANGED <<queue, taken, dropped, nextId>>
        BY <1>2 DEF queueVars
    <2>2. /\ Apart(Ids(queue), Ids(batch), read, taken, dropped)
          /\ Ids(queue) \cup Ids(batch) \cup read \cup taken \cup dropped = 1 .. nextId - 1
        BY <1>1 DEF EachPlaced
    <2>3. Ids(queue') = Ids(queue) /\ Once(queue')
        BY <1>1, <2>1 DEF EachPlaced
    <2>4. Apart(Ids(queue'), Ids(batch'), read', taken', dropped')
        BY ONLY <1>2, <1>12, <2>1, <2>2, <2>3 DEF Apart
    <2>5. Ids(queue') \cup Ids(batch') \cup read' \cup taken' \cup dropped' = 1 .. nextId' - 1
        BY ONLY <1>2, <1>12, <2>1, <2>2, <2>3
    <2> QED BY <1>12, <2>3, <2>4, <2>5 DEF EachPlaced
<1>8. ToldOrPending'
    <2>1. Pending => Pending'
        BY <1>1, <1>2 DEF Pending, queueVars
    <2> QED BY <1>1, <1>2, <2>1, StillToldOrPending DEF queueVars
<1>9. SteerNotStranded'
    BY <1>1, <1>2 DEF SteerNotStranded, queueVars
<1> QED
    BY <1>3, <1>4, <1>5, <1>6, <1>7, <1>8, <1>9 DEF QueueInv

\* A queued run that ends before its prompt is recorded: what is deferred goes back.
LEMMA PromptUnreadStep ==
    ASSUME QueueInv, PromptUnread
    PROVE  QueueInv'
<1> DEFINE kept == KeepAfterTurn(batch)
           gone == TakeSteer(batch)
<1>1. QueueTypeOK /\ RunsCharged /\ EachPlaced
    BY DEF QueueInv
<1>2. /\ pc = "starting" /\ ~ announce /\ pc' = "closing" /\ runs' = runs + 1
      /\ ReturnQueuedMessages(kept) /\ dropped' = dropped \cup Ids(gone)
      /\ UNCHANGED <<notifier, op, followUps, afterTurns, turns, frames, client, nextId, read,
                     taken, edited>>
    BY DEF PromptUnread, Goto
<1>3. /\ kept \in Seq(Row) /\ gone \in Seq(Row) /\ Once(kept)
      /\ Ids(batch) = Ids(kept) \cup Ids(gone) /\ Ids(kept) \cap Ids(gone) = {}
    BY <1>1, ModesDivide DEF QueueTypeOK, EachPlaced
<1> HIDE DEF kept, gone
<1>4. followUps \in Nat /\ afterTurns \in Nat /\ MaxFollowUps \in Nat /\ MaxAfterTurns \in Nat
    BY <1>1, QueueBoundsAssumption DEF QueueTypeOK
<1>5. RunsCharged' /\ runs' \in Nat
    BY <1>1, <1>2, <1>4 DEF RunsCharged
<1>6. followUps' \in 0 .. MaxFollowUps + 1 /\ afterTurns' \in 0 .. MaxAfterTurns + 1
    BY <1>1, <1>2 DEF QueueTypeOK
<1> QED
    BY <1>2, <1>3, <1>5, <1>6, ReturnedStep

\* The turn's goroutine lets the notifier go.
LEMMA FinishStep ==
    ASSUME QueueInv, Finish
    PROVE  QueueInv'
<1>1. /\ QueueTypeOK /\ TurnStands /\ RunsCharged /\ EachPlaced /\ VersionsTell
      /\ ToldOrPending /\ SteerNotStranded
    BY DEF QueueInv
<1>2. /\ pc = "released" /\ ~ announce /\ pc' = "idle" /\ notifier' = FALSE
      /\ UNCHANGED <<queueVars, op, announce, batch, followUps, afterTurns, runs, turns, frames, client,
                     nextId, fates, edited>>
    BY DEF Finish, Goto
<1>3. VersionsTell' /\ \A f \in Answers' : f.version \in Nat /\ f.rows \in Seq(Row)
    <2>1. Answers' = Answers
        BY <1>2 DEF Answers
    <2> QED BY <1>1, <1>2, <2>1, AnswersStep DEF queueVars
<1>4. QueueTypeOK'
    BY <1>1, <1>2, <1>3 DEF QueueTypeOK, Answers, queueVars, fates
<1>5. TurnStands'
    BY <1>1, <1>2 DEF TurnStands, queueVars
<1>6. RunsCharged'
    BY <1>1, <1>2 DEF RunsCharged
<1>7. EachPlaced'
    BY <1>1, <1>2 DEF EachPlaced, queueVars, fates
<1>8. ToldOrPending'
    <2>1. Pending => Pending'
        BY <1>1, <1>2 DEF Pending, queueVars
    <2> QED BY <1>1, <1>2, <2>1, StillToldOrPending DEF queueVars
<1>9. SteerNotStranded'
    BY <1>1, <1>2 DEF SteerNotStranded, queueVars
<1> QED
    BY <1>3, <1>4, <1>5, <1>6, <1>7, <1>8, <1>9 DEF QueueInv

-------------------------------------------------------------------------------
(* Every step. *)

LEMMA QueueInvInit == QueueInit => QueueInv
<1> SUFFICES ASSUME QueueInit PROVE QueueInv
    OBVIOUS
<1>1. queue = <<>> /\ batch = <<>> /\ client = [version |-> 0, rows |-> <<>>] /\ frames = {}
    BY DEF QueueInit
<1>2. client.version = 0 /\ client.rows = queue /\ Answers = {client}
    BY <1>1 DEF Answers
<1>3. queue \in Seq(Row) /\ Once(queue) /\ Ids(queue) = {} /\ DOMAIN queue = {}
    BY <1>1, EmptyRows
<1>4. QueueTypeOK
    <2>1. \A f \in frames \cup {client} : f.version \in Nat /\ f.rows \in Seq(Row)
        <3>1. frames \cup {client} = {client} /\ client.version \in Nat
            BY ONLY <1>2 DEF Answers
        <3>2. client.rows \in Seq(Row)
            BY ONLY <1>2, <1>3
        <3> QED BY ONLY <3>1, <3>2
    <2>2. batch \in Seq(Row)
        BY <1>1, EmptyRows
    <2>3. /\ open \in BOOLEAN /\ version \in Nat /\ notifier \in BOOLEAN /\ announce \in BOOLEAN
          /\ op \in [Clients -> {"idle", "notify", "edited", "recheck", "publish"}]
          /\ pc = "idle"
        BY DEF QueueInit
    <2>4. /\ followUps \in 0 .. MaxFollowUps + 1 /\ afterTurns \in 0 .. MaxAfterTurns + 1
          /\ nextId \in 1 .. MaxId + 1 /\ turns \in 0 .. MaxTurns /\ runs \in Nat
          /\ read \cup taken \cup dropped \cup edited \subseteq 1 .. MaxId
        BY QueueBoundsAssumption DEF QueueInit
    <2> QED BY ONLY <1>3, <2>1, <2>2, <2>3, <2>4 DEF QueueTypeOK
<1>5. TurnStands
    BY DEF QueueInit, TurnStands
<1>6. RunsCharged
    BY QueueBoundsAssumption DEF QueueInit, RunsCharged
<1>7. EachPlaced
    <2>1. Once(batch) /\ Ids(batch) = {}
        BY <1>1, EmptyRows
    <2>2. read = {} /\ taken = {} /\ dropped = {} /\ nextId = 1
        BY DEF QueueInit
    <2>3. 1 .. nextId - 1 = {}
        BY ONLY <2>2
    <2> QED BY ONLY <1>3, <2>1, <2>2, <2>3 DEF EachPlaced, Apart
<1>8. VersionsTell
    <2>1. version = 0
        BY DEF QueueInit
    <2> QED BY ONLY <1>2, <2>1 DEF VersionsTell
<1>9. ToldOrPending
    BY ONLY <1>2 DEF ToldOrPending, Told
<1>10. SteerNotStranded
    BY <1>3 DEF SteerNotStranded
<1> QED
    BY <1>4, <1>5, <1>6, <1>7, <1>8, <1>9, <1>10 DEF QueueInv

LEMMA QueueUnchanged ==
    ASSUME QueueInv, UNCHANGED turnQueueVars
    PROVE  QueueInv'
<1>1. UNCHANGED <<queue, open, version, notifier, op, pc, announce, batch, followUps, afterTurns,
                  runs, turns, frames, client, nextId, read, taken, dropped, edited>>
    BY DEF turnQueueVars, queueVars, turnVars, fates
<1>2. QueueTypeOK' /\ TurnStands'
    BY <1>1 DEF QueueInv, QueueTypeOK, TurnStands
<1>3. RunsCharged' /\ SteerNotStranded'
    BY <1>1 DEF QueueInv, RunsCharged, SteerNotStranded
<1>4. EachPlaced' /\ VersionsTell'
    BY <1>1 DEF QueueInv, EachPlaced, VersionsTell, Answers
<1>5. ToldOrPending'
    BY <1>1 DEF QueueInv, ToldOrPending, Told, Pending, Answers
<1> QED
    BY <1>2, <1>3, <1>4, <1>5 DEF QueueInv

LEMMA RequestStep ==
    ASSUME QueueInv, NEW c \in Clients, Request(c)
    PROVE  QueueInv'
<1>1. ASSUME NEW mode \in Modes, Enqueue(c, mode) PROVE QueueInv'
    BY <1>1, EnqueueStep
<1>2. ASSUME NEW i \in DOMAIN queue, TakeBack(c, i) PROVE QueueInv'
    BY <1>2, TakeBackStep
<1>3. ASSUME NEW i \in DOMAIN queue, NEW mode \in Modes, SetMode(c, i, mode) PROVE QueueInv'
    BY <1>3, SetModeStep
<1>4. CASE Clear(c)
    BY <1>4, ClearStep
<1>5. CASE Notify(c)
    BY <1>5, NotifyStep
<1>6. CASE Recheck(c)
    BY <1>6, RecheckStep
<1>7. CASE PublishEdit(c)
    BY <1>7, PublishEditStep
<1> QED
    BY <1>1, <1>2, <1>3, <1>4, <1>5, <1>6, <1>7 DEF Request

LEMMA TurnOfQueueStep ==
    ASSUME QueueInv, Turn
    PROVE  QueueInv'
<1>1. CASE Announce BY <1>1, AnnounceStep
<1>2. CASE OpenMessageQueue BY <1>2, OpenMessageQueueStep
<1>3. CASE ReadQueuedMessages BY <1>3, ReadQueuedMessagesStep
<1>4. CASE RunEnds BY <1>4, RunEndsStep
<1>5. CASE TakeQueuedMessagesOrClose BY <1>5, TakeQueuedMessagesOrCloseStep
<1>6. CASE Charge BY <1>6, ChargeStep
<1>7. CASE Capped BY <1>7, CappedStep
<1>8. CASE PromptRecorded BY <1>8, PromptRecordedStep
<1>9. CASE PromptUnread BY <1>9, PromptUnreadStep
<1>10. CASE CloseMessageQueue BY <1>10, CloseMessageQueueStep
<1>11. CASE Finish BY <1>11, FinishStep
<1> QED
    BY <1>1, <1>2, <1>3, <1>4, <1>5, <1>6, <1>7, <1>8, <1>9, <1>10, <1>11 DEF Turn

LEMMA QueueInvStep == QueueInv /\ [QueueNext]_turnQueueVars => QueueInv'
<1> SUFFICES ASSUME QueueInv, [QueueNext]_turnQueueVars PROVE QueueInv'
    OBVIOUS
<1>1. ASSUME NEW c \in Clients, Request(c) PROVE QueueInv'
    BY <1>1, RequestStep
<1>2. CASE Turn
    BY <1>2, TurnOfQueueStep
<1>3. ASSUME NEW f \in frames, Receive(f) PROVE QueueInv'
    BY <1>3, ReceiveStep
<1>4. CASE UNCHANGED turnQueueVars
    BY <1>4, QueueUnchanged
<1> QED
    BY <1>1, <1>2, <1>3, <1>4 DEF QueueNext

LEMMA QueueInvariant == QueueSpec => []QueueInv
    BY QueueInvInit, QueueInvStep, PTL DEF QueueSpec

-------------------------------------------------------------------------------
(* What the invariant says. *)

\* Rows with numbers of their own are as many as their numbers.
LEMMA RowsAreTheirIds ==
    ASSUME NEW rows \in Seq(Row), Once(rows)
    PROVE  Cardinality(Ids(rows)) = Len(rows)
<1> DEFINE n == Len(rows)
           id == [i \in 1 .. n |-> rows[i].id]
<1>1. n \in Nat /\ DOMAIN rows = 1 .. n
    OBVIOUS
<1>2. IsFiniteSet(1 .. n) /\ Cardinality(1 .. n) = n
    BY ONLY <1>1, EveryPlaceIsItsNumber, FS_Interval
<1>3. id \in [1 .. n -> Ids(rows)]
    BY <1>1 DEF Ids
<1>4. \A x \in Ids(rows) : \E i \in 1 .. n : id[i] = x
    BY <1>1 DEF Ids
<1>5. \A i, j \in 1 .. n : id[i] = id[j] => i = j
    BY <1>1 DEF Once
<1> HIDE DEF n, id
<1>6. id \in Bijection(1 .. n, Ids(rows))
    BY <1>3, <1>4, <1>5 DEF Bijection, Injection, Surjection, IsInjective
<1>7. Cardinality(1 .. n) = Cardinality(Ids(rows))
    <2> DEFINE S == 1 .. n
               T == Ids(rows)
    <2>1. IsFiniteSet(S) /\ ExistsBijection(S, T)
        BY <1>2, <1>6 DEF ExistsBijection
    <2> HIDE DEF S, T
    <2>2. Cardinality(S) = Cardinality(T)
        BY ONLY <2>1, FS_Bijection
    <2> QED BY <2>2 DEF S, T
<1> QED
    BY <1>2, <1>7 DEF n

\* A message placed once is in one of the five places.
LEMMA OneOfFive ==
    ASSUME NEW A, NEW B, NEW C, NEW D, NEW E, Apart(A, B, C, D, E),
           NEW m \in A \cup B \cup C \cup D \cup E
    PROVE  LET places == <<A, B, C, D, E>>
           IN  Cardinality({k \in DOMAIN places : m \in places[k]}) = 1
<1> DEFINE places == <<A, B, C, D, E>>
           at == {k \in DOMAIN places : m \in places[k]}
<1>1. /\ DOMAIN places = 1 .. 5 /\ places[1] = A /\ places[2] = B /\ places[3] = C
      /\ places[4] = D /\ places[5] = E
    OBVIOUS
<1> HIDE DEF places
<1>2. 1 .. 5 = {1, 2, 3, 4, 5}
    OBVIOUS
<1>3. \A k \in at : /\ k \in {1, 2, 3, 4, 5}
                    /\ k = 1 => m \in A
                    /\ k = 2 => m \in B
                    /\ k = 3 => m \in C
                    /\ k = 4 => m \in D
                    /\ k = 5 => m \in E
    BY <1>1, <1>2
<1>4. /\ m \in A => 1 \in at
      /\ m \in B => 2 \in at
      /\ m \in C => 3 \in at
      /\ m \in D => 4 \in at
      /\ m \in E => 5 \in at
    BY <1>1, <1>2
<1> HIDE DEF at
<1>5. \E k \in 1 .. 5 : at = {k}
    <2>1. CASE m \in A
        <3>1. at = {1}
            BY <1>3, <1>4, <2>1 DEF Apart
        <3> QED BY <3>1, <1>2
    <2>2. CASE m \in B
        <3>1. at = {2}
            BY <1>3, <1>4, <2>2 DEF Apart
        <3> QED BY <3>1, <1>2
    <2>3. CASE m \in C
        <3>1. at = {3}
            BY <1>3, <1>4, <2>3 DEF Apart
        <3> QED BY <3>1, <1>2
    <2>4. CASE m \in D
        <3>1. at = {4}
            BY <1>3, <1>4, <2>4 DEF Apart
        <3> QED BY <3>1, <1>2
    <2>5. CASE m \in E
        <3>1. at = {5}
            BY <1>3, <1>4, <2>5 DEF Apart
        <3> QED BY <3>1, <1>2
    <2> QED BY <2>1, <2>2, <2>3, <2>4, <2>5
<1>6. Cardinality(at) = 1
    BY <1>5, FS_Singleton
<1> QED
    BY <1>6 DEF at, places

LEMMA QueueInvIsConsistent == QueueInv => QueueIsConsistent
<1> SUFFICES ASSUME QueueInv PROVE QueueIsConsistent
    OBVIOUS
<1>1. QueueTypeOK /\ RunsCharged /\ EachPlaced /\ VersionsTell
    BY DEF QueueInv
<1>2. OnePlace
    <2>1. Cardinality(Ids(queue)) = Len(queue)
        BY <1>1, RowsAreTheirIds DEF QueueTypeOK, EachPlaced
    <2>2. ASSUME NEW m \in 1 .. nextId - 1
          PROVE  LET places == <<Ids(queue), Ids(batch), read, taken, dropped>>
                 IN  Cardinality({k \in DOMAIN places : m \in places[k]}) = 1
        <3>1. /\ Apart(Ids(queue), Ids(batch), read, taken, dropped)
              /\ m \in Ids(queue) \cup Ids(batch) \cup read \cup taken \cup dropped
            BY <1>1 DEF EachPlaced
        <3> QED BY <3>1, OneOfFive
    <2> QED BY <2>1, <2>2 DEF OnePlace
<1>3. VersionNamesContent
    <2> DEFINE now == [version |-> version, rows |-> queue]
    <2>1. now.version = version /\ now.rows = queue
        OBVIOUS
    <2>2. frames \cup {client, now} = Answers \cup {now}
        BY DEF Answers
    <2>3. /\ \A f \in Answers : f.version = version => f.rows = queue
          /\ \A f, g \in Answers : f.version = g.version => f.rows = g.rows
        BY <1>1 DEF VersionsTell
    <2> HIDE DEF now
    <2>4. \A f, g \in frames \cup {client, now} : f.version = g.version => f.rows = g.rows
        BY ONLY <2>1, <2>2, <2>3
    <2> QED BY <2>4 DEF VersionNamesContent, now
<1>4. RunsBounded
    BY <1>1 DEF RunsCharged, RunsBounded
<1> QED
    BY <1>1, <1>2, <1>3, <1>4 DEF QueueIsConsistent

\* With nothing under way the client holds the only answer, and some answer tells.
LEMMA QueueInvConverges == QueueInv => ClientConverges
<1> SUFFICES ASSUME QueueInv, \A c \in Clients : op[c] = "idle", ~ announce, frames = {}
             PROVE  client.rows = queue
    BY DEF ClientConverges
<1>1. QueueTypeOK /\ ToldOrPending
    BY DEF QueueInv
<1>2. ~ Pending
    BY DEF Pending
<1>3. PICK f \in Answers : \A g \in Answers : g.version >= f.version => g.rows = queue
    BY <1>1, <1>2 DEF ToldOrPending, Told
<1>4. f = client /\ client.version \in Nat
    BY <1>1 DEF Answers, QueueTypeOK
<1> QED
    BY <1>3, <1>4

\* What goes with a turn steers it, and a message is in one place only.
LEMMA DroppedSteers ==
    ASSUME QueueInv, [QueueNext]_turnQueueVars,
           NEW r \in ToSet(queue) \cup ToSet(batch), r.mode = "after_turn"
    PROVE  r.id \notin dropped'
<1>1. /\ queue \in Seq(Row) /\ batch \in Seq(Row) /\ Once(queue) /\ Once(batch)
      /\ Apart(Ids(queue), Ids(batch), read, taken, dropped)
    BY DEF QueueInv, QueueTypeOK, EachPlaced
<1>2. /\ \/ \E i \in DOMAIN queue : queue[i] = r
         \/ \E i \in DOMAIN batch : batch[i] = r
    BY DEF ToSet
<1>3. r.id \in Ids(queue) \cup Ids(batch) /\ r.id \notin dropped
    <2>1. r.id \in Ids(queue) \cup Ids(batch)
        BY <1>2 DEF Ids
    <2> QED BY <1>1, <2>1 DEF Apart
<1>4. ASSUME NEW rows \in {queue, batch} PROVE r.id \notin Ids(TakeSteer(rows))
    <2> DEFINE steer == TakeSteer(rows)
    <2>1. rows \in Seq(Row) /\ Once(rows)
        BY <1>1, <1>4
    <2>2. AreOfMode(steer, rows, "steer")
        <3>1. "steer" \in Modes
            BY DEF Modes
        <3> QED BY <2>1, <3>1, RowsOfMode DEF TakeSteer
    <2> HIDE DEF steer
    <2>3. SUFFICES ASSUME NEW k \in DOMAIN steer, steer[k].id = r.id PROVE FALSE
        BY DEF Ids, steer
    <2>4. steer[k].mode = "steer" /\ \E i \in DOMAIN rows : steer[k] = rows[i]
        BY <2>2 DEF AreOfMode
    <2>5. PICK i \in DOMAIN rows : steer[k] = rows[i]
        BY <2>4
    <2>6. rows[i].mode = "steer" /\ rows[i].id = r.id /\ r.id \in Ids(rows)
        BY <2>3, <2>4, <2>5 DEF Ids
    <2>7. \E j \in DOMAIN rows : rows[j] = r
        <3>1. CASE \E j \in DOMAIN queue : queue[j] = r
            <4>1. r.id \in Ids(queue) /\ r.id \notin Ids(batch)
                BY <1>1, <3>1 DEF Ids, Apart
            <4> QED BY <1>4, <2>6, <3>1, <4>1
        <3>2. CASE \E j \in DOMAIN batch : batch[j] = r
            <4>1. r.id \in Ids(batch) /\ r.id \notin Ids(queue)
                BY <1>1, <3>2 DEF Ids, Apart
            <4> QED BY <1>4, <2>6, <3>2, <4>1
        <3> QED BY <1>2, <3>1, <3>2
    <2>8. PICK j \in DOMAIN rows : rows[j] = r
        BY <2>7
    <2>9. i = j
        BY <2>1, <2>6, <2>8 DEF Once
    <2> QED BY <2>6, <2>8, <2>9
<1>5. CASE UNCHANGED dropped
    BY <1>3, <1>5
<1>6. CASE dropped' = dropped \cup Ids(TakeSteer(queue))
    BY <1>3, <1>4, <1>6
<1>7. CASE dropped' = dropped \cup Ids(TakeSteer(batch))
    BY <1>3, <1>4, <1>7
<1>8. \/ UNCHANGED dropped
      \/ dropped' = dropped \cup Ids(TakeSteer(queue))
      \/ dropped' = dropped \cup Ids(TakeSteer(batch))
    <2>1. ASSUME NEW c \in Clients, Request(c) PROVE UNCHANGED dropped
        BY <2>1 DEF Request, Enqueue, TakeBack, SetMode, Clear, Notify, Recheck, PublishEdit, fates
    <2>2. ASSUME NEW f \in frames, Receive(f) PROVE UNCHANGED dropped
        BY <2>2 DEF Receive, fates
    <2>3. CASE OpenMessageQueue \/ Capped \/ CloseMessageQueue
        BY <2>3 DEF OpenMessageQueue, Capped, CloseMessageQueue, CloseQueue
    <2>4. CASE PromptUnread
        BY <2>4 DEF PromptUnread
    <2>5. CASE \/ Announce \/ ReadQueuedMessages \/ RunEnds \/ TakeQueuedMessagesOrClose \/ Charge
               \/ PromptRecorded \/ Finish
        BY <2>5 DEF Announce, ReadQueuedMessages, RunEnds, TakeQueuedMessagesOrClose, Charge,
                    PromptRecorded, Finish, fates
    <2>6. CASE UNCHANGED turnQueueVars
        BY <2>6 DEF turnQueueVars, fates
    <2> QED BY <2>1, <2>2, <2>3, <2>4, <2>5, <2>6 DEF QueueNext, Turn
<1> QED
    BY <1>5, <1>6, <1>7, <1>8

LEMMA NoDeferredDropped ==
    QueueInv /\ [QueueNext]_turnQueueVars =>
        [\A r \in ToSet(queue) \cup ToSet(batch) :
             r.mode = "after_turn" => r.id \notin dropped']_turnQueueVars
    BY DroppedSteers

-------------------------------------------------------------------------------
(* Theorems *)

\* Every accepted message is in one place, once: waiting, in the boundary's hands, read, taken
\* back or dropped with its turn; a version names one content of the queue whatever overtakes
\* what; one admission holds the session for the runs its bounds allow.
THEOREM QueueStaysConsistent == QueueSpec => []QueueIsConsistent
    BY QueueInvariant, QueueInvIsConsistent, PTL

\* No turn that is over accepts a message that steers.
THEOREM NoSteerIsStranded == QueueSpec => []SteerNotStranded
<1>1. QueueInv => SteerNotStranded
    BY DEF QueueInv
<1> QED
    BY <1>1, QueueInvariant, PTL

\* When nothing is under way a client shows the queue as it is, in whatever order the
\* announcements arrived and whichever turns closed between them.
THEOREM ClientsConverge == QueueSpec => []ClientConverges
    BY QueueInvariant, QueueInvConverges, PTL

\* No Stop, refused prompt or exhausted bound drops a deferred message.
THEOREM DeferredMessagesStay == QueueSpec => NeverDropsDeferred
    BY QueueInvariant, NoDeferredDropped, PTL DEF QueueSpec, NeverDropsDeferred
===============================================================================
