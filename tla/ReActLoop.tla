------------------------------ MODULE ReActLoop ------------------------------
(***************************************************************************)
(* One turn of the agent (internal/agent/react.go, runReActLoop): the      *)
(* request, what came back of it, the tools it asked for, and every way    *)
(* the loop recovers from a provider that failed, fell silent, ran into a  *)
(* limit or began to repeat itself.  The turn's budgets are small numbers  *)
(* counted separately - steps, retries, continuations, waits, nudges - and *)
(* meet in one for statement, so most mistakes here are a counter that one *)
(* path moves and another does not.                                        *)
(*                                                                         *)
(* The operator's process runs beside the loop: follow-ups are queued, the *)
(* model settings move, the turn is stopped or the process shuts down      *)
(* between any two steps.  What the model says is abstracted to what the   *)
(* loop tells apart; the transcript to the calls that have no result, the  *)
(* messages no request has carried and the answer that was cut.  The       *)
(* compactions, which rewrite history and keep these facts, are left out.  *)
(***************************************************************************)
EXTENDS Naturals

CONSTANTS
    MaxTurns,       \* agent.max_turns: steps of the model's own
    RetryMax,       \* agent.llm_retry_max: extra attempts of one step
    ContinueMax,    \* agent.llm_continue_max (0: continuing is off)
    LadderMax,      \* pauses agent.llm_stall_retry grants a turn
    LimitMax,       \* waits for a usage limit that fit the turn's maximum
    NudgeMax,       \* agent.loop nudge budget
    StopLimit,      \* hooks.stop_loop_limit
    RestartsBeforeAnswer, \* attemptRestartsBeforeAnswer
    BlockedBeforeAnswer,  \* maxBlockedRoundsBeforeAnswer
    StuckActions,   \* agent.loop_stuck_action: the values a turn may see
    Windows,        \* bound: the repeats a checkpoint is read with
    MaxBatch,       \* bound: calls in one answer
    MaxQueued       \* bound: follow-ups queued during the turn

ASSUME ReActAssumption ==
    /\ MaxTurns \in Nat \ {0} /\ RetryMax \in Nat /\ ContinueMax \in Nat
    /\ LadderMax \in Nat /\ LimitMax \in Nat /\ NudgeMax \in Nat
    /\ StopLimit \in Nat /\ StuckActions \subseteq {"stop", "quarantine"}
    /\ RestartsBeforeAnswer \in Nat /\ BlockedBeforeAnswer \in Nat
    /\ Windows \subseteq Nat /\ MaxBatch \in Nat \ {0} /\ MaxQueued \in Nat

VARIABLES
    pc,             \* where the loop stands
    stop,           \* the stop reason the loop returned ("none" before it did)
    status,         \* ExecutionCheckpoint.Status on disk
    turn, recoveryTurns, replaying, settingsRetakes,
    force,          \* this iteration withholds the tools (forceAnswer)
    allowance,      \* retryAllowance: retries left, or Unset (nil)
    emptyReissues, emptyContinuations, firstTokenReissues,
    stallContinues, attemptRestarts, restartForceAnswer,
    ladder,         \* stallRetry.retries
    limitWait,      \* the ledger, in waits
    loopNudges, blockedRounds,
    quarantine,     \* some call is quarantined
    stopBlocks,
    visible,        \* turnHadVisibleText
    recovering,     \* the checkpoint said the previous execution was cut
    repeats,        \* ExecutionCheckpoint.Repeats
    todo,           \* calls of the answer the loop has not come to
    executed, held, \* executedThisRound, quarantinedThisRound
    queue, typed,   \* follow-ups waiting, follow-ups ever queued
    stale,          \* the settings moved since the transport was built
    ctxDone, userStop,
    open,           \* history: calls announced in the transcript with no result
    unread,         \* history: a user message no request has carried
    cut,            \* history: a cut answer whose continuation was not asked for
    changed,        \* history: the slice differs from the last request
    shown,          \* history: what the last call put before the user (Sights; not
                    \* kept for a call that ends the turn, which none follows)
    steps,          \* history: answers that were a step of the model's own
    silent,         \* history: attempts since the step last earned retries
    corrected       \* history: a request carried the loop correction

loopVars   == <<turn, recoveryTurns, replaying, settingsRetakes, force>>
retryVars  == <<allowance, emptyReissues, emptyContinuations, firstTokenReissues>>
contVars   == <<stallContinues, attemptRestarts, restartForceAnswer>>
waitVars   == <<ladder, limitWait>>
guardVars  == <<loopNudges, blockedRounds, quarantine>>
endVars    == <<stopBlocks, visible>>
checkVars  == <<recovering, repeats>>
batchVars  == <<todo, executed, held>>
opVars     == <<queue, typed, stale, ctxDone, userStop>>
sliceVars  == <<unread, cut, changed>>
tallyVars  == <<shown, steps, silent, corrected>>
vars == <<pc, stop, status, loopVars, retryVars, contVars, waitVars, guardVars, endVars,
          checkVars, batchVars, opVars, open, sliceVars, tallyVars>>

\* Rows of calls alone, the reasoning of an answer with neither text nor calls,
\* or anything else: text, calls that arrived, reasoning of a stream cut midway.
Sights == {"nothing", "rows", "thought", "answer"}

Unset == RetryMax + 1
MaxEmptyReissues == 1           \* maxEmptyAssistantReissues
MaxEmptyContinuations == 2      \* maxEmptyAssistantContinuations
MaxFirstTokenReissues == 1
MaxSettingsRetakes == 3

reactTurn == turn - recoveryTurns
Stopped == ctxDone \/ userStop

(***************************************************************************)
(* Entry: the checkpoint of the previous execution decides whether this    *)
(* one recovers, and its window of observations is carried over.           *)
(***************************************************************************)
Init ==
    /\ pc = "top" /\ stop = "none" /\ status = "running"
    /\ turn = 0 /\ recoveryTurns = 0 /\ replaying = FALSE /\ settingsRetakes = 0 /\ force = FALSE
    /\ allowance = Unset /\ emptyReissues = 0 /\ emptyContinuations = 0 /\ firstTokenReissues = 0
    /\ stallContinues = 0 /\ attemptRestarts = 0 /\ restartForceAnswer = FALSE
    /\ ladder = 0 /\ limitWait = 0
    /\ loopNudges = 0 /\ blockedRounds = 0 /\ quarantine = FALSE
    /\ stopBlocks = 0 /\ visible = FALSE
    /\ recovering \in BOOLEAN /\ repeats \in Windows
    /\ todo = 0 /\ executed = 0 /\ held = 0
    /\ queue = 0 /\ typed = 0 /\ stale = FALSE /\ ctxDone = FALSE /\ userStop = FALSE
    /\ open = 0 /\ unread = TRUE /\ cut = FALSE /\ changed = TRUE
    /\ shown = "nothing" /\ steps = 0 /\ silent = 0 /\ corrected = FALSE

\* The deferred update of the checkpoint: what the next turn reads.
FinalStatus(reason, failed) ==
    IF status = "no_progress" THEN status
    ELSE IF userStop THEN "cancelled"
    ELSE IF failed \/ reason = "cancelled" THEN "interrupted"
    ELSE IF reason = "max_turns" THEN "max_turns"
    ELSE "completed"

Finish(reason) ==
    /\ pc' = "done" /\ stop' = reason
    /\ status' = FinalStatus(reason, reason = "refused")
    /\ UNCHANGED loopVars

\* The three ways back to the for statement.  A plain continue costs a
\* step; a recovery is paid back; a repeated iteration is not counted at all.
Continue ==
    /\ pc' = "top" /\ turn' = turn + 1
    /\ UNCHANGED <<stop, status, recoveryTurns, replaying, settingsRetakes, force>>
\* Mutant: the recovery is charged to the model's steps.
RecoverCharged(asReplay) ==
    /\ pc' = "top" /\ turn' = turn + 1 /\ replaying' = asReplay
    /\ UNCHANGED <<stop, status, recoveryTurns, settingsRetakes, force>>
Recover(asReplay) ==
    /\ pc' = "top" /\ turn' = turn + 1 /\ recoveryTurns' = recoveryTurns + 1
    /\ replaying' = asReplay
    /\ UNCHANGED <<stop, status, settingsRetakes, force>>
RepeatIteration ==
    /\ pc' = "top" /\ replaying' = TRUE
    /\ UNCHANGED <<stop, status, turn, recoveryTurns, settingsRetakes, force>>

ResetRetries ==
    /\ allowance' = Unset
    /\ emptyReissues' = 0 /\ emptyContinuations' = 0 /\ firstTokenReissues' = 0

\* A message enters the transcript and the slice the next request is built
\* from; a nudge only the slice.
UserMessage == unread' = TRUE /\ changed' = TRUE
Nudge == changed' = TRUE /\ UNCHANGED unread

\* Mutant: the skipped calls get no result.
RecordSkippedSilently(u, n) == u

\* recordSkippedToolCalls: a result for each of n calls of the u without one.
RecordSkipped(u, n) == u - n

-----------------------------------------------------------------------------
(* The top of the loop, up to the request.                                 *)

\* The for statement and the first lines of its body: the step limit, the
\* stop, the tools-free escalation and the follow-ups.
StepLimit ==
    /\ pc = "top" /\ reactTurn >= MaxTurns
    /\ Finish("max_turns")
    /\ UNCHANGED <<retryVars, contVars, waitVars, guardVars, endVars, checkVars, batchVars, opVars,
                   open, sliceVars, tallyVars>>

CancelledAtTop ==
    /\ pc = "top" /\ reactTurn < MaxTurns /\ ctxDone
    /\ Finish("cancelled")
    /\ UNCHANGED <<retryVars, contVars, waitVars, guardVars, endVars, checkVars, batchVars, opVars,
                   open, sliceVars, tallyVars>>

BeginIteration ==
    /\ pc = "top" /\ reactTurn < MaxTurns /\ ~ctxDone
    /\ pc' = "prepare"
    /\ force' = (blockedRounds >= BlockedBeforeAnswer \/ restartForceAnswer)
    /\ replaying' = FALSE
    /\ stale' = FALSE
    /\ IF ~replaying /\ queue > 0
       THEN /\ queue' = 0 /\ UserMessage /\ ResetRetries /\ silent' = 0
       ELSE UNCHANGED <<queue, unread, changed, retryVars, silent>>
    /\ UNCHANGED <<stop, status, turn, recoveryTurns, settingsRetakes, contVars, waitVars, guardVars,
                   endVars, checkVars, batchVars, typed, ctxDone, userStop, open, cut,
                   shown, steps, corrected>>

\* Mutant: a retake is not counted.
RetakeUncounted ==
    /\ pc = "prepare" /\ stale /\ settingsRetakes < MaxSettingsRetakes
    /\ pc' = "top"
    /\ UNCHANGED <<stop, status, loopVars, retryVars, contVars, waitVars,
                   guardVars, endVars, checkVars, batchVars, opVars, open, sliceVars, tallyVars>>

\* The settings moved while this step waited for a window or compacted: the
\* step is taken again from its top, a bounded number of times.
Retake ==
    /\ pc = "prepare" /\ stale /\ settingsRetakes < MaxSettingsRetakes
    /\ settingsRetakes' = settingsRetakes + 1
    /\ pc' = "top"
    /\ UNCHANGED <<stop, status, turn, recoveryTurns, replaying, force, retryVars, contVars, waitVars,
                   guardVars, endVars, checkVars, batchVars, opVars, open, sliceVars, tallyVars>>

SendRequest ==
    /\ pc = "prepare" /\ (stale => settingsRetakes >= MaxSettingsRetakes)
    /\ pc' = "calling" /\ settingsRetakes' = 0
    /\ allowance' = IF allowance = Unset THEN RetryMax ELSE allowance
    /\ restartForceAnswer' = FALSE
    /\ blockedRounds' = IF force THEN 0 ELSE blockedRounds
    /\ unread' = FALSE /\ cut' = FALSE /\ changed' = FALSE /\ shown' = "nothing"
    /\ silent' = silent + 1
    /\ corrected' = (corrected \/ repeats >= 2)
    /\ force' = FALSE
    /\ UNCHANGED <<stop, status, turn, recoveryTurns, replaying, emptyReissues,
                   emptyContinuations, firstTokenReissues, stallContinues, attemptRestarts, waitVars,
                   loopNudges, quarantine, endVars, checkVars, batchVars, opVars, open, steps>>

\* The resilient wrapper's own attempts draw on the same allowance, and only
\* while nothing of the answer has reached the caller; a call that is only
\* named does not count as such, though its row is shown.
WrapperRetries ==
    /\ pc = "calling" /\ allowance > 0 /\ ~ctxDone
    /\ allowance' = allowance - 1
    /\ silent' = silent + 1 /\ shown' \in {shown, "rows"}
    /\ UNCHANGED <<pc, stop, status, loopVars, emptyReissues, emptyContinuations, firstTokenReissues,
                   contVars, waitVars, guardVars, endVars, checkVars, batchVars, opVars, open, sliceVars,
                   steps, corrected>>

-----------------------------------------------------------------------------
(* What came back of the request.  The branches are taken in this order.   *)

\* The loop guard cut a degenerating stream: what is useful of it is kept,
\* the n complete calls in it are answered without running, and the model is
\* nudged or the turn refused.
LoopGuardCut(n) ==
    /\ pc = "calling" /\ ~Stopped
    /\ open' = RecordSkipped(open + n, n)
    /\ visible' \in {visible, TRUE} /\ shown' = "answer" /\ silent' = 0
    /\ \/ /\ loopNudges >= NudgeMax
          /\ Finish("refused")
          /\ UNCHANGED <<loopNudges, retryVars, sliceVars, steps>>
       \/ /\ loopNudges < NudgeMax
          /\ loopNudges' = loopNudges + 1
          /\ Nudge /\ ResetRetries /\ Continue
          /\ steps' = steps + 1
          /\ UNCHANGED cut
    /\ UNCHANGED <<contVars, waitVars, blockedRounds, quarantine, stopBlocks, checkVars, batchVars,
                   opVars, corrected>>

\* The stream stalled or the provider failed after output was shown.  What
\* arrived is kept without its calls (kept: there was text or reasoning to
\* keep; a stall with nothing to keep is no continuation) and the model asked
\* to carry on, one budget for both.
CarryOn(kept, repeated) ==
    /\ pc = "calling" /\ ~Stopped /\ stallContinues < ContinueMax
    /\ repeated => stallContinues > 0
    /\ stallContinues' = stallContinues + 1
    /\ attemptRestarts' = attemptRestarts + (IF repeated THEN 1 ELSE 0)
    /\ restartForceAnswer' = (repeated /\ attemptRestarts + 1 >= RestartsBeforeAnswer)
    /\ allowance' = Unset
    /\ pc' = "pausing" /\ recoveryTurns' = recoveryTurns + 1
    /\ cut' = kept /\ Nudge
    /\ visible' \in {visible, TRUE} /\ shown' = "answer" /\ silent' = 0
    /\ UNCHANGED <<stop, status, turn, replaying, settingsRetakes, force, emptyReissues,
                   emptyContinuations, firstTokenReissues, waitVars, guardVars, stopBlocks, checkVars,
                   batchVars, opVars, open, steps, corrected>>

PauseEnds ==
    /\ pc = "pausing" /\ ~ctxDone
    /\ pc' = "top" /\ turn' = turn + 1 /\ replaying' = TRUE
    /\ UNCHANGED <<stop, status, recoveryTurns, settingsRetakes, force, retryVars, contVars, waitVars,
                   guardVars, endVars, checkVars, batchVars, opVars, open, sliceVars, tallyVars>>

PauseCut ==
    /\ pc = "pausing" /\ ctxDone
    /\ Finish(IF userStop THEN "cancelled" ELSE "refused")
    /\ UNCHANGED <<retryVars, contVars, waitVars, guardVars, endVars, checkVars, batchVars, opVars,
                   open, sliceVars, tallyVars>>

\* hasAnyOutput is false: neither text nor reasoning came, and no response.
\* The rows of calls that streamed in are not looked at.  The silent-start
\* guard or the stall guard cut the call: one replay at once, the next ones
\* after the ladder's pauses, all of them out of the step's allowance.
ReissueAtOnce ==
    /\ pc = "calling" /\ ~Stopped
    /\ LadderMax > 0 /\ firstTokenReissues < MaxFirstTokenReissues /\ allowance > 0
    /\ allowance' = allowance - 1
    /\ firstTokenReissues' = firstTokenReissues + 1
    /\ shown' \in {shown, "rows"}
    /\ Recover(TRUE)
    /\ UNCHANGED <<emptyReissues, emptyContinuations, contVars, waitVars, guardVars, endVars, checkVars,
                   batchVars, opVars, open, sliceVars, steps, silent, corrected>>

\* Mutant: output is judged by the response alone, which a broken stream does
\* not return, so deltas the user saw do not stop the replay.
WaitForProviderBlind ==
    /\ pc = "calling" /\ ~Stopped /\ allowance > 0 /\ ladder < LadderMax
    /\ allowance' = allowance - 1 /\ ladder' = ladder + 1
    /\ pc' = "waiting" /\ shown' \in {shown, "rows", "answer"}
    /\ UNCHANGED <<stop, status, loopVars, emptyReissues, emptyContinuations, firstTokenReissues,
                   contVars, limitWait, guardVars, endVars, checkVars, batchVars, opVars, open,
                   sliceVars, steps, silent, corrected>>

\* The same pause follows a retryable error with no text and no reasoning
\* before it: a transport that broke after a call had streamed in is one.
WaitForProvider ==
    /\ pc = "calling" /\ ~Stopped /\ allowance > 0 /\ ladder < LadderMax
    /\ allowance' = allowance - 1 /\ ladder' = ladder + 1
    /\ pc' = "waiting" /\ shown' \in {shown, "rows"}
    /\ UNCHANGED <<stop, status, loopVars, emptyReissues, emptyContinuations, firstTokenReissues,
                   contVars, limitWait, guardVars, endVars, checkVars, batchVars, opVars, open,
                   sliceVars, steps, silent, corrected>>

WaitEnds ==
    /\ pc = "waiting"
    /\ IF Stopped THEN Finish("cancelled") ELSE Recover(TRUE)
    /\ UNCHANGED <<retryVars, contVars, waitVars, guardVars, endVars, checkVars, batchVars, opVars,
                   open, sliceVars, tallyVars>>

\* A usage limit with a reset that fits what is left of the turn's maximum
\* and nothing streamed but the names of the wrapper's earlier attempts: the
\* same call runs again, uncounted.
WaitForLimit ==
    /\ pc = "calling" /\ limitWait < LimitMax
    /\ limitWait' = limitWait + 1
    /\ pc' = "limited"
    /\ UNCHANGED <<stop, status, loopVars, retryVars, contVars, ladder, guardVars, endVars, checkVars,
                   batchVars, opVars, open, sliceVars, tallyVars>>

LimitLifts ==
    /\ pc = "limited" /\ ~ctxDone
    /\ RepeatIteration /\ ResetRetries /\ silent' = 0
    /\ UNCHANGED <<contVars, waitVars, guardVars, endVars, checkVars, batchVars, opVars, open,
                   sliceVars, shown, steps, corrected>>

LimitCut ==
    /\ pc = "limited" /\ ctxDone
    /\ Finish(IF userStop THEN "cancelled" ELSE "refused")
    /\ UNCHANGED <<retryVars, contVars, waitVars, guardVars, endVars, checkVars, batchVars, opVars,
                   open, sliceVars, tallyVars>>

\* The call was cancelled: what was shown of it is kept, its complete calls
\* answered without running.
CallCancelled(output, n) ==
    /\ pc = "calling" /\ Stopped /\ (n > 0 => output)
    /\ open' = RecordSkipped(open + n, n)
    /\ Finish(IF output \/ userStop THEN "cancelled" ELSE "refused")
    /\ UNCHANGED <<retryVars, contVars, waitVars, guardVars, endVars, checkVars, batchVars, opVars,
                   sliceVars, tallyVars>>

\* Every failure the loop does not recover from: a refusal, an exhausted
\* budget, a cut with nothing to carry on from.
CallFails(n) ==
    /\ pc = "calling"
    /\ open' = RecordSkipped(open + n, n)
    /\ Finish("refused")
    /\ UNCHANGED <<retryVars, contVars, waitVars, guardVars, endVars, checkVars, batchVars, opVars,
                   sliceVars, tallyVars>>

\* An answer without text that was cut by the output limit, or that came
\* after a stop.
EmptyEnds ==
    /\ pc = "calling"
    /\ Finish("max_tokens") \/ (Stopped /\ Finish("cancelled"))
    /\ UNCHANGED <<retryVars, contVars, waitVars, guardVars, endVars, checkVars, batchVars, opVars,
                   open, sliceVars, tallyVars>>

\* An answer with neither text nor calls: replayed once as it was, then with
\* a nudge, out of the same allowance; with visible text behind it, it ends
\* the turn like any answer, and else refuses it.
EmptyReplayed ==
    /\ pc = "calling" /\ ~Stopped /\ emptyReissues < MaxEmptyReissues /\ allowance > 0
    /\ emptyReissues' = emptyReissues + 1 /\ allowance' = allowance - 1
    /\ shown' \in {shown, "thought"}
    /\ Recover(TRUE)
    /\ UNCHANGED <<emptyContinuations, firstTokenReissues, contVars, waitVars, guardVars, endVars,
                   checkVars, batchVars, opVars, open, sliceVars, steps, silent, corrected>>

EmptyNudged ==
    /\ pc = "calling" /\ ~Stopped /\ emptyReissues >= MaxEmptyReissues
    /\ emptyContinuations < MaxEmptyContinuations /\ allowance > 0
    /\ emptyContinuations' = emptyContinuations + 1 /\ allowance' = allowance - 1
    /\ shown' \in {shown, "thought"}
    /\ Recover(FALSE) /\ Nudge
    /\ UNCHANGED <<emptyReissues, firstTokenReissues, contVars, waitVars, guardVars, endVars, checkVars,
                   batchVars, opVars, open, cut, steps, silent, corrected>>

EmptyGivenUp ==
    /\ pc = "calling" /\ ~Stopped
    /\ \/ allowance = 0
       \/ (emptyReissues >= MaxEmptyReissues /\ emptyContinuations >= MaxEmptyContinuations)
    /\ IF visible THEN pc' = "ending" /\ UNCHANGED <<stop, status, loopVars>> ELSE Finish("refused")
    /\ shown' \in {shown, "thought"} /\ changed' = TRUE
    /\ UNCHANGED <<retryVars, contVars, waitVars, guardVars, endVars, checkVars, batchVars, opVars,
                   open, unread, cut, steps, silent, corrected>>

\* ExecutionCheckpoint.Observe: an observation already in the window counts,
\* a new one starts over.
Observe(seen) == repeats' = IF seen THEN repeats + 1 ELSE 0

\* An answer with text.  A recovering turn first asks whether it has heard it
\* before; the limit of the answer and a stop come before the end of turn.
TextAnswer(seen) ==
    /\ pc = "calling"
    /\ visible' = TRUE /\ shown' = "answer" /\ silent' = 0 /\ changed' = TRUE
    /\ IF recovering THEN Observe(seen) ELSE UNCHANGED repeats
    /\ \/ /\ recovering /\ repeats' >= 3
          /\ pc' = "done" /\ stop' = "refused" /\ status' = "no_progress"
          /\ UNCHANGED <<loopVars, steps>>
       \/ /\ recovering /\ repeats' = 2
          /\ Continue /\ steps' = steps + 1
       \/ /\ recovering => repeats' < 2
          /\ \/ Finish("max_tokens")
             \/ Stopped /\ Finish("cancelled")
             \/ ~Stopped /\ pc' = "ending" /\ UNCHANGED <<stop, status, loopVars>>
          /\ UNCHANGED steps
    /\ UNCHANGED <<retryVars, contVars, waitVars, guardVars, stopBlocks, recovering, batchVars, opVars,
                   open, unread, cut, corrected>>

\* An answer that asks for n calls.
CallsAnswer(n) ==
    /\ pc = "calling" /\ n > 0
    /\ pc' = "tools" /\ open' = open + n
    /\ todo' = n /\ executed' = 0 /\ held' = 0
    /\ visible' \in {visible, TRUE} /\ shown' = "answer" /\ silent' = 0 /\ changed' = TRUE
    /\ UNCHANGED <<stop, status, loopVars, retryVars, contVars, waitVars, guardVars, stopBlocks,
                   checkVars, opVars, unread, cut, steps, corrected>>

-----------------------------------------------------------------------------
(* The end of a turn with an answer.                                       *)

\* Mutant: the queue is read on the last step too.
ReadAtEndAlways ==
    /\ pc = "ending" /\ queue > 0
    /\ queue' = 0
    /\ UserMessage /\ ResetRetries /\ Continue
    /\ steps' = steps + 1 /\ silent' = 0
    /\ UNCHANGED <<contVars, waitVars, guardVars, endVars, checkVars, batchVars, typed, stale, ctxDone,
                   userStop, open, cut, shown, corrected>>

\* A Stop hook sends the agent back to work, within its limit and only when
\* an iteration is left to read the follow-up in.
HookContinues ==
    /\ pc = "ending" /\ stopBlocks < StopLimit /\ reactTurn + 1 < MaxTurns
    /\ stopBlocks' = stopBlocks + 1
    /\ UserMessage /\ ResetRetries /\ Continue
    /\ steps' = steps + 1 /\ silent' = 0
    /\ UNCHANGED <<contVars, waitVars, guardVars, visible, checkVars, batchVars, opVars, open, cut,
                   shown, corrected>>

ReadAtEnd ==
    /\ pc = "ending" /\ reactTurn + 1 < MaxTurns /\ queue > 0
    /\ queue' = 0
    /\ UserMessage /\ ResetRetries /\ Continue
    /\ steps' = steps + 1 /\ silent' = 0
    /\ UNCHANGED <<contVars, waitVars, guardVars, endVars, checkVars, batchVars, typed, stale, ctxDone,
                   userStop, open, cut, shown, corrected>>

\* No follow-up to read, none that can be, or a hook past its limit.
EndTurn ==
    /\ pc = "ending"
    /\ queue = 0 \/ reactTurn + 1 >= MaxTurns \/ stopBlocks >= StopLimit
    /\ Finish("end_turn")
    /\ UNCHANGED <<retryVars, contVars, waitVars, guardVars, endVars, checkVars, batchVars, opVars,
                   open, sliceVars, tallyVars>>

-----------------------------------------------------------------------------
(* The calls of an answer.                                                 *)

\* A cancelled turn runs no further call and answers the rest.
BatchCancelled ==
    /\ pc = "tools" /\ todo > 0 /\ ctxDone
    /\ open' = RecordSkipped(open, todo) /\ todo' = 0
    /\ Finish("cancelled")
    /\ UNCHANGED <<retryVars, contVars, waitVars, guardVars, endVars, checkVars, executed, held, opVars,
                   sliceVars, tallyVars>>

\* The call runs (a cancelled run has a result too).
CallRuns ==
    /\ pc = "tools" /\ todo > 0 /\ ~ctxDone
    /\ todo' = todo - 1 /\ open' = open - 1 /\ executed' = executed + 1
    /\ UNCHANGED <<pc, stop, status, loopVars, retryVars, contVars, waitVars, guardVars, endVars,
                   checkVars, held, opVars, sliceVars, tallyVars>>

\* The detectors saw the call before: it is answered with a nudge while the
\* nudges last; then the whole batch is (and the turn ends), or the call is
\* quarantined, a content tool running one last time.
CallNudged ==
    /\ pc = "tools" /\ todo > 0 /\ ~ctxDone /\ loopNudges < NudgeMax
    /\ loopNudges' = loopNudges + 1
    /\ todo' = todo - 1 /\ open' = RecordSkipped(open, 1)
    /\ UNCHANGED <<pc, stop, status, loopVars, retryVars, contVars, waitVars, blockedRounds, quarantine,
                   endVars, checkVars, executed, held, opVars, sliceVars, tallyVars>>

StuckStop ==
    /\ pc = "tools" /\ todo > 0 /\ ~ctxDone /\ loopNudges >= NudgeMax /\ "stop" \in StuckActions
    /\ open' = RecordSkipped(open, todo) /\ todo' = 0
    /\ Finish("refused")
    /\ UNCHANGED <<retryVars, contVars, waitVars, guardVars, endVars, checkVars, executed, held, opVars,
                   sliceVars, tallyVars>>

CallQuarantined(runOnce) ==
    /\ pc = "tools" /\ todo > 0 /\ ~ctxDone
    /\ quarantine \/ (loopNudges >= NudgeMax /\ "quarantine" \in StuckActions)
    /\ runOnce => loopNudges >= NudgeMax /\ "quarantine" \in StuckActions
    /\ quarantine' = TRUE
    /\ todo' = todo - 1 /\ open' = RecordSkipped(open, 1)
    /\ IF runOnce THEN executed' = executed + 1 /\ UNCHANGED held
                  ELSE held' = held + 1 /\ UNCHANGED executed
    /\ UNCHANGED <<pc, stop, status, loopVars, retryVars, contVars, waitVars, loopNudges, blockedRounds,
                   endVars, checkVars, opVars, sliceVars, tallyVars>>

\* The batch is answered: a recovering turn that learns nothing new stops,
\* any other takes the next step with its retries renewed.
EndRound(seen) ==
    /\ pc = "tools" /\ todo = 0
    /\ Observe(seen)
    /\ \/ /\ recovering /\ repeats' >= 3
          /\ pc' = "done" /\ stop' = "refused" /\ status' = "no_progress"
          /\ UNCHANGED <<loopVars, retryVars, blockedRounds, steps>>
       \/ /\ recovering => repeats' < 3
          /\ blockedRounds' = IF held > 0 /\ executed = 0 THEN blockedRounds + 1 ELSE 0
          /\ ResetRetries /\ Continue
          /\ steps' = steps + 1
    /\ executed' = 0 /\ held' = 0
    /\ UNCHANGED <<contVars, waitVars, loopNudges, quarantine, endVars, recovering, todo, opVars,
                   open, sliceVars, shown, silent, corrected>>

\* The checkpoint of an answer or a round could not be written.
SaveFails ==
    /\ pc = "tools" /\ todo = 0
    /\ Finish("refused")
    /\ UNCHANGED <<retryVars, contVars, waitVars, guardVars, endVars, checkVars, batchVars, opVars,
                   open, sliceVars, tallyVars>>

-----------------------------------------------------------------------------
(* Beside the loop.                                                        *)

TypeFollowUp ==
    /\ pc # "done" /\ typed < MaxQueued
    /\ queue' = queue + 1 /\ typed' = typed + 1
    /\ UNCHANGED <<stale, ctxDone, userStop>>
\* A move at any other place is taken up by the next BeginIteration.
MoveSettings == pc = "prepare" /\ stale' = TRUE /\ UNCHANGED <<queue, typed, ctxDone, userStop>>
PressStop == pc # "done" /\ userStop' = TRUE /\ UNCHANGED <<queue, typed, stale, ctxDone>>
ContextEnds == pc # "done" /\ ctxDone' = TRUE /\ UNCHANGED <<queue, typed, stale, userStop>>
Operator ==
    /\ TypeFollowUp \/ MoveSettings \/ PressStop \/ ContextEnds
    /\ UNCHANGED <<pc, stop, status, loopVars, retryVars, contVars, waitVars, guardVars, endVars,
                   checkVars, batchVars, open, sliceVars, tallyVars>>

Calls == 0 .. MaxBatch
Returns ==
    \/ \E n \in Calls : LoopGuardCut(n) \/ CallFails(n) \/ CallsAnswer(n)
    \/ \E output \in BOOLEAN, n \in Calls : CallCancelled(output, n)
    \/ \E kept, repeated \in BOOLEAN : CarryOn(kept, repeated)
    \/ ReissueAtOnce \/ WaitForProvider \/ WaitForLimit
    \/ EmptyEnds \/ EmptyReplayed \/ EmptyNudged \/ EmptyGivenUp
    \/ \E seen \in BOOLEAN : TextAnswer(seen)
Advance ==
    \/ StepLimit \/ CancelledAtTop \/ BeginIteration \/ Retake \/ SendRequest
    \/ PauseEnds \/ PauseCut \/ WaitEnds \/ LimitLifts \/ LimitCut
    \/ HookContinues \/ ReadAtEnd \/ EndTurn
    \/ BatchCancelled \/ CallRuns \/ CallNudged \/ StuckStop
    \/ \E runOnce \in BOOLEAN : CallQuarantined(runOnce)
    \/ \E seen \in BOOLEAN : EndRound(seen)
    \/ SaveFails
Next == Returns \/ Advance \/ WrapperRetries \/ Operator

\* The loop's goroutine runs on, every pause is a timer, a tool call returns,
\* and a request does too: the silent-start and idle guards, the provider's
\* own timeout and the turn's context bound it.
Spec == Init /\ [][Next]_vars /\ WF_vars(Advance) /\ WF_vars(Returns)

-----------------------------------------------------------------------------
Stops == {"none", "end_turn", "max_turns", "max_tokens", "cancelled", "refused"}
Statuses == {"running", "completed", "cancelled", "interrupted", "max_turns", "no_progress"}
Places == {"top", "prepare", "calling", "pausing", "waiting", "limited", "ending", "tools", "done"}

\* Where the loop stands, what it returned, what it left on disk.
PlacesTyped == pc \in Places /\ stop \in Stops /\ status \in Statuses

CountersTyped ==
    /\ turn \in Nat /\ recoveryTurns \in Nat /\ settingsRetakes \in 0 .. MaxSettingsRetakes
    /\ allowance \in 0 .. Unset /\ emptyReissues \in 0 .. MaxEmptyReissues
    /\ emptyContinuations \in 0 .. MaxEmptyContinuations
    /\ firstTokenReissues \in 0 .. MaxFirstTokenReissues
    /\ stallContinues \in 0 .. ContinueMax /\ attemptRestarts \in 0 .. stallContinues
    /\ ladder \in 0 .. LadderMax /\ limitWait \in 0 .. LimitMax
    /\ loopNudges \in 0 .. NudgeMax /\ blockedRounds \in Nat /\ stopBlocks \in 0 .. StopLimit
    /\ repeats \in Nat /\ todo \in 0 .. MaxBatch /\ executed \in Nat /\ held \in Nat
    /\ queue \in 0 .. MaxQueued /\ typed \in 0 .. MaxQueued /\ queue <= typed
    /\ open \in Nat /\ steps \in Nat /\ silent \in Nat

FlagsTyped ==
    /\ replaying \in BOOLEAN /\ force \in BOOLEAN /\ restartForceAnswer \in BOOLEAN
    /\ quarantine \in BOOLEAN /\ visible \in BOOLEAN /\ recovering \in BOOLEAN
    /\ stale \in BOOLEAN /\ ctxDone \in BOOLEAN /\ userStop \in BOOLEAN
    /\ unread \in BOOLEAN /\ cut \in BOOLEAN /\ changed \in BOOLEAN
    /\ shown \in Sights /\ corrected \in BOOLEAN

\* Every variable keeps its type (runReActLoop's locals, the checkpoint) and
\* every budget its limit, and no follow-up is read that was not queued.
TypeOK == PlacesTyped /\ CountersTyped /\ FlagsTyped

\* A request never leaves, and a turn never ends, with an announced call that
\* has no result: in the tools the loop owes exactly the calls it has not come
\* to, everywhere else none - whatever cut the answer, the batch or the turn.
ResultsOwed == open = IF pc = "tools" THEN todo ELSE 0

\* A turn that stops at its step limit had every one of its steps: each was
\* an answer of the model's own, no recovery was charged as one.
LimitIsEarned == stop = "max_turns" => steps = MaxTurns

\* No follow-up is left hanging: a turn that ends of itself has sent every
\* user message it took into the transcript, the operator's and the hooks'.
FollowUpsAnswered == stop \in {"end_turn", "max_turns", "max_tokens"} => ~unread

\* One step makes at most 1 + llm_retry_max attempts without an answer, the
\* wrapper's, the replays of a silent call and of an empty answer together.
UnansweredBounded == silent <= 1 + RetryMax

\* A recovering turn is stopped for repeating itself only after the model was
\* told: a request of this turn carried the loop correction.
StoppedAfterCorrection == status = "no_progress" => corrected

\* What the same request may be asked for twice, and at whose cost: never what
\* an answer put before the user; an empty answer whose reasoning was watched
\* out of the step's one re-issue; rows of calls that never arrived out of the
\* step's retries, or after a wait for a limit.
ReplayIsPaid ==
    /\ shown # "answer"
    /\ shown = "thought" => emptyReissues > 0
    /\ shown = "rows" => allowance < RetryMax \/ limitWait > 0
PaidBeforeReplay == [][pc = "prepare" /\ pc' = "calling" /\ ~changed /\ ~force => ReplayIsPaid]_vars

\* The comment at hasAnyOutput: a call that delivered anything is never sent
\* again as it was.  Refuted by rows and by reasoning.
OutputNotReplayed == [][pc = "prepare" /\ pc' = "calling" => changed \/ force \/ shown = "nothing"]_vars

\* A follow-up comes between a cut answer and the request that carries it on
\* only when the settings moved under that very request.
SplitOnlyByRetake == [][cut /\ queue' < queue => settingsRetakes > 0]_vars

\* The comment at the queue read: a recovery iteration does not read it, so
\* a follow-up never splits a cut answer from its continuation.
CutAnswerNotSplit == [][~(cut /\ queue' < queue)]_vars

\* Every turn ends, however the provider fails, the settings move and the
\* model repeats itself.
TurnEnds == <>(pc = "done")

\* Nothing is told twice and nothing torn: an answer that was shown is not asked for again, what
\* is shown short of one only at the cost of a retry, and a cut answer is split from its
\* continuation only by a change of the settings.
ShownOnce == PaidBeforeReplay /\ SplitOnlyByRetake
=============================================================================
