--------------------------- MODULE ReActLoopProofs ---------------------------
(***************************************************************************)
(* Proofs about a turn of the agent (ReActLoop).  Every property is a      *)
(* state predicate with the same shape of strengthening: what holds at     *)
(* each place of the loop, between the assignment that opens an obligation *)
(* and the one that settles it.                                            *)
(***************************************************************************)
EXTENDS ReActLoop, TLAPS

\* The steps the loop has counted are the answers that were steps of the
\* model's own; a pause is entered with its recovery already paid back.
StepsCounted ==
    /\ turn + (IF pc = "pausing" THEN 1 ELSE 0) = recoveryTurns + steps \/ pc = "done"
    /\ IF pc = "top" THEN steps <= MaxTurns ELSE pc # "done" => steps < MaxTurns

\* What is left of the allowance and what was attempted add up to it.
AllowanceCounted ==
    /\ pc # "done" => (allowance = Unset => silent = 0)
    /\ pc \in {"top", "prepare", "waiting", "pausing"} =>
           (allowance # Unset => silent + allowance <= RetryMax)
    /\ pc \in {"calling", "limited"} => allowance # Unset /\ silent + allowance <= 1 + RetryMax
    /\ pc = "tools" => silent = 0
    /\ silent <= 1 + RetryMax

\* A request built with a window that repeats carried the correction.
CorrectionSent == pc \in {"calling", "tools"} => (repeats >= 2 => corrected)

\* A user message waits for a request only where one is still to come.
UnreadHasAStep ==
    /\ pc # "done" => stop = "none"
    /\ unread => pc \in {"top", "prepare", "done"}
    /\ pc = "top" => (unread => steps < MaxTurns)

\* Between a request and the next the slice was changed, or what was shown is paid for, and a
\* half answer waits where nothing but a retake of the settings lets the queue be read.
AnswersFollowed ==
    /\ pc # "done" => changed \/ ReplayIsPaid
    /\ pc = "calling" => ~changed /\ allowance <= RetryMax
    /\ pc \in {"calling", "limited"} => shown \in {"nothing", "rows"}
    /\ pc = "limited" => limitWait > 0
    /\ pc = "tools" => changed
    /\ cut => pc \in {"pausing", "top", "prepare", "done"}
    /\ pc = "top" => (cut => replaying \/ settingsRetakes > 0)

\* Every action leaves the loop at one of its places, with a stop reason and a
\* checkpoint status of theirs.
LEMMA PlaceStep == PlacesTyped /\ [Next]_vars => PlacesTyped'
<1> SUFFICES ASSUME PlacesTyped, [Next]_vars PROVE PlacesTyped'
    OBVIOUS
<1> USE ReActAssumption DEF PlacesTyped, Places, Stops, Statuses
<1>1. ASSUME NEW n \in Calls, LoopGuardCut(n) PROVE PlacesTyped'
    BY <1>1 DEF LoopGuardCut, RecordSkipped, Finish, FinalStatus, Continue, ResetRetries, Nudge
<1>2. ASSUME NEW n \in Calls, CallFails(n) PROVE PlacesTyped'
    BY <1>2 DEF CallFails, RecordSkipped, Finish, FinalStatus
<1>3. ASSUME NEW n \in Calls, CallsAnswer(n) PROVE PlacesTyped'
    BY <1>3 DEF CallsAnswer
<1>4. ASSUME NEW output \in BOOLEAN, NEW n \in Calls, CallCancelled(output, n) PROVE PlacesTyped'
    BY <1>4 DEF CallCancelled, RecordSkipped, Finish, FinalStatus
<1>5. ASSUME NEW kept \in BOOLEAN, NEW repeated \in BOOLEAN, CarryOn(kept, repeated) PROVE PlacesTyped'
    BY <1>5 DEF CarryOn, Nudge
<1>6. CASE ReissueAtOnce
    BY <1>6 DEF ReissueAtOnce, Recover
<1>7. CASE WaitForProvider
    BY <1>7 DEF WaitForProvider
<1>8. CASE WaitForLimit
    BY <1>8 DEF WaitForLimit
<1>9. CASE EmptyEnds
    BY <1>9 DEF EmptyEnds, Finish, FinalStatus
<1>10. CASE EmptyReplayed
    BY <1>10 DEF EmptyReplayed, Recover
<1>11. CASE EmptyNudged
    BY <1>11 DEF EmptyNudged, Recover, Nudge
<1>12. CASE EmptyGivenUp
    BY <1>12 DEF EmptyGivenUp, Finish, FinalStatus
<1>13. ASSUME NEW seen \in BOOLEAN, TextAnswer(seen) PROVE PlacesTyped'
    BY <1>13 DEF TextAnswer, Finish, FinalStatus, Continue, Observe
<1>14. CASE StepLimit
    BY <1>14 DEF StepLimit, Finish, FinalStatus
<1>15. CASE CancelledAtTop
    BY <1>15 DEF CancelledAtTop, Finish, FinalStatus
<1>16. CASE BeginIteration
    BY <1>16 DEF BeginIteration, ResetRetries, UserMessage
<1>17. CASE Retake
    BY <1>17 DEF Retake
<1>18. CASE SendRequest
    BY <1>18 DEF SendRequest
<1>19. CASE PauseEnds
    BY <1>19 DEF PauseEnds
<1>20. CASE PauseCut
    BY <1>20 DEF PauseCut, Finish, FinalStatus
<1>21. CASE WaitEnds
    BY <1>21 DEF WaitEnds, Finish, FinalStatus, Recover
<1>22. CASE LimitLifts
    BY <1>22 DEF LimitLifts, RepeatIteration, ResetRetries
<1>23. CASE LimitCut
    BY <1>23 DEF LimitCut, Finish, FinalStatus
<1>24. CASE HookContinues
    BY <1>24 DEF HookContinues, UserMessage, ResetRetries, Continue
<1>25. CASE ReadAtEnd
    BY <1>25 DEF ReadAtEnd, UserMessage, ResetRetries, Continue
<1>26. CASE EndTurn
    BY <1>26 DEF EndTurn, Finish, FinalStatus
<1>27. CASE BatchCancelled
    BY <1>27 DEF BatchCancelled, RecordSkipped, Finish, FinalStatus
<1>28. CASE CallRuns
    BY <1>28 DEF CallRuns
<1>29. CASE CallNudged
    BY <1>29 DEF CallNudged, RecordSkipped
<1>30. CASE StuckStop
    BY <1>30 DEF StuckStop, RecordSkipped, Finish, FinalStatus
<1>31. ASSUME NEW runOnce \in BOOLEAN, CallQuarantined(runOnce) PROVE PlacesTyped'
    BY <1>31 DEF CallQuarantined, RecordSkipped
<1>32. ASSUME NEW seen \in BOOLEAN, EndRound(seen) PROVE PlacesTyped'
    BY <1>32 DEF EndRound, Observe, ResetRetries, Continue
<1>33. CASE SaveFails
    BY <1>33 DEF SaveFails, Finish, FinalStatus
<1>34. CASE WrapperRetries
    BY <1>34 DEF WrapperRetries
<1>35. CASE Operator
    BY <1>35 DEF Operator, TypeFollowUp, MoveSettings, PressStop, ContextEnds
<1>36. CASE UNCHANGED vars
    BY <1>36 DEF vars
<1>q. QED
        BY <1>1, <1>2, <1>3, <1>4, <1>5, <1>6, <1>7, <1>8, <1>9, <1>10, <1>11, <1>12, <1>13,
        <1>14, <1>15, <1>16, <1>17, <1>18, <1>19, <1>20, <1>21, <1>22, <1>23, <1>24, <1>25, <1>26,
        <1>27, <1>28, <1>29, <1>30, <1>31, <1>32, <1>33, <1>34, <1>35, <1>36 DEF Next, Returns,
        Advance

\* Every budget keeps its limit, and the calls it announces are settled or left
\* to the batch.
LEMMA CounterStep == CountersTyped /\ ResultsOwed /\ [Next]_vars => (CountersTyped /\
    ResultsOwed)'
<1> SUFFICES ASSUME CountersTyped /\ ResultsOwed, [Next]_vars PROVE (CountersTyped /\
    ResultsOwed)'
    OBVIOUS
<1> USE ReActAssumption DEF CountersTyped, ResultsOwed, Unset, Calls, MaxSettingsRetakes,
    MaxEmptyReissues, MaxEmptyContinuations, MaxFirstTokenReissues, loopVars, retryVars, contVars,
    waitVars, guardVars, endVars, checkVars, batchVars, opVars, sliceVars, tallyVars
<1>1. ASSUME NEW n \in Calls, LoopGuardCut(n) PROVE (CountersTyped /\ ResultsOwed)'
    BY <1>1 DEF LoopGuardCut, RecordSkipped, Finish, Continue, ResetRetries, Nudge
<1>2. ASSUME NEW n \in Calls, CallFails(n) PROVE (CountersTyped /\ ResultsOwed)'
    BY <1>2 DEF CallFails, RecordSkipped, Finish
<1>3. ASSUME NEW n \in Calls, CallsAnswer(n) PROVE (CountersTyped /\ ResultsOwed)'
    BY <1>3 DEF CallsAnswer
<1>4. ASSUME NEW output \in BOOLEAN, NEW n \in Calls, CallCancelled(output, n) PROVE (CountersTyped /\ ResultsOwed)'
    BY <1>4 DEF CallCancelled, RecordSkipped, Finish
<1>5. ASSUME NEW kept \in BOOLEAN, NEW repeated \in BOOLEAN, CarryOn(kept, repeated) PROVE (CountersTyped /\ ResultsOwed)'
    BY <1>5 DEF CarryOn, Nudge
<1>6. CASE ReissueAtOnce
    BY <1>6 DEF ReissueAtOnce, Recover
<1>7. CASE WaitForProvider
    BY <1>7 DEF WaitForProvider
<1>8. CASE WaitForLimit
    BY <1>8 DEF WaitForLimit
<1>9. CASE EmptyEnds
    BY <1>9 DEF EmptyEnds, Finish
<1>10. CASE EmptyReplayed
    BY <1>10 DEF EmptyReplayed, Recover
<1>11. CASE EmptyNudged
    BY <1>11 DEF EmptyNudged, Recover, Nudge
<1>12. CASE EmptyGivenUp
    BY <1>12 DEF EmptyGivenUp, Finish
<1>13. ASSUME NEW seen \in BOOLEAN, TextAnswer(seen) PROVE (CountersTyped /\ ResultsOwed)'
    BY <1>13 DEF TextAnswer, Finish, Continue, Observe
<1>14. CASE StepLimit
    BY <1>14 DEF StepLimit, Finish
<1>15. CASE CancelledAtTop
    BY <1>15 DEF CancelledAtTop, Finish
<1>16. CASE BeginIteration
    BY <1>16 DEF BeginIteration, ResetRetries, UserMessage
<1>17. CASE Retake
    BY <1>17 DEF Retake
<1>18. CASE SendRequest
    BY <1>18 DEF SendRequest
<1>19. CASE PauseEnds
    BY <1>19 DEF PauseEnds
<1>20. CASE PauseCut
    BY <1>20 DEF PauseCut, Finish
<1>21. CASE WaitEnds
    BY <1>21 DEF WaitEnds, Finish, Recover
<1>22. CASE LimitLifts
    BY <1>22 DEF LimitLifts, RepeatIteration, ResetRetries
<1>23. CASE LimitCut
    BY <1>23 DEF LimitCut, Finish
<1>24. CASE HookContinues
    BY <1>24 DEF HookContinues, UserMessage, ResetRetries, Continue
<1>25. CASE ReadAtEnd
    BY <1>25 DEF ReadAtEnd, UserMessage, ResetRetries, Continue
<1>26. CASE EndTurn
    BY <1>26 DEF EndTurn, Finish
<1>27. CASE BatchCancelled
    BY <1>27 DEF BatchCancelled, RecordSkipped, Finish
<1>28. CASE CallRuns
    BY <1>28 DEF CallRuns
<1>29. CASE CallNudged
    BY <1>29 DEF CallNudged, RecordSkipped
<1>30. CASE StuckStop
    BY <1>30 DEF StuckStop, RecordSkipped, Finish
<1>31. ASSUME NEW runOnce \in BOOLEAN, CallQuarantined(runOnce) PROVE (CountersTyped /\ ResultsOwed)'
    BY <1>31 DEF CallQuarantined, RecordSkipped
<1>32. ASSUME NEW seen \in BOOLEAN, EndRound(seen) PROVE (CountersTyped /\ ResultsOwed)'
    BY <1>32 DEF EndRound, Observe, ResetRetries, Continue
<1>33. CASE SaveFails
    BY <1>33 DEF SaveFails, Finish
<1>34. CASE WrapperRetries
    BY <1>34 DEF WrapperRetries
<1>35. CASE Operator
    BY <1>35 DEF Operator, TypeFollowUp, MoveSettings, PressStop, ContextEnds
<1>36. CASE UNCHANGED vars
    BY <1>36 DEF vars
<1>q. QED
        BY <1>1, <1>2, <1>3, <1>4, <1>5, <1>6, <1>7, <1>8, <1>9, <1>10, <1>11, <1>12, <1>13,
        <1>14, <1>15, <1>16, <1>17, <1>18, <1>19, <1>20, <1>21, <1>22, <1>23, <1>24, <1>25, <1>26,
        <1>27, <1>28, <1>29, <1>30, <1>31, <1>32, <1>33, <1>34, <1>35, <1>36 DEF Next, Returns,
        Advance

\* Every flag keeps its type.
LEMMA FlagStep == FlagsTyped /\ [Next]_vars => FlagsTyped'
<1> SUFFICES ASSUME FlagsTyped, [Next]_vars PROVE FlagsTyped'
    OBVIOUS
<1> USE ReActAssumption DEF FlagsTyped, Sights, loopVars, retryVars, contVars, waitVars, guardVars,
    endVars, checkVars, batchVars, opVars, sliceVars, tallyVars
<1>1. ASSUME NEW n \in Calls, LoopGuardCut(n) PROVE FlagsTyped'
  <2>1. visible' \in BOOLEAN /\ shown' \in Sights
    BY <1>1 DEF LoopGuardCut
  <2>2. UNCHANGED <<replaying, force>>
    BY <1>1 DEF LoopGuardCut, Finish, Continue
  <2>3. unread' \in BOOLEAN /\ cut' \in BOOLEAN /\ changed' \in BOOLEAN
    BY <1>1 DEF LoopGuardCut, Nudge
  <2>4. UNCHANGED <<restartForceAnswer, quarantine, recovering, stale, ctxDone, userStop, corrected>>
    BY <1>1 DEF LoopGuardCut
  <2>. QED BY <2>1, <2>2, <2>3, <2>4
<1>2. ASSUME NEW n \in Calls, CallFails(n) PROVE FlagsTyped'
    BY <1>2 DEF CallFails, RecordSkipped, Finish
<1>3. ASSUME NEW n \in Calls, CallsAnswer(n) PROVE FlagsTyped'
    BY <1>3, ZenonT(30) DEF CallsAnswer
<1>4. ASSUME NEW output \in BOOLEAN, NEW n \in Calls, CallCancelled(output, n) PROVE FlagsTyped'
    BY <1>4 DEF CallCancelled, RecordSkipped, Finish
<1>5. ASSUME NEW kept \in BOOLEAN, NEW repeated \in BOOLEAN, CarryOn(kept, repeated) PROVE FlagsTyped'
    BY <1>5, ZenonT(30) DEF CarryOn, Nudge
<1>6. CASE ReissueAtOnce
    BY <1>6 DEF ReissueAtOnce, Recover
<1>7. CASE WaitForProvider
    BY <1>7 DEF WaitForProvider
<1>8. CASE WaitForLimit
    BY <1>8 DEF WaitForLimit
<1>9. CASE EmptyEnds
    BY <1>9 DEF EmptyEnds, Finish
<1>10. CASE EmptyReplayed
    BY <1>10 DEF EmptyReplayed, Recover
<1>11. CASE EmptyNudged
    BY <1>11, ZenonT(30) DEF EmptyNudged, Recover, Nudge
<1>12. CASE EmptyGivenUp
    BY <1>12 DEF EmptyGivenUp, Finish
<1>13. ASSUME NEW seen \in BOOLEAN, TextAnswer(seen) PROVE FlagsTyped'
    BY <1>13 DEF TextAnswer, Finish, Continue, Observe
<1>14. CASE StepLimit
    BY <1>14 DEF StepLimit, Finish
<1>15. CASE CancelledAtTop
    BY <1>15 DEF CancelledAtTop, Finish
<1>16. CASE BeginIteration
    BY <1>16 DEF BeginIteration, ResetRetries, UserMessage
<1>17. CASE Retake
    BY <1>17 DEF Retake
<1>18. CASE SendRequest
    BY <1>18 DEF SendRequest
<1>19. CASE PauseEnds
    BY <1>19 DEF PauseEnds
<1>20. CASE PauseCut
    BY <1>20 DEF PauseCut, Finish
<1>21. CASE WaitEnds
  <2>1. replaying' \in BOOLEAN /\ force' \in BOOLEAN
    BY <1>21 DEF WaitEnds, Finish, Recover
  <2>2. UNCHANGED <<restartForceAnswer, quarantine, visible, recovering, stale, ctxDone, userStop>>
    BY <1>21 DEF WaitEnds
  <2>3. UNCHANGED <<unread, cut, changed, shown, corrected>>
    BY <1>21 DEF WaitEnds
  <2>. QED BY <2>1, <2>2, <2>3
<1>22. CASE LimitLifts
    BY <1>22 DEF LimitLifts, RepeatIteration, ResetRetries
<1>23. CASE LimitCut
    BY <1>23 DEF LimitCut, Finish
<1>24. CASE HookContinues
    BY <1>24 DEF HookContinues, UserMessage, ResetRetries, Continue
<1>25. CASE ReadAtEnd
    BY <1>25 DEF ReadAtEnd, UserMessage, ResetRetries, Continue
<1>26. CASE EndTurn
    BY <1>26 DEF EndTurn, Finish
<1>27. CASE BatchCancelled
    BY <1>27 DEF BatchCancelled, RecordSkipped, Finish
<1>28. CASE CallRuns
    BY <1>28 DEF CallRuns
<1>29. CASE CallNudged
    BY <1>29 DEF CallNudged, RecordSkipped
<1>30. CASE StuckStop
    BY <1>30 DEF StuckStop, RecordSkipped, Finish
<1>31. ASSUME NEW runOnce \in BOOLEAN, CallQuarantined(runOnce) PROVE FlagsTyped'
    BY <1>31 DEF CallQuarantined, RecordSkipped
<1>32. ASSUME NEW seen \in BOOLEAN, EndRound(seen) PROVE FlagsTyped'
    BY <1>32 DEF EndRound, Observe, ResetRetries, Continue
<1>33. CASE SaveFails
    BY <1>33 DEF SaveFails, Finish
<1>34. CASE WrapperRetries
    BY <1>34 DEF WrapperRetries
<1>35. CASE Operator
  <2>1. CASE TypeFollowUp
    BY <1>35, <2>1 DEF Operator, TypeFollowUp
  <2>2. CASE MoveSettings
    BY <1>35, <2>2 DEF Operator, MoveSettings
  <2>3. CASE PressStop
    BY <1>35, <2>3 DEF Operator, PressStop
  <2>4. CASE ContextEnds
    BY <1>35, <2>4 DEF Operator, ContextEnds
  <2>. QED BY <1>35, <2>1, <2>2, <2>3, <2>4 DEF Operator
<1>36. CASE UNCHANGED vars
    BY <1>36 DEF vars
<1>q. QED
        BY <1>1, <1>2, <1>3, <1>4, <1>5, <1>6, <1>7, <1>8, <1>9, <1>10, <1>11, <1>12, <1>13,
        <1>14, <1>15, <1>16, <1>17, <1>18, <1>19, <1>20, <1>21, <1>22, <1>23, <1>24, <1>25, <1>26,
        <1>27, <1>28, <1>29, <1>30, <1>31, <1>32, <1>33, <1>34, <1>35, <1>36 DEF Next, Returns,
        Advance

\* Every way back to the for statement counts a step or pays it back.
LEMMA CountStep == CountersTyped /\ StepsCounted /\ LimitIsEarned /\ [Next]_vars => (StepsCounted
    /\ LimitIsEarned)'
<1> SUFFICES ASSUME CountersTyped /\ StepsCounted /\ LimitIsEarned, [Next]_vars PROVE
    (StepsCounted /\ LimitIsEarned)'
    OBVIOUS
<1> USE ReActAssumption DEF CountersTyped, Unset, Calls, MaxSettingsRetakes, MaxEmptyReissues,
    MaxEmptyContinuations, MaxFirstTokenReissues, loopVars, retryVars, contVars, waitVars,
    guardVars, endVars, checkVars, batchVars, opVars, sliceVars, tallyVars, StepsCounted,
    LimitIsEarned, reactTurn
<1>1. ASSUME NEW n \in Calls, LoopGuardCut(n) PROVE (StepsCounted /\ LimitIsEarned)'
    BY <1>1 DEF LoopGuardCut, RecordSkipped, Finish, Continue, ResetRetries, Nudge
<1>2. ASSUME NEW n \in Calls, CallFails(n) PROVE (StepsCounted /\ LimitIsEarned)'
    BY <1>2 DEF CallFails, RecordSkipped, Finish
<1>3. ASSUME NEW n \in Calls, CallsAnswer(n) PROVE (StepsCounted /\ LimitIsEarned)'
    BY <1>3 DEF CallsAnswer
<1>4. ASSUME NEW output \in BOOLEAN, NEW n \in Calls, CallCancelled(output, n) PROVE (StepsCounted /\ LimitIsEarned)'
    BY <1>4 DEF CallCancelled, RecordSkipped, Finish
<1>5. ASSUME NEW kept \in BOOLEAN, NEW repeated \in BOOLEAN, CarryOn(kept, repeated) PROVE (StepsCounted /\ LimitIsEarned)'
    BY <1>5 DEF CarryOn, Nudge
<1>6. CASE ReissueAtOnce
    BY <1>6 DEF ReissueAtOnce, Recover
<1>7. CASE WaitForProvider
    BY <1>7 DEF WaitForProvider
<1>8. CASE WaitForLimit
    BY <1>8 DEF WaitForLimit
<1>9. CASE EmptyEnds
    BY <1>9 DEF EmptyEnds, Finish
<1>10. CASE EmptyReplayed
    BY <1>10 DEF EmptyReplayed, Recover
<1>11. CASE EmptyNudged
    BY <1>11 DEF EmptyNudged, Recover, Nudge
<1>12. CASE EmptyGivenUp
    BY <1>12 DEF EmptyGivenUp, Finish
<1>13. ASSUME NEW seen \in BOOLEAN, TextAnswer(seen) PROVE (StepsCounted /\ LimitIsEarned)'
    BY <1>13 DEF TextAnswer, Finish, Continue, Observe
<1>14. CASE StepLimit
    BY <1>14 DEF StepLimit, Finish
<1>15. CASE CancelledAtTop
    BY <1>15 DEF CancelledAtTop, Finish
<1>16. CASE BeginIteration
    BY <1>16 DEF BeginIteration, ResetRetries, UserMessage
<1>17. CASE Retake
    BY <1>17 DEF Retake
<1>18. CASE SendRequest
    BY <1>18 DEF SendRequest
<1>19. CASE PauseEnds
    BY <1>19 DEF PauseEnds
<1>20. CASE PauseCut
    BY <1>20 DEF PauseCut, Finish
<1>21. CASE WaitEnds
    BY <1>21 DEF WaitEnds, Finish, Recover
<1>22. CASE LimitLifts
    BY <1>22 DEF LimitLifts, RepeatIteration, ResetRetries
<1>23. CASE LimitCut
    BY <1>23 DEF LimitCut, Finish
<1>24. CASE HookContinues
    BY <1>24 DEF HookContinues, UserMessage, ResetRetries, Continue
<1>25. CASE ReadAtEnd
    BY <1>25 DEF ReadAtEnd, UserMessage, ResetRetries, Continue
<1>26. CASE EndTurn
    BY <1>26 DEF EndTurn, Finish
<1>27. CASE BatchCancelled
    BY <1>27 DEF BatchCancelled, RecordSkipped, Finish
<1>28. CASE CallRuns
    BY <1>28 DEF CallRuns
<1>29. CASE CallNudged
    BY <1>29 DEF CallNudged, RecordSkipped
<1>30. CASE StuckStop
    BY <1>30 DEF StuckStop, RecordSkipped, Finish
<1>31. ASSUME NEW runOnce \in BOOLEAN, CallQuarantined(runOnce) PROVE (StepsCounted /\ LimitIsEarned)'
    BY <1>31 DEF CallQuarantined, RecordSkipped
<1>32. ASSUME NEW seen \in BOOLEAN, EndRound(seen) PROVE (StepsCounted /\ LimitIsEarned)'
    BY <1>32 DEF EndRound, Observe, ResetRetries, Continue
<1>33. CASE SaveFails
    BY <1>33 DEF SaveFails, Finish
<1>34. CASE WrapperRetries
    BY <1>34 DEF WrapperRetries
<1>35. CASE Operator
    BY <1>35 DEF Operator, TypeFollowUp, MoveSettings, PressStop, ContextEnds
<1>36. CASE UNCHANGED vars
    BY <1>36 DEF vars
<1>q. QED
        BY <1>1, <1>2, <1>3, <1>4, <1>5, <1>6, <1>7, <1>8, <1>9, <1>10, <1>11, <1>12, <1>13,
        <1>14, <1>15, <1>16, <1>17, <1>18, <1>19, <1>20, <1>21, <1>22, <1>23, <1>24, <1>25, <1>26,
        <1>27, <1>28, <1>29, <1>30, <1>31, <1>32, <1>33, <1>34, <1>35, <1>36 DEF Next, Returns,
        Advance

\* Every attempt is paid for.
LEMMA AllowanceStep == CountersTyped /\ AllowanceCounted /\ [Next]_vars => AllowanceCounted'
<1> SUFFICES ASSUME CountersTyped /\ AllowanceCounted, [Next]_vars PROVE AllowanceCounted'
    OBVIOUS
<1> USE ReActAssumption DEF CountersTyped, Unset, Calls, MaxSettingsRetakes, MaxEmptyReissues,
    MaxEmptyContinuations, MaxFirstTokenReissues, loopVars, retryVars, contVars, waitVars,
    guardVars, endVars, checkVars, batchVars, opVars, sliceVars, tallyVars, AllowanceCounted
<1>1. ASSUME NEW n \in Calls, LoopGuardCut(n) PROVE AllowanceCounted'
    BY <1>1 DEF LoopGuardCut, RecordSkipped, Finish, Continue, ResetRetries, Nudge
<1>2. ASSUME NEW n \in Calls, CallFails(n) PROVE AllowanceCounted'
    BY <1>2 DEF CallFails, RecordSkipped, Finish
<1>3. ASSUME NEW n \in Calls, CallsAnswer(n) PROVE AllowanceCounted'
    BY <1>3 DEF CallsAnswer
<1>4. ASSUME NEW output \in BOOLEAN, NEW n \in Calls, CallCancelled(output, n) PROVE AllowanceCounted'
    BY <1>4 DEF CallCancelled, RecordSkipped, Finish
<1>5. ASSUME NEW kept \in BOOLEAN, NEW repeated \in BOOLEAN, CarryOn(kept, repeated) PROVE AllowanceCounted'
    BY <1>5 DEF CarryOn, Nudge
<1>6. CASE ReissueAtOnce
    BY <1>6 DEF ReissueAtOnce, Recover
<1>7. CASE WaitForProvider
    BY <1>7 DEF WaitForProvider
<1>8. CASE WaitForLimit
    BY <1>8 DEF WaitForLimit
<1>9. CASE EmptyEnds
    BY <1>9 DEF EmptyEnds, Finish
<1>10. CASE EmptyReplayed
    BY <1>10 DEF EmptyReplayed, Recover
<1>11. CASE EmptyNudged
    BY <1>11 DEF EmptyNudged, Recover, Nudge
<1>12. CASE EmptyGivenUp
    BY <1>12 DEF EmptyGivenUp, Finish
<1>13. ASSUME NEW seen \in BOOLEAN, TextAnswer(seen) PROVE AllowanceCounted'
    BY <1>13 DEF TextAnswer, Finish, Continue, Observe
<1>14. CASE StepLimit
    BY <1>14 DEF StepLimit, Finish
<1>15. CASE CancelledAtTop
    BY <1>15 DEF CancelledAtTop, Finish
<1>16. CASE BeginIteration
    BY <1>16 DEF BeginIteration, ResetRetries, UserMessage
<1>17. CASE Retake
    BY <1>17 DEF Retake
<1>18. CASE SendRequest
  <2>1. pc = "prepare" /\ pc' = "calling" /\ silent' = silent + 1
    BY <1>18 DEF SendRequest
  <2>2. allowance' = IF allowance = Unset THEN RetryMax ELSE allowance
    BY <1>18 DEF SendRequest
  <2>3. CASE allowance = Unset
    <3>1. silent = 0
      BY <2>1, <2>3
    <3>2. allowance' = RetryMax /\ allowance' # Unset /\ silent' = 1
      BY <2>1, <2>2, <2>3, <3>1
    <3>. QED BY <2>1, <3>1, <3>2
  <2>4. CASE allowance # Unset
    <3>1. allowance \in Nat /\ silent \in Nat /\ silent + allowance <= RetryMax
      BY <2>1, <2>4
    <3>2. allowance' # Unset /\ silent' + allowance' <= 1 + RetryMax
      BY <2>1, <2>2, <2>4, <3>1
    <3>3. silent' <= 1 + RetryMax
      BY <2>1, <3>1
    <3>. QED BY <2>1, <3>2, <3>3
  <2>. QED BY <2>3, <2>4
<1>19. CASE PauseEnds
    BY <1>19 DEF PauseEnds
<1>20. CASE PauseCut
    BY <1>20 DEF PauseCut, Finish
<1>21. CASE WaitEnds
    BY <1>21 DEF WaitEnds, Finish, Recover
<1>22. CASE LimitLifts
    BY <1>22 DEF LimitLifts, RepeatIteration, ResetRetries
<1>23. CASE LimitCut
    BY <1>23 DEF LimitCut, Finish
<1>24. CASE HookContinues
    BY <1>24 DEF HookContinues, UserMessage, ResetRetries, Continue
<1>25. CASE ReadAtEnd
    BY <1>25 DEF ReadAtEnd, UserMessage, ResetRetries, Continue
<1>26. CASE EndTurn
    BY <1>26 DEF EndTurn, Finish
<1>27. CASE BatchCancelled
    BY <1>27 DEF BatchCancelled, RecordSkipped, Finish
<1>28. CASE CallRuns
    BY <1>28 DEF CallRuns
<1>29. CASE CallNudged
    BY <1>29 DEF CallNudged, RecordSkipped
<1>30. CASE StuckStop
    BY <1>30 DEF StuckStop, RecordSkipped, Finish
<1>31. ASSUME NEW runOnce \in BOOLEAN, CallQuarantined(runOnce) PROVE AllowanceCounted'
    BY <1>31 DEF CallQuarantined, RecordSkipped
<1>32. ASSUME NEW seen \in BOOLEAN, EndRound(seen) PROVE AllowanceCounted'
    BY <1>32 DEF EndRound, Observe, ResetRetries, Continue
<1>33. CASE SaveFails
    BY <1>33 DEF SaveFails, Finish
<1>34. CASE WrapperRetries
    BY <1>34 DEF WrapperRetries
<1>35. CASE Operator
    BY <1>35 DEF Operator, TypeFollowUp, MoveSettings, PressStop, ContextEnds
<1>36. CASE UNCHANGED vars
    BY <1>36 DEF vars
<1>q. QED
        BY <1>1, <1>2, <1>3, <1>4, <1>5, <1>6, <1>7, <1>8, <1>9, <1>10, <1>11, <1>12, <1>13,
        <1>14, <1>15, <1>16, <1>17, <1>18, <1>19, <1>20, <1>21, <1>22, <1>23, <1>24, <1>25, <1>26,
        <1>27, <1>28, <1>29, <1>30, <1>31, <1>32, <1>33, <1>34, <1>35, <1>36 DEF Next, Returns,
        Advance

\* The verdict falls only on a window whose request was corrected.
LEMMA CorrectionStep == CountersTyped /\ CorrectionSent /\ StoppedAfterCorrection /\ [Next]_vars
    => (CorrectionSent /\ StoppedAfterCorrection)'
<1> SUFFICES ASSUME CountersTyped /\ CorrectionSent /\ StoppedAfterCorrection, [Next]_vars PROVE
    (CorrectionSent /\ StoppedAfterCorrection)'
    OBVIOUS
<1> USE ReActAssumption DEF CountersTyped, Unset, Calls, MaxSettingsRetakes, MaxEmptyReissues,
    MaxEmptyContinuations, MaxFirstTokenReissues, loopVars, retryVars, contVars, waitVars,
    guardVars, endVars, checkVars, batchVars, opVars, sliceVars, tallyVars, CorrectionSent,
    StoppedAfterCorrection
<1>1. ASSUME NEW n \in Calls, LoopGuardCut(n) PROVE (CorrectionSent /\ StoppedAfterCorrection)'
    BY <1>1 DEF LoopGuardCut, RecordSkipped, Finish, FinalStatus, Continue, ResetRetries, Nudge
<1>2. ASSUME NEW n \in Calls, CallFails(n) PROVE (CorrectionSent /\ StoppedAfterCorrection)'
    BY <1>2 DEF CallFails, RecordSkipped, Finish, FinalStatus
<1>3. ASSUME NEW n \in Calls, CallsAnswer(n) PROVE (CorrectionSent /\ StoppedAfterCorrection)'
    BY <1>3 DEF CallsAnswer
<1>4. ASSUME NEW output \in BOOLEAN, NEW n \in Calls, CallCancelled(output, n) PROVE (CorrectionSent /\ StoppedAfterCorrection)'
    BY <1>4 DEF CallCancelled, RecordSkipped, Finish, FinalStatus
<1>5. ASSUME NEW kept \in BOOLEAN, NEW repeated \in BOOLEAN, CarryOn(kept, repeated) PROVE (CorrectionSent /\ StoppedAfterCorrection)'
    BY <1>5 DEF CarryOn, Nudge
<1>6. CASE ReissueAtOnce
    BY <1>6 DEF ReissueAtOnce, Recover
<1>7. CASE WaitForProvider
    BY <1>7 DEF WaitForProvider
<1>8. CASE WaitForLimit
    BY <1>8 DEF WaitForLimit
<1>9. CASE EmptyEnds
    BY <1>9 DEF EmptyEnds, Finish, FinalStatus
<1>10. CASE EmptyReplayed
    BY <1>10 DEF EmptyReplayed, Recover
<1>11. CASE EmptyNudged
    BY <1>11 DEF EmptyNudged, Recover, Nudge
<1>12. CASE EmptyGivenUp
    BY <1>12 DEF EmptyGivenUp, Finish, FinalStatus
<1>13. ASSUME NEW seen \in BOOLEAN, TextAnswer(seen) PROVE (CorrectionSent /\ StoppedAfterCorrection)'
    BY <1>13 DEF TextAnswer, Finish, FinalStatus, Continue, Observe
<1>14. CASE StepLimit
    BY <1>14 DEF StepLimit, Finish, FinalStatus
<1>15. CASE CancelledAtTop
    BY <1>15 DEF CancelledAtTop, Finish, FinalStatus
<1>16. CASE BeginIteration
    BY <1>16 DEF BeginIteration, ResetRetries, UserMessage
<1>17. CASE Retake
    BY <1>17 DEF Retake
<1>18. CASE SendRequest
    BY <1>18 DEF SendRequest
<1>19. CASE PauseEnds
    BY <1>19 DEF PauseEnds
<1>20. CASE PauseCut
    BY <1>20 DEF PauseCut, Finish, FinalStatus
<1>21. CASE WaitEnds
    BY <1>21 DEF WaitEnds, Finish, FinalStatus, Recover
<1>22. CASE LimitLifts
    BY <1>22 DEF LimitLifts, RepeatIteration, ResetRetries
<1>23. CASE LimitCut
    BY <1>23 DEF LimitCut, Finish, FinalStatus
<1>24. CASE HookContinues
    BY <1>24 DEF HookContinues, UserMessage, ResetRetries, Continue
<1>25. CASE ReadAtEnd
    BY <1>25 DEF ReadAtEnd, UserMessage, ResetRetries, Continue
<1>26. CASE EndTurn
    BY <1>26 DEF EndTurn, Finish, FinalStatus
<1>27. CASE BatchCancelled
    BY <1>27 DEF BatchCancelled, RecordSkipped, Finish, FinalStatus
<1>28. CASE CallRuns
    BY <1>28 DEF CallRuns
<1>29. CASE CallNudged
    BY <1>29 DEF CallNudged, RecordSkipped
<1>30. CASE StuckStop
    BY <1>30 DEF StuckStop, RecordSkipped, Finish, FinalStatus
<1>31. ASSUME NEW runOnce \in BOOLEAN, CallQuarantined(runOnce) PROVE (CorrectionSent /\ StoppedAfterCorrection)'
    BY <1>31 DEF CallQuarantined, RecordSkipped
<1>32. ASSUME NEW seen \in BOOLEAN, EndRound(seen) PROVE (CorrectionSent /\ StoppedAfterCorrection)'
    BY <1>32 DEF EndRound, Observe, ResetRetries, Continue
<1>33. CASE SaveFails
    BY <1>33 DEF SaveFails, Finish, FinalStatus
<1>34. CASE WrapperRetries
    BY <1>34 DEF WrapperRetries
<1>35. CASE Operator
    BY <1>35 DEF Operator, TypeFollowUp, MoveSettings, PressStop, ContextEnds
<1>36. CASE UNCHANGED vars
    BY <1>36 DEF vars
<1>q. QED
        BY <1>1, <1>2, <1>3, <1>4, <1>5, <1>6, <1>7, <1>8, <1>9, <1>10, <1>11, <1>12, <1>13,
        <1>14, <1>15, <1>16, <1>17, <1>18, <1>19, <1>20, <1>21, <1>22, <1>23, <1>24, <1>25, <1>26,
        <1>27, <1>28, <1>29, <1>30, <1>31, <1>32, <1>33, <1>34, <1>35, <1>36 DEF Next, Returns,
        Advance

\* A message is taken into the transcript only with a step left to send it.
LEMMA UnreadStep == CountersTyped /\ StepsCounted /\ UnreadHasAStep /\ FollowUpsAnswered /\
    [Next]_vars => (UnreadHasAStep /\ FollowUpsAnswered)'
<1> SUFFICES ASSUME CountersTyped /\ StepsCounted /\ UnreadHasAStep /\ FollowUpsAnswered,
    [Next]_vars PROVE (UnreadHasAStep /\ FollowUpsAnswered)'
    OBVIOUS
<1> USE ReActAssumption DEF CountersTyped, Unset, Calls, MaxSettingsRetakes, MaxEmptyReissues,
    MaxEmptyContinuations, MaxFirstTokenReissues, loopVars, retryVars, contVars, waitVars,
    guardVars, endVars, checkVars, batchVars, opVars, sliceVars, tallyVars, StepsCounted,
    UnreadHasAStep, FollowUpsAnswered, reactTurn
<1>1. ASSUME NEW n \in Calls, LoopGuardCut(n) PROVE (UnreadHasAStep /\ FollowUpsAnswered)'
    BY <1>1 DEF LoopGuardCut, RecordSkipped, Finish, Continue, ResetRetries, Nudge
<1>2. ASSUME NEW n \in Calls, CallFails(n) PROVE (UnreadHasAStep /\ FollowUpsAnswered)'
    BY <1>2 DEF CallFails, RecordSkipped, Finish
<1>3. ASSUME NEW n \in Calls, CallsAnswer(n) PROVE (UnreadHasAStep /\ FollowUpsAnswered)'
    BY <1>3 DEF CallsAnswer
<1>4. ASSUME NEW output \in BOOLEAN, NEW n \in Calls, CallCancelled(output, n) PROVE (UnreadHasAStep /\ FollowUpsAnswered)'
    BY <1>4 DEF CallCancelled, RecordSkipped, Finish
<1>5. ASSUME NEW kept \in BOOLEAN, NEW repeated \in BOOLEAN, CarryOn(kept, repeated) PROVE (UnreadHasAStep /\ FollowUpsAnswered)'
    BY <1>5 DEF CarryOn, Nudge
<1>6. CASE ReissueAtOnce
    BY <1>6 DEF ReissueAtOnce, Recover
<1>7. CASE WaitForProvider
    BY <1>7 DEF WaitForProvider
<1>8. CASE WaitForLimit
    BY <1>8 DEF WaitForLimit
<1>9. CASE EmptyEnds
    BY <1>9 DEF EmptyEnds, Finish
<1>10. CASE EmptyReplayed
    BY <1>10 DEF EmptyReplayed, Recover
<1>11. CASE EmptyNudged
    BY <1>11 DEF EmptyNudged, Recover, Nudge
<1>12. CASE EmptyGivenUp
    BY <1>12 DEF EmptyGivenUp, Finish
<1>13. ASSUME NEW seen \in BOOLEAN, TextAnswer(seen) PROVE (UnreadHasAStep /\ FollowUpsAnswered)'
    BY <1>13 DEF TextAnswer, Finish, Continue, Observe
<1>14. CASE StepLimit
    BY <1>14 DEF StepLimit, Finish
<1>15. CASE CancelledAtTop
    BY <1>15 DEF CancelledAtTop, Finish
<1>16. CASE BeginIteration
    BY <1>16 DEF BeginIteration, ResetRetries, UserMessage
<1>17. CASE Retake
    BY <1>17 DEF Retake
<1>18. CASE SendRequest
    BY <1>18 DEF SendRequest
<1>19. CASE PauseEnds
    BY <1>19 DEF PauseEnds
<1>20. CASE PauseCut
    BY <1>20 DEF PauseCut, Finish
<1>21. CASE WaitEnds
    BY <1>21 DEF WaitEnds, Finish, Recover
<1>22. CASE LimitLifts
    BY <1>22 DEF LimitLifts, RepeatIteration, ResetRetries
<1>23. CASE LimitCut
    BY <1>23 DEF LimitCut, Finish
<1>24. CASE HookContinues
    BY <1>24 DEF HookContinues, UserMessage, ResetRetries, Continue
<1>25. CASE ReadAtEnd
    BY <1>25 DEF ReadAtEnd, UserMessage, ResetRetries, Continue
<1>26. CASE EndTurn
    BY <1>26 DEF EndTurn, Finish
<1>27. CASE BatchCancelled
    BY <1>27 DEF BatchCancelled, RecordSkipped, Finish
<1>28. CASE CallRuns
    BY <1>28 DEF CallRuns
<1>29. CASE CallNudged
    BY <1>29 DEF CallNudged, RecordSkipped
<1>30. CASE StuckStop
    BY <1>30 DEF StuckStop, RecordSkipped, Finish
<1>31. ASSUME NEW runOnce \in BOOLEAN, CallQuarantined(runOnce) PROVE (UnreadHasAStep /\ FollowUpsAnswered)'
    BY <1>31 DEF CallQuarantined, RecordSkipped
<1>32. ASSUME NEW seen \in BOOLEAN, EndRound(seen) PROVE (UnreadHasAStep /\ FollowUpsAnswered)'
    BY <1>32 DEF EndRound, Observe, ResetRetries, Continue
<1>33. CASE SaveFails
    BY <1>33 DEF SaveFails, Finish
<1>34. CASE WrapperRetries
    BY <1>34 DEF WrapperRetries
<1>35. CASE Operator
    BY <1>35 DEF Operator, TypeFollowUp, MoveSettings, PressStop, ContextEnds
<1>36. CASE UNCHANGED vars
    BY <1>36 DEF vars
<1>q. QED
        BY <1>1, <1>2, <1>3, <1>4, <1>5, <1>6, <1>7, <1>8, <1>9, <1>10, <1>11, <1>12, <1>13,
        <1>14, <1>15, <1>16, <1>17, <1>18, <1>19, <1>20, <1>21, <1>22, <1>23, <1>24, <1>25, <1>26,
        <1>27, <1>28, <1>29, <1>30, <1>31, <1>32, <1>33, <1>34, <1>35, <1>36 DEF Next, Returns,
        Advance

\* What was shown changed the request that follows, and a cut answer waits for that request
\* alone: nothing reads the queue in between but an iteration that is taken again.
LEMMA FollowedStep == CountersTyped /\ AnswersFollowed /\ [Next]_vars => AnswersFollowed'
<1> SUFFICES ASSUME CountersTyped, AnswersFollowed, [Next]_vars PROVE AnswersFollowed'
    OBVIOUS
<1> USE ReActAssumption DEF CountersTyped, AnswersFollowed, ReplayIsPaid, Unset, Calls,
    MaxSettingsRetakes, MaxEmptyReissues, MaxFirstTokenReissues, loopVars, retryVars, contVars,
    waitVars, guardVars, endVars, checkVars, batchVars, opVars, sliceVars, tallyVars
<1>1. ASSUME NEW n \in Calls, LoopGuardCut(n) PROVE AnswersFollowed'
    BY <1>1 DEF LoopGuardCut, RecordSkipped, Finish, Continue, ResetRetries, Nudge
<1>2. ASSUME NEW n \in Calls, CallFails(n) PROVE AnswersFollowed'
    BY <1>2 DEF CallFails, RecordSkipped, Finish
<1>3. ASSUME NEW n \in Calls, CallsAnswer(n) PROVE AnswersFollowed'
    BY <1>3 DEF CallsAnswer
<1>4. ASSUME NEW output \in BOOLEAN, NEW n \in Calls, CallCancelled(output, n) PROVE AnswersFollowed'
    BY <1>4 DEF CallCancelled, RecordSkipped, Finish
<1>5. ASSUME NEW kept \in BOOLEAN, NEW repeated \in BOOLEAN, CarryOn(kept, repeated) PROVE AnswersFollowed'
    BY <1>5 DEF CarryOn, Nudge
<1>6. CASE ReissueAtOnce
    BY <1>6 DEF ReissueAtOnce, Recover
<1>7. CASE WaitForProvider
    BY <1>7 DEF WaitForProvider
<1>8. CASE WaitForLimit
    BY <1>8 DEF WaitForLimit
<1>9. CASE EmptyEnds
    BY <1>9 DEF EmptyEnds, Finish
<1>10. CASE EmptyReplayed
    BY <1>10 DEF EmptyReplayed, Recover
<1>11. CASE EmptyNudged
    BY <1>11 DEF EmptyNudged, Recover, Nudge
<1>12. CASE EmptyGivenUp
    BY <1>12 DEF EmptyGivenUp, Finish
<1>13. ASSUME NEW seen \in BOOLEAN, TextAnswer(seen) PROVE AnswersFollowed'
    BY <1>13 DEF TextAnswer, Finish, Continue, Observe
<1>14. CASE StepLimit
    BY <1>14 DEF StepLimit, Finish
<1>15. CASE CancelledAtTop
    BY <1>15 DEF CancelledAtTop, Finish
<1>16. CASE BeginIteration
    BY <1>16 DEF BeginIteration, ResetRetries, UserMessage
<1>17. CASE Retake
    BY <1>17 DEF Retake
<1>18. CASE SendRequest
    BY <1>18 DEF SendRequest
<1>19. CASE PauseEnds
    BY <1>19 DEF PauseEnds
<1>20. CASE PauseCut
    BY <1>20 DEF PauseCut, Finish
<1>21. CASE WaitEnds
    BY <1>21 DEF WaitEnds, Finish, Recover
<1>22. CASE LimitLifts
    BY <1>22 DEF LimitLifts, RepeatIteration, ResetRetries
<1>23. CASE LimitCut
    BY <1>23 DEF LimitCut, Finish
<1>24. CASE HookContinues
    BY <1>24 DEF HookContinues, UserMessage, ResetRetries, Continue
<1>25. CASE ReadAtEnd
    BY <1>25 DEF ReadAtEnd, UserMessage, ResetRetries, Continue
<1>26. CASE EndTurn
    BY <1>26 DEF EndTurn, Finish
<1>27. CASE BatchCancelled
    BY <1>27 DEF BatchCancelled, RecordSkipped, Finish
<1>28. CASE CallRuns
    BY <1>28 DEF CallRuns
<1>29. CASE CallNudged
    BY <1>29 DEF CallNudged, RecordSkipped
<1>30. CASE StuckStop
    BY <1>30 DEF StuckStop, RecordSkipped, Finish
<1>31. ASSUME NEW runOnce \in BOOLEAN, CallQuarantined(runOnce) PROVE AnswersFollowed'
    BY <1>31 DEF CallQuarantined, RecordSkipped
<1>32. ASSUME NEW seen \in BOOLEAN, EndRound(seen) PROVE AnswersFollowed'
    BY <1>32 DEF EndRound, Observe, ResetRetries, Continue
<1>33. CASE SaveFails
    BY <1>33 DEF SaveFails, Finish
<1>34. CASE WrapperRetries
    BY <1>34 DEF WrapperRetries
<1>35. CASE Operator
    BY <1>35 DEF Operator, TypeFollowUp, MoveSettings, PressStop, ContextEnds
<1>36. CASE UNCHANGED vars
    BY <1>36 DEF vars
<1>q. QED
        BY <1>1, <1>2, <1>3, <1>4, <1>5, <1>6, <1>7, <1>8, <1>9, <1>10, <1>11, <1>12, <1>13,
        <1>14, <1>15, <1>16, <1>17, <1>18, <1>19, <1>20, <1>21, <1>22, <1>23, <1>24, <1>25, <1>26,
        <1>27, <1>28, <1>29, <1>30, <1>31, <1>32, <1>33, <1>34, <1>35, <1>36 DEF Next, Returns,
        Advance

\* The queue of follow-ups is emptied in two places, and grows everywhere else.
QueueRead ==
    \/ ~(queue' < queue)
    \/ pc = "top" /\ ~replaying /\ queue > 0
    \/ pc = "ending" /\ ~cut

LEMMA QueueReadStep == CountersTyped /\ AnswersFollowed /\ [Next]_vars => QueueRead
<1> SUFFICES ASSUME CountersTyped, AnswersFollowed, [Next]_vars PROVE QueueRead
    OBVIOUS
<1>a. queue \in Nat /\ (pc = "ending" => ~cut)
    BY DEF CountersTyped, AnswersFollowed
<1> USE <1>a DEF QueueRead, opVars
<1>1. ASSUME NEW n \in Calls, LoopGuardCut(n) PROVE QueueRead
    BY <1>1 DEF LoopGuardCut
<1>2. ASSUME NEW n \in Calls, CallFails(n) PROVE QueueRead
    BY <1>2 DEF CallFails
<1>3. ASSUME NEW n \in Calls, CallsAnswer(n) PROVE QueueRead
    BY <1>3 DEF CallsAnswer
<1>4. ASSUME NEW output \in BOOLEAN, NEW n \in Calls, CallCancelled(output, n) PROVE QueueRead
    BY <1>4 DEF CallCancelled
<1>5. ASSUME NEW kept \in BOOLEAN, NEW repeated \in BOOLEAN, CarryOn(kept, repeated) PROVE QueueRead
    BY <1>5 DEF CarryOn
<1>6. CASE ReissueAtOnce
    BY <1>6 DEF ReissueAtOnce
<1>7. CASE WaitForProvider
    BY <1>7 DEF WaitForProvider
<1>8. CASE WaitForLimit
    BY <1>8 DEF WaitForLimit
<1>9. CASE EmptyEnds
    BY <1>9 DEF EmptyEnds
<1>10. CASE EmptyReplayed
    BY <1>10 DEF EmptyReplayed
<1>11. CASE EmptyNudged
    BY <1>11 DEF EmptyNudged
<1>12. CASE EmptyGivenUp
    BY <1>12 DEF EmptyGivenUp
<1>13. ASSUME NEW seen \in BOOLEAN, TextAnswer(seen) PROVE QueueRead
    BY <1>13 DEF TextAnswer
<1>14. CASE StepLimit
    BY <1>14 DEF StepLimit
<1>15. CASE CancelledAtTop
    BY <1>15 DEF CancelledAtTop
<1>16. CASE BeginIteration
    BY <1>16 DEF BeginIteration, ResetRetries, UserMessage
<1>17. CASE Retake
    BY <1>17 DEF Retake
<1>18. CASE SendRequest
    BY <1>18 DEF SendRequest
<1>19. CASE PauseEnds
    BY <1>19 DEF PauseEnds
<1>20. CASE PauseCut
    BY <1>20 DEF PauseCut
<1>21. CASE WaitEnds
    BY <1>21 DEF WaitEnds
<1>22. CASE LimitLifts
    BY <1>22 DEF LimitLifts
<1>23. CASE LimitCut
    BY <1>23 DEF LimitCut
<1>24. CASE HookContinues
    BY <1>24 DEF HookContinues
<1>25. CASE ReadAtEnd
    BY <1>25 DEF ReadAtEnd, UserMessage, ResetRetries, Continue
<1>26. CASE EndTurn
    BY <1>26 DEF EndTurn
<1>27. CASE BatchCancelled
    BY <1>27 DEF BatchCancelled
<1>28. CASE CallRuns
    BY <1>28 DEF CallRuns
<1>29. CASE CallNudged
    BY <1>29 DEF CallNudged
<1>30. CASE StuckStop
    BY <1>30 DEF StuckStop
<1>31. ASSUME NEW runOnce \in BOOLEAN, CallQuarantined(runOnce) PROVE QueueRead
    BY <1>31 DEF CallQuarantined
<1>32. ASSUME NEW seen \in BOOLEAN, EndRound(seen) PROVE QueueRead
    BY <1>32 DEF EndRound
<1>33. CASE SaveFails
    BY <1>33 DEF SaveFails
<1>34. CASE WrapperRetries
    BY <1>34 DEF WrapperRetries
<1>35. CASE Operator
    BY <1>35 DEF Operator, TypeFollowUp, MoveSettings, PressStop, ContextEnds
<1>36. CASE UNCHANGED vars
    BY <1>36 DEF vars
<1>q. QED
        BY <1>1, <1>2, <1>3, <1>4, <1>5, <1>6, <1>7, <1>8, <1>9, <1>10, <1>11, <1>12, <1>13,
        <1>14, <1>15, <1>16, <1>17, <1>18, <1>19, <1>20, <1>21, <1>22, <1>23, <1>24, <1>25, <1>26,
        <1>27, <1>28, <1>29, <1>30, <1>31, <1>32, <1>33, <1>34, <1>35, <1>36 DEF Next, Returns,
        Advance

\* Every reachable state of a turn has its type (the locals of runReActLoop
\* and the checkpoint), and every budget keeps its limit, whatever the limits.
THEOREM TypeCorrect == Spec => []TypeOK
<1>1. Init => PlacesTyped
    BY DEF Init, PlacesTyped, Places, Stops, Statuses
<1>2. Init => CountersTyped /\ ResultsOwed
    BY ReActAssumption DEF Init, CountersTyped, ResultsOwed, Unset, MaxSettingsRetakes,
       MaxEmptyReissues, MaxEmptyContinuations, MaxFirstTokenReissues
<1>3. Init => FlagsTyped
    BY Zenon DEF Init, FlagsTyped, Sights
<1>4. Spec => []PlacesTyped
    BY <1>1, PlaceStep, PTL DEF Spec
<1>5. Spec => []CountersTyped
    BY <1>2, CounterStep, PTL DEF Spec
<1>6. Spec => []FlagsTyped
    BY <1>3, FlagStep, PTL DEF Spec
<1>. QED BY <1>4, <1>5, <1>6, PTL DEF TypeOK

\* recordSkippedToolCalls, the batch loop and the partial answers together: no
\* request leaves and no turn ends with an announced call unanswered.
THEOREM EveryCallHasAResult == Spec => []ResultsOwed
<1>1. Init => CountersTyped /\ ResultsOwed
    BY ReActAssumption DEF Init, CountersTyped, ResultsOwed, Unset, MaxSettingsRetakes,
       MaxEmptyReissues, MaxEmptyContinuations, MaxFirstTokenReissues
<1>. QED BY <1>1, CounterStep, PTL DEF Spec

\* The counters keep their limits, in the form the proofs below cite.
LEMMA Counters == Spec => []CountersTyped
<1>1. TypeOK => CountersTyped
    BY DEF TypeOK
<1>. QED BY <1>1, TypeCorrect, PTL

\* Recovering from a provider never costs the model a step, for any budgets.
THEOREM StepLimitIsEarned == Spec => []LimitIsEarned
<1>1. Init => StepsCounted /\ LimitIsEarned
    BY ReActAssumption, SMT DEF Init, StepsCounted, LimitIsEarned
<1>. QED BY <1>1, CountStep, Counters, PTL DEF Spec

\* One step never makes more than 1 + llm_retry_max unanswered attempts.
THEOREM RetriesAreShared == Spec => []UnansweredBounded
<1>1. Init => AllowanceCounted
    BY ReActAssumption DEF Init, Unset, AllowanceCounted
<1>2. AllowanceCounted => UnansweredBounded
    BY DEF AllowanceCounted, UnansweredBounded
<1>. QED BY <1>1, <1>2, AllowanceStep, Counters, PTL DEF Spec

\* A recovering turn is stopped for repeating itself only after a request told
\* the model so.
THEOREM VerdictFollowsCorrection == Spec => []StoppedAfterCorrection
<1>1. Init => CorrectionSent /\ StoppedAfterCorrection
    BY DEF Init, CorrectionSent, StoppedAfterCorrection
<1>. QED BY <1>1, CorrectionStep, Counters, PTL DEF Spec

\* A turn that ends of itself has sent every user message it took in.
THEOREM NoFollowUpDangles == Spec => []FollowUpsAnswered
<1>1. Init => StepsCounted /\ LimitIsEarned
    BY ReActAssumption, SMT DEF Init, StepsCounted, LimitIsEarned
<1>2. Init => UnreadHasAStep /\ FollowUpsAnswered
    BY ReActAssumption, SMT DEF Init, UnreadHasAStep, FollowUpsAnswered
<1>. QED BY <1>1, <1>2, CountStep, UnreadStep, Counters, PTL DEF Spec

\* An answer that was shown is not asked for again, what was shown short of one costs a retry,
\* and a cut answer is split from its continuation only by a change of the settings
\* (runReActLoop's replays and continuations).
THEOREM ShownIsNotRepeated == Spec => ShownOnce
<1>1. Init => AnswersFollowed
    BY DEF Init, AnswersFollowed, ReplayIsPaid
<1>2. AnswersFollowed /\ [Next]_vars =>
         [pc = "prepare" /\ pc' = "calling" /\ ~changed /\ ~force => ReplayIsPaid]_vars
    BY DEF AnswersFollowed
<1>3. CountersTyped /\ AnswersFollowed /\ [Next]_vars => [cut /\ queue' < queue => settingsRetakes > 0]_vars
    BY QueueReadStep DEF CountersTyped, AnswersFollowed, QueueRead
<1>q. QED
    BY <1>1, <1>2, <1>3, FollowedStep, Counters, PTL DEF Spec, ShownOnce, PaidBeforeReplay,
       SplitOnlyByRetake

=============================================================================
