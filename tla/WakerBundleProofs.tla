-------------------------- MODULE WakerBundleProofs ---------------------------
(*****************************************************************************)
(* What outlives a turn: the reports of background tasks (BackgroundWaker),  *)
(* for any finite set of tasks and any wake budget, and the bundle of a      *)
(* session on disk (SessionBundle), for any number of processes and any      *)
(* bounds.  The two share no state: each part speaks of its own component.   *)
(*****************************************************************************)
EXTENDS BackgroundWaker, SessionBundle, FiniteSetTheorems, TLAPS

-------------------------------------------------------------------------------
(*****************************************************************************)
(* The waker.  The invariants relate the queue, the batch and the budget to  *)
(* where the drain goroutine stands, so each needs the control facts of      *)
(* ControlInv: the batch is empty outside an attempt, the flag is up as long *)
(* as a goroutine runs, and a woken turn runs under it.                      *)
(*****************************************************************************)

\* Where the goroutine stands decides the flag, the batch and the turn.
ControlInv ==
    /\ draining <=> pc # "none"
    /\ pc \notin Reserved => batch = {}
    /\ turn \in {"waking", "woken"} <=> pc = "running"
    /\ draining => ~ gaveUp

\* Only finished tasks travel, and a turn that has opened has marked its batch.
BatchInv ==
    /\ unheard \cup pending \cup batch \subseteq Tasks \ running
    /\ turn = "woken" => batch \subseteq woke \cup forgotten

IInv ==
    /\ TypeOK /\ ControlInv /\ BatchInv
    /\ PendingIsServed /\ NothingVanishes /\ BudgetHonest

LEMMA InitEstablishes == Init => IInv
<1> SUFFICES ASSUME Init PROVE IInv
  OBVIOUS
<1>0. 0 \in 0 .. MaxWakes
  BY MaxWakesAssumption
<1>1. TypeOK
  BY <1>0 DEF Init, TypeOK, Reserved
<1>2. ControlInv /\ BatchInv /\ PendingIsServed /\ NothingVanishes
  BY DEF Init, ControlInv, BatchInv, PendingIsServed, NothingVanishes, Reserved
<1>3. BudgetHonest
  BY DEF Init, BudgetHonest, Reserved
<1>. QED
  BY <1>1, <1>2, <1>3 DEF IInv

\* A reservation is held wherever the budget is refunded, so it is never empty.
LEMMA ReservedIsPositive ==
    ASSUME IInv, pc \in Reserved
    PROVE  wakes - 1 \in 0 .. MaxWakes /\ wakes > 0 /\ wakes - 1 = clean + unpaid
<1>1. wakes \in Nat /\ wakes <= MaxWakes /\ clean \in Nat /\ unpaid \in Nat
     /\ wakes = clean + unpaid + 1
  BY MaxWakesAssumption DEF IInv, TypeOK, BudgetHonest
<1>. QED
  BY <1>1, MaxWakesAssumption

\* Every variable keeps its type; the budget stays within its cap.
LEMMA TypeStep == IInv /\ [Next]_vars => TypeOK'
<1> SUFFICES ASSUME IInv, [Next]_vars PROVE TypeOK'
  OBVIOUS
<1> USE DEF IInv, TypeOK, Reserved, poolVars, skips, history, End
<1>1. ASSUME NEW t \in Tasks, Finish(t) PROVE TypeOK'
  BY <1>1 DEF Finish
<1>2. ASSUME NEW t \in Tasks, OnSnapshot(t) PROVE TypeOK'
  BY <1>2 DEF OnSnapshot
<1>3. ASSUME NEW t \in Tasks, Collect(t) PROVE TypeOK'
  BY <1>3 DEF Collect
<1>4. ASSUME NEW t \in Tasks, Forget(t) PROVE TypeOK'
  BY <1>4 DEF Forget
<1>5. ASSUME SetDraining PROVE TypeOK'
  BY <1>5 DEF SetDraining
<1>6. ASSUME TakeBatch PROVE TypeOK'
  <2>1. wakes < MaxWakes => wakes + 1 \in 0 .. MaxWakes
    BY MaxWakesAssumption
  <2>2. wakes' \in 0 .. MaxWakes
    BY <1>6, <2>1 DEF TakeBatch
  <2>3. pc' \in Reserved \cup {"none", "settle"} /\ draining' \in BOOLEAN
    BY <1>6 DEF TakeBatch
  <2>4. batch' \subseteq Tasks /\ pending' \subseteq Tasks /\ dropped' \subseteq Tasks
    BY <1>6 DEF TakeBatch, ControlInv
  <2>. QED
    BY <1>6, <2>2, <2>3, <2>4 DEF TakeBatch
<1>7. ASSUME CheckDraining PROVE TypeOK'
  BY <1>7, ReservedIsPositive DEF CheckDraining, GiveUp, Refund
<1>8. ASSUME AbsorbPending PROVE TypeOK'
  BY <1>8 DEF AbsorbPending
<1>9. ASSUME UnclaimedResults PROVE TypeOK'
  BY <1>9, ReservedIsPositive DEF UnclaimedResults, Refund
<1>10. ASSUME RunBusy PROVE TypeOK'
  BY <1>10, ReservedIsPositive DEF RunBusy, GiveUp, Refund
<1>11. ASSUME RunBegins PROVE TypeOK'
  BY <1>11 DEF RunBegins
<1>12. ASSUME RunFails PROVE TypeOK'
  BY <1>12, ReservedIsPositive DEF RunFails, GiveUp, Refund
<1>13. ASSUME RunReturns PROVE TypeOK'
  BY <1>13, MaxWakesAssumption DEF RunReturns
<1>14. ASSUME DeadlinePasses PROVE TypeOK'
  BY <1>14 DEF DeadlinePasses
<1>15. ASSUME MarkWokeTasks PROVE TypeOK'
  BY <1>15 DEF MarkWokeTasks
<1>16. ASSUME UserTurnBegins PROVE TypeOK'
  BY <1>16 DEF UserTurnBegins
<1>17. ASSUME UserTurnEnds PROVE TypeOK'
  BY <1>17 DEF UserTurnEnds
<1>19. ASSUME RunSkips PROVE TypeOK'
  BY <1>19, MaxWakesAssumption DEF RunSkips
<1>18. CASE UNCHANGED vars
  BY <1>18 DEF vars
<1>. QED
  BY <1>1, <1>2, <1>3, <1>4, <1>5, <1>6, <1>7, <1>8, <1>9, <1>10, <1>11,
     <1>12, <1>13, <1>14, <1>15, <1>16, <1>17, <1>18, <1>19 DEF Next, Drain

\* The goroutine moves its flag, its batch and its turn together.
LEMMA ControlStep == IInv /\ [Next]_vars => ControlInv'
<1> SUFFICES ASSUME IInv, [Next]_vars PROVE ControlInv'
  OBVIOUS
<1> USE DEF IInv, TypeOK, ControlInv, Reserved, poolVars, skips, history, End
<1>1. ASSUME NEW t \in Tasks, Finish(t) PROVE ControlInv'
  BY <1>1 DEF Finish
<1>2. ASSUME NEW t \in Tasks, OnSnapshot(t) PROVE ControlInv'
  BY <1>2 DEF OnSnapshot
<1>3. ASSUME NEW t \in Tasks, Collect(t) PROVE ControlInv'
  BY <1>3 DEF Collect
<1>4. ASSUME NEW t \in Tasks, Forget(t) PROVE ControlInv'
  BY <1>4 DEF Forget
<1>5. ASSUME SetDraining PROVE ControlInv'
  BY <1>5 DEF SetDraining
<1>6. ASSUME TakeBatch PROVE ControlInv'
  BY <1>6 DEF TakeBatch
<1>7. ASSUME CheckDraining PROVE ControlInv'
  BY <1>7 DEF CheckDraining, GiveUp, Refund
<1>8. ASSUME AbsorbPending PROVE ControlInv'
  BY <1>8 DEF AbsorbPending
<1>9. ASSUME UnclaimedResults PROVE ControlInv'
  BY <1>9 DEF UnclaimedResults, Refund
<1>10. ASSUME RunBusy PROVE ControlInv'
  BY <1>10 DEF RunBusy, GiveUp, Refund
<1>11. ASSUME RunBegins PROVE ControlInv'
  BY <1>11 DEF RunBegins
<1>12. ASSUME RunFails PROVE ControlInv'
  BY <1>12 DEF RunFails, GiveUp, Refund
<1>13. ASSUME RunReturns PROVE ControlInv'
  BY <1>13 DEF RunReturns
<1>14. ASSUME DeadlinePasses PROVE ControlInv'
  BY <1>14 DEF DeadlinePasses
<1>15. ASSUME MarkWokeTasks PROVE ControlInv'
  BY <1>15 DEF MarkWokeTasks
<1>16. ASSUME UserTurnBegins PROVE ControlInv'
  BY <1>16 DEF UserTurnBegins
<1>17. ASSUME UserTurnEnds PROVE ControlInv'
  BY <1>17 DEF UserTurnEnds
<1>19. ASSUME RunSkips PROVE ControlInv'
  BY <1>19 DEF RunSkips
<1>18. CASE UNCHANGED vars
  BY <1>18 DEF vars
<1>. QED
  BY <1>1, <1>2, <1>3, <1>4, <1>5, <1>6, <1>7, <1>8, <1>9, <1>10, <1>11,
     <1>12, <1>13, <1>14, <1>15, <1>16, <1>17, <1>18, <1>19 DEF Next, Drain

\* A task leaves a batch only finished; the mark comes with the turn.
LEMMA BatchStep == IInv /\ [Next]_vars => BatchInv'
<1> SUFFICES ASSUME IInv, [Next]_vars PROVE BatchInv'
  OBVIOUS
<1> USE DEF IInv, TypeOK, ControlInv, BatchInv, Reserved, WakePending, poolVars, skips, history, End
<1>1. ASSUME NEW t \in Tasks, Finish(t) PROVE BatchInv'
  BY <1>1 DEF Finish
<1>2. ASSUME NEW t \in Tasks, OnSnapshot(t) PROVE BatchInv'
  BY <1>2 DEF OnSnapshot
<1>3. ASSUME NEW t \in Tasks, Collect(t) PROVE BatchInv'
  BY <1>3 DEF Collect
<1>4. ASSUME NEW t \in Tasks, Forget(t) PROVE BatchInv'
  BY <1>4 DEF Forget
<1>5. ASSUME SetDraining PROVE BatchInv'
  BY <1>5 DEF SetDraining
<1>6. ASSUME TakeBatch PROVE BatchInv'
  BY <1>6 DEF TakeBatch
<1>7. ASSUME CheckDraining PROVE BatchInv'
  BY <1>7 DEF CheckDraining, GiveUp, Refund
<1>8. ASSUME AbsorbPending PROVE BatchInv'
  BY <1>8 DEF AbsorbPending
<1>9. ASSUME UnclaimedResults PROVE BatchInv'
  BY <1>9 DEF UnclaimedResults, Refund
<1>10. ASSUME RunBusy PROVE BatchInv'
  BY <1>10 DEF RunBusy, GiveUp, Refund
<1>11. ASSUME RunBegins PROVE BatchInv'
  BY <1>11 DEF RunBegins
<1>12. ASSUME RunFails PROVE BatchInv'
  BY <1>12 DEF RunFails, GiveUp, Refund
<1>13. ASSUME RunReturns PROVE BatchInv'
  BY <1>13 DEF RunReturns
<1>14. ASSUME DeadlinePasses PROVE BatchInv'
  BY <1>14 DEF DeadlinePasses
<1>15. ASSUME MarkWokeTasks PROVE BatchInv'
  BY <1>15 DEF MarkWokeTasks
<1>16. ASSUME UserTurnBegins PROVE BatchInv'
  BY <1>16 DEF UserTurnBegins
<1>17. ASSUME UserTurnEnds PROVE BatchInv'
  BY <1>17 DEF UserTurnEnds
<1>19. ASSUME RunSkips PROVE BatchInv'
  BY <1>19 DEF RunSkips
<1>18. CASE UNCHANGED vars
  BY <1>18 DEF vars
<1>. QED
  BY <1>1, <1>2, <1>3, <1>4, <1>5, <1>6, <1>7, <1>8, <1>9, <1>10, <1>11,
     <1>12, <1>13, <1>14, <1>15, <1>16, <1>17, <1>18, <1>19 DEF Next, Drain

\* The flag falls with an empty queue or with a batch that was given up.
LEMMA ServedStep == IInv /\ [Next]_vars => PendingIsServed'
<1> SUFFICES ASSUME IInv, [Next]_vars PROVE PendingIsServed'
  OBVIOUS
<1> USE DEF IInv, TypeOK, ControlInv, PendingIsServed, Reserved, poolVars, skips, history, End
<1>1. ASSUME NEW t \in Tasks, Finish(t) PROVE PendingIsServed'
  BY <1>1 DEF Finish
<1>2. ASSUME NEW t \in Tasks, OnSnapshot(t) PROVE PendingIsServed'
  BY <1>2 DEF OnSnapshot
<1>3. ASSUME NEW t \in Tasks, Collect(t) PROVE PendingIsServed'
  BY <1>3 DEF Collect
<1>4. ASSUME NEW t \in Tasks, Forget(t) PROVE PendingIsServed'
  BY <1>4 DEF Forget
<1>5. ASSUME SetDraining PROVE PendingIsServed'
  BY <1>5 DEF SetDraining
<1>6. ASSUME TakeBatch PROVE PendingIsServed'
  BY <1>6 DEF TakeBatch
<1>7. ASSUME CheckDraining PROVE PendingIsServed'
  BY <1>7 DEF CheckDraining, GiveUp, Refund
<1>8. ASSUME AbsorbPending PROVE PendingIsServed'
  BY <1>8 DEF AbsorbPending
<1>9. ASSUME UnclaimedResults PROVE PendingIsServed'
  BY <1>9 DEF UnclaimedResults, Refund
<1>10. ASSUME RunBusy PROVE PendingIsServed'
  BY <1>10 DEF RunBusy, GiveUp, Refund
<1>11. ASSUME RunBegins PROVE PendingIsServed'
  BY <1>11 DEF RunBegins
<1>12. ASSUME RunFails PROVE PendingIsServed'
  BY <1>12 DEF RunFails, GiveUp, Refund
<1>13. ASSUME RunReturns PROVE PendingIsServed'
  BY <1>13 DEF RunReturns
<1>14. ASSUME DeadlinePasses PROVE PendingIsServed'
  BY <1>14 DEF DeadlinePasses
<1>15. ASSUME MarkWokeTasks PROVE PendingIsServed'
  BY <1>15 DEF MarkWokeTasks
<1>16. ASSUME UserTurnBegins PROVE PendingIsServed'
  BY <1>16 DEF UserTurnBegins
<1>17. ASSUME UserTurnEnds PROVE PendingIsServed'
  BY <1>17 DEF UserTurnEnds
<1>19. ASSUME RunSkips PROVE PendingIsServed'
  BY <1>19 DEF RunSkips
<1>18. CASE UNCHANGED vars
  BY <1>18 DEF vars
<1>. QED
  BY <1>1, <1>2, <1>3, <1>4, <1>5, <1>6, <1>7, <1>8, <1>9, <1>10, <1>11,
     <1>12, <1>13, <1>14, <1>15, <1>16, <1>17, <1>18, <1>19 DEF Next, Drain

\* What leaves one of the sets enters another in the same step.
LEMMA VanishStep == IInv /\ [Next]_vars => NothingVanishes'
<1> SUFFICES ASSUME IInv, [Next]_vars PROVE NothingVanishes'
  OBVIOUS
<1> USE DEF IInv, TypeOK, ControlInv, BatchInv, NothingVanishes, Reserved, WakePending, poolVars, skips, history, End
<1>1. ASSUME NEW t \in Tasks, Finish(t) PROVE NothingVanishes'
  BY <1>1 DEF Finish
<1>2. ASSUME NEW t \in Tasks, OnSnapshot(t) PROVE NothingVanishes'
  BY <1>2 DEF OnSnapshot
<1>3. ASSUME NEW t \in Tasks, Collect(t) PROVE NothingVanishes'
  BY <1>3 DEF Collect
<1>4. ASSUME NEW t \in Tasks, Forget(t) PROVE NothingVanishes'
  BY <1>4 DEF Forget
<1>5. ASSUME SetDraining PROVE NothingVanishes'
  BY <1>5 DEF SetDraining
<1>6. ASSUME TakeBatch PROVE NothingVanishes'
  BY <1>6 DEF TakeBatch
<1>7. ASSUME CheckDraining PROVE NothingVanishes'
  BY <1>7 DEF CheckDraining, GiveUp, Refund
<1>8. ASSUME AbsorbPending PROVE NothingVanishes'
  BY <1>8 DEF AbsorbPending
<1>9. ASSUME UnclaimedResults PROVE NothingVanishes'
  BY <1>9 DEF UnclaimedResults, Refund
<1>10. ASSUME RunBusy PROVE NothingVanishes'
  BY <1>10 DEF RunBusy, GiveUp, Refund
<1>11. ASSUME RunBegins PROVE NothingVanishes'
  BY <1>11 DEF RunBegins
<1>12. ASSUME RunFails PROVE NothingVanishes'
  BY <1>12 DEF RunFails, GiveUp, Refund
<1>13. ASSUME RunReturns PROVE NothingVanishes'
  BY <1>13 DEF RunReturns
<1>14. ASSUME DeadlinePasses PROVE NothingVanishes'
  BY <1>14 DEF DeadlinePasses
<1>15. ASSUME MarkWokeTasks PROVE NothingVanishes'
  BY <1>15 DEF MarkWokeTasks
<1>16. ASSUME UserTurnBegins PROVE NothingVanishes'
  BY <1>16 DEF UserTurnBegins
<1>17. ASSUME UserTurnEnds PROVE NothingVanishes'
  BY <1>17 DEF UserTurnEnds
<1>19. ASSUME RunSkips PROVE NothingVanishes'
  BY <1>19 DEF RunSkips
<1>18. CASE UNCHANGED vars
  BY <1>18 DEF vars
<1>. QED
  BY <1>1, <1>2, <1>3, <1>4, <1>5, <1>6, <1>7, <1>8, <1>9, <1>10, <1>11,
     <1>12, <1>13, <1>14, <1>15, <1>16, <1>17, <1>18, <1>19 DEF Next, Drain

\* A reservation is taken, paid back or spent exactly once.
LEMMA BudgetStep == IInv /\ [Next]_vars => BudgetHonest'
<1> SUFFICES ASSUME IInv, [Next]_vars PROVE BudgetHonest'
  OBVIOUS
<1> USE DEF IInv, TypeOK, ControlInv, BudgetHonest, Reserved, poolVars, skips, history, End
<1>1. ASSUME NEW t \in Tasks, Finish(t) PROVE BudgetHonest'
  BY <1>1 DEF Finish
<1>2. ASSUME NEW t \in Tasks, OnSnapshot(t) PROVE BudgetHonest'
  BY <1>2 DEF OnSnapshot
<1>3. ASSUME NEW t \in Tasks, Collect(t) PROVE BudgetHonest'
  BY <1>3 DEF Collect
<1>4. ASSUME NEW t \in Tasks, Forget(t) PROVE BudgetHonest'
  BY <1>4 DEF Forget
<1>5. ASSUME SetDraining PROVE BudgetHonest'
  BY <1>5 DEF SetDraining
<1>6. ASSUME TakeBatch PROVE BudgetHonest'
  <2>1. pc = "settle" /\ clean' = clean /\ unpaid' = unpaid /\ wakes = clean + unpaid
    BY <1>6 DEF TakeBatch
  <2>2. \/ pc' = "none" /\ wakes' = wakes
        \/ pc' = "attempt" /\ wakes' = wakes + 1
    BY <1>6 DEF TakeBatch
  <2>. QED
    BY <2>1, <2>2
<1>7. ASSUME CheckDraining PROVE BudgetHonest'
  <2>1. wakes > 0 /\ wakes - 1 = clean + unpaid /\ wakes = clean + unpaid + 1
    BY <1>7, ReservedIsPositive DEF CheckDraining
  <2>2. CASE pc' = "none" /\ wakes' = wakes - 1
    BY <1>7, <2>1, <2>2 DEF CheckDraining
  <2>3. CASE pc' = "absorb" /\ wakes' = wakes
    BY <1>7, <2>1, <2>3 DEF CheckDraining
  <2>4. \/ pc' = "none" /\ wakes' = wakes - 1
        \/ pc' = "absorb" /\ wakes' = wakes
    BY <1>7, <2>1 DEF CheckDraining, GiveUp, Refund
  <2>. QED
    BY <2>2, <2>3, <2>4
<1>8. ASSUME AbsorbPending PROVE BudgetHonest'
  BY <1>8 DEF AbsorbPending
<1>9. ASSUME UnclaimedResults PROVE BudgetHonest'
  <2>1. wakes > 0 /\ wakes - 1 = clean + unpaid /\ wakes = clean + unpaid + 1
    BY <1>9, ReservedIsPositive DEF UnclaimedResults
  <2>2. CASE pc' = "settle" /\ wakes' = wakes - 1
    BY <1>9, <2>1, <2>2 DEF UnclaimedResults
  <2>3. CASE pc' = "run" /\ wakes' = wakes
    BY <1>9, <2>1, <2>3 DEF UnclaimedResults
  <2>4. \/ pc' = "settle" /\ wakes' = wakes - 1
        \/ pc' = "run" /\ wakes' = wakes
    BY <1>9, <2>1 DEF UnclaimedResults, Refund
  <2>. QED
    BY <2>2, <2>3, <2>4
<1>10. ASSUME RunBusy PROVE BudgetHonest'
  <2>1. wakes > 0 /\ wakes - 1 = clean + unpaid /\ wakes = clean + unpaid + 1
    BY <1>10, ReservedIsPositive DEF RunBusy
  <2>2. CASE pc' = "none" /\ wakes' = wakes - 1
    BY <1>10, <2>1, <2>2 DEF RunBusy
  <2>3. CASE pc' = "attempt" /\ wakes' = wakes
    BY <1>10, <2>1, <2>3 DEF RunBusy
  <2>4. \/ pc' = "none" /\ wakes' = wakes - 1
        \/ pc' = "attempt" /\ wakes' = wakes
    BY <1>10, <2>1 DEF RunBusy, GiveUp, Refund
  <2>. QED
    BY <2>2, <2>3, <2>4
<1>11. ASSUME RunBegins PROVE BudgetHonest'
  BY <1>11 DEF RunBegins
<1>12. ASSUME RunFails PROVE BudgetHonest'
  BY <1>12, ReservedIsPositive DEF RunFails, GiveUp, Refund
<1>13. ASSUME RunReturns PROVE BudgetHonest'
  BY <1>13, MaxWakesAssumption DEF RunReturns
<1>14. ASSUME DeadlinePasses PROVE BudgetHonest'
  BY <1>14 DEF DeadlinePasses
<1>15. ASSUME MarkWokeTasks PROVE BudgetHonest'
  BY <1>15 DEF MarkWokeTasks
<1>16. ASSUME UserTurnBegins PROVE BudgetHonest'
  BY <1>16 DEF UserTurnBegins
<1>17. ASSUME UserTurnEnds PROVE BudgetHonest'
  BY <1>17 DEF UserTurnEnds
<1>19. ASSUME RunSkips PROVE BudgetHonest'
  BY <1>19, MaxWakesAssumption DEF RunSkips
<1>18. CASE UNCHANGED vars
  BY <1>18 DEF vars
<1>. QED
  BY <1>1, <1>2, <1>3, <1>4, <1>5, <1>6, <1>7, <1>8, <1>9, <1>10, <1>11,
     <1>12, <1>13, <1>14, <1>15, <1>16, <1>17, <1>18, <1>19 DEF Next, Drain

LEMMA InvariantHolds == Spec => []IInv
<1>1. IInv /\ [Next]_vars => IInv'
  BY TypeStep, ControlStep, BatchStep, ServedStep, VanishStep, BudgetStep DEF IInv
<1>. QED
  BY InitEstablishes, <1>1, PTL DEF Spec

\* The waker's state keeps its types; in particular the wakes charged to a
\* session never exceed maxWakesPerSession.
THEOREM TypeCorrect == Spec => []TypeOK
<1>1. IInv => TypeOK
  BY DEF IInv
<1>. QED
  BY <1>1, InvariantHolds, PTL

\* A queued outcome always has a drain goroutine, unless the last goroutine
\* ended by giving its own batch up (OnSnapshot and drain share one flag).
THEOREM QueueIsServed == Spec => []PendingIsServed
<1>1. IInv => PendingIsServed
  BY DEF IInv
<1>. QED
  BY <1>1, InvariantHolds, PTL

\* No interleaving of watchers, the drain goroutine, turns and the operator
\* makes the outcome of a finished task disappear, unless the turn that was to
\* tell it was skipped by a process that goes away.
THEOREM NoOutcomeVanishes == Spec => []NothingVanishes
<1>1. IInv => NothingVanishes
  BY DEF IInv
<1>. QED
  BY <1>1, InvariantHolds, PTL

\* refundWake pays back every reservation that bought no turn, once; only those of
\* skipped turns stay spent.
THEOREM RefundsAreExact == Spec => []BudgetHonest
<1>1. IInv => BudgetHonest
  BY DEF IInv
<1>. QED
  BY <1>1, InvariantHolds, PTL

-------------------------------------------------------------------------------
(*****************************************************************************)
(* The bundle.  The inductive invariant BundleInv says of every process what *)
(* its place tells of the history it holds, of the stamps it compares, of its*)
(* cache and of the save under way.                                          *)
(*****************************************************************************)

Places == {"absent", "loading", "idle", "refresh", "turn", "rewind", "rewound", "saved"}
\* Where a State is while its process holds the turn lock, and past the refresh.
Locked == {"refresh", "turn", "rewind", "rewound", "saved"}
Inside == {"turn", "rewind", "rewound", "saved"}

StateT == [pc : Places, goal : {"turn", "rewind"}, msgs : Seq(Ids),
           seen : MaybeVersion, metaSeen : MaybeVersion, moved : BOOLEAN, metaMoved : BOOLEAN,
           seq : 0..MaxTurns, statFile : MaybeVersion, statMeta : MaybeVersion,
           diverged : BOOLEAN, known : SUBSET Ids]
CacheT == [ver : MaybeVersion, msgs : Seq(Ids), moved : BOOLEAN, edited : BOOLEAN]

FilesTyped ==
  /\ disk \in [msgs : Seq(Ids), ver : Versions]
  /\ meta \in [count : 0..MaxMsgs, of : Versions, seq : 0..MaxTurns, ver : Versions]
  /\ holder \in Procs \cup {Nobody} /\ nextId \in 1..(MaxMsgs + 1) /\ cut \subseteq Ids
  /\ left \in [touch : Nat, rewind : Nat, fault : 0..MaxFaults, crash : Nat]

ProcsTyped ==
  /\ state \in [Procs -> StateT] /\ cache \in [Procs -> CacheT]
  /\ save \in [Procs -> {"none", "wanted", "meta"}]
  /\ job \in [Procs -> [stale : BOOLEAN, skipMeta : BOOLEAN]]

\* A history names messages that were appended, each once.
Proper(m, n) ==
  /\ \A i \in 1..Len(m) : m[i] < n
  /\ \A i, j \in 1..Len(m) : m[i] = m[j] => i = j
HistoriesProper(p) ==
  /\ Proper(state[p].msgs, nextId) /\ Proper(cache[p].msgs, nextId)
  /\ ToSet(state[p].msgs) \subseteq state[p].known

\* Who saves, and who holds the turn lock.
TurnsExclude(p) ==
  /\ save[p] # "none" => state[p].pc \in {"idle", "turn", "rewound", "saved"}
  /\ state[p].pc \in Locked => holder = p
  /\ state[p].pc = "refresh" => ~state[p].moved
OneSaves == \A p, q \in Procs : save[p] = "meta" /\ save[q] = "meta" => p = q

\* What the flags of a cache entry say of it, failed saves or not.
CacheTells(p) ==
  /\ cache[p].ver = disk.ver => cache[p].msgs = disk.msgs
  /\ cache[p].ver # 0 /\ ~cache[p].moved => cache[p].msgs = state[p].msgs
  /\ cache[p].ver # 0 /\ ~cache[p].edited => IsPrefix(cache[p].msgs, state[p].msgs)
  /\ state[p].pc \in {"absent", "loading"} => cache[p].ver = 0

\* A save past the transcript knows what it holds; a history that moved is being saved, or
\* was not, which its State remembers.
SavesTell(p) ==
  /\ save[p] = "meta" /\ ~job[p].stale => disk.msgs = state[p].msgs
  /\ save[p] = "meta" /\ job[p].stale => ~state[p].moved
  /\ save[p] = "meta" /\ job[p].skipMeta => state[p].seq <= meta.seq
  /\ save[p] = "none" /\ state[p].moved => state[p].diverged
  /\ state[p].moved /\ ~state[p].diverged => state[p].pc \in Inside

\* A stamp that names the file as it stands is true of it, and a refresh that found nothing
\* changed still stands before that file.
StampTells(p) ==
  /\ /\ state[p].pc \notin {"absent", "loading"} /\ ~state[p].moved
     /\ state[p].seen = disk.ver /\ ~state[p].diverged
     => state[p].msgs = disk.msgs
  /\ /\ state[p].pc = "refresh" /\ ~state[p].diverged /\ state[p].statFile = state[p].seen
     => state[p].seen = disk.ver

\* Inside a turn nothing of the transcript is news.
NothingUnseen(p) ==
  state[p].pc \in Inside /\ ~state[p].diverged => ToSet(disk.msgs) \subseteq state[p].known

\* As long as nothing failed, only the turn that runs is ahead of the counter on disk.
TurnsCounted(p) ==
  left.fault = MaxFaults =>
    /\ state[p].seq <= meta.seq \/ (save[p] # "none" /\ state[p].pc = "turn")
    /\ state[p].pc = "turn" => state[p].seq >= meta.seq

\* What holds of one process, its State and its store.
ProcessTells(p) ==
  /\ HistoriesProper(p) /\ TurnsExclude(p) /\ CacheTells(p) /\ SavesTell(p)
  /\ StampTells(p) /\ NothingUnseen(p) /\ TurnsCounted(p)

BundleInv ==
  /\ FilesTyped /\ ProcsTyped /\ Proper(disk.msgs, nextId) /\ OneSaves /\ CountIsTrue
  /\ \A p \in Procs : ProcessTells(p)

-------------------------------------------------------------------------------
\* A version nothing refers to is there to be taken: each process refers to three of the
\* transcript and two of session.json at most, and the files name two more.
LEMMA FreshIsUnused ==
  ASSUME NEW used, IsFiniteSet(used), Cardinality(used) < 3 * Cardinality(Procs) + 4
  PROVE  Fresh(used) \in Versions /\ Fresh(used) \notin used
<1>1. Cardinality(Procs) \in Nat
  BY ProcsAssumption, FS_CardinalityType
<1>2. Cardinality(Versions) = 3 * Cardinality(Procs) + 4 /\ Cardinality(used) \in Nat
  BY <1>1, FS_Interval, FS_CardinalityType DEF Versions
<1>3. ~(Versions \subseteq used)
  BY <1>1, <1>2, FS_Subset
<1>4. \E v \in Versions : v \notin used
  BY <1>3
<1> QED
  BY <1>4 DEF Fresh

\* What a function takes on a finite set is no more than the set.
LEMMA ImageIsNoLarger ==
  ASSUME NEW f, f = [p \in Procs |-> f[p]]
  PROVE  /\ IsFiniteSet({f[p] : p \in Procs})
         /\ Cardinality({f[p] : p \in Procs}) \in Nat
         /\ Cardinality({f[p] : p \in Procs}) <= Cardinality(Procs)
<1> DEFINE T == {f[p] : p \in Procs}
<1>1. f \in [Procs -> T] /\ \A t \in T : \E p \in Procs : f[p] = t
  OBVIOUS
<1>2. f \in Surjection(Procs, T)
  BY <1>1 DEF Surjection
<1> QED
  BY <1>2, ProcsAssumption, FS_Surjection, FS_CardinalityType

LEMMA UnionIsNoLarger ==
  ASSUME NEW A, NEW B, IsFiniteSet(A), IsFiniteSet(B), NEW m \in Nat, NEW n \in Nat,
         Cardinality(A) <= m, Cardinality(B) <= n
  PROVE  IsFiniteSet(A \cup B) /\ Cardinality(A \cup B) <= m + n
<1>1. Cardinality(A) \in Nat /\ Cardinality(B) \in Nat
  BY FS_CardinalityType
<1>2. IsFiniteSet(A \cap B) /\ Cardinality(A \cap B) \in Nat
  BY FS_Intersection, FS_CardinalityType
<1>3. Cardinality(A \cup B) = Cardinality(A) + Cardinality(B) - Cardinality(A \cap B)
  BY FS_Union
<1> QED
  BY <1>1, <1>2, <1>3, FS_Union

LEMMA PairIsSmall ==
  ASSUME NEW a, NEW b
  PROVE  IsFiniteSet({a, b}) /\ Cardinality({a, b}) <= 2 /\ IsFiniteSet({a}) /\ Cardinality({a}) <= 2
<1>1. IsFiniteSet({a}) /\ Cardinality({a}) = 1
  BY FS_Singleton
<1>2. {a, b} = {a} \cup {b}
  OBVIOUS
<1>3. IsFiniteSet({a} \cup {b}) /\ Cardinality({a} \cup {b}) \in {1, 2}
  BY <1>1, FS_AddElement
<1> QED
  BY <1>1, <1>2, <1>3

LEMMA NewFileVersionIsNew ==
  /\ NewFileVersion \in Versions /\ NewFileVersion # disk.ver /\ NewFileVersion # meta.of
  /\ \A p \in Procs : /\ NewFileVersion # state[p].seen /\ NewFileVersion # cache[p].ver
                      /\ NewFileVersion # state[p].statFile
<1> DEFINE n == Cardinality(Procs)
           A == {disk.ver, meta.of}
           B == {state[p].seen : p \in Procs}
           C == {cache[p].ver : p \in Procs}
           D == {state[p].statFile : p \in Procs}
<1>1. n \in Nat
  BY ProcsAssumption, FS_CardinalityType
<1>2. IsFiniteSet(A) /\ Cardinality(A) <= 2
  BY PairIsSmall
<1>3. IsFiniteSet(B) /\ Cardinality(B) <= n
  <2> DEFINE f == [p \in Procs |-> state[p].seen]
  <2>1. B = {f[p] : p \in Procs} /\ f = [p \in Procs |-> f[p]]
    OBVIOUS
  <2> HIDE DEF f
  <2> QED BY <2>1, ImageIsNoLarger
<1>4. IsFiniteSet(C) /\ Cardinality(C) <= n
  <2> DEFINE f == [p \in Procs |-> cache[p].ver]
  <2>1. C = {f[p] : p \in Procs} /\ f = [p \in Procs |-> f[p]]
    OBVIOUS
  <2> HIDE DEF f
  <2> QED BY <2>1, ImageIsNoLarger
<1>5. IsFiniteSet(D) /\ Cardinality(D) <= n
  <2> DEFINE f == [p \in Procs |-> state[p].statFile]
  <2>1. D = {f[p] : p \in Procs} /\ f = [p \in Procs |-> f[p]]
    OBVIOUS
  <2> HIDE DEF f
  <2> QED BY <2>1, ImageIsNoLarger
<1>6. NewFileVersion = Fresh(A \cup B \cup C \cup D)
  BY DEF NewFileVersion
<1>7. /\ disk.ver \in A /\ meta.of \in A
      /\ \A p \in Procs : state[p].seen \in B /\ cache[p].ver \in C /\ state[p].statFile \in D
  OBVIOUS
<1> HIDE DEF n, A, B, C, D
<1>8. IsFiniteSet(A \cup B) /\ Cardinality(A \cup B) <= 2 + n
  BY <1>1, <1>2, <1>3, UnionIsNoLarger
<1>9. IsFiniteSet(A \cup B \cup C) /\ Cardinality(A \cup B \cup C) <= 2 + n + n
  BY <1>1, <1>4, <1>8, 2 + n \in Nat, UnionIsNoLarger
<1>10. IsFiniteSet(A \cup B \cup C \cup D) /\ Cardinality(A \cup B \cup C \cup D) <= 2 + n + n + n
  BY <1>1, <1>5, <1>9, 2 + n + n \in Nat, UnionIsNoLarger
<1>11. Cardinality(A \cup B \cup C \cup D) < 3 * n + 4
  BY <1>1, <1>10, FS_CardinalityType
<1>12. Fresh(A \cup B \cup C \cup D) \in Versions /\ Fresh(A \cup B \cup C \cup D) \notin (A \cup B \cup C \cup D)
  BY <1>10, <1>11, FreshIsUnused DEF n
<1> QED
  BY <1>6, <1>7, <1>12

LEMMA NewMetaVersionIsThere == NewMetaVersion \in Versions
<1> DEFINE n == Cardinality(Procs)
           A == {meta.ver}
           B == {state[p].metaSeen : p \in Procs}
           C == {state[p].statMeta : p \in Procs}
<1>1. n \in Nat
  BY ProcsAssumption, FS_CardinalityType
<1>2. IsFiniteSet(A) /\ Cardinality(A) <= 2
  BY PairIsSmall
<1>3. IsFiniteSet(B) /\ Cardinality(B) <= n
  <2> DEFINE f == [p \in Procs |-> state[p].metaSeen]
  <2>1. B = {f[p] : p \in Procs} /\ f = [p \in Procs |-> f[p]]
    OBVIOUS
  <2> HIDE DEF f
  <2> QED BY <2>1, ImageIsNoLarger
<1>4. IsFiniteSet(C) /\ Cardinality(C) <= n
  <2> DEFINE f == [p \in Procs |-> state[p].statMeta]
  <2>1. C = {f[p] : p \in Procs} /\ f = [p \in Procs |-> f[p]]
    OBVIOUS
  <2> HIDE DEF f
  <2> QED BY <2>1, ImageIsNoLarger
<1>5. NewMetaVersion = Fresh(A \cup B \cup C)
  BY DEF NewMetaVersion
<1> HIDE DEF n, A, B, C
<1>6. IsFiniteSet(A \cup B) /\ Cardinality(A \cup B) <= 2 + n
  BY <1>1, <1>2, <1>3, UnionIsNoLarger
<1>7. IsFiniteSet(A \cup B \cup C) /\ Cardinality(A \cup B \cup C) <= 2 + n + n
  BY <1>1, <1>4, <1>6, 2 + n \in Nat, UnionIsNoLarger
<1>8. Cardinality(A \cup B \cup C) < 3 * n + 4
  BY <1>1, <1>7, FS_CardinalityType
<1> QED
  BY <1>5, <1>7, <1>8, FreshIsUnused DEF n

-------------------------------------------------------------------------------
\* A history that names each message once is no longer than the messages there are.
LEMMA HistoryFits ==
  ASSUME NEW m \in Seq(Ids), NEW n \in 1..(MaxMsgs + 1), Proper(m, n)
  PROVE  Len(m) <= MaxMsgs /\ Cardinality(ToSet(m)) = Len(m) /\ m \in Histories
<1>1. Len(m) \in Nat /\ MaxMsgs \in Nat /\ m \in [1..Len(m) -> Ids] /\ DOMAIN m = 1..Len(m)
  BY BoundsAssumption
<1>2. ASSUME NEW k \in Nat PROVE IsFiniteSet(1..k) /\ Cardinality(1..k) = k
  <2>1. IsFiniteSet(1..k) /\ Cardinality(1..k) = IF 1 > k THEN 0 ELSE k - 1 + 1
    BY FS_Interval
  <2> QED BY <2>1
<1>3. IsFiniteSet(Ids) /\ Cardinality(Ids) = MaxMsgs
  BY <1>1, <1>2 DEF Ids
<1>4. m \in Injection(1..Len(m), Ids)
  BY <1>1 DEF Proper, Injection, IsInjective
<1>5. Len(m) <= MaxMsgs
  BY <1>1, <1>2, <1>3, <1>4, FS_Injection
<1>6. m \in Bijection(1..Len(m), ToSet(m))
  BY <1>1, <1>4 DEF ToSet, Injection, Surjection, Bijection, IsInjective
<1>7. Cardinality(ToSet(m)) = Len(m)
  BY <1>1, <1>2, <1>6, FS_Bijection DEF ExistsBijection
<1>8. Len(m) \in 0..MaxMsgs /\ m \in [1..Len(m) -> Ids]
  BY <1>1, <1>5
<1> QED
  BY <1>5, <1>7, <1>8 DEF Histories

\* A history spliced onto what was written last is that history, as long as what was
\* written last is where it began.
LEMMA SpliceIsWhole ==
  ASSUME NEW base \in Seq(Ids), NEW ours \in Seq(Ids), IsPrefix(base, ours)
  PROVE  base \o SubSeq(ours, Len(base) + 1, Len(ours)) = ours
<1> DEFINE tail == SubSeq(ours, Len(base) + 1, Len(ours))
           both == base \o tail
<1>1. Len(base) \in Nat /\ Len(ours) \in Nat /\ Len(base) <= Len(ours)
  BY DEF IsPrefix
<1>2. \A i \in 1..Len(base) : base[i] = ours[i]
  <2> TAKE i \in 1..Len(base)
  <2>1. SubSeq(base, 1, Len(base))[i] = SubSeq(ours, 1, Len(base))[i]
    BY DEF IsPrefix
  <2> QED
    BY <1>1, <2>1
<1>3. tail \in Seq(Ids) /\ Len(tail) = Len(ours) - Len(base)
  BY <1>1
<1>4. both \in Seq(Ids) /\ Len(both) = Len(ours)
  BY <1>1, <1>3
<1>5. \A i \in 1..Len(ours) : both[i] = ours[i]
  <2> TAKE i \in 1..Len(ours)
  <2>1. CASE i <= Len(base)
    BY <1>1, <1>2, <1>3, <2>1
  <2>2. CASE i > Len(base)
    <3>1. both[i] = tail[i - Len(base)]
      BY <1>1, <1>3, <2>2
    <3>2. tail[i - Len(base)] = ours[i]
      BY <1>1, <2>2
    <3> QED BY <3>1, <3>2
  <2> QED BY <1>1, <2>1, <2>2
<1> HIDE DEF both, tail
<1>6. both = ours
  BY <1>4, <1>5
<1> QED
  BY <1>6 DEF both, tail

\* A history is where it began, and still where one that only grew began.
LEMMA PrefixGrows ==
  ASSUME NEW m \in Seq(Ids), NEW n \in Seq(Ids), NEW x \in Ids
  PROVE  IsPrefix(m, m) /\ (IsPrefix(m, n) => IsPrefix(m, Append(n, x)))
<1>1. IsPrefix(m, m)
  BY DEF IsPrefix
<1>2. ASSUME IsPrefix(m, n) PROVE IsPrefix(m, Append(n, x))
  <2>1. Len(m) \in Nat /\ Len(n) \in Nat /\ Len(m) <= Len(n) /\ Len(Append(n, x)) = Len(n) + 1
    BY <1>2 DEF IsPrefix
  <2>2. SubSeq(Append(n, x), 1, Len(m)) = SubSeq(n, 1, Len(m))
    BY <2>1
  <2> QED
    BY <1>2, <2>1, <2>2 DEF IsPrefix
<1> QED
  BY <1>1, <1>2

\* What a history or one older than it names.
LEMMA PrefixIsKnown ==
  ASSUME NEW m \in Seq(Ids), NEW n \in Seq(Ids), ~Newer(m, n)
  PROVE  ToSet(m) \subseteq ToSet(n)
<1>1. CASE m = <<>>
  BY <1>1 DEF ToSet
<1>2. CASE IsPrefix(m, n)
  <2>1. Len(m) \in Nat /\ Len(n) \in Nat /\ Len(m) <= Len(n)
    BY <1>2 DEF IsPrefix
  <2>2. \A i \in 1..Len(m) : m[i] = n[i]
    <3> TAKE i \in 1..Len(m)
    <3>1. SubSeq(m, 1, Len(m))[i] = SubSeq(n, 1, Len(m))[i]
      BY <1>2 DEF IsPrefix
    <3> QED BY <2>1, <3>1
  <2> QED BY <2>1, <2>2 DEF ToSet
<1> QED
  BY <1>1, <1>2 DEF Newer

\* A history that grew by a new message, and one that was cut.
LEMMA ProperGrows ==
  ASSUME NEW m \in Seq(Ids), NEW n \in Nat, Proper(m, n)
  PROVE  Proper(m, n + 1) /\ Proper(Append(m, n), n + 1)
<1>1. Len(m) \in Nat /\ \A i \in 1..Len(m) : m[i] \in Nat
  BY BoundsAssumption DEF Ids
<1>2. Proper(m, n + 1)
  BY <1>1 DEF Proper
<1>3. /\ Len(Append(m, n)) = Len(m) + 1 /\ Append(m, n)[Len(m) + 1] = n
      /\ \A i \in 1..Len(m) : Append(m, n)[i] = m[i]
  BY <1>1
<1>4. ASSUME NEW i \in 1..(Len(m) + 1) PROVE Append(m, n)[i] < n + 1
  BY <1>1, <1>3, <1>4 DEF Proper
<1>5. ASSUME NEW i \in 1..(Len(m) + 1), NEW j \in 1..(Len(m) + 1),
             Append(m, n)[i] = Append(m, n)[j]
      PROVE  i = j
  <2>1. CASE i <= Len(m) /\ j <= Len(m)
    BY <1>1, <1>3, <1>5, <2>1 DEF Proper
  <2>2. CASE i = Len(m) + 1 /\ j <= Len(m)
    BY <1>1, <1>3, <1>5, <2>2 DEF Proper
  <2>3. CASE j = Len(m) + 1 /\ i <= Len(m)
    BY <1>1, <1>3, <1>5, <2>3 DEF Proper
  <2> QED BY <1>1, <2>1, <2>2, <2>3
<1> QED
  BY <1>2, <1>3, <1>4, <1>5 DEF Proper

LEMMA ProperCut ==
  ASSUME NEW m \in Seq(Ids), NEW n \in Nat, NEW k \in 0..(Len(m) - 1), Proper(m, n)
  PROVE  /\ SubSeq(m, 1, k) \in Seq(Ids) /\ Proper(SubSeq(m, 1, k), n)
         /\ ToSet(SubSeq(m, 1, k)) \subseteq ToSet(m)
         /\ ToSet(SubSeq(m, k + 1, Len(m))) \subseteq Ids
<1>1. Len(m) \in Nat /\ k <= Len(m) /\ Len(SubSeq(m, 1, k)) = k
  OBVIOUS
<1>2. \A i \in 1..k : SubSeq(m, 1, k)[i] = m[i]
  BY <1>1
<1>3. SubSeq(m, 1, k) \in Seq(Ids) /\ SubSeq(m, k + 1, Len(m)) \in Seq(Ids)
  BY <1>1
<1> HIDE DEF Ids
<1>4. Proper(SubSeq(m, 1, k), n)
  BY <1>1, <1>2 DEF Proper
<1>5. ToSet(SubSeq(m, 1, k)) \subseteq ToSet(m)
  BY <1>1, <1>2, <1>3 DEF ToSet
<1>6. ToSet(SubSeq(m, k + 1, Len(m))) \subseteq Ids
  BY <1>3 DEF ToSet
<1> QED
  BY <1>3, <1>4, <1>5, <1>6

-------------------------------------------------------------------------------
(* What a State is after each of the ways it changes. *)

LEMMA AbsentTyped == Absent \in StateT
<1>1. <<>> \in Seq(Ids) /\ 0 \in 0..MaxTurns /\ 0 \in MaybeVersion /\ {} \in SUBSET Ids
  BY BoundsAssumption DEF MaybeVersion
<1>2. "absent" \in Places
  BY DEF Places
<1> HIDE DEF Ids
<1> QED
  BY <1>1, <1>2 DEF Absent, StateT

LEMMA RestoredIs ==
  ASSUME FilesTyped, ProcsTyped, NEW p \in Procs, NEW msgs \in Seq(Ids)
  PROVE  LET s == state[p]
             t == Restored(p, msgs) IN
         /\ t \in StateT /\ t.pc = s.pc /\ t.goal = s.goal /\ t.msgs = msgs
         /\ t.known = s.known \cup ToSet(msgs) /\ t.moved = FALSE /\ t.seq = meta.seq
         /\ t.seen = s.statFile /\ t.diverged = s.diverged
<1>1. ToSet(msgs) \subseteq Ids
  BY DEF ToSet
<1>2. meta.seq \in 0..MaxTurns /\ state[p] \in StateT
  BY DEF FilesTyped, ProcsTyped
<1> SUFFICES ASSUME NEW s \in StateT, s = state[p], NEW t, t = Restored(p, msgs)
             PROVE  /\ t \in StateT /\ t.pc = s.pc /\ t.goal = s.goal /\ t.msgs = msgs
                    /\ t.known = s.known \cup ToSet(msgs) /\ t.moved = FALSE /\ t.seq = meta.seq
                    /\ t.seen = s.statFile /\ t.diverged = s.diverged
  BY <1>2
<1> DEFINE n == meta.seq
           told == ToSet(msgs)
<1>3. t = [s EXCEPT !.msgs = msgs, !.known = @ \cup told, !.moved = FALSE,
                    !.metaMoved = FALSE, !.seq = n, !.seen = s.statFile,
                    !.metaSeen = s.statMeta, !.statFile = 0, !.statMeta = 0]
  BY DEF Restored
<1>4. n \in 0..MaxTurns /\ told \subseteq Ids
  BY <1>1, <1>2
<1> HIDE DEF n, told
<1>6. [s EXCEPT !.msgs = msgs, !.known = @ \cup told, !.moved = FALSE,
                !.metaMoved = FALSE, !.seq = n, !.seen = s.statFile,
                !.metaSeen = s.statMeta, !.statFile = 0, !.statMeta = 0] \in StateT
  BY <1>4, ZenonT(30) DEF StateT, MaybeVersion
<1>7. t \in StateT
  BY <1>3, <1>6
<1>5. /\ t \in StateT /\ t.pc = s.pc /\ t.goal = s.goal /\ t.msgs = msgs
      /\ t.known = s.known \cup told /\ t.moved = FALSE /\ t.seq = n
      /\ t.seen = s.statFile /\ t.diverged = s.diverged
  BY <1>3, <1>7 DEF StateT
<1> QED
  BY <1>5 DEF n, told

LEMMA EnteredIs ==
  ASSUME FilesTyped, NEW s \in StateT
  PROVE  LET t == Entered(s) IN
         /\ t \in StateT /\ t.pc = s.goal /\ t.goal = "turn" /\ t.msgs = s.msgs /\ t.known = s.known
         /\ t.moved = s.moved /\ t.seen = s.seen /\ t.diverged = s.diverged
         /\ s.goal = "turn" => t.seq = Larger(s.seq, meta.seq)
         /\ s.goal # "turn" => t.seq = s.seq
<1> DEFINE n == IF s.goal = "turn" THEN Larger(s.seq, meta.seq) ELSE s.seq
<1>1. s.seq \in 0..MaxTurns /\ meta.seq \in 0..MaxTurns
  BY DEF StateT, FilesTyped
<1>2. n \in 0..MaxTurns
  BY <1>1 DEF Larger
<1>3. Entered(s) = [s EXCEPT !.pc = s.goal, !.goal = "turn", !.statFile = 0, !.statMeta = 0,
                             !.seq = n]
  BY DEF Entered, StateT
<1> HIDE DEF n
<1> SUFFICES ASSUME NEW t, t = Entered(s)
             PROVE  /\ t \in StateT /\ t.pc = s.goal /\ t.goal = "turn" /\ t.msgs = s.msgs
                    /\ t.known = s.known
                    /\ t.moved = s.moved /\ t.seen = s.seen /\ t.diverged = s.diverged
                    /\ s.goal = "turn" => t.seq = Larger(s.seq, meta.seq)
                    /\ s.goal # "turn" => t.seq = s.seq
  OBVIOUS
<1>4. /\ t \in StateT /\ t.pc = s.goal /\ t.goal = "turn" /\ t.msgs = s.msgs /\ t.known = s.known
      /\ t.moved = s.moved /\ t.seen = s.seen /\ t.diverged = s.diverged /\ t.seq = n
  BY <1>2, <1>3, ZenonT(30) DEF StateT, Places, MaybeVersion
<1> QED
  BY <1>4 DEF n

\* One field of a State changes, or a few.
LEMMA GoalIs ==
  ASSUME NEW s \in StateT, NEW goal \in {"turn", "rewind"}
  PROVE  LET t == [s EXCEPT !.goal = goal] IN
         /\ t \in StateT /\ t.pc = s.pc /\ t.goal = goal /\ t.msgs = s.msgs /\ t.known = s.known
         /\ t.moved = s.moved /\ t.seen = s.seen /\ t.diverged = s.diverged /\ t.seq = s.seq
         /\ t.metaSeen = s.metaSeen
BY DEF StateT

LEMMA RefreshingIs ==
  ASSUME NEW s \in StateT, NEW v \in Versions, NEW w \in Versions
  PROVE  LET t == [s EXCEPT !.pc = "refresh", !.statFile = v, !.statMeta = w] IN
         /\ t \in StateT /\ t.pc = "refresh" /\ t.goal = s.goal /\ t.msgs = s.msgs
         /\ t.known = s.known /\ t.moved = s.moved /\ t.seen = s.seen
         /\ t.diverged = s.diverged /\ t.seq = s.seq /\ t.statFile = v
BY DEF StateT, Places, MaybeVersion

LEMMA PlaceIs ==
  ASSUME NEW s \in StateT, NEW place \in Places
  PROVE  LET t == [s EXCEPT !.pc = place] IN
         /\ t \in StateT /\ t.pc = place /\ t.msgs = s.msgs /\ t.known = s.known
         /\ t.moved = s.moved /\ t.seen = s.seen /\ t.diverged = s.diverged /\ t.seq = s.seq
BY DEF StateT

LEMMA LoadedIs ==
  ASSUME NEW s \in StateT, NEW b \in BOOLEAN
  PROVE  LET t == [s EXCEPT !.pc = "idle", !.diverged = b] IN
         /\ t \in StateT /\ t.pc = "idle" /\ t.msgs = s.msgs /\ t.known = s.known
         /\ t.moved = s.moved /\ t.seen = s.seen /\ t.diverged = b /\ t.seq = s.seq
BY DEF StateT, Places

LEMMA DivergedIs ==
  ASSUME NEW s \in StateT, NEW b \in BOOLEAN
  PROVE  LET t == [s EXCEPT !.diverged = b] IN
         /\ t \in StateT /\ t.pc = s.pc /\ t.goal = s.goal /\ t.msgs = s.msgs /\ t.known = s.known
         /\ t.moved = s.moved /\ t.seen = s.seen /\ t.diverged = b /\ t.seq = s.seq
         /\ t.statFile = s.statFile
BY DEF StateT

LEMMA AppendedIs ==
  ASSUME NEW s \in StateT, NEW x \in Ids
  PROVE  LET t == [s EXCEPT !.msgs = Append(@, x), !.known = @ \cup {x}, !.moved = TRUE] IN
         /\ t \in StateT /\ t.pc = s.pc /\ t.msgs = Append(s.msgs, x) /\ t.known = s.known \cup {x}
         /\ t.moved = TRUE /\ t.seen = s.seen /\ t.diverged = s.diverged /\ t.seq = s.seq
<1> DEFINE m == Append(s.msgs, x)
           k == s.known \cup {x}
<1>1. m \in Seq(Ids) /\ k \in SUBSET Ids
  BY DEF StateT
<1> HIDE DEF m, k
<1>2. [s EXCEPT !.msgs = m, !.known = k, !.moved = TRUE] \in StateT
  BY <1>1 DEF StateT
<1>3. ASSUME NEW t \in StateT, t = [s EXCEPT !.msgs = m, !.known = k, !.moved = TRUE]
      PROVE  /\ t.pc = s.pc /\ t.msgs = m /\ t.known = k
             /\ t.moved = TRUE /\ t.seen = s.seen /\ t.diverged = s.diverged /\ t.seq = s.seq
  BY <1>3 DEF StateT
<1> QED
  BY <1>2, <1>3 DEF m, k

LEMMA CutIs ==
  ASSUME NEW s \in StateT, NEW k \in 0..(Len(s.msgs) - 1)
  PROVE  LET t == [s EXCEPT !.pc = "rewound", !.msgs = SubSeq(@, 1, k), !.moved = TRUE] IN
         /\ t \in StateT /\ t.pc = "rewound" /\ t.msgs = SubSeq(s.msgs, 1, k) /\ t.known = s.known
         /\ t.moved = TRUE /\ t.seen = s.seen /\ t.diverged = s.diverged /\ t.seq = s.seq
<1>1. s.msgs \in Seq(Ids)
  BY DEF StateT
<1>2. SubSeq(s.msgs, 1, k) \in Seq(Ids)
  BY <1>1
<1> QED
  BY <1>2 DEF StateT, Places

LEMMA CountedIs ==
  ASSUME NEW s \in StateT, s.seq < MaxTurns
  PROVE  LET t == [s EXCEPT !.seq = @ + 1] IN
         /\ t \in StateT /\ t.pc = s.pc /\ t.msgs = s.msgs /\ t.known = s.known
         /\ t.moved = s.moved /\ t.seen = s.seen /\ t.diverged = s.diverged /\ t.seq = s.seq + 1
<1>1. s.seq + 1 \in 0..MaxTurns
  BY BoundsAssumption DEF StateT
<1> QED
  BY <1>1 DEF StateT

LEMMA TouchedIs ==
  ASSUME NEW s \in StateT, NEW own \in BOOLEAN
  PROVE  LET t == [s EXCEPT !.metaMoved = @ \/ own] IN
         /\ t \in StateT /\ t.pc = s.pc /\ t.msgs = s.msgs /\ t.known = s.known
         /\ t.moved = s.moved /\ t.seen = s.seen /\ t.diverged = s.diverged /\ t.seq = s.seq
<1>1. s.metaMoved \in BOOLEAN
  BY DEF StateT
<1>2. (s.metaMoved \/ own) \in BOOLEAN
  BY <1>1
<1> QED
  BY <1>2 DEF StateT

LEMMA MetaSeenIs ==
  ASSUME NEW s \in StateT, NEW w \in Versions
  PROVE  LET t == [s EXCEPT !.metaMoved = FALSE, !.metaSeen = w] IN
         /\ t \in StateT /\ t.pc = s.pc /\ t.msgs = s.msgs /\ t.known = s.known
         /\ t.moved = s.moved /\ t.seen = s.seen /\ t.diverged = s.diverged /\ t.seq = s.seq
         /\ t.statFile = s.statFile
BY DEF StateT, MaybeVersion

LEMMA CurrentIs ==
  ASSUME NEW s \in StateT, NEW v \in Versions
  PROVE  LET t == [s EXCEPT !.seen = v, !.moved = FALSE, !.diverged = FALSE] IN
         /\ t \in StateT /\ t.pc = s.pc /\ t.msgs = s.msgs /\ t.known = s.known
         /\ t.moved = FALSE /\ t.seen = v /\ t.diverged = FALSE /\ t.seq = s.seq
         /\ t.statFile = s.statFile
BY DEF StateT, MaybeVersion

LEMMA LoadingIs ==
  ASSUME NEW v \in Versions, NEW w \in Versions
  PROVE  LET t == [Absent EXCEPT !.pc = "loading", !.statFile = v, !.statMeta = w] IN
         /\ t \in StateT /\ t.pc = "loading" /\ t.msgs = <<>> /\ t.moved = FALSE /\ t.known = {}
         /\ t.seq = 0
<1>1. Absent.msgs = <<>> /\ Absent.moved = FALSE /\ Absent.known = {} /\ Absent.seq = 0
  BY DEF Absent
<1>2. ASSUME NEW a \in StateT, NEW t, t = [a EXCEPT !.pc = "loading", !.statFile = v, !.statMeta = w]
      PROVE  /\ t \in StateT /\ t.pc = "loading" /\ t.msgs = a.msgs /\ t.moved = a.moved
             /\ t.known = a.known /\ t.seq = a.seq
  BY <1>2 DEF StateT, Places, MaybeVersion
<1> QED
  BY <1>1, <1>2, AbsentTyped

LEMMA ProperEmpty == ASSUME NEW n PROVE Proper(<<>>, n) /\ ToSet(<<>>) = {}
BY DEF Proper, ToSet

LEMMA FaultSpent ==
  ASSUME FilesTyped, Spend("fault")
  PROVE  /\ left' \in [touch : Nat, rewind : Nat, fault : 0..MaxFaults, crash : Nat]
         /\ left'.fault # MaxFaults
<1>1. left.fault > 0 /\ left.fault \in 0..MaxFaults /\ left' = [left EXCEPT !.fault = left.fault - 1]
  BY DEF Spend, FilesTyped
<1>2. left.fault - 1 \in 0..MaxFaults /\ left.fault - 1 # MaxFaults
  BY <1>1, BoundsAssumption
<1> QED
  BY <1>1, <1>2 DEF FilesTyped

LEMMA OtherSpent ==
  ASSUME FilesTyped, NEW what \in {"touch", "rewind", "crash"}, Spend(what)
  PROVE  /\ left' \in [touch : Nat, rewind : Nat, fault : 0..MaxFaults, crash : Nat]
         /\ left'.fault = left.fault
<1>1. CASE what = "touch"
  BY <1>1 DEF Spend, FilesTyped
<1>2. CASE what = "rewind"
  BY <1>2 DEF Spend, FilesTyped
<1>3. CASE what = "crash"
  BY <1>3 DEF Spend, FilesTyped
<1> QED
  BY <1>1, <1>2, <1>3

-------------------------------------------------------------------------------
\* What a step of one process leaves to the others, as long as it writes neither file.
Standing(p) ==
  /\ \A q \in Procs : q # p => /\ state'[q] = state[q] /\ cache'[q] = cache[q]
                               /\ save'[q] = save[q] /\ job'[q] = job[q]
  /\ disk' = disk /\ meta' = meta /\ nextId' \in {nextId, nextId + 1}
  /\ holder' = holder \/ holder \in {p, Nobody}
  /\ save'[p] = "meta" => save[p] = "meta" \/ \A q \in Procs : save[q] # "meta"
  /\ left'.fault = MaxFaults => left.fault = MaxFaults

LEMMA ProperStays ==
  ASSUME NEW m \in Seq(Ids), NEW n \in Nat, NEW k \in {n, n + 1}, Proper(m, n)
  PROVE  Proper(m, k)
BY ProperGrows

\* Of the others, then, what held holds; what is left of a step is what it makes of its own
\* process.
LEMMA OthersStand ==
  ASSUME BundleInv, NEW p \in Procs, Standing(p), FilesTyped', ProcsTyped', ProcessTells(p)'
  PROVE  BundleInv'
<1>1. /\ FilesTyped /\ ProcsTyped /\ Proper(disk.msgs, nextId) /\ OneSaves /\ CountIsTrue
      /\ \A q \in Procs : ProcessTells(q)
  BY DEF BundleInv
<1>2. nextId \in Nat /\ nextId' \in {nextId, nextId + 1} /\ disk.msgs \in Seq(Ids)
  BY <1>1, BoundsAssumption DEF FilesTyped, Standing
<1>3. Proper(disk.msgs, nextId)'
  BY <1>1, <1>2, ProperStays DEF Standing
<1>4. OneSaves'
  BY <1>1 DEF OneSaves, Standing
<1>5. CountIsTrue'
  BY <1>1 DEF CountIsTrue, Standing
<1>6. ASSUME NEW q \in Procs, q # p PROVE ProcessTells(q)'
  <2>1. /\ state'[q] = state[q] /\ cache'[q] = cache[q] /\ save'[q] = save[q] /\ job'[q] = job[q]
        /\ disk' = disk /\ meta' = meta
    BY <1>6 DEF Standing
  <2>2. state[q].msgs \in Seq(Ids) /\ cache[q].msgs \in Seq(Ids)
    BY <1>1 DEF ProcsTyped, StateT, CacheT
  <2>3. HistoriesProper(q)'
    BY <1>1, <1>2, <2>1, <2>2, ProperStays DEF ProcessTells, HistoriesProper
  <2>4. TurnsExclude(q)'
    <3>1. TurnsExclude(q)
      BY <1>1 DEF ProcessTells
    <3>2. state[q].pc \in Locked => holder' = q
      BY <1>6, <3>1, ProcsAssumption DEF TurnsExclude, Standing
    <3> QED BY <2>1, <3>1, <3>2 DEF TurnsExclude
  <2>5. CacheTells(q)'
    BY <1>1, <2>1 DEF ProcessTells, CacheTells
  <2>6. SavesTell(q)'
    BY <1>1, <2>1 DEF ProcessTells, SavesTell
  <2>7. StampTells(q)'
    BY <1>1, <2>1 DEF ProcessTells, StampTells
  <2>8. NothingUnseen(q)'
    BY <1>1, <2>1 DEF ProcessTells, NothingUnseen
  <2>9. TurnsCounted(q)'
    BY <1>1, <2>1 DEF ProcessTells, TurnsCounted, Standing
  <2> QED BY <2>3, <2>4, <2>5, <2>6, <2>7, <2>8, <2>9 DEF ProcessTells
<1> QED
  BY <1>1, <1>3, <1>4, <1>5, <1>6 DEF BundleInv

\* A turn ends once nothing of it is left to save.
LEMMA EndTurnStep ==
  ASSUME BundleInv, NEW p \in Procs, EndTurn(p)
  PROVE  BundleInv'
<1>1. FilesTyped /\ ProcsTyped /\ state[p] \in StateT /\ cache[p] \in CacheT /\ ProcessTells(p)
  BY DEF BundleInv, ProcsTyped
<1> DEFINE t == [state[p] EXCEPT !.pc = "idle"]
<1>2. t \in StateT /\ t.pc = "idle" /\ t.msgs = state[p].msgs /\ t.known = state[p].known
      /\ t.moved = state[p].moved /\ t.seen = state[p].seen /\ t.diverged = state[p].diverged
      /\ t.seq = state[p].seq
  BY <1>1, PlaceIs DEF Places
<1>3. state' = [state EXCEPT ![p] = t]
  BY DEF EndTurn, Set
<1>4. state[p].pc \in {"turn", "rewind", "saved"} /\ save[p] = "none"
  BY DEF EndTurn
<1> HIDE DEF t
<1>5. /\ state'[p] = t /\ cache' = cache /\ save' = save /\ job' = job /\ nextId' = nextId /\ holder' = Nobody
      /\ left' = left
      /\ disk' = disk /\ meta' = meta
  BY <1>1, <1>3, <1>4 DEF ProcsTyped, FilesTyped, CacheT, Spend, EndTurn
<1>6. Standing(p)
  BY <1>1, <1>3, <1>4, <1>5 DEF Standing, Spend, EndTurn, ProcsTyped, FilesTyped, ProcessTells, TurnsExclude, Locked
<1>7. FilesTyped'
  BY <1>1, <1>4, <1>5 DEF FilesTyped, Spend, EndTurn
<1>8. ProcsTyped'
  BY <1>1, <1>2, <1>3 DEF ProcsTyped, CacheT, EndTurn
<1>11. HistoriesProper(p)'
  BY <1>1, <1>2, <1>4, <1>5 DEF HistoriesProper, ProcessTells
<1>12. TurnsExclude(p)'
  BY <1>1, <1>2, <1>4, <1>5 DEF TurnsExclude, ProcessTells, Locked
<1>13. CacheTells(p)'
  BY <1>1, <1>2, <1>4, <1>5 DEF CacheTells, ProcessTells
<1>14. SavesTell(p)'
  BY <1>1, <1>2, <1>4, <1>5 DEF SavesTell, ProcessTells, Inside
<1>15. StampTells(p)'
  BY <1>1, <1>2, <1>4, <1>5 DEF StampTells, ProcessTells
<1>16. NothingUnseen(p)'
  BY <1>1, <1>2, <1>4, <1>5 DEF NothingUnseen, ProcessTells, Inside
<1>17. TurnsCounted(p)'
  BY <1>1, <1>2, <1>4, <1>5 DEF TurnsCounted, ProcessTells
<1> QED
  BY <1>6, <1>7, <1>8, <1>11, <1>12, <1>13, <1>14, <1>15, <1>16, <1>17, OthersStand DEF ProcessTells

\* The outcome of a turn is counted ahead of the file.
LEMMA OutcomeStep ==
  ASSUME BundleInv, NEW p \in Procs, Outcome(p)
  PROVE  BundleInv'
<1>1. FilesTyped /\ ProcsTyped /\ state[p] \in StateT /\ cache[p] \in CacheT /\ ProcessTells(p)
  BY DEF BundleInv, ProcsTyped
<1> DEFINE t == [state[p] EXCEPT !.seq = @ + 1]
<1>2. t \in StateT /\ t.pc = state[p].pc /\ t.msgs = state[p].msgs /\ t.known = state[p].known
      /\ t.moved = state[p].moved /\ t.seen = state[p].seen /\ t.diverged = state[p].diverged
      /\ t.seq = state[p].seq + 1
  BY <1>1, CountedIs DEF Outcome
<1>3. state' = [state EXCEPT ![p] = t]
  BY DEF Outcome, Set
<1>4. state[p].pc = "turn" /\ save[p] = "none" /\ state[p].seq < MaxTurns
  BY DEF Outcome
<1> HIDE DEF t
<1>5. /\ state'[p] = t /\ cache' = cache /\ save'[p] = "wanted" /\ job' = job /\ nextId' = nextId
      /\ holder' = holder /\ left' = left
      /\ disk' = disk /\ meta' = meta
  BY <1>1, <1>3, <1>4 DEF ProcsTyped, FilesTyped, CacheT, Spend, Outcome
<1>6. Standing(p)
  BY <1>1, <1>3, <1>4, <1>5 DEF Standing, Spend, Outcome, ProcsTyped, FilesTyped
<1>7. FilesTyped'
  BY <1>1, <1>4, <1>5 DEF FilesTyped, Spend, Outcome
<1>8. ProcsTyped'
  BY <1>1, <1>2, <1>3 DEF ProcsTyped, CacheT, Outcome
<1>9. meta.seq \in Nat /\ state[p].seq \in Nat
  BY <1>1, BoundsAssumption DEF FilesTyped, StateT
<1>11. HistoriesProper(p)'
  BY <1>1, <1>2, <1>4, <1>5 DEF HistoriesProper, ProcessTells
<1>12. TurnsExclude(p)'
  BY <1>1, <1>2, <1>4, <1>5 DEF TurnsExclude, ProcessTells, Locked
<1>13. CacheTells(p)'
  BY <1>1, <1>2, <1>4, <1>5 DEF CacheTells, ProcessTells
<1>14. SavesTell(p)'
  BY <1>1, <1>2, <1>4, <1>5 DEF SavesTell, ProcessTells, Inside
<1>15. StampTells(p)'
  BY <1>1, <1>2, <1>4, <1>5 DEF StampTells, ProcessTells
<1>16. NothingUnseen(p)'
  BY <1>1, <1>2, <1>4, <1>5 DEF NothingUnseen, ProcessTells, Inside
<1>17. TurnsCounted(p)'
  BY <1>1, <1>2, <1>4, <1>5, <1>9 DEF TurnsCounted, ProcessTells
<1> QED
  BY <1>6, <1>7, <1>8, <1>11, <1>12, <1>13, <1>14, <1>15, <1>16, <1>17, OthersStand DEF ProcessTells

\* A rewind saves a second time.
LEMMA RewindSavesStep ==
  ASSUME BundleInv, NEW p \in Procs, RewindSaves(p)
  PROVE  BundleInv'
<1>1. FilesTyped /\ ProcsTyped /\ state[p] \in StateT /\ cache[p] \in CacheT /\ ProcessTells(p)
  BY DEF BundleInv, ProcsTyped
<1> DEFINE t == [state[p] EXCEPT !.pc = "saved"]
<1>2. t \in StateT /\ t.pc = "saved" /\ t.msgs = state[p].msgs /\ t.known = state[p].known
      /\ t.moved = state[p].moved /\ t.seen = state[p].seen /\ t.diverged = state[p].diverged
      /\ t.seq = state[p].seq
  BY <1>1, PlaceIs DEF Places
<1>3. state' = [state EXCEPT ![p] = t]
  BY DEF RewindSaves, Set
<1>4. state[p].pc = "rewound" /\ save[p] = "none"
  BY DEF RewindSaves
<1> HIDE DEF t
<1>5. /\ state'[p] = t /\ cache' = cache /\ save'[p] = "wanted" /\ job' = job /\ nextId' = nextId
      /\ holder' = holder /\ left' = left
      /\ disk' = disk /\ meta' = meta
  BY <1>1, <1>3, <1>4 DEF ProcsTyped, FilesTyped, CacheT, Spend, RewindSaves
<1>6. Standing(p)
  BY <1>1, <1>3, <1>4, <1>5 DEF Standing, Spend, RewindSaves, ProcsTyped, FilesTyped
<1>7. FilesTyped'
  BY <1>1, <1>4, <1>5 DEF FilesTyped, Spend, RewindSaves
<1>8. ProcsTyped'
  BY <1>1, <1>2, <1>3 DEF ProcsTyped, CacheT, RewindSaves
<1>11. HistoriesProper(p)'
  BY <1>1, <1>2, <1>4, <1>5 DEF HistoriesProper, ProcessTells
<1>12. TurnsExclude(p)'
  BY <1>1, <1>2, <1>4, <1>5 DEF TurnsExclude, ProcessTells, Locked
<1>13. CacheTells(p)'
  BY <1>1, <1>2, <1>4, <1>5 DEF CacheTells, ProcessTells
<1>14. SavesTell(p)'
  BY <1>1, <1>2, <1>4, <1>5 DEF SavesTell, ProcessTells, Inside
<1>15. StampTells(p)'
  BY <1>1, <1>2, <1>4, <1>5 DEF StampTells, ProcessTells
<1>16. NothingUnseen(p)'
  BY <1>1, <1>2, <1>4, <1>5 DEF NothingUnseen, ProcessTells, Inside
<1>17. TurnsCounted(p)'
  BY <1>1, <1>2, <1>4, <1>5 DEF TurnsCounted, ProcessTells
<1> QED
  BY <1>6, <1>7, <1>8, <1>11, <1>12, <1>13, <1>14, <1>15, <1>16, <1>17, OthersStand DEF ProcessTells

\* A change of the meta or of a sidecar is saved.
LEMMA TouchStep ==
  ASSUME BundleInv, NEW p \in Procs, NEW own \in BOOLEAN, Touch(p, own)
  PROVE  BundleInv'
<1>1. FilesTyped /\ ProcsTyped /\ state[p] \in StateT /\ cache[p] \in CacheT /\ ProcessTells(p)
  BY DEF BundleInv, ProcsTyped
<1> DEFINE t == [state[p] EXCEPT !.metaMoved = @ \/ own]
<1>2. t \in StateT /\ t.pc = state[p].pc /\ t.msgs = state[p].msgs /\ t.known = state[p].known
      /\ t.moved = state[p].moved /\ t.seen = state[p].seen /\ t.diverged = state[p].diverged
      /\ t.seq = state[p].seq
  BY <1>1, TouchedIs
<1>3. state' = [state EXCEPT ![p] = t]
  BY DEF Touch, Set
<1>4. state[p].pc \in {"idle", "turn"} /\ save[p] = "none"
  BY DEF Touch
<1> HIDE DEF t
<1>5. /\ state'[p] = t /\ cache' = cache /\ save'[p] = "wanted" /\ job' = job /\ nextId' = nextId
      /\ holder' = holder /\ left'.fault = left.fault
      /\ disk' = disk /\ meta' = meta
  BY <1>1, <1>3, <1>4 DEF ProcsTyped, FilesTyped, CacheT, Spend, Touch
<1>6. Standing(p)
  BY <1>1, <1>3, <1>4, <1>5 DEF Standing, Spend, Touch, ProcsTyped, FilesTyped
<1>7. FilesTyped'
  BY <1>1, <1>4, <1>5 DEF FilesTyped, Spend, Touch
<1>8. ProcsTyped'
  BY <1>1, <1>2, <1>3 DEF ProcsTyped, CacheT, Touch
<1>11. HistoriesProper(p)'
  BY <1>1, <1>2, <1>4, <1>5 DEF HistoriesProper, ProcessTells
<1>12. TurnsExclude(p)'
  BY <1>1, <1>2, <1>4, <1>5 DEF TurnsExclude, ProcessTells, Locked
<1>13. CacheTells(p)'
  BY <1>1, <1>2, <1>4, <1>5 DEF CacheTells, ProcessTells
<1>14. SavesTell(p)'
  BY <1>1, <1>2, <1>4, <1>5 DEF SavesTell, ProcessTells, Inside
<1>15. StampTells(p)'
  BY <1>1, <1>2, <1>4, <1>5 DEF StampTells, ProcessTells
<1>16. NothingUnseen(p)'
  BY <1>1, <1>2, <1>4, <1>5 DEF NothingUnseen, ProcessTells, Inside
<1>17. TurnsCounted(p)'
  BY <1>1, <1>2, <1>4, <1>5 DEF TurnsCounted, ProcessTells
<1> QED
  BY <1>6, <1>7, <1>8, <1>11, <1>12, <1>13, <1>14, <1>15, <1>16, <1>17, OthersStand DEF ProcessTells

\* A message is appended and saved.
LEMMA Append1Step ==
  ASSUME BundleInv, NEW p \in Procs, Append1(p)
  PROVE  BundleInv'
<1>1. FilesTyped /\ ProcsTyped /\ state[p] \in StateT /\ cache[p] \in CacheT /\ ProcessTells(p)
  BY DEF BundleInv, ProcsTyped
<1>0. nextId \in Ids /\ nextId \in Nat
  BY <1>1, BoundsAssumption DEF FilesTyped, Append1, Ids
<1> DEFINE t == [state[p] EXCEPT !.msgs = Append(@, nextId), !.known = @ \cup {nextId}, !.moved = TRUE]
<1>2. t \in StateT /\ t.pc = state[p].pc /\ t.msgs = Append(state[p].msgs, nextId)
      /\ t.known = state[p].known \cup {nextId} /\ t.moved = TRUE /\ t.seen = state[p].seen
      /\ t.diverged = state[p].diverged /\ t.seq = state[p].seq
  BY <1>1, <1>0, AppendedIs
<1>3. state' = [state EXCEPT ![p] = t]
  BY DEF Append1, Set
<1>4. state[p].pc = "turn" /\ save[p] = "none" /\ nextId <= MaxMsgs
  BY DEF Append1
<1> HIDE DEF t
<1>5. /\ state'[p] = t /\ cache'[p].ver = cache[p].ver /\ cache'[p].msgs = cache[p].msgs
      /\ cache'[p].moved = TRUE /\ cache'[p].edited = cache[p].edited
      /\ save'[p] = "wanted" /\ job' = job /\ nextId' = nextId + 1
      /\ holder' = holder /\ left' = left
      /\ disk' = disk /\ meta' = meta
  BY <1>1, <1>3, <1>4 DEF ProcsTyped, FilesTyped, CacheT, Spend, Append1
<1>6. Standing(p)
  BY <1>1, <1>3, <1>4, <1>5 DEF Standing, Spend, Append1, ProcsTyped, FilesTyped
<1>7. FilesTyped'
  BY <1>1, <1>4, <1>5, <1>0, BoundsAssumption, SMTT(30) DEF FilesTyped, Spend, Append1
<1>8. ProcsTyped'
  BY <1>1, <1>2, <1>3 DEF ProcsTyped, CacheT, Append1
<1>9. state[p].msgs \in Seq(Ids) /\ cache[p].msgs \in Seq(Ids)
      /\ t.msgs = Append(state[p].msgs, nextId)
  BY <1>1, <1>2 DEF StateT, CacheT
<1>11. HistoriesProper(p)'
  <2>1. Proper(t.msgs, nextId + 1) /\ Proper(cache[p].msgs, nextId + 1)
    BY <1>0, <1>1, <1>9, ProperGrows DEF ProcessTells, HistoriesProper
  <2>2. ToSet(t.msgs) \subseteq ToSet(state[p].msgs) \cup {nextId}
    BY <1>0, <1>9 DEF ToSet
  <2> QED BY <1>1, <1>2, <1>5, <2>1, <2>2 DEF ProcessTells, HistoriesProper
<1>12. TurnsExclude(p)'
  BY <1>1, <1>2, <1>4, <1>5 DEF TurnsExclude, ProcessTells, Locked
<1>13. CacheTells(p)'
  <2>1. cache[p].ver # 0 /\ ~cache[p].edited => IsPrefix(cache[p].msgs, t.msgs)
    BY <1>0, <1>1, <1>9, PrefixGrows DEF ProcessTells, CacheTells
  <2> QED BY <1>1, <1>2, <1>4, <1>5, <2>1 DEF ProcessTells, CacheTells
<1>14. SavesTell(p)'
  BY <1>1, <1>2, <1>4, <1>5 DEF SavesTell, ProcessTells, Inside
<1>15. StampTells(p)'
  BY <1>1, <1>2, <1>4, <1>5 DEF StampTells, ProcessTells
<1>16. NothingUnseen(p)'
  BY <1>1, <1>2, <1>4, <1>5 DEF NothingUnseen, ProcessTells, Inside
<1>17. TurnsCounted(p)'
  BY <1>1, <1>2, <1>4, <1>5 DEF TurnsCounted, ProcessTells
<1> QED
  BY <1>6, <1>7, <1>8, <1>11, <1>12, <1>13, <1>14, <1>15, <1>16, <1>17, OthersStand DEF ProcessTells

\* A State that starts to load holds nothing yet.
LEMMA LoadStatStep ==
  ASSUME BundleInv, NEW p \in Procs, LoadStat(p)
  PROVE  BundleInv'
<1>1. FilesTyped /\ ProcsTyped /\ state[p] \in StateT /\ cache[p] \in CacheT /\ ProcessTells(p)
  BY DEF BundleInv, ProcsTyped
<1> DEFINE t == [Absent EXCEPT !.pc = "loading", !.statFile = disk.ver, !.statMeta = meta.ver]
<1>2. t \in StateT /\ t.pc = "loading" /\ t.msgs = <<>> /\ t.moved = FALSE /\ t.known = {} /\ t.seq = 0
  BY <1>1, LoadingIs DEF FilesTyped
<1>3. state' = [state EXCEPT ![p] = t]
  BY DEF LoadStat, Set
<1>4. state[p].pc = "absent"
  BY DEF LoadStat
<1> HIDE DEF t
<1>5. /\ state'[p] = t /\ cache' = cache /\ save' = save /\ job' = job /\ nextId' = nextId /\ holder' = holder
      /\ left' = left
      /\ disk' = disk /\ meta' = meta
  BY <1>1, <1>3, <1>4 DEF ProcsTyped, FilesTyped, CacheT, Spend, LoadStat
<1>6. Standing(p)
  BY <1>1, <1>3, <1>4, <1>5 DEF Standing, Spend, LoadStat, ProcsTyped, FilesTyped
<1>7. FilesTyped'
  BY <1>1, <1>4, <1>5 DEF FilesTyped, Spend, LoadStat
<1>8. ProcsTyped'
  BY <1>1, <1>2, <1>3 DEF ProcsTyped, CacheT, LoadStat
<1>9. disk.ver \in Versions /\ 0 \notin Versions /\ meta.seq \in Nat /\ disk.msgs \in Seq(Ids)
  BY <1>1, BoundsAssumption DEF FilesTyped, Versions
<1>11. HistoriesProper(p)'
  BY <1>1, <1>2, <1>4, <1>5, ProperEmpty DEF HistoriesProper, ProcessTells
<1>12. TurnsExclude(p)'
  BY <1>1, <1>2, <1>4, <1>5 DEF TurnsExclude, ProcessTells, Locked
<1>13. CacheTells(p)'
  BY <1>1, <1>2, <1>4, <1>5, <1>9 DEF CacheTells, ProcessTells
<1>14. SavesTell(p)'
  <2>1. save[p] = "none"
    BY <1>1, <1>4 DEF ProcessTells, TurnsExclude
  <2> QED BY <1>2, <1>5, <2>1 DEF SavesTell
<1>15. StampTells(p)'
  BY <1>1, <1>2, <1>4, <1>5 DEF StampTells, ProcessTells
<1>16. NothingUnseen(p)'
  BY <1>1, <1>2, <1>4, <1>5 DEF NothingUnseen, ProcessTells, Inside
<1>17. TurnsCounted(p)'
  BY <1>1, <1>2, <1>4, <1>5, <1>9 DEF TurnsCounted, ProcessTells
<1> QED
  BY <1>6, <1>7, <1>8, <1>11, <1>12, <1>13, <1>14, <1>15, <1>16, <1>17, OthersStand DEF ProcessTells

\* A State is loaded: it holds the transcript.
LEMMA LoadReadStep ==
  ASSUME BundleInv, NEW p \in Procs, LoadRead(p)
  PROVE  BundleInv'
<1>1. FilesTyped /\ ProcsTyped /\ state[p] \in StateT /\ cache[p] \in CacheT /\ ProcessTells(p)
  BY DEF BundleInv, ProcsTyped
<1>9. disk.ver \in Versions /\ 0 \notin Versions /\ meta.seq \in Nat /\ disk.msgs \in Seq(Ids)
  BY <1>1, BoundsAssumption DEF FilesTyped, Versions
<1> DEFINE r == Restored(p, disk.msgs)
<1>10. LET s == state[p] IN
       /\ r \in StateT /\ r.pc = s.pc /\ r.goal = s.goal /\ r.msgs = disk.msgs
       /\ r.known = s.known \cup ToSet(disk.msgs) /\ r.moved = FALSE /\ r.seq = meta.seq
       /\ r.seen = s.statFile /\ r.diverged = s.diverged
  BY <1>1, <1>9, RestoredIs
<1> HIDE DEF r
<1> DEFINE t == [r EXCEPT !.pc = "idle", !.diverged = FALSE]
<1>2. t \in StateT /\ t.pc = "idle" /\ t.msgs = disk.msgs /\ t.moved = FALSE
      /\ t.known = state[p].known \cup ToSet(disk.msgs) /\ t.seq = meta.seq /\ t.diverged = FALSE
  BY <1>1, <1>10, LoadedIs
<1>3. state' = [state EXCEPT ![p] = t]
  BY DEF LoadRead, Set, r
<1>4. state[p].pc = "loading"
  BY DEF LoadRead
<1> HIDE DEF t
<1>5. /\ state'[p] = t /\ cache' = cache /\ save' = save /\ job' = job /\ nextId' = nextId /\ holder' = holder
      /\ left' = left
      /\ disk' = disk /\ meta' = meta
  BY <1>1, <1>3, <1>4 DEF ProcsTyped, FilesTyped, CacheT, Spend, LoadRead
<1>6. Standing(p)
  BY <1>1, <1>3, <1>4, <1>5 DEF Standing, Spend, LoadRead, ProcsTyped, FilesTyped
<1>7. FilesTyped'
  BY <1>1, <1>4, <1>5 DEF FilesTyped, Spend, LoadRead
<1>8. ProcsTyped'
  BY <1>1, <1>2, <1>3 DEF ProcsTyped, CacheT, LoadRead
<1>18. Proper(disk.msgs, nextId)
  BY DEF BundleInv
<1>11. HistoriesProper(p)'
  BY <1>1, <1>2, <1>4, <1>5, <1>18 DEF HistoriesProper, ProcessTells
<1>12. TurnsExclude(p)'
  BY <1>1, <1>2, <1>4, <1>5 DEF TurnsExclude, ProcessTells, Locked
<1>13. CacheTells(p)'
  BY <1>1, <1>2, <1>4, <1>5, <1>9 DEF CacheTells, ProcessTells
<1>14. SavesTell(p)'
  <2>1. save[p] = "none"
    BY <1>1, <1>4 DEF ProcessTells, TurnsExclude
  <2> QED BY <1>2, <1>5, <2>1 DEF SavesTell
<1>15. StampTells(p)'
  BY <1>1, <1>2, <1>4, <1>5 DEF StampTells, ProcessTells
<1>16. NothingUnseen(p)'
  BY <1>1, <1>2, <1>4, <1>5 DEF NothingUnseen, ProcessTells, Inside
<1>17. TurnsCounted(p)'
  BY <1>1, <1>2, <1>4, <1>5, <1>9 DEF TurnsCounted, ProcessTells
<1> QED
  BY <1>6, <1>7, <1>8, <1>11, <1>12, <1>13, <1>14, <1>15, <1>16, <1>17, OthersStand DEF ProcessTells

\* A transcript that cannot be read is taken for an empty one.
LEMMA LoadReadFailsStep ==
  ASSUME BundleInv, NEW p \in Procs, LoadReadFails(p)
  PROVE  BundleInv'
<1>1. FilesTyped /\ ProcsTyped /\ state[p] \in StateT /\ cache[p] \in CacheT /\ ProcessTells(p)
  BY DEF BundleInv, ProcsTyped
<1>9. disk.ver \in Versions /\ 0 \notin Versions /\ meta.seq \in Nat /\ disk.msgs \in Seq(Ids)
  BY <1>1, BoundsAssumption DEF FilesTyped, Versions
<1>0. /\ left' \in [touch : Nat, rewind : Nat, fault : 0..MaxFaults, crash : Nat]
      /\ left'.fault # MaxFaults
  BY <1>1, FaultSpent DEF LoadReadFails
<1> DEFINE r == Restored(p, <<>>)
<1>10. LET s == state[p] IN
       /\ r \in StateT /\ r.pc = s.pc /\ r.goal = s.goal /\ r.msgs = <<>>
       /\ r.known = s.known \cup ToSet(<<>>) /\ r.moved = FALSE /\ r.seq = meta.seq
       /\ r.seen = s.statFile /\ r.diverged = s.diverged
  BY <1>1, <1>9, <<>> \in Seq(Ids), RestoredIs
<1> HIDE DEF r
<1> DEFINE t == [r EXCEPT !.pc = "idle", !.diverged = (disk.msgs # <<>>)]
<1>2. t \in StateT /\ t.pc = "idle" /\ t.msgs = <<>> /\ t.moved = FALSE
      /\ t.known = state[p].known \cup ToSet(<<>>) /\ t.seq = meta.seq
      /\ t.diverged = (disk.msgs # <<>>)
  BY <1>1, <1>10, (disk.msgs # <<>>) \in BOOLEAN, LoadedIs, ZenonT(30)
<1>3. state' = [state EXCEPT ![p] = t]
  BY DEF LoadReadFails, Set, r
<1>4. state[p].pc = "loading"
  BY DEF LoadReadFails
<1> HIDE DEF t
<1>5. /\ state'[p] = t /\ cache' = cache /\ save' = save /\ job' = job /\ nextId' = nextId /\ holder' = holder
      /\ left'.fault # MaxFaults
      /\ disk' = disk /\ meta' = meta
  BY <1>1, <1>3, <1>4, <1>0 DEF ProcsTyped, FilesTyped, CacheT, Spend, LoadReadFails
<1>6. Standing(p)
  BY <1>1, <1>3, <1>4, <1>5 DEF Standing, Spend, LoadReadFails, ProcsTyped, FilesTyped
<1>7. FilesTyped'
  BY <1>1, <1>4, <1>5, <1>0 DEF FilesTyped, Spend, LoadReadFails
<1>8. ProcsTyped'
  BY <1>1, <1>2, <1>3 DEF ProcsTyped, CacheT, LoadReadFails
<1>11. HistoriesProper(p)'
  BY <1>1, <1>2, <1>4, <1>5, ProperEmpty DEF HistoriesProper, ProcessTells
<1>12. TurnsExclude(p)'
  BY <1>1, <1>2, <1>4, <1>5 DEF TurnsExclude, ProcessTells, Locked
<1>13. CacheTells(p)'
  BY <1>1, <1>2, <1>4, <1>5, <1>9 DEF CacheTells, ProcessTells
<1>14. SavesTell(p)'
  <2>1. save[p] = "none"
    BY <1>1, <1>4 DEF ProcessTells, TurnsExclude
  <2> QED BY <1>2, <1>5, <2>1 DEF SavesTell
<1>15. StampTells(p)'
  BY <1>1, <1>2, <1>4, <1>5 DEF StampTells, ProcessTells
<1>16. NothingUnseen(p)'
  BY <1>1, <1>2, <1>4, <1>5 DEF NothingUnseen, ProcessTells, Inside
<1>17. TurnsCounted(p)'
  BY <1>1, <1>2, <1>4, <1>5, <1>9 DEF TurnsCounted, ProcessTells
<1> QED
  BY <1>6, <1>7, <1>8, <1>11, <1>12, <1>13, <1>14, <1>15, <1>16, <1>17, OthersStand DEF ProcessTells

\* A rewind cuts the history and saves it.
LEMMA RewindStep ==
  ASSUME BundleInv, NEW p \in Procs, Rewind(p)
  PROVE  BundleInv'
<1>1. FilesTyped /\ ProcsTyped /\ state[p] \in StateT /\ cache[p] \in CacheT /\ ProcessTells(p)
  BY DEF BundleInv, ProcsTyped
<1>0. PICK k \in 0..(Len(state[p].msgs) - 1) :
             /\ Set(p, [state[p] EXCEPT !.pc = "rewound", !.msgs = SubSeq(@, 1, k), !.moved = TRUE])
             /\ cut' = cut \cup ToSet(SubSeq(state[p].msgs, k + 1, Len(state[p].msgs)))
  BY DEF Rewind
<1>9. /\ left' \in [touch : Nat, rewind : Nat, fault : 0..MaxFaults, crash : Nat]
      /\ left'.fault = left.fault
  BY <1>1, OtherSpent DEF Rewind
<1>10. /\ SubSeq(state[p].msgs, 1, k) \in Seq(Ids) /\ Proper(SubSeq(state[p].msgs, 1, k), nextId)
       /\ ToSet(SubSeq(state[p].msgs, 1, k)) \subseteq ToSet(state[p].msgs)
       /\ ToSet(SubSeq(state[p].msgs, k + 1, Len(state[p].msgs))) \subseteq Ids
  <2>1. state[p].msgs \in Seq(Ids) /\ nextId \in Nat /\ Proper(state[p].msgs, nextId)
    BY <1>1, BoundsAssumption DEF StateT, FilesTyped, ProcessTells, HistoriesProper
  <2> QED BY <2>1, ProperCut
<1> DEFINE t == [state[p] EXCEPT !.pc = "rewound", !.msgs = SubSeq(@, 1, k), !.moved = TRUE]
<1>2. t \in StateT /\ t.pc = "rewound" /\ t.msgs = SubSeq(state[p].msgs, 1, k)
      /\ t.known = state[p].known /\ t.moved = TRUE /\ t.seen = state[p].seen
      /\ t.diverged = state[p].diverged /\ t.seq = state[p].seq
  BY <1>1, CutIs
<1>3. state' = [state EXCEPT ![p] = t]
  BY <1>0 DEF Set
<1>4. state[p].pc = "rewind"
  BY DEF Rewind
<1> HIDE DEF t
<1>5. /\ state'[p] = t /\ cache'[p].ver = cache[p].ver /\ cache'[p].msgs = cache[p].msgs
      /\ cache'[p].moved = TRUE /\ cache'[p].edited = TRUE
      /\ save'[p] = "wanted" /\ job' = job /\ nextId' = nextId
      /\ holder' = holder /\ left'.fault = left.fault
      /\ disk' = disk /\ meta' = meta
  BY <1>1, <1>3, <1>4, <1>9 DEF ProcsTyped, FilesTyped, CacheT, Spend, Rewind
<1>6. Standing(p)
  BY <1>1, <1>3, <1>4, <1>5 DEF Standing, Spend, Rewind, ProcsTyped, FilesTyped
<1>7. FilesTyped'
  BY <1>1, <1>4, <1>5, <1>0, <1>9, <1>10 DEF FilesTyped, Spend, Rewind
<1>8. ProcsTyped'
  BY <1>1, <1>2, <1>3 DEF ProcsTyped, CacheT, Rewind
<1>11. HistoriesProper(p)'
  BY <1>1, <1>2, <1>4, <1>5, <1>10 DEF HistoriesProper, ProcessTells
<1>12. TurnsExclude(p)'
  BY <1>1, <1>2, <1>4, <1>5 DEF TurnsExclude, ProcessTells, Locked
<1>13. CacheTells(p)'
  BY <1>1, <1>2, <1>4, <1>5 DEF CacheTells, ProcessTells
<1>14. SavesTell(p)'
  BY <1>1, <1>2, <1>4, <1>5 DEF SavesTell, ProcessTells, Inside
<1>15. StampTells(p)'
  BY <1>1, <1>2, <1>4, <1>5 DEF StampTells, ProcessTells
<1>16. NothingUnseen(p)'
  BY <1>1, <1>2, <1>4, <1>5 DEF NothingUnseen, ProcessTells, Inside
<1>17. TurnsCounted(p)'
  BY <1>1, <1>2, <1>4, <1>5 DEF TurnsCounted, ProcessTells
<1> QED
  BY <1>6, <1>7, <1>8, <1>11, <1>12, <1>13, <1>14, <1>15, <1>16, <1>17, OthersStand DEF ProcessTells

\* A turn that finds nothing changed begins at once.
LEMMA BeginTurnAtOnceStep ==
  ASSUME BundleInv, NEW p \in Procs, NEW goal \in {"turn", "rewind"},
         state[p].moved \/ (state[p].seen = disk.ver /\ state[p].metaSeen = meta.ver),
         BeginTurn(p, goal)
  PROVE  BundleInv'
<1>1. FilesTyped /\ ProcsTyped /\ state[p] \in StateT /\ cache[p] \in CacheT /\ ProcessTells(p)
  BY DEF BundleInv, ProcsTyped
<1>9. /\ disk.ver \in Versions /\ meta.ver \in Versions /\ meta.seq \in Nat
      /\ state[p].seq \in Nat
  BY <1>1, BoundsAssumption DEF FilesTyped, StateT
<1> DEFINE s == [state[p] EXCEPT !.goal = goal]
<1>10. /\ s \in StateT /\ s.pc = state[p].pc /\ s.goal = goal /\ s.msgs = state[p].msgs
       /\ s.known = state[p].known /\ s.moved = state[p].moved /\ s.seen = state[p].seen
       /\ s.diverged = state[p].diverged /\ s.seq = state[p].seq
       /\ s.metaSeen = state[p].metaSeen
  BY <1>1, GoalIs
<1> HIDE DEF s
<1> DEFINE t == Entered(s)
<1>2. t \in StateT /\ t.pc = goal /\ t.msgs = state[p].msgs /\ t.known = state[p].known
      /\ t.moved = state[p].moved /\ t.seen = state[p].seen /\ t.diverged = state[p].diverged
      /\ (goal = "turn" => t.seq = Larger(state[p].seq, meta.seq))
      /\ (goal # "turn" => t.seq = state[p].seq)
  BY <1>1, <1>10, EnteredIs
<1>3. state' = [state EXCEPT ![p] = t]
  BY <1>10 DEF BeginTurn, Set, s
<1>4. state[p].pc = "idle" /\ holder = Nobody /\ save[p] = "none"
  BY DEF BeginTurn
<1> HIDE DEF t
<1>5. /\ state'[p] = t /\ cache' = cache /\ save' = save /\ job' = job /\ nextId' = nextId /\ holder' = p
      /\ left' = left
      /\ disk' = disk /\ meta' = meta
  BY <1>1, <1>3, <1>4 DEF ProcsTyped, FilesTyped, CacheT, Spend, BeginTurn
<1>6. Standing(p)
  BY <1>1, <1>3, <1>4, <1>5 DEF Standing, Spend, BeginTurn, ProcsTyped, FilesTyped
<1>7. FilesTyped'
  BY <1>1, <1>4, <1>5 DEF FilesTyped, Spend, BeginTurn
<1>8. ProcsTyped'
  BY <1>1, <1>2, <1>3 DEF ProcsTyped, CacheT, BeginTurn
<1>11. HistoriesProper(p)'
  BY <1>1, <1>2, <1>4, <1>5 DEF HistoriesProper, ProcessTells
<1>12. TurnsExclude(p)'
  BY <1>1, <1>2, <1>4, <1>5 DEF TurnsExclude, ProcessTells, Locked
<1>13. CacheTells(p)'
  BY <1>1, <1>2, <1>4, <1>5 DEF CacheTells, ProcessTells
<1>14. SavesTell(p)'
  BY <1>1, <1>2, <1>4, <1>5 DEF SavesTell, ProcessTells, Inside
<1>15. StampTells(p)'
  BY <1>1, <1>2, <1>4, <1>5 DEF StampTells, ProcessTells
<1>16. NothingUnseen(p)'
  <2>1. ~state[p].diverged => state[p].msgs = disk.msgs
    BY <1>1, <1>4 DEF ProcessTells, StampTells, SavesTell
  <2> QED BY <1>1, <1>2, <1>5, <2>1 DEF NothingUnseen, ProcessTells, HistoriesProper
<1>17. TurnsCounted(p)'
  <2>1. t.seq \in {state[p].seq, Larger(state[p].seq, meta.seq)} /\ (t.pc = "turn" => t.seq = Larger(state[p].seq, meta.seq))
    BY <1>2, <1>10
  <2>2. left.fault = MaxFaults => state[p].seq <= meta.seq
    BY <1>1, <1>4 DEF ProcessTells, TurnsCounted
  <2> QED BY <1>5, <1>9, <2>1, <2>2 DEF TurnsCounted, Larger
<1> QED
  BY <1>6, <1>7, <1>8, <1>11, <1>12, <1>13, <1>14, <1>15, <1>16, <1>17, OthersStand DEF ProcessTells

\* A turn that finds a file changed refreshes first.
LEMMA BeginTurnRefreshStep ==
  ASSUME BundleInv, NEW p \in Procs, NEW goal \in {"turn", "rewind"},
         ~(state[p].moved \/ (state[p].seen = disk.ver /\ state[p].metaSeen = meta.ver)),
         BeginTurn(p, goal)
  PROVE  BundleInv'
<1>1. FilesTyped /\ ProcsTyped /\ state[p] \in StateT /\ cache[p] \in CacheT /\ ProcessTells(p)
  BY DEF BundleInv, ProcsTyped
<1>9. /\ disk.ver \in Versions /\ meta.ver \in Versions /\ meta.seq \in Nat
      /\ state[p].seq \in Nat
  BY <1>1, BoundsAssumption DEF FilesTyped, StateT
<1> DEFINE s == [state[p] EXCEPT !.goal = goal]
<1>10. /\ s \in StateT /\ s.pc = state[p].pc /\ s.goal = goal /\ s.msgs = state[p].msgs
       /\ s.known = state[p].known /\ s.moved = state[p].moved /\ s.seen = state[p].seen
       /\ s.diverged = state[p].diverged /\ s.seq = state[p].seq
       /\ s.metaSeen = state[p].metaSeen
  BY <1>1, GoalIs
<1> HIDE DEF s
<1>18. LET u == [s EXCEPT !.pc = "refresh", !.statFile = disk.ver, !.statMeta = meta.ver] IN
       /\ u \in StateT /\ u.pc = "refresh" /\ u.goal = s.goal /\ u.msgs = s.msgs
       /\ u.known = s.known /\ u.moved = s.moved /\ u.seen = s.seen
       /\ u.diverged = s.diverged /\ u.seq = s.seq /\ u.statFile = disk.ver
  BY <1>9, <1>10, RefreshingIs, ZenonT(30)
<1> DEFINE t == [s EXCEPT !.pc = "refresh", !.statFile = disk.ver, !.statMeta = meta.ver]
<1>2. t \in StateT /\ t.pc = "refresh" /\ t.msgs = state[p].msgs /\ t.known = state[p].known
      /\ t.moved = state[p].moved /\ t.seen = state[p].seen /\ t.diverged = state[p].diverged
      /\ t.seq = state[p].seq /\ t.statFile = disk.ver
  BY <1>1, <1>10, <1>18
<1>3. state' = [state EXCEPT ![p] = t]
  BY <1>10 DEF BeginTurn, Set, s
<1>4. state[p].pc = "idle" /\ holder = Nobody /\ save[p] = "none"
  BY DEF BeginTurn
<1> HIDE DEF t
<1>5. /\ state'[p] = t /\ cache' = cache /\ save' = save /\ job' = job /\ nextId' = nextId /\ holder' = p
      /\ left' = left
      /\ disk' = disk /\ meta' = meta
  BY <1>1, <1>3, <1>4 DEF ProcsTyped, FilesTyped, CacheT, Spend, BeginTurn
<1>6. Standing(p)
  BY <1>1, <1>3, <1>4, <1>5 DEF Standing, Spend, BeginTurn, ProcsTyped, FilesTyped
<1>7. FilesTyped'
  BY <1>1, <1>4, <1>5 DEF FilesTyped, Spend, BeginTurn
<1>8. ProcsTyped'
  BY <1>1, <1>2, <1>3 DEF ProcsTyped, CacheT, BeginTurn
<1>11. HistoriesProper(p)'
  BY <1>1, <1>2, <1>4, <1>5 DEF HistoriesProper, ProcessTells
<1>12. TurnsExclude(p)'
  BY <1>1, <1>2, <1>4, <1>5 DEF TurnsExclude, ProcessTells, Locked
<1>13. CacheTells(p)'
  BY <1>1, <1>2, <1>4, <1>5 DEF CacheTells, ProcessTells
<1>14. SavesTell(p)'
  BY <1>1, <1>2, <1>4, <1>5 DEF SavesTell, ProcessTells, Inside
<1>15. StampTells(p)'
  BY <1>1, <1>2, <1>4, <1>5 DEF StampTells, ProcessTells
<1>16. NothingUnseen(p)'
  BY <1>1, <1>2, <1>4, <1>5 DEF NothingUnseen, ProcessTells, Inside
<1>17. TurnsCounted(p)'
  BY <1>1, <1>2, <1>4, <1>5 DEF TurnsCounted, ProcessTells
<1> QED
  BY <1>6, <1>7, <1>8, <1>11, <1>12, <1>13, <1>14, <1>15, <1>16, <1>17, OthersStand DEF ProcessTells

\* A file older than the State changes nothing.
LEMMA RefreshOlderStep ==
  ASSUME BundleInv, NEW p \in Procs, state[p].seen # state[p].statFile, ~Newer(disk.msgs, state[p].msgs),
         RefreshRead(p)
  PROVE  BundleInv'
<1>1. FilesTyped /\ ProcsTyped /\ state[p] \in StateT /\ cache[p] \in CacheT /\ ProcessTells(p)
  BY DEF BundleInv, ProcsTyped
<1>9. /\ disk.msgs \in Seq(Ids) /\ state[p].msgs \in Seq(Ids) /\ meta.seq \in Nat
      /\ state[p].seq \in Nat /\ state[p].goal \in {"turn", "rewind"}
  BY <1>1, BoundsAssumption DEF FilesTyped, StateT
<1>10. save[p] = "none" /\ holder = p /\ ~state[p].moved
  BY <1>1 DEF ProcessTells, TurnsExclude, Locked, RefreshRead
<1> DEFINE t == Entered(state[p])
<1>2. t \in StateT /\ t.pc \in {"turn", "rewind"} /\ t.msgs = state[p].msgs /\ t.known = state[p].known
      /\ t.moved = state[p].moved /\ t.seen = state[p].seen /\ t.diverged = state[p].diverged
      /\ (t.pc = "turn" => t.seq = Larger(state[p].seq, meta.seq))
      /\ t.seq \in {state[p].seq, Larger(state[p].seq, meta.seq)}
  BY <1>1, <1>9, EnteredIs
<1>3. state' = [state EXCEPT ![p] = t]
  BY DEF RefreshRead, Set
<1>4. state[p].pc = "refresh"
  BY DEF RefreshRead
<1> HIDE DEF t
<1>5. /\ state'[p] = t /\ cache' = cache /\ save' = save /\ job' = job /\ nextId' = nextId /\ holder' = holder
      /\ left' = left
      /\ disk' = disk /\ meta' = meta
  BY <1>1, <1>3, <1>4 DEF ProcsTyped, FilesTyped, CacheT, Spend, RefreshRead
<1>6. Standing(p)
  BY <1>1, <1>3, <1>4, <1>5 DEF Standing, Spend, RefreshRead, ProcsTyped, FilesTyped
<1>7. FilesTyped'
  BY <1>1, <1>4, <1>5 DEF FilesTyped, Spend, RefreshRead
<1>8. ProcsTyped'
  BY <1>1, <1>2, <1>3 DEF ProcsTyped, CacheT, RefreshRead
<1>11. HistoriesProper(p)'
  BY <1>1, <1>2, <1>4, <1>5 DEF HistoriesProper, ProcessTells
<1>12. TurnsExclude(p)'
  BY <1>1, <1>2, <1>4, <1>5, <1>10 DEF TurnsExclude, ProcessTells, Locked
<1>13. CacheTells(p)'
  BY <1>1, <1>2, <1>4, <1>5 DEF CacheTells, ProcessTells
<1>14. SavesTell(p)'
  BY <1>1, <1>2, <1>4, <1>5, <1>10 DEF SavesTell, ProcessTells, Inside
<1>15. StampTells(p)'
  BY <1>1, <1>2, <1>4, <1>5 DEF StampTells, ProcessTells
<1>16. NothingUnseen(p)'
  <2>1. ToSet(disk.msgs) \subseteq ToSet(state[p].msgs)
    BY <1>9, PrefixIsKnown
  <2> QED BY <1>1, <1>2, <1>5, <2>1 DEF NothingUnseen, ProcessTells, HistoriesProper
<1>17. TurnsCounted(p)'
  <2>1. t.seq \in {state[p].seq, Larger(state[p].seq, meta.seq)} /\ (t.pc = "turn" => t.seq = Larger(state[p].seq, meta.seq))
    BY <1>2
  <2>2. left.fault = MaxFaults => state[p].seq <= meta.seq
    BY <1>1, <1>4, <1>10 DEF ProcessTells, TurnsCounted
  <2> QED BY <1>5, <1>9, <2>1, <2>2 DEF TurnsCounted, Larger
<1> QED
  BY <1>6, <1>7, <1>8, <1>11, <1>12, <1>13, <1>14, <1>15, <1>16, <1>17, OthersStand DEF ProcessTells

\* A newer file replaces the history, and no encoding describes it.
LEMMA RefreshNewerStep ==
  ASSUME BundleInv, NEW p \in Procs, state[p].seen # state[p].statFile, Newer(disk.msgs, state[p].msgs),
         RefreshRead(p)
  PROVE  BundleInv'
<1>1. FilesTyped /\ ProcsTyped /\ state[p] \in StateT /\ cache[p] \in CacheT /\ ProcessTells(p)
  BY DEF BundleInv, ProcsTyped
<1>9. /\ disk.msgs \in Seq(Ids) /\ state[p].msgs \in Seq(Ids) /\ meta.seq \in Nat
      /\ state[p].seq \in Nat /\ state[p].goal \in {"turn", "rewind"}
  BY <1>1, BoundsAssumption DEF FilesTyped, StateT
<1>10. save[p] = "none" /\ holder = p /\ ~state[p].moved
  BY <1>1 DEF ProcessTells, TurnsExclude, Locked, RefreshRead
<1> DEFINE r == Restored(p, disk.msgs)
<1>18. LET s == state[p] IN
       /\ r \in StateT /\ r.pc = s.pc /\ r.goal = s.goal /\ r.msgs = disk.msgs
       /\ r.known = s.known \cup ToSet(disk.msgs) /\ r.moved = FALSE /\ r.seq = meta.seq
       /\ r.seen = s.statFile /\ r.diverged = s.diverged
  BY <1>1, <1>9, RestoredIs
<1> HIDE DEF r
<1>20. /\ cache' = [cache EXCEPT ![p].moved = TRUE, ![p].edited = TRUE]
       /\ UNCHANGED <<disk, meta, save, job, holder, nextId, cut, left>>
  BY DEF RefreshRead
<1>21. cache' = [cache EXCEPT ![p] = [cache[p] EXCEPT !.moved = TRUE, !.edited = TRUE]]
  BY <1>1, <1>20 DEF ProcsTyped, CacheT
<1>22. [cache[p] EXCEPT !.moved = TRUE, !.edited = TRUE] \in CacheT
  BY <1>1 DEF CacheT
<1>23. cache' \in [Procs -> CacheT]
  BY <1>1, <1>21, <1>22 DEF ProcsTyped
<1> DEFINE t == Entered(r)
<1>2. t \in StateT /\ t.pc \in {"turn", "rewind"} /\ t.msgs = disk.msgs
      /\ t.known = state[p].known \cup ToSet(disk.msgs) /\ t.moved = FALSE
      /\ t.seen = state[p].statFile /\ t.diverged = state[p].diverged
      /\ (t.pc = "turn" => t.seq = Larger(meta.seq, meta.seq))
      /\ t.seq \in {meta.seq, Larger(meta.seq, meta.seq)}
  BY <1>1, <1>9, <1>18, EnteredIs
<1>3. state' = [state EXCEPT ![p] = t]
  BY DEF RefreshRead, Set, r
<1>4. state[p].pc = "refresh"
  BY DEF RefreshRead
<1> HIDE DEF t
<1>5. /\ state'[p] = t /\ cache'[p].ver = cache[p].ver /\ cache'[p].msgs = cache[p].msgs
      /\ cache'[p].moved = TRUE /\ cache'[p].edited = TRUE
      /\ save' = save /\ job' = job /\ nextId' = nextId /\ holder' = holder
      /\ left' = left
      /\ disk' = disk /\ meta' = meta
  BY <1>1, <1>3, <1>4, <1>20, <1>21 DEF ProcsTyped, FilesTyped, CacheT, Spend
<1>6. Standing(p)
  BY <1>1, <1>3, <1>4, <1>5, <1>20, <1>21, <1>23 DEF Standing, Spend, ProcsTyped, FilesTyped
<1>7. FilesTyped'
  BY <1>1, <1>4, <1>5, <1>20, <1>21 DEF FilesTyped, Spend
<1>8. ProcsTyped'
  BY <1>1, <1>2, <1>3, <1>20, <1>21, <1>23 DEF ProcsTyped, CacheT
<1>19. Proper(disk.msgs, nextId)
  BY DEF BundleInv
<1>11. HistoriesProper(p)'
  BY <1>1, <1>2, <1>4, <1>5, <1>19 DEF HistoriesProper, ProcessTells
<1>12. TurnsExclude(p)'
  BY <1>1, <1>2, <1>4, <1>5, <1>10 DEF TurnsExclude, ProcessTells, Locked
<1>13. CacheTells(p)'
  BY <1>1, <1>2, <1>4, <1>5 DEF CacheTells, ProcessTells
<1>14. SavesTell(p)'
  BY <1>1, <1>2, <1>4, <1>5, <1>10 DEF SavesTell, ProcessTells, Inside
<1>15. StampTells(p)'
  BY <1>1, <1>2, <1>4, <1>5 DEF StampTells, ProcessTells
<1>16. NothingUnseen(p)'
  BY <1>1, <1>2, <1>4, <1>5, <1>10 DEF NothingUnseen, ProcessTells, Inside
<1>17. TurnsCounted(p)'
  <2>1. t.seq \in {meta.seq, Larger(meta.seq, meta.seq)} /\ (t.pc = "turn" => t.seq = Larger(meta.seq, meta.seq))
    BY <1>2
  <2>2. left.fault = MaxFaults => state[p].seq <= meta.seq
    BY <1>1, <1>4, <1>10 DEF ProcessTells, TurnsCounted
  <2> QED BY <1>5, <1>9, <2>1, <2>2 DEF TurnsCounted, Larger
<1> QED
  BY <1>6, <1>7, <1>8, <1>11, <1>12, <1>13, <1>14, <1>15, <1>16, <1>17, OthersStand DEF ProcessTells

\* A transcript that did not change is kept, the rest of the bundle read.
LEMMA RefreshSameStep ==
  ASSUME BundleInv, NEW p \in Procs, state[p].seen = state[p].statFile,
         RefreshRead(p)
  PROVE  BundleInv'
<1>1. FilesTyped /\ ProcsTyped /\ state[p] \in StateT /\ cache[p] \in CacheT /\ ProcessTells(p)
  BY DEF BundleInv, ProcsTyped
<1>9. /\ disk.msgs \in Seq(Ids) /\ state[p].msgs \in Seq(Ids) /\ meta.seq \in Nat
      /\ state[p].seq \in Nat /\ state[p].goal \in {"turn", "rewind"}
  BY <1>1, BoundsAssumption DEF FilesTyped, StateT
<1>10. save[p] = "none" /\ holder = p /\ ~state[p].moved
  BY <1>1 DEF ProcessTells, TurnsExclude, Locked, RefreshRead
<1> DEFINE r == Restored(p, state[p].msgs)
<1>18. LET s == state[p] IN
       /\ r \in StateT /\ r.pc = s.pc /\ r.goal = s.goal /\ r.msgs = state[p].msgs
       /\ r.known = s.known \cup ToSet(state[p].msgs) /\ r.moved = FALSE /\ r.seq = meta.seq
       /\ r.seen = s.statFile /\ r.diverged = s.diverged
  BY <1>1, <1>9, RestoredIs
<1> HIDE DEF r
<1> DEFINE t == Entered(r)
<1>2. t \in StateT /\ t.pc \in {"turn", "rewind"} /\ t.msgs = state[p].msgs
      /\ t.known = state[p].known \cup ToSet(state[p].msgs) /\ t.moved = FALSE
      /\ t.seen = state[p].statFile /\ t.diverged = state[p].diverged
      /\ (t.pc = "turn" => t.seq = Larger(meta.seq, meta.seq))
      /\ t.seq \in {meta.seq, Larger(meta.seq, meta.seq)}
  BY <1>1, <1>9, <1>18, EnteredIs
<1>3. state' = [state EXCEPT ![p] = t]
  BY DEF RefreshRead, Set, r
<1>4. state[p].pc = "refresh"
  BY DEF RefreshRead
<1> HIDE DEF t
<1>5. /\ state'[p] = t /\ cache' = cache /\ save' = save /\ job' = job /\ nextId' = nextId /\ holder' = holder
      /\ left' = left
      /\ disk' = disk /\ meta' = meta
  BY <1>1, <1>3, <1>4 DEF ProcsTyped, FilesTyped, CacheT, Spend, RefreshRead
<1>6. Standing(p)
  BY <1>1, <1>3, <1>4, <1>5 DEF Standing, Spend, RefreshRead, ProcsTyped, FilesTyped
<1>7. FilesTyped'
  BY <1>1, <1>4, <1>5 DEF FilesTyped, Spend, RefreshRead
<1>8. ProcsTyped'
  BY <1>1, <1>2, <1>3 DEF ProcsTyped, CacheT, RefreshRead
<1>11. HistoriesProper(p)'
  BY <1>1, <1>2, <1>4, <1>5 DEF HistoriesProper, ProcessTells
<1>12. TurnsExclude(p)'
  BY <1>1, <1>2, <1>4, <1>5, <1>10 DEF TurnsExclude, ProcessTells, Locked
<1>13. CacheTells(p)'
  BY <1>1, <1>2, <1>4, <1>5 DEF CacheTells, ProcessTells
<1>14. SavesTell(p)'
  BY <1>1, <1>2, <1>4, <1>5, <1>10 DEF SavesTell, ProcessTells, Inside
<1>15. StampTells(p)'
  <2>1. ~state[p].diverged => state[p].msgs = disk.msgs
    BY <1>1, <1>4, <1>10 DEF ProcessTells, StampTells
  <2> QED BY <1>2, <1>5, <2>1 DEF StampTells
<1>16. NothingUnseen(p)'
  <2>1. ~state[p].diverged => state[p].msgs = disk.msgs
    BY <1>1, <1>4, <1>10 DEF ProcessTells, StampTells
  <2> QED BY <1>2, <1>5, <2>1 DEF NothingUnseen
<1>17. TurnsCounted(p)'
  <2>1. t.seq \in {meta.seq, Larger(meta.seq, meta.seq)} /\ (t.pc = "turn" => t.seq = Larger(meta.seq, meta.seq))
    BY <1>2
  <2>2. left.fault = MaxFaults => state[p].seq <= meta.seq
    BY <1>1, <1>4, <1>10 DEF ProcessTells, TurnsCounted
  <2> QED BY <1>5, <1>9, <2>1, <2>2 DEF TurnsCounted, Larger
<1> QED
  BY <1>6, <1>7, <1>8, <1>11, <1>12, <1>13, <1>14, <1>15, <1>16, <1>17, OthersStand DEF ProcessTells

\* A refresh that fails leaves the turn the history in memory.
LEMMA RefreshFailsStep ==
  ASSUME BundleInv, NEW p \in Procs, RefreshFails(p)
  PROVE  BundleInv'
<1>1. FilesTyped /\ ProcsTyped /\ state[p] \in StateT /\ cache[p] \in CacheT /\ ProcessTells(p)
  BY DEF BundleInv, ProcsTyped
<1>9. /\ disk.msgs \in Seq(Ids) /\ state[p].msgs \in Seq(Ids) /\ meta.seq \in Nat
      /\ state[p].seq \in Nat /\ state[p].goal \in {"turn", "rewind"}
  BY <1>1, BoundsAssumption, SMTT(30) DEF FilesTyped, StateT
<1>10. save[p] = "none" /\ holder = p /\ ~state[p].moved
  BY <1>1 DEF ProcessTells, TurnsExclude, Locked, RefreshFails
<1>0. /\ left' \in [touch : Nat, rewind : Nat, fault : 0..MaxFaults, crash : Nat]
      /\ left'.fault # MaxFaults
  BY <1>1, FaultSpent DEF RefreshFails
<1> DEFINE s == [state[p] EXCEPT !.diverged = TRUE]
<1>18. /\ s \in StateT /\ s.pc = state[p].pc /\ s.goal = state[p].goal /\ s.msgs = state[p].msgs
       /\ s.known = state[p].known /\ s.moved = state[p].moved /\ s.seen = state[p].seen
       /\ s.diverged = TRUE /\ s.seq = state[p].seq
  BY <1>1, DivergedIs
<1> HIDE DEF s
<1> DEFINE t == Entered(s)
<1>2. t \in StateT /\ t.pc \in {"turn", "rewind"} /\ t.msgs = state[p].msgs /\ t.known = state[p].known
      /\ t.moved = state[p].moved /\ t.seen = state[p].seen /\ t.diverged = TRUE
  BY <1>1, <1>9, <1>18, EnteredIs
<1>3. state' = [state EXCEPT ![p] = t]
  BY DEF RefreshFails, Set, s
<1>4. state[p].pc = "refresh"
  BY DEF RefreshFails
<1> HIDE DEF t
<1>5. /\ state'[p] = t /\ cache' = cache /\ save' = save /\ job' = job /\ nextId' = nextId /\ holder' = holder
      /\ left'.fault # MaxFaults
      /\ disk' = disk /\ meta' = meta
  BY <1>1, <1>3, <1>4, <1>0 DEF ProcsTyped, FilesTyped, CacheT, Spend, RefreshFails
<1>6. Standing(p)
  BY <1>1, <1>3, <1>4, <1>5 DEF Standing, Spend, RefreshFails, ProcsTyped, FilesTyped
<1>7. FilesTyped'
  BY <1>1, <1>4, <1>5, <1>0 DEF FilesTyped, Spend, RefreshFails
<1>8. ProcsTyped'
  BY <1>1, <1>2, <1>3 DEF ProcsTyped, CacheT, RefreshFails
<1>11. HistoriesProper(p)'
  BY <1>1, <1>2, <1>4, <1>5 DEF HistoriesProper, ProcessTells
<1>12. TurnsExclude(p)'
  BY <1>1, <1>2, <1>4, <1>5, <1>10 DEF TurnsExclude, ProcessTells, Locked
<1>13. CacheTells(p)'
  BY <1>1, <1>2, <1>4, <1>5 DEF CacheTells, ProcessTells
<1>14. SavesTell(p)'
  BY <1>1, <1>2, <1>4, <1>5, <1>10 DEF SavesTell, ProcessTells, Inside
<1>15. StampTells(p)'
  BY <1>1, <1>2, <1>4, <1>5 DEF StampTells, ProcessTells
<1>16. NothingUnseen(p)'
  BY <1>1, <1>2, <1>4, <1>5 DEF NothingUnseen, ProcessTells, Inside
<1>17. TurnsCounted(p)'
  BY <1>1, <1>2, <1>4, <1>5 DEF TurnsCounted, ProcessTells
<1> QED
  BY <1>6, <1>7, <1>8, <1>11, <1>12, <1>13, <1>14, <1>15, <1>16, <1>17, OthersStand DEF ProcessTells

\* A save that fails is remembered by a State whose history moved.
LEMMA SaveFailsStep ==
  ASSUME BundleInv, NEW p \in Procs, SaveFails(p)
  PROVE  BundleInv'
<1>1. FilesTyped /\ ProcsTyped /\ state[p] \in StateT /\ cache[p] \in CacheT /\ ProcessTells(p)
  BY DEF BundleInv, ProcsTyped
<1>0. /\ left' \in [touch : Nat, rewind : Nat, fault : 0..MaxFaults, crash : Nat]
      /\ left'.fault # MaxFaults
  BY <1>1, FaultSpent DEF SaveFails
<1>9. (state[p].diverged \/ state[p].moved) \in BOOLEAN
  BY <1>1 DEF StateT
<1>10. NoJob \in [stale : BOOLEAN, skipMeta : BOOLEAN]
  BY DEF NoJob
<1> DEFINE t == [state[p] EXCEPT !.diverged = @ \/ state[p].moved]
<1>2. t \in StateT /\ t.pc = state[p].pc /\ t.msgs = state[p].msgs /\ t.known = state[p].known
      /\ t.moved = state[p].moved /\ t.seen = state[p].seen
      /\ t.diverged = (state[p].diverged \/ state[p].moved) /\ t.statFile = state[p].statFile
  BY <1>1, <1>9, DivergedIs
<1>3. state' = [state EXCEPT ![p] = t]
  BY DEF SaveFails, Set
<1>4. save[p] # "none"
  BY DEF SaveFails
<1> HIDE DEF t
<1>5. /\ state'[p] = t /\ cache' = cache /\ save'[p] = "none" /\ nextId' = nextId
      /\ holder' = holder /\ left'.fault # MaxFaults
      /\ disk' = disk /\ meta' = meta
  BY <1>1, <1>3, <1>4, <1>0 DEF ProcsTyped, FilesTyped, CacheT, Spend, SaveFails
<1>6. Standing(p)
  BY <1>1, <1>3, <1>4, <1>5, <1>10 DEF Standing, Spend, SaveFails, ProcsTyped, FilesTyped
<1>7. FilesTyped'
  BY <1>1, <1>4, <1>5, <1>0 DEF FilesTyped, Spend, SaveFails
<1>8. ProcsTyped'
  BY <1>1, <1>2, <1>3, <1>10 DEF ProcsTyped, CacheT, SaveFails
<1>11. HistoriesProper(p)'
  BY <1>1, <1>2, <1>4, <1>5 DEF HistoriesProper, ProcessTells
<1>12. TurnsExclude(p)'
  BY <1>1, <1>2, <1>4, <1>5 DEF TurnsExclude, ProcessTells, Locked
<1>13. CacheTells(p)'
  BY <1>1, <1>2, <1>4, <1>5 DEF CacheTells, ProcessTells
<1>14. SavesTell(p)'
  BY <1>1, <1>2, <1>4, <1>5 DEF SavesTell, ProcessTells, Inside
<1>15. StampTells(p)'
  BY <1>1, <1>2, <1>4, <1>5 DEF StampTells, ProcessTells
<1>16. NothingUnseen(p)'
  BY <1>1, <1>2, <1>4, <1>5 DEF NothingUnseen, ProcessTells, Inside
<1>17. TurnsCounted(p)'
  BY <1>1, <1>2, <1>4, <1>5 DEF TurnsCounted, ProcessTells
<1> QED
  BY <1>6, <1>7, <1>8, <1>11, <1>12, <1>13, <1>14, <1>15, <1>16, <1>17, OthersStand DEF ProcessTells

\* A process that dies takes its State, its cache and its locks along.
LEMMA CrashStep ==
  ASSUME BundleInv, NEW p \in Procs, Crash(p)
  PROVE  BundleInv'
<1>1. FilesTyped /\ ProcsTyped /\ state[p] \in StateT /\ cache[p] \in CacheT /\ ProcessTells(p)
  BY DEF BundleInv, ProcsTyped
<1>0. /\ left' \in [touch : Nat, rewind : Nat, fault : 0..MaxFaults, crash : Nat]
      /\ left'.fault = left.fault
  BY <1>1, OtherSpent DEF Crash
<1>9. disk.ver # 0 /\ meta.seq \in Nat /\ NoCache.ver = 0 /\ NoCache.msgs = <<>> /\ NoCache \in CacheT
      /\ NoJob \in [stale : BOOLEAN, skipMeta : BOOLEAN]
  BY <1>1, BoundsAssumption DEF FilesTyped, Versions, NoCache, NoJob, CacheT, MaybeVersion
<1> DEFINE t == Absent
<1>2. t \in StateT /\ t.pc = "absent" /\ t.msgs = <<>> /\ t.known = {} /\ t.moved = FALSE /\ t.seq = 0
  BY <1>1, AbsentTyped DEF Absent
<1>3. state' = [state EXCEPT ![p] = t]
  BY DEF Crash, Set
<1>4. state[p].pc # "absent"
  BY DEF Crash
<1> HIDE DEF t
<1>5. /\ state'[p] = t /\ cache'[p] = NoCache /\ save'[p] = "none" /\ nextId' = nextId
      /\ holder' = (IF holder = p THEN Nobody ELSE holder) /\ left'.fault = left.fault
      /\ disk' = disk /\ meta' = meta
  BY <1>1, <1>3, <1>4, <1>0 DEF ProcsTyped, FilesTyped, CacheT, Spend, Crash
<1>6. Standing(p)
  BY <1>1, <1>3, <1>4, <1>5, <1>9 DEF Standing, Spend, Crash, ProcsTyped, FilesTyped
<1>7. FilesTyped'
  BY <1>1, <1>4, <1>5, <1>0 DEF FilesTyped, Spend, Crash
<1>8. ProcsTyped'
  BY <1>1, <1>2, <1>3, <1>9 DEF ProcsTyped, CacheT, Crash
<1>11. HistoriesProper(p)'
  BY <1>1, <1>2, <1>4, <1>5, <1>9, ProperEmpty DEF HistoriesProper, ProcessTells
<1>12. TurnsExclude(p)'
  BY <1>1, <1>2, <1>4, <1>5 DEF TurnsExclude, ProcessTells, Locked
<1>13. CacheTells(p)'
  BY <1>1, <1>2, <1>4, <1>5, <1>9 DEF CacheTells, ProcessTells
<1>14. SavesTell(p)'
  BY <1>1, <1>2, <1>4, <1>5 DEF SavesTell, ProcessTells, Inside
<1>15. StampTells(p)'
  BY <1>1, <1>2, <1>4, <1>5 DEF StampTells, ProcessTells
<1>16. NothingUnseen(p)'
  BY <1>1, <1>2, <1>4, <1>5 DEF NothingUnseen, ProcessTells, Inside
<1>17. TurnsCounted(p)'
  BY <1>1, <1>2, <1>4, <1>5, <1>9 DEF TurnsCounted, ProcessTells
<1> QED
  BY <1>6, <1>7, <1>8, <1>11, <1>12, <1>13, <1>14, <1>15, <1>16, <1>17, OthersStand DEF ProcessTells

-------------------------------------------------------------------------------
(* A save: the transcript, then session.json. *)

\* What is encoded is the history, whatever it was spliced onto.
LEMMA EncodedIsWhole ==
  ASSUME BundleInv, NEW p \in Procs
  PROVE  Encoded(p) = state[p].msgs
<1>1. /\ cache[p].msgs \in Seq(Ids) /\ state[p].msgs \in Seq(Ids) /\ disk.ver # 0
  BY SMTT(30) DEF BundleInv, ProcsTyped, FilesTyped, StateT, CacheT, Versions
<1>2. CASE Usable(p) /\ ~cache[p].edited
  <2>1. IsPrefix(cache[p].msgs, state[p].msgs)
    BY <1>1, <1>2 DEF Usable, BundleInv, ProcessTells, CacheTells
  <2> QED BY <1>1, <2>1, SpliceIsWhole DEF Encoded
<1>3. CASE ~(Usable(p) /\ ~cache[p].edited)
  BY <1>3 DEF Encoded
<1> QED
  BY <1>2, <1>3

\* A save that finds nothing to write, of a history the file is not newer than, finds the
\* file to hold that history.
LEMMA UnchangedIsSame ==
  ASSUME BundleInv, NEW p \in Procs, Unchanged(p), ~Stale(p)
  PROVE  disk.msgs = state[p].msgs
<1>1. disk.ver # 0 /\ Encoded(p) = state[p].msgs
  BY EncodedIsWhole DEF BundleInv, FilesTyped, Versions
<1>2. CASE Usable(p) /\ ~cache[p].moved
  BY <1>1, <1>2 DEF Usable, BundleInv, ProcessTells, CacheTells
<1>3. CASE Encoded(p) = (IF Usable(p) THEN cache[p].msgs ELSE disk.msgs)
  BY <1>1, <1>3 DEF Usable, BundleInv, ProcessTells, CacheTells
<1> QED
  BY <1>2, <1>3 DEF Unchanged

\* A save of a State older than the file leaves the file alone.
LEMMA WriteNothingStaleStep ==
  ASSUME BundleInv, NEW p \in Procs, Stale(p), WriteMessages(p)
  PROVE  BundleInv'
<1>1. FilesTyped /\ ProcsTyped /\ state[p] \in StateT /\ cache[p] \in CacheT /\ ProcessTells(p)
  BY DEF BundleInv, ProcsTyped
<1>20. Unchanged(p)
  BY DEF Unchanged
<1>0. /\ save[p] = "wanted" /\ \A q \in Procs : save[q] # "meta"
      /\ save' = [save EXCEPT ![p] = "meta"]
      /\ disk' = disk /\ meta' = meta /\ holder' = holder /\ nextId' = nextId /\ cut' = cut
      /\ left' = left
  BY <1>20 DEF WriteMessages
<1>9. state' = state
  BY <1>1, <1>20 DEF WriteMessages, ProcsTyped
<1>10. /\ job'[p].stale = Stale(p) /\ (job'[p].skipMeta => state[p].seq <= meta.seq)
       /\ job' \in [Procs -> [stale : BOOLEAN, skipMeta : BOOLEAN]]
       /\ \A q \in Procs : q # p => job'[q] = job[q]
  <2> DEFINE j == [stale |-> Stale(p),
                   skipMeta |-> Unchanged(p) /\ ~state[p].metaMoved /\ state[p].seq <= meta.seq]
  <2>1. job' = [job EXCEPT ![p] = j]
    BY DEF WriteMessages
  <2>2. j \in [stale : BOOLEAN, skipMeta : BOOLEAN] /\ j.stale = Stale(p)
        /\ (j.skipMeta => state[p].seq <= meta.seq)
    BY DEF Stale
  <2> HIDE DEF j
  <2> QED BY <1>1, <2>1, <2>2 DEF ProcsTyped
<1>18. cache' = cache
  BY DEF WriteMessages, Unchanged
<1> DEFINE t == state[p]
<1>2. t \in StateT /\ t.pc = state[p].pc /\ t.msgs = state[p].msgs /\ t.known = state[p].known
      /\ t.moved = state[p].moved /\ t.seen = state[p].seen /\ t.diverged = state[p].diverged
      /\ t.seq = state[p].seq /\ t.statFile = state[p].statFile
  BY <1>1
<1>3. state' = [state EXCEPT ![p] = t]
  BY <1>1, <1>9 DEF ProcsTyped
<1>4. save[p] = "wanted" /\ \A q \in Procs : save[q] # "meta"
  BY DEF WriteMessages
<1> HIDE DEF t
<1>5. /\ state'[p] = t /\ cache' = cache
      /\ save'[p] = "meta" /\ job'[p].stale = Stale(p) /\ nextId' = nextId /\ holder' = holder
      /\ left' = left /\ (job'[p].skipMeta => state[p].seq <= meta.seq)
      /\ disk' = disk /\ meta' = meta
  BY <1>1, <1>3, <1>4, <1>0, <1>9, <1>10, <1>18 DEF ProcsTyped, FilesTyped, CacheT, Spend
<1>6. Standing(p)
  BY <1>1, <1>3, <1>4, <1>5, <1>0, <1>10, <1>18 DEF Standing, Spend, ProcsTyped, FilesTyped
<1>7. FilesTyped'
  BY <1>1, <1>4, <1>5, <1>0 DEF FilesTyped, Spend
<1>8. ProcsTyped'
  BY <1>1, <1>2, <1>3, <1>0, <1>10, <1>18 DEF ProcsTyped, CacheT
<1>11. HistoriesProper(p)'
  BY <1>1, <1>2, <1>4, <1>5 DEF HistoriesProper, ProcessTells
<1>12. TurnsExclude(p)'
  BY <1>1, <1>2, <1>4, <1>5 DEF TurnsExclude, ProcessTells, Locked
<1>13. CacheTells(p)'
  BY <1>1, <1>2, <1>4, <1>5 DEF CacheTells, ProcessTells
<1>14. SavesTell(p)'
  <2>1. ~state[p].moved /\ Stale(p)
    BY DEF Stale
  <2> QED BY <1>1, <1>2, <1>4, <1>5, <2>1 DEF SavesTell, ProcessTells
<1>15. StampTells(p)'
  BY <1>1, <1>2, <1>4, <1>5 DEF StampTells, ProcessTells
<1>16. NothingUnseen(p)'
  BY <1>1, <1>2, <1>4, <1>5 DEF NothingUnseen, ProcessTells, Inside
<1>17. TurnsCounted(p)'
  BY <1>1, <1>2, <1>4, <1>5 DEF TurnsCounted, ProcessTells
<1> QED
  BY <1>6, <1>7, <1>8, <1>11, <1>12, <1>13, <1>14, <1>15, <1>16, <1>17, OthersStand DEF ProcessTells

\* A save that finds the file to hold the history leaves it alone.
LEMMA WriteNothingSameStep ==
  ASSUME BundleInv, NEW p \in Procs, Unchanged(p), ~Stale(p), WriteMessages(p)
  PROVE  BundleInv'
<1>1. FilesTyped /\ ProcsTyped /\ state[p] \in StateT /\ cache[p] \in CacheT /\ ProcessTells(p)
  BY DEF BundleInv, ProcsTyped
<1>20. Unchanged(p)
  BY DEF Unchanged
<1>0. /\ save[p] = "wanted" /\ \A q \in Procs : save[q] # "meta"
      /\ save' = [save EXCEPT ![p] = "meta"]
      /\ disk' = disk /\ meta' = meta /\ holder' = holder /\ nextId' = nextId /\ cut' = cut
      /\ left' = left
  BY <1>20 DEF WriteMessages
<1>9. state' = state
  BY <1>1, <1>20 DEF WriteMessages, ProcsTyped
<1>10. /\ job'[p].stale = Stale(p) /\ (job'[p].skipMeta => state[p].seq <= meta.seq)
       /\ job' \in [Procs -> [stale : BOOLEAN, skipMeta : BOOLEAN]]
       /\ \A q \in Procs : q # p => job'[q] = job[q]
  <2> DEFINE j == [stale |-> Stale(p),
                   skipMeta |-> Unchanged(p) /\ ~state[p].metaMoved /\ state[p].seq <= meta.seq]
  <2>1. job' = [job EXCEPT ![p] = j]
    BY DEF WriteMessages
  <2>2. j \in [stale : BOOLEAN, skipMeta : BOOLEAN] /\ j.stale = Stale(p)
        /\ (j.skipMeta => state[p].seq <= meta.seq)
    BY DEF Stale
  <2> HIDE DEF j
  <2> QED BY <1>1, <2>1, <2>2 DEF ProcsTyped
<1>18. cache' = [cache EXCEPT ![p] = [ver |-> disk.ver, msgs |-> state[p].msgs,
                                     moved |-> FALSE, edited |-> FALSE]]
  BY EncodedIsWhole DEF WriteMessages
<1>19. disk.msgs = state[p].msgs /\ disk.ver \in Versions /\ state[p].msgs \in Seq(Ids)
       /\ disk.ver \in MaybeVersion
  BY <1>1, UnchangedIsSame DEF FilesTyped, StateT, MaybeVersion
<1> DEFINE t == state[p]
<1>2. t \in StateT /\ t.pc = state[p].pc /\ t.msgs = state[p].msgs /\ t.known = state[p].known
      /\ t.moved = state[p].moved /\ t.seen = state[p].seen /\ t.diverged = state[p].diverged
      /\ t.seq = state[p].seq /\ t.statFile = state[p].statFile
  BY <1>1
<1>3. state' = [state EXCEPT ![p] = t]
  BY <1>1, <1>9 DEF ProcsTyped
<1>4. save[p] = "wanted" /\ \A q \in Procs : save[q] # "meta"
  BY DEF WriteMessages
<1> HIDE DEF t
<1>5. /\ state'[p] = t /\ cache'[p].ver = disk.ver /\ cache'[p].msgs = state[p].msgs
      /\ save'[p] = "meta" /\ job'[p].stale = Stale(p) /\ nextId' = nextId /\ holder' = holder
      /\ left' = left /\ (job'[p].skipMeta => state[p].seq <= meta.seq)
      /\ disk' = disk /\ meta' = meta
  BY <1>1, <1>3, <1>4, <1>0, <1>9, <1>10, <1>18, <1>19 DEF ProcsTyped, FilesTyped, CacheT, Spend
<1>6. Standing(p)
  BY <1>1, <1>3, <1>4, <1>5, <1>0, <1>10, <1>18, <1>19 DEF Standing, Spend, ProcsTyped, FilesTyped
<1>7. FilesTyped'
  BY <1>1, <1>4, <1>5, <1>0 DEF FilesTyped, Spend
<1>8. ProcsTyped'
  BY <1>1, <1>2, <1>3, <1>0, <1>10, <1>18, <1>19 DEF ProcsTyped, CacheT
<1>11. HistoriesProper(p)'
  BY <1>1, <1>2, <1>4, <1>5 DEF HistoriesProper, ProcessTells
<1>12. TurnsExclude(p)'
  BY <1>1, <1>2, <1>4, <1>5 DEF TurnsExclude, ProcessTells, Locked
<1>13. CacheTells(p)'
  <2>1. IsPrefix(state[p].msgs, state[p].msgs) /\ disk.ver # 0
    BY <1>19 DEF IsPrefix, Versions
  <2>2. state[p].pc \notin {"absent", "loading"}
    BY <1>1, <1>4 DEF ProcessTells, TurnsExclude
  <2> QED BY <1>2, <1>5, <1>19, <2>1, <2>2 DEF CacheTells
<1>14. SavesTell(p)'
  BY <1>1, <1>2, <1>4, <1>5, <1>19 DEF SavesTell, ProcessTells, Inside
<1>15. StampTells(p)'
  BY <1>1, <1>2, <1>4, <1>5 DEF StampTells, ProcessTells
<1>16. NothingUnseen(p)'
  BY <1>1, <1>2, <1>4, <1>5 DEF NothingUnseen, ProcessTells, Inside
<1>17. TurnsCounted(p)'
  BY <1>1, <1>2, <1>4, <1>5 DEF TurnsCounted, ProcessTells
<1> QED
  BY <1>6, <1>7, <1>8, <1>11, <1>12, <1>13, <1>14, <1>15, <1>16, <1>17, OthersStand DEF ProcessTells

\* A save that writes the transcript: no stamp and no other entry of a cache names what it
\* wrote, and whoever is in a turn knows itself overtaken.
LEMMA WriteTranscriptStep ==
  ASSUME BundleInv, NEW p \in Procs, WriteMessages(p), ~Unchanged(p)
  PROVE  BundleInv'
<1>1. /\ FilesTyped /\ ProcsTyped /\ Proper(disk.msgs, nextId) /\ OneSaves /\ CountIsTrue
      /\ \A q \in Procs : ProcessTells(q)
  BY DEF BundleInv
<1> DEFINE v == NewFileVersion
           ours == state[p].msgs
           entry == [ver |-> v, msgs |-> ours, moved |-> FALSE, edited |-> FALSE]
           j == [stale |-> Stale(p), skipMeta |-> FALSE]
<1>2. /\ save[p] = "wanted" /\ \A q \in Procs : save[q] # "meta"
      /\ save' = [save EXCEPT ![p] = "meta"] /\ job' = [job EXCEPT ![p] = j]
      /\ meta' = meta /\ holder' = holder /\ nextId' = nextId /\ cut' = cut /\ left' = left
      /\ disk' = [msgs |-> ours, ver |-> v] /\ cache' = [cache EXCEPT ![p] = entry]
  BY EncodedIsWhole DEF WriteMessages
<1>3. /\ ~Stale(p) /\ v \in Versions /\ v # 0 /\ v \in MaybeVersion /\ ours \in Seq(Ids)
  BY <1>1, NewFileVersionIsNew DEF Unchanged, Versions, MaybeVersion, ProcsTyped, StateT
<1>4. /\ v # meta.of
      /\ \A q \in Procs : v # state[q].seen /\ v # cache[q].ver /\ v # state[q].statFile
  BY NewFileVersionIsNew
<1>5. j.stale = FALSE /\ j.skipMeta = FALSE /\ j \in [stale : BOOLEAN, skipMeta : BOOLEAN]
  BY <1>3 DEF Stale
<1>6. entry \in CacheT
  BY <1>3 DEF CacheT
<1> HIDE DEF v, j
<1>7. \A q \in Procs :
        state'[q] = IF q = holder /\ q # p THEN [state[q] EXCEPT !.diverged = TRUE] ELSE state[q]
  BY DEF WriteMessages
<1>8. \A q \in Procs :
        /\ state'[q] \in StateT /\ state'[q].pc = state[q].pc /\ state'[q].msgs = state[q].msgs
        /\ state'[q].known = state[q].known /\ state'[q].moved = state[q].moved
        /\ state'[q].seen = state[q].seen /\ state'[q].seq = state[q].seq
        /\ state'[q].statFile = state[q].statFile
        /\ q # holder \/ q = p => state'[q].diverged = state[q].diverged
        /\ q = holder /\ q # p => state'[q].diverged = TRUE
  <2> TAKE q \in Procs
  <2>1. state[q] \in StateT
    BY <1>1 DEF ProcsTyped
  <2>2. CASE q = holder /\ q # p
    <3> DEFINE u == [state[q] EXCEPT !.diverged = TRUE]
    <3>1. /\ u \in StateT /\ u.pc = state[q].pc /\ u.msgs = state[q].msgs
          /\ u.known = state[q].known /\ u.moved = state[q].moved /\ u.seen = state[q].seen
          /\ u.diverged = TRUE /\ u.seq = state[q].seq /\ u.statFile = state[q].statFile
      BY <2>1, DivergedIs
    <3>2. state'[q] = u
      BY <1>7, <2>2
    <3> HIDE DEF u
    <3> QED BY <2>2, <3>1, <3>2
  <2>3. CASE ~(q = holder /\ q # p)
    BY <1>7, <2>1, <2>3
  <2> QED BY <2>2, <2>3
<1>9. /\ disk'.msgs = ours /\ disk'.ver = v /\ cache'[p] = entry /\ save'[p] = "meta" /\ job'[p] = j
      /\ \A q \in Procs : q # p => cache'[q] = cache[q] /\ save'[q] = save[q] /\ job'[q] = job[q]
  BY <1>1, <1>2 DEF ProcsTyped
<1>10. FilesTyped'
  BY <1>1, <1>2, <1>3 DEF FilesTyped
<1>11. ProcsTyped'
  <2>1. state' \in [Procs -> StateT]
    BY <1>8 DEF WriteMessages
  <2>2. cache' \in [Procs -> CacheT]
    BY <1>1, <1>2, <1>6 DEF ProcsTyped
  <2> QED BY <1>1, <1>2, <1>5, <2>1, <2>2 DEF ProcsTyped
<1>12. Proper(disk.msgs, nextId)'
  BY <1>1, <1>2, <1>9 DEF ProcessTells, HistoriesProper
<1>13. OneSaves'
  BY <1>2, <1>9 DEF OneSaves
<1>14. CountIsTrue'
  BY <1>2, <1>4, <1>9 DEF CountIsTrue
<1>15. ASSUME NEW q \in Procs PROVE ProcessTells(q)'
  <2>1. ProcessTells(q) /\ ProcessTells(p)
    BY <1>1
  <2>2. HistoriesProper(q)'
    BY <1>2, <1>8, <1>9, <2>1 DEF ProcessTells, HistoriesProper
  <2>3. TurnsExclude(q)'
    BY <1>2, <1>8, <1>9, <2>1 DEF ProcessTells, TurnsExclude
  <2>4. CacheTells(q)'
    <3>1. CASE q = p
      <4>1. IsPrefix(ours, ours) /\ state[p].pc \notin {"absent", "loading"}
        BY <1>2, <1>3, <2>1 DEF IsPrefix, ProcessTells, TurnsExclude
      <4> QED BY <1>8, <1>9, <3>1, <4>1 DEF CacheTells
    <3>2. CASE q # p
      BY <1>4, <1>8, <1>9, <2>1, <3>2 DEF ProcessTells, CacheTells
    <3> QED BY <3>1, <3>2
  <2>5. SavesTell(q)'
    <3>1. CASE q = p
      BY <1>2, <1>5, <1>8, <1>9, <2>1, <3>1 DEF ProcessTells, SavesTell
    <3>2. CASE q # p
      BY <1>2, <1>8, <1>9, <2>1, <3>2 DEF ProcessTells, SavesTell
    <3> QED BY <3>1, <3>2
  <2>6. StampTells(q)'
    <3>1. state[q].pc = "refresh" => q # p /\ holder = q
      BY <1>2, <2>1 DEF ProcessTells, TurnsExclude, Locked
    <3> QED BY <1>4, <1>8, <1>9, <3>1 DEF StampTells
  <2>7. NothingUnseen(q)'
    <3>1. CASE q = p
      BY <1>8, <1>9, <2>1, <3>1 DEF ProcessTells, NothingUnseen, HistoriesProper
    <3>2. CASE q # p
      <4>1. state[q].pc \in Inside => holder = q
        BY <2>1 DEF ProcessTells, TurnsExclude, Locked, Inside
      <4> QED BY <1>8, <3>2, <4>1 DEF NothingUnseen
    <3> QED BY <3>1, <3>2
  <2>8. TurnsCounted(q)'
    BY <1>2, <1>8, <1>9, <2>1 DEF ProcessTells, TurnsCounted
  <2> QED BY <2>2, <2>3, <2>4, <2>5, <2>6, <2>7, <2>8 DEF ProcessTells
<1> QED
  BY <1>10, <1>11, <1>12, <1>13, <1>14, <1>15 DEF BundleInv

\* What the rest of a save leaves of the State that saves.
LEMMA SaveEnds ==
  ASSUME BundleInv, NEW p \in Procs, WriteMeta(p)
  PROVE  /\ state' = [state EXCEPT ![p] = state'[p]] /\ state'[p] \in StateT
         /\ state'[p].pc = state[p].pc /\ state'[p].msgs = state[p].msgs
         /\ state'[p].known = state[p].known /\ state'[p].seq = state[p].seq
         /\ state'[p].statFile = state[p].statFile
         /\ job[p].stale => /\ state'[p].moved = state[p].moved /\ state'[p].seen = state[p].seen
                            /\ state'[p].diverged = state[p].diverged
         /\ ~job[p].stale => /\ state'[p].moved = FALSE /\ state'[p].seen = disk.ver
                             /\ state'[p].diverged = FALSE
<1>1. FilesTyped /\ ProcsTyped /\ state[p] \in StateT /\ disk.ver \in Versions
  BY DEF BundleInv, ProcsTyped, FilesTyped
<1> DEFINE w == NewMetaVersion
           s == IF job[p].skipMeta THEN state[p]
                ELSE [state[p] EXCEPT !.metaMoved = FALSE, !.metaSeen = w]
           t == IF job[p].stale THEN s
                ELSE [s EXCEPT !.seen = disk.ver, !.moved = FALSE, !.diverged = FALSE]
<1>2. w \in Versions
  BY NewMetaVersionIsThere
<1>3. state' = [state EXCEPT ![p] = t]
  BY DEF WriteMeta, Set
<1> HIDE DEF w
<1>4. /\ s \in StateT /\ s.pc = state[p].pc /\ s.msgs = state[p].msgs /\ s.known = state[p].known
      /\ s.moved = state[p].moved /\ s.seen = state[p].seen /\ s.diverged = state[p].diverged
      /\ s.seq = state[p].seq /\ s.statFile = state[p].statFile
  BY <1>1, <1>2, MetaSeenIs
<1> HIDE DEF s
<1>5. /\ t \in StateT /\ t.pc = s.pc /\ t.msgs = s.msgs /\ t.known = s.known /\ t.seq = s.seq
      /\ t.statFile = s.statFile
      /\ job[p].stale => t.moved = s.moved /\ t.seen = s.seen /\ t.diverged = s.diverged
      /\ ~job[p].stale => t.moved = FALSE /\ t.seen = disk.ver /\ t.diverged = FALSE
  BY <1>1, <1>4, CurrentIs
<1> HIDE DEF t
<1>6. state'[p] = t
  BY <1>1, <1>3 DEF ProcsTyped
<1> QED
  BY <1>3, <1>4, <1>5, <1>6

\* The rest of a save: session.json is told what the save knows of the transcript, and a
\* State whose save was not overtaken knows the file.
LEMMA WriteMetaStep ==
  ASSUME BundleInv, NEW p \in Procs, WriteMeta(p)
  PROVE  BundleInv'
<1>1. /\ FilesTyped /\ ProcsTyped /\ Proper(disk.msgs, nextId) /\ OneSaves /\ CountIsTrue
      /\ \A q \in Procs : ProcessTells(q)
  BY DEF BundleInv
<1>2. /\ save[p] = "meta" /\ save' = [save EXCEPT ![p] = "none"] /\ job' = [job EXCEPT ![p] = NoJob]
      /\ disk' = disk /\ cache' = cache /\ holder' = holder /\ nextId' = nextId /\ cut' = cut
      /\ left' = left
  BY DEF WriteMeta
<1>3. /\ state'[p] \in StateT /\ state'[p].pc = state[p].pc /\ state'[p].msgs = state[p].msgs
      /\ state'[p].known = state[p].known /\ state'[p].seq = state[p].seq
      /\ state'[p].statFile = state[p].statFile
      /\ job[p].stale => /\ state'[p].moved = state[p].moved /\ state'[p].seen = state[p].seen
                         /\ state'[p].diverged = state[p].diverged
      /\ ~job[p].stale => /\ state'[p].moved = FALSE /\ state'[p].seen = disk.ver
                          /\ state'[p].diverged = FALSE
      /\ state' = [state EXCEPT ![p] = state'[p]]
  BY SaveEnds
<1>4. /\ job[p].skipMeta => meta' = meta
      /\ ~job[p].skipMeta =>
           meta' = [count |-> IF job[p].stale THEN meta.count ELSE Len(state[p].msgs),
                    of |-> IF job[p].stale THEN meta.of ELSE disk.ver,
                    seq |-> Larger(state[p].seq, meta.seq), ver |-> NewMetaVersion]
  BY DEF WriteMeta
<1>5. /\ state[p].seq \in 0..MaxTurns /\ meta.seq \in 0..MaxTurns /\ MaxTurns \in Nat
      /\ meta.count \in 0..MaxMsgs /\ meta.of \in Versions /\ disk.ver \in Versions
      /\ state[p].msgs \in Seq(Ids) /\ nextId \in 1..(MaxMsgs + 1)
  BY <1>1, BoundsAssumption DEF FilesTyped, ProcsTyped, StateT
<1>6. Len(state[p].msgs) \in 0..MaxMsgs
  <2>1. Proper(state[p].msgs, nextId)
    BY <1>1 DEF ProcessTells, HistoriesProper
  <2>2. Len(state[p].msgs) \in Nat /\ Len(state[p].msgs) <= MaxMsgs
    BY <1>5, <2>1, HistoryFits
  <2> QED BY <2>2, BoundsAssumption
<1>7. /\ ~job[p].stale => disk.msgs = state[p].msgs
      /\ job[p].stale => ~state[p].moved
      /\ job[p].skipMeta => state[p].seq <= meta.seq
  BY <1>1, <1>2 DEF ProcessTells, SavesTell
<1>8. meta'.seq = Larger(state[p].seq, meta.seq)
  <2>1. CASE job[p].skipMeta
    BY <1>4, <1>5, <1>7, <2>1 DEF Larger
  <2>2. CASE ~job[p].skipMeta
    BY <1>4, <2>2
  <2> QED BY <2>1, <2>2
<1>9. meta' \in [count : 0..MaxMsgs, of : Versions, seq : 0..MaxTurns, ver : Versions]
  <2>1. CASE job[p].skipMeta
    BY <1>1, <1>4, <2>1 DEF FilesTyped
  <2>2. CASE ~job[p].skipMeta
    <3>1. Larger(state[p].seq, meta.seq) \in 0..MaxTurns /\ NewMetaVersion \in Versions
      BY <1>5, NewMetaVersionIsThere DEF Larger
    <3> QED BY <1>4, <1>5, <1>6, <2>2, <3>1
  <2> QED BY <2>1, <2>2
<1>10. FilesTyped'
  BY <1>1, <1>2, <1>9 DEF FilesTyped
<1>11. ProcsTyped'
  <2>1. NoJob \in [stale : BOOLEAN, skipMeta : BOOLEAN]
    BY DEF NoJob
  <2>2. state' \in [Procs -> StateT]
    BY <1>1, <1>3 DEF ProcsTyped
  <2> QED BY <1>1, <1>2, <2>1, <2>2 DEF ProcsTyped
<1>12. Proper(disk.msgs, nextId)'
  BY <1>1, <1>2
<1>13. OneSaves'
  BY <1>1, <1>2 DEF OneSaves, ProcsTyped
<1>14. CountIsTrue'
  <2>1. CASE job[p].skipMeta \/ job[p].stale
    BY <1>1, <1>2, <1>4, <2>1 DEF CountIsTrue
  <2>2. CASE ~job[p].skipMeta /\ ~job[p].stale
    BY <1>2, <1>4, <1>7, <2>2 DEF CountIsTrue
  <2> QED BY <2>1, <2>2
<1>15. ProcessTells(p)'
  <2>1. ProcessTells(p) /\ save'[p] = "none"
    BY <1>1, <1>2 DEF ProcsTyped
  <2>2. HistoriesProper(p)'
    BY <1>2, <1>3, <2>1 DEF ProcessTells, HistoriesProper
  <2>3. TurnsExclude(p)'
    BY <1>2, <1>3, <2>1 DEF ProcessTells, TurnsExclude
  <2>4. CacheTells(p)'
    BY <1>2, <1>3, <2>1 DEF ProcessTells, CacheTells
  <2>5. SavesTell(p)'
    BY <1>2, <1>3, <1>7, <2>1 DEF ProcessTells, SavesTell
  <2>6. StampTells(p)'
    BY <1>2, <1>3, <1>7, <2>1 DEF ProcessTells, StampTells, TurnsExclude
  <2>7. NothingUnseen(p)'
    BY <1>2, <1>3, <1>7, <2>1 DEF ProcessTells, NothingUnseen, HistoriesProper
  <2>8. TurnsCounted(p)'
    <3>1. state[p].seq <= meta'.seq /\ (state[p].seq >= meta.seq => state[p].seq = meta'.seq)
      BY <1>5, <1>8 DEF Larger
    <3> QED BY <1>2, <1>3, <1>5, <2>1, <3>1 DEF ProcessTells, TurnsCounted
  <2> QED BY <2>2, <2>3, <2>4, <2>5, <2>6, <2>7, <2>8 DEF ProcessTells
<1>16. ASSUME NEW q \in Procs, q # p PROVE ProcessTells(q)'
  <2>1. /\ ProcessTells(q) /\ ProcessTells(p)
        /\ state'[q] = state[q] /\ save'[q] = save[q] /\ job'[q] = job[q]
    BY <1>1, <1>2, <1>3, <1>16 DEF ProcsTyped
  <2>2. save[q] # "meta"
    BY <1>1, <1>2, <1>16 DEF OneSaves
  <2>3. HistoriesProper(q)'
    BY <1>2, <2>1 DEF ProcessTells, HistoriesProper
  <2>4. TurnsExclude(q)'
    BY <1>2, <2>1 DEF ProcessTells, TurnsExclude
  <2>5. CacheTells(q)'
    BY <1>2, <2>1 DEF ProcessTells, CacheTells
  <2>6. SavesTell(q)'
    BY <1>2, <2>1, <2>2 DEF ProcessTells, SavesTell
  <2>7. StampTells(q)'
    BY <1>2, <2>1 DEF ProcessTells, StampTells
  <2>8. NothingUnseen(q)'
    BY <1>2, <2>1 DEF ProcessTells, NothingUnseen
  <2>9. TurnsCounted(q)'
    <3>1. state[q].seq \in Nat /\ meta'.seq \in Nat /\ meta'.seq >= meta.seq
      BY <1>1, <1>5, <1>8 DEF ProcsTyped, StateT, Larger
    <3>2. state[q].pc = "turn" => state[p].pc # "turn"
      BY <1>16, <2>1 DEF ProcessTells, TurnsExclude, Locked
    <3>3. left.fault = MaxFaults /\ state[q].pc = "turn" => meta'.seq = meta.seq
      BY <1>5, <1>8, <2>1, <3>2 DEF ProcessTells, TurnsCounted, Larger
    <3> QED BY <1>2, <1>5, <2>1, <3>1, <3>3 DEF ProcessTells, TurnsCounted
  <2> QED BY <2>3, <2>4, <2>5, <2>6, <2>7, <2>8, <2>9 DEF ProcessTells
<1> QED
  BY <1>10, <1>11, <1>12, <1>13, <1>14, <1>15, <1>16 DEF BundleInv

-------------------------------------------------------------------------------
(* The invariant of the bundle. *)

LEMMA BundleStarts == BundleInit => BundleInv
<1> SUFFICES ASSUME BundleInit PROVE BundleInv
  OBVIOUS
<1>1. /\ <<>> \in Seq(Ids) /\ 0 \in 0..MaxTurns /\ 0 \in 0..MaxMsgs /\ 1 \in Versions
      /\ MaxFaults \in 0..MaxFaults /\ 0 \in MaybeVersion /\ 1 \in 1..(MaxMsgs + 1)
  <2>1. Cardinality(Procs) \in Nat
    BY ProcsAssumption, FS_CardinalityType
  <2> QED BY <2>1, BoundsAssumption DEF Versions, MaybeVersion
<1>2. /\ disk = [msgs |-> <<>>, ver |-> 1] /\ meta = [count |-> 0, of |-> 1, seq |-> 0, ver |-> 1]
      /\ state = [p \in Procs |-> Absent] /\ cache = [p \in Procs |-> NoCache]
      /\ save = [p \in Procs |-> "none"] /\ job = [p \in Procs |-> NoJob]
      /\ holder = Nobody /\ nextId = 1 /\ cut = {}
      /\ left = [touch |-> MaxTouches, rewind |-> MaxRewinds, fault |-> MaxFaults,
                 crash |-> MaxCrashes]
  BY DEF BundleInit
<1>3. FilesTyped
  BY <1>1, <1>2, BoundsAssumption DEF FilesTyped
<1>4. /\ NoCache \in CacheT /\ NoJob \in [stale : BOOLEAN, skipMeta : BOOLEAN]
      /\ NoCache.ver = 0 /\ NoCache.msgs = <<>>
  BY <1>1 DEF NoCache, CacheT, NoJob
<1>5. ProcsTyped
  BY <1>2, <1>4, AbsentTyped DEF ProcsTyped
<1>6. Proper(disk.msgs, nextId)
  BY <1>2, ProperEmpty
<1>7. OneSaves /\ CountIsTrue
  BY <1>2 DEF OneSaves, CountIsTrue
<1>8. ASSUME NEW p \in Procs PROVE ProcessTells(p)
  <2>1. /\ state[p].pc = "absent" /\ state[p].msgs = <<>> /\ state[p].moved = FALSE
        /\ state[p].seq = 0 /\ state[p].known = {}
        /\ cache[p].ver = 0 /\ cache[p].msgs = <<>> /\ save[p] = "none"
    BY <1>2, <1>4 DEF Absent
  <2>2. HistoriesProper(p)
    BY <2>1, ProperEmpty DEF HistoriesProper
  <2>3. TurnsExclude(p)
    BY <2>1 DEF TurnsExclude, Locked
  <2>4. CacheTells(p) /\ SavesTell(p)
    BY <1>2, <2>1 DEF CacheTells, SavesTell
  <2>5. StampTells(p) /\ NothingUnseen(p) /\ TurnsCounted(p)
    BY <1>2, <2>1 DEF StampTells, NothingUnseen, TurnsCounted, Inside
  <2> QED BY <2>2, <2>3, <2>4, <2>5 DEF ProcessTells
<1> QED
  BY <1>3, <1>5, <1>6, <1>7, <1>8 DEF BundleInv

LEMMA BundleStands ==
  ASSUME BundleInv, UNCHANGED bundleVars
  PROVE  BundleInv'
<1>1. UNCHANGED <<disk, meta, state, cache, save, job, holder, nextId, left, cut>>
  BY DEF bundleVars
<1>2. FilesTyped' /\ ProcsTyped' /\ Proper(disk.msgs, nextId)' /\ OneSaves' /\ CountIsTrue'
  BY <1>1 DEF BundleInv, FilesTyped, ProcsTyped, OneSaves, CountIsTrue
<1>3. ASSUME NEW p \in Procs PROVE ProcessTells(p)'
  <2>1. HistoriesProper(p)' /\ TurnsExclude(p)' /\ CacheTells(p)' /\ SavesTell(p)'
    BY <1>1 DEF BundleInv, ProcessTells, HistoriesProper, TurnsExclude, CacheTells, SavesTell
  <2>2. StampTells(p)' /\ NothingUnseen(p)' /\ TurnsCounted(p)'
    BY <1>1 DEF BundleInv, ProcessTells, StampTells, NothingUnseen, TurnsCounted
  <2> QED BY <2>1, <2>2 DEF ProcessTells
<1> QED
  BY <1>2, <1>3 DEF BundleInv

LEMMA BeginTurnStep ==
  ASSUME BundleInv, NEW p \in Procs, NEW goal \in {"turn", "rewind"}, BeginTurn(p, goal)
  PROVE  BundleInv'
<1>1. CASE state[p].moved \/ (state[p].seen = disk.ver /\ state[p].metaSeen = meta.ver)
  BY <1>1, BeginTurnAtOnceStep
<1>2. CASE ~(state[p].moved \/ (state[p].seen = disk.ver /\ state[p].metaSeen = meta.ver))
  BY <1>2, BeginTurnRefreshStep
<1> QED
  BY <1>1, <1>2

LEMMA RefreshReadStep ==
  ASSUME BundleInv, NEW p \in Procs, RefreshRead(p)
  PROVE  BundleInv'
<1>1. CASE state[p].seen # state[p].statFile /\ ~Newer(disk.msgs, state[p].msgs)
  BY <1>1, RefreshOlderStep
<1>2. CASE state[p].seen # state[p].statFile /\ Newer(disk.msgs, state[p].msgs)
  BY <1>2, RefreshNewerStep
<1>3. CASE state[p].seen = state[p].statFile
  BY <1>3, RefreshSameStep
<1> QED
  BY <1>1, <1>2, <1>3

LEMMA WriteMessagesStep ==
  ASSUME BundleInv, NEW p \in Procs, WriteMessages(p)
  PROVE  BundleInv'
<1>1. CASE Stale(p)
  BY <1>1, WriteNothingStaleStep
<1>2. CASE Unchanged(p) /\ ~Stale(p)
  BY <1>2, WriteNothingSameStep
<1>3. CASE ~Unchanged(p)
  BY <1>3, WriteTranscriptStep
<1> QED
  BY <1>1, <1>2, <1>3

LEMMA BundleStep == BundleInv /\ [BundleNext]_bundleVars => BundleInv'
<1> SUFFICES ASSUME BundleInv, [BundleNext]_bundleVars PROVE BundleInv'
  OBVIOUS
<1>1. CASE UNCHANGED bundleVars
  BY <1>1, BundleStands
<1>2. ASSUME NEW p \in Procs, ReadStep(p) PROVE BundleInv'
  <2>1. ASSUME NEW goal \in {"turn", "rewind"}, BeginTurn(p, goal) PROVE BundleInv'
    BY <2>1, BeginTurnStep
  <2> QED
    BY <1>2, <2>1, LoadStatStep, LoadReadStep, LoadReadFailsStep, RefreshReadStep,
       RefreshFailsStep DEF ReadStep
<1>3. ASSUME NEW p \in Procs, ChangeStep(p) PROVE BundleInv'
  <2>1. ASSUME NEW own \in BOOLEAN, Touch(p, own) PROVE BundleInv'
    BY <2>1, TouchStep
  <2> QED
    BY <1>3, <2>1, Append1Step, RewindStep, RewindSavesStep, OutcomeStep, EndTurnStep
    DEF ChangeStep
<1>4. ASSUME NEW p \in Procs, SaveStep(p) PROVE BundleInv'
  BY <1>4, WriteMessagesStep, WriteMetaStep, SaveFailsStep, CrashStep DEF SaveStep
<1> QED
  BY <1>1, <1>2, <1>3, <1>4 DEF BundleNext

LEMMA BundleInvariant == BundleSpec => []BundleInv
<1>1. BundleInit => BundleInv
  BY BundleStarts
<1>2. BundleInv /\ [BundleNext]_bundleVars => BundleInv'
  BY BundleStep
<1> QED
  BY <1>1, <1>2, PTL DEF BundleSpec

-------------------------------------------------------------------------------
LEMMA InvTellsConsistent == BundleInv => BundleIsConsistent
<1> SUFFICES ASSUME BundleInv PROVE BundleIsConsistent
  OBVIOUS
<1>1. /\ FilesTyped /\ ProcsTyped /\ Proper(disk.msgs, nextId) /\ CountIsTrue
      /\ \A p \in Procs : ProcessTells(p)
  BY DEF BundleInv
<1>2. disk.msgs \in Histories /\ Cardinality(ToSet(disk.msgs)) = Len(disk.msgs)
  BY <1>1, HistoryFits DEF FilesTyped
<1>3. ASSUME NEW p \in Procs
      PROVE  /\ state[p].msgs \in Histories /\ cache[p].msgs \in Histories
             /\ Cardinality(ToSet(state[p].msgs)) = Len(state[p].msgs)
  <2>1. /\ state[p].msgs \in Seq(Ids) /\ cache[p].msgs \in Seq(Ids) /\ nextId \in 1..(MaxMsgs + 1)
        /\ Proper(state[p].msgs, nextId) /\ Proper(cache[p].msgs, nextId)
    BY <1>1 DEF FilesTyped, ProcsTyped, StateT, CacheT, ProcessTells, HistoriesProper
  <2> QED BY <2>1, HistoryFits
<1>4. disk \in [msgs : Histories, ver : Versions]
  BY <1>1, <1>2 DEF FilesTyped
<1> DEFINE StateOf == [pc : Places, goal : {"turn", "rewind"}, msgs : Histories,
                       seen : MaybeVersion, metaSeen : MaybeVersion, moved : BOOLEAN,
                       metaMoved : BOOLEAN, seq : 0..MaxTurns, statFile : MaybeVersion,
                       statMeta : MaybeVersion, diverged : BOOLEAN, known : SUBSET Ids]
           CacheOf == [ver : MaybeVersion, msgs : Histories, moved : BOOLEAN, edited : BOOLEAN]
<1>5. ASSUME NEW s \in StateT, s.msgs \in Histories PROVE s \in StateOf
  BY <1>5 DEF StateT
<1>6. ASSUME NEW c \in CacheT, c.msgs \in Histories PROVE c \in CacheOf
  BY <1>6 DEF CacheT
<1> HIDE DEF StateOf, CacheOf
<1>7. state \in [Procs -> StateOf] /\ cache \in [Procs -> CacheOf]
  BY <1>1, <1>3, <1>5, <1>6 DEF ProcsTyped
<1>8. BundleTypeOK
  BY <1>1, <1>2, <1>3, <1>4, <1>7
  DEF BundleTypeOK, FilesTyped, ProcsTyped, StateOf, CacheOf, Places
<1>9. CacheCoherent
  <2> SUFFICES ASSUME NEW p \in Procs, Usable(p), ~cache[p].moved
               PROVE  cache[p].msgs = state[p].msgs /\ disk.msgs = state[p].msgs
    BY DEF CacheCoherent
  <2>1. disk.ver # 0
    BY <1>1 DEF FilesTyped, Versions
  <2> QED BY <1>1, <2>1 DEF Usable, ProcessTells, CacheTells
<1>10. StampTellsTruth
  BY <1>1 DEF StampTellsTruth, ProcessTells, StampTells
<1> QED
  BY <1>1, <1>8, <1>9, <1>10 DEF BundleIsConsistent

\* The two files and what any number of processes keep of them never contradict each other:
\* an entry of the cache that would be used encodes the history in memory, a stamp that names
\* the transcript as it stands is true of it, and so is the count a listing would use; saves
\* that fail and processes that die between the two files included.
THEOREM BundleStaysConsistent == BundleSpec => []BundleIsConsistent
<1>1. BundleInv => BundleIsConsistent
  BY InvTellsConsistent
<1> QED
  BY <1>1, BundleInvariant, PTL

-------------------------------------------------------------------------------
\* Only the first half of a save moves it to its second.
LEMMA OnlyASaveGoesOn ==
  ASSUME BundleInv, BundleNext, NEW p \in Procs, save[p] = "wanted", save'[p] = "meta"
  PROVE  WriteMessages(p)
<1>1. PICK q \in Procs : ReadStep(q) \/ ChangeStep(q) \/ SaveStep(q)
  BY DEF BundleNext
<1>2. save \in [Procs -> {"none", "wanted", "meta"}]
  BY DEF BundleInv, ProcsTyped
<1>3. ReadStep(q) => save' = save
  BY DEF ReadStep, LoadStat, LoadRead, LoadReadFails, BeginTurn, RefreshRead, RefreshFails
<1>4. ChangeStep(q) => save' = save \/ save' = [save EXCEPT ![q] = "wanted"]
  BY DEF ChangeStep, Append1, Rewind, RewindSaves, Outcome, EndTurn, Touch
<1>5. WriteMeta(q) \/ SaveFails(q) \/ Crash(q) => save' = [save EXCEPT ![q] = "none"]
  BY DEF WriteMeta, SaveFails, Crash
<1>6. WriteMessages(q) => save' = [save EXCEPT ![q] = "meta"]
  BY DEF WriteMessages
<1>7. WriteMessages(q)
  BY <1>1, <1>2, <1>3, <1>4, <1>5 DEF SaveStep
<1>8. q = p
  BY <1>2, <1>6, <1>7
<1> QED
  BY <1>7, <1>8

\* What a save takes off the transcript its State once held.
LEMMA SaveDropsWhatItKnew ==
  ASSUME BundleInv, NEW p \in Procs, WriteMessages(p), ~state[p].diverged
  PROVE  ToSet(disk.msgs) \ ToSet(disk'.msgs) \subseteq state[p].known
<1>1. CASE Unchanged(p)
  BY <1>1 DEF WriteMessages
<1>2. CASE ~Unchanged(p)
  <2>1. ProcessTells(p) /\ disk.msgs \in Seq(Ids) /\ state[p].msgs \in Seq(Ids)
    BY DEF BundleInv, FilesTyped, ProcsTyped, StateT
  <2>2. save[p] = "wanted"
    BY DEF WriteMessages
  <2>3. CASE state[p].pc \in Inside
    BY <2>1, <2>3 DEF ProcessTells, NothingUnseen
  <2>4. CASE state[p].pc \notin Inside
    <3>1. ~state[p].moved /\ state[p].pc \notin {"absent", "loading"}
      BY <2>1, <2>2, <2>4 DEF ProcessTells, SavesTell, TurnsExclude
    <3>2. state[p].seen = disk.ver \/ ~Newer(disk.msgs, state[p].msgs)
      BY <1>2, <3>1 DEF Unchanged, Stale
    <3>3. state[p].seen = disk.ver => state[p].msgs = disk.msgs
      BY <2>1, <3>1 DEF ProcessTells, StampTells
    <3>4. ToSet(disk.msgs) \subseteq ToSet(state[p].msgs)
      BY <2>1, <3>2, <3>3, PrefixIsKnown
    <3> QED BY <2>1, <3>4 DEF ProcessTells, HistoriesProper
  <2> QED BY <2>3, <2>4
<1> QED
  BY <1>1, <1>2

\* Only the second half of a save moves the counter on disk, and upwards.
LEMMA CounterGrows ==
  ASSUME BundleInv, [BundleNext]_bundleVars
  PROVE  meta'.seq >= meta.seq
<1>1. meta.seq \in Nat /\ \A p \in Procs : state[p].seq \in Nat
  BY BoundsAssumption DEF BundleInv, FilesTyped, ProcsTyped, StateT
<1>2. ASSUME NEW p \in Procs, WriteMeta(p) PROVE meta'.seq >= meta.seq
  <2>1. CASE job[p].skipMeta
    BY <1>1, <1>2, <2>1 DEF WriteMeta
  <2>2. CASE ~job[p].skipMeta
    <3>1. meta'.seq = Larger(state[p].seq, meta.seq)
      BY <1>2, <2>2 DEF WriteMeta
    <3> QED BY <1>1, <3>1 DEF Larger
  <2> QED BY <2>1, <2>2
<1>3. ASSUME NEW p \in Procs, ReadStep(p) PROVE meta' = meta
  BY <1>3 DEF ReadStep, LoadStat, LoadRead, LoadReadFails, BeginTurn, RefreshRead, RefreshFails
<1>4. ASSUME NEW p \in Procs, ChangeStep(p) PROVE meta' = meta
  BY <1>4 DEF ChangeStep, Append1, Rewind, RewindSaves, Outcome, EndTurn, Touch
<1>5. ASSUME NEW p \in Procs, WriteMessages(p) \/ SaveFails(p) \/ Crash(p) PROVE meta' = meta
  BY <1>5 DEF WriteMessages, SaveFails, Crash
<1>6. UNCHANGED bundleVars => meta' = meta
  BY DEF bundleVars
<1> QED
  BY <1>1, <1>2, <1>3, <1>4, <1>5, <1>6 DEF BundleNext, SaveStep

\* No save takes the bundle back, whichever process saves and whatever it had read: what it
\* drops from the transcript its State once held, unless a read or a save of that State had
\* failed, and the counter of turns only grows.
THEOREM SavesNeverGoBack == BundleSpec => SavesGoForward
<1>1. BundleInv /\ [BundleNext]_bundleVars
        => \A p \in Procs :
             save[p] = "wanted" /\ save'[p] = "meta" /\ ~state[p].diverged
               => ToSet(disk.msgs) \ ToSet(disk'.msgs) \subseteq state[p].known
  <2> SUFFICES ASSUME BundleInv, [BundleNext]_bundleVars, NEW p \in Procs,
                      save[p] = "wanted", save'[p] = "meta", ~state[p].diverged
               PROVE  ToSet(disk.msgs) \ ToSet(disk'.msgs) \subseteq state[p].known
    OBVIOUS
  <2>1. BundleNext
    BY DEF bundleVars
  <2> QED BY <2>1, OnlyASaveGoesOn, SaveDropsWhatItKnew
<1>2. BundleInv /\ BundleInv' /\ [BundleNext]_bundleVars
        => /\ meta'.seq >= meta.seq
           /\ left'.fault = MaxFaults =>
                \A p \in Procs : state'[p].pc = "turn" => state'[p].seq >= meta'.seq
  <2> SUFFICES ASSUME BundleInv, BundleInv', [BundleNext]_bundleVars
               PROVE  /\ meta'.seq >= meta.seq
                      /\ left'.fault = MaxFaults =>
                           \A p \in Procs : state'[p].pc = "turn" => state'[p].seq >= meta'.seq
    OBVIOUS
  <2>1. left'.fault = MaxFaults =>
          \A p \in Procs : state'[p].pc = "turn" => state'[p].seq >= meta'.seq
    BY DEF BundleInv, ProcessTells, TurnsCounted
  <2> QED BY <2>1, CounterGrows
<1> QED
  BY <1>1, <1>2, BundleInvariant, PTL DEF SavesGoForward, NothingUnseenIsDropped, SeqGrows, BundleSpec

-------------------------------------------------------------------------------
\* A step of another process moves no State into a turn.
LEMMA OthersStayWhereTheyAre ==
  ASSUME BundleInv, NEW p \in Procs, NEW q \in Procs, q # p,
         ReadStep(q) \/ ChangeStep(q) \/ SaveStep(q)
  PROVE  state'[p].pc = state[p].pc
<1>1. state \in [Procs -> StateT] /\ state[p] \in StateT
  BY DEF BundleInv, ProcsTyped
<1>2. ASSUME NEW s, Set(q, s) PROVE state'[p].pc = state[p].pc
  BY <1>1, <1>2 DEF Set
<1>3. ASSUME ReadStep(q) PROVE \E s : Set(q, s)
  <2>1. (LoadStat(q) \/ LoadRead(q) \/ LoadReadFails(q) \/ RefreshFails(q)) => \E s : Set(q, s)
    BY DEF LoadStat, LoadRead, LoadReadFails, RefreshFails
  <2>2. ASSUME NEW goal, BeginTurn(q, goal) PROVE \E s : Set(q, s)
    BY <2>2 DEF BeginTurn
  <2>3. RefreshRead(q) => \E s : Set(q, s)
    BY DEF RefreshRead
  <2> QED BY <1>3, <2>1, <2>2, <2>3 DEF ReadStep
<1>4. ASSUME ChangeStep(q) PROVE \E s : Set(q, s)
  BY <1>4 DEF ChangeStep, Append1, Rewind, RewindSaves, Outcome, EndTurn, Touch
<1>5. (WriteMeta(q) \/ SaveFails(q) \/ Crash(q)) => \E s : Set(q, s)
  BY DEF WriteMeta, SaveFails, Crash
<1>6. ASSUME WriteMessages(q) PROVE state'[p].pc = state[p].pc
  <2>1. state'[p] \in {state[p], [state[p] EXCEPT !.diverged = TRUE]}
    BY <1>6 DEF WriteMessages
  <2>2. [state[p] EXCEPT !.diverged = TRUE].pc = state[p].pc
    BY <1>1 DEF StateT
  <2> QED BY <2>1, <2>2
<1> QED
  BY <1>2, <1>3, <1>4, <1>5, <1>6 DEF SaveStep

\* A turn that begins at once, as the files are what the State last saw.
LEMMA BeginsOnAll ==
  ASSUME BundleInv, NEW p \in Procs, NEW goal \in {"turn", "rewind"}, BeginTurn(p, goal),
         state'[p].pc \in {"turn", "rewind"}, ~state'[p].diverged
  PROVE  ToSet(disk.msgs) \subseteq ToSet(state'[p].msgs)
<1>1. /\ FilesTyped /\ state \in [Procs -> StateT] /\ state[p] \in StateT /\ ProcessTells(p)
      /\ state[p].pc = "idle" /\ save[p] = "none"
      /\ disk.ver \in Versions /\ meta.ver \in Versions
  BY DEF BundleInv, FilesTyped, ProcsTyped, BeginTurn
<1> DEFINE s == [state[p] EXCEPT !.goal = goal]
<1>2. /\ s \in StateT /\ s.msgs = state[p].msgs /\ s.moved = state[p].moved
      /\ s.seen = state[p].seen /\ s.diverged = state[p].diverged
  BY <1>1, GoalIs
<1>3. CASE s.moved \/ (s.seen = disk.ver /\ s.metaSeen = meta.ver)
  <2>1. state' = [state EXCEPT ![p] = Entered(s)]
    BY <1>3 DEF BeginTurn, Set
  <2> HIDE DEF s
  <2>2. Entered(s).msgs = s.msgs /\ Entered(s).diverged = s.diverged
    BY <1>1, <1>2, EnteredIs
  <2>3. state'[p] = Entered(s)
    BY <1>1, <2>1
  <2>4. state[p].msgs = disk.msgs
    BY <1>1, <1>2, <1>3, <2>2, <2>3 DEF ProcessTells, SavesTell, StampTells
  <2> QED BY <1>2, <2>2, <2>3, <2>4
<1>4. CASE ~(s.moved \/ (s.seen = disk.ver /\ s.metaSeen = meta.ver))
  <2> DEFINE t == [s EXCEPT !.pc = "refresh", !.statFile = disk.ver, !.statMeta = meta.ver]
  <2>1. state' = [state EXCEPT ![p] = t]
    BY <1>4 DEF BeginTurn, Set
  <2> HIDE DEF s
  <2>2. t.pc = "refresh"
    BY <1>2 DEF StateT
  <2> HIDE DEF t
  <2> QED BY <1>1, <2>1, <2>2
<1> QED
  BY <1>3, <1>4

\* A turn that begins once its State is refreshed.
LEMMA RefreshesToAll ==
  ASSUME BundleInv, NEW p \in Procs, RefreshRead(p), ~state'[p].diverged
  PROVE  ToSet(disk.msgs) \subseteq ToSet(state'[p].msgs)
<1>1. /\ FilesTyped /\ ProcsTyped /\ state \in [Procs -> StateT] /\ state[p] \in StateT
      /\ ProcessTells(p) /\ state[p].pc = "refresh"
      /\ disk.msgs \in Seq(Ids) /\ state[p].msgs \in Seq(Ids)
  BY DEF BundleInv, FilesTyped, ProcsTyped, RefreshRead, StateT
<1>2. ASSUME NEW s \in StateT, state' = [state EXCEPT ![p] = Entered(s)]
      PROVE  state'[p].msgs = s.msgs /\ state'[p].diverged = s.diverged
  <2>1. Entered(s).msgs = s.msgs /\ Entered(s).diverged = s.diverged
    BY <1>1, EnteredIs
  <2> QED BY <1>1, <1>2, <2>1
<1>3. ASSUME NEW m \in Seq(Ids)
      PROVE  /\ Restored(p, m) \in StateT /\ Restored(p, m).msgs = m
             /\ Restored(p, m).diverged = state[p].diverged
  BY <1>1, RestoredIs
<1>4. CASE state[p].seen # state[p].statFile /\ ~Newer(disk.msgs, state[p].msgs)
  <2>1. state' = [state EXCEPT ![p] = Entered(state[p])]
    BY <1>4 DEF RefreshRead, Set
  <2> QED BY <1>1, <1>2, <1>4, <2>1, PrefixIsKnown
<1>5. CASE state[p].seen # state[p].statFile /\ Newer(disk.msgs, state[p].msgs)
  <2>1. state' = [state EXCEPT ![p] = Entered(Restored(p, disk.msgs))]
    BY <1>5 DEF RefreshRead, Set
  <2> QED BY <1>1, <1>2, <1>3, <2>1
<1>6. CASE state[p].seen = state[p].statFile
  <2>1. state' = [state EXCEPT ![p] = Entered(Restored(p, state[p].msgs))]
    BY <1>6 DEF RefreshRead, Set
  <2>2. state'[p].msgs = state[p].msgs /\ state'[p].diverged = state[p].diverged
    BY <1>1, <1>2, <1>3, <2>1
  <2>3. state[p].msgs = disk.msgs
    BY <1>1, <1>6, <2>2 DEF ProcessTells, StampTells, TurnsExclude
  <2> QED BY <2>2, <2>3
<1> QED
  BY <1>4, <1>5, <1>6

\* What else a process does begins no turn, or begins it on a State that is marked.
LEMMA NothingElseBegins ==
  ASSUME BundleInv, NEW p \in Procs, state[p].pc \in {"idle", "refresh"},
         ReadStep(p) \/ ChangeStep(p) \/ SaveStep(p), ~RefreshRead(p),
         \A goal \in {"turn", "rewind"} : ~BeginTurn(p, goal)
  PROVE  state'[p].pc \notin {"turn", "rewind"} \/ state'[p].diverged
<1>1. FilesTyped /\ state \in [Procs -> StateT] /\ state[p] \in StateT
  BY DEF BundleInv, ProcsTyped
<1>2. ~LoadStat(p) /\ ~LoadRead(p) /\ ~LoadReadFails(p)
  BY DEF LoadStat, LoadRead, LoadReadFails
<1>3. ~Append1(p) /\ ~Rewind(p) /\ ~RewindSaves(p) /\ ~Outcome(p) /\ ~EndTurn(p)
  BY DEF Append1, Rewind, RewindSaves, Outcome, EndTurn
<1>4. ASSUME NEW own \in BOOLEAN, Touch(p, own) PROVE state'[p].pc = state[p].pc
  <2> DEFINE t == [state[p] EXCEPT !.metaMoved = @ \/ own]
  <2>1. state' = [state EXCEPT ![p] = t] /\ t.pc = state[p].pc
    BY <1>1, <1>4, TouchedIs DEF Touch, Set
  <2> HIDE DEF t
  <2> QED BY <1>1, <2>1
<1>5. ASSUME RefreshFails(p) PROVE state'[p].diverged
  <2> DEFINE s == [state[p] EXCEPT !.diverged = TRUE]
  <2>1. state' = [state EXCEPT ![p] = Entered(s)]
    BY <1>5 DEF RefreshFails, Set
  <2>2. s \in StateT /\ s.diverged = TRUE
    BY <1>1, DivergedIs
  <2> HIDE DEF s
  <2>3. Entered(s).diverged = s.diverged
    BY <1>1, <2>2, EnteredIs
  <2> QED BY <1>1, <2>1, <2>2, <2>3
<1>6. ASSUME WriteMessages(p) PROVE state'[p].pc = state[p].pc
  BY <1>1, <1>6 DEF WriteMessages
<1>7. ASSUME WriteMeta(p) PROVE state'[p].pc = state[p].pc
  BY <1>7, SaveEnds
<1>8. ASSUME SaveFails(p) PROVE state'[p].pc = state[p].pc
  <2> DEFINE t == [state[p] EXCEPT !.diverged = @ \/ state[p].moved]
  <2>1. state' = [state EXCEPT ![p] = t] /\ t.pc = state[p].pc
    BY <1>1, <1>8 DEF SaveFails, Set, StateT
  <2> HIDE DEF t
  <2> QED BY <1>1, <2>1
<1>9. ASSUME Crash(p) PROVE state'[p].pc = "absent"
  <2>1. state' = [state EXCEPT ![p] = Absent] /\ Absent.pc = "absent"
    BY <1>9 DEF Crash, Set, Absent
  <2> QED BY <1>1, <2>1
<1> QED
  BY <1>2, <1>3, <1>4, <1>5, <1>6, <1>7, <1>8, <1>9 DEF ReadStep, ChangeStep, SaveStep

\* A turn, and a rewind, of any process begins on every message the transcript holds, however
\* many processes wrote it since the State was loaded, unless a read or a save of that State
\* had failed.
THEOREM TurnsBeginOnAll == BundleSpec => TurnSeesAll
<1>1. BundleInv /\ [BundleNext]_bundleVars
        => \A p \in Procs :
             state[p].pc \in {"idle", "refresh"} /\ state'[p].pc \in {"turn", "rewind"}
               /\ ~state'[p].diverged
               => ToSet(disk.msgs) \subseteq ToSet(state'[p].msgs)
  <2> SUFFICES ASSUME BundleInv, [BundleNext]_bundleVars, NEW p \in Procs,
                      state[p].pc \in {"idle", "refresh"}, state'[p].pc \in {"turn", "rewind"},
                      ~state'[p].diverged
               PROVE  ToSet(disk.msgs) \subseteq ToSet(state'[p].msgs)
    OBVIOUS
  <2>1. BundleNext
    BY DEF bundleVars
  <2>2. PICK q \in Procs : ReadStep(q) \/ ChangeStep(q) \/ SaveStep(q)
    BY <2>1 DEF BundleNext
  <2>3. q = p
    BY <2>2, OthersStayWhereTheyAre
  <2>4. RefreshRead(p) \/ \E goal \in {"turn", "rewind"} : BeginTurn(p, goal)
    BY <2>2, <2>3, NothingElseBegins
  <2> QED BY <2>4, BeginsOnAll, RefreshesToAll
<1> QED
  BY <1>1, BundleInvariant, PTL DEF TurnSeesAll, BundleSpec
===============================================================================
