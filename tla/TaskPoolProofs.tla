--------------------------- MODULE TaskPoolProofs ---------------------------
(***************************************************************************)
(* Proofs about the pool of background tasks (TaskPool).  What the place   *)
(* of a task's goroutine says of its status, of what the pool holds, of    *)
(* the record in the bundle, of the reapings that met the task and of the  *)
(* operating-system process is inductive.  The limit, the finality of      *)
(* records, a clean shutdown and the promise of TaskLife follow from it,   *)
(* for any number of tasks, any limit, any number of reapings and crashes. *)
(***************************************************************************)
EXTENDS TaskPool, FiniteSetTheorems, WellFoundedInduction, TLAPS

\* The places where a task runs, and those where it has its outcome.
Started == {"admitted", "launching", "launched", "attached", "supervised", "reaped"}
Decisive == {"settled", "saved", "failing", "failClosed", "unnotified", "over"}

\* Those before a record is first written, those under a record that says running, and those
\* after the outcome was written.
Unrecorded == {"admitted", "launching", "launched", "attached", "failing", "failClosed"}
Recording == {"supervised", "reaped", "settled"}
Recorded == {"saved", "unnotified", "over"}

\* A process that died knows nothing: no task, no directory, no clearing, no shutdown.
DownIsBlank ==
  ~ up => /\ ~ dirKnown /\ held = {} /\ clear = "idle" /\ mode = "serving"
          /\ \A k \in Tasks : phase[k] = "none" /\ reap[k] = "none"

\* The status of a task is what the place of its goroutine says, and the pool lets go only of
\* what has its outcome.
StatusFollows ==
  \A k \in Tasks :
    /\ phase[k] = "none" => status[k] = "none" /\ k \notin held
    /\ phase[k] \in Started => status[k] = "running" /\ k \in held
    /\ phase[k] \in Decisive => Finished(k)

\* Every task of this process, every task a reaping met, and every directory once the bundle
\* was read, has a number that was counted.
Numbered ==
  /\ \A k \in Tasks : phase[k] # "none" \/ reap[k] # "none" => k <= seq
  /\ dirKnown => \A k \in dirs : k <= seq

\* A reaping that took the task for a survivor has written stopped over its record.
Marred(k) == Mistaken(k) /\ record[k] = "stopped"

\* Where the record stands while the goroutine of a task goes its way.
RecordFollows ==
  \A k \in Tasks :
    /\ k \notin dirs => record[k] = "none"
    /\ phase[k] \in Unrecorded => record[k] = "none"
    /\ phase[k] \in Recording => record[k] \in {"none", "running"} \/ Marred(k)
    /\ phase[k] \in Recorded /\ k \in dirs => record[k] = status[k] \/ Marred(k)

\* A reaping meets no task before its first record; the record it came across is still there
\* unless the directory went, and of a task of an earlier process nobody else writes it.
ReapFollows ==
  \A k \in Tasks :
    reap[k] # "none" =>
      /\ phase[k] \in {"none"} \cup Recording \cup Recorded
      /\ k \in dirs => record[k] # "none"
      /\ phase[k] = "none" => record[k] \in {"none", "running", "stopped"}
      /\ reap[k] = "spared" => KillMayFail

\* A task without a launched runner has no process, and one that was reaped none that runs.
ProcFollows ==
  \A k \in Tasks :
    /\ phase[k] \in {"admitted", "launching", "failing", "failClosed"} => proc[k] = "none"
    /\ phase[k] = "reaped" \/ phase[k] \in Decisive => proc[k] # "up"

\* A shutdown that has begun has listed every running task and waits for it or still has to.
ShutdownCovers ==
  /\ mode \in {"stopping", "stopped"} =>
       \A k \in Tasks : phase[k] \in Started => k \in toStop \/ k = stopping
  /\ mode = "stopped" => toStop = {} /\ stopping = None

Inv ==
  /\ TypeOK /\ DownIsBlank /\ StatusFollows /\ Numbered
  /\ RecordFollows /\ ReapFollows /\ ProcFollows /\ CapRespected

-----------------------------------------------------------------------------
(* Lemmas about the operators *)

\* A set of tasks that is not empty has a highest number.
LEMMA HighestExists ==
  ASSUME NEW S \in SUBSET Tasks, S # {}
  PROVE  \E k \in S : \A j \in S : j <= k
<1> USE MaxIdAssumption DEF Tasks
<1> DEFINE R == {ss \in Nat \X Nat : ss[1] < ss[2]}
           Below == {MaxId - j : j \in S}
<1>1. IsWellFoundedOn(R, Nat)
    BY NatLessThanWellFounded DEF OpToRel
<1>2. \A j \in S : j \in Int /\ MaxId - j \in Nat
    OBVIOUS
<1>3. Below \subseteq Nat /\ Below # {}
    BY <1>2
<1> HIDE DEF R
<1>4. PICK x \in Below : \A y \in Below : ~ (<<y, x>> \in R)
    BY <1>1, <1>3, WFMin
<1>5. PICK k \in S : x = MaxId - k
    BY <1>4
<1>6. ASSUME NEW j \in S PROVE j <= k
    <2>1. ~ (<<MaxId - j, MaxId - k>> \in R)
        BY <1>4, <1>5
    <2>2. ~ (MaxId - j < MaxId - k)
        BY <2>1, <1>2 DEF R
    <2>q. QED
        BY <2>2, <1>2
<1>q. QED
    BY <1>5, <1>6

\* Highest is a number of the pool and bounds the set.
LEMMA HighestBounds ==
  ASSUME NEW S \in SUBSET Tasks
  PROVE  Highest(S) \in 0 .. MaxId /\ \A j \in S : j <= Highest(S)
<1>1. CASE S = {}
    BY <1>1, MaxIdAssumption DEF Highest
<1>2. CASE S # {}
    <2>1. Highest(S) \in S /\ \A j \in S : j <= Highest(S)
        BY <1>2, HighestExists DEF Highest
    <2>2. Highest(S) \in Tasks
        BY <2>1
    <2>3. Highest(S) \in 0 .. MaxId
        BY <2>2, MaxIdAssumption DEF Tasks
    <2>q. QED
        BY <2>1, <2>3
<1>q. QED
    BY <1>1, <1>2

\* A claim keeps reasons and killers what they are.
LEMMA ClaimTyped ==
  ASSUME TypeOK, NEW k \in Tasks, NEW why \in {"timed_out", "stopped"}, NEW who \in Killers,
         Claim(k, why, who)
  PROVE  /\ reason' \in [Tasks -> {"unclaimed", "timed_out", "stopped"}]
         /\ killer' \in [Tasks -> Killers]
BY DEF Claim, TypeOK

\* The outcome of a task is one of the final statuses.
LEMMA OutcomeTerminal ==
  ASSUME TypeOK, NEW k \in Tasks
  PROVE  Outcome(k) \in Terminal
BY DEF Outcome, TypeOK, Terminal

-----------------------------------------------------------------------------
(* The invariant is inductive *)

\* The types of the variables.
LEMMA TypeStep == TypeOK /\ [Next]_vars => TypeOK'
<1> SUFFICES ASSUME TypeOK, [Next]_vars PROVE TypeOK'
    OBVIOUS
<1> USE DEF TypeOK, lifeVars, poolVars, downVars, taskVars, diskVars, callerVars, Phases,
            Terminal
<1>1. CASE SetSessionDir
    BY <1>1, HighestBounds DEF SetSessionDir
<1>2. CASE SetDraining \/ Reopen
    BY <1>2 DEF SetDraining, Reopen
<1>3. CASE ClearMemory
    BY <1>3 DEF ClearMemory, Drop, Erase
<1>4. CASE ClearLists
    BY <1>4 DEF ClearLists
<1>5. CASE ClearErases
    BY <1>5 DEF ClearErases, Erase
<1>6. CASE ReleaseSession
    BY <1>6 DEF ReleaseSession, Drop
<1>7. ASSUME NEW k \in Tasks, Admit(k) PROVE TypeOK'
    <2>1. k \in 0 .. MaxId
        BY MaxIdAssumption DEF Tasks
    <2>q. QED
        BY <1>7, <2>1 DEF Admit, GotoPhase
<1>8. ASSUME NEW k \in Tasks, StopTask(k) PROVE TypeOK'
    <2>1. /\ reason' \in [Tasks -> {"unclaimed", "timed_out", "stopped"}]
          /\ killer' \in [Tasks -> Killers]
        BY <1>8, ClaimTyped DEF StopTask, Killers
    <2>q. QED
        BY <1>8, <2>1 DEF StopTask
<1>9. ASSUME NEW k \in Tasks, Reaping(k) PROVE TypeOK'
    BY <1>9 DEF Reaping, ReapFinds, ReapKills, ReapWrites, Persist
<1>10. ASSUME NEW k \in Tasks, Forget(k) PROVE TypeOK'
    BY <1>10 DEF Forget, Drop, Erase
<1>11. CASE StopAllLists
    BY <1>11 DEF StopAllLists
<1>12. CASE StopAllWaited \/ StopAllEnds
    BY <1>12 DEF StopAllWaited, StopAllEnds
<1>13. ASSUME NEW k \in Tasks, StopAllStops(k) PROVE TypeOK'
    <2>1. /\ reason' \in [Tasks -> {"unclaimed", "timed_out", "stopped"}]
          /\ killer' \in [Tasks -> Killers]
        BY <1>13, ClaimTyped DEF StopAllStops, Killers
    <2>q. QED
        BY <1>13, <2>1 DEF StopAllStops
<1>14. ASSUME NEW k \in Tasks, PrepareDir(k) PROVE TypeOK'
    BY <1>14 DEF PrepareDir, GotoPhase
<1>15. ASSUME NEW k \in Tasks, LaunchFails(k) \/ LaunchSucceeds(k) PROVE TypeOK'
    BY <1>15 DEF LaunchFails, LaunchSucceeds, GotoPhase
<1>16. ASSUME NEW k \in Tasks, CloseFailed(k) \/ CloseDone(k) \/ Notify(k) \/ ObserveExit(k)
       PROVE TypeOK'
    BY <1>16 DEF CloseFailed, CloseDone, Notify, ObserveExit, GotoPhase
<1>17. ASSUME NEW k \in Tasks, PersistFailed(k) \/ PersistOutcome(k) PROVE TypeOK'
    BY <1>17 DEF PersistFailed, PersistOutcome, Persist, GotoPhase
<1>18. ASSUME NEW k \in Tasks, PersistRunning(k) PROVE TypeOK'
    BY <1>18 DEF PersistRunning, Persist, GotoPhase
<1>19. ASSUME NEW k \in Tasks, AttachHandle(k) PROVE TypeOK'
    BY <1>19 DEF AttachHandle, GotoPhase, Killers
<1>20. ASSUME NEW k \in Tasks, DeadlineFires(k) PROVE TypeOK'
    <2>1. /\ reason' \in [Tasks -> {"unclaimed", "timed_out", "stopped"}]
          /\ killer' \in [Tasks -> Killers]
        BY <1>20, ClaimTyped DEF DeadlineFires, Killers
    <2>q. QED
        BY <1>20, <2>1 DEF DeadlineFires
<1>21. ASSUME NEW k \in Tasks, Settle(k) PROVE TypeOK'
    BY <1>21, OutcomeTerminal DEF Settle, GotoPhase
<1>22. ASSUME NEW k \in Tasks, KillLands(k) PROVE TypeOK'
    BY <1>22 DEF KillLands, Killers
<1>23. ASSUME NEW k \in Tasks, KillFails(k) PROVE TypeOK'
    BY <1>23 DEF KillFails, Killers
<1>24. ASSUME NEW k \in Tasks, StopReturns(k) \/ ProcessExits(k) PROVE TypeOK'
    BY <1>24 DEF StopReturns, ProcessExits
<1>25. CASE Die
    <2>1. deaths' \in 0 .. MaxDeaths
        BY <1>25, MaxDeathsAssumption DEF Die
    <2>2. 0 \in 0 .. MaxId
        BY MaxIdAssumption
    <2>q. QED
        BY <1>25, <2>1, <2>2 DEF Die, Killers
<1>26. CASE Restart
    BY <1>26 DEF Restart
<1>27. CASE UNCHANGED vars
    BY <1>27 DEF vars
<1>q. QED
    BY <1>1, <1>2, <1>3, <1>4, <1>5, <1>6, <1>7, <1>8, <1>9, <1>10, <1>11, <1>12, <1>13,
        <1>14, <1>15, <1>16, <1>17, <1>18, <1>19, <1>20, <1>21, <1>22, <1>23, <1>24, <1>25,
        <1>26, <1>27
        DEF Next, Requests, StopAll, Run, Kill

\* Nothing comes to life while the process is dead: every action finds what it acts on gone.
LEMMA DownStep == TypeOK /\ DownIsBlank /\ [Next]_vars => DownIsBlank'
<1> SUFFICES ASSUME TypeOK, DownIsBlank, [Next]_vars PROVE DownIsBlank'
    OBVIOUS
<1> USE DEF DownIsBlank, TypeOK, lifeVars, poolVars, downVars, taskVars, diskVars, callerVars
<1>1. CASE SetSessionDir \/ SetDraining \/ Reopen
    BY <1>1 DEF SetSessionDir, SetDraining, Reopen
<1>2. CASE ClearMemory \/ ClearLists \/ ClearErases \/ ReleaseSession
    BY <1>2 DEF ClearMemory, ClearLists, ClearErases, ReleaseSession, Drop, Erase
<1>3. ASSUME NEW k \in Tasks, Admit(k) \/ StopTask(k) \/ Reaping(k) \/ Forget(k)
      PROVE DownIsBlank'
    BY <1>3 DEF Admit, StopTask, Reaping, ReapFinds, ReapKills, ReapWrites, Forget, Drop, Erase
<1>4. CASE StopAllLists \/ StopAllWaited \/ StopAllEnds
    BY <1>4 DEF StopAllLists, StopAllWaited, StopAllEnds
<1>5. ASSUME NEW k \in Tasks, StopAllStops(k) PROVE DownIsBlank'
    BY <1>5 DEF StopAllStops
<1>6. ASSUME NEW k \in Tasks, PrepareDir(k) \/ LaunchFails(k) \/ LaunchSucceeds(k)
      PROVE DownIsBlank'
    BY <1>6 DEF PrepareDir, LaunchFails, LaunchSucceeds
<1>7. ASSUME NEW k \in Tasks, CloseFailed(k) \/ PersistFailed(k) \/ AttachHandle(k)
      PROVE DownIsBlank'
    BY <1>7 DEF CloseFailed, PersistFailed, AttachHandle
<1>8. ASSUME NEW k \in Tasks, PersistRunning(k) \/ ObserveExit(k) \/ DeadlineFires(k)
      PROVE DownIsBlank'
    BY <1>8 DEF PersistRunning, ObserveExit, DeadlineFires
<1>9. ASSUME NEW k \in Tasks, Settle(k) \/ PersistOutcome(k) \/ CloseDone(k) \/ Notify(k)
      PROVE DownIsBlank'
    BY <1>9 DEF Settle, PersistOutcome, CloseDone, Notify
<1>10. ASSUME NEW k \in Tasks, KillLands(k) \/ KillFails(k) \/ StopReturns(k) \/ ProcessExits(k)
       PROVE DownIsBlank'
    BY <1>10 DEF KillLands, KillFails, StopReturns, ProcessExits
<1>11. CASE Die \/ Restart
    BY <1>11 DEF Die, Restart
<1>12. CASE UNCHANGED vars
    BY <1>12 DEF vars
<1>q. QED
    BY <1>1, <1>2, <1>3, <1>4, <1>5, <1>6, <1>7, <1>8, <1>9, <1>10, <1>11, <1>12
        DEF Next, Requests, StopAll, Run, Kill

\* The status keeps in step with the place of the goroutine, and only the finished are dropped.
LEMMA StatusStep == Inv /\ [Next]_vars => StatusFollows'
<1> SUFFICES ASSUME TypeOK, StatusFollows, [Next]_vars PROVE StatusFollows'
    BY DEF Inv
<1> USE DEF StatusFollows, TypeOK, Finished, Terminal, Started, Decisive,
            lifeVars, poolVars, downVars, taskVars, diskVars, callerVars
<1>1. CASE SetSessionDir \/ SetDraining \/ Reopen \/ ClearLists \/ ClearErases
    BY <1>1 DEF SetSessionDir, SetDraining, Reopen, ClearLists, ClearErases
<1>2. CASE ClearMemory \/ ReleaseSession
    BY <1>2 DEF ClearMemory, ReleaseSession, Drop
<1>3. ASSUME NEW k \in Tasks, Admit(k) PROVE StatusFollows'
    BY <1>3 DEF Admit, GotoPhase
<1>4. ASSUME NEW k \in Tasks, StopTask(k) \/ Reaping(k) PROVE StatusFollows'
    BY <1>4 DEF StopTask, Reaping, ReapFinds, ReapKills, ReapWrites
<1>5. ASSUME NEW k \in Tasks, Forget(k) PROVE StatusFollows'
    BY <1>5 DEF Forget, Drop
<1>6. CASE StopAllLists \/ StopAllWaited \/ StopAllEnds
    BY <1>6 DEF StopAllLists, StopAllWaited, StopAllEnds
<1>7. ASSUME NEW k \in Tasks, StopAllStops(k) \/ DeadlineFires(k) PROVE StatusFollows'
    BY <1>7 DEF StopAllStops, DeadlineFires
<1>8. ASSUME NEW k \in Tasks, PrepareDir(k) \/ LaunchSucceeds(k) PROVE StatusFollows'
    BY <1>8 DEF PrepareDir, LaunchSucceeds, GotoPhase
<1>9. ASSUME NEW k \in Tasks, LaunchFails(k) PROVE StatusFollows'
    BY <1>9 DEF LaunchFails, GotoPhase
<1>10. ASSUME NEW k \in Tasks, CloseFailed(k) \/ PersistFailed(k) PROVE StatusFollows'
    BY <1>10 DEF CloseFailed, PersistFailed, GotoPhase
<1>11. ASSUME NEW k \in Tasks, AttachHandle(k) \/ PersistRunning(k) \/ ObserveExit(k)
       PROVE StatusFollows'
    BY <1>11 DEF AttachHandle, PersistRunning, ObserveExit, GotoPhase
<1>12. ASSUME NEW k \in Tasks, Settle(k) PROVE StatusFollows'
    BY <1>12, OutcomeTerminal DEF Settle, GotoPhase
<1>13. ASSUME NEW k \in Tasks, PersistOutcome(k) \/ CloseDone(k) \/ Notify(k)
       PROVE StatusFollows'
    BY <1>13 DEF PersistOutcome, CloseDone, Notify, GotoPhase
<1>14. ASSUME NEW k \in Tasks, KillLands(k) \/ KillFails(k) \/ StopReturns(k) \/ ProcessExits(k)
       PROVE StatusFollows'
    BY <1>14 DEF KillLands, KillFails, StopReturns, ProcessExits
<1>15. CASE Die \/ Restart
    BY <1>15 DEF Die, Restart
<1>16. CASE UNCHANGED vars
    BY <1>16 DEF vars
<1>q. QED
    BY <1>1, <1>2, <1>3, <1>4, <1>5, <1>6, <1>7, <1>8, <1>9, <1>10, <1>11, <1>12, <1>13,
        <1>14, <1>15, <1>16 DEF Next, Requests, StopAll, Run, Kill

\* No number is used that was not counted: the counter goes past every directory before the
\* first admission, and on by one at each.
LEMMA NumberStep == Inv /\ [Next]_vars => Numbered'
<1> SUFFICES ASSUME TypeOK, Numbered, RecordFollows, [Next]_vars PROVE Numbered'
    BY DEF Inv
<1> USE DEF Numbered, TypeOK, lifeVars, poolVars, downVars, taskVars, diskVars, callerVars
<1>0. seq \in Nat /\ \A k \in Tasks : k \in Nat
    BY MaxIdAssumption DEF Tasks
<1>1. CASE SetSessionDir
    <2>1. Highest(dirs) \in 0 .. MaxId /\ \A k \in dirs : k <= Highest(dirs)
        BY HighestBounds
    <2>2. seq' \in Nat /\ seq <= seq' /\ Highest(dirs) <= seq'
        BY <1>0, <1>1, <2>1, MaxIdAssumption DEF SetSessionDir
    <2>3. \A k \in dirs : k <= seq'
        BY <1>0, <2>1, <2>2, MaxIdAssumption
    <2>q. QED
        BY <1>0, <1>1, <2>2, <2>3 DEF SetSessionDir
<1>2. CASE SetDraining \/ Reopen \/ ClearLists
    BY <1>2 DEF SetDraining, Reopen, ClearLists
<1>3. CASE ClearMemory \/ ClearErases \/ ReleaseSession
    BY <1>3 DEF ClearMemory, ClearErases, ReleaseSession, Erase
<1>4. ASSUME NEW k \in Tasks, Admit(k) PROVE Numbered'
    <2>1. seq' = seq + 1 /\ \A j \in Tasks : j <= seq => j <= seq'
        BY <1>0, <1>4 DEF Admit
    <2>2. seq' = k
        BY <1>4 DEF Admit
    <2>q. QED
        BY <1>0, <1>4, <2>1, <2>2 DEF Admit, GotoPhase
<1>5. ASSUME NEW k \in Tasks, StopTask(k) \/ Reaping(k) PROVE Numbered'
    <2>1. CASE ReapFinds(k)
        <3>1. k <= seq
            BY <2>1 DEF ReapFinds, RecordFollows
        <3>q. QED
            BY <2>1, <3>1 DEF ReapFinds
    <2>2. CASE ReapKills(k)
        BY <2>2 DEF ReapKills
    <2>3. CASE ReapWrites(k)
        BY <2>3 DEF ReapWrites
    <2>4. CASE StopTask(k)
        BY <2>4 DEF StopTask
    <2>q. QED
        BY <1>5, <2>1, <2>2, <2>3, <2>4 DEF Reaping
<1>6. ASSUME NEW k \in Tasks, Forget(k) PROVE Numbered'
    BY <1>6 DEF Forget, Erase
<1>7. CASE StopAllLists \/ StopAllWaited \/ StopAllEnds
    BY <1>7 DEF StopAllLists, StopAllWaited, StopAllEnds
<1>8. ASSUME NEW k \in Tasks, StopAllStops(k) \/ DeadlineFires(k) PROVE Numbered'
    BY <1>8 DEF StopAllStops, DeadlineFires
<1>9. ASSUME NEW k \in Tasks, PrepareDir(k) PROVE Numbered'
    BY <1>9 DEF PrepareDir, GotoPhase
<1>10. ASSUME NEW k \in Tasks,
              LaunchFails(k) \/ LaunchSucceeds(k) \/ CloseFailed(k) \/ PersistFailed(k)
       PROVE Numbered'
    BY <1>10 DEF LaunchFails, LaunchSucceeds, CloseFailed, PersistFailed, GotoPhase
<1>11. ASSUME NEW k \in Tasks, AttachHandle(k) \/ PersistRunning(k) \/ ObserveExit(k)
       PROVE Numbered'
    BY <1>11 DEF AttachHandle, PersistRunning, ObserveExit, GotoPhase
<1>12. ASSUME NEW k \in Tasks, Settle(k) \/ PersistOutcome(k) \/ CloseDone(k) \/ Notify(k)
       PROVE Numbered'
    BY <1>12 DEF Settle, PersistOutcome, CloseDone, Notify, GotoPhase
<1>13. ASSUME NEW k \in Tasks, KillLands(k) \/ KillFails(k) \/ StopReturns(k) \/ ProcessExits(k)
       PROVE Numbered'
    BY <1>13 DEF KillLands, KillFails, StopReturns, ProcessExits
<1>14. CASE Die \/ Restart
    BY <1>14 DEF Die, Restart
<1>15. CASE UNCHANGED vars
    BY <1>15 DEF vars
<1>q. QED
    BY <1>1, <1>2, <1>3, <1>4, <1>5, <1>6, <1>7, <1>8, <1>9, <1>10, <1>11, <1>12, <1>13,
        <1>14, <1>15 DEF Next, Requests, StopAll, Run, Kill

\* An admitted number has no directory and no task behind it.
LEMMA AdmitFresh ==
  ASSUME Inv, NEW k \in Tasks, Admit(k)
  PROVE  /\ k \notin dirs /\ phase[k] = "none" /\ k \notin held
         /\ record[k] = "none" /\ reap[k] = "none"
<1>1. seq \in Nat /\ k = seq + 1 /\ dirKnown
    BY MaxIdAssumption DEF Admit, Inv, TypeOK
<1>2. ~ (k <= seq)
    BY <1>1
<1>q. QED
    BY <1>1, <1>2 DEF Inv, Numbered, StatusFollows, RecordFollows

\* Every write of a record is the one its place calls for, and what is erased loses its
\* directory with its record.
LEMMA RecordStep == Inv /\ [Next]_vars => RecordFollows'
<1> SUFFICES ASSUME Inv, [Next]_vars PROVE RecordFollows'
    OBVIOUS
<1>0. TypeOK /\ StatusFollows /\ RecordFollows /\ ReapFollows
    BY DEF Inv
<1> USE <1>0 DEF RecordFollows, Marred, Mistaken, TypeOK, Unrecorded, Recording, Recorded,
                 lifeVars, poolVars, downVars, taskVars, diskVars, callerVars
<1>1. CASE SetSessionDir \/ SetDraining \/ Reopen \/ ClearLists \/ ReleaseSession
    BY <1>1 DEF SetSessionDir, SetDraining, Reopen, ClearLists, ReleaseSession
<1>2. CASE ClearMemory \/ ClearErases
    BY <1>2 DEF ClearMemory, ClearErases, Erase
<1>3. ASSUME NEW k \in Tasks, Admit(k) PROVE RecordFollows'
    BY <1>3, AdmitFresh DEF Admit, GotoPhase
<1>4. ASSUME NEW k \in Tasks, StopTask(k) PROVE RecordFollows'
    BY <1>4 DEF StopTask
<1>5. ASSUME NEW k \in Tasks, Reaping(k) PROVE RecordFollows'
    <2>1. CASE ReapFinds(k) \/ ReapKills(k)
        BY <2>1 DEF ReapFinds, ReapKills
    <2>2. CASE ReapWrites(k)
        <3>1. reap[k] # "none" /\ phase[k] \notin Unrecorded
            BY <2>2 DEF ReapWrites, ReapFollows
        <3>q. QED
            BY <2>2, <3>1 DEF ReapWrites, Persist
    <2>q. QED
        BY <1>5, <2>1, <2>2 DEF Reaping
<1>6. ASSUME NEW k \in Tasks, Forget(k) PROVE RecordFollows'
    BY <1>6 DEF Forget, Erase
<1>7. CASE StopAllLists \/ StopAllWaited \/ StopAllEnds
    BY <1>7 DEF StopAllLists, StopAllWaited, StopAllEnds
<1>8. ASSUME NEW k \in Tasks, StopAllStops(k) \/ DeadlineFires(k) PROVE RecordFollows'
    BY <1>8 DEF StopAllStops, DeadlineFires
<1>9. ASSUME NEW k \in Tasks, PrepareDir(k) PROVE RecordFollows'
    BY <1>9 DEF PrepareDir, GotoPhase
<1>10. ASSUME NEW k \in Tasks, LaunchFails(k) \/ LaunchSucceeds(k) \/ CloseFailed(k)
       PROVE RecordFollows'
    BY <1>10 DEF LaunchFails, LaunchSucceeds, CloseFailed, GotoPhase
<1>11. ASSUME NEW k \in Tasks, PersistFailed(k) PROVE RecordFollows'
    BY <1>11 DEF PersistFailed, Persist, GotoPhase
<1>12. ASSUME NEW k \in Tasks, AttachHandle(k) \/ ObserveExit(k) PROVE RecordFollows'
    BY <1>12 DEF AttachHandle, ObserveExit, GotoPhase
<1>13. ASSUME NEW k \in Tasks, PersistRunning(k) PROVE RecordFollows'
    BY <1>13 DEF PersistRunning, Persist, GotoPhase
<1>14. ASSUME NEW k \in Tasks, Settle(k) PROVE RecordFollows'
    BY <1>14 DEF Settle, GotoPhase
<1>15. ASSUME NEW k \in Tasks, PersistOutcome(k) PROVE RecordFollows'
    BY <1>15 DEF PersistOutcome, Persist, GotoPhase
<1>16. ASSUME NEW k \in Tasks, CloseDone(k) \/ Notify(k) PROVE RecordFollows'
    BY <1>16 DEF CloseDone, Notify, GotoPhase
<1>17. ASSUME NEW k \in Tasks, KillLands(k) \/ KillFails(k) \/ StopReturns(k) \/ ProcessExits(k)
       PROVE RecordFollows'
    BY <1>17 DEF KillLands, KillFails, StopReturns, ProcessExits
<1>18. CASE Die \/ Restart
    BY <1>18 DEF Die, Restart
<1>19. CASE UNCHANGED vars
    BY <1>19 DEF vars
<1>q. QED
    BY <1>1, <1>2, <1>3, <1>4, <1>5, <1>6, <1>7, <1>8, <1>9, <1>10, <1>11, <1>12, <1>13,
        <1>14, <1>15, <1>16, <1>17, <1>18, <1>19 DEF Next, Requests, StopAll, Run, Kill

\* A task of this process has a status.
LEMMA StatusKnown ==
  ASSUME Inv, NEW k \in Tasks, phase[k] # "none"
  PROVE  status[k] # "none"
BY DEF Inv, TypeOK, StatusFollows, Phases, Started, Decisive, Finished, Terminal

\* What a reaping came across keeps its record until the directory goes.
LEMMA ReapStep == Inv /\ [Next]_vars => ReapFollows'
<1> SUFFICES ASSUME Inv, [Next]_vars PROVE ReapFollows'
    OBVIOUS
<1>0. TypeOK /\ RecordFollows /\ ReapFollows
    BY DEF Inv
<1> USE <1>0 DEF ReapFollows, TypeOK, Recording, Recorded,
                 lifeVars, poolVars, downVars, taskVars, diskVars, callerVars
<1>1. CASE SetSessionDir \/ SetDraining \/ Reopen \/ ClearLists \/ ReleaseSession
    BY <1>1 DEF SetSessionDir, SetDraining, Reopen, ClearLists, ReleaseSession
<1>2. CASE ClearMemory \/ ClearErases
    BY <1>2 DEF ClearMemory, ClearErases, Erase
<1>3. ASSUME NEW k \in Tasks, Admit(k) PROVE ReapFollows'
    BY <1>3, AdmitFresh DEF Admit, GotoPhase
<1>4. ASSUME NEW k \in Tasks, StopTask(k) \/ Forget(k) PROVE ReapFollows'
    BY <1>4 DEF StopTask, Forget, Erase
<1>5. ASSUME NEW k \in Tasks, Reaping(k) PROVE ReapFollows'
    <2>1. CASE ReapFinds(k)
        <3>1. phase[k] \in {"none"} \cup Recording \cup Recorded
            BY <2>1 DEF ReapFinds, RecordFollows, Phases, Unrecorded
        <3>q. QED
            BY <2>1, <3>1 DEF ReapFinds
    <2>2. CASE ReapKills(k)
        BY <2>2 DEF ReapKills
    <2>3. CASE ReapWrites(k)
        BY <2>3 DEF ReapWrites, Persist
    <2>q. QED
        BY <1>5, <2>1, <2>2, <2>3 DEF Reaping
<1>6. CASE StopAllLists \/ StopAllWaited \/ StopAllEnds
    BY <1>6 DEF StopAllLists, StopAllWaited, StopAllEnds
<1>7. ASSUME NEW k \in Tasks, StopAllStops(k) \/ DeadlineFires(k) PROVE ReapFollows'
    BY <1>7 DEF StopAllStops, DeadlineFires
<1>8. ASSUME NEW k \in Tasks, PrepareDir(k) \/ LaunchFails(k) \/ LaunchSucceeds(k)
      PROVE ReapFollows'
    BY <1>8 DEF PrepareDir, LaunchFails, LaunchSucceeds, GotoPhase
<1>9. ASSUME NEW k \in Tasks, CloseFailed(k) \/ PersistFailed(k) \/ AttachHandle(k)
      PROVE ReapFollows'
    BY <1>9 DEF CloseFailed, PersistFailed, AttachHandle, Persist, GotoPhase
<1>10. ASSUME NEW k \in Tasks, PersistRunning(k) \/ PersistOutcome(k) PROVE ReapFollows'
    <2>1. status[k] # "none"
        BY <1>10, StatusKnown DEF PersistRunning, PersistOutcome
    <2>q. QED
        BY <1>10, <2>1 DEF PersistRunning, PersistOutcome, Persist, GotoPhase
<1>11. ASSUME NEW k \in Tasks, ObserveExit(k) \/ Settle(k) \/ CloseDone(k) \/ Notify(k)
       PROVE ReapFollows'
    BY <1>11 DEF ObserveExit, Settle, CloseDone, Notify, GotoPhase
<1>12. ASSUME NEW k \in Tasks, KillLands(k) \/ KillFails(k) \/ StopReturns(k) \/ ProcessExits(k)
       PROVE ReapFollows'
    BY <1>12 DEF KillLands, KillFails, StopReturns, ProcessExits
<1>13. CASE Die \/ Restart
    BY <1>13 DEF Die, Restart
<1>14. CASE UNCHANGED vars
    BY <1>14 DEF vars
<1>q. QED
    BY <1>1, <1>2, <1>3, <1>4, <1>5, <1>6, <1>7, <1>8, <1>9, <1>10, <1>11, <1>12, <1>13,
        <1>14 DEF Next, Requests, StopAll, Run, Kill

\* A process is there only between the launch and the exit that was observed.
LEMMA ProcStep == Inv /\ [Next]_vars => ProcFollows'
<1> SUFFICES ASSUME TypeOK, ProcFollows, [Next]_vars PROVE ProcFollows'
    BY DEF Inv
<1> USE DEF ProcFollows, TypeOK, Decisive,
            lifeVars, poolVars, downVars, taskVars, diskVars, callerVars
<1>1. CASE SetSessionDir \/ SetDraining \/ Reopen \/ ClearLists \/ ReleaseSession
    BY <1>1 DEF SetSessionDir, SetDraining, Reopen, ClearLists, ReleaseSession
<1>2. CASE ClearMemory \/ ClearErases
    BY <1>2 DEF ClearMemory, ClearErases
<1>3. ASSUME NEW k \in Tasks, Admit(k) PROVE ProcFollows'
    BY <1>3 DEF Admit, GotoPhase
<1>4. ASSUME NEW k \in Tasks, StopTask(k) \/ Forget(k) PROVE ProcFollows'
    BY <1>4 DEF StopTask, Forget
<1>5. ASSUME NEW k \in Tasks, Reaping(k) PROVE ProcFollows'
    BY <1>5 DEF Reaping, ReapFinds, ReapKills, ReapWrites
<1>6. CASE StopAllLists \/ StopAllWaited \/ StopAllEnds
    BY <1>6 DEF StopAllLists, StopAllWaited, StopAllEnds
<1>7. ASSUME NEW k \in Tasks, StopAllStops(k) \/ DeadlineFires(k) PROVE ProcFollows'
    BY <1>7 DEF StopAllStops, DeadlineFires
<1>8. ASSUME NEW k \in Tasks, PrepareDir(k) \/ LaunchFails(k) \/ CloseFailed(k) \/ PersistFailed(k)
      PROVE ProcFollows'
    BY <1>8 DEF PrepareDir, LaunchFails, CloseFailed, PersistFailed, GotoPhase
<1>9. ASSUME NEW k \in Tasks, LaunchSucceeds(k) PROVE ProcFollows'
    BY <1>9 DEF LaunchSucceeds, GotoPhase
<1>10. ASSUME NEW k \in Tasks, AttachHandle(k) \/ PersistRunning(k) \/ ObserveExit(k)
       PROVE ProcFollows'
    BY <1>10 DEF AttachHandle, PersistRunning, ObserveExit, GotoPhase
<1>11. ASSUME NEW k \in Tasks, Settle(k) \/ PersistOutcome(k) \/ CloseDone(k) \/ Notify(k)
       PROVE ProcFollows'
    BY <1>11 DEF Settle, PersistOutcome, CloseDone, Notify, GotoPhase
<1>12. ASSUME NEW k \in Tasks, KillLands(k) \/ ProcessExits(k) PROVE ProcFollows'
    BY <1>12 DEF KillLands, ProcessExits
<1>13. ASSUME NEW k \in Tasks, KillFails(k) \/ StopReturns(k) PROVE ProcFollows'
    BY <1>13 DEF KillFails, StopReturns
<1>14. CASE Die \/ Restart
    BY <1>14 DEF Die, Restart
<1>15. CASE UNCHANGED vars
    BY <1>15 DEF vars
<1>q. QED
    BY <1>1, <1>2, <1>3, <1>4, <1>5, <1>6, <1>7, <1>8, <1>9, <1>10, <1>11, <1>12, <1>13,
        <1>14, <1>15 DEF Next, Requests, StopAll, Run, Kill

\* What a session runs is a finite set.
LEMMA CountedFinite ==
  ASSUME TypeOK
  PROVE  IsFiniteSet(Counted) /\ Cardinality(Counted) \in Nat
<1>1. IsFiniteSet(Tasks)
    BY FS_Interval, MaxIdAssumption DEF Tasks
<1>2. Counted \in SUBSET Tasks
    BY DEF Counted, TypeOK
<1>q. QED
    BY <1>1, <1>2, FS_Subset, FS_CardinalityType

\* No step but an admission adds to what a session runs.
LEMMA CountedShrinks ==
  ASSUME Inv, [Next]_vars, ~ \E k \in Tasks : Admit(k)
  PROVE  Counted' \subseteq Counted
<1> SUFFICES ASSUME NEW j \in Tasks, j \in held', ~ Finished(j)'
             PROVE j \in held /\ ~ Finished(j)
    <2>1. TypeOK'
        BY TypeStep DEF Inv
    <2>q. QED
        BY <2>1 DEF Counted, TypeOK
<1>0. TypeOK /\ StatusFollows
    BY DEF Inv
<1> USE <1>0 DEF TypeOK, Finished, lifeVars, poolVars, downVars, taskVars, diskVars, callerVars
<1>1. CASE SetSessionDir \/ SetDraining \/ Reopen \/ ClearLists \/ ClearErases
    BY <1>1 DEF SetSessionDir, SetDraining, Reopen, ClearLists, ClearErases
<1>2. CASE ClearMemory \/ ReleaseSession
    BY <1>2 DEF ClearMemory, ReleaseSession, Drop
<1>3. ASSUME NEW k \in Tasks, StopTask(k) \/ Reaping(k) \/ Forget(k)
      PROVE j \in held /\ ~ Finished(j)
    BY <1>3 DEF StopTask, Reaping, ReapFinds, ReapKills, ReapWrites, Forget, Drop
<1>4. CASE StopAllLists \/ StopAllWaited \/ StopAllEnds
    BY <1>4 DEF StopAllLists, StopAllWaited, StopAllEnds
<1>5. ASSUME NEW k \in Tasks, StopAllStops(k) \/ DeadlineFires(k)
      PROVE j \in held /\ ~ Finished(j)
    BY <1>5 DEF StopAllStops, DeadlineFires
<1>6. ASSUME NEW k \in Tasks, LaunchFails(k) \/ Settle(k) PROVE j \in held /\ ~ Finished(j)
    <2>1. status[k] = "running"
        BY <1>6 DEF LaunchFails, Settle, StatusFollows, Started
    <2>q. QED
        BY <1>6, <2>1 DEF LaunchFails, Settle, Terminal
<1>7. ASSUME NEW k \in Tasks, PrepareDir(k) \/ LaunchSucceeds(k) \/ CloseFailed(k)
             \/ PersistFailed(k) \/ AttachHandle(k) \/ PersistRunning(k)
      PROVE j \in held /\ ~ Finished(j)
    BY <1>7 DEF PrepareDir, LaunchSucceeds, CloseFailed, PersistFailed, AttachHandle,
                PersistRunning
<1>8. ASSUME NEW k \in Tasks, ObserveExit(k) \/ PersistOutcome(k) \/ CloseDone(k) \/ Notify(k)
      PROVE j \in held /\ ~ Finished(j)
    BY <1>8 DEF ObserveExit, PersistOutcome, CloseDone, Notify
<1>9. ASSUME NEW k \in Tasks, KillLands(k) \/ KillFails(k) \/ StopReturns(k) \/ ProcessExits(k)
      PROVE j \in held /\ ~ Finished(j)
    BY <1>9 DEF KillLands, KillFails, StopReturns, ProcessExits
<1>10. CASE Die \/ Restart
    BY <1>10 DEF Die, Restart
<1>11. CASE UNCHANGED vars
    BY <1>11 DEF vars
<1>q. QED
    BY <1>1, <1>2, <1>3, <1>4, <1>5, <1>6, <1>7, <1>8, <1>9, <1>10, <1>11
        DEF Next, Requests, StopAll, Run, Kill

\* The limit is looked at and the task put in under one lock: an admission goes one up from
\* below the limit, or is a task of the runtime, which is not counted.
LEMMA CapStep == Inv /\ [Next]_vars => CapRespected'
<1> SUFFICES ASSUME Inv, [Next]_vars PROVE CapRespected'
    OBVIOUS
<1>0. IsFiniteSet(Counted) /\ Cardinality(Counted) \in Nat /\ Cardinality(Counted) <= MaxConcurrent
    BY CountedFinite DEF Inv, CapRespected
<1>1. ASSUME NEW k \in Tasks, Admit(k) PROVE CapRespected'
    <2>1. \A j \in Tasks \ {k} : Finished(j)' <=> Finished(j)
        BY <1>1 DEF Admit, Finished, Inv, TypeOK
    <2>2. held \subseteq Tasks /\ held' = held \cup {k}
        BY <1>1 DEF Admit, Inv, TypeOK
    <2>3. CASE k \in System
        <3>1. Counted' \subseteq Counted
            BY <2>1, <2>2, <2>3 DEF Counted
        <3>2. IsFiniteSet(Counted') /\ Cardinality(Counted') <= Cardinality(Counted)
            BY <1>0, <3>1, FS_Subset
        <3>3. Cardinality(Counted') \in Nat
            BY <3>2, FS_CardinalityType
        <3>q. QED
            BY <1>0, <3>2, <3>3, MaxConcurrentAssumption DEF CapRespected
    <2>4. CASE Cardinality(Counted) < MaxConcurrent
        <3>1. Counted' \subseteq Counted \cup {k}
            BY <2>1, <2>2 DEF Counted
        <3>2. /\ IsFiniteSet(Counted \cup {k})
              /\ Cardinality(Counted \cup {k}) <= Cardinality(Counted) + 1
              /\ Cardinality(Counted \cup {k}) \in Nat
            BY <1>0, FS_AddElement
        <3>3. IsFiniteSet(Counted') /\ Cardinality(Counted') <= Cardinality(Counted \cup {k})
            BY <3>1, <3>2, FS_Subset
        <3>4. Cardinality(Counted') \in Nat
            BY <3>3, FS_CardinalityType
        <3>q. QED
            BY <1>0, <2>4, <3>2, <3>3, <3>4, MaxConcurrentAssumption DEF CapRespected
    <2>q. QED
        BY <1>1, <2>3, <2>4 DEF Admit
<1>2. CASE ~ \E k \in Tasks : Admit(k)
    <2>1. Counted' \subseteq Counted
        BY <1>2, CountedShrinks
    <2>2. IsFiniteSet(Counted') /\ Cardinality(Counted') <= Cardinality(Counted)
        BY <1>0, <2>1, FS_Subset
    <2>3. Cardinality(Counted') \in Nat
        BY <2>2, FS_CardinalityType
    <2>q. QED
        BY <1>0, <2>2, <2>3, MaxConcurrentAssumption DEF CapRespected
<1>q. QED
    BY <1>1, <1>2

-----------------------------------------------------------------------------
(* The theorems *)

\* The invariant holds at the start.
LEMMA InvInit == Init => Inv
<1> SUFFICES ASSUME Init PROVE Inv
    OBVIOUS
<1>1. TypeOK
    <2>1. 0 \in 0 .. MaxId /\ 0 \in 0 .. MaxDeaths
        BY MaxIdAssumption, MaxDeathsAssumption
    <2>q. QED
        BY <2>1 DEF Init, TypeOK, Killers, Phases
<1>2. Counted = {}
    BY <1>1 DEF Init, Counted
<1>3. CapRespected
    BY <1>2, FS_EmptySet, MaxConcurrentAssumption DEF CapRespected
<1>q. QED
    BY <1>1, <1>3 DEF Init, Inv, DownIsBlank, StatusFollows, Numbered, RecordFollows,
       ReapFollows, ProcFollows, Started, Decisive, Unrecorded, Recording, Recorded

\* Every step keeps it.
LEMMA InvStep == Inv /\ [Next]_vars => Inv'
BY TypeStep, DownStep, StatusStep, NumberStep, RecordStep, ReapStep, ProcStep,
   CapStep DEF Inv

\* The inductive invariant holds of every state the pool and the bundle reach.
THEOREM Invariance == Spec => []Inv
<1>1. Init => Inv
    BY InvInit
<1>2. Inv /\ [Next]_vars => Inv'
    BY InvStep
<1>q. QED
    BY <1>1, <1>2, PTL DEF Spec

\* The session never runs more than MaxConcurrent tasks, those still being launched included, and
\* whoever waited for an outcome finds it in the bundle, or stopped where a reaping took the task
\* for a survivor (PoolIsConsistent), whatever launches, stops, clearings, reapings and crashes
\* come in between.
THEOREM PoolConsistent == Spec => []PoolIsConsistent
<1>1. Inv => PoolIsConsistent
    <2> SUFFICES ASSUME Inv, NEW k \in dirs
                 PROVE /\ Done(k) => record[k] # "running"
                       /\ phase[k] \in {"unnotified", "over"} =>
                            record[k] = status[k] \/ (Mistaken(k) /\ record[k] = "stopped")
        BY DEF Inv, PoolIsConsistent, DoneIsRecorded
    <2>1. k \in Tasks /\ RecordFollows /\ StatusFollows
        BY DEF Inv, TypeOK
    <2>2. phase[k] = "failClosed" => record[k] = "none"
        BY <2>1 DEF RecordFollows, Unrecorded
    <2>3. phase[k] \in {"unnotified", "over"} =>
             (record[k] = status[k] \/ Marred(k)) /\ status[k] # "running"
        BY <2>1 DEF RecordFollows, Recorded, StatusFollows, Decisive, Finished, Terminal
    <2>q. QED
        BY <2>2, <2>3 DEF Done, Marred
<1>q. QED
    BY <1>1, Invariance, PTL

\* A number the bundle has a directory for is never handed out again (FreshNumbers).
LEMMA Fresh == Inv /\ [Next]_vars => (\A k \in Tasks : Admit(k) => k \notin dirs)
BY AdmitFresh

\* The two outcomes of a task that a reaping took for a survivor come and go.
Wavers(k) == Mistaken(k) /\ {record[k], record'[k]} \subseteq {"stopped", status[k]}

\* A record that is final stays what it is until it is erased: the places that write a record
\* have none, one that says running, or one that a reaping wrote.
LEMMA FinalStep ==
  Inv /\ [Next]_vars =>
    \A k \in Tasks :
      record[k] \in Terminal => record'[k] \in {record[k], "none"} \/ Wavers(k)
<1> SUFFICES ASSUME Inv, [Next]_vars, NEW j \in Tasks, record[j] \in Terminal
             PROVE record'[j] \in {record[j], "none"} \/ Wavers(j)
    OBVIOUS
<1>0. TypeOK /\ RecordFollows /\ ReapFollows
    BY DEF Inv
<1> USE <1>0 DEF TypeOK, Terminal, lifeVars, poolVars, downVars, taskVars, diskVars, callerVars
<1>1. CASE SetSessionDir \/ SetDraining \/ Reopen \/ ClearLists \/ ReleaseSession
    BY <1>1 DEF SetSessionDir, SetDraining, Reopen, ClearLists, ReleaseSession
<1>2. CASE ClearMemory \/ ClearErases
    BY <1>2 DEF ClearMemory, ClearErases, Erase
<1>3. ASSUME NEW k \in Tasks, Admit(k) \/ StopTask(k) PROVE record'[j] \in {record[j], "none"} \/ Wavers(j)
    BY <1>3 DEF Admit, StopTask
<1>4. ASSUME NEW k \in Tasks, Reaping(k) PROVE record'[j] \in {record[j], "none"} \/ Wavers(j)
    <2>1. CASE ReapFinds(k) \/ ReapKills(k)
        BY <2>1 DEF ReapFinds, ReapKills
    <2>2. CASE ReapWrites(k)
        <3>1. CASE j # k \/ k \notin dirs
            BY <2>2, <3>1 DEF ReapWrites, Persist
        <3>2. CASE j = k /\ k \in dirs
            <4>1. record'[j] = "stopped" /\ reap[j] # "none"
                BY <2>2, <3>2 DEF ReapWrites, Persist
            <4>2. CASE phase[j] = "none"
                BY <4>1, <4>2 DEF ReapFollows
            <4>3. CASE phase[j] # "none"
                <5>1. record[j] \in {"stopped", status[j]}
                    BY <3>2, <4>1, <4>3 DEF ReapFollows, RecordFollows, Marred
                <5>q. QED
                    BY <4>1, <4>3, <5>1 DEF Wavers, Mistaken
            <4>q. QED
                BY <4>2, <4>3
        <3>q. QED
            BY <3>1, <3>2
    <2>q. QED
        BY <1>4, <2>1, <2>2 DEF Reaping
<1>5. ASSUME NEW k \in Tasks, Forget(k) PROVE record'[j] \in {record[j], "none"} \/ Wavers(j)
    BY <1>5 DEF Forget, Erase
<1>6. CASE StopAllLists \/ StopAllWaited \/ StopAllEnds
    BY <1>6 DEF StopAllLists, StopAllWaited, StopAllEnds
<1>7. ASSUME NEW k \in Tasks, StopAllStops(k) \/ DeadlineFires(k)
      PROVE record'[j] \in {record[j], "none"} \/ Wavers(j)
    BY <1>7 DEF StopAllStops, DeadlineFires
<1>8. ASSUME NEW k \in Tasks,
             PrepareDir(k) \/ LaunchFails(k) \/ LaunchSucceeds(k) \/ CloseFailed(k)
      PROVE record'[j] \in {record[j], "none"} \/ Wavers(j)
    BY <1>8 DEF PrepareDir, LaunchFails, LaunchSucceeds, CloseFailed
<1>9. ASSUME NEW k \in Tasks, PersistFailed(k) \/ PersistRunning(k) \/ PersistOutcome(k)
      PROVE record'[j] \in {record[j], "none"} \/ Wavers(j)
    <2>1. CASE j # k
        BY <1>9, <2>1 DEF PersistFailed, PersistRunning, PersistOutcome, Persist
    <2>2. CASE j = k
        <3>1. phase[j] = "settled" /\ Marred(j)
            BY <1>9, <2>2 DEF PersistFailed, PersistRunning, PersistOutcome, RecordFollows,
                              Unrecorded, Recording
        <3>2. record'[j] \in {record[j], status[j]}
            BY <1>9, <2>2, <3>1 DEF PersistFailed, PersistRunning, PersistOutcome, Persist
        <3>q. QED
            BY <3>1, <3>2 DEF Marred, Wavers
    <2>q. QED
        BY <2>1, <2>2
<1>10. ASSUME NEW k \in Tasks, AttachHandle(k) \/ ObserveExit(k) \/ Settle(k)
       PROVE record'[j] \in {record[j], "none"} \/ Wavers(j)
    BY <1>10 DEF AttachHandle, ObserveExit, Settle
<1>11. ASSUME NEW k \in Tasks, CloseDone(k) \/ Notify(k) PROVE record'[j] \in {record[j], "none"} \/ Wavers(j)
    BY <1>11 DEF CloseDone, Notify
<1>12. ASSUME NEW k \in Tasks, KillLands(k) \/ KillFails(k) \/ StopReturns(k) \/ ProcessExits(k)
       PROVE record'[j] \in {record[j], "none"} \/ Wavers(j)
    BY <1>12 DEF KillLands, KillFails, StopReturns, ProcessExits
<1>13. CASE Die \/ Restart
    BY <1>13 DEF Die, Restart
<1>14. CASE UNCHANGED vars
    BY <1>14 DEF vars
<1>q. QED
    BY <1>1, <1>2, <1>3, <1>4, <1>5, <1>6, <1>7, <1>8, <1>9, <1>10, <1>11, <1>12, <1>13,
        <1>14 DEF Next, Requests, StopAll, Run, Kill

\* No restart, late claim or reaping overwrites what an earlier task left in the bundle; only
\* a task a reaping took for a survivor has two outcomes.
THEOREM HistoryKept == Spec => HistoryIsKept
<1>1. Inv /\ [Next]_vars => [\A k \in Tasks : Admit(k) => k \notin dirs]_vars
    BY Fresh
<1>2. Inv /\ [Next]_vars =>
        [\A k \in Tasks :
           record[k] \in Terminal =>
             \/ record'[k] \in {record[k], "none"}
             \/ Mistaken(k) /\ {record[k], record'[k]} \subseteq {"stopped", status[k]}]_vars
    BY FinalStep DEF Wavers
<1>q. QED
    BY <1>1, <1>2, Invariance, PTL DEF Spec, HistoryIsKept, FreshNumbers, RecordIsFinal

-----------------------------------------------------------------------------
(* Shutdown, when no kill fails *)

\* A shutdown lets go of a running task only when it has its outcome.
LEMMA ShutdownStep ==
  ASSUME ~ KillMayFail, Inv, ShutdownCovers, [Next]_vars
  PROVE  ShutdownCovers'
<1>0. TypeOK /\ StatusFollows
    BY DEF Inv
<1> USE <1>0 DEF ShutdownCovers, TypeOK, Started,
                 lifeVars, poolVars, downVars, taskVars, diskVars, callerVars
<1>1. CASE SetSessionDir \/ SetDraining \/ Reopen \/ ClearLists
    BY <1>1 DEF SetSessionDir, SetDraining, Reopen, ClearLists
<1>2. CASE ClearMemory \/ ClearErases \/ ReleaseSession
    BY <1>2 DEF ClearMemory, ClearErases, ReleaseSession
<1>3. ASSUME NEW k \in Tasks, Admit(k) PROVE ShutdownCovers'
    BY <1>3 DEF Admit
<1>4. ASSUME NEW k \in Tasks, StopTask(k) \/ Reaping(k) \/ Forget(k) PROVE ShutdownCovers'
    BY <1>4 DEF StopTask, Reaping, ReapFinds, ReapKills, ReapWrites, Forget
<1>5. CASE StopAllLists
    BY <1>5 DEF StopAllLists, StatusFollows, Finished, Terminal
<1>6. CASE StopAllWaited
    <2>1. phase[stopping] \notin Started
        BY <1>6 DEF StopAllWaited, Done
    <2>q. QED
        BY <1>6, <2>1 DEF StopAllWaited
<1>7. CASE StopAllEnds
    BY <1>7 DEF StopAllEnds
<1>8. ASSUME NEW k \in Tasks, StopAllStops(k) PROVE ShutdownCovers'
    <2>1. phase[k] \in Started => stopping' = k
        BY <1>8 DEF StopAllStops, StatusFollows
    <2>2. /\ mode' = mode /\ mode = "stopping" /\ phase' = phase
          /\ toStop' = toStop \ {k} /\ stopping = None
        BY <1>8 DEF StopAllStops
    <2>3. \A j \in Tasks : j # None
        BY MaxIdAssumption DEF Tasks, None
    <2>q. QED
        BY <2>1, <2>2, <2>3
<1>9. ASSUME NEW k \in Tasks, PrepareDir(k) \/ LaunchFails(k) \/ LaunchSucceeds(k)
      PROVE ShutdownCovers'
    BY <1>9 DEF PrepareDir, LaunchFails, LaunchSucceeds, GotoPhase
<1>10. ASSUME NEW k \in Tasks, CloseFailed(k) \/ PersistFailed(k) \/ AttachHandle(k)
       PROVE ShutdownCovers'
    BY <1>10 DEF CloseFailed, PersistFailed, AttachHandle, GotoPhase
<1>11. ASSUME NEW k \in Tasks, PersistRunning(k) \/ ObserveExit(k) \/ DeadlineFires(k)
       PROVE ShutdownCovers'
    BY <1>11 DEF PersistRunning, ObserveExit, DeadlineFires, GotoPhase
<1>12. ASSUME NEW k \in Tasks, Settle(k) \/ PersistOutcome(k) \/ CloseDone(k) \/ Notify(k)
       PROVE ShutdownCovers'
    BY <1>12 DEF Settle, PersistOutcome, CloseDone, Notify, GotoPhase
<1>13. ASSUME NEW k \in Tasks, KillLands(k) \/ KillFails(k) \/ StopReturns(k) \/ ProcessExits(k)
       PROVE ShutdownCovers'
    BY <1>13 DEF KillLands, KillFails, StopReturns, ProcessExits
<1>14. CASE Die \/ Restart
    BY <1>14 DEF Die, Restart
<1>15. CASE UNCHANGED vars
    BY <1>15 DEF vars
<1>q. QED
    BY <1>1, <1>2, <1>3, <1>4, <1>5, <1>6, <1>7, <1>8, <1>9, <1>10, <1>11, <1>12, <1>13,
        <1>14, <1>15 DEF Next, Requests, StopAll, Run, Kill

\* An outcome is written when the exit was observed, or after the kill of a survivor.
LEMMA OverStep ==
  ASSUME ~ KillMayFail, Inv, OverMeansExited, [Next]_vars
  PROVE  OverMeansExited'
<1>0. TypeOK /\ RecordFollows /\ ReapFollows /\ ProcFollows
    BY DEF Inv
<1> USE <1>0 DEF OverMeansExited, TypeOK, Terminal,
                 lifeVars, poolVars, downVars, taskVars, diskVars, callerVars
<1>1. CASE SetSessionDir \/ SetDraining \/ Reopen \/ ClearLists \/ ReleaseSession
    BY <1>1 DEF SetSessionDir, SetDraining, Reopen, ClearLists, ReleaseSession
<1>2. CASE ClearMemory \/ ClearErases
    BY <1>2 DEF ClearMemory, ClearErases, Erase
<1>3. ASSUME NEW k \in Tasks, Admit(k) \/ StopTask(k) PROVE OverMeansExited'
    BY <1>3 DEF Admit, StopTask
<1>4. ASSUME NEW k \in Tasks, Reaping(k) PROVE OverMeansExited'
    <2>1. CASE ReapFinds(k) \/ ReapKills(k)
        BY <2>1 DEF ReapFinds, ReapKills
    <2>2. CASE ReapWrites(k)
        <3>1. proc[k] # "up"
            BY <2>2 DEF ReapWrites, ReapFollows
        <3>q. QED
            BY <2>2, <3>1 DEF ReapWrites, Persist
    <2>q. QED
        BY <1>4, <2>1, <2>2 DEF Reaping
<1>5. ASSUME NEW k \in Tasks, Forget(k) PROVE OverMeansExited'
    BY <1>5 DEF Forget, Erase
<1>6. CASE StopAllLists \/ StopAllWaited \/ StopAllEnds
    BY <1>6 DEF StopAllLists, StopAllWaited, StopAllEnds
<1>7. ASSUME NEW k \in Tasks, StopAllStops(k) \/ DeadlineFires(k) PROVE OverMeansExited'
    BY <1>7 DEF StopAllStops, DeadlineFires
<1>8. ASSUME NEW k \in Tasks, PrepareDir(k) \/ LaunchFails(k) \/ CloseFailed(k)
      PROVE OverMeansExited'
    BY <1>8 DEF PrepareDir, LaunchFails, CloseFailed
<1>9. ASSUME NEW k \in Tasks, LaunchSucceeds(k) PROVE OverMeansExited'
    <2>1. record[k] = "none"
        BY <1>9 DEF LaunchSucceeds, RecordFollows, Unrecorded
    <2>q. QED
        BY <1>9, <2>1 DEF LaunchSucceeds
<1>10. ASSUME NEW k \in Tasks, PersistFailed(k) \/ PersistOutcome(k) PROVE OverMeansExited'
    <2>1. proc[k] # "up"
        BY <1>10 DEF PersistFailed, PersistOutcome, ProcFollows, Decisive
    <2>q. QED
        BY <1>10, <2>1 DEF PersistFailed, PersistOutcome, Persist
<1>11. ASSUME NEW k \in Tasks, PersistRunning(k) PROVE OverMeansExited'
    BY <1>11 DEF PersistRunning, Persist
<1>12. ASSUME NEW k \in Tasks, AttachHandle(k) \/ ObserveExit(k) \/ Settle(k)
       PROVE OverMeansExited'
    BY <1>12 DEF AttachHandle, ObserveExit, Settle
<1>13. ASSUME NEW k \in Tasks, CloseDone(k) \/ Notify(k) PROVE OverMeansExited'
    BY <1>13 DEF CloseDone, Notify
<1>14. ASSUME NEW k \in Tasks, KillLands(k) \/ KillFails(k) \/ StopReturns(k) \/ ProcessExits(k)
       PROVE OverMeansExited'
    BY <1>14 DEF KillLands, KillFails, StopReturns, ProcessExits
<1>15. CASE Die \/ Restart
    BY <1>15 DEF Die, Restart
<1>16. CASE UNCHANGED vars
    BY <1>16 DEF vars
<1>q. QED
    BY <1>1, <1>2, <1>3, <1>4, <1>5, <1>6, <1>7, <1>8, <1>9, <1>10, <1>11, <1>12, <1>13,
        <1>14, <1>15, <1>16 DEF Next, Requests, StopAll, Run, Kill

\* When no kill fails, no process runs behind a record that says its task is over, and none of
\* this process's behind a shutdown that has gone through (OverMeansExited,
\* ShutdownLeavesNothing).
THEOREM NothingLeft ==
  ASSUME ~ KillMayFail
  PROVE  Spec => []NothingLeftRunning
<1>1. Init => ShutdownCovers /\ OverMeansExited
    BY DEF Init, ShutdownCovers, OverMeansExited, Terminal
<1>2. Inv /\ ShutdownCovers /\ OverMeansExited /\ [Next]_vars
        => ShutdownCovers' /\ OverMeansExited'
    BY ShutdownStep, OverStep
<1>3. Inv /\ ShutdownCovers /\ OverMeansExited => NothingLeftRunning
    <2> SUFFICES ASSUME Inv, ShutdownCovers, mode = "stopped", NEW k \in Tasks,
                        phase[k] # "none"
                 PROVE proc[k] # "up"
        BY DEF NothingLeftRunning, ShutdownLeavesNothing
    <2>1. k # None
        BY MaxIdAssumption DEF Tasks, None
    <2>2. phase[k] \notin Started
        BY <2>1 DEF ShutdownCovers
    <2>3. phase[k] \in Decisive
        BY <2>2 DEF Inv, TypeOK, Phases, Started, Decisive
    <2>q. QED
        BY <2>3 DEF Inv, ProcFollows
<1>q. QED
    BY <1>1, <1>2, <1>3, Invariance, PTL DEF Spec

-----------------------------------------------------------------------------
(* The pool implements the promise of TaskLife *)

\* What the bundle shows of a task that is over, once its record has landed.
Latest(k) == IF phase[k] \in Recorded THEN record[k] ELSE status[k]

\* What the listing shows, from the status of the task, whether the pool or the bundle still
\* knows it, and the record an earlier process left.
Shows(k) ==
  IF status[k] = "none"
    THEN IF record[k] = "running" THEN "orphaned" ELSE record[k]
    ELSE IF status[k] = "running" \/ k \in held THEN status[k]
    ELSE IF k \in dirs THEN Latest(k) ELSE "none"

\* The listing, where it waits for a record on its way included, is what Shows says.
LEMMA ViewIs == Inv => \A k \in Tasks : View(k) = Shows(k)
<1> SUFFICES ASSUME Inv, NEW k \in Tasks PROVE View(k) = Shows(k)
    OBVIOUS
<1>0. TypeOK /\ StatusFollows /\ RecordFollows
    BY DEF Inv
<1>1. CASE phase[k] = "none"
    BY <1>0, <1>1 DEF View, Listing, Shows, StatusFollows, Terminal
<1>2. CASE phase[k] \in Started
    BY <1>0, <1>2 DEF View, Listing, Shows, StatusFollows, Started
<1>3. CASE phase[k] \in {"settled", "failing", "failClosed"}
    <2>1. Finished(k) /\ (k \notin dirs => record[k] = "none")
        BY <1>0, <1>3 DEF StatusFollows, RecordFollows, Decisive
    <2>q. QED
        BY <1>3, <2>1 DEF View, Listing, Shows, Latest, Recorded, Finished, Terminal
<1>4. CASE phase[k] \in Recorded
    <2>1. /\ Finished(k) /\ (k \in dirs => record[k] \in {status[k], "stopped"})
          /\ k \notin dirs => record[k] = "none"
        BY <1>0, <1>4 DEF StatusFollows, RecordFollows, Marred, Decisive, Recorded
    <2>q. QED
        BY <1>4, <2>1 DEF View, Listing, Shows, Latest, Finished, Terminal, Recorded
<1>q. QED
    BY <1>0, <1>1, <1>2, <1>3, <1>4 DEF TypeOK, Phases, Started, Recorded

\* The same of the next state.
LEMMA ViewIsNext == Inv' => \A k \in Tasks : View(k)' = Shows(k)'
<1>1. (Inv => \A k \in Tasks : View(k) = Shows(k))'
    BY ViewIs, PTL
<1>q. QED
    BY <1>1

\* A step leaves it as it was which tasks were taken for survivors.
DoubtStays == \A j \in Tasks : Mistaken(j)' <=> Mistaken(j)

\* So does every step that keeps who is being reaped and whose goroutine there is.
LEMMA DoubtKept ==
  ASSUME reap' = reap, \A j \in Tasks : phase'[j] = "none" <=> phase[j] = "none"
  PROVE  DoubtStays
BY DEF DoubtStays, Mistaken

\* A step that changes no listing and no doubt is a stuttering step of TaskLife.
LEMMA LifeStutters ==
  ASSUME \A j \in Tasks : View(j)' = View(j), DoubtStays, up' = up
  PROVE  UNCHANGED Life!vars
BY DEF Life!vars, DoubtStays

\* The doubted tasks are those TaskLife speaks of.
LEMMA DoubtUnchanged ==
  ASSUME DoubtStays
  PROVE  {j \in Tasks : Mistaken(j)}' = {j \in Tasks : Mistaken(j)}
BY DEF DoubtStays

\* A step that changes the listing of one task.
LEMMA LifeBecomes ==
  ASSUME NEW k \in Tasks, NEW s, View(k)' = s, \A j \in Tasks \ {k} : View(j)' = View(j)
  PROVE  Life!Become(k, s)
BY DEF Life!Become

\* The steps that let go of history forget tasks that are over, or leave them to the record a
\* reaping wrote.
LEMMA LifeLetsGo ==
  ASSUME up, up' = up, DoubtStays, NEW S \in SUBSET Tasks, NEW R \in SUBSET Tasks,
         \A j \in S : View(j) \in Terminal \cup {"orphaned"} /\ View(j)' = "none",
         \A j \in R : j \notin S /\ Mistaken(j) /\ View(j) \in Terminal /\ View(j)' = "stopped",
         \A j \in Tasks : j \notin S \cup R => View(j)' = View(j)
  PROVE  Life!LetGo(S, R) /\ Life!Next
<1>1. [k \in Tasks |-> View(k)]' =
        [k \in Tasks |-> IF k \in S THEN "none" ELSE IF k \in R THEN "stopped" ELSE View(k)]
    OBVIOUS
<1>2. Life!LetGo(S, R)
    BY <1>1, DoubtUnchanged DEF Life!LetGo, Life!Outcomes, Terminal
<1>q. QED
    BY <1>2 DEF Life!Next

\* The same where no record of a reaping is left.
LEMMA LifeForgets ==
  ASSUME up, up' = up, DoubtStays, NEW S \in SUBSET Tasks,
         \A j \in S : View(j) \in Terminal \cup {"orphaned"} /\ View(j)' = "none",
         \A j \in Tasks : j \notin S => View(j)' = View(j)
  PROVE  Life!Next
<1> DEFINE R == {j \in Tasks : FALSE}
<1>1. R \in SUBSET Tasks /\ (\A j \in Tasks : j \notin S \cup R => View(j)' = View(j))
    OBVIOUS
<1>2. \A j \in R : j \notin S /\ Mistaken(j) /\ View(j) \in Terminal /\ View(j)' = "stopped"
    OBVIOUS
<1> HIDE DEF R
<1>q. QED
    BY <1>1, <1>2, LifeLetsGo

\* A step of the pool's actions that no listing shows.
LEMMA Unseen ==
  ASSUME Inv, Inv', up' = up, status' = status, DoubtStays,
         \A j \in Tasks : status[j] = "none" => record'[j] = record[j],
         \A j \in Tasks : Finished(j) => (j \in held' <=> j \in held),
         \A j \in Tasks : Finished(j) => (j \in dirs' <=> j \in dirs),
         \A j \in Tasks : Finished(j) /\ j \in dirs \ held => Latest(j)' = Latest(j)
  PROVE  UNCHANGED Life!vars
<1> SUFFICES ASSUME NEW j \in Tasks PROVE View(j)' = View(j)
    BY LifeStutters
<1>1. Shows(j)' = Shows(j)
    BY DEF Shows, Finished, Inv, TypeOK
<1>q. QED
    BY <1>1, ViewIs, ViewIsNext

\* The same of a step that leaves the tasks and the bundle alone.
LEMMA UnseenPlain ==
  ASSUME Inv, Inv', up' = up, status' = status, phase' = phase, held' = held, dirs' = dirs,
         record' = record, DoubtStays
  PROVE  UNCHANGED Life!vars
<1>1. \A j \in Tasks : Latest(j)' = Latest(j)
    BY DEF Latest
<1>q. QED
    BY <1>1, Unseen

\* Every step of the pool is a step of TaskLife, or one that no listing shows.
LEMMA LifeStep == Inv /\ Inv' /\ [Next]_vars => [Life!Next]_(Life!vars)
<1> SUFFICES ASSUME Inv, Inv', [Next]_vars PROVE Life!Next \/ UNCHANGED Life!vars
    OBVIOUS
<1>0. TypeOK /\ DownIsBlank /\ StatusFollows /\ RecordFollows /\ ReapFollows /\ ProcFollows
    BY DEF Inv
<1>a. \A k \in Tasks : View(k) = Shows(k) /\ View(k)' = Shows(k)'
    BY ViewIs, ViewIsNext
<1>b. \A k \in Tasks : status[k] # "none" \/ k \in held => up
    BY <1>0 DEF DownIsBlank, StatusFollows
<1>c. reap' = reap /\ phase' = phase => DoubtStays
    BY DoubtKept
<1> USE <1>0 DEF TypeOK, lifeVars, poolVars, downVars, taskVars, diskVars, callerVars
<1>1. CASE SetSessionDir \/ SetDraining \/ Reopen \/ ClearLists
    BY <1>1, <1>c, UnseenPlain DEF SetSessionDir, SetDraining, Reopen, ClearLists
<1>2. CASE ClearMemory
    <2> DEFINE S == {k \in held : Finished(k)}
    <2>1. up /\ up' = up /\ status' = status /\ phase' = phase /\ DoubtStays
        BY <1>2, <1>b, <1>c DEF ClearMemory
    <2>2. \A j \in S : View(j) \in Terminal /\ View(j)' = "none"
        BY <1>2, <1>a DEF ClearMemory, Drop, Erase, Shows, Finished, Terminal
    <2>3. \A j \in Tasks : j \notin S => View(j)' = View(j)
        BY <1>2, <1>a DEF ClearMemory, Drop, Erase, Shows, Latest, Finished
    <2>q. QED
        BY <2>1, <2>2, <2>3, LifeForgets
<1>3. CASE ClearErases
    <2> DEFINE S == {k \in dirs : record[k] # "none" /\ k \notin clearLive /\ k \notin held}
    <2>1. up /\ up' = up /\ status' = status /\ held' = held /\ phase' = phase /\ DoubtStays
        BY <1>3, <1>c DEF ClearErases, DownIsBlank
    <2>2. \A j \in S : status[j] = "none" \/ Finished(j)
        BY DEF StatusFollows, Phases, Started, Decisive
    <2>3. \A j \in S : View(j) \in Terminal \cup {"orphaned"} /\ View(j)' = "none"
        <3> SUFFICES ASSUME NEW j \in S
                     PROVE View(j) \in Terminal \cup {"orphaned"} /\ View(j)' = "none"
            OBVIOUS
        <3>1. j \in Tasks /\ j \in dirs /\ j \notin held /\ record[j] # "none"
            OBVIOUS
        <3>2. j \notin dirs' /\ record'[j] = "none"
            BY <1>3, <3>1 DEF ClearErases, Erase
        <3>3. View(j)' = "none"
            BY <1>a, <2>1, <2>2, <3>1, <3>2 DEF Shows, Finished, Terminal
        <3>4. CASE status[j] = "none"
            BY <1>a, <3>1, <3>3, <3>4 DEF Shows, Terminal
        <3>5. CASE Finished(j)
            <4>1. Latest(j) \in Terminal
                BY <3>1, <3>5 DEF Latest, RecordFollows, Marred, Finished, Terminal
            <4>q. QED
                BY <1>a, <3>1, <3>3, <3>5, <4>1 DEF Shows, Finished, Terminal
        <3>q. QED
            BY <2>2, <3>4, <3>5
    <2>4. ASSUME NEW j \in Tasks, j \notin S PROVE View(j)' = View(j)
        <3>1. CASE status[j] = "none"
            BY <1>3, <1>a, <3>1, <2>4 DEF ClearErases, Erase, Shows, StatusFollows, RecordFollows,
               Phases, Started, Decisive, Finished, Terminal
        <3>2. CASE status[j] # "none" /\ (status[j] = "running" \/ j \in held)
            BY <1>a, <2>1, <3>2 DEF Shows
        <3>3. CASE status[j] # "none" /\ status[j] # "running" /\ j \notin held
            <4>1. (j \in dirs' <=> j \in dirs) /\ record'[j] = record[j]
                BY <1>3, <2>4, <3>3 DEF ClearErases, Erase
            <4>q. QED
                BY <1>a, <2>1, <3>3, <4>1 DEF Shows, Latest
        <3>q. QED
            BY <3>1, <3>2, <3>3
    <2>q. QED
        BY <2>1, <2>3, <2>4, LifeForgets
<1>4. CASE ReleaseSession
    <2> DEFINE S == {k \in held : Finished(k) /\ k \notin dirs}
               R == {k \in held : Finished(k) /\ k \in dirs /\ Latest(k) # status[k]}
    <2>1. /\ up /\ up' = up /\ status' = status /\ dirs' = dirs /\ record' = record
          /\ phase' = phase /\ DoubtStays
        BY <1>4, <1>c DEF ReleaseSession, DownIsBlank
    <2>a. \A j \in Tasks : Latest(j)' = Latest(j)
        BY <2>1 DEF Latest
    <2>b. \A j \in Tasks : j \in held' <=> j \in held /\ ~ Finished(j)
        BY <1>4 DEF ReleaseSession, Drop
    <2>2. \A j \in S : View(j) \in Terminal /\ View(j)' = "none"
        BY <1>a, <2>1, <2>b DEF Shows, Finished, Terminal
    <2>3. \A j \in R : /\ j \notin S /\ Mistaken(j)
                       /\ View(j) \in Terminal /\ View(j)' = "stopped"
        <3> SUFFICES ASSUME NEW j \in R
                     PROVE Mistaken(j) /\ View(j) \in Terminal /\ View(j)' = "stopped"
            OBVIOUS
        <3>1. Mistaken(j) /\ Latest(j) = "stopped"
            BY DEF Latest, RecordFollows, Marred
        <3>q. QED
            BY <1>a, <2>1, <2>a, <2>b, <3>1 DEF Shows, Finished, Terminal
    <2>4. \A j \in Tasks : j \notin S \cup R => View(j)' = View(j)
        BY <1>a, <2>1, <2>a, <2>b DEF Shows, Finished, Terminal
    <2>q. QED
        BY <2>1, <2>2, <2>3, <2>4, LifeLetsGo
<1>5. ASSUME NEW k \in Tasks, Admit(k) PROVE Life!Next
    <2>1. up /\ up' = up
        BY <1>5 DEF Admit, DownIsBlank
    <2>2. View(k) = "none" /\ View(k)' = "running"
        BY <1>5, <1>a, AdmitFresh DEF Admit, Shows, StatusFollows
    <2>3. \A j \in Tasks \ {k} : View(j)' = View(j)
        BY <1>5, <1>a DEF Admit, GotoPhase, Shows, Latest
    <2>4. DoubtStays
        BY <1>5, AdmitFresh DEF Admit, GotoPhase, DoubtStays, Mistaken
    <2>5. Life!Begin(k)
        BY <2>1, <2>2, <2>3, <2>4, LifeBecomes, DoubtUnchanged DEF Life!Begin
    <2>q. QED
        BY <2>5 DEF Life!Next
<1>6. ASSUME NEW k \in Tasks, StopTask(k) PROVE UNCHANGED Life!vars
    BY <1>6, <1>c, UnseenPlain DEF StopTask
<1>7. ASSUME NEW k \in Tasks, Reaping(k) PROVE Life!Next \/ UNCHANGED Life!vars
    <2>1. CASE ReapFinds(k)
        <3>1. /\ up' = up /\ status' = status /\ phase' = phase /\ held' = held
              /\ dirs' = dirs /\ record' = record
            BY <2>1 DEF ReapFinds
        <3>2. CASE phase[k] = "none"
            <4>1. DoubtStays
                BY <2>1, <3>2 DEF ReapFinds, DoubtStays, Mistaken
            <4>q. QED
                BY <3>1, <4>1, UnseenPlain
        <3>3. CASE phase[k] # "none"
            <4>1. phase[k] \in Started
                BY <2>1, <3>3 DEF ReapFinds, ProcFollows, Phases, Started, Decisive
            <4>2. up /\ View(k) = "running"
                BY <1>a, <1>b, <4>1 DEF Shows, StatusFollows
            <4>3. \A j \in Tasks : View(j)' = View(j)
                BY <1>a, <3>1 DEF Shows, Latest
            <4>4. {j \in Tasks : Mistaken(j)}' = {j \in Tasks : Mistaken(j)} \cup {k}
                BY <2>1, <3>3 DEF ReapFinds, Mistaken
            <4>5. Life!Mistake(k)
                BY <3>1, <4>2, <4>3, <4>4 DEF Life!Mistake
            <4>q. QED
                BY <4>5 DEF Life!Next
        <3>q. QED
            BY <3>2, <3>3
    <2>2. CASE ReapKills(k)
        <3>1. DoubtStays
            BY <2>2 DEF ReapKills, DoubtStays, Mistaken
        <3>q. QED
            BY <2>2, <3>1, UnseenPlain DEF ReapKills
    <2>3. CASE ReapWrites(k)
        <3>1. /\ up' = up /\ status' = status /\ phase' = phase /\ held' = held
              /\ dirs' = dirs /\ reap[k] # "none" /\ DoubtStays
            BY <2>3, <1>c DEF ReapWrites
        <3>2. \A j \in Tasks \ {k} : record'[j] = record[j]
            BY <2>3 DEF ReapWrites, Persist
        <3>3. \A j \in Tasks \ {k} : View(j)' = View(j)
            BY <1>a, <3>1, <3>2 DEF Shows, Latest
        <3>4. CASE k \notin dirs
            <4>1. record' = record
                BY <2>3, <3>4 DEF ReapWrites, Persist
            <4>q. QED
                BY <3>1, <4>1, UnseenPlain
        <3>5. CASE k \in dirs /\ phase[k] = "none"
            <4>1. record[k] \in {"running", "stopped"} /\ record'[k] = "stopped"
                BY <2>3, <3>1, <3>5 DEF ReapWrites, Persist, ReapFollows
            <4>2. View(k) \in {"orphaned", "stopped"} /\ View(k)' = "stopped"
                BY <1>a, <3>1, <3>5, <4>1 DEF Shows, StatusFollows
            <4>3. CASE View(k) = "stopped"
                BY <3>1, <3>3, <4>2, <4>3, LifeStutters
            <4>4. CASE View(k) = "orphaned"
                <5>1. up
                    BY <3>1 DEF DownIsBlank
                <5>2. Life!Reap(k)
                    BY <3>1, <3>3, <4>2, <4>4, <5>1, LifeBecomes, DoubtUnchanged DEF Life!Reap
                <5>q. QED
                    BY <5>2 DEF Life!Next
            <4>q. QED
                BY <4>2, <4>3, <4>4
        <3>6. CASE k \in dirs /\ phase[k] \in Recorded
            <4>1. Finished(k) /\ Mistaken(k) /\ up
                BY <3>1, <3>6, <1>b DEF StatusFollows, Recorded, Decisive, Mistaken, Finished,
                   Terminal
            <4>2. CASE k \in held
                <5>1. View(k)' = View(k)
                    BY <1>a, <3>1, <4>1, <4>2 DEF Shows, Finished, Terminal
                <5>q. QED
                    BY <3>1, <3>3, <5>1, LifeStutters
            <4>3. CASE k \notin held
                <5>1. record'[k] = "stopped" /\ record[k] \in {status[k], "stopped"}
                    BY <2>3, <3>6 DEF ReapWrites, Persist, RecordFollows, Marred
                <5>2. Latest(k) = record[k] /\ Latest(k)' = record'[k]
                    BY <3>1, <3>6 DEF Latest
                <5>3. View(k) \in Terminal /\ View(k)' = "stopped"
                    BY <1>a, <3>1, <3>6, <4>1, <4>3, <5>1, <5>2 DEF Shows, Finished, Terminal
                <5> DEFINE S == {j \in Tasks : FALSE}
                           R == {k}
                <5>4. \A j \in S : View(j) \in Terminal \cup {"orphaned"} /\ View(j)' = "none"
                    OBVIOUS
                <5>5. \A j \in R : /\ j \notin S /\ Mistaken(j)
                                   /\ View(j) \in Terminal /\ View(j)' = "stopped"
                    BY <4>1, <5>3
                <5>6. \A j \in Tasks : j \notin S \cup R => View(j)' = View(j)
                    BY <3>3
                <5>7. S \in SUBSET Tasks /\ R \in SUBSET Tasks
                    OBVIOUS
                <5> HIDE DEF S, R
                <5>q. QED
                    BY <3>1, <4>1, <5>4, <5>5, <5>6, <5>7, LifeLetsGo
            <4>q. QED
                BY <4>2, <4>3
        <3>7. CASE phase[k] \in Recording
            <4>1. status[k] # "none" /\ phase[k] \notin Recorded
                BY <3>7 DEF StatusFollows, Recording, Recorded, Started, Decisive, Finished,
                            Terminal
            <4>2. View(k)' = View(k)
                BY <1>a, <3>1, <4>1 DEF Shows, Latest
            <4>q. QED
                BY <3>1, <3>3, <4>2, LifeStutters
        <3>q. QED
            BY <3>1, <3>4, <3>5, <3>6, <3>7 DEF ReapFollows
    <2>q. QED
        BY <1>7, <2>1, <2>2, <2>3 DEF Reaping
<1>8. ASSUME NEW k \in Tasks, Forget(k) PROVE Life!Next
    <2>1. up /\ up' = up /\ status' = status /\ phase' = phase /\ DoubtStays
        BY <1>8, <1>b, <1>c DEF Forget, DownIsBlank
    <2>2. status[k] = "none" \/ Finished(k)
        BY <1>8 DEF Forget, StatusFollows, Phases, Started, Decisive
    <2>3. View(k)' = "none"
        BY <1>8, <1>a, <2>2 DEF Forget, Drop, Erase, Shows, Finished, Terminal
    <2>4. View(k) \in Terminal \cup {"orphaned"}
        <3>1. CASE k \in held /\ Finished(k)
            BY <1>a, <3>1 DEF Shows, Finished, Terminal
        <3>2. CASE k \notin held /\ record[k] # "none" /\ status[k] = "none"
            BY <1>a, <3>2 DEF Shows, Terminal
        <3>3. CASE k \notin held /\ record[k] # "none" /\ Finished(k)
            <4>1. k \in dirs /\ Latest(k) \in Terminal
                BY <3>3 DEF Latest, RecordFollows, Marred, Finished, Terminal
            <4>q. QED
                BY <1>a, <3>3, <4>1 DEF Shows, Finished, Terminal
        <3>q. QED
            BY <1>8, <2>2, <3>1, <3>2, <3>3 DEF Forget
    <2>5. \A j \in Tasks \ {k} : View(j)' = View(j)
        BY <1>8, <1>a DEF Forget, Drop, Erase, Shows, Latest
    <2> DEFINE S == {k}
    <2>6. \A j \in S : View(j) \in Terminal \cup {"orphaned"} /\ View(j)' = "none"
        BY <2>3, <2>4
    <2>7. \A j \in Tasks : j \notin S => View(j)' = View(j)
        BY <2>5
    <2>q. QED
        BY <2>1, <2>6, <2>7, LifeForgets
<1>9. CASE StopAllLists \/ StopAllWaited \/ StopAllEnds
    BY <1>9, <1>c, UnseenPlain DEF StopAllLists, StopAllWaited, StopAllEnds
<1>10. ASSUME NEW k \in Tasks, StopAllStops(k) \/ DeadlineFires(k) PROVE UNCHANGED Life!vars
    BY <1>10, <1>c, UnseenPlain DEF StopAllStops, DeadlineFires
<1>11. ASSUME NEW k \in Tasks, PrepareDir(k) PROVE UNCHANGED Life!vars
    <2>1. ~ Finished(k)
        BY <1>11 DEF PrepareDir, StatusFollows, Started, Finished, Terminal
    <2>2. DoubtStays
        BY <1>11, DoubtKept DEF PrepareDir, GotoPhase
    <2>3. \A j \in Tasks \ {k} : Latest(j)' = Latest(j)
        BY <1>11 DEF PrepareDir, GotoPhase, Latest
    <2>q. QED
        BY <1>11, <2>1, <2>2, <2>3, Unseen DEF PrepareDir
<1>12. ASSUME NEW k \in Tasks, LaunchFails(k) \/ Settle(k) PROVE Life!Next
    <2>1. status[k] = "running" /\ k \in held
        BY <1>12 DEF LaunchFails, Settle, StatusFollows, Started
    <2>2. up /\ up' = up
        BY <1>12, <1>b, <2>1 DEF LaunchFails, Settle
    <2>3. status'[k] \in Terminal /\ k \in held'
        BY <1>12, <2>1, OutcomeTerminal DEF LaunchFails, Settle, Terminal
    <2>4. View(k) = "running" /\ View(k)' = status'[k]
        BY <1>a, <2>1, <2>3 DEF Shows, Terminal
    <2>5. \A j \in Tasks \ {k} : View(j)' = View(j)
        BY <1>12, <1>a DEF LaunchFails, Settle, GotoPhase, Shows, Latest
    <2>6. DoubtStays
        BY <1>12, DoubtKept DEF LaunchFails, Settle, GotoPhase
    <2>7. Life!End(k)
        BY <2>2, <2>3, <2>4, <2>5, <2>6, LifeBecomes, DoubtUnchanged
           DEF Life!End, Life!Outcomes, Terminal
    <2>q. QED
        BY <2>7 DEF Life!Next
<1>13. ASSUME NEW k \in Tasks,
              CloseFailed(k) \/ LaunchSucceeds(k) \/ AttachHandle(k) \/ ObserveExit(k)
              \/ CloseDone(k) \/ Notify(k)
       PROVE UNCHANGED Life!vars
    <2>1. DoubtStays
        BY <1>13, DoubtKept DEF CloseFailed, LaunchSucceeds, AttachHandle, ObserveExit, CloseDone,
           Notify, GotoPhase
    <2>2. \A j \in Tasks : Latest(j)' = Latest(j)
        BY <1>13 DEF CloseFailed, LaunchSucceeds, AttachHandle, ObserveExit, CloseDone, Notify,
           GotoPhase, Latest, Recorded
    <2>q. QED
        BY <1>13, <2>1, <2>2, Unseen DEF CloseFailed, LaunchSucceeds, AttachHandle, ObserveExit,
           CloseDone, Notify
<1>14. ASSUME NEW k \in Tasks, PersistFailed(k) \/ PersistRunning(k) \/ PersistOutcome(k)
       PROVE UNCHANGED Life!vars
    <2>1. status[k] # "none"
        BY <1>14, StatusKnown DEF PersistFailed, PersistRunning, PersistOutcome
    <2>2. DoubtStays
        BY <1>14, DoubtKept DEF PersistFailed, PersistRunning, PersistOutcome, GotoPhase
    <2>3. \A j \in Tasks : j \in dirs => Latest(j)' = Latest(j)
        BY <1>14 DEF PersistFailed, PersistRunning, PersistOutcome, Persist, GotoPhase, Latest,
           Recorded
    <2>4. \A j \in Tasks : j # k => record'[j] = record[j]
        BY <1>14 DEF PersistFailed, PersistRunning, PersistOutcome, Persist
    <2>q. QED
        BY <1>14, <2>1, <2>2, <2>3, <2>4, Unseen DEF PersistFailed, PersistRunning, PersistOutcome
<1>15. ASSUME NEW k \in Tasks, KillLands(k) \/ KillFails(k) \/ StopReturns(k) \/ ProcessExits(k)
       PROVE UNCHANGED Life!vars
    BY <1>15, <1>c, UnseenPlain DEF KillLands, KillFails, StopReturns, ProcessExits
<1>16. CASE Die
    <2>1. up /\ ~ up' /\ {k \in Tasks : Mistaken(k)}' = {}
        BY <1>16 DEF Die, Mistaken
    <2>2. ASSUME NEW k \in Tasks
          PROVE  View(k)' \in Life!Left(k) /\ View(k)' \in Terminal \cup {"none", "orphaned"}
        <3>1. View(k)' = IF record[k] = "running" THEN "orphaned" ELSE record[k]
            BY <1>16, <1>a DEF Die, Shows
        <3>2. CASE status[k] = "none"
            <4>1. View(k) = View(k)'
                BY <1>a, <3>1, <3>2 DEF Shows
            <4>q. QED
                BY <3>1, <4>1 DEF Life!Left, Life!Outcomes, Terminal
        <3>3. CASE status[k] = "running"
            <4>1. View(k) = "running"
                BY <1>a, <3>3 DEF Shows
            <4>2. record[k] \in {"none", "running"} \/ Marred(k)
                BY <3>3 DEF StatusFollows, RecordFollows, Decisive, Phases, Unrecorded, Recording,
                            Finished, Terminal
            <4>q. QED
                BY <3>1, <4>1, <4>2 DEF Life!Left, Life!Outcomes, Marred, Terminal
        <3>4. CASE status[k] \in Terminal
            <4>1. record[k] \in {"none", "running", status[k]} \/ Marred(k)
                BY <3>4 DEF StatusFollows, RecordFollows, Started, Phases, Unrecorded,
                            Recording, Recorded, Terminal
            <4>2. k \notin dirs => record[k] = "none"
                BY DEF RecordFollows
            <4>3. Latest(k) \in {status[k], record[k]}
                BY DEF Latest
            <4>4. k \in dirs => Latest(k) \in Terminal
                BY <3>4, <4>1 DEF Latest, RecordFollows, Marred, Terminal
            <4>5. View(k) = IF k \in held THEN status[k]
                            ELSE IF k \in dirs THEN Latest(k) ELSE "none"
                BY <1>a, <3>4 DEF Shows, Terminal
            <4>q. QED
                BY <3>1, <3>4, <4>1, <4>2, <4>3, <4>4, <4>5
                   DEF Life!Left, Life!Outcomes, Marred, Latest, Terminal
        <3>q. QED
            BY <3>2, <3>3, <3>4
    <2>3. Life!Die
        BY <2>1, <2>2 DEF Life!Die, Life!Outcomes, Terminal
    <2>q. QED
        BY <2>3 DEF Life!Next
<1>17. CASE Restart
    <2>1. \A k \in Tasks : View(k)' = View(k)
        BY <1>17, <1>a DEF Restart, Shows, Latest
    <2>2. Life!Restart
        BY <1>17, <1>c, <2>1, DoubtUnchanged DEF Restart, Life!Restart
    <2>q. QED
        BY <2>2 DEF Life!Next
<1>18. CASE UNCHANGED vars
    BY <1>18, <1>c, UnseenPlain DEF vars
<1>q. QED
    BY <1>1, <1>2, <1>3, <1>4, <1>5, <1>6, <1>7, <1>8, <1>9, <1>10, <1>11, <1>12, <1>13,
        <1>14, <1>15, <1>16, <1>17, <1>18 DEF Next, Requests, StopAll, Run, Kill

\* The pool, its bundle, its crashes and restarts included, keeps the promise of TaskLife: one
\* outcome a task, taken back by nothing but the death of the process or a reaping that met the
\* task alive.
THEOREM PoolImplementsLife == Spec => ImplementsLife
<1>1. Init => Life!Init
    BY DEF Init, Life!Init, View, Listing, Mistaken
<1>2. Inv /\ Inv' /\ [Next]_vars => [Life!Next]_(Life!vars)
    BY LifeStep
<1>q. QED
    BY <1>1, <1>2, Invariance, PTL DEF Spec, ImplementsLife, Life!Spec
=============================================================================
