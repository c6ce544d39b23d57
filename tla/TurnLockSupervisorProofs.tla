----------------------- MODULE TurnLockSupervisorProofs -----------------------
(*****************************************************************************)
(* What the processes of one installation guarantee each other: the lock of a*)
(* turn (TurnLock), for any number of attempters, probers, processes and     *)
(* inodes, and `foxxycode serve` (Supervisor), for any kinds of surface, any *)
(* configurations and any bounds.  The two share no state: each part speaks o*)
(* its own component.                                                        *)
(*****************************************************************************)
EXTENDS TurnLock, Supervisor, FiniteSetTheorems, FunctionTheorems, TLAPS

-------------------------------------------------------------------------------
(*****************************************************************************)
(* The lock of a turn.  The inductive invariant ties the three views the     *)
(* protocol has of one fact - the program counter of an attempter, its       *)
(* descriptor and the kernel's table of flocks - and says that, as long as   *)
(* no unlink has taken a file from an open descriptor, every descriptor      *)
(* leads to the one file the name leads to.                                  *)
(*****************************************************************************)

\* A descriptor is open from the open to the unlock, and at no other time.
DescriptorInv == \A a \in Attempters : pc[a] \in Opened <=> fd[a] # NoFile

\* An attempter that got past the flock is the owner of the file it has open.
OwnerInv == \A a \in Attempters : Owns(a) => owner[fd[a]] = a

\* Until something strays, every open descriptor leads to the file at the path.
SameFileInv ==
    ~ strayed => \A a \in Attempters : fd[a] # NoFile => fd[a] = path

\* Only an acquisition that gives up has used all its attempts.
TriesInv == \A a \in Attempters : pc[a] # "busy" => tries[a] < MaxAttempts

\* A turn that holds the lock has its PID in the file it has open.
StampInv == \A b \in Attempters : pc[b] = "held" => meta[fd[b]] = ProcOf[b]

\* Nobody acts for a process that died.
DeadInv == \A b \in Attempters : ProcOf[b] \notin alive => pc[b] = "dead"

\* What a check has read of a turn is the PID of that turn; it goes on to unlink
\* only when the process is dead, or hidden from it.
ReadInv ==
    \A a \in Attempters : \A b \in stamped[a] :
        /\ pc[a] \in {"kill", "remove"}
        /\ pc[a] = "kill" => seen[a] = ProcOf[b]
        /\ pc[a] = "remove" => pc[b] = "dead" \/ <<ProcOf[a], ProcOf[b]>> \in Hidden

IInv == TypeOK /\ DescriptorInv /\ OwnerInv /\ SameFileInv /\ TriesInv
            /\ StampInv /\ DeadInv /\ ReadInv

LEMMA InitEstablishes == Init => IInv
<1> SUFFICES ASSUME Init PROVE IInv
  OBVIOUS
<1>0. 0 \in 0 .. MaxAttempts
  BY MaxAttemptsAssumption
<1>1. TypeOK
  BY <1>0 DEF Init, TypeOK, PCs, Opened, Owning
<1>2. DescriptorInv /\ OwnerInv /\ SameFileInv
  BY DEF Init, DescriptorInv, OwnerInv, SameFileInv, Owns, Opened, Owning
<1>3. TriesInv /\ StampInv /\ DeadInv /\ ReadInv
  BY MaxAttemptsAssumption, ProcOfAssumption
  DEF Init, TriesInv, StampInv, DeadInv, ReadInv
<1>. QED
  BY <1>1, <1>2, <1>3 DEF IInv

\* The type invariant needs TriesInv: that is what keeps the counter in range.
LEMMA TypeStep == IInv /\ [Next]_vars => TypeOK'
<1> SUFFICES ASSUME IInv, [Next]_vars PROVE TypeOK'
  OBVIOUS
<1>0. 0 \in 0 .. MaxAttempts
  BY MaxAttemptsAssumption
<1> USE ProcOfAssumption
        DEF IInv, TypeOK, Goto, Close, lockVars, probeVars, history, PCs, Opened, Owning
<1>1. ASSUME NEW a \in Attempters, Acquire(a) PROVE TypeOK'
  BY <1>1 DEF Acquire
<1>2. ASSUME NEW a \in Attempters, OpenExisting(a) PROVE TypeOK'
  BY <1>2 DEF OpenExisting, DescriptorInv
<1>3. ASSUME NEW a \in Attempters, OpenCreates(a) PROVE TypeOK'
  BY <1>3 DEF OpenCreates
<1>4. ASSUME NEW a \in Attempters, FlockGranted(a) PROVE TypeOK'
  BY <1>0, <1>4 DEF FlockGranted
<1>5. ASSUME NEW a \in Attempters, FlockRefused(a) PROVE TypeOK'
  BY <1>5 DEF FlockRefused
<1>6. ASSUME NEW a \in Attempters, Truncate(a) PROVE TypeOK'
  BY <1>6 DEF Truncate
<1>7. ASSUME NEW a \in Attempters, WriteMeta(a) PROVE TypeOK'
  BY <1>7 DEF WriteMeta
<1>8. ASSUME NEW a \in Attempters, ReadMeta(a) PROVE TypeOK'
  BY <1>8 DEF ReadMeta
<1>9. ASSUME NEW a \in Attempters, KillProbe(a) PROVE TypeOK'
  BY <1>9 DEF KillProbe
<1>10. ASSUME NEW a \in Attempters, RemoveLockFile(a) PROVE TypeOK'
  <2>1. tries[a] + 1 \in 0 .. MaxAttempts
    BY <1>10, MaxAttemptsAssumption DEF RemoveLockFile, TriesInv
  <2>. QED
    BY <1>10, <2>1 DEF RemoveLockFile
<1>11. ASSUME NEW a \in Attempters, StampFails(a) PROVE TypeOK'
  BY <1>0, <1>11 DEF StampFails
<1>12. ASSUME NEW a \in Attempters, Unlock(a) PROVE TypeOK'
  BY <1>0, <1>12 DEF Unlock
<1>13. ASSUME NEW a \in Attempters, ReturnBusy(a) PROVE TypeOK'
  BY <1>0, <1>13 DEF ReturnBusy
<1>14. ASSUME NEW q \in Probers, Probing(q) PROVE TypeOK'
  BY <1>14 DEF Probing, ProbeOpen, ProbeGranted, ProbeRefused, ProbeUnlock
<1>15. ASSUME NEW p \in Processes, Crash(p) PROVE TypeOK'
  BY <1>0, <1>15 DEF Crash
<1>16. CASE UNCHANGED vars
  BY <1>16 DEF vars
<1>. QED
  BY <1>1, <1>2, <1>3, <1>4, <1>5, <1>6, <1>7, <1>8, <1>9, <1>10, <1>11, <1>12,
     <1>13, <1>14, <1>15, <1>16 DEF Next, Steps
\* A step opens or closes a descriptor together with the move of its owner's pc.
LEMMA DescriptorStep == IInv /\ [Next]_vars => DescriptorInv'
<1> SUFFICES ASSUME IInv, [Next]_vars PROVE DescriptorInv'
  OBVIOUS
<1> USE NoFileAssumption, NobodyAssumption
        DEF IInv, TypeOK, Goto, Close, lockVars, probeVars, history, Opened, Owning, Owns, DescriptorInv
<1>1. ASSUME NEW a \in Attempters, Acquire(a) PROVE DescriptorInv'
  BY <1>1 DEF Acquire
<1>2. ASSUME NEW a \in Attempters, OpenExisting(a) PROVE DescriptorInv'
  BY <1>2 DEF OpenExisting
<1>3. ASSUME NEW a \in Attempters, OpenCreates(a) PROVE DescriptorInv'
  BY <1>3 DEF OpenCreates
<1>4. ASSUME NEW a \in Attempters, FlockGranted(a) PROVE DescriptorInv'
  BY <1>4 DEF FlockGranted
<1>5. ASSUME NEW a \in Attempters, FlockRefused(a) PROVE DescriptorInv'
  BY <1>5 DEF FlockRefused
<1>6. ASSUME NEW a \in Attempters, Truncate(a) PROVE DescriptorInv'
  BY <1>6 DEF Truncate
<1>7. ASSUME NEW a \in Attempters, WriteMeta(a) PROVE DescriptorInv'
  BY <1>7 DEF WriteMeta
<1>8. ASSUME NEW a \in Attempters, ReadMeta(a) PROVE DescriptorInv'
  BY <1>8 DEF ReadMeta
<1>9. ASSUME NEW a \in Attempters, KillProbe(a) PROVE DescriptorInv'
  BY <1>9 DEF KillProbe
<1>10. ASSUME NEW a \in Attempters, RemoveLockFile(a) PROVE DescriptorInv'
  BY <1>10 DEF RemoveLockFile
<1>11. ASSUME NEW a \in Attempters, StampFails(a) PROVE DescriptorInv'
  BY <1>11 DEF StampFails
<1>12. ASSUME NEW a \in Attempters, Unlock(a) PROVE DescriptorInv'
  BY <1>12 DEF Unlock
<1>13. ASSUME NEW a \in Attempters, ReturnBusy(a) PROVE DescriptorInv'
  BY <1>13 DEF ReturnBusy
<1>14. ASSUME NEW q \in Probers, Probing(q) PROVE DescriptorInv'
  BY <1>14 DEF Probing, ProbeOpen, ProbeGranted, ProbeRefused, ProbeUnlock
<1>15. ASSUME NEW p \in Processes, Crash(p) PROVE DescriptorInv'
  BY <1>15 DEF Crash
<1>16. CASE UNCHANGED vars
  BY <1>16 DEF vars
<1>. QED
  BY <1>1, <1>2, <1>3, <1>4, <1>5, <1>6, <1>7, <1>8, <1>9, <1>10, <1>11, <1>12,
     <1>13, <1>14, <1>15, <1>16 DEF Next, Steps

\* A flock is granted only on an unowned inode and dropped only by its owner.
LEMMA OwnerStep == IInv /\ [Next]_vars => OwnerInv'
<1> SUFFICES ASSUME IInv, [Next]_vars PROVE OwnerInv'
  OBVIOUS
<1> USE NoFileAssumption, NobodyAssumption
        DEF IInv, TypeOK, Goto, Close, lockVars, probeVars, history, Opened, Owning, Owns,
            DescriptorInv, OwnerInv
<1>1. ASSUME NEW a \in Attempters, Acquire(a) PROVE OwnerInv'
  BY <1>1 DEF Acquire
<1>2. ASSUME NEW a \in Attempters, OpenExisting(a) PROVE OwnerInv'
  BY <1>2 DEF OpenExisting
<1>3. ASSUME NEW a \in Attempters, OpenCreates(a) PROVE OwnerInv'
  BY <1>3 DEF OpenCreates
<1>4. ASSUME NEW a \in Attempters, FlockGranted(a) PROVE OwnerInv'
  BY <1>4 DEF FlockGranted
<1>5. ASSUME NEW a \in Attempters, FlockRefused(a) PROVE OwnerInv'
  BY <1>5 DEF FlockRefused
<1>6. ASSUME NEW a \in Attempters, Truncate(a) PROVE OwnerInv'
  BY <1>6 DEF Truncate
<1>7. ASSUME NEW a \in Attempters, WriteMeta(a) PROVE OwnerInv'
  BY <1>7 DEF WriteMeta
<1>8. ASSUME NEW a \in Attempters, ReadMeta(a) PROVE OwnerInv'
  BY <1>8 DEF ReadMeta
<1>9. ASSUME NEW a \in Attempters, KillProbe(a) PROVE OwnerInv'
  BY <1>9 DEF KillProbe
<1>10. ASSUME NEW a \in Attempters, RemoveLockFile(a) PROVE OwnerInv'
  BY <1>10 DEF RemoveLockFile
<1>11. ASSUME NEW a \in Attempters, StampFails(a) PROVE OwnerInv'
  BY <1>11 DEF StampFails
<1>12. ASSUME NEW a \in Attempters, Unlock(a) PROVE OwnerInv'
  BY <1>12 DEF Unlock
<1>13. ASSUME NEW a \in Attempters, ReturnBusy(a) PROVE OwnerInv'
  BY <1>13 DEF ReturnBusy
<1>14. ASSUME NEW q \in Probers, Probing(q) PROVE OwnerInv'
  BY <1>14 DEF Probing, ProbeOpen, ProbeGranted, ProbeRefused, ProbeUnlock
<1>15. ASSUME NEW p \in Processes, Crash(p) PROVE OwnerInv'
  BY <1>15 DEF Crash
<1>16. CASE UNCHANGED vars
  BY <1>16 DEF vars
<1>. QED
  BY <1>1, <1>2, <1>3, <1>4, <1>5, <1>6, <1>7, <1>8, <1>9, <1>10, <1>11, <1>12,
     <1>13, <1>14, <1>15, <1>16 DEF Next, Steps

\* Only an unlink can take the name away from an open descriptor, and then it is noted.
LEMMA SameFileStep == IInv /\ [Next]_vars => SameFileInv'
<1> SUFFICES ASSUME IInv, [Next]_vars PROVE SameFileInv'
  OBVIOUS
<1> USE NoFileAssumption, NobodyAssumption
        DEF IInv, TypeOK, Goto, Close, lockVars, probeVars, history, Opened, Owning, Owns,
            DescriptorInv, SameFileInv
<1>1. ASSUME NEW a \in Attempters, Acquire(a) PROVE SameFileInv'
  BY <1>1 DEF Acquire
<1>2. ASSUME NEW a \in Attempters, OpenExisting(a) PROVE SameFileInv'
  BY <1>2 DEF OpenExisting
<1>3. ASSUME NEW a \in Attempters, OpenCreates(a) PROVE SameFileInv'
  BY <1>3 DEF OpenCreates
<1>4. ASSUME NEW a \in Attempters, FlockGranted(a) PROVE SameFileInv'
  BY <1>4 DEF FlockGranted
<1>5. ASSUME NEW a \in Attempters, FlockRefused(a) PROVE SameFileInv'
  BY <1>5 DEF FlockRefused
<1>6. ASSUME NEW a \in Attempters, Truncate(a) PROVE SameFileInv'
  BY <1>6 DEF Truncate
<1>7. ASSUME NEW a \in Attempters, WriteMeta(a) PROVE SameFileInv'
  BY <1>7 DEF WriteMeta
<1>8. ASSUME NEW a \in Attempters, ReadMeta(a) PROVE SameFileInv'
  BY <1>8 DEF ReadMeta
<1>9. ASSUME NEW a \in Attempters, KillProbe(a) PROVE SameFileInv'
  BY <1>9 DEF KillProbe
<1>10. ASSUME NEW a \in Attempters, RemoveLockFile(a) PROVE SameFileInv'
  <2>1. \A b \in ReadOf(a) : fd[b] = NoFile
    BY <1>10 DEF RemoveLockFile, ReadOf, ReadInv
  <2>. QED
    BY <1>10, <2>1 DEF RemoveLockFile
<1>11. ASSUME NEW a \in Attempters, StampFails(a) PROVE SameFileInv'
  BY <1>11 DEF StampFails
<1>12. ASSUME NEW a \in Attempters, Unlock(a) PROVE SameFileInv'
  BY <1>12 DEF Unlock
<1>13. ASSUME NEW a \in Attempters, ReturnBusy(a) PROVE SameFileInv'
  BY <1>13 DEF ReturnBusy
<1>14. ASSUME NEW q \in Probers, Probing(q) PROVE SameFileInv'
  BY <1>14 DEF Probing, ProbeOpen, ProbeGranted, ProbeRefused, ProbeUnlock
<1>15. ASSUME NEW p \in Processes, Crash(p) PROVE SameFileInv'
  BY <1>15 DEF Crash
<1>16. CASE UNCHANGED vars
  BY <1>16 DEF vars
<1>. QED
  BY <1>1, <1>2, <1>3, <1>4, <1>5, <1>6, <1>7, <1>8, <1>9, <1>10, <1>11, <1>12,
     <1>13, <1>14, <1>15, <1>16 DEF Next, Steps

\* The loop hands an attempter back with an attempt left, or ends it as busy.
LEMMA TriesStep == IInv /\ [Next]_vars => TriesInv'
<1> SUFFICES ASSUME IInv, [Next]_vars PROVE TriesInv'
  OBVIOUS
<1> USE MaxAttemptsAssumption
        DEF IInv, TypeOK, Goto, Close, lockVars, probeVars, history, TriesInv
<1>1. ASSUME NEW a \in Attempters, Acquire(a) PROVE TriesInv'
  BY <1>1 DEF Acquire
<1>2. ASSUME NEW a \in Attempters, OpenExisting(a) PROVE TriesInv'
  BY <1>2 DEF OpenExisting
<1>3. ASSUME NEW a \in Attempters, OpenCreates(a) PROVE TriesInv'
  BY <1>3 DEF OpenCreates
<1>4. ASSUME NEW a \in Attempters, FlockGranted(a) PROVE TriesInv'
  BY <1>4 DEF FlockGranted
<1>5. ASSUME NEW a \in Attempters, FlockRefused(a) PROVE TriesInv'
  BY <1>5 DEF FlockRefused
<1>6. ASSUME NEW a \in Attempters, Truncate(a) PROVE TriesInv'
  BY <1>6 DEF Truncate
<1>7. ASSUME NEW a \in Attempters, WriteMeta(a) PROVE TriesInv'
  BY <1>7 DEF WriteMeta
<1>8. ASSUME NEW a \in Attempters, ReadMeta(a) PROVE TriesInv'
  BY <1>8 DEF ReadMeta
<1>9. ASSUME NEW a \in Attempters, KillProbe(a) PROVE TriesInv'
  BY <1>9 DEF KillProbe
<1>10. ASSUME NEW a \in Attempters, RemoveLockFile(a) PROVE TriesInv'
  BY <1>10 DEF RemoveLockFile
<1>11. ASSUME NEW a \in Attempters, StampFails(a) PROVE TriesInv'
  BY <1>11 DEF StampFails
<1>12. ASSUME NEW a \in Attempters, Unlock(a) PROVE TriesInv'
  BY <1>12 DEF Unlock
<1>13. ASSUME NEW a \in Attempters, ReturnBusy(a) PROVE TriesInv'
  BY <1>13 DEF ReturnBusy
<1>14. ASSUME NEW q \in Probers, Probing(q) PROVE TriesInv'
  BY <1>14 DEF Probing, ProbeOpen, ProbeGranted, ProbeRefused, ProbeUnlock
<1>15. ASSUME NEW p \in Processes, Crash(p) PROVE TriesInv'
  BY <1>15 DEF Crash
<1>16. CASE UNCHANGED vars
  BY <1>16 DEF vars
<1>. QED
  BY <1>1, <1>2, <1>3, <1>4, <1>5, <1>6, <1>7, <1>8, <1>9, <1>10, <1>11, <1>12,
     <1>13, <1>14, <1>15, <1>16 DEF Next, Steps

\* Only the owner of an inode writes to it, and an inode in use is not created again.
LEMMA StampStep == IInv /\ [Next]_vars => StampInv'
<1> SUFFICES ASSUME IInv, [Next]_vars PROVE StampInv'
  OBVIOUS
<1> USE ProcOfAssumption, NoFileAssumption, NobodyAssumption
        DEF IInv, TypeOK, Goto, Close, lockVars, probeVars, history, Opened, Owning, Owns,
            DescriptorInv, OwnerInv, StampInv
<1>1. ASSUME NEW a \in Attempters, Acquire(a) PROVE StampInv'
  BY <1>1 DEF Acquire
<1>2. ASSUME NEW a \in Attempters, OpenExisting(a) PROVE StampInv'
  BY <1>2 DEF OpenExisting
<1>3. ASSUME NEW a \in Attempters, OpenCreates(a) PROVE StampInv'
  BY <1>3 DEF OpenCreates, Unreachable
<1>4. ASSUME NEW a \in Attempters, FlockGranted(a) PROVE StampInv'
  BY <1>4 DEF FlockGranted
<1>5. ASSUME NEW a \in Attempters, FlockRefused(a) PROVE StampInv'
  BY <1>5 DEF FlockRefused
<1>6. ASSUME NEW a \in Attempters, Truncate(a) PROVE StampInv'
  BY <1>6 DEF Truncate
<1>7. ASSUME NEW a \in Attempters, WriteMeta(a) PROVE StampInv'
  BY <1>7 DEF WriteMeta
<1>8. ASSUME NEW a \in Attempters, ReadMeta(a) PROVE StampInv'
  BY <1>8 DEF ReadMeta
<1>9. ASSUME NEW a \in Attempters, KillProbe(a) PROVE StampInv'
  BY <1>9 DEF KillProbe
<1>10. ASSUME NEW a \in Attempters, RemoveLockFile(a) PROVE StampInv'
  BY <1>10 DEF RemoveLockFile
<1>11. ASSUME NEW a \in Attempters, StampFails(a) PROVE StampInv'
  BY <1>11 DEF StampFails
<1>12. ASSUME NEW a \in Attempters, Unlock(a) PROVE StampInv'
  BY <1>12 DEF Unlock
<1>13. ASSUME NEW a \in Attempters, ReturnBusy(a) PROVE StampInv'
  BY <1>13 DEF ReturnBusy
<1>14. ASSUME NEW q \in Probers, Probing(q) PROVE StampInv'
  BY <1>14 DEF Probing, ProbeOpen, ProbeGranted, ProbeRefused, ProbeUnlock
<1>15. ASSUME NEW p \in Processes, Crash(p) PROVE StampInv'
  BY <1>15 DEF Crash
<1>16. CASE UNCHANGED vars
  BY <1>16 DEF vars
<1>. QED
  BY <1>1, <1>2, <1>3, <1>4, <1>5, <1>6, <1>7, <1>8, <1>9, <1>10, <1>11, <1>12,
     <1>13, <1>14, <1>15, <1>16 DEF Next, Steps

\* A process that is dead stays dead, and takes all its attempters with it.
LEMMA DeadStep == IInv /\ [Next]_vars => DeadInv'
<1> SUFFICES ASSUME IInv, [Next]_vars PROVE DeadInv'
  OBVIOUS
<1> USE ProcOfAssumption DEF IInv, TypeOK, Goto, Close, lockVars, probeVars, history, DeadInv
<1>1. ASSUME NEW a \in Attempters, Acquire(a) PROVE DeadInv'
  BY <1>1 DEF Acquire
<1>2. ASSUME NEW a \in Attempters, OpenExisting(a) PROVE DeadInv'
  BY <1>2 DEF OpenExisting
<1>3. ASSUME NEW a \in Attempters, OpenCreates(a) PROVE DeadInv'
  BY <1>3 DEF OpenCreates, Unreachable
<1>4. ASSUME NEW a \in Attempters, FlockGranted(a) PROVE DeadInv'
  BY <1>4 DEF FlockGranted
<1>5. ASSUME NEW a \in Attempters, FlockRefused(a) PROVE DeadInv'
  BY <1>5 DEF FlockRefused
<1>6. ASSUME NEW a \in Attempters, Truncate(a) PROVE DeadInv'
  BY <1>6 DEF Truncate
<1>7. ASSUME NEW a \in Attempters, WriteMeta(a) PROVE DeadInv'
  BY <1>7 DEF WriteMeta
<1>8. ASSUME NEW a \in Attempters, ReadMeta(a) PROVE DeadInv'
  BY <1>8 DEF ReadMeta
<1>9. ASSUME NEW a \in Attempters, KillProbe(a) PROVE DeadInv'
  BY <1>9 DEF KillProbe
<1>10. ASSUME NEW a \in Attempters, RemoveLockFile(a) PROVE DeadInv'
  BY <1>10 DEF RemoveLockFile
<1>11. ASSUME NEW a \in Attempters, StampFails(a) PROVE DeadInv'
  BY <1>11 DEF StampFails
<1>12. ASSUME NEW a \in Attempters, Unlock(a) PROVE DeadInv'
  BY <1>12 DEF Unlock
<1>13. ASSUME NEW a \in Attempters, ReturnBusy(a) PROVE DeadInv'
  BY <1>13 DEF ReturnBusy
<1>14. ASSUME NEW q \in Probers, Probing(q) PROVE DeadInv'
  BY <1>14 DEF Probing, ProbeOpen, ProbeGranted, ProbeRefused, ProbeUnlock
<1>15. ASSUME NEW p \in Processes, Crash(p) PROVE DeadInv'
  BY <1>15 DEF Crash
<1>16. CASE UNCHANGED vars
  BY <1>16 DEF vars
<1>. QED
  BY <1>1, <1>2, <1>3, <1>4, <1>5, <1>6, <1>7, <1>8, <1>9, <1>10, <1>11, <1>12,
     <1>13, <1>14, <1>15, <1>16 DEF Next, Steps

\* A check that has read the PID of a turn unlinks only when it is told that it is dead.
LEMMA ReadStep == IInv /\ [Next]_vars => ReadInv'
<1> SUFFICES ASSUME IInv, [Next]_vars PROVE ReadInv'
  OBVIOUS
<1> USE ProcOfAssumption, NoFileAssumption
        DEF IInv, TypeOK, Goto, Close, lockVars, probeVars, history, Opened, Owning,
            DescriptorInv, StampInv, DeadInv, ReadInv
<1>1. ASSUME NEW a \in Attempters, Acquire(a) PROVE ReadInv'
  BY <1>1 DEF Acquire
<1>2. ASSUME NEW a \in Attempters, OpenExisting(a) PROVE ReadInv'
  BY <1>2 DEF OpenExisting
<1>3. ASSUME NEW a \in Attempters, OpenCreates(a) PROVE ReadInv'
  BY <1>3 DEF OpenCreates, Unreachable
<1>4. ASSUME NEW a \in Attempters, FlockGranted(a) PROVE ReadInv'
  BY <1>4 DEF FlockGranted
<1>5. ASSUME NEW a \in Attempters, FlockRefused(a) PROVE ReadInv'
  BY <1>5 DEF FlockRefused
<1>6. ASSUME NEW a \in Attempters, Truncate(a) PROVE ReadInv'
  BY <1>6 DEF Truncate
<1>7. ASSUME NEW a \in Attempters, WriteMeta(a) PROVE ReadInv'
  BY <1>7 DEF WriteMeta
<1>8. ASSUME NEW a \in Attempters, ReadMeta(a) PROVE ReadInv'
  BY <1>8 DEF ReadMeta
<1>9. ASSUME NEW a \in Attempters, KillProbe(a) PROVE ReadInv'
  <2> SUFFICES ASSUME NEW c \in Attempters, NEW b \in stamped'[c]
               PROVE  /\ pc'[c] \in {"kill", "remove"}
                      /\ pc'[c] = "kill" => seen'[c] = ProcOf[b]
                      /\ pc'[c] = "remove" =>
                           pc'[b] = "dead" \/ <<ProcOf[c], ProcOf[b]>> \in Hidden
    BY <1>9 DEF KillProbe
  <2>1. b \in stamped[c] /\ b \in Attempters
    BY <1>9 DEF KillProbe
  <2>2. pc[b] = "dead" => pc'[b] = "dead"
    BY <1>9, <2>1 DEF KillProbe
  <2>3. CASE c # a
    BY <1>9, <2>1, <2>2, <2>3 DEF KillProbe
  <2>4. CASE c = a
    <3>1. seen[a] = ProcOf[b] /\ pc'[a] = "remove" /\ pc'[a] # "kill"
      BY <1>9, <2>1, <2>4 DEF KillProbe
    <3>2. ProcOf[b] \notin alive \/ <<ProcOf[a], ProcOf[b]>> \in Hidden
      BY <1>9, <2>1, <2>4, <3>1 DEF KillProbe
    <3>. QED
      BY <2>1, <2>2, <2>4, <3>1, <3>2
  <2>. QED
    BY <2>3, <2>4
<1>10. ASSUME NEW a \in Attempters, RemoveLockFile(a) PROVE ReadInv'
  BY <1>10 DEF RemoveLockFile
<1>11. ASSUME NEW a \in Attempters, StampFails(a) PROVE ReadInv'
  BY <1>11 DEF StampFails
<1>12. ASSUME NEW a \in Attempters, Unlock(a) PROVE ReadInv'
  BY <1>12 DEF Unlock
<1>13. ASSUME NEW a \in Attempters, ReturnBusy(a) PROVE ReadInv'
  BY <1>13 DEF ReturnBusy
<1>14. ASSUME NEW q \in Probers, Probing(q) PROVE ReadInv'
  BY <1>14 DEF Probing, ProbeOpen, ProbeGranted, ProbeRefused, ProbeUnlock
<1>15. ASSUME NEW p \in Processes, Crash(p) PROVE ReadInv'
  BY <1>15 DEF Crash
<1>16. CASE UNCHANGED vars
  BY <1>16 DEF vars
<1>. QED
  BY <1>1, <1>2, <1>3, <1>4, <1>5, <1>6, <1>7, <1>8, <1>9, <1>10, <1>11, <1>12,
     <1>13, <1>14, <1>15, <1>16 DEF Next, Steps

LEMMA StepPreserves == IInv /\ [Next]_vars => IInv'
  BY TypeStep, DescriptorStep, OwnerStep, SameFileStep, TriesStep, StampStep,
     DeadStep, ReadStep DEF IInv

\* Two owners have the file at the path open, and a file has one owner.
LEMMA InvariantExcludes == IInv => ExclusiveUntilStrayed
<1> SUFFICES ASSUME IInv, ~ strayed,
                    NEW a \in Attempters, NEW b \in Attempters, Owns(a), Owns(b)
             PROVE  a = b
  BY DEF ExclusiveUntilStrayed, Exclusive
<1>1. fd[a] = path /\ fd[b] = path
  BY DEF IInv, DescriptorInv, SameFileInv, Owns, Opened
<1>2. owner[fd[a]] = a /\ owner[fd[b]] = b
  BY DEF IInv, OwnerInv
<1>. QED
  BY <1>1, <1>2

LEMMA InvariantHolds == Spec => []IInv
  BY InitEstablishes, StepPreserves, PTL DEF Spec

\* The lock protocol of manager_turn_lock_unix.go keeps its types; in
\* particular no acquisition goes through more than MaxAttempts attempts.
THEOREM TypeCorrect == Spec => []TypeOK
<1>1. IInv => TypeOK
  BY DEF IInv
<1>. QED
  BY <1>1, InvariantHolds, PTL

\* However many turns, probes and processes compete, and however often they
\* crash, the lock is exclusive until tryBreakStaleTurnLock unlinks a file from an
\* open descriptor of which it read nothing; a turn whose PID it read, in a process
\* it can signal, never loses its file to it.
THEOREM ExclusionUntilStrayed == Spec => []ExclusiveUntilStrayed
  BY InvariantHolds, InvariantExcludes, PTL

-------------------------------------------------------------------------------
(*****************************************************************************)
(* The supervisor.  The inductive invariant SupInv relates what runs, what is*)
(* applied and what is being drained to the place of the walk over a new     *)
(* configuration.                                                            *)
(*****************************************************************************)

States == {"up", "failing", "done"}
InstT == [kind : Kinds, print : 0..1, key : 0..1, st : States,
          cancelled : BOOLEAN, overstayed : BOOLEAN]

\* The variables that are neither instances nor places of the walk.
WordsTyped ==
  /\ file \in Configs /\ adopted \in Configs /\ next \in Configs
  /\ reloads = {} \/ \E c \in Configs : reloads = {c}
  /\ failures \in 0..Len(Subs)
  /\ ctxDone \in BOOLEAN /\ runErr \in BOOLEAN /\ wantRestart \in BOOLEAN
  /\ sessionless \in BOOLEAN /\ signalled \in BOOLEAN
  /\ exit \in {"none", "clean", "restart", "failed"}
  /\ dispatcher \in {"running", "pausing", "stopping", "stopped"}
  /\ stored \in 0..MaxReloads /\ lives \in 0..MaxLives

\* Where the walk of the supervisor is, and the stop it waits for.
PlacesTyped ==
  /\ phase \in {"down", "select", "apply", "shutdown"}
  /\ at \in 0..(Len(Subs) + 1) /\ stopping \in Nat /\ rebuild \in BOOLEAN
  /\ phase = "apply" => at > 0
  /\ phase = "shutdown" => at <= Len(Subs)
  /\ stopping # NoInst => phase \in {"apply", "shutdown"} /\ at \in 1..Len(Subs)
  /\ rebuild => phase = "apply" /\ stopping # NoInst

\* The list of instances, and what the places name in it.
InstsTyped ==
  /\ insts \in Seq(InstT)
  /\ running \in [Kinds -> 0..Len(insts)]
  /\ \A k \in Running : insts[running[k]].kind = k
  /\ phase = "down" => insts = <<>>
  /\ stopping # NoInst => stopping \in 1..Len(insts) /\ running[Subs[at]] = stopping

\* A configuration still to be read, or being applied, has paid for the instances it
\* may start.
Budget(n) == Len(Subs) * (n + 1)
Waiting == IF reloads = {} THEN 0 ELSE Len(Subs)
Walk == IF phase = "apply" THEN Len(Subs) + 1 - at ELSE 0
InstsPaid == Len(insts) + Waiting + Walk <= Budget(stored)

\* An instance is told to stop by the walk alone, which waits for it: one that was told to
\* and is at work nevertheless is the one being waited for, or outlasted its drain.
StopsWatched ==
  /\ stopping # NoInst => insts[stopping].cancelled
  /\ \A i \in 1..Len(insts) :
       insts[i].cancelled /\ Live(i) /\ i # stopping => insts[i].overstayed

\* What a configuration c wants of kind k is settled by the instances of list that run
\* names, in a worker with or without (bare) a session store.
Served(c, k, run, list, bare) ==
  /\ k \in c.on \cap Available /\ ~(k \in NeedsSessions /\ bare) => run[k] # NoInst
  /\ k \in c.on \cap Rebuildable /\ run[k] # NoInst /\ list[run[k]].key = c.key[k]
       => list[run[k]].print = c.print[k]
KeptOff(c, k, run) == run[k] # NoInst /\ k \notin c.on

\* The first p kinds are settled, at most one of them running though it is turned off.
Settled(c, p, run, list, bare) ==
  /\ \A n \in 1..p : Served(c, Subs[n], run, list, bare)
  /\ \A m, n \in 1..p : KeptOff(c, Subs[m], run) /\ KeptOff(c, Subs[n], run) => m = n

\* The walk has settled the kinds before the one it is at, and goes on with a surface that
\* runs; the stop it waits for is of one turned off, or of one it builds again.
WalkSettles ==
  /\ phase = "apply" =>
       /\ Settled(next, at - 1, running, insts, sessionless) /\ Running # {}
       /\ stopping # NoInst /\ ~rebuild =>
            Subs[at] \notin next.on /\ \E k \in Running : k # Subs[at]
       /\ rebuild => Subs[at] \in next.on
  /\ phase = "select" => Settled(adopted, Len(Subs), running, insts, sessionless) /\ Running # {}

\* How a worker comes to its end.
EndsFor ==
  /\ ctxDone => signalled \/ runErr
  /\ phase = "shutdown" => ctxDone \/ wantRestart
  /\ wantRestart => phase = "shutdown" /\ Resolves(next)
  /\ phase = "down" => ~ctxDone /\ ~runErr
  /\ phase # "down" => exit = "none"
  /\ exit = "clean" => signalled
  /\ exit = "restart" => Resolves(next)

SupInv ==
  /\ WordsTyped /\ PlacesTyped /\ InstsTyped /\ InstsPaid
  /\ NoneLost /\ StopsWatched /\ TwinsOutlastedTheDrain /\ WalkSettles /\ EndsFor

-------------------------------------------------------------------------------
(* Operators the surfaces are built with. *)

\* Every kind has its place in the declared order, and there are finitely many.
LEMMA KindsDeclared ==
  /\ Len(Subs) \in Nat \ {0} /\ IsFiniteSet(Kinds)
  /\ \A n \in 1..Len(Subs) : Subs[n] \in Kinds
  /\ \A k \in Kinds : \E n \in 1..Len(Subs) : Subs[n] = k
<1>1. Len(Subs) \in Nat \ {0}
  BY SubsAssumption
<1>2. IsFiniteSet(1..Len(Subs))
  BY <1>1, FS_Interval
<1>3. Subs \in [1..Len(Subs) -> Kinds]
  BY SubsAssumption DEF Kinds
<1>4. Subs \in Surjection(1..Len(Subs), Kinds)
  BY <1>3, Fun_IsSurj DEF Kinds
<1>5. IsFiniteSet(Kinds)
  BY <1>2, <1>4, FS_Surjection
<1>q. QED
  BY <1>1, <1>5 DEF Kinds

\* At most one element: a set in which any two are one.
LEMMA AtMostOne ==
  ASSUME NEW S, \A x, y \in S : x = y
  PROVE  Cardinality(S) <= 1
<1>1. CASE S = {}
  BY <1>1, FS_EmptySet
<1>2. ASSUME NEW x \in S PROVE Cardinality(S) <= 1
  <2>1. S = {x}
    BY <1>2
  <2>q. QED
    BY <2>1, FS_Singleton
<1>q. QED
  BY <1>1, <1>2

\* FirstKinds (Run's first walk over the subsystems) lists every kind asked for and built
\* in, once.
LEMMA FirstKindsListed ==
  ASSUME NEW c \in Configs
  PROVE  /\ FirstKinds(c) \in [1..Len(FirstKinds(c)) -> c.on \cap Available]
         /\ Len(FirstKinds(c)) \in 0..Len(Subs)
         /\ FirstKinds(c) \in Seq(Kinds)
         /\ \A m, n \in 1..Len(FirstKinds(c)) : FirstKinds(c)[m] = FirstKinds(c)[n] => m = n
         /\ \A k \in c.on \cap Available :
              \E n \in 1..Len(FirstKinds(c)) : FirstKinds(c)[n] = k
<1> DEFINE Asked == {n \in 1..Len(Subs) : Subs[n] \in c.on \cap Available}
<1> DEFINE Upto(n) == {m \in Asked : m <= n}
<1> DEFINE Place == [n \in Asked |-> Cardinality(Upto(n))]
<1> DEFINE Size == Cardinality(Asked)
<1>0. Len(Subs) \in Nat /\ Available \subseteq Kinds
  BY KindsDeclared, KindsAssumption
<1>1. IsFiniteSet(1..Len(Subs)) /\ Cardinality(1..Len(Subs)) = Len(Subs)
  BY <1>0, FS_Interval, SMTT(30)
<1>2. IsFiniteSet(Asked) /\ Size \in 0..Len(Subs)
  <2>1. Asked \subseteq 1..Len(Subs)
    OBVIOUS
  <2>2. IsFiniteSet(Asked) /\ Cardinality(Asked) <= Cardinality(1..Len(Subs))
    BY ONLY <2>1, <1>1, FS_Subset
  <2>q. QED
    BY <2>2, <1>0, <1>1, FS_CardinalityType
<1>3. ASSUME NEW n \in Asked PROVE IsFiniteSet(Upto(n)) /\ Cardinality(Upto(n)) \in 1..Size
  <2>1. Upto(n) \subseteq Asked /\ n \in Upto(n)
    BY <1>0
  <2>2. IsFiniteSet(Upto(n)) /\ Cardinality(Upto(n)) <= Size
    BY ONLY <2>1, <1>2, FS_Subset
  <2>3. Cardinality(Upto(n)) \in Nat /\ Cardinality(Upto(n)) # 0
    BY ONLY <2>1, <2>2, FS_CardinalityType, FS_EmptySet
  <2>q. QED
    BY <2>2, <2>3, <1>2
<1>4. ASSUME NEW m \in Asked, NEW n \in Asked, m < n PROVE Cardinality(Upto(m)) < Cardinality(Upto(n))
  <2>1. Upto(m) \subseteq Upto(n) /\ n \in Upto(n) /\ n \notin Upto(m)
    BY <1>4, <1>0
  <2>2. Upto(m) # Upto(n)
    BY <2>1
  <2>3. IsFiniteSet(Upto(n)) /\ IsFiniteSet(Upto(m))
    BY <1>3
  <2>q. QED
    <3> HIDE DEF Upto, Asked
    <3>1. Cardinality(Upto(m)) <= Cardinality(Upto(n))
      BY ONLY <2>1, <2>3, FS_Subset
    <3>2. Cardinality(Upto(m)) # Cardinality(Upto(n))
      BY ONLY <2>1, <2>2, <2>3, FS_Subset
    <3>3. Cardinality(Upto(m)) \in Nat /\ Cardinality(Upto(n)) \in Nat
      BY <2>3, FS_CardinalityType
    <3>q. QED
      BY <3>1, <3>2, <3>3
<1>5. Place \in [Asked -> 1..Size]
  BY <1>3
<1>6. \A m, n \in Asked : Place[m] = Place[n] => m = n
  <2> SUFFICES ASSUME NEW m \in Asked, NEW n \in Asked, m # n PROVE Place[m] # Place[n]
    OBVIOUS
  <2>1. m < n \/ n < m
    BY <1>0
  <2>2. Place[m] < Place[n] \/ Place[n] < Place[m]
    BY <2>1, <1>4
  <2>3. Place[m] \in 1..Size /\ Place[n] \in 1..Size
    BY <1>5
  <2> HIDE DEF Place, Size
  <2>q. QED
    BY <2>2, <2>3, <1>2
<1> HIDE DEF Place
<1>7. Place \in Injection(Asked, 1..Size)
  BY <1>5, <1>6, Fun_IsInj
<1>8. IsFiniteSet(1..Size) /\ Cardinality(1..Size) = Size
  <2>1. Size \in Nat
    BY <1>2
  <2> HIDE DEF Size
  <2>q. QED
    BY <2>1, FS_Interval
<1>9. Place \in Surjection(Asked, 1..Size)
  BY <1>7, <1>8, FS_Injection
<1>10. \A p \in 1..Size : \E n \in Asked : Place[n] = p
  <2> HIDE DEF Size, Asked
  <2>q. QED
    BY <1>9, Fun_SurjectionProperties
<1> DEFINE At(p) == CHOOSE n \in Asked : Cardinality(Upto(n)) = p
<1>11. \A p \in 1..Size : At(p) \in Asked /\ Place[At(p)] = p
  <2> SUFFICES ASSUME NEW p \in 1..Size PROVE At(p) \in Asked /\ Place[At(p)] = p
    OBVIOUS
  <2>1. \A n \in Asked : Place[n] = Cardinality(Upto(n))
    BY DEF Place
  <2>2. PICK n \in Asked : Place[n] = p
    BY <1>10
  <2>3. Cardinality(Upto(n)) = p
    BY <2>1, <2>2
  <2>4. At(p) \in Asked /\ Cardinality(Upto(At(p))) = p
    BY <2>3
  <2>q. QED
    BY <2>1, <2>4
<1>12. FirstKinds(c) = [p \in 1..Size |-> Subs[At(p)]]
  BY DEF FirstKinds
<1> HIDE DEF At
<1>13. \A n \in Asked : Subs[n] \in c.on \cap Available
  OBVIOUS
<1>14. Asked \subseteq 1..Len(Subs)
  OBVIOUS
<1>15. \A k \in c.on \cap Available : \E n \in Asked : Subs[n] = k
  BY <1>0, KindsDeclared
<1>16. \A m, n \in Asked : Subs[m] = Subs[n] => m = n
  BY <1>14, SubsAssumption
<1>17. \A n \in Asked : Place[n] \in 1..Size /\ At(Place[n]) = n
  BY <1>5, <1>6, <1>11
<1>18. Size \in Nat /\ Size <= Len(Subs)
  BY <1>2, <1>0
<1> HIDE DEF Size, Asked
<1>19. FirstKinds(c) \in [1..Size -> c.on \cap Available]
  BY <1>11, <1>12, <1>13
<1>20. FirstKinds(c) \in Seq(Kinds) /\ Len(FirstKinds(c)) = Size
  BY <1>0, <1>18, <1>19
<1>21. \A m, n \in 1..Size : FirstKinds(c)[m] = FirstKinds(c)[n] => m = n
  BY <1>11, <1>12, <1>16
<1>22. ASSUME NEW k \in c.on \cap Available PROVE \E n \in 1..Size : FirstKinds(c)[n] = k
  <2>1. PICK n \in Asked : Subs[n] = k
    BY <1>15
  <2>2. Place[n] \in 1..Size /\ FirstKinds(c)[Place[n]] = k
    BY <1>12, <1>17, <2>1
  <2>q. QED
    BY <2>2
<1>q. QED
  BY <1>0, <1>18, <1>19, <1>20, <1>21, <1>22

\* The new instance of a kind has what the configuration says of it.
LEMMA InstanceTyped ==
  ASSUME NEW c \in Configs, NEW k \in Kinds
  PROVE  /\ Instance(k, c) \in InstT
         /\ Instance(k, c).kind = k /\ Instance(k, c).st = "up"
         /\ Instance(k, c).print = c.print[k] /\ Instance(k, c).key = c.key[k]
         /\ Instance(k, c).cancelled = FALSE /\ Instance(k, c).overstayed = FALSE
  BY ConfigsAssumption DEF Instance, InstT, States

\* The states of an instance, and what is said of it, do not touch what it was built from.
SameBuild(i, list) ==
  /\ insts'[i].kind = list[i].kind /\ insts'[i].print = list[i].print
  /\ insts'[i].key = list[i].key

LEMMA RecordsChange ==
  ASSUME NEW r \in InstT
  PROVE  /\ \A s \in States : [r EXCEPT !.st = s] \in InstT
         /\ [r EXCEPT !.cancelled = TRUE] \in InstT
         /\ [r EXCEPT !.overstayed = TRUE] \in InstT
  BY DEF InstT

LEMMA StateChanges ==
  ASSUME insts \in Seq(InstT), NEW i \in 1..Len(insts), NEW s \in States,
         insts' = [insts EXCEPT ![i].st = s]
  PROVE  /\ insts' \in Seq(InstT) /\ Len(insts') = Len(insts)
         /\ \A j \in 1..Len(insts) :
              /\ SameBuild(j, insts) /\ insts'[j].cancelled = insts[j].cancelled
              /\ insts'[j].overstayed = insts[j].overstayed
              /\ insts'[j].st = IF j = i THEN s ELSE insts[j].st
<1>1. insts' = [insts EXCEPT ![i] = [insts[i] EXCEPT !.st = s]]
  OBVIOUS
<1>2. \A j \in 1..Len(insts) : insts[j] \in InstT
  OBVIOUS
<1>3. [insts[i] EXCEPT !.st = s] \in InstT
  BY <1>2, RecordsChange
<1>4. insts' \in Seq(InstT) /\ Len(insts') = Len(insts)
  BY <1>1, <1>3
<1>5. \A j \in 1..Len(insts) :
        insts'[j] = IF j = i THEN [insts[i] EXCEPT !.st = s] ELSE insts[j]
  BY <1>1
<1>q. QED
  BY <1>2, <1>4, <1>5 DEF SameBuild, InstT

LEMMA TellChanges ==
  ASSUME insts \in Seq(InstT), NEW i \in 1..Len(insts),
         insts' = [insts EXCEPT ![i].cancelled = TRUE]
  PROVE  /\ insts' \in Seq(InstT) /\ Len(insts') = Len(insts)
         /\ \A j \in 1..Len(insts) :
              /\ SameBuild(j, insts) /\ insts'[j].st = insts[j].st
              /\ insts'[j].overstayed = insts[j].overstayed
              /\ insts'[j].cancelled = IF j = i THEN TRUE ELSE insts[j].cancelled
<1>1. insts' = [insts EXCEPT ![i] = [insts[i] EXCEPT !.cancelled = TRUE]]
  OBVIOUS
<1>2. \A j \in 1..Len(insts) : insts[j] \in InstT
  OBVIOUS
<1>3. [insts[i] EXCEPT !.cancelled = TRUE] \in InstT
  BY <1>2, RecordsChange
<1>4. insts' \in Seq(InstT) /\ Len(insts') = Len(insts)
  BY <1>1, <1>3
<1>5. \A j \in 1..Len(insts) :
        insts'[j] = IF j = i THEN [insts[i] EXCEPT !.cancelled = TRUE] ELSE insts[j]
  BY <1>1
<1>q. QED
  BY <1>2, <1>4, <1>5 DEF SameBuild, InstT

\* restartDrain ran out: what the list becomes.
Overstays == [insts EXCEPT ![stopping].overstayed = TRUE]

LEMMA DrainMarks ==
  ASSUME insts \in Seq(InstT), stopping \in 1..Len(insts)
  PROVE  /\ Overstays \in Seq(InstT) /\ Len(Overstays) = Len(insts)
         /\ \A j \in 1..Len(insts) :
              /\ Overstays[j].kind = insts[j].kind /\ Overstays[j].print = insts[j].print
              /\ Overstays[j].key = insts[j].key /\ Overstays[j].st = insts[j].st
              /\ Overstays[j].cancelled = insts[j].cancelled
              /\ Overstays[j].overstayed = IF j = stopping THEN TRUE ELSE insts[j].overstayed
<1>1. Overstays = [insts EXCEPT ![stopping] = [insts[stopping] EXCEPT !.overstayed = TRUE]]
  BY DEF Overstays
<1>2. \A j \in 1..Len(insts) : insts[j] \in InstT
  OBVIOUS
<1>3. [insts[stopping] EXCEPT !.overstayed = TRUE] \in InstT
  BY <1>2, RecordsChange
<1>4. Overstays \in Seq(InstT) /\ Len(Overstays) = Len(insts)
  BY <1>1, <1>3
<1>5. \A j \in 1..Len(insts) :
        Overstays[j] = IF j = stopping THEN [insts[stopping] EXCEPT !.overstayed = TRUE] ELSE insts[j]
  BY <1>1
<1>6. insts[stopping] \in InstT
  BY <1>2
<1>7. Overstays[stopping].kind = insts[stopping].kind
      /\ Overstays[stopping].print = insts[stopping].print
      /\ Overstays[stopping].key = insts[stopping].key
      /\ Overstays[stopping].st = insts[stopping].st
      /\ Overstays[stopping].cancelled = insts[stopping].cancelled
      /\ Overstays[stopping].overstayed = TRUE
  BY <1>5, <1>6 DEF InstT
<1>q. QED
  BY <1>4, <1>5, <1>7

\* Supervisor.start: one instance more, at the end, and its kind names it.
LEMMA StartAppends ==
  ASSUME NEW list \in Seq(InstT), NEW k \in Kinds, next \in Configs,
         running \in [Kinds -> 0..Len(list)], StartInst(k, list)
  PROVE  /\ insts' \in Seq(InstT) /\ Len(insts') = Len(list) + 1
         /\ \A i \in 1..Len(list) : insts'[i] = list[i]
         /\ insts'[Len(list) + 1] = Instance(k, next)
         /\ running' \in [Kinds -> 0..Len(insts')]
         /\ running'[k] = Len(list) + 1 /\ \A j \in Kinds \ {k} : running'[j] = running[j]
<1>1. Instance(k, next) \in InstT
  BY InstanceTyped
<1>2. insts' = Append(list, Instance(k, next)) /\ running' = [running EXCEPT ![k] = Len(list) + 1]
  BY DEF StartInst
<1>q. QED
  BY <1>1, <1>2

-------------------------------------------------------------------------------
(* What the steps do to the instances. *)

\* Two of a set of more than one, and none of a set of at most one, are different.
LEMMA OnlyOne ==
  ASSUME NEW S, IsFiniteSet(S), ~(Cardinality(S) > 1)
  PROVE  \A x, y \in S : x = y
<1> SUFFICES ASSUME NEW x \in S, NEW y \in S, x # y PROVE FALSE
  OBVIOUS
<1>1. IsFiniteSet(S \ {x}) /\ Cardinality(S \ {x}) = Cardinality(S) - 1
  BY FS_RemoveElement
<1>2. Cardinality(S) \in Nat /\ Cardinality(S \ {x}) \in Nat
  BY <1>1, FS_CardinalityType
<1>3. Cardinality(S \ {x}) = 0
  BY <1>1, <1>2
<1>4. S \ {x} = {}
  BY <1>1, <1>3, FS_EmptySet
<1>q. QED
  BY <1>4

\* The bound on the instances is met by whole configurations.
LEMMA BudgetGrows ==
  ASSUME NEW n \in Nat
  PROVE  /\ Budget(n) \in Nat /\ Budget(n) >= Len(Subs) /\ Budget(n + 1) = Budget(n) + Len(Subs)
         /\ n <= MaxReloads => Budget(n) <= MaxInsts
<1> DEFINE L == Len(Subs)
<1>1. L \in Nat /\ MaxReloads \in Nat
  BY KindsDeclared, BoundsAssumption
<1> HIDE DEF L
<1>2. L * (n + 1) \in Nat /\ L * (n + 1) >= L /\ L * (n + 1 + 1) = L * (n + 1) + L
  <2>1. L * n \in Nat
    BY <1>1
  <2>2. L * (n + 1) = L * n + L /\ L * (n + 1 + 1) = L * n + L + L
    BY <1>1
  <2>q. QED
    BY <1>1, <2>1, <2>2
<1>3. ASSUME n <= MaxReloads PROVE L * (n + 1) <= L * (MaxReloads + 1)
  <2> DEFINE d == MaxReloads - n
  <2>1. d \in Nat /\ MaxReloads = n + d
    BY <1>1, <1>3
  <2> HIDE DEF d
  <2>2. L * d \in Nat
    BY <1>1, <2>1
  <2>3. L * (n + d + 1) = L * (n + 1) + L * d
    BY <1>1, <2>1
  <2>4. L * (n + 1) \in Nat
    BY <1>2
  <2>q. QED
    BY <2>1, <2>2, <2>3, <2>4
<1>q. QED
  BY <1>2, <1>3 DEF Budget, MaxInsts, L

\* The instances a worker starts with.
LEMMA FirstInstances ==
  ASSUME WordsTyped, Resolves(file),
         insts' = [n \in 1..Len(FirstKinds(file)) |-> Instance(FirstKinds(file)[n], file)],
         running' = [k \in Kinds |->
           IF \E n \in 1..Len(FirstKinds(file)) : FirstKinds(file)[n] = k
           THEN CHOOSE n \in 1..Len(FirstKinds(file)) : FirstKinds(file)[n] = k ELSE NoInst]
  PROVE  /\ insts' \in Seq(InstT) /\ Len(insts') \in 0..Len(Subs)
         /\ running' \in [Kinds -> 0..Len(insts')]
         /\ \A n \in 1..Len(insts') :
              /\ running'[insts'[n].kind] = n
              /\ insts'[n].print = file.print[insts'[n].kind]
              /\ insts'[n].st = "up" /\ ~insts'[n].cancelled
         /\ \A k \in Kinds : running'[k] # NoInst => insts'[running'[k]].kind = k /\ k \in file.on
         /\ \A k \in file.on \cap Available : running'[k] # NoInst
         /\ \E k \in Kinds : running'[k] # NoInst
<1> DEFINE F == FirstKinds(file)
<1>1. /\ F \in [1..Len(F) -> file.on \cap Available] /\ Len(F) \in 0..Len(Subs) /\ F \in Seq(Kinds)
      /\ \A m, n \in 1..Len(F) : F[m] = F[n] => m = n
      /\ \A k \in file.on \cap Available : \E n \in 1..Len(F) : F[n] = k
  BY FirstKindsListed DEF WordsTyped
<1>2. file \in Configs /\ Len(Subs) \in Nat /\ Available \subseteq Kinds
  BY KindsDeclared, KindsAssumption DEF WordsTyped
<1>3. /\ insts' = [n \in 1..Len(F) |-> Instance(F[n], file)]
      /\ running' = [k \in Kinds |-> IF \E n \in 1..Len(F) : F[n] = k
                                     THEN CHOOSE n \in 1..Len(F) : F[n] = k ELSE NoInst]
  OBVIOUS
<1> HIDE DEF F
<1>4. Len(F) \in Nat
  BY <1>1, <1>2
<1>5. \A n \in 1..Len(F) : F[n] \in Kinds
  BY <1>1, <1>4
<1>6. \A n \in 1..Len(F) :
        /\ insts'[n] \in InstT /\ insts'[n].kind = F[n] /\ insts'[n].st = "up"
        /\ insts'[n].print = file.print[F[n]] /\ ~insts'[n].cancelled
  <2> SUFFICES ASSUME NEW n \in 1..Len(F)
               PROVE  /\ insts'[n] \in InstT /\ insts'[n].kind = F[n] /\ insts'[n].st = "up"
                      /\ insts'[n].print = file.print[F[n]] /\ ~insts'[n].cancelled
    OBVIOUS
  <2>1. insts'[n] = Instance(F[n], file)
    BY <1>3
  <2>2. F[n] \in Kinds
    BY <1>5
  <2> DEFINE I == Instance(F[n], file)
  <2>3. /\ I \in InstT /\ I.kind = F[n] /\ I.st = "up"
        /\ I.print = file.print[F[n]] /\ I.cancelled = FALSE
    BY <1>2, <2>2, InstanceTyped
  <2>4. insts'[n] = I
    BY <2>1
  <2> HIDE DEF I
  <2>q. QED
    BY <2>3, <2>4
<1>7. insts' \in Seq(InstT) /\ Len(insts') = Len(F)
  <2>1. insts' \in [1..Len(F) -> InstT]
    BY <1>3, <1>6
  <2>q. QED
    BY <1>4, <2>1
<1>8. \A k \in Kinds : running'[k] # NoInst => running'[k] \in 1..Len(F) /\ F[running'[k]] = k
  BY <1>3 DEF NoInst
<1>9. \A k \in Kinds : running'[k] \in 0..Len(F)
  BY <1>4, <1>8 DEF NoInst
<1>10. running' \in [Kinds -> 0..Len(insts')]
  BY <1>3, <1>7, <1>9
<1>11. \A n \in 1..Len(F) : running'[F[n]] # NoInst
  <2> SUFFICES ASSUME NEW n \in 1..Len(F) PROVE running'[F[n]] # NoInst
    OBVIOUS
  <2>1. F[n] \in Kinds /\ \E m \in 1..Len(F) : F[m] = F[n]
    BY <1>5
  <2>2. running'[F[n]] = CHOOSE m \in 1..Len(F) : F[m] = F[n]
    BY <1>3, <2>1
  <2>3. running'[F[n]] \in 1..Len(F)
    BY <2>1, <2>2
  <2>q. QED
    BY <1>4, <2>3 DEF NoInst
<1>12. \A n \in 1..Len(F) : running'[F[n]] = n
  BY <1>1, <1>5, <1>8, <1>11, ZenonT(30)
<1>13. \A k \in file.on \cap Available : running'[k] # NoInst
  <2> SUFFICES ASSUME NEW k \in file.on \cap Available PROVE running'[k] # NoInst
    OBVIOUS
  <2>1. PICK n \in 1..Len(F) : F[n] = k
    BY <1>1
  <2>q. QED
    BY <1>11, <2>1
<1>14. PICK k0 \in file.on : k0 \in Available
  BY DEF Resolves
<1>15. \A k \in Kinds : running'[k] # NoInst => k \in file.on
  BY <1>1, <1>8
<1>16. \A n \in 1..Len(F) : running'[insts'[n].kind] = n /\ insts'[n].print = file.print[insts'[n].kind]
  BY <1>6, <1>12, ZenonT(30)
<1>17. \A k \in Kinds : running'[k] # NoInst => insts'[running'[k]].kind = k
  BY <1>6, <1>8
<1>18. \E k \in Kinds : running'[k] # NoInst
  BY <1>2, <1>13, <1>14
<1>q. QED
  BY <1>1, <1>6, <1>7, <1>10, <1>13, <1>15, <1>16, <1>17, <1>18

\* Supervisor.stop begins: the kind at hand has an instance, which is told to go.
Tells(n) ==
  /\ AtTurn(n) /\ running[Subs[n]] \in 1..Len(insts)
  /\ BeginStop(Subs[n]) /\ at' = n /\ phase \in {"apply", "shutdown"}
  /\ phase = "apply" => ~Starts(Subs[n]) /\ rebuild' = Rebuilds(Subs[n])
  /\ phase = "shutdown" => rebuild' = FALSE
  /\ UNCHANGED <<rest, reloads, adopted, next, phase, running, ctxDone, failures, runErr,
                 wantRestart, sessionless, signalled>>

LEMMA StopBegins ==
  ASSUME InstsTyped, ApplyStop \/ ShutdownStop
  PROVE  \E n \in 1..Len(Subs) : Tells(n)
<1>1. \A n \in 1..Len(Subs) : running[Subs[n]] \in 0..Len(insts) /\ Len(insts) \in Nat
  BY KindsDeclared DEF InstsTyped
<1>2. CASE ApplyStop
  <2>1. PICK n \in 1..Len(Subs) :
          /\ AtTurn(n) /\ ~Starts(Subs[n]) /\ BeginStop(Subs[n])
          /\ rebuild' = Rebuilds(Subs[n]) /\ at' = n
    BY <1>2 DEF ApplyStop
  <2>2. phase = "apply" /\ UNCHANGED <<rest, reloads, adopted, next, phase, running, ctxDone, failures,
                                       runErr, wantRestart, sessionless, signalled>>
    BY <1>2 DEF ApplyStop
  <2>3. Acts(Subs[n])
    BY <2>1, <2>2 DEF AtTurn, Turn
  <2>4. running[Subs[n]] # NoInst
    BY <2>1, <2>3 DEF Acts, StopsOff, Rebuilds
  <2>5. running[Subs[n]] \in 1..Len(insts)
    BY <1>1, <2>4 DEF NoInst
  <2>q. QED
    BY <2>1, <2>2, <2>5 DEF Tells
<1>3. CASE ShutdownStop
  <2>1. PICK n \in 1..Len(Subs) : AtTurn(n) /\ BeginStop(Subs[n]) /\ rebuild' = FALSE /\ at' = n
    BY <1>3 DEF ShutdownStop
  <2>2. phase = "shutdown" /\ UNCHANGED <<rest, reloads, adopted, next, phase, running, ctxDone, failures,
                                       runErr, wantRestart, sessionless, signalled>>
    BY <1>3 DEF ShutdownStop
  <2>3. running[Subs[n]] # NoInst
    BY <2>1, <2>2 DEF AtTurn, Turn
  <2>4. running[Subs[n]] \in 1..Len(insts)
    BY <1>1, <2>3 DEF NoInst
  <2>q. QED
    BY <2>1, <2>2, <2>4 DEF Tells
<1>q. QED
  BY <1>2, <1>3

\* The instances as Supervisor.stop leaves them: the one waited for is gone or outlasted its
\* drain, the others are as they were.
LeftBehind(list) ==
  /\ list \in Seq(InstT) /\ Len(list) = Len(insts)
  /\ \A j \in 1..Len(insts) :
       /\ list[j].kind = insts[j].kind /\ list[j].print = insts[j].print
       /\ list[j].key = insts[j].key /\ list[j].st = insts[j].st
       /\ list[j].cancelled = insts[j].cancelled
       /\ insts[j].overstayed => list[j].overstayed
  /\ list[stopping].st # "done" => list[stopping].overstayed

LEMMA StopReturns ==
  ASSUME InstsTyped, StopSeen \/ DrainEnds
  PROVE  stopping # NoInst /\ \E list : LeftBehind(list) /\ Stopped(list)
<1>1. stopping # NoInst /\ stopping \in 1..Len(insts) /\ insts \in Seq(InstT)
  BY DEF StopSeen, DrainEnds, InstsTyped
<1>2. CASE StopSeen
  <2>1. LeftBehind(insts) /\ Stopped(insts)
    BY <1>1, <1>2 DEF StopSeen, LeftBehind, Live
  <2>q. QED
    BY <1>1, <2>1
<1>3. CASE DrainEnds
  <2> DEFINE list == Overstays
  <2>1. Stopped(list)
    BY <1>3 DEF DrainEnds, Overstays
  <2>2. /\ list \in Seq(InstT) /\ Len(list) = Len(insts)
        /\ \A j \in 1..Len(insts) :
             /\ list[j].kind = insts[j].kind /\ list[j].print = insts[j].print
             /\ list[j].key = insts[j].key /\ list[j].st = insts[j].st
             /\ list[j].cancelled = insts[j].cancelled
             /\ list[j].overstayed = IF j = stopping THEN TRUE ELSE insts[j].overstayed
    BY <1>1, DrainMarks
  <2> HIDE DEF list
  <2>3. LeftBehind(list)
    BY <1>1, <2>2 DEF LeftBehind
  <2>q. QED
    BY <1>1, <2>1, <2>3
<1>q. QED
  BY <1>2, <1>3

\* What follows in the walk: the kind has its new instance, or none.
StopDone(list) ==
  /\ stopping # NoInst /\ stopping' = NoInst /\ rebuild' = FALSE
  /\ LeftBehind(list) /\ list[stopping].kind = Subs[at] /\ running[Subs[at]] = stopping
  /\ at \in 1..Len(Subs) /\ stopping \in 1..Len(insts)
  /\ at' = IF phase = "apply" THEN at + 1 ELSE at - 1
  /\ running' \in [Kinds -> 0..Len(insts')] /\ insts' \in Seq(InstT)
  /\ \A k \in Kinds \ {Subs[at]} : running'[k] = running[k]
  /\ \A j \in 1..Len(insts) : insts'[j] = list[j]
  /\ IF rebuild
     THEN /\ Len(insts') = Len(insts) + 1 /\ insts'[Len(insts) + 1] = Instance(Subs[at], next)
          /\ running'[Subs[at]] = Len(insts) + 1
     ELSE Len(insts') = Len(insts) /\ running'[Subs[at]] = NoInst
  /\ UNCHANGED <<rest, reloads, adopted, next, phase, ctxDone, failures, runErr, wantRestart,
                 sessionless, signalled>>

LEMMA StopFollows ==
  ASSUME WordsTyped, PlacesTyped, InstsTyped, StopSeen \/ DrainEnds
  PROVE  \E list : StopDone(list)
<1>1. PICK list : LeftBehind(list) /\ Stopped(list)
  BY StopReturns
<1>2. stopping # NoInst /\ at \in 1..Len(Subs) /\ stopping \in 1..Len(insts)
  BY StopReturns DEF PlacesTyped, InstsTyped
<1>3. running[Subs[at]] = stopping /\ Subs[at] \in Kinds /\ insts \in Seq(InstT)
      /\ running \in [Kinds -> 0..Len(insts)] /\ next \in Configs
  BY <1>2, KindsDeclared DEF InstsTyped, WordsTyped
<1>4. list[stopping].kind = Subs[at]
  BY <1>1, <1>2, <1>3 DEF InstsTyped, LeftBehind, Running
<1>5. list \in Seq(InstT) /\ Len(list) = Len(insts) /\ Len(insts) \in Nat
  BY <1>1, <1>3 DEF LeftBehind
<1>6. CASE rebuild
  <2>1. StartInst(Subs[at], list)
    BY <1>1, <1>4, <1>6 DEF Stopped
  <2>2. /\ insts' \in Seq(InstT) /\ Len(insts') = Len(list) + 1
        /\ \A i \in 1..Len(list) : insts'[i] = list[i]
        /\ insts'[Len(list) + 1] = Instance(Subs[at], next)
        /\ running' \in [Kinds -> 0..Len(insts')]
        /\ running'[Subs[at]] = Len(list) + 1
        /\ \A j \in Kinds \ {Subs[at]} : running'[j] = running[j]
    BY <1>3, <1>5, <2>1, StartAppends
  <2>q. QED
    BY <1>1, <1>2, <1>3, <1>4, <1>5, <1>6, <2>2 DEF StopDone, Stopped
<1>7. CASE ~rebuild
  <2>1. insts' = list /\ running' = [running EXCEPT ![Subs[at]] = NoInst]
    BY <1>1, <1>4, <1>7 DEF Stopped
  <2>2. running' \in [Kinds -> 0..Len(insts')] /\ running'[Subs[at]] = NoInst
        /\ \A k \in Kinds \ {Subs[at]} : running'[k] = running[k]
    BY <1>3, <1>5, <2>1 DEF NoInst
  <2>q. QED
    BY <1>1, <1>2, <1>3, <1>4, <1>5, <1>7, <2>1, <2>2 DEF StopDone, Stopped
<1>q. QED
  BY <1>6, <1>7

\* The walk starts a kind that is wanted and has no instance.
Begins(n) ==
  /\ phase = "apply" /\ AtTurn(n) /\ Starts(Subs[n]) /\ at' = n + 1
  /\ insts' \in Seq(InstT) /\ Len(insts') = Len(insts) + 1
  /\ \A i \in 1..Len(insts) : insts'[i] = insts[i]
  /\ insts'[Len(insts) + 1] = Instance(Subs[n], next)
  /\ running' \in [Kinds -> 0..Len(insts')]
  /\ running'[Subs[n]] = Len(insts) + 1
  /\ \A k \in Kinds \ {Subs[n]} : running'[k] = running[k]
  /\ UNCHANGED <<rest, reloads, adopted, next, phase, stopping, rebuild, ctxDone, failures, runErr,
                 wantRestart, sessionless, signalled>>

LEMMA StartFollows ==
  ASSUME WordsTyped, InstsTyped, ApplyStart
  PROVE  \E n \in 1..Len(Subs) : Begins(n)
<1>1. PICK n \in 1..Len(Subs) :
        AtTurn(n) /\ Starts(Subs[n]) /\ StartInst(Subs[n], insts) /\ at' = n + 1
  BY DEF ApplyStart
<1>2. Subs[n] \in Kinds /\ insts \in Seq(InstT) /\ running \in [Kinds -> 0..Len(insts)] /\ next \in Configs
  BY KindsDeclared DEF InstsTyped, WordsTyped
<1>3. /\ insts' \in Seq(InstT) /\ Len(insts') = Len(insts) + 1
      /\ \A i \in 1..Len(insts) : insts'[i] = insts[i]
      /\ insts'[Len(insts) + 1] = Instance(Subs[n], next)
      /\ running' \in [Kinds -> 0..Len(insts')]
      /\ running'[Subs[n]] = Len(insts) + 1
      /\ \A k \in Kinds \ {Subs[n]} : running'[k] = running[k]
  BY <1>1, <1>2, StartAppends
<1>q. QED
  BY <1>1, <1>3 DEF ApplyStart, Begins

-------------------------------------------------------------------------------
(* The invariant is kept. *)

\* The end of a worker, however it ends.
LEMMA WorkerEnds ==
  ASSUME ShutdownDone \/ WorkerCrash
  PROVE  /\ exit' \in {"clean", "restart", "failed"}
         /\ dispatcher' \in {"running", "pausing", "stopped"}
         /\ phase' = "down" /\ insts' = <<>> /\ running' = [k \in Kinds |-> NoInst]
         /\ reloads' = {} /\ stopping' = NoInst /\ rebuild' = FALSE /\ at' = 0
         /\ ctxDone' = FALSE /\ failures' = 0 /\ runErr' = FALSE /\ wantRestart' = FALSE
         /\ sessionless' = FALSE
         /\ UNCHANGED <<file, adopted, next, signalled, stored, lives>>
<1>1. PICK how \in {"clean", "restart", "failed"} : EndWorker(how)
  BY DEF ShutdownDone, WorkerCrash, Outcome
<1>2. exit' = how
  BY <1>1 DEF EndWorker
<1>3. dispatcher' \in {"running", "pausing", "stopped"}
  BY <1>1 DEF EndWorker
<1>4. /\ phase' = "down" /\ insts' = <<>> /\ running' = [k \in Kinds |-> NoInst]
      /\ reloads' = {} /\ stopping' = NoInst /\ rebuild' = FALSE /\ at' = 0
      /\ ctxDone' = FALSE /\ failures' = 0 /\ runErr' = FALSE /\ wantRestart' = FALSE
      /\ sessionless' = FALSE
      /\ UNCHANGED <<file, adopted, next, signalled, stored, lives>>
  BY <1>1 DEF EndWorker
<1>q. QED
  BY <1>2, <1>3, <1>4

LEMMA WordsStep == SupInv /\ [SupNext]_supVars => WordsTyped'
<1> SUFFICES ASSUME SupInv, [SupNext]_supVars PROVE WordsTyped'
  OBVIOUS
<1>0. WordsTyped
  BY DEF SupInv
<1>0a. Len(Subs) \in Nat /\ failures \in Nat
  BY <1>0, KindsDeclared DEF WordsTyped
<1>1. CASE ContextEnds
  BY <1>1, <1>0, KindsDeclared, BoundsAssumption DEF ContextEnds, rest, Idle, WordsTyped
<1>2. CASE ReadFailure
  BY <1>2, <1>0, KindsDeclared, BoundsAssumption DEF ReadFailure, rest, Idle, WordsTyped
<1>3. CASE ReadReload
  <2>0. PICK c \in reloads :
          /\ next' = c
          /\ CASE NeedsFresh(c) # {} /\ ~Resolves(c) -> UNCHANGED <<phase, at, wantRestart>>
               [] NeedsFresh(c) # {} /\ Resolves(c) /\ Restartable ->
                    wantRestart' = TRUE /\ phase' = "shutdown" /\ at' = Len(Subs)
               [] OTHER -> phase' = "apply" /\ at' = 1 /\ UNCHANGED wantRestart
    BY <1>3 DEF ReadReload
  <2>1. next' \in Configs
    BY <2>0, <1>0 DEF WordsTyped
  <2>2. wantRestart' \in BOOLEAN
    BY <2>0, <1>0 DEF WordsTyped
  <2>q. QED
    BY <1>3, <1>0, <2>1, <2>2 DEF ReadReload, rest, WordsTyped
<1>4. CASE ApplyStart
  BY <1>4, <1>0, KindsDeclared, BoundsAssumption DEF ApplyStart, rest, WordsTyped
<1>5. CASE ApplyStop
  BY <1>5, <1>0, KindsDeclared, BoundsAssumption DEF ApplyStop, rest, WordsTyped
<1>6. CASE Applied
  BY <1>6, <1>0, KindsDeclared, BoundsAssumption DEF Applied, rest, WordsTyped
<1>7. CASE StopSeen
  BY <1>7, <1>0 DEF StopSeen, Stopped, rest, WordsTyped
<1>8. CASE DrainEnds
  BY <1>8, <1>0 DEF DrainEnds, Stopped, rest, WordsTyped
<1>9. CASE ShutdownStop
  BY <1>9, <1>0, KindsDeclared, BoundsAssumption DEF ShutdownStop, rest, WordsTyped
<1>10. CASE ShutdownDone
  BY <1>10, <1>0, <1>0a, WorkerEnds DEF WordsTyped
<1>11. ASSUME NEW i \in 1..Len(insts), Fail(i) PROVE WordsTyped'
  BY <1>11, <1>0, KindsDeclared, BoundsAssumption DEF Fail, WordsTyped
<1>12. ASSUME NEW i \in 1..Len(insts), Report(i) PROVE WordsTyped'
  BY <1>12, <1>0, KindsDeclared, BoundsAssumption DEF Report, WordsTyped
<1>13. ASSUME NEW i \in 1..Len(insts), Leave(i) PROVE WordsTyped'
  BY <1>13, <1>0, KindsDeclared, BoundsAssumption DEF Leave, WordsTyped
<1>14. CASE StartWorker
  <2>1. UNCHANGED <<file, ctxDone, failures, runErr, wantRestart, stored>> /\ next' = file /\ reloads' = {}
        /\ signalled' = FALSE /\ lives' = lives + 1 /\ lives < MaxLives
    BY <1>14 DEF StartWorker
  <2>2. adopted' \in {file, adopted} /\ sessionless' \in BOOLEAN
    BY <1>14, <1>0 DEF StartWorker, WordsTyped
  <2>3. exit' \in {"none", "failed"} /\ dispatcher' \in {"running", "pausing", "stopped"}
    BY <1>14 DEF StartWorker
  <2>q. QED
    <3>1. lives' \in 0..MaxLives
      BY <2>1, <1>0, BoundsAssumption DEF WordsTyped
    <3>2. file' \in Configs /\ adopted' \in Configs /\ next' \in Configs
      BY <2>1, <2>2, <1>0 DEF WordsTyped
    <3>q. QED
      BY <2>1, <2>2, <2>3, <3>1, <3>2, <1>0 DEF WordsTyped
<1>15. CASE Signal
  BY <1>15, <1>0, KindsDeclared, BoundsAssumption DEF Signal, WordsTyped
<1>16. CASE WorkerCrash
  BY <1>16, <1>0, <1>0a, WorkerEnds DEF WordsTyped
<1>17. CASE PauseEnds
  BY <1>17, <1>0, KindsDeclared, BoundsAssumption DEF PauseEnds, supervisorVars, WordsTyped
<1>18. CASE StopDispatcher
  BY <1>18, <1>0, KindsDeclared, BoundsAssumption DEF StopDispatcher, WordsTyped
<1>19. ASSUME NEW c \in Configs, Store(c) PROVE WordsTyped'
  BY <1>19, <1>0, KindsDeclared, BoundsAssumption DEF Store, supervisorVars, WordsTyped
<1>20. CASE UNCHANGED supVars
  BY <1>20, <1>0, KindsDeclared, BoundsAssumption DEF supVars, supervisorVars, WordsTyped
<1>q. QED
  BY <1>1, <1>2, <1>3, <1>4, <1>5, <1>6, <1>7, <1>8, <1>9, <1>10, <1>11, <1>12,
     <1>13, <1>14, <1>15, <1>16, <1>17, <1>18, <1>19, <1>20
  DEF SupNext, RunStep, SurfaceStep, ProcessStep

LEMMA PlacesStep == SupInv /\ [SupNext]_supVars => PlacesTyped'
<1> SUFFICES ASSUME SupInv, [SupNext]_supVars PROVE PlacesTyped'
  OBVIOUS
<1>0. WordsTyped /\ PlacesTyped /\ InstsTyped
  BY DEF SupInv
<1>0a. Len(Subs) \in Nat \ {0} /\ Len(insts) \in Nat
  BY <1>0, KindsDeclared DEF InstsTyped
<1>1. CASE ContextEnds
  BY <1>1, <1>0, <1>0a DEF ContextEnds, rest, Idle, PlacesTyped, NoInst
<1>2. CASE ReadFailure
  BY <1>2, <1>0, <1>0a DEF ReadFailure, rest, Idle, PlacesTyped, NoInst
<1>3. CASE ReadReload
  <2>1. phase' \in {"select", "shutdown", "apply"} /\ at' \in {at, Len(Subs), 1}
    BY <1>3 DEF ReadReload, Idle
  <2>2. (phase' = "apply" => at' = 1) /\ (phase' = "shutdown" => at' = Len(Subs))
    BY <1>3 DEF ReadReload, Idle
  <2>3. phase = "select" /\ UNCHANGED <<stopping, rebuild>>
    BY <1>3 DEF ReadReload, Idle
  <2>q. QED
    BY <2>1, <2>2, <2>3, <1>0, <1>0a DEF PlacesTyped
<1>4. CASE ApplyStart
  BY <1>4, <1>0, <1>0a DEF ApplyStart, AtTurn, PlacesTyped
<1>5. CASE ApplyStop
  <2>1. PICK n \in 1..Len(Subs) : Tells(n)
    BY <1>5, <1>0, StopBegins
  <2>2. stopping' \in Nat /\ stopping' # NoInst
    BY <2>1, <1>0, <1>0a DEF Tells, BeginStop, NoInst
  <2>3. rebuild' \in BOOLEAN /\ (rebuild' => phase = "apply")
    BY <2>1 DEF Tells, Rebuilds
  <2>q. QED
    BY <2>1, <2>2, <2>3, <1>0, <1>0a DEF Tells, PlacesTyped
<1>6. CASE Applied
  BY <1>6, <1>0, <1>0a DEF Applied, rest, PlacesTyped, NoInst
<1>7. CASE StopSeen
  <2>1. PICK list : StopDone(list)
    BY <1>7, <1>0, StopFollows
  <2>q. QED
    <3>1. /\ stopping' = NoInst /\ rebuild' = FALSE /\ phase' = phase /\ at \in 1..Len(Subs)
          /\ stopping # NoInst /\ at' = IF phase = "apply" THEN at + 1 ELSE at - 1
      BY <2>1 DEF StopDone
    <3>q. QED
      <4>1. CASE phase = "apply"
        <5>1. at' = at + 1 /\ at' \in 0..(Len(Subs) + 1) /\ at' > 0
          BY <3>1, <4>1, <1>0a
        <5>q. QED
          BY <3>1, <4>1, <5>1 DEF PlacesTyped, NoInst
      <4>2. CASE phase # "apply"
        <5>1. at' = at - 1 /\ at' \in 0..(Len(Subs) + 1) /\ at' <= Len(Subs)
          BY <3>1, <4>2, <1>0a
        <5>2. phase = "shutdown"
          BY <3>1, <4>2, <1>0 DEF PlacesTyped
        <5>q. QED
          BY <3>1, <5>2, <5>1 DEF PlacesTyped, NoInst
      <4>q. QED
        BY <4>1, <4>2
<1>8. CASE DrainEnds
  <2>1. PICK list : StopDone(list)
    BY <1>8, <1>0, StopFollows
  <2>q. QED
    <3>1. /\ stopping' = NoInst /\ rebuild' = FALSE /\ phase' = phase /\ at \in 1..Len(Subs)
          /\ stopping # NoInst /\ at' = IF phase = "apply" THEN at + 1 ELSE at - 1
      BY <2>1 DEF StopDone
    <3>q. QED
      <4>1. CASE phase = "apply"
        <5>1. at' = at + 1 /\ at' \in 0..(Len(Subs) + 1) /\ at' > 0
          BY <3>1, <4>1, <1>0a
        <5>q. QED
          BY <3>1, <4>1, <5>1 DEF PlacesTyped, NoInst
      <4>2. CASE phase # "apply"
        <5>1. at' = at - 1 /\ at' \in 0..(Len(Subs) + 1) /\ at' <= Len(Subs)
          BY <3>1, <4>2, <1>0a
        <5>2. phase = "shutdown"
          BY <3>1, <4>2, <1>0 DEF PlacesTyped
        <5>q. QED
          BY <3>1, <5>2, <5>1 DEF PlacesTyped, NoInst
      <4>q. QED
        BY <4>1, <4>2
<1>9. CASE ShutdownStop
  <2>1. PICK n \in 1..Len(Subs) : Tells(n)
    BY <1>9, <1>0, StopBegins
  <2>2. stopping' \in Nat /\ stopping' # NoInst
    BY <2>1, <1>0, <1>0a DEF Tells, BeginStop, NoInst
  <2>3. rebuild' \in BOOLEAN /\ (rebuild' => phase = "apply")
    BY <2>1 DEF Tells, Rebuilds
  <2>q. QED
    BY <2>1, <2>2, <2>3, <1>0, <1>0a DEF Tells, PlacesTyped
<1>10. CASE ShutdownDone
  BY <1>10, <1>0a, WorkerEnds DEF PlacesTyped, NoInst
<1>11. ASSUME NEW i \in 1..Len(insts), Fail(i) PROVE PlacesTyped'
  BY <1>11, <1>0, <1>0a DEF Fail, PlacesTyped, NoInst
<1>12. ASSUME NEW i \in 1..Len(insts), Report(i) PROVE PlacesTyped'
  BY <1>12, <1>0, <1>0a DEF Report, PlacesTyped, NoInst
<1>13. ASSUME NEW i \in 1..Len(insts), Leave(i) PROVE PlacesTyped'
  BY <1>13, <1>0, <1>0a DEF Leave, PlacesTyped, NoInst
<1>14. CASE StartWorker
  BY <1>14, <1>0, <1>0a DEF StartWorker, PlacesTyped, NoInst
<1>15. CASE Signal
  BY <1>15, <1>0, <1>0a DEF Signal, PlacesTyped, NoInst
<1>16. CASE WorkerCrash
  BY <1>16, <1>0a, WorkerEnds DEF PlacesTyped, NoInst
<1>17. CASE PauseEnds
  BY <1>17, <1>0, <1>0a DEF PauseEnds, supervisorVars, PlacesTyped, NoInst
<1>18. CASE StopDispatcher
  BY <1>18, <1>0, <1>0a DEF StopDispatcher, PlacesTyped, NoInst
<1>19. ASSUME NEW c \in Configs, Store(c) PROVE PlacesTyped'
  BY <1>19, <1>0, <1>0a DEF Store, supervisorVars, PlacesTyped, NoInst
<1>20. CASE UNCHANGED supVars
  BY <1>20, <1>0, <1>0a DEF supVars, supervisorVars, PlacesTyped, NoInst
<1>q. QED
  BY <1>1, <1>2, <1>3, <1>4, <1>5, <1>6, <1>7, <1>8, <1>9, <1>10, <1>11, <1>12,
     <1>13, <1>14, <1>15, <1>16, <1>17, <1>18, <1>19, <1>20
  DEF SupNext, RunStep, SurfaceStep, ProcessStep

LEMMA InstsStep == SupInv /\ [SupNext]_supVars => InstsTyped'
<1> SUFFICES ASSUME SupInv, [SupNext]_supVars PROVE InstsTyped'
  OBVIOUS
<1>0. WordsTyped /\ PlacesTyped /\ InstsTyped
  BY DEF SupInv
<1>0a. Len(Subs) \in Nat \ {0} /\ Len(insts) \in Nat
  BY <1>0, KindsDeclared DEF InstsTyped
<1>1. CASE ContextEnds
  <2>1. UNCHANGED <<insts, running, stopping>> /\ phase' # "down" /\ (at' = at \/ stopping = NoInst)
    BY <1>1, <1>0 DEF ContextEnds, rest, Idle, PlacesTyped
  <2>q. QED
    BY <2>1, <1>0 DEF InstsTyped, Running
<1>2. CASE ReadFailure
  <2>1. UNCHANGED <<insts, running, stopping>> /\ phase' # "down" /\ (at' = at \/ stopping = NoInst)
    BY <1>2, <1>0 DEF ReadFailure, rest, Idle, PlacesTyped
  <2>q. QED
    BY <2>1, <1>0 DEF InstsTyped, Running
<1>3. CASE ReadReload
  <2>1. UNCHANGED <<insts, running, stopping>> /\ phase' # "down" /\ (at' = at \/ stopping = NoInst)
    BY <1>3, <1>0 DEF ReadReload, rest, Idle, PlacesTyped
  <2>q. QED
    BY <2>1, <1>0 DEF InstsTyped, Running
<1>4. CASE ApplyStart
  <2>1. PICK n \in 1..Len(Subs) : Begins(n)
    BY <1>4, <1>0, StartFollows
  <2>2. Subs[n] \in Kinds /\ next \in Configs
    BY <1>0, KindsDeclared DEF WordsTyped
  <2>3. insts'[Len(insts) + 1].kind = Subs[n]
    <3>1. Instance(Subs[n], next).kind = Subs[n]
      BY <2>2, InstanceTyped
    <3>q. QED
      BY <2>1, <3>1 DEF Begins
  <2>4. \A k \in Kinds : running'[k] # NoInst => insts'[running'[k]].kind = k
    <3> SUFFICES ASSUME NEW k \in Kinds, running'[k] # NoInst PROVE insts'[running'[k]].kind = k
      OBVIOUS
    <3>1. CASE k = Subs[n]
      BY <3>1, <2>1, <2>3 DEF Begins
    <3>2. CASE k # Subs[n]
      <4>1. running'[k] = running[k] /\ running[k] \in 1..Len(insts)
        BY <3>2, <2>1, <1>0, <1>0a DEF Begins, InstsTyped, NoInst
      <4>2. insts'[running[k]] = insts[running[k]]
        BY <4>1, <2>1 DEF Begins
      <4>q. QED
        BY <4>1, <4>2, <1>0 DEF InstsTyped, Running
    <3>q. QED
      BY <3>1, <3>2
  <2>5. phase' = "apply" /\ stopping' = NoInst
    BY <2>1 DEF Begins, AtTurn
  <2>q. QED
    BY <2>1, <2>4, <2>5 DEF Begins, InstsTyped, Running
<1>5. CASE ApplyStop
  <2>1. PICK n \in 1..Len(Subs) : Tells(n)
    BY <1>5, <1>0, StopBegins
  <2>2. /\ insts' \in Seq(InstT) /\ Len(insts') = Len(insts)
        /\ \A j \in 1..Len(insts) : SameBuild(j, insts)
    BY <2>1, <1>0, TellChanges DEF Tells, BeginStop, InstsTyped
  <2>q. QED
    BY <2>1, <2>2, <1>0, <1>0a DEF Tells, BeginStop, InstsTyped, Running, SameBuild, NoInst
<1>6. CASE Applied
  <2>1. UNCHANGED <<insts, running, stopping>> /\ phase' # "down" /\ (at' = at \/ stopping = NoInst)
    BY <1>6, <1>0 DEF Applied, rest, PlacesTyped
  <2>q. QED
    BY <2>1, <1>0 DEF InstsTyped, Running
<1>7. CASE StopSeen
  <2>1. PICK list : StopDone(list)
    BY <1>7, <1>0, StopFollows
  <2>2. Subs[at] \in Kinds /\ next \in Configs
    BY <2>1, <1>0, KindsDeclared DEF WordsTyped, StopDone
  <2>3. rebuild => insts'[Len(insts) + 1].kind = Subs[at]
    <3>1. Instance(Subs[at], next).kind = Subs[at]
      BY <2>2, InstanceTyped
    <3>q. QED
      BY <2>1, <3>1 DEF StopDone
  <2>4. \A k \in Kinds : running'[k] # NoInst => insts'[running'[k]].kind = k
    <3> SUFFICES ASSUME NEW k \in Kinds, running'[k] # NoInst PROVE insts'[running'[k]].kind = k
      OBVIOUS
    <3>1. CASE k = Subs[at]
      BY <3>1, <2>1, <2>3 DEF StopDone
    <3>2. CASE k # Subs[at]
      <4>1. running'[k] = running[k] /\ running[k] \in 1..Len(insts)
        BY <3>2, <2>1, <1>0, <1>0a DEF StopDone, InstsTyped, NoInst
      <4>2. insts'[running[k]].kind = insts[running[k]].kind
        BY <4>1, <2>1 DEF StopDone, LeftBehind
      <4>q. QED
        BY <4>1, <4>2, <1>0 DEF InstsTyped, Running
    <3>q. QED
      BY <3>1, <3>2
  <2>5. phase' # "down" /\ stopping' = NoInst
    BY <2>1, <1>0 DEF StopDone, PlacesTyped
  <2>q. QED
    BY <2>1, <2>4, <2>5 DEF StopDone, InstsTyped, Running
<1>8. CASE DrainEnds
  <2>1. PICK list : StopDone(list)
    BY <1>8, <1>0, StopFollows
  <2>2. Subs[at] \in Kinds /\ next \in Configs
    BY <2>1, <1>0, KindsDeclared DEF WordsTyped, StopDone
  <2>3. rebuild => insts'[Len(insts) + 1].kind = Subs[at]
    <3>1. Instance(Subs[at], next).kind = Subs[at]
      BY <2>2, InstanceTyped
    <3>q. QED
      BY <2>1, <3>1 DEF StopDone
  <2>4. \A k \in Kinds : running'[k] # NoInst => insts'[running'[k]].kind = k
    <3> SUFFICES ASSUME NEW k \in Kinds, running'[k] # NoInst PROVE insts'[running'[k]].kind = k
      OBVIOUS
    <3>1. CASE k = Subs[at]
      BY <3>1, <2>1, <2>3 DEF StopDone
    <3>2. CASE k # Subs[at]
      <4>1. running'[k] = running[k] /\ running[k] \in 1..Len(insts)
        BY <3>2, <2>1, <1>0, <1>0a DEF StopDone, InstsTyped, NoInst
      <4>2. insts'[running[k]].kind = insts[running[k]].kind
        BY <4>1, <2>1 DEF StopDone, LeftBehind
      <4>q. QED
        BY <4>1, <4>2, <1>0 DEF InstsTyped, Running
    <3>q. QED
      BY <3>1, <3>2
  <2>5. phase' # "down" /\ stopping' = NoInst
    BY <2>1, <1>0 DEF StopDone, PlacesTyped
  <2>q. QED
    BY <2>1, <2>4, <2>5 DEF StopDone, InstsTyped, Running
<1>9. CASE ShutdownStop
  <2>1. PICK n \in 1..Len(Subs) : Tells(n)
    BY <1>9, <1>0, StopBegins
  <2>2. /\ insts' \in Seq(InstT) /\ Len(insts') = Len(insts)
        /\ \A j \in 1..Len(insts) : SameBuild(j, insts)
    BY <2>1, <1>0, TellChanges DEF Tells, BeginStop, InstsTyped
  <2>q. QED
    BY <2>1, <2>2, <1>0, <1>0a DEF Tells, BeginStop, InstsTyped, Running, SameBuild, NoInst
<1>10. CASE ShutdownDone
  <2>1. insts' = <<>> /\ running' = [k \in Kinds |-> NoInst] /\ stopping' = NoInst
    BY <1>10, WorkerEnds
  <2>q. QED
    BY <2>1 DEF InstsTyped, Running, NoInst
<1>11. ASSUME NEW i \in 1..Len(insts), Fail(i) PROVE InstsTyped'
  <2>1. insts' = [insts EXCEPT ![i].st = "failing"]
    BY <1>11 DEF Fail
  <2>2. /\ insts' \in Seq(InstT) /\ Len(insts') = Len(insts)
        /\ \A j \in 1..Len(insts) : SameBuild(j, insts)
    BY <2>1, <1>0, StateChanges DEF InstsTyped, States
  <2>3. UNCHANGED <<at, phase, stopping, running>>
    BY <1>11 DEF Fail
  <2>q. QED
    BY <2>2, <2>3, <1>0, <1>0a DEF InstsTyped, Running, SameBuild, NoInst
<1>12. ASSUME NEW i \in 1..Len(insts), Report(i) PROVE InstsTyped'
  <2>1. insts' = [insts EXCEPT ![i].st = "done"]
    BY <1>12 DEF Report
  <2>2. /\ insts' \in Seq(InstT) /\ Len(insts') = Len(insts)
        /\ \A j \in 1..Len(insts) : SameBuild(j, insts)
    BY <2>1, <1>0, StateChanges DEF InstsTyped, States
  <2>3. UNCHANGED <<at, phase, stopping, running>>
    BY <1>12 DEF Report
  <2>q. QED
    BY <2>2, <2>3, <1>0, <1>0a DEF InstsTyped, Running, SameBuild, NoInst
<1>13. ASSUME NEW i \in 1..Len(insts), Leave(i) PROVE InstsTyped'
  <2>1. insts' = [insts EXCEPT ![i].st = "done"]
    BY <1>13 DEF Leave
  <2>2. /\ insts' \in Seq(InstT) /\ Len(insts') = Len(insts)
        /\ \A j \in 1..Len(insts) : SameBuild(j, insts)
    BY <2>1, <1>0, StateChanges DEF InstsTyped, States
  <2>3. UNCHANGED <<at, phase, stopping, running>>
    BY <1>13 DEF Leave
  <2>q. QED
    BY <2>2, <2>3, <1>0, <1>0a DEF InstsTyped, Running, SameBuild, NoInst
<1>14. CASE StartWorker
  <2>1. CASE ~Resolves(file)
    BY <1>14, <2>1, <1>0 DEF StartWorker, InstsTyped, Running
  <2>2. CASE Resolves(file)
    <3>1. /\ insts' \in Seq(InstT) /\ running' \in [Kinds -> 0..Len(insts')]
          /\ \A k \in Kinds : running'[k] # NoInst => insts'[running'[k]].kind = k
      BY <1>14, <1>0, <2>2, FirstInstances DEF StartWorker
    <3>2. phase' = "select" /\ stopping' = NoInst
      BY <1>14, <1>0, <2>2 DEF StartWorker, PlacesTyped
    <3>q. QED
      BY <3>1, <3>2 DEF InstsTyped, Running
  <2>q. QED
    BY <2>1, <2>2
<1>15. CASE Signal
  <2>1. UNCHANGED <<insts, running, stopping>> /\ phase' # "down" /\ (at' = at \/ stopping = NoInst)
    BY <1>15, <1>0 DEF Signal, PlacesTyped
  <2>q. QED
    BY <2>1, <1>0 DEF InstsTyped, Running
<1>16. CASE WorkerCrash
  <2>1. insts' = <<>> /\ running' = [k \in Kinds |-> NoInst] /\ stopping' = NoInst
    BY <1>16, WorkerEnds
  <2>q. QED
    BY <2>1 DEF InstsTyped, Running, NoInst
<1>17. CASE PauseEnds
  <2>1. UNCHANGED <<insts, running, stopping, phase, at>>
    BY <1>17 DEF PauseEnds, supervisorVars
  <2>q. QED
    BY <2>1, <1>0 DEF InstsTyped, Running
<1>18. CASE StopDispatcher
  <2>1. UNCHANGED <<insts, running, stopping, phase, at>>
    BY <1>18 DEF StopDispatcher
  <2>q. QED
    BY <2>1, <1>0 DEF InstsTyped, Running
<1>19. ASSUME NEW c \in Configs, Store(c) PROVE InstsTyped'
  <2>1. UNCHANGED <<insts, running, stopping, phase, at>>
    BY <1>19 DEF Store, supervisorVars
  <2>q. QED
    BY <2>1, <1>0 DEF InstsTyped, Running
<1>20. CASE UNCHANGED supVars
  BY <1>20, <1>0 DEF supVars, supervisorVars, InstsTyped, Running
<1>q. QED
  BY <1>1, <1>2, <1>3, <1>4, <1>5, <1>6, <1>7, <1>8, <1>9, <1>10, <1>11, <1>12,
     <1>13, <1>14, <1>15, <1>16, <1>17, <1>18, <1>19, <1>20
  DEF SupNext, RunStep, SurfaceStep, ProcessStep

LEMMA PaidStep == SupInv /\ [SupNext]_supVars => InstsPaid'
<1> SUFFICES ASSUME SupInv, [SupNext]_supVars PROVE InstsPaid'
  OBVIOUS
<1>0. WordsTyped /\ PlacesTyped /\ InstsTyped /\ InstsPaid
  BY DEF SupInv
<1>0a. Len(Subs) \in Nat \ {0} /\ Len(insts) \in Nat /\ stored \in Nat /\ at \in Nat
  BY <1>0, KindsDeclared, BoundsAssumption DEF InstsTyped, WordsTyped, PlacesTyped
<1>0b. Budget(stored) \in Nat /\ Budget(stored) >= Len(Subs)
       /\ Budget(stored + 1) = Budget(stored) + Len(Subs)
  BY <1>0a, BudgetGrows
<1>0c. Len(insts) + Waiting + Walk <= Budget(stored)
  BY <1>0 DEF InstsPaid
<1>0d. ASSUME stored' = stored, Len(insts') + Waiting' + Walk' <= Budget(stored) PROVE InstsPaid'
  BY <1>0d DEF InstsPaid, Budget
<1>0e. phase = "apply" => at \in 1..(Len(Subs) + 1)
  BY <1>0 DEF PlacesTyped
<1>0f. /\ reloads = {} => Waiting = 0
       /\ reloads # {} => Waiting = Len(Subs)
       /\ phase = "apply" => Walk = Len(Subs) + 1 - at
       /\ phase # "apply" => Walk = 0
  BY DEF Waiting, Walk
<1>0h. Waiting \in Nat /\ Walk \in Nat
  BY <1>0a, <1>0e, <1>0f
<1>0g. /\ reloads' = {} => Waiting' = 0
       /\ reloads' # {} => Waiting' = Len(Subs)
       /\ phase' = "apply" => Walk' = Len(Subs) + 1 - at'
       /\ phase' # "apply" => Walk' = 0
  BY DEF Waiting, Walk
<1>1. CASE ContextEnds
  <2>1. UNCHANGED <<insts, stored, reloads>> /\ phase' # "apply"
    BY <1>1 DEF ContextEnds, rest, Idle
  <2>q. QED
    BY <2>1, <1>0a, <1>0b, <1>0c, <1>0d, <1>0e, <1>0f, <1>0g, <1>0h
<1>2. CASE ReadFailure
  <2>1. UNCHANGED <<insts, stored, reloads, phase, at>>
    BY <1>2 DEF ReadFailure, rest, Idle
  <2>q. QED
    BY <2>1, <1>0c, <1>0d, <1>0f, <1>0g, <1>0h
<1>3. CASE ReadReload
  <2>1. UNCHANGED <<insts, stored>> /\ reloads # {} /\ reloads' = {} /\ (phase' = "apply" => at' = 1)
    BY <1>3 DEF ReadReload, rest, Idle
  <2>q. QED
    BY <2>1, <1>0a, <1>0b, <1>0c, <1>0d, <1>0e, <1>0f, <1>0g, <1>0h DEF Idle
<1>4. CASE ApplyStart
  <2>1. PICK n \in 1..Len(Subs) : Begins(n)
    BY <1>4, <1>0, StartFollows
  <2>2. /\ UNCHANGED <<phase, reloads, stored>> /\ phase = "apply"
        /\ at' = n + 1 /\ at <= n /\ n \in 1..Len(Subs) /\ Len(insts') = Len(insts) + 1
    BY <2>1 DEF Begins, rest, AtTurn, Turn
  <2>q. QED
    <3>1. Waiting' = Waiting /\ stored' = stored
      BY <2>2, <1>0f, <1>0g
    <3>2. Walk' = Len(Subs) - n /\ Walk = Len(Subs) + 1 - at
      BY <2>2, <1>0a, <1>0f, <1>0g
    <3>q. QED
      BY <2>2, <3>1, <3>2, <1>0a, <1>0b, <1>0c, <1>0d, <1>0h
<1>5. CASE ApplyStop
  <2>1. PICK n \in 1..Len(Subs) : Tells(n)
    BY <1>5, <1>0, StopBegins
  <2>2. Len(insts') = Len(insts)
    BY <2>1, <1>0, TellChanges DEF Tells, BeginStop, InstsTyped
  <2>3. UNCHANGED <<phase, reloads, stored>> /\ at' = n /\ (phase = "apply" => at <= n)
        /\ n \in 1..Len(Subs)
    BY <2>1 DEF Tells, rest, AtTurn, Turn
  <2>q. QED
    <3>1. Waiting' = Waiting
      BY <2>2, <2>3, <1>0f, <1>0g
    <3>2. Len(insts') + Walk' <= Len(insts) + Walk
      <4>1. CASE phase = "apply"
        BY <4>1, <2>2, <2>3, <1>0a, <1>0e, <1>0f, <1>0g
      <4>2. CASE phase # "apply"
        BY <4>2, <2>2, <2>3, <1>0a, <1>0f, <1>0g
      <4>q. QED
        BY <4>1, <4>2
    <3>3. Len(insts') \in Nat /\ Walk' \in Int /\ stored' = stored
      BY <2>2, <2>3, <1>0a, <1>0e, <1>0f, <1>0g
    <3>q. QED
      BY <3>1, <3>2, <3>3, <1>0a, <1>0b, <1>0c, <1>0d, <1>0h
<1>6. CASE Applied
  <2>1. UNCHANGED <<insts, stored, reloads>> /\ phase' # "apply"
    BY <1>6 DEF Applied, rest
  <2>q. QED
    BY <2>1, <1>0a, <1>0b, <1>0c, <1>0d, <1>0e, <1>0f, <1>0g, <1>0h
<1>7. CASE StopSeen
  <2>1. PICK list : StopDone(list)
    BY <1>7, <1>0, StopFollows
  <2>2. /\ UNCHANGED <<phase, reloads, stored>> /\ at' = (IF phase = "apply" THEN at + 1 ELSE at - 1)
        /\ Len(insts') = (IF rebuild THEN Len(insts) + 1 ELSE Len(insts))
    BY <2>1 DEF StopDone, rest
  <2>3. rebuild => phase = "apply"
    BY <1>0 DEF PlacesTyped
  <2>q. QED
    <3>1. Waiting' = Waiting
      BY <2>2, <2>3, <1>0f, <1>0g
    <3>2. Len(insts') + Walk' <= Len(insts) + Walk
      <4>1. CASE phase = "apply"
        BY <4>1, <2>2, <2>3, <1>0a, <1>0e, <1>0f, <1>0g
      <4>2. CASE phase # "apply"
        BY <4>2, <2>2, <2>3, <1>0a, <1>0f, <1>0g
      <4>q. QED
        BY <4>1, <4>2
    <3>3. Len(insts') \in Nat /\ Walk' \in Int /\ stored' = stored
      BY <2>2, <2>3, <1>0a, <1>0e, <1>0f, <1>0g
    <3>q. QED
      BY <3>1, <3>2, <3>3, <1>0a, <1>0b, <1>0c, <1>0d, <1>0h
<1>8. CASE DrainEnds
  <2>1. PICK list : StopDone(list)
    BY <1>8, <1>0, StopFollows
  <2>2. /\ UNCHANGED <<phase, reloads, stored>> /\ at' = (IF phase = "apply" THEN at + 1 ELSE at - 1)
        /\ Len(insts') = (IF rebuild THEN Len(insts) + 1 ELSE Len(insts))
    BY <2>1 DEF StopDone, rest
  <2>3. rebuild => phase = "apply"
    BY <1>0 DEF PlacesTyped
  <2>q. QED
    <3>1. Waiting' = Waiting
      BY <2>2, <2>3, <1>0f, <1>0g
    <3>2. Len(insts') + Walk' <= Len(insts) + Walk
      <4>1. CASE phase = "apply"
        BY <4>1, <2>2, <2>3, <1>0a, <1>0e, <1>0f, <1>0g
      <4>2. CASE phase # "apply"
        BY <4>2, <2>2, <2>3, <1>0a, <1>0f, <1>0g
      <4>q. QED
        BY <4>1, <4>2
    <3>3. Len(insts') \in Nat /\ Walk' \in Int /\ stored' = stored
      BY <2>2, <2>3, <1>0a, <1>0e, <1>0f, <1>0g
    <3>q. QED
      BY <3>1, <3>2, <3>3, <1>0a, <1>0b, <1>0c, <1>0d, <1>0h
<1>9. CASE ShutdownStop
  <2>1. PICK n \in 1..Len(Subs) : Tells(n)
    BY <1>9, <1>0, StopBegins
  <2>2. Len(insts') = Len(insts)
    BY <2>1, <1>0, TellChanges DEF Tells, BeginStop, InstsTyped
  <2>3. UNCHANGED <<phase, reloads, stored>> /\ at' = n /\ (phase = "apply" => at <= n)
        /\ n \in 1..Len(Subs)
    BY <2>1 DEF Tells, rest, AtTurn, Turn
  <2>q. QED
    <3>1. Waiting' = Waiting
      BY <2>2, <2>3, <1>0f, <1>0g
    <3>2. Len(insts') + Walk' <= Len(insts) + Walk
      <4>1. CASE phase = "apply"
        BY <4>1, <2>2, <2>3, <1>0a, <1>0e, <1>0f, <1>0g
      <4>2. CASE phase # "apply"
        BY <4>2, <2>2, <2>3, <1>0a, <1>0f, <1>0g
      <4>q. QED
        BY <4>1, <4>2
    <3>3. Len(insts') \in Nat /\ Walk' \in Int /\ stored' = stored
      BY <2>2, <2>3, <1>0a, <1>0e, <1>0f, <1>0g
    <3>q. QED
      BY <3>1, <3>2, <3>3, <1>0a, <1>0b, <1>0c, <1>0d, <1>0h
<1>10. CASE ShutdownDone
  <2>1. insts' = <<>> /\ phase' = "down" /\ reloads' = {} /\ stored' = stored
    BY <1>10, WorkerEnds
  <2>2. Len(insts') = 0
    BY <2>1
  <2>q. QED
    BY <2>1, <2>2, <1>0a, <1>0b, <1>0d, <1>0f, <1>0g, <1>0h
<1>11. ASSUME NEW i \in 1..Len(insts), Fail(i) PROVE InstsPaid'
  <2>1. insts' = [insts EXCEPT ![i].st = "failing"]
    BY <1>11 DEF Fail
  <2>2. Len(insts') = Len(insts)
    BY <2>1, <1>0, StateChanges DEF InstsTyped, States
  <2>3. UNCHANGED <<at, phase, reloads, stored>>
    BY <1>11 DEF Fail
  <2>q. QED
    BY <2>2, <2>3, <1>0c, <1>0d, <1>0f, <1>0g, <1>0h
<1>12. ASSUME NEW i \in 1..Len(insts), Report(i) PROVE InstsPaid'
  <2>1. insts' = [insts EXCEPT ![i].st = "done"]
    BY <1>12 DEF Report
  <2>2. Len(insts') = Len(insts)
    BY <2>1, <1>0, StateChanges DEF InstsTyped, States
  <2>3. UNCHANGED <<at, phase, reloads, stored>>
    BY <1>12 DEF Report
  <2>q. QED
    BY <2>2, <2>3, <1>0c, <1>0d, <1>0f, <1>0g, <1>0h
<1>13. ASSUME NEW i \in 1..Len(insts), Leave(i) PROVE InstsPaid'
  <2>1. insts' = [insts EXCEPT ![i].st = "done"]
    BY <1>13 DEF Leave
  <2>2. Len(insts') = Len(insts)
    BY <2>1, <1>0, StateChanges DEF InstsTyped, States
  <2>3. UNCHANGED <<at, phase, reloads, stored>>
    BY <1>13 DEF Leave
  <2>q. QED
    BY <2>2, <2>3, <1>0c, <1>0d, <1>0f, <1>0g, <1>0h
<1>14. CASE StartWorker
  <2>1. CASE ~Resolves(file)
    <3>1. UNCHANGED <<insts, phase, stored>> /\ reloads' = {} /\ phase = "down"
      BY <1>14, <2>1 DEF StartWorker
    <3>q. QED
      BY <3>1, <1>0a, <1>0b, <1>0c, <1>0d, <1>0f, <1>0g, <1>0h
  <2>2. CASE Resolves(file)
    <3>1. Len(insts') \in 0..Len(Subs)
      BY <1>14, <1>0, <2>2, FirstInstances DEF StartWorker
    <3>2. phase' = "select" /\ reloads' = {} /\ stored' = stored
      BY <1>14, <2>2 DEF StartWorker
    <3>q. QED
      BY <3>1, <3>2, <1>0a, <1>0b, <1>0d, <1>0f, <1>0g, <1>0h
  <2>q. QED
    BY <2>1, <2>2
<1>15. CASE Signal
  <2>1. UNCHANGED <<insts, stored, reloads, phase, at>>
    BY <1>15 DEF Signal
  <2>q. QED
    BY <2>1, <1>0c, <1>0d, <1>0f, <1>0g, <1>0h
<1>16. CASE WorkerCrash
  <2>1. insts' = <<>> /\ phase' = "down" /\ reloads' = {} /\ stored' = stored
    BY <1>16, WorkerEnds
  <2>2. Len(insts') = 0
    BY <2>1
  <2>q. QED
    BY <2>1, <2>2, <1>0a, <1>0b, <1>0d, <1>0f, <1>0g, <1>0h
<1>17. CASE PauseEnds
  <2>1. UNCHANGED <<insts, stored, reloads, phase, at>>
    BY <1>17 DEF PauseEnds, supervisorVars
  <2>q. QED
    BY <2>1, <1>0c, <1>0d, <1>0f, <1>0g, <1>0h
<1>18. CASE StopDispatcher
  <2>1. UNCHANGED <<insts, stored, reloads, phase, at>>
    BY <1>18 DEF StopDispatcher
  <2>q. QED
    BY <2>1, <1>0c, <1>0d, <1>0f, <1>0g, <1>0h
<1>19. ASSUME NEW c \in Configs, Store(c) PROVE InstsPaid'
  <2>1. UNCHANGED <<insts, phase, at>> /\ stored' = stored + 1 /\ Waiting' <= Waiting + Len(Subs)
    BY <1>19, <1>0a, <1>0f, <1>0g, <1>0h DEF Store, supervisorVars
  <2>2. Len(insts') + Waiting' + Walk' <= Budget(stored + 1)
    BY <2>1, <1>0a, <1>0b, <1>0c, <1>0e, <1>0f, <1>0g, <1>0h
  <2>q. QED
    BY <2>1, <2>2 DEF InstsPaid, Budget
<1>20. CASE UNCHANGED supVars
  <2>1. UNCHANGED <<insts, stored, reloads, phase, at>>
    BY <1>20 DEF supVars, supervisorVars
  <2>q. QED
    BY <2>1, <1>0c, <1>0d, <1>0f, <1>0g, <1>0h
<1>q. QED
  BY <1>1, <1>2, <1>3, <1>4, <1>5, <1>6, <1>7, <1>8, <1>9, <1>10, <1>11, <1>12,
     <1>13, <1>14, <1>15, <1>16, <1>17, <1>18, <1>19, <1>20
  DEF SupNext, RunStep, SurfaceStep, ProcessStep

\* What is said of the instances that are at work.
HandedOver == NoneLost /\ StopsWatched /\ TwinsOutlastedTheDrain

\* Supervisor.stop hands the kind over: the instance it waited for is gone, or has outlasted
\* its drain, before the next one of its kind is there.
LEMMA StopHandsOver ==
  ASSUME WordsTyped, InstsTyped, HandedOver, NEW list, StopDone(list)
  PROVE  HandedOver'
<1> DEFINE k == Subs[at]
<1> DEFINE l == Len(insts) + 1
<1>1. /\ k \in Kinds /\ running[k] = stopping /\ stopping \in 1..Len(insts) /\ stopping' = NoInst
      /\ Len(insts) \in Nat /\ next \in Configs /\ stopping # NoInst
  BY KindsDeclared DEF StopDone, InstsTyped, WordsTyped
<1>2. \A j \in 1..Len(insts) :
        /\ insts'[j].kind = insts[j].kind /\ insts'[j].st = insts[j].st
        /\ insts'[j].cancelled = insts[j].cancelled
        /\ insts[j].overstayed => insts'[j].overstayed
  BY DEF StopDone, LeftBehind
<1>3. insts'[stopping].st # "done" => insts'[stopping].overstayed
  BY <1>1 DEF StopDone, LeftBehind
<1>4. \A j \in Kinds \ {k} : running'[j] = running[j]
  BY DEF StopDone
<1>5. rebuild => Len(insts') = l /\ running'[k] = l
  BY DEF StopDone
<1>6. ~rebuild => Len(insts') = Len(insts)
  BY DEF StopDone
<1>7. rebuild => insts'[l].kind = k /\ ~insts'[l].cancelled
  <2>1. Instance(k, next).kind = k /\ Instance(k, next).cancelled = FALSE
    BY <1>1, InstanceTyped
  <2>q. QED
    BY <2>1 DEF StopDone
<1>8. \A i \in 1..Len(insts) : insts[i].kind \in Kinds
  <2>1. \A i \in 1..Len(insts) : insts[i] \in InstT
    BY DEF InstsTyped
  <2>q. QED
    BY <2>1 DEF InstT
<1>9. \A i \in 1..Len(insts) : insts[i].cancelled /\ insts'[i].st # "done" => insts'[i].overstayed
  BY <1>2, <1>3 DEF HandedOver, StopsWatched, Live
<1>10. \A i \in 1..Len(insts) : insts[i].kind = k /\ insts'[i].st # "done" => insts[i].cancelled
  <2> SUFFICES ASSUME NEW i \in 1..Len(insts), insts[i].kind = k, insts[i].st # "done", ~insts[i].cancelled
               PROVE  FALSE
    BY <1>2
  <2>1. running[k] = i
    BY DEF HandedOver, NoneLost, Live
  <2>2. i = stopping
    BY <2>1, <1>1
  <2>q. QED
    BY <2>2, <1>1 DEF HandedOver, StopsWatched
<1>11. \A i \in 1..Len(insts') : i \in 1..Len(insts) \/ (rebuild /\ i = l)
  <2>0. \A i \in 1..l : i \in 1..Len(insts) \/ i = l
    BY <1>1
  <2> HIDE DEF l
  <2> SUFFICES ASSUME NEW i \in 1..Len(insts') PROVE i \in 1..Len(insts) \/ (rebuild /\ i = l)
    OBVIOUS
  <2>1. CASE rebuild
    <3>1. Len(insts') = l
      BY <1>5, <2>1
    <3>2. i \in 1..Len(insts) \/ i = l
      BY <2>0, <3>1
    <3>q. QED
      BY <2>1, <3>2
  <2>2. CASE ~rebuild
    <3>1. Len(insts') = Len(insts)
      BY <1>6, <2>2
    <3>q. QED
      BY <3>1
  <2>q. QED
    BY <2>1, <2>2
<1> HIDE DEF k, l
<1>12. NoneLost'
  <2> SUFFICES ASSUME NEW i \in 1..Len(insts'), insts'[i].st # "done", ~insts'[i].cancelled
               PROVE  running'[insts'[i].kind] = i
    BY DEF NoneLost, Live
  <2>1. CASE i \in 1..Len(insts)
    <3>1. insts[i].kind # k
      BY <2>1, <1>2, <1>10
    <3>2. running[insts[i].kind] = i
      BY <2>1, <1>2 DEF HandedOver, NoneLost, Live
    <3>q. QED
      BY <2>1, <3>1, <3>2, <1>2, <1>4, <1>8
  <2>2. CASE rebuild /\ i = l
    BY <2>2, <1>5, <1>7
  <2>q. QED
    BY <2>1, <2>2, <1>11
<1>13. StopsWatched'
  <2> SUFFICES ASSUME NEW i \in 1..Len(insts'), insts'[i].cancelled, insts'[i].st # "done"
               PROVE  insts'[i].overstayed
    BY <1>1 DEF StopsWatched, Live
  <2>q. QED
    BY <1>2, <1>7, <1>9, <1>11
<1>14. TwinsOutlastedTheDrain'
  <2> SUFFICES ASSUME NEW i \in 1..Len(insts'), NEW j \in 1..Len(insts'), i < j,
                      insts'[i].kind = insts'[j].kind,
                      insts'[i].st # "done", insts'[j].st # "done"
               PROVE  insts'[i].overstayed
    BY DEF TwinsOutlastedTheDrain, Live
  <2>1. i \in 1..Len(insts)
    BY <1>1, <1>11 DEF l
  <2>2. CASE j \in 1..Len(insts)
    BY <2>1, <2>2, <1>2 DEF HandedOver, TwinsOutlastedTheDrain, Live
  <2>3. CASE rebuild /\ j = l
    BY <2>1, <2>3, <1>2, <1>7, <1>9, <1>10
  <2>q. QED
    BY <2>2, <2>3, <1>11
<1>q. QED
  BY <1>12, <1>13, <1>14 DEF HandedOver

LEMMA HandoverStep == SupInv /\ [SupNext]_supVars => HandedOver'
<1> SUFFICES ASSUME SupInv, [SupNext]_supVars PROVE HandedOver'
  OBVIOUS
<1>0. WordsTyped /\ PlacesTyped /\ InstsTyped /\ HandedOver
  BY DEF SupInv, HandedOver
<1>0a. Len(insts) \in Nat
  BY <1>0 DEF InstsTyped
<1>1. CASE ContextEnds
  <2>1. UNCHANGED <<insts, running, stopping>>
    BY <1>1 DEF ContextEnds, rest, Idle
  <2>q. QED
    BY <2>1, <1>0 DEF HandedOver, NoneLost, StopsWatched, TwinsOutlastedTheDrain, Live
<1>2. CASE ReadFailure
  <2>1. UNCHANGED <<insts, running, stopping>>
    BY <1>2 DEF ReadFailure, rest, Idle
  <2>q. QED
    BY <2>1, <1>0 DEF HandedOver, NoneLost, StopsWatched, TwinsOutlastedTheDrain, Live
<1>3. CASE ReadReload
  <2>1. UNCHANGED <<insts, running, stopping>>
    BY <1>3 DEF ReadReload, rest, Idle
  <2>q. QED
    BY <2>1, <1>0 DEF HandedOver, NoneLost, StopsWatched, TwinsOutlastedTheDrain, Live
<1>4. CASE ApplyStart
  <2>1. PICK n \in 1..Len(Subs) : Begins(n)
    BY <1>4, <1>0, StartFollows
  <2> DEFINE k == Subs[n]
  <2> DEFINE l == Len(insts) + 1
  <2>2. k \in Kinds /\ running[k] = NoInst /\ stopping = NoInst /\ stopping' = NoInst
    BY <2>1, KindsDeclared DEF Begins, Starts, AtTurn
  <2>3. /\ Len(insts') = l /\ \A i \in 1..Len(insts) : insts'[i] = insts[i]
        /\ running'[k] = l /\ \A j \in Kinds \ {k} : running'[j] = running[j]
    BY <2>1 DEF Begins
  <2>4. insts'[l].kind = k /\ ~insts'[l].cancelled
    <3>1. Instance(k, next).kind = k /\ Instance(k, next).cancelled = FALSE
      BY <2>2, <1>0, InstanceTyped DEF WordsTyped
    <3>q. QED
      BY <2>1, <3>1 DEF Begins
  <2>5. \A i \in 1..Len(insts) : insts[i].kind \in Kinds
    <3>1. \A i \in 1..Len(insts) : insts[i] \in InstT
      BY <1>0 DEF InstsTyped
    <3>q. QED
      BY <3>1 DEF InstT
  <2>6. \A i \in 1..Len(insts) : insts[i].kind = k /\ Live(i) => insts[i].cancelled /\ insts[i].overstayed
    BY <2>2, <1>0, <1>0a DEF HandedOver, NoneLost, StopsWatched, NoInst
  <2> HIDE DEF k, l
  <2>7. NoneLost'
    <3> SUFFICES ASSUME NEW i \in 1..Len(insts'), insts'[i].st # "done", ~insts'[i].cancelled
                 PROVE  running'[insts'[i].kind] = i
      BY DEF NoneLost, Live
    <3>1. CASE i = l
      BY <3>1, <2>3, <2>4
    <3>2. CASE i # l
      <4>1. i \in 1..Len(insts) /\ insts'[i] = insts[i]
        BY <3>2, <2>3, <1>0a DEF l
      <4>2. insts[i].kind # k
        BY <4>1, <2>6 DEF Live
      <4>3. running[insts[i].kind] = i
        BY <4>1, <1>0 DEF HandedOver, NoneLost, Live
      <4>q. QED
        BY <4>1, <4>2, <4>3, <2>3, <2>5
    <3>q. QED
      BY <3>1, <3>2
  <2>8. StopsWatched'
    <3> SUFFICES ASSUME NEW i \in 1..Len(insts'), insts'[i].cancelled, insts'[i].st # "done"
                 PROVE  insts'[i].overstayed
      BY <2>2 DEF StopsWatched, Live
    <3>1. i # l
      BY <2>4
    <3>2. i \in 1..Len(insts) /\ insts'[i] = insts[i]
      BY <3>1, <2>3, <1>0a DEF l
    <3>q. QED
      BY <3>2, <2>2, <1>0, <1>0a DEF HandedOver, StopsWatched, Live, NoInst
  <2>9. TwinsOutlastedTheDrain'
    <3> SUFFICES ASSUME NEW i \in 1..Len(insts'), NEW j \in 1..Len(insts'), i < j,
                        insts'[i].kind = insts'[j].kind,
                        insts'[i].st # "done", insts'[j].st # "done"
                 PROVE  insts'[i].overstayed
      BY DEF TwinsOutlastedTheDrain, Live
    <3>1. i \in 1..Len(insts) /\ insts'[i] = insts[i]
      BY <2>3, <1>0a DEF l
    <3>2. CASE j = l
      BY <3>1, <3>2, <2>4, <2>6 DEF Live
    <3>3. CASE j # l
      <4>1. j \in 1..Len(insts) /\ insts'[j] = insts[j]
        BY <3>3, <2>3, <1>0a DEF l
      <4>q. QED
        BY <3>1, <4>1, <1>0 DEF HandedOver, TwinsOutlastedTheDrain, Live
    <3>q. QED
      BY <3>2, <3>3
  <2>q. QED
    BY <2>7, <2>8, <2>9 DEF HandedOver
<1>5. CASE ApplyStop
  <2>1. PICK n \in 1..Len(Subs) : Tells(n)
    BY <1>5, <1>0, StopBegins
  <2>2. /\ stopping = NoInst /\ running' = running
        /\ stopping' = running[Subs[n]] /\ stopping' \in 1..Len(insts)
    BY <2>1 DEF Tells, BeginStop, AtTurn
  <2>3. /\ Len(insts') = Len(insts)
        /\ \A j \in 1..Len(insts) :
             /\ insts'[j].kind = insts[j].kind /\ insts'[j].st = insts[j].st
             /\ insts'[j].overstayed = insts[j].overstayed
             /\ j = stopping' => insts'[j].cancelled = TRUE
             /\ j # stopping' => insts'[j].cancelled = insts[j].cancelled
    <3> DEFINE i == running[Subs[n]]
    <3>1. insts' = [insts EXCEPT ![i].cancelled = TRUE] /\ i \in 1..Len(insts) /\ i = stopping'
      BY <2>1, <2>2 DEF Tells, BeginStop
    <3> HIDE DEF i
    <3>2. /\ Len(insts') = Len(insts)
          /\ \A j \in 1..Len(insts) :
               /\ SameBuild(j, insts) /\ insts'[j].st = insts[j].st
               /\ insts'[j].overstayed = insts[j].overstayed
               /\ insts'[j].cancelled = IF j = i THEN TRUE ELSE insts[j].cancelled
      BY <3>1, <1>0, TellChanges DEF InstsTyped
    <3>q. QED
      BY <3>1, <3>2 DEF SameBuild
  <2>4. NoneLost'
    BY <2>2, <2>3, <1>0 DEF HandedOver, NoneLost, Live
  <2>5. StopsWatched'
    <3>1. insts'[stopping'].cancelled
      BY <2>2, <2>3
    <3>2. ASSUME NEW i \in 1..Len(insts'), insts'[i].cancelled, insts'[i].st # "done", i # stopping'
          PROVE  insts'[i].overstayed
      <4>1. i \in 1..Len(insts) /\ i # stopping /\ insts[i].cancelled /\ insts[i].st # "done"
        BY <3>2, <2>2, <2>3, <1>0a DEF NoInst
      <4>q. QED
        BY <4>1, <2>3, <1>0 DEF HandedOver, StopsWatched, Live
    <3>q. QED
      BY <3>1, <3>2 DEF StopsWatched, Live
  <2>6. TwinsOutlastedTheDrain'
    BY <2>2, <2>3, <1>0 DEF HandedOver, TwinsOutlastedTheDrain, Live
  <2>q. QED
    BY <2>4, <2>5, <2>6 DEF HandedOver
<1>6. CASE Applied
  <2>1. UNCHANGED <<insts, running, stopping>>
    BY <1>6 DEF Applied, rest
  <2>q. QED
    BY <2>1, <1>0 DEF HandedOver, NoneLost, StopsWatched, TwinsOutlastedTheDrain, Live
<1>7. CASE StopSeen
  <2>1. PICK list : StopDone(list)
    BY <1>7, <1>0, StopFollows
  <2>q. QED
    BY <1>0, <2>1, StopHandsOver
<1>8. CASE DrainEnds
  <2>1. PICK list : StopDone(list)
    BY <1>8, <1>0, StopFollows
  <2>q. QED
    BY <1>0, <2>1, StopHandsOver
<1>9. CASE ShutdownStop
  <2>1. PICK n \in 1..Len(Subs) : Tells(n)
    BY <1>9, <1>0, StopBegins
  <2>2. /\ stopping = NoInst /\ running' = running
        /\ stopping' = running[Subs[n]] /\ stopping' \in 1..Len(insts)
    BY <2>1 DEF Tells, BeginStop, AtTurn
  <2>3. /\ Len(insts') = Len(insts)
        /\ \A j \in 1..Len(insts) :
             /\ insts'[j].kind = insts[j].kind /\ insts'[j].st = insts[j].st
             /\ insts'[j].overstayed = insts[j].overstayed
             /\ j = stopping' => insts'[j].cancelled = TRUE
             /\ j # stopping' => insts'[j].cancelled = insts[j].cancelled
    <3> DEFINE i == running[Subs[n]]
    <3>1. insts' = [insts EXCEPT ![i].cancelled = TRUE] /\ i \in 1..Len(insts) /\ i = stopping'
      BY <2>1, <2>2 DEF Tells, BeginStop
    <3> HIDE DEF i
    <3>2. /\ Len(insts') = Len(insts)
          /\ \A j \in 1..Len(insts) :
               /\ SameBuild(j, insts) /\ insts'[j].st = insts[j].st
               /\ insts'[j].overstayed = insts[j].overstayed
               /\ insts'[j].cancelled = IF j = i THEN TRUE ELSE insts[j].cancelled
      BY <3>1, <1>0, TellChanges DEF InstsTyped
    <3>q. QED
      BY <3>1, <3>2 DEF SameBuild
  <2>4. NoneLost'
    BY <2>2, <2>3, <1>0 DEF HandedOver, NoneLost, Live
  <2>5. StopsWatched'
    <3>1. insts'[stopping'].cancelled
      BY <2>2, <2>3
    <3>2. ASSUME NEW i \in 1..Len(insts'), insts'[i].cancelled, insts'[i].st # "done", i # stopping'
          PROVE  insts'[i].overstayed
      <4>1. i \in 1..Len(insts) /\ i # stopping /\ insts[i].cancelled /\ insts[i].st # "done"
        BY <3>2, <2>2, <2>3, <1>0a DEF NoInst
      <4>q. QED
        BY <4>1, <2>3, <1>0 DEF HandedOver, StopsWatched, Live
    <3>q. QED
      BY <3>1, <3>2 DEF StopsWatched, Live
  <2>6. TwinsOutlastedTheDrain'
    BY <2>2, <2>3, <1>0 DEF HandedOver, TwinsOutlastedTheDrain, Live
  <2>q. QED
    BY <2>4, <2>5, <2>6 DEF HandedOver
<1>10. CASE ShutdownDone
  <2>1. insts' = <<>> /\ stopping' = NoInst
    BY <1>10, WorkerEnds
  <2>q. QED
    BY <2>1 DEF HandedOver, NoneLost, StopsWatched, TwinsOutlastedTheDrain
<1>11. ASSUME NEW i \in 1..Len(insts), Fail(i) PROVE HandedOver'
  <2>1. UNCHANGED <<running, stopping>>
    BY <1>11 DEF Fail
  <2>2. /\ Len(insts') = Len(insts)
        /\ \A j \in 1..Len(insts) :
             /\ insts'[j].kind = insts[j].kind /\ insts'[j].cancelled = insts[j].cancelled
             /\ insts'[j].overstayed = insts[j].overstayed
             /\ insts'[j].st # "done" => insts[j].st # "done"
    <3>1. insts' = [insts EXCEPT ![i].st = "failing"]
      BY <1>11 DEF Fail
    <3>2. insts[i].st # "done"
      BY <1>11 DEF Fail
    <3>q. QED
      BY <3>1, <3>2, <1>0, StateChanges DEF InstsTyped, States, SameBuild
  <2>3. stopping # NoInst => stopping \in 1..Len(insts)
    BY <1>0 DEF InstsTyped
  <2>q. QED
    BY <2>1, <2>2, <2>3, <1>0 DEF HandedOver, NoneLost, StopsWatched, TwinsOutlastedTheDrain, Live
<1>12. ASSUME NEW i \in 1..Len(insts), Report(i) PROVE HandedOver'
  <2>1. UNCHANGED <<running, stopping>>
    BY <1>12 DEF Report
  <2>2. /\ Len(insts') = Len(insts)
        /\ \A j \in 1..Len(insts) :
             /\ insts'[j].kind = insts[j].kind /\ insts'[j].cancelled = insts[j].cancelled
             /\ insts'[j].overstayed = insts[j].overstayed
             /\ insts'[j].st # "done" => insts[j].st # "done"
    <3>1. insts' = [insts EXCEPT ![i].st = "done"]
      BY <1>12 DEF Report
    <3>2. insts[i].st # "done"
      BY <1>12 DEF Report
    <3>q. QED
      BY <3>1, <3>2, <1>0, StateChanges DEF InstsTyped, States, SameBuild
  <2>3. stopping # NoInst => stopping \in 1..Len(insts)
    BY <1>0 DEF InstsTyped
  <2>q. QED
    BY <2>1, <2>2, <2>3, <1>0 DEF HandedOver, NoneLost, StopsWatched, TwinsOutlastedTheDrain, Live
<1>13. ASSUME NEW i \in 1..Len(insts), Leave(i) PROVE HandedOver'
  <2>1. UNCHANGED <<running, stopping>>
    BY <1>13 DEF Leave
  <2>2. /\ Len(insts') = Len(insts)
        /\ \A j \in 1..Len(insts) :
             /\ insts'[j].kind = insts[j].kind /\ insts'[j].cancelled = insts[j].cancelled
             /\ insts'[j].overstayed = insts[j].overstayed
             /\ insts'[j].st # "done" => insts[j].st # "done"
    <3>1. insts' = [insts EXCEPT ![i].st = "done"]
      BY <1>13 DEF Leave
    <3>2. insts[i].st # "done"
      BY <1>13 DEF Leave
    <3>q. QED
      BY <3>1, <3>2, <1>0, StateChanges DEF InstsTyped, States, SameBuild
  <2>3. stopping # NoInst => stopping \in 1..Len(insts)
    BY <1>0 DEF InstsTyped
  <2>q. QED
    BY <2>1, <2>2, <2>3, <1>0 DEF HandedOver, NoneLost, StopsWatched, TwinsOutlastedTheDrain, Live
<1>14. CASE StartWorker
  <2>1. CASE ~Resolves(file)
    <3>1. UNCHANGED <<insts, running, stopping>>
      BY <1>14, <2>1 DEF StartWorker
    <3>q. QED
      BY <3>1, <1>0 DEF HandedOver, NoneLost, StopsWatched, TwinsOutlastedTheDrain, Live
  <2>2. CASE Resolves(file)
    <3>1. Len(insts') \in Nat /\ \A n \in 1..Len(insts') : running'[insts'[n].kind] = n /\ ~insts'[n].cancelled
      BY <1>14, <1>0, <2>2, FirstInstances DEF StartWorker
    <3>2. stopping' = NoInst
      BY <1>14, <2>2, <1>0 DEF StartWorker, PlacesTyped
    <3>q. QED
      BY <3>1, <3>2 DEF HandedOver, NoneLost, StopsWatched, TwinsOutlastedTheDrain, Live
  <2>q. QED
    BY <2>1, <2>2
<1>15. CASE Signal
  <2>1. UNCHANGED <<insts, running, stopping>>
    BY <1>15 DEF Signal
  <2>q. QED
    BY <2>1, <1>0 DEF HandedOver, NoneLost, StopsWatched, TwinsOutlastedTheDrain, Live
<1>16. CASE WorkerCrash
  <2>1. insts' = <<>> /\ stopping' = NoInst
    BY <1>16, WorkerEnds
  <2>q. QED
    BY <2>1 DEF HandedOver, NoneLost, StopsWatched, TwinsOutlastedTheDrain
<1>17. CASE PauseEnds
  <2>1. UNCHANGED <<insts, running, stopping>>
    BY <1>17 DEF PauseEnds, supervisorVars
  <2>q. QED
    BY <2>1, <1>0 DEF HandedOver, NoneLost, StopsWatched, TwinsOutlastedTheDrain, Live
<1>18. CASE StopDispatcher
  <2>1. UNCHANGED <<insts, running, stopping>>
    BY <1>18 DEF StopDispatcher
  <2>q. QED
    BY <2>1, <1>0 DEF HandedOver, NoneLost, StopsWatched, TwinsOutlastedTheDrain, Live
<1>19. ASSUME NEW c \in Configs, Store(c) PROVE HandedOver'
  <2>1. UNCHANGED <<insts, running, stopping>>
    BY <1>19 DEF Store, supervisorVars
  <2>q. QED
    BY <2>1, <1>0 DEF HandedOver, NoneLost, StopsWatched, TwinsOutlastedTheDrain, Live
<1>20. CASE UNCHANGED supVars
  <2>1. UNCHANGED <<insts, running, stopping>>
    BY <1>20 DEF supVars, supervisorVars
  <2>q. QED
    BY <2>1, <1>0 DEF HandedOver, NoneLost, StopsWatched, TwinsOutlastedTheDrain, Live
<1>q. QED
  BY <1>1, <1>2, <1>3, <1>4, <1>5, <1>6, <1>7, <1>8, <1>9, <1>10, <1>11, <1>12,
     <1>13, <1>14, <1>15, <1>16, <1>17, <1>18, <1>19, <1>20
  DEF SupNext, RunStep, SurfaceStep, ProcessStep

-------------------------------------------------------------------------------
(* The walk of applyConfig. *)

\* What was settled stays so while the instances named are built as they were.
LEMMA SettledStays ==
  ASSUME NEW c, NEW p, NEW bare, NEW run, NEW list, NEW run1, NEW list1,
         Settled(c, p, run, list, bare),
         \A n \in 1..p :
           /\ run1[Subs[n]] = run[Subs[n]]
           /\ run[Subs[n]] # NoInst =>
                /\ list1[run[Subs[n]]].key = list[run[Subs[n]]].key
                /\ list1[run[Subs[n]]].print = list[run[Subs[n]]].print
  PROVE  Settled(c, p, run1, list1, bare)
<1>1. \A n \in 1..p : Served(c, Subs[n], run1, list1, bare)
  <2> SUFFICES ASSUME NEW n \in 1..p PROVE Served(c, Subs[n], run1, list1, bare)
    OBVIOUS
  <2>1. Served(c, Subs[n], run, list, bare) /\ run1[Subs[n]] = run[Subs[n]]
    BY DEF Settled
  <2>2. run[Subs[n]] # NoInst =>
          /\ list1[run[Subs[n]]].key = list[run[Subs[n]]].key
          /\ list1[run[Subs[n]]].print = list[run[Subs[n]]].print
    OBVIOUS
  <2>q. QED
    BY <2>1, <2>2 DEF Served
<1>2. \A m, n \in 1..p : KeptOff(c, Subs[m], run1) /\ KeptOff(c, Subs[n], run1) => m = n
  BY DEF Settled, KeptOff
<1>q. QED
  BY <1>1, <1>2 DEF Settled

\* One kind more.
LEMMA SettledGrows ==
  ASSUME NEW c, NEW p \in Nat \ {0}, NEW bare, NEW run, NEW list,
         Settled(c, p - 1, run, list, bare),
         Served(c, Subs[p], run, list, bare), ~KeptOff(c, Subs[p], run)
  PROVE  Settled(c, p, run, list, bare)
<1>1. \A n \in 1..p : n \in 1..(p - 1) \/ n = p
  OBVIOUS
<1>q. QED
  BY <1>1 DEF Settled

\* The walk passes over a kind it need not act on: it is settled, and kept although it is
\* turned off only as the one surface running.
LEMMA Passed ==
  ASSUME InstsTyped, WalkSettles, phase = "apply",
         NEW p \in 1..(Len(Subs) + 1), at \in 1..p,
         \A n \in at..(p - 1) : ~Acts(Subs[n])
  PROVE  Settled(next, p - 1, running, insts, sessionless)
<1> DEFINE Off(n) == KeptOff(next, Subs[n], running)
<1>1. Len(Subs) \in Nat /\ \A n \in 1..Len(Subs) : Subs[n] \in Kinds
  BY KindsDeclared
<1>2. Settled(next, at - 1, running, insts, sessionless)
  BY DEF WalkSettles
<1>3. \A n \in 1..(p - 1) : n \in 1..Len(Subs) /\ (n \in 1..(at - 1) \/ n \in at..(p - 1))
  BY <1>1
<1>4. \A n \in at..(p - 1) : Served(next, Subs[n], running, insts, sessionless)
  <2> SUFFICES ASSUME NEW n \in at..(p - 1)
               PROVE  Served(next, Subs[n], running, insts, sessionless)
    OBVIOUS
  <2>1. ~Starts(Subs[n]) /\ ~Rebuilds(Subs[n])
    BY DEF Acts
  <2>q. QED
    BY <2>1 DEF Starts, Rebuilds, Served
<1>5. IsFiniteSet(Running)
  BY KindsDeclared, FS_Subset DEF Running
<1>6. ASSUME NEW n \in at..(p - 1), Off(n) PROVE \A x, y \in Running : x = y
  <2>1. ~StopsOff(Subs[n])
    BY DEF Acts
  <2>2. ~(Cardinality(Running) > 1)
    BY <2>1, <1>6 DEF StopsOff, KeptOff
  <2>q. QED
    BY <1>5, <2>2, OnlyOne
<1>7. \A n \in 1..(p - 1) : Off(n) => Subs[n] \in Running
  BY <1>1, <1>3 DEF KeptOff, Running
<1>8. ASSUME NEW m \in 1..(p - 1), NEW n \in 1..(p - 1), Off(m), Off(n) PROVE m = n
  <2>1. CASE m \in 1..(at - 1) /\ n \in 1..(at - 1)
    BY <2>1, <1>2, <1>8 DEF Settled
  <2>2. CASE m \in at..(p - 1) \/ n \in at..(p - 1)
    <3>1. Subs[m] = Subs[n]
      BY <2>2, <1>6, <1>7, <1>8
    <3>q. QED
      BY <3>1, <1>3, SubsAssumption
  <2>q. QED
    BY <2>1, <2>2, <1>3
<1>9. \A n \in 1..(p - 1) : Served(next, Subs[n], running, insts, sessionless)
  BY <1>2, <1>3, <1>4 DEF Settled
<1>q. QED
  BY <1>8, <1>9 DEF Settled

\* A step that leaves the supervisor where it is.
LEMMA WalkStays ==
  ASSUME PlacesTyped, InstsTyped, WalkSettles,
         UNCHANGED <<phase, at, next, adopted, stopping, rebuild, running, sessionless>>,
         \A j \in 1..Len(insts) : insts'[j].key = insts[j].key /\ insts'[j].print = insts[j].print
  PROVE  WalkSettles'
<1>1. \A n \in 1..Len(Subs) :
        running[Subs[n]] # NoInst =>
          /\ insts'[running[Subs[n]]].key = insts[running[Subs[n]]].key
          /\ insts'[running[Subs[n]]].print = insts[running[Subs[n]]].print
  <2>1. \A n \in 1..Len(Subs) : running[Subs[n]] # NoInst => running[Subs[n]] \in 1..Len(insts)
    BY KindsDeclared DEF InstsTyped, NoInst
  <2>q. QED
    BY <2>1
<1>2. CASE phase = "apply"
  <2>1. Settled(next, at - 1, running, insts, sessionless)
    BY <1>2 DEF WalkSettles
  <2>2. \A n \in 1..(at - 1) : n \in 1..Len(Subs)
    BY <1>2, KindsDeclared DEF PlacesTyped
  <2>3. Settled(next, at - 1, running, insts', sessionless)
    BY <1>1, <2>1, <2>2, SettledStays
  <2>q. QED
    BY <1>2, <2>3 DEF WalkSettles, Running
<1>3. CASE phase = "select"
  <2>1. Settled(adopted, Len(Subs), running, insts, sessionless)
    BY <1>3 DEF WalkSettles
  <2>2. Settled(adopted, Len(Subs), running, insts', sessionless)
    BY <1>1, <2>1, SettledStays
  <2>q. QED
    BY <1>3, <2>2 DEF WalkSettles, Running
<1>4. CASE phase \notin {"apply", "select"}
  BY <1>4 DEF WalkSettles
<1>q. QED
  BY <1>2, <1>3, <1>4

\* The stop is over: the kind runs as the configuration wants it, or not at all, and another
\* surface still runs.
LEMMA StopSettles ==
  ASSUME WordsTyped, PlacesTyped, InstsTyped, WalkSettles, NEW list, StopDone(list)
  PROVE  WalkSettles'
<1> DEFINE k == Subs[at]
<1>1. CASE phase # "apply"
  <2>1. phase' \notin {"apply", "select"}
    BY <1>1 DEF StopDone, PlacesTyped
  <2>q. QED
    BY <2>1 DEF WalkSettles
<1>2. CASE phase = "apply"
  <2>1. /\ at \in 1..Len(Subs) /\ k \in Kinds /\ Len(insts) \in Nat /\ Len(Subs) \in Nat
        /\ stopping # NoInst
    BY KindsDeclared DEF StopDone, InstsTyped
  <2>2. Settled(next, at - 1, running, insts, sessionless)
    BY <1>2 DEF WalkSettles
  <2>3. \A m \in 1..(at - 1) : Subs[m] # k /\ Subs[m] \in Kinds
    <3>1. \A m \in 1..(at - 1) : m \in 1..Len(Subs) /\ m # at
      BY <2>1
    <3>q. QED
      BY <2>1, <3>1, SubsAssumption, KindsDeclared
  <2>4. \A j \in 1..Len(insts) : insts'[j].key = insts[j].key /\ insts'[j].print = insts[j].print
    <3>1. \A j \in 1..Len(insts) :
            insts'[j] = list[j] /\ list[j].key = insts[j].key /\ list[j].print = insts[j].print
      BY DEF StopDone, LeftBehind
    <3>q. QED
      BY <3>1
  <2>5. \A j \in Kinds : running[j] # NoInst => running[j] \in 1..Len(insts)
    BY DEF InstsTyped, NoInst
  <2>6. \A j \in Kinds \ {k} : running'[j] = running[j]
    BY DEF StopDone
  <2>7. Settled(next, at - 1, running', insts', sessionless)
    BY <2>2, <2>3, <2>4, <2>5, <2>6, SettledStays
  <2>8. UNCHANGED <<phase, next, sessionless>> /\ stopping' = NoInst /\ ~rebuild' /\ at' = at + 1
    BY <1>2 DEF StopDone
  <2>9. Served(next, k, running', insts', sessionless) /\ ~KeptOff(next, k, running') /\ Running' # {}
    <3>1. CASE rebuild
      <4>1. running'[k] = Len(insts) + 1 /\ insts'[Len(insts) + 1] = Instance(k, next)
        BY <3>1 DEF StopDone
      <4>2. Instance(k, next).print = next.print[k]
        BY <2>1, InstanceTyped DEF WordsTyped
      <4>3. running'[k] # NoInst /\ insts'[running'[k]].print = next.print[k]
        BY <2>1, <4>1, <4>2 DEF NoInst
      <4>4. k \in next.on
        BY <1>2, <3>1 DEF WalkSettles
      <4> HIDE DEF k
      <4>5. Running' # {}
        BY <2>1, <4>3 DEF Running
      <4>q. QED
        BY <4>3, <4>4, <4>5 DEF Served, KeptOff
    <3>2. CASE ~rebuild
      <4>1. running'[k] = NoInst
        BY <3>2 DEF StopDone
      <4>2. k \notin next.on
        BY <1>2, <2>1, <3>2 DEF WalkSettles
      <4>3. PICK j \in Running : j # k
        BY <1>2, <2>1, <3>2 DEF WalkSettles
      <4> HIDE DEF k
      <4>4. j \in Running'
        BY <4>3, <2>6 DEF Running
      <4>q. QED
        BY <4>1, <4>2, <4>4 DEF Served, KeptOff
    <3>q. QED
      BY <3>1, <3>2
  <2>10. Settled(next, at, running', insts', sessionless)
    BY <2>1, <2>7, <2>9, SettledGrows
  <2>11. at' - 1 = at
    BY <2>1, <2>8
  <2>q. QED
    BY <1>2, <2>8, <2>9, <2>10, <2>11 DEF WalkSettles
<1>q. QED
  BY <1>1, <1>2

LEMMA WalkStep == SupInv /\ [SupNext]_supVars => WalkSettles'
<1> SUFFICES ASSUME SupInv, [SupNext]_supVars PROVE WalkSettles'
  OBVIOUS
<1>0. WordsTyped /\ PlacesTyped /\ InstsTyped /\ WalkSettles
  BY DEF SupInv
<1>0a. Len(Subs) \in Nat /\ Len(insts) \in Nat /\ at \in Nat
  BY <1>0, KindsDeclared DEF InstsTyped, PlacesTyped
<1>1. CASE ContextEnds
  <2>1. phase' = "shutdown"
    BY <1>1 DEF ContextEnds
  <2>q. QED
    BY <2>1 DEF WalkSettles
<1>2. CASE ReadFailure
  <2>1. UNCHANGED <<phase, at, next, adopted, stopping, rebuild, running, sessionless, insts>>
    BY <1>2 DEF ReadFailure, rest, Idle
  <2>q. QED
    BY <2>1, <1>0, WalkStays
<1>3. CASE ReadReload
  <2>1. phase' \in {"select", "shutdown", "apply"} /\ (phase' = "apply" => at' = 1)
    BY <1>3 DEF ReadReload, Idle
  <2>2. phase = "select" /\ UNCHANGED <<adopted, stopping, rebuild, insts, running, sessionless>>
    BY <1>3 DEF ReadReload, Idle, rest
  <2>3. stopping = NoInst /\ ~rebuild
    BY <2>2, <1>0 DEF PlacesTyped
  <2>4. phase' = "apply" => Settled(next', at' - 1, running', insts', sessionless')
    <3>1. phase' = "apply" => \A n : n \notin 1..(at' - 1)
      BY <2>1
    <3>q. QED
      BY <3>1 DEF Settled
  <2>q. QED
    BY <2>1, <2>2, <2>3, <2>4, <1>0 DEF WalkSettles, Running
<1>4. CASE ApplyStart
  <2>1. PICK n \in 1..Len(Subs) : Begins(n)
    BY <1>4, <1>0, StartFollows
  <2> DEFINE k == Subs[n]
  <2>2. /\ phase = "apply" /\ n \in at..Len(Subs) /\ \A m \in at..(n - 1) : ~Acts(Subs[m])
        /\ stopping = NoInst /\ k \in next.on /\ k \in Kinds
    <3>1. phase = "apply" /\ n \in Turn /\ \A m \in Turn : n <= m
      BY <2>1 DEF Begins, AtTurn
    <3>2. \A m \in at..(n - 1) : m \in at..Len(Subs) /\ ~(n <= m)
      BY <1>0a
    <3>q. QED
      BY <2>1, <3>1, <3>2, KindsDeclared DEF Begins, AtTurn, Turn, Starts
  <2>3. Settled(next, n - 1, running, insts, sessionless)
    <3>1. at \in 1..n /\ n \in 1..(Len(Subs) + 1)
      BY <2>2, <1>0, <1>0a DEF PlacesTyped
    <3>q. QED
      BY <2>2, <3>1, <1>0, Passed
  <2>4. \A m \in 1..(n - 1) : m \in 1..Len(Subs) /\ Subs[m] # k /\ Subs[m] \in Kinds
    <3>1. \A m \in 1..(n - 1) : m \in 1..Len(Subs) /\ m # n
      BY <1>0a
    <3>q. QED
      BY <3>1, SubsAssumption, KindsDeclared
  <2>5. /\ \A i \in 1..Len(insts) : insts'[i] = insts[i]
        /\ \A j \in Kinds \ {k} : running'[j] = running[j]
        /\ running'[k] = Len(insts) + 1 /\ insts'[Len(insts) + 1] = Instance(k, next)
        /\ UNCHANGED <<phase, next, adopted, stopping, rebuild, sessionless>> /\ at' = n + 1
    BY <2>1 DEF Begins, rest
  <2>6. \A j \in Kinds : running[j] # NoInst => running[j] \in 1..Len(insts)
    BY <1>0 DEF InstsTyped, NoInst
  <2>7. Instance(k, next).print = next.print[k]
    BY <2>2, <1>0, InstanceTyped DEF WordsTyped
  <2>8. running'[k] # NoInst /\ insts'[running'[k]].print = next.print[k]
    BY <2>5, <2>7, <1>0a DEF NoInst
  <2> HIDE DEF k
  <2>9. Settled(next, n - 1, running', insts', sessionless)
    BY <2>3, <2>4, <2>5, <2>6, SettledStays
  <2>10. Served(next, k, running', insts', sessionless) /\ ~KeptOff(next, k, running')
    BY <2>2, <2>8 DEF Served, KeptOff
  <2>11. Settled(next, n, running', insts', sessionless)
    BY <2>9, <2>10, SettledGrows DEF k
  <2>12. k \in Running'
    BY <2>2, <2>8 DEF Running
  <2>13. at' - 1 = n
    BY <2>5, <1>0a
  <2>14. ~rebuild
    BY <2>2, <1>0 DEF PlacesTyped
  <2>q. QED
    BY <2>2, <2>5, <2>11, <2>12, <2>13, <2>14 DEF WalkSettles
<1>5. CASE ApplyStop
  <2>1. PICK n \in 1..Len(Subs) : Tells(n)
    BY <1>5, <1>0, StopBegins
  <2>2. phase = "apply"
    BY <1>5 DEF ApplyStop
  <2>3. /\ n \in at..Len(Subs) /\ \A m \in at..(n - 1) : ~Acts(Subs[m])
        /\ Acts(Subs[n]) /\ ~Starts(Subs[n]) /\ rebuild' = Rebuilds(Subs[n])
    <3>1. n \in Turn /\ (\A m \in Turn : n <= m) /\ ~Starts(Subs[n]) /\ rebuild' = Rebuilds(Subs[n])
      BY <2>1, <2>2 DEF Tells, AtTurn
    <3>2. \A m \in at..(n - 1) : m \in at..Len(Subs) /\ ~(n <= m)
      BY <1>0a
    <3>q. QED
      BY <2>2, <3>1, <3>2 DEF Turn
  <2>4. Settled(next, n - 1, running, insts, sessionless)
    <3>1. at \in 1..n /\ n \in 1..(Len(Subs) + 1)
      BY <2>2, <2>3, <1>0, <1>0a DEF PlacesTyped
    <3>q. QED
      BY <2>2, <2>3, <3>1, <1>0, Passed
  <2>5. \A j \in 1..Len(insts) : insts'[j].key = insts[j].key /\ insts'[j].print = insts[j].print
    BY <2>1, <1>0, TellChanges DEF Tells, BeginStop, InstsTyped, SameBuild
  <2>6. \A j \in Kinds : running[j] # NoInst => running[j] \in 1..Len(insts)
    BY <1>0 DEF InstsTyped, NoInst
  <2>7. \A m \in 1..(n - 1) : Subs[m] \in Kinds
    <3>1. \A m \in 1..(n - 1) : m \in 1..Len(Subs)
      BY <1>0a
    <3>q. QED
      BY <3>1, KindsDeclared
  <2>8. Settled(next, n - 1, running, insts', sessionless)
    BY <2>4, <2>5, <2>6, <2>7, SettledStays
  <2>9. rebuild' => Subs[n] \in next.on
    BY <2>3 DEF Rebuilds
  <2>10. ASSUME ~rebuild' PROVE Subs[n] \notin next.on /\ \E k \in Running : k # Subs[n]
    <3>1. StopsOff(Subs[n])
      BY <2>3, <2>10 DEF Acts
    <3>2. Subs[n] \notin next.on /\ Cardinality(Running) > 1
      BY <3>1 DEF StopsOff
    <3>3. IsFiniteSet(Running)
      BY KindsDeclared, FS_Subset DEF Running
    <3>4. Cardinality(Running) \in Nat
      BY <3>3, FS_CardinalityType
    <3>5. ~(\A x, y \in Running : x = y)
      BY <3>2, <3>4, AtMostOne
    <3>q. QED
      BY <3>2, <3>5
  <2>11. UNCHANGED <<phase, next, running, sessionless>> /\ at' = n
    BY <2>1 DEF Tells
  <2>12. Running # {}
    BY <2>2, <1>0 DEF WalkSettles
  <2>13. Running' = Running
    BY <2>11 DEF Running
  <2>q. QED
    BY <2>2, <2>8, <2>9, <2>10, <2>11, <2>12, <2>13 DEF WalkSettles
<1>6. CASE Applied
  <2>1. /\ phase = "apply" /\ phase' = "select" /\ Turn = {}
        /\ UNCHANGED <<running, insts, sessionless>> /\ adopted' = next
    BY <1>6 DEF Applied
  <2>2. at \in 1..(Len(Subs) + 1) /\ Len(Subs) + 1 \in 1..(Len(Subs) + 1) /\ (Len(Subs) + 1) - 1 = Len(Subs)
    BY <2>1, <1>0, <1>0a DEF PlacesTyped
  <2>3. \A n \in at..((Len(Subs) + 1) - 1) : ~Acts(Subs[n])
    BY <2>1, <2>2 DEF Turn
  <2>4. Settled(next, (Len(Subs) + 1) - 1, running, insts, sessionless)
    BY <2>1, <2>2, <2>3, <1>0, Passed
  <2>5. Settled(next, Len(Subs), running, insts, sessionless)
    BY <2>2, <2>4
  <2>6. Running # {} /\ Running' = Running
    BY <2>1, <1>0 DEF WalkSettles, Running
  <2>q. QED
    BY <2>1, <2>5, <2>6 DEF WalkSettles
<1>7. CASE StopSeen
  <2>1. PICK list : StopDone(list)
    BY <1>7, <1>0, StopFollows
  <2>q. QED
    BY <1>0, <2>1, StopSettles
<1>8. CASE DrainEnds
  <2>1. PICK list : StopDone(list)
    BY <1>8, <1>0, StopFollows
  <2>q. QED
    BY <1>0, <2>1, StopSettles
<1>9. CASE ShutdownStop
  <2>1. phase' = "shutdown"
    BY <1>9 DEF ShutdownStop
  <2>q. QED
    BY <2>1 DEF WalkSettles
<1>10. CASE ShutdownDone
  <2>1. phase' = "down"
    BY <1>10, WorkerEnds
  <2>q. QED
    BY <2>1 DEF WalkSettles
<1>11. ASSUME NEW i \in 1..Len(insts), Fail(i) PROVE WalkSettles'
  <2>1. UNCHANGED <<phase, at, next, adopted, stopping, rebuild, running, sessionless>>
    BY <1>11 DEF Fail
  <2>2. insts' = [insts EXCEPT ![i].st = "failing"]
    BY <1>11 DEF Fail
  <2>3. \A j \in 1..Len(insts) : insts'[j].key = insts[j].key /\ insts'[j].print = insts[j].print
    BY <2>2, <1>0, StateChanges DEF InstsTyped, States, SameBuild
  <2>q. QED
    BY <2>1, <2>3, <1>0, WalkStays
<1>12. ASSUME NEW i \in 1..Len(insts), Report(i) PROVE WalkSettles'
  <2>1. UNCHANGED <<phase, at, next, adopted, stopping, rebuild, running, sessionless>>
    BY <1>12 DEF Report
  <2>2. insts' = [insts EXCEPT ![i].st = "done"]
    BY <1>12 DEF Report
  <2>3. \A j \in 1..Len(insts) : insts'[j].key = insts[j].key /\ insts'[j].print = insts[j].print
    BY <2>2, <1>0, StateChanges DEF InstsTyped, States, SameBuild
  <2>q. QED
    BY <2>1, <2>3, <1>0, WalkStays
<1>13. ASSUME NEW i \in 1..Len(insts), Leave(i) PROVE WalkSettles'
  <2>1. UNCHANGED <<phase, at, next, adopted, stopping, rebuild, running, sessionless>>
    BY <1>13 DEF Leave
  <2>2. insts' = [insts EXCEPT ![i].st = "done"]
    BY <1>13 DEF Leave
  <2>3. \A j \in 1..Len(insts) : insts'[j].key = insts[j].key /\ insts'[j].print = insts[j].print
    BY <2>2, <1>0, StateChanges DEF InstsTyped, States, SameBuild
  <2>q. QED
    BY <2>1, <2>3, <1>0, WalkStays
<1>14. CASE StartWorker
  <2>1. CASE ~Resolves(file)
    <3>1. phase' = "down"
      BY <1>14, <2>1 DEF StartWorker
    <3>q. QED
      BY <3>1 DEF WalkSettles
  <2>2. CASE Resolves(file)
    <3>1. /\ running' \in [Kinds -> 0..Len(insts')] /\ Len(insts') \in 0..Len(Subs)
          /\ \A i \in 1..Len(insts') : insts'[i].print = file.print[insts'[i].kind]
          /\ \A k \in Kinds : running'[k] # NoInst => insts'[running'[k]].kind = k /\ k \in file.on
          /\ \A k \in file.on \cap Available : running'[k] # NoInst
          /\ \E k \in Kinds : running'[k] # NoInst
      BY <1>14, <1>0, <2>2, FirstInstances DEF StartWorker
    <3>2. phase' = "select" /\ adopted' = file
      BY <1>14, <2>2 DEF StartWorker
    <3>3. \A k \in Kinds : running'[k] # NoInst => running'[k] \in 1..Len(insts')
      BY <3>1, <1>0a DEF NoInst
    <3>4. \A k \in Kinds : running'[k] # NoInst => insts'[running'[k]].print = file.print[k]
      BY <3>1, <3>3
    <3>5. \A n \in 1..Len(Subs) : Served(file, Subs[n], running', insts', sessionless')
      BY <3>1, <3>4, KindsDeclared DEF Served
    <3>6. \A n \in 1..Len(Subs) : ~KeptOff(file, Subs[n], running')
      BY <3>1, KindsDeclared DEF KeptOff
    <3>7. Settled(file, Len(Subs), running', insts', sessionless')
      BY <3>5, <3>6 DEF Settled
    <3>8. Running' # {}
      BY <3>1 DEF Running
    <3>q. QED
      BY <3>2, <3>7, <3>8 DEF WalkSettles
  <2>q. QED
    BY <2>1, <2>2
<1>15. CASE Signal
  <2>1. UNCHANGED <<phase, at, next, adopted, stopping, rebuild, running, sessionless, insts>>
    BY <1>15 DEF Signal
  <2>q. QED
    BY <2>1, <1>0, WalkStays
<1>16. CASE WorkerCrash
  <2>1. phase' = "down"
    BY <1>16, WorkerEnds
  <2>q. QED
    BY <2>1 DEF WalkSettles
<1>17. CASE PauseEnds
  <2>1. UNCHANGED <<phase, at, next, adopted, stopping, rebuild, running, sessionless, insts>>
    BY <1>17 DEF PauseEnds, supervisorVars
  <2>q. QED
    BY <2>1, <1>0, WalkStays
<1>18. CASE StopDispatcher
  <2>1. UNCHANGED <<phase, at, next, adopted, stopping, rebuild, running, sessionless, insts>>
    BY <1>18 DEF StopDispatcher
  <2>q. QED
    BY <2>1, <1>0, WalkStays
<1>19. ASSUME NEW c \in Configs, Store(c) PROVE WalkSettles'
  <2>1. UNCHANGED <<phase, at, next, adopted, stopping, rebuild, running, sessionless, insts>>
    BY <1>19 DEF Store, supervisorVars
  <2>q. QED
    BY <2>1, <1>0, WalkStays
<1>20. CASE UNCHANGED supVars
  <2>1. UNCHANGED <<phase, at, next, adopted, stopping, rebuild, running, sessionless, insts>>
    BY <1>20 DEF supVars, supervisorVars
  <2>q. QED
    BY <2>1, <1>0, WalkStays
<1>q. QED
  BY <1>1, <1>2, <1>3, <1>4, <1>5, <1>6, <1>7, <1>8, <1>9, <1>10, <1>11, <1>12,
     <1>13, <1>14, <1>15, <1>16, <1>17, <1>18, <1>19, <1>20
  DEF SupNext, RunStep, SurfaceStep, ProcessStep

LEMMA EndsStep == SupInv /\ [SupNext]_supVars => EndsFor'
<1> SUFFICES ASSUME SupInv, [SupNext]_supVars PROVE EndsFor'
  OBVIOUS
<1>0. WordsTyped /\ PlacesTyped /\ InstsTyped /\ EndsFor
  BY DEF SupInv
<1>1. CASE ContextEnds
  BY <1>1, <1>0 DEF ContextEnds, rest, Idle, EndsFor, Resolves
<1>2. CASE ReadFailure
  BY <1>2, <1>0 DEF ReadFailure, rest, Idle, EndsFor, Resolves
<1>3. CASE ReadReload
  <2>0. PICK c \in reloads :
          /\ next' = c
          /\ CASE NeedsFresh(c) # {} /\ ~Resolves(c) -> UNCHANGED <<phase, at, wantRestart>>
               [] NeedsFresh(c) # {} /\ Resolves(c) /\ Restartable ->
                    wantRestart' = TRUE /\ phase' = "shutdown" /\ at' = Len(Subs)
               [] OTHER -> phase' = "apply" /\ at' = 1 /\ UNCHANGED wantRestart
    BY <1>3 DEF ReadReload
  <2>1. /\ phase' \in {"select", "shutdown", "apply"} /\ phase = "select"
        /\ wantRestart' => wantRestart \/ (phase' = "shutdown" /\ Resolves(c))
        /\ phase' = "shutdown" => wantRestart'
    BY <2>0, <1>3 DEF ReadReload, Idle
  <2>2. UNCHANGED <<ctxDone, signalled, runErr, exit>>
    BY <1>3 DEF ReadReload, rest
  <2>3. ~wantRestart /\ exit = "none"
    BY <2>1, <1>0 DEF EndsFor
  <2>q. QED
    BY <2>0, <2>1, <2>2, <2>3, <1>0 DEF EndsFor, Resolves
<1>4. CASE ApplyStart
  <2>1. UNCHANGED <<ctxDone, signalled, runErr, wantRestart, next, exit>>
        /\ (phase' = phase \/ (phase = "apply" /\ phase' = "select"))
    BY <1>4 DEF ApplyStart, rest
  <2>q. QED
    BY <2>1, <1>0 DEF EndsFor, Resolves
<1>5. CASE ApplyStop
  <2>1. UNCHANGED <<ctxDone, signalled, runErr, wantRestart, next, exit>>
        /\ (phase' = phase \/ (phase = "apply" /\ phase' = "select"))
    BY <1>5 DEF ApplyStop, rest
  <2>q. QED
    BY <2>1, <1>0 DEF EndsFor, Resolves
<1>6. CASE Applied
  <2>1. UNCHANGED <<ctxDone, signalled, runErr, wantRestart, next, exit>>
        /\ (phase' = phase \/ (phase = "apply" /\ phase' = "select"))
    BY <1>6 DEF Applied, rest
  <2>q. QED
    BY <2>1, <1>0 DEF EndsFor, Resolves
<1>7. CASE StopSeen
  <2>1. PICK list : StopDone(list)
    BY <1>7, <1>0, StopFollows
  <2>2. UNCHANGED <<ctxDone, signalled, runErr, phase, wantRestart, next, exit>>
    BY <2>1 DEF StopDone, rest
  <2>q. QED
    BY <2>2, <1>0 DEF EndsFor, Resolves
<1>8. CASE DrainEnds
  <2>1. PICK list : StopDone(list)
    BY <1>8, <1>0, StopFollows
  <2>2. UNCHANGED <<ctxDone, signalled, runErr, phase, wantRestart, next, exit>>
    BY <2>1 DEF StopDone, rest
  <2>q. QED
    BY <2>2, <1>0 DEF EndsFor, Resolves
<1>9. CASE ShutdownStop
  <2>1. UNCHANGED <<ctxDone, signalled, runErr, wantRestart, next, exit>>
        /\ (phase' = phase \/ (phase = "apply" /\ phase' = "select"))
    BY <1>9 DEF ShutdownStop, rest
  <2>q. QED
    BY <2>1, <1>0 DEF EndsFor, Resolves
<1>10. CASE ShutdownDone
  <2>1. phase = "shutdown" /\ exit' = Outcome
    BY <1>10 DEF ShutdownDone, EndWorker
  <2>2. phase' = "down" /\ ctxDone' = FALSE /\ runErr' = FALSE /\ wantRestart' = FALSE
        /\ UNCHANGED <<signalled, next>>
    BY <1>10, WorkerEnds
  <2>3. exit' = "clean" => signalled
    BY <2>1, <1>0 DEF Outcome, EndsFor
  <2>4. exit' = "restart" => Resolves(next)
    BY <2>1, <1>0 DEF Outcome, EndsFor
  <2>q. QED
    BY <2>2, <2>3, <2>4 DEF EndsFor, Resolves
<1>11. ASSUME NEW i \in 1..Len(insts), Fail(i) PROVE EndsFor'
  <2>1. UNCHANGED <<ctxDone, signalled, runErr, wantRestart, next, exit>>
        /\ (phase' = phase \/ (phase = "apply" /\ phase' = "select"))
    BY <1>11 DEF Fail
  <2>q. QED
    BY <2>1, <1>0 DEF EndsFor, Resolves
<1>12. ASSUME NEW i \in 1..Len(insts), Report(i) PROVE EndsFor'
  <2>1. UNCHANGED <<ctxDone, signalled, runErr, wantRestart, next, exit>>
        /\ (phase' = phase \/ (phase = "apply" /\ phase' = "select"))
    BY <1>12 DEF Report
  <2>q. QED
    BY <2>1, <1>0 DEF EndsFor, Resolves
<1>13. ASSUME NEW i \in 1..Len(insts), Leave(i) PROVE EndsFor'
  <2>1. UNCHANGED <<ctxDone, signalled, runErr, wantRestart, next, exit>>
        /\ (phase' = phase \/ (phase = "apply" /\ phase' = "select"))
    BY <1>13 DEF Leave
  <2>q. QED
    BY <2>1, <1>0 DEF EndsFor, Resolves
<1>14. CASE StartWorker
  <2>1. UNCHANGED <<ctxDone, runErr, wantRestart>> /\ exit' \in {"none", "failed"} /\ phase = "down"
        /\ phase' \in {"down", "select"} /\ (phase' = "select" => exit' = "none")
    BY <1>14 DEF StartWorker
  <2>q. QED
    BY <2>1, <1>0 DEF EndsFor
<1>15. CASE Signal
  BY <1>15, <1>0 DEF Signal, EndsFor, Resolves
<1>16. CASE WorkerCrash
  <2>1. exit' = "failed"
    BY <1>16 DEF WorkerCrash, EndWorker
  <2>2. phase' = "down" /\ ctxDone' = FALSE /\ runErr' = FALSE /\ wantRestart' = FALSE
    BY <1>16, WorkerEnds
  <2>q. QED
    BY <2>1, <2>2 DEF EndsFor
<1>17. CASE PauseEnds
  <2>1. UNCHANGED <<ctxDone, signalled, runErr, wantRestart, next, exit>>
        /\ (phase' = phase \/ (phase = "apply" /\ phase' = "select"))
    BY <1>17 DEF PauseEnds, supervisorVars
  <2>q. QED
    BY <2>1, <1>0 DEF EndsFor, Resolves
<1>18. CASE StopDispatcher
  BY <1>18, <1>0 DEF StopDispatcher, EndsFor, Resolves
<1>19. ASSUME NEW c \in Configs, Store(c) PROVE EndsFor'
  <2>1. UNCHANGED <<ctxDone, signalled, runErr, wantRestart, next, exit>>
        /\ (phase' = phase \/ (phase = "apply" /\ phase' = "select"))
    BY <1>19 DEF Store, supervisorVars
  <2>q. QED
    BY <2>1, <1>0 DEF EndsFor, Resolves
<1>20. CASE UNCHANGED supVars
  <2>1. UNCHANGED <<ctxDone, signalled, runErr, wantRestart, next, exit>>
        /\ (phase' = phase \/ (phase = "apply" /\ phase' = "select"))
    BY <1>20 DEF supVars, supervisorVars
  <2>q. QED
    BY <2>1, <1>0 DEF EndsFor, Resolves
<1>q. QED
  BY <1>1, <1>2, <1>3, <1>4, <1>5, <1>6, <1>7, <1>8, <1>9, <1>10, <1>11, <1>12,
     <1>13, <1>14, <1>15, <1>16, <1>17, <1>18, <1>19, <1>20
  DEF SupNext, RunStep, SurfaceStep, ProcessStep

-------------------------------------------------------------------------------
(* The theorems. *)

\* The supervisor never loses the account of its surfaces, for any kinds, configurations
\* and bounds.
LEMMA SupInvariant == SupSpec => []SupInv
<1>1. SupInit => SupInv
  <2> SUFFICES ASSUME SupInit PROVE SupInv
    OBVIOUS
  <2>1. file \in Configs /\ Len(Subs) \in Nat \ {0} /\ Len(insts) = 0
    BY KindsDeclared DEF SupInit
  <2>2. WordsTyped
    <3>1. /\ reloads = {} /\ adopted = file /\ next = file /\ failures = 0 /\ stored = 0 /\ lives = 0
          /\ ctxDone = FALSE /\ runErr = FALSE /\ wantRestart = FALSE /\ sessionless = FALSE
          /\ signalled = FALSE /\ exit = "none" /\ dispatcher = "running"
      BY DEF SupInit
    <3>2. 0 \in 0..MaxReloads /\ 0 \in 0..MaxLives /\ 0 \in 0..Len(Subs)
      BY <2>1, BoundsAssumption
    <3>q. QED
      BY <2>1, <3>1, <3>2 DEF WordsTyped
  <2>3. PlacesTyped
    <3>1. at = 0 /\ phase = "down" /\ stopping = NoInst /\ rebuild = FALSE
      BY DEF SupInit
    <3>2. at \in 0..(Len(Subs) + 1) /\ stopping \in Nat
      BY <2>1, <3>1 DEF NoInst
    <3>q. QED
      BY <3>1, <3>2 DEF PlacesTyped
  <2>4. InstsTyped
    BY DEF SupInit, InstsTyped, Running, NoInst
  <2>5. InstsPaid
    <3>1. Waiting = 0 /\ Walk = 0 /\ stored = 0
      BY DEF SupInit, Waiting, Walk
    <3>2. Budget(0) \in Nat
      BY BudgetGrows
    <3>q. QED
      BY <2>1, <3>1, <3>2 DEF InstsPaid
  <2>6. HandedOver
    BY DEF SupInit, HandedOver, NoneLost, StopsWatched, TwinsOutlastedTheDrain
  <2>7. WalkSettles /\ EndsFor
    BY DEF SupInit, WalkSettles, EndsFor
  <2>q. QED
    BY <2>2, <2>3, <2>4, <2>5, <2>6, <2>7 DEF SupInv, HandedOver
<1>2. SupInv /\ [SupNext]_supVars => SupInv'
  <2> SUFFICES ASSUME SupInv, [SupNext]_supVars PROVE SupInv'
    OBVIOUS
  <2>1. WordsTyped' /\ PlacesTyped' /\ InstsTyped' /\ InstsPaid'
    BY WordsStep, PlacesStep, InstsStep, PaidStep
  <2>2. HandedOver' /\ WalkSettles' /\ EndsFor'
    BY HandoverStep, WalkStep, EndsStep
  <2>q. QED
    BY <2>1, <2>2 DEF SupInv, HandedOver
<1>q. QED
  BY <1>1, <1>2, PTL DEF SupSpec

\* Supervisor's own state: the worker loses no surface it was not told to stop (start, stop),
\* serves something while it lives (applyConfig keeps the last one running), exits clean only
\* when told to, and gives way only to a replacement that can start (needsFreshProcess).
THEOREM SurfacesStayConsistent == SupSpec => []SurfacesAreConsistent
<1>1. SupInv => SurfacesAreConsistent
  <2> SUFFICES ASSUME SupInv PROVE SurfacesAreConsistent
    OBVIOUS
  <2>0. WordsTyped /\ PlacesTyped /\ InstsTyped /\ InstsPaid
    BY DEF SupInv
  <2>1. Len(insts) <= MaxInsts
    <3>1. stored \in Nat /\ stored <= MaxReloads /\ Len(insts) \in Nat /\ at \in Nat
          /\ Len(Subs) \in Nat /\ at <= Len(Subs) + 1
      BY <2>0, KindsDeclared, BoundsAssumption DEF WordsTyped, InstsTyped, PlacesTyped
    <3>2. Budget(stored) \in Nat /\ Budget(stored) <= MaxInsts /\ MaxInsts \in Int
      <4>1. MaxInsts \in Int
        BY <3>1, BoundsAssumption DEF MaxInsts
      <4>q. QED
        BY <3>1, <4>1, BudgetGrows
    <3>3. Waiting \in Nat /\ Walk \in Nat
      BY <3>1 DEF Waiting, Walk
    <3>q. QED
      BY <3>1, <3>2, <3>3, <2>0 DEF InstsPaid
  <2>2. reloads \subseteq Configs /\ Cardinality(reloads) <= 1
    <3>1. CASE reloads = {}
      BY <3>1, FS_EmptySet
    <3>2. ASSUME NEW c \in Configs, reloads = {c} PROVE reloads \subseteq Configs /\ Cardinality(reloads) <= 1
      BY <3>2, FS_Singleton
    <3>q. QED
      BY <3>1, <3>2, <2>0 DEF WordsTyped
  <2>3. \A i \in 1..Len(insts) :
          /\ insts[i].kind \in Kinds /\ insts[i].st \in {"up", "failing", "done"}
          /\ insts[i].cancelled \in BOOLEAN /\ insts[i].overstayed \in BOOLEAN
    <3>1. \A i \in 1..Len(insts) : insts[i] \in InstT
      BY <2>0 DEF InstsTyped
    <3>q. QED
      BY <3>1 DEF InstT, States
  <2>4. stopping \in 0..Len(insts) /\ running \in [Kinds -> 0..Len(insts)]
    <3>1. Len(insts) \in Nat
      BY <2>0 DEF InstsTyped
    <3>q. QED
      BY <3>1, <2>0 DEF InstsTyped, PlacesTyped, NoInst
  <2>5. {ctxDone, runErr, wantRestart, sessionless, signalled, rebuild} \subseteq BOOLEAN
    BY <2>0 DEF WordsTyped, PlacesTyped
  <2>6. SupTypeOK
    BY <2>0, <2>1, <2>2, <2>3, <2>4, <2>5 DEF SupTypeOK, WordsTyped, PlacesTyped
  <2>7. NoneLost /\ NeverEmpty
    BY DEF SupInv, NeverEmpty, WalkSettles
  <2>8. CleanMeansTold /\ ReplacementCanStart
    BY DEF SupInv, EndsFor, CleanMeansTold, ReplacementCanStart
  <2>q. QED
    BY <2>6, <2>7, <2>8 DEF SurfacesAreConsistent
<1>q. QED
  BY <1>1, SupInvariant, PTL

\* Supervisor.stop before Supervisor.start: two goroutines of one kind run together only when
\* the older one was given the whole restartDrain and did not leave.
THEOREM TwinsHadTheirDrain == SupSpec => []TwinsOutlastedTheDrain
<1>1. SupInv => TwinsOutlastedTheDrain
  BY DEF SupInv
<1>q. QED
  BY <1>1, SupInvariant, PTL

\* applyConfig: between two configurations the surfaces are what the last one applied asks
\* for, whatever failed, was drained or was kept meanwhile.
THEOREM ConfigIsAppliedWhole == SupSpec => []AppliedWhole
<1>1. SupInv => AppliedWhole
  <2> SUFFICES ASSUME SupInv, phase = "select" PROVE AppliedWhole
    BY DEF AppliedWhole
  <2>1. Settled(adopted, Len(Subs), running, insts, sessionless)
    BY DEF SupInv, WalkSettles
  <2>2. Available \subseteq Kinds /\ Rebuildable \subseteq Kinds
    BY KindsAssumption
  <2>3. \A k \in Kinds : Served(adopted, k, running, insts, sessionless)
    BY <2>1, KindsDeclared DEF Settled
  <2>4. \A x, y \in Running \ adopted.on : x = y
    <3> SUFFICES ASSUME NEW x \in Running \ adopted.on, NEW y \in Running \ adopted.on PROVE x = y
      OBVIOUS
    <3>1. x \in Kinds /\ y \in Kinds /\ KeptOff(adopted, x, running) /\ KeptOff(adopted, y, running)
      BY DEF Running, KeptOff
    <3>2. PICK m \in 1..Len(Subs) : Subs[m] = x
      BY <3>1, KindsDeclared
    <3>3. PICK n \in 1..Len(Subs) : Subs[n] = y
      BY <3>1, KindsDeclared
    <3>4. m = n
      BY <2>1, <3>1, <3>2, <3>3 DEF Settled
    <3>q. QED
      BY <3>2, <3>3, <3>4
  <2>5. Cardinality(Running \ adopted.on) <= 1
    BY <2>4, AtMostOne
  <2>6. \A k \in adopted.on \cap Available : ~(k \in NeedsSessions /\ sessionless) => running[k] # NoInst
    BY <2>2, <2>3 DEF Served
  <2>7. \A k \in Running \cap adopted.on \cap Rebuildable :
          insts[running[k]].key = adopted.key[k] => insts[running[k]].print = adopted.print[k]
    BY <2>2, <2>3 DEF Served, Running
  <2>q. QED
    BY <2>5, <2>6, <2>7 DEF AppliedWhole
<1>q. QED
  BY <1>1, SupInvariant, PTL
===============================================================================
