------------------------------ MODULE TurnLock ------------------------------
(***************************************************************************)
(* The cross-process lock that serialises the agent turns of one session   *)
(* (internal/session/manager_turn_lock_unix.go).  The lock is an exclusive *)
(* flock on a file of the session bundle; the file also carries the PID of *)
(* its owner, and an attempt that finds the file locked reads that PID and *)
(* unlinks the file when the PID is missing or dead, then tries again on a *)
(* fresh file.  Every system call is a step: the hazard of this protocol   *)
(* is what another attempt does between two of them.                       *)
(*                                                                         *)
(* A PID is identified with its process, and is not reused.  An inode      *)
(* nobody can reach any more is free to be created again, so a finite set  *)
(* of inodes loses no behaviour as long as there is one more of them than  *)
(* there are descriptors.                                                  *)
(***************************************************************************)
EXTENDS Naturals, FiniteSets

CONSTANTS
    Attempters,   \* callers of acquirePromptTurnLock
    Probers,      \* callers of TurnLockHeld
    Processes,    \* the processes they run in, named by their PIDs
    ProcOf,       \* the process of each attempter
    Hidden,       \* <<p, q>>: kill(q, 0) fails in p although q lives (another
                  \* user's process, or one of another PID namespace)
    Inodes,       \* identities of lock files
    NoFile,       \* no inode: the path does not exist, a descriptor is closed
    Nobody,       \* no owner of an flock
    Blank,        \* the contents of a file no PID has been written to
    MaxAttempts   \* the 4 of acquirePromptTurnLock

ASSUME ProcOfAssumption == ProcOf \in [Attempters -> Processes]
ASSUME HiddenAssumption == Hidden \subseteq Processes \X Processes
ASSUME NoFileAssumption == NoFile \notin Inodes
ASSUME NobodyAssumption == Nobody \notin Attempters
ASSUME BlankAssumption  == Blank \notin Processes
ASSUME MaxAttemptsAssumption == MaxAttempts \in Nat \ {0}

VARIABLES
    path,     \* the inode the lock file's name leads to
    owner,    \* owner[i]: the attempter whose exclusive flock is on inode i
    meta,     \* meta[i]: the PID inode i holds, or Blank
    pc,       \* where each attempter stands
    fd,       \* the inode each attempter has open
    seen,     \* what a stale check has read: the PID or Blank
    tries,    \* attempts used up by the acquisition under way
    blocked,  \* blocked[a]: a turn held the file when a's flock was refused
    probe,    \* the inode each prober has open
    shared,   \* the probers whose shared flock is granted
    alive,    \* processes that run
    stamped,  \* history: stamped[a]: the turns that held the file, PID written,
              \* when a's stale check read it
    strayed   \* history: an unlink took the file away from an open descriptor
              \* of which the check that unlinked had read nothing

lockVars == <<path, owner, meta>>
probeVars == <<probe, shared>>
history == <<stamped, strayed>>
vars == <<path, owner, meta, pc, fd, seen, tries, blocked, probe, shared,
          alive, stamped, strayed>>

Owning == {"truncate", "write", "held"}
Opened == Owning \cup {"flock"}
PCs == Opened \cup {"idle", "open", "read", "kill", "remove", "busy", "dead"}

TypeOK ==
    /\ path \in Inodes \cup {NoFile}
    /\ owner \in [Inodes -> Attempters \cup {Nobody}]
    /\ meta \in [Inodes -> Processes \cup {Blank}]
    /\ pc \in [Attempters -> PCs]
    /\ fd \in [Attempters -> Inodes \cup {NoFile}]
    /\ seen \in [Attempters -> Processes \cup {Blank}]
    /\ tries \in [Attempters -> 0 .. MaxAttempts]
    /\ blocked \in [Attempters -> BOOLEAN]
    /\ probe \in [Probers -> Inodes \cup {NoFile}]
    /\ shared \subseteq Probers
    /\ alive \subseteq Processes
    /\ stamped \in [Attempters -> SUBSET Attempters]
    /\ strayed \in BOOLEAN

Init ==
    /\ path = NoFile
    /\ owner = [i \in Inodes |-> Nobody]
    /\ meta = [i \in Inodes |-> Blank]
    /\ pc = [a \in Attempters |-> "idle"]
    /\ fd = [a \in Attempters |-> NoFile]
    /\ seen = [a \in Attempters |-> Blank]
    /\ tries = [a \in Attempters |-> 0]
    /\ blocked = [a \in Attempters |-> FALSE]
    /\ probe = [q \in Probers |-> NoFile]
    /\ shared = {}
    /\ alive = Processes
    /\ stamped = [a \in Attempters |-> {}]
    /\ strayed = FALSE

-----------------------------------------------------------------------------
(* The file system, as far as the calls above use it. *)

Unreachable(i) ==
    /\ i # path
    /\ \A a \in Attempters : fd[a] # i
    /\ \A q \in Probers : probe[q] # i

SharedOn(i) == \E q \in shared : probe[q] = i

\* Closing a's descriptor, which also drops the flock it may carry.
Close(a) ==
    /\ fd' = [fd EXCEPT ![a] = NoFile]
    /\ owner' = [i \in Inodes |-> IF owner[i] = a THEN Nobody ELSE owner[i]]

Goto(a, label) == pc' = [pc EXCEPT ![a] = label]

-----------------------------------------------------------------------------
(* acquirePromptTurnLock *)

Acquire(a) ==
    /\ pc[a] = "idle"
    /\ Goto(a, "open")
    /\ UNCHANGED <<lockVars, fd, seen, tries, blocked, probeVars, alive, history>>

OpenExisting(a) ==
    /\ pc[a] = "open"
    /\ path # NoFile
    /\ fd' = [fd EXCEPT ![a] = path]
    /\ Goto(a, "flock")
    /\ UNCHANGED <<lockVars, seen, tries, blocked, probeVars, alive, history>>

OpenCreates(a) ==
    /\ pc[a] = "open"
    /\ path = NoFile
    /\ \E i \in Inodes :
        /\ Unreachable(i)
        /\ path' = i
        /\ meta' = [meta EXCEPT ![i] = Blank]
        /\ fd' = [fd EXCEPT ![a] = i]
    /\ Goto(a, "flock")
    /\ UNCHANGED <<owner, seen, tries, blocked, probeVars, alive, history>>

FlockGranted(a) ==
    /\ pc[a] = "flock"
    /\ owner[fd[a]] = Nobody
    /\ ~ SharedOn(fd[a])
    /\ owner' = [owner EXCEPT ![fd[a]] = a]
    /\ Goto(a, "truncate")
    /\ tries' = [tries EXCEPT ![a] = 0]
    /\ UNCHANGED <<path, meta, fd, seen, blocked, probeVars, alive, history>>

FlockRefused(a) ==
    /\ pc[a] = "flock"
    /\ owner[fd[a]] # Nobody \/ SharedOn(fd[a])
    /\ blocked' = [blocked EXCEPT ![a] = owner[fd[a]] # Nobody]
    /\ fd' = [fd EXCEPT ![a] = NoFile]
    /\ Goto(a, "read")
    /\ UNCHANGED <<lockVars, seen, tries, probeVars, alive, history>>

Truncate(a) ==
    /\ pc[a] = "truncate"
    /\ meta' = [meta EXCEPT ![fd[a]] = Blank]
    /\ Goto(a, "write")
    /\ UNCHANGED <<path, owner, fd, seen, tries, blocked, probeVars, alive, history>>

\* Mutant: the file is closed on the way out of acquireTurnLockFlock.
WriteMetaClosing(a) ==
    /\ pc[a] = "write"
    /\ meta' = [meta EXCEPT ![fd[a]] = ProcOf[a]]
    /\ Close(a)
    /\ Goto(a, "held")
    /\ UNCHANGED <<path, seen, tries, blocked, probeVars, alive, history>>

WriteMeta(a) ==
    /\ pc[a] = "write"
    /\ meta' = [meta EXCEPT ![fd[a]] = ProcOf[a]]
    /\ Goto(a, "held")
    /\ UNCHANGED <<path, owner, fd, seen, tries, blocked, probeVars, alive, history>>

\* Truncating or writing fails: the lock is given back and the error returned.
StampFails(a) ==
    /\ pc[a] \in {"truncate", "write"}
    /\ Close(a)
    /\ Goto(a, "idle")
    /\ UNCHANGED <<path, meta, seen, tries, blocked, probeVars, alive, history>>

\* The turn is over.  The file stays where it is, with the PID in it.
Unlock(a) ==
    /\ pc[a] = "held"
    /\ Close(a)
    /\ Goto(a, "idle")
    /\ UNCHANGED <<path, meta, seen, tries, blocked, probeVars, alive, history>>

\* ErrSessionTurnBusy reaches the caller.
ReturnBusy(a) ==
    /\ pc[a] = "busy"
    /\ Goto(a, "idle")
    /\ tries' = [tries EXCEPT ![a] = 0]
    /\ blocked' = [blocked EXCEPT ![a] = FALSE]
    /\ UNCHANGED <<lockVars, fd, seen, probeVars, alive, history>>

-----------------------------------------------------------------------------
(* tryBreakStaleTurnLock *)

ReadMeta(a) ==
    /\ pc[a] = "read"
    /\ seen' = [seen EXCEPT ![a] = IF path = NoFile THEN Blank ELSE meta[path]]
    /\ stamped' = [stamped EXCEPT ![a] =
                      {b \in Attempters : pc[b] = "held" /\ fd[b] = path}]
    /\ Goto(a, "kill")
    /\ UNCHANGED <<lockVars, fd, tries, blocked, probeVars, alive, strayed>>

\* Mutant: a PID that was read counts as stale whether or not it lives.
KillProbeSkipped(a) ==
    /\ pc[a] = "kill"
    /\ Goto(a, "remove")
    /\ UNCHANGED <<lockVars, fd, seen, tries, blocked, probeVars, alive, history>>

\* kill(pid, 0): any error counts as a dead holder, EPERM and the ESRCH of
\* another PID namespace included; so does a file without a PID.
KillProbe(a) ==
    /\ pc[a] = "kill"
    /\ IF seen[a] \in alive /\ <<ProcOf[a], seen[a]>> \notin Hidden
         THEN /\ Goto(a, "busy")
              /\ seen' = [seen EXCEPT ![a] = Blank]
              /\ stamped' = [stamped EXCEPT ![a] = {}]
         ELSE Goto(a, "remove") /\ UNCHANGED <<seen, stamped>>
    /\ UNCHANGED <<lockVars, fd, tries, blocked, probeVars, alive, strayed>>

\* Mutant: the loop does not count its attempts.
RemoveLockFileUncounted(a) ==
    /\ pc[a] = "remove"
    /\ path' = NoFile
    /\ seen' = [seen EXCEPT ![a] = Blank]
    /\ stamped' = [stamped EXCEPT ![a] = {}]
    /\ Goto(a, "open")
    /\ UNCHANGED <<owner, meta, fd, tries, blocked, probeVars, alive, strayed>>

\* The turns a check has read of, and whose processes it can tell from dead ones.
ReadOf(a) == {b \in stamped[a] : <<ProcOf[a], ProcOf[b]>> \notin Hidden}

\* os.Remove unlinks whatever the name leads to now.
RemoveLockFile(a) ==
    /\ pc[a] = "remove"
    /\ path' = NoFile
    /\ strayed' = (strayed \/ \E b \in Attempters \ ReadOf(a) :
                                fd[b] # NoFile /\ fd[b] = path)
    /\ tries' = [tries EXCEPT ![a] = @ + 1]
    /\ seen' = [seen EXCEPT ![a] = Blank]
    /\ stamped' = [stamped EXCEPT ![a] = {}]
    /\ IF tries[a] + 1 = MaxAttempts
         THEN Goto(a, "busy") /\ UNCHANGED blocked
         ELSE Goto(a, "open") /\ blocked' = [blocked EXCEPT ![a] = FALSE]
    /\ UNCHANGED <<owner, meta, fd, probeVars, alive>>

-----------------------------------------------------------------------------
(* TurnLockHeld *)

ProbeOpen(q) ==
    /\ probe[q] = NoFile
    /\ path # NoFile
    /\ probe' = [probe EXCEPT ![q] = path]
    /\ UNCHANGED <<lockVars, pc, fd, seen, tries, blocked, shared, alive, history>>

ProbeGranted(q) ==
    /\ probe[q] # NoFile /\ q \notin shared
    /\ owner[probe[q]] = Nobody
    /\ shared' = shared \cup {q}
    /\ UNCHANGED <<lockVars, pc, fd, seen, tries, blocked, probe, alive, history>>

ProbeRefused(q) ==
    /\ probe[q] # NoFile /\ q \notin shared
    /\ owner[probe[q]] # Nobody
    /\ probe' = [probe EXCEPT ![q] = NoFile]
    /\ UNCHANGED <<lockVars, pc, fd, seen, tries, blocked, shared, alive, history>>

ProbeUnlock(q) ==
    /\ q \in shared
    /\ shared' = shared \ {q}
    /\ probe' = [probe EXCEPT ![q] = NoFile]
    /\ UNCHANGED <<lockVars, pc, fd, seen, tries, blocked, alive, history>>

-----------------------------------------------------------------------------
\* A process dies: the kernel closes its descriptors, and its PID is dead.
Crash(p) ==
    /\ p \in alive
    /\ alive' = alive \ {p}
    /\ pc' = [a \in Attempters |-> IF ProcOf[a] = p THEN "dead" ELSE pc[a]]
    /\ fd' = [a \in Attempters |-> IF ProcOf[a] = p THEN NoFile ELSE fd[a]]
    /\ owner' = [i \in Inodes |->
                    IF \E a \in Attempters : ProcOf[a] = p /\ owner[i] = a
                      THEN Nobody ELSE owner[i]]
    /\ seen' = [a \in Attempters |-> IF ProcOf[a] = p THEN Blank ELSE seen[a]]
    /\ stamped' = [a \in Attempters |-> IF ProcOf[a] = p THEN {} ELSE stamped[a]]
    /\ tries' = [a \in Attempters |-> IF ProcOf[a] = p THEN 0 ELSE tries[a]]
    /\ blocked' = [a \in Attempters |-> IF ProcOf[a] = p THEN FALSE ELSE blocked[a]]
    /\ UNCHANGED <<path, meta, probeVars, strayed>>

Steps(a) ==
    \/ OpenExisting(a) \/ OpenCreates(a)
    \/ FlockGranted(a) \/ FlockRefused(a)
    \/ Truncate(a) \/ WriteMeta(a)
    \/ ReadMeta(a) \/ KillProbe(a) \/ RemoveLockFile(a)

Probing(q) ==
    ProbeOpen(q) \/ ProbeGranted(q) \/ ProbeRefused(q) \/ ProbeUnlock(q)

Next ==
    \/ \E a \in Attempters :
        Acquire(a) \/ Steps(a) \/ StampFails(a) \/ Unlock(a) \/ ReturnBusy(a)
    \/ \E q \in Probers : Probing(q)
    \/ \E p \in Processes : Crash(p)

Spec == Init /\ [][Next]_vars

\* The goroutine of an acquisition under way is scheduled; turns, callers and
\* processes are free to stop for ever.
FairSpec == Spec /\ \A a \in Attempters : WF_vars(Steps(a))

-----------------------------------------------------------------------------
(* Properties *)

Owns(a) == pc[a] \in Owning

\* "exclusive per-session turn lock" (manager.go, beginTurn): two turns of one
\* session never run at once.
Exclusive == \A a, b \in Attempters : Owns(a) /\ Owns(b) => a = b

\* The protocol is exclusive until a stale check unlinks a file from an open
\* descriptor of which it had read nothing: one opened after its read, one whose
\* turn had not written its PID yet, one whose process it cannot signal.  A turn
\* whose PID a check has read never loses its file to that check, and a crash, a
\* shared probe, a failed stamp or the second life of a left-over file never give
\* the lock to two turns.
ExclusiveUntilStrayed == ~ strayed => Exclusive

\* "ErrSessionTurnBusy is returned when another agent turn holds the session
\* turn lock" (turn_busy.go).
BusyMeansTurn == \A a \in Attempters : pc[a] = "busy" => blocked[a]

\* Breaking stale locks cannot go round in circles: an acquisition ends.
AcquisitionEnds ==
    \A a \in Attempters :
        pc[a] = "open" ~> pc[a] \in {"held", "busy", "idle", "dead"}
=============================================================================
