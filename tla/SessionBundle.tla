---------------------------- MODULE SessionBundle ----------------------------
(***************************************************************************)
(* One session bundle on disk and the processes that hold it live.  Each   *)
(* keeps the history it read in memory, appends to it under the session's  *)
(* turn lock, and saves the whole bundle: messages.json first, session.json*)
(* after it, under a lock every writer of the bundle takes.  A turn first  *)
(* re-reads a bundle another process changed, and a save of a State older  *)
(* than the file leaves the transcript to its newer writer.                *)
(*                                                                         *)
(* internal/session/filesystem.go (Save, the cache of encoded histories),  *)
(* disk_refresh.go, rewind.go, state.go, manager.go (load, beginTurn).     *)
(*                                                                         *)
(* A message is its number.  A revision is compared only with the ones a   *)
(* stamp or a cache entry recorded, so each is kept as what that           *)
(* comparison answers: moved since, edited since.  The size and time of a  *)
(* file are a version: equal when nothing wrote it in between.             *)
(***************************************************************************)
EXTENDS Integers, SequencesExt

CONSTANTS
  Procs,       \* the processes
  MaxMsgs,     \* bound: messages appended
  MaxTurns,    \* bound: outcomes recorded
  MaxTouches,  \* bound: saves that move no message
  MaxRewinds,  \* bound: histories cut
  MaxFaults,   \* bound: reads and writes that fail
  MaxCrashes   \* bound: processes killed

Nobody == "nobody"

ASSUME ProcsAssumption == IsFiniteSet(Procs) /\ Nobody \notin Procs
ASSUME BoundsAssumption ==
  /\ MaxMsgs \in Nat /\ MaxTurns \in Nat /\ MaxTouches \in Nat
  /\ MaxRewinds \in Nat /\ MaxFaults \in Nat /\ MaxCrashes \in Nat

Ids == 1..MaxMsgs
\* Enough names for the versions anything still refers to.
Versions == 1..(3 * Cardinality(Procs) + 4)

VARIABLES
  disk,     \* messages.json: its history and version
  meta,     \* session.json: the count, of which version, the activity, its own version
  state,    \* per process: the State, see Absent
  cache,    \* per process: what its store last wrote into messages.json
  save,     \* per process: "none", "wanted", or the rest of one: "meta"
  job,      \* per process: what the running save decided
  holder,   \* who holds the turn lock
  nextId,   \* the next message
  cut,      \* history: messages a rewind took off the disk
  left      \* what the bounds leave: [touch, rewind, fault, crash]

bundleVars == <<disk, meta, state, cache, save, job, holder, nextId, cut, left>>

\* A State that is not loaded.  diverged is history: a save or a read of it failed, so that
\* what it holds is no longer what it knows the file to be, or another State wrote the
\* transcript in the middle of its turn (the history it held being longer than the file's); known is every message it held.
Absent == [pc |-> "absent", goal |-> "turn", msgs |-> <<>>, seen |-> 0, metaSeen |-> 0, moved |-> FALSE,
           metaMoved |-> FALSE, seq |-> 0, statFile |-> 0, statMeta |-> 0,
           diverged |-> FALSE, known |-> {}]
NoCache == [ver |-> 0, msgs |-> <<>>, moved |-> FALSE, edited |-> FALSE]
NoJob == [stale |-> FALSE, skipMeta |-> FALSE]

Larger(m, n) == IF m < n THEN n ELSE m

\* A version nothing refers to any more.
Fresh(used) == CHOOSE v \in Versions : v \notin used
NewFileVersion ==
  Fresh({disk.ver, meta.of} \cup {state[p].seen : p \in Procs} \cup {cache[p].ver : p \in Procs}
        \cup {state[p].statFile : p \in Procs})
NewMetaVersion ==
  Fresh({meta.ver} \cup {state[p].metaSeen : p \in Procs} \cup {state[p].statMeta : p \in Procs})

\* Mutant: the longer history is the newer one.
NewerByLength(theirs, ours) == Len(theirs) > Len(ours)

\* diskHistoryIsNewer: anything but no history at all or a prefix of ours.
Newer(theirs, ours) == theirs # <<>> /\ ~IsPrefix(theirs, ours)

BundleInit ==
  /\ disk = [msgs |-> <<>>, ver |-> 1]
  /\ meta = [count |-> 0, of |-> 1, seq |-> 0, ver |-> 1]
  /\ state = [p \in Procs |-> Absent]
  /\ cache = [p \in Procs |-> NoCache]
  /\ save = [p \in Procs |-> "none"] /\ job = [p \in Procs |-> NoJob]
  /\ holder = Nobody /\ nextId = 1 /\ cut = {}
  /\ left = [touch |-> MaxTouches, rewind |-> MaxRewinds, fault |-> MaxFaults, crash |-> MaxCrashes]

Set(p, s) == state' = [state EXCEPT ![p] = s]
Spend(what) == left[what] > 0 /\ left' = [left EXCEPT ![what] = @ - 1]

-----------------------------------------------------------------------------
(* Loading and refreshing: stat first, read after. *)

LoadStat(p) ==
  /\ state[p].pc = "absent"
  /\ Set(p, [Absent EXCEPT !.pc = "loading", !.statFile = disk.ver, !.statMeta = meta.ver])
  /\ UNCHANGED <<disk, meta, cache, save, job, holder, nextId, cut, left>>

\* The history and the meta as they are, stamped with what the files were before.
Restored(p, msgs) ==
  [state[p] EXCEPT !.msgs = msgs, !.known = @ \cup ToSet(msgs), !.moved = FALSE,
                   !.metaMoved = FALSE, !.seq = meta.seq,
                   !.seen = state[p].statFile, !.metaSeen = state[p].statMeta,
                   !.statFile = 0, !.statMeta = 0]

LoadRead(p) ==
  /\ state[p].pc = "loading"
  /\ Set(p, [Restored(p, disk.msgs) EXCEPT !.pc = "idle", !.diverged = FALSE])
  /\ UNCHANGED <<disk, meta, cache, save, job, holder, nextId, cut, left>>

\* readSnapshotAt ignores a messages.json it cannot read: the session opens empty.
LoadReadFails(p) ==
  /\ state[p].pc = "loading" /\ Spend("fault")
  /\ Set(p, [Restored(p, <<>>) EXCEPT !.pc = "idle", !.diverged = disk.msgs # <<>>])
  /\ UNCHANGED <<disk, meta, cache, save, job, holder, nextId, cut>>

\* Past the refresh; a turn also takes over the counter another process moved.
Entered(s) ==
  [s EXCEPT !.pc = s.goal, !.goal = "turn", !.statFile = 0, !.statMeta = 0,
            !.seq = IF s.goal = "turn" THEN Larger(@, meta.seq) ELSE @]

\* A turn, and a rewind, takes the turn lock, then refreshFromDiskIfChanged: a State whose history moved
\* is left alone, and so is one whose files are what it last saw.
BeginTurn(p, goal) ==
  /\ state[p].pc = "idle" /\ holder = Nobody /\ save[p] = "none"
  /\ goal = "rewind" => left.rewind > 0
  /\ holder' = p
  /\ LET s == [state[p] EXCEPT !.goal = goal] IN
     IF s.moved \/ (s.seen = disk.ver /\ s.metaSeen = meta.ver)
     THEN Set(p, Entered(s))
     ELSE Set(p, [s EXCEPT !.pc = "refresh", !.statFile = disk.ver, !.statMeta = meta.ver])
  /\ UNCHANGED <<disk, meta, cache, save, job, nextId, cut, left>>

\* The bundle is read.  A file older than this State changes nothing, the rest of the
\* bundle included; a newer one replaces the history, which no encoding describes any more.
RefreshRead(p) ==
  /\ state[p].pc = "refresh"
  /\ LET s == state[p]
         changed == s.seen # s.statFile IN
     CASE changed /\ ~Newer(disk.msgs, s.msgs) -> Set(p, Entered(s)) /\ UNCHANGED cache
       [] changed /\ Newer(disk.msgs, s.msgs) ->
            /\ Set(p, Entered(Restored(p, disk.msgs)))
            /\ cache' = [cache EXCEPT ![p].moved = TRUE, ![p].edited = TRUE]
       [] OTHER -> Set(p, Entered(Restored(p, s.msgs))) /\ UNCHANGED cache
  /\ UNCHANGED <<disk, meta, save, job, holder, nextId, cut, left>>

\* The read fails, or finds a transcript it cannot decode and takes for an empty, older one:
\* the turn goes ahead on the history in memory.
RefreshFails(p) ==
  /\ state[p].pc = "refresh" /\ Spend("fault")
  /\ Set(p, Entered([state[p] EXCEPT !.diverged = TRUE]))
  /\ UNCHANGED <<disk, meta, cache, save, job, holder, nextId, cut>>

-----------------------------------------------------------------------------
(* What a turn and the surfaces around it do to a State. *)

\* Mutant: the revision does not move with the message.
AppendUnmarked(p) ==
  /\ state[p].pc = "turn" /\ save[p] = "none" /\ nextId <= MaxMsgs
  /\ nextId' = nextId + 1
  /\ Set(p, [state[p] EXCEPT !.msgs = Append(@, nextId), !.known = @ \cup {nextId}])
  /\ save' = [save EXCEPT ![p] = "wanted"]
  /\ UNCHANGED <<disk, meta, cache, job, holder, cut, left>>

\* AddMessage: the message, then a save.
Append1(p) ==
  /\ state[p].pc = "turn" /\ save[p] = "none" /\ nextId <= MaxMsgs
  /\ nextId' = nextId + 1
  /\ Set(p, [state[p] EXCEPT !.msgs = Append(@, nextId), !.known = @ \cup {nextId}, !.moved = TRUE])
  /\ cache' = [cache EXCEPT ![p].moved = TRUE]
  /\ save' = [save EXCEPT ![p] = "wanted"]
  /\ UNCHANGED <<disk, meta, job, holder, cut, left>>

\* A rewind cuts the history and saves; then it saves once more, as the first save only logs
\* its failure.
Rewind(p) ==
  /\ state[p].pc = "rewind" /\ Spend("rewind")
  /\ \E n \in 0..(Len(state[p].msgs) - 1) :
       /\ Set(p, [state[p] EXCEPT !.pc = "rewound", !.msgs = SubSeq(@, 1, n), !.moved = TRUE])
       /\ cut' = cut \cup ToSet(SubSeq(state[p].msgs, n + 1, Len(state[p].msgs)))
  /\ cache' = [cache EXCEPT ![p].moved = TRUE, ![p].edited = TRUE]
  /\ save' = [save EXCEPT ![p] = "wanted"]
  /\ UNCHANGED <<disk, meta, job, holder, nextId>>

RewindSaves(p) ==
  /\ state[p].pc = "rewound" /\ save[p] = "none"
  /\ Set(p, [state[p] EXCEPT !.pc = "saved"])
  /\ save' = [save EXCEPT ![p] = "wanted"]
  /\ UNCHANGED <<disk, meta, cache, job, holder, nextId, cut, left>>

\* RecordActivityOutcome at the end of a turn.
Outcome(p) ==
  /\ state[p].pc = "turn" /\ save[p] = "none" /\ state[p].seq < MaxTurns
  /\ Set(p, [state[p] EXCEPT !.seq = @ + 1])
  /\ save' = [save EXCEPT ![p] = "wanted"]
  /\ UNCHANGED <<disk, meta, cache, job, holder, nextId, cut, left>>

\* The turn is over; or the rewind is, done or refused for an index out of range.
EndTurn(p) ==
  /\ state[p].pc \in {"turn", "rewind", "saved"} /\ save[p] = "none"
  /\ holder' = Nobody
  /\ Set(p, [state[p] EXCEPT !.pc = "idle"])
  /\ UNCHANGED <<disk, meta, cache, save, job, nextId, cut, left>>

\* A mode, a model, a tag (own meta moved) or a sidecar changes outside any turn.
Touch(p, own) ==
  /\ state[p].pc \in {"idle", "turn"} /\ save[p] = "none" /\ Spend("touch")
  /\ Set(p, [state[p] EXCEPT !.metaMoved = @ \/ own])
  /\ save' = [save EXCEPT ![p] = "wanted"]
  /\ UNCHANGED <<disk, meta, cache, job, holder, nextId, cut>>

-----------------------------------------------------------------------------
(* A save: messages.json, then session.json, under the lock of the bundle. *)

\* Mutant: the age of the file is not asked for.
StaleNever(p) == FALSE

\* staleAgainstDisk: the history stayed where it was and the file holds a newer one.
Stale(p) ==
  LET s == state[p] IN ~s.moved /\ s.seen # disk.ver /\ Newer(disk.msgs, s.msgs)
\* The entry of the cache still describes the file.
Usable(p) == cache[p].ver = disk.ver
\* encodeMessagesFile: a history that only grew is spliced onto what was written last.
Encoded(p) ==
  LET ours == state[p].msgs
      base == cache[p].msgs IN
  IF Usable(p) /\ ~cache[p].edited /\ Len(base) > 0 /\ Len(ours) > Len(base)
  THEN base \o SubSeq(ours, Len(base) + 1, Len(ours))
  ELSE ours
Unchanged(p) ==
  \/ Stale(p)
  \/ Usable(p) /\ ~cache[p].moved
  \/ Encoded(p) = (IF Usable(p) THEN cache[p].msgs ELSE disk.msgs)

WriteMessages(p) ==
  /\ save[p] = "wanted" /\ \A q \in Procs : save[q] # "meta"
  /\ save' = [save EXCEPT ![p] = "meta"]
  /\ job' = [job EXCEPT ![p] =
       [stale |-> Stale(p),
        skipMeta |-> Unchanged(p) /\ ~state[p].metaMoved /\ state[p].seq <= meta.seq]]
  /\ IF Unchanged(p)
     THEN /\ UNCHANGED disk
          /\ cache' = IF Stale(p) THEN cache
                      ELSE [cache EXCEPT ![p] = [ver |-> disk.ver, msgs |-> Encoded(p),
                                                 moved |-> FALSE, edited |-> FALSE]]
     ELSE LET v == NewFileVersion IN
          /\ disk' = [msgs |-> Encoded(p), ver |-> v]
          /\ cache' = [cache EXCEPT ![p] = [ver |-> v, msgs |-> Encoded(p),
                                            moved |-> FALSE, edited |-> FALSE]]
  /\ state' = [q \in Procs |->
       IF q = holder /\ q # p /\ ~Unchanged(p)
       THEN [state[q] EXCEPT !.diverged = TRUE] ELSE state[q]]
  /\ UNCHANGED <<meta, holder, nextId, cut, left>>

WriteMeta(p) ==
  /\ save[p] = "meta"
  /\ save' = [save EXCEPT ![p] = "none"] /\ job' = [job EXCEPT ![p] = NoJob]
  /\ LET j == job[p]
         v == NewMetaVersion
         \* What a save that was not stale knows of messages.json.
         Current(s) == IF j.stale THEN s
                       ELSE [s EXCEPT !.seen = disk.ver, !.moved = FALSE, !.diverged = FALSE] IN
     IF j.skipMeta
     THEN Set(p, Current(state[p])) /\ UNCHANGED meta
     ELSE /\ meta' = [count |-> IF j.stale THEN meta.count ELSE Len(state[p].msgs),
                      of |-> IF j.stale THEN meta.of ELSE disk.ver,
                      seq |-> Larger(state[p].seq, meta.seq), ver |-> v]
          /\ Set(p, Current([state[p] EXCEPT !.metaMoved = FALSE, !.metaSeen = v]))
  /\ UNCHANGED <<disk, cache, holder, nextId, cut, left>>

\* A write fails, before the transcript or after it.
SaveFails(p) ==
  /\ save[p] # "none" /\ Spend("fault")
  /\ save' = [save EXCEPT ![p] = "none"] /\ job' = [job EXCEPT ![p] = NoJob]
  /\ Set(p, [state[p] EXCEPT !.diverged = @ \/ state[p].moved])
  /\ UNCHANGED <<disk, meta, cache, holder, nextId, cut>>

\* The process dies, within a save or outside one; the locks go with it.
Crash(p) ==
  /\ state[p].pc # "absent" /\ Spend("crash")
  /\ Set(p, Absent)
  /\ cache' = [cache EXCEPT ![p] = NoCache]
  /\ save' = [save EXCEPT ![p] = "none"] /\ job' = [job EXCEPT ![p] = NoJob]
  /\ holder' = IF holder = p THEN Nobody ELSE holder
  /\ UNCHANGED <<disk, meta, nextId, cut>>

-----------------------------------------------------------------------------
ReadStep(p) ==
  \/ LoadStat(p) \/ LoadRead(p) \/ LoadReadFails(p)
  \/ BeginTurn(p, "turn") \/ BeginTurn(p, "rewind") \/ RefreshRead(p) \/ RefreshFails(p)
ChangeStep(p) ==
  \/ Append1(p) \/ Rewind(p) \/ RewindSaves(p) \/ Outcome(p) \/ EndTurn(p)
  \/ Touch(p, TRUE) \/ Touch(p, FALSE)
SaveStep(p) == WriteMessages(p) \/ WriteMeta(p) \/ SaveFails(p) \/ Crash(p)
BundleNext == \E p \in Procs : ReadStep(p) \/ ChangeStep(p) \/ SaveStep(p)

BundleSpec == BundleInit /\ [][BundleNext]_bundleVars

-----------------------------------------------------------------------------
Histories == UNION {[1..n -> Ids] : n \in 0..MaxMsgs}
MaybeVersion == Versions \cup {0}

\* Type invariant of the files, the States and the cache; every history names a message at
\* most once.
BundleTypeOK ==
  /\ disk \in [msgs : Histories, ver : Versions]
  /\ meta \in [count : 0..MaxMsgs, of : Versions, seq : 0..MaxTurns, ver : Versions]
  /\ state \in [Procs -> [pc : {"absent", "loading", "idle", "refresh", "turn",
                                "rewind", "rewound", "saved"},
                          goal : {"turn", "rewind"},
                          msgs : Histories, seen : MaybeVersion, metaSeen : MaybeVersion,
                          moved : BOOLEAN, metaMoved : BOOLEAN, seq : 0..MaxTurns,
                          statFile : MaybeVersion, statMeta : MaybeVersion,
                          diverged : BOOLEAN, known : SUBSET Ids]]
  /\ cache \in [Procs -> [ver : MaybeVersion, msgs : Histories, moved : BOOLEAN, edited : BOOLEAN]]
  /\ save \in [Procs -> {"none", "wanted", "meta"}]
  /\ job \in [Procs -> [stale : BOOLEAN, skipMeta : BOOLEAN]]
  /\ holder \in Procs \cup {Nobody} /\ nextId \in 1..(MaxMsgs + 1) /\ cut \subseteq Ids
  /\ Cardinality(ToSet(disk.msgs)) = Len(disk.msgs)
  /\ \A p \in Procs : Cardinality(ToSet(state[p].msgs)) = Len(state[p].msgs)

\* An entry of the cache that would be used holds the very history in memory, once a save
\* settled it: what the next save splices onto is neither behind nor beside the truth.
CacheCoherent ==
  \A p \in Procs :
    save[p] = "none" /\ Usable(p) /\ ~cache[p].moved /\ ~state[p].diverged
      => cache[p].msgs = state[p].msgs /\ disk.msgs = state[p].msgs

\* A State whose stamp names the file as it stands, and whose history did not move since,
\* holds what the file holds: both guards of disk_refresh.go trust exactly this.
StampTellsTruth ==
  \A p \in Procs :
    LET s == state[p] IN
    s.pc \notin {"absent", "loading"} /\ save[p] = "none" /\ ~s.moved /\ s.seen = disk.ver /\ ~s.diverged
      => s.msgs = disk.msgs

\* The count of session.json is used by a listing only when it names the file as it stands;
\* then it is right, whatever was cut short or crashed in between.
CountIsTrue == meta.of = disk.ver => meta.count = Len(disk.msgs)

\* A save drops from the transcript only messages its State once held: it never overwrites
\* a turn it has not seen, unless a read or a save of its own had failed.
NothingUnseenIsDropped ==
  [][\A p \in Procs :
       save[p] = "wanted" /\ save'[p] = "meta" /\ ~state[p].diverged
         => ToSet(disk.msgs) \ ToSet(disk'.msgs) \subseteq state[p].known]_bundleVars

\* A turn, and a rewind, begins on everything the transcript holds.
TurnSeesAll ==
  [][\A p \in Procs :
       state[p].pc \in {"idle", "refresh"} /\ state'[p].pc \in {"turn", "rewind"}
         /\ ~state'[p].diverged
         => ToSet(disk.msgs) \subseteq ToSet(state'[p].msgs)]_bundleVars

\* The activity counter of a session is never taken back; and as long as no save failed, the
\* turn that runs has counted every outcome before it, so that no two get one number.
SeqGrows ==
  [][/\ meta'.seq >= meta.seq
     /\ left'.fault = MaxFaults =>
          \A p \in Procs : state'[p].pc = "turn" => state'[p].seq >= meta'.seq]_bundleVars

\* Known not to hold: a message a rewind took off the disk stays off it.
CutStaysCut ==
  [][\A m \in cut : m \in ToSet(disk'.msgs) => m \in ToSet(disk.msgs)]_bundleVars

\* The two files and what the processes keep of them tell one story: the cache of encoded
\* histories encodes the history, the stamp of a State and the count in the bundle are true
\* of the transcript they name.
BundleIsConsistent == BundleTypeOK /\ CacheCoherent /\ StampTellsTruth /\ CountIsTrue

\* No save, of whichever process and on whatever it had read, takes the bundle back: neither
\* its transcript nor the counter of its turns.
SavesGoForward == NothingUnseenIsDropped /\ SeqGrows
=============================================================================
