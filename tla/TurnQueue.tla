------------------------------ MODULE TurnQueue ------------------------------
(***************************************************************************)
(* Follow-ups written while a session's turn runs (internal/session:       *)
(* turn_queue.go, manager_queue.go, the boundary loop of manager.go).      *)
(* Requests of several clients change the queue while the turn's goroutine *)
(* reads it between steps, drains or closes it at the turn boundary, and   *)
(* puts back what a run did not read.  A change is announced after the     *)
(* lock is released: the announcer reads the queue again and sends it with *)
(* its version, down pipes that may reorder.                               *)
(*                                                                         *)
(* A message is its number in the order of acceptance; text and images are *)
(* left out.  Turns of one session exclude each other (TurnLock).          *)
(***************************************************************************)
EXTENDS Naturals, FiniteSets, Sequences, SequencesExt

CONSTANTS
    Clients,        \* goroutines serving requests for this session
    MaxId,          \* bound: messages accepted
    QueueCap,       \* MaxQueuedMessages
    MaxFollowUps,   \* maxQueuedFollowUpRuns
    MaxAfterTurns,  \* maxQueuedAfterTurnRuns
    MaxTurns,       \* bound: turns
    MaxVersion,     \* bound: versions the edits and the empty reads may spend
    MaxFrames       \* bound: announcements under way

ASSUME QueueBoundsAssumption ==
    /\ MaxId \in Nat /\ MaxTurns \in Nat /\ MaxVersion \in Nat /\ MaxFrames \in Nat
    /\ QueueCap \in Nat
    /\ MaxFollowUps \in Nat /\ MaxAfterTurns \in Nat

VARIABLES
    queue,      \* State.queue: rows in order
    open,       \* State.queueOpen
    version,    \* State.queueVersion
    notifier,   \* State.queueNotify is installed
    op,         \* where each request stands after its change
    pc,         \* where the turn's goroutine stands
    announce,   \* the turn's goroutine has a change to announce
    batch,      \* the rows the boundary took and no run has read
    followUps,  \* steer batches this turn was charged for
    afterTurns, \* deferred prompts this turn was charged for
    frames,     \* announcements sent and not received
    client,     \* what a client shows
    nextId,     \* history: the number of the next accepted message
    read,       \* history: messages that entered the conversation
    taken,      \* history: messages an operator took back or cleared
    dropped,    \* history: steer messages dropped with their turn
    edited,     \* history: messages switched to steer while the queue was shut
    turns,      \* history: turns admitted
    runs        \* history: runs of the current turn

queueVars == <<queue, open, version>>
turnVars == <<pc, announce, batch, followUps, afterTurns, runs, turns>>
fates == <<read, taken, dropped>>
turnQueueVars == <<queueVars, notifier, op, turnVars, frames, client, nextId, fates, edited>>

Modes == {"steer", "after_turn"}
Row == [id : 1 .. MaxId, mode : Modes]
Ids(rows) == {rows[i].id : i \in DOMAIN rows}

QueueTypeOK ==
    /\ queue \in Seq(Row)
    /\ open \in BOOLEAN
    /\ version \in Nat
    /\ notifier \in BOOLEAN
    /\ op \in [Clients -> {"idle", "notify", "edited", "recheck", "publish"}]
    /\ pc \in {"idle", "running", "boundary", "charge", "capped", "starting",
               "closing", "released"}
    /\ announce \in BOOLEAN
    /\ batch \in Seq(Row)
    /\ followUps \in 0 .. MaxFollowUps + 1
    /\ afterTurns \in 0 .. MaxAfterTurns + 1
    /\ \A f \in frames \cup {client} : f.version \in Nat /\ f.rows \in Seq(Row)
    /\ nextId \in 1 .. MaxId + 1
    /\ read \cup taken \cup dropped \cup edited \subseteq 1 .. MaxId
    /\ turns \in 0 .. MaxTurns
    /\ runs \in Nat

QueueInit ==
    /\ queue = <<>> /\ open = FALSE /\ version = 0
    /\ notifier = FALSE
    /\ op = [c \in Clients |-> "idle"]
    /\ pc = "idle" /\ announce = FALSE
    /\ batch = <<>> /\ followUps = 0 /\ afterTurns = 0
    /\ frames = {}
    /\ client = [version |-> 0, rows |-> <<>>]
    /\ nextId = 1
    /\ read = {} /\ taken = {} /\ dropped = {} /\ edited = {}
    /\ turns = 0 /\ runs = 0

-----------------------------------------------------------------------------
(* Vocabulary *)

\* The rows of one mode, in the order they have.
OfMode(rows, mode) ==
    LET at == {i \in DOMAIN rows : rows[i].mode = mode}
        upTo(i) == {j \in at : j <= i}
    IN  [n \in 1 .. Cardinality(at) |-> rows[CHOOSE i \in at : Cardinality(upTo(i)) = n]]
TakeSteer(rows) == OfMode(rows, "steer")
KeepAfterTurn(rows) == OfMode(rows, "after_turn")

Bump == version' = version + 1

\* PublishMessageQueue: list and version are read under one lock (QueueSnapshot).
Publish ==
    /\ Cardinality(frames) < MaxFrames
    /\ frames' = frames \cup {[version |-> version, rows |-> queue]}

-----------------------------------------------------------------------------
(* Requests *)

\* Mutant: a follow-up is accepted whether or not a turn would read it.
EnqueueAnyway(c, mode) ==
    /\ op[c] = "idle"
    /\ Len(queue) < QueueCap
    /\ nextId <= MaxId
    /\ queue' = Append(queue, [id |-> nextId, mode |-> mode])
    /\ nextId' = nextId + 1
    /\ Bump
    /\ op' = [op EXCEPT ![c] = "notify"]
    /\ UNCHANGED <<open, notifier, turnVars, frames, client, fates, edited>>

Enqueue(c, mode) ==
    /\ op[c] = "idle"
    /\ open
    /\ Len(queue) < QueueCap
    /\ nextId <= MaxId
    /\ queue' = Append(queue, [id |-> nextId, mode |-> mode])
    /\ nextId' = nextId + 1
    /\ Bump
    /\ op' = [op EXCEPT ![c] = "notify"]
    /\ UNCHANGED <<open, notifier, turnVars, frames, client, fates, edited>>

TakeBack(c, i) ==
    /\ op[c] = "idle" /\ version < MaxVersion
    /\ queue' = RemoveAt(queue, i)
    /\ taken' = taken \cup {queue[i].id}
    /\ Bump
    /\ op' = [op EXCEPT ![c] = "edited"]
    /\ UNCHANGED <<open, notifier, turnVars, frames, client, nextId, read, dropped,
                   edited>>

\* Mutant: a change of mode spends no version.
SetModeQuietly(c, i, mode) ==
    /\ op[c] = "idle" /\ version < MaxVersion
    /\ queue' = [queue EXCEPT ![i].mode = mode]
    /\ op' = [op EXCEPT ![c] = "edited"]
    /\ UNCHANGED <<open, version, notifier, turnVars, frames, client, nextId, fates,
                   edited>>

SetMode(c, i, mode) ==
    /\ op[c] = "idle" /\ version < MaxVersion
    /\ queue' = [queue EXCEPT ![i].mode = mode]
    /\ edited' = IF ~ open /\ mode = "steer" THEN edited \cup {queue[i].id}
                                             ELSE edited
    /\ Bump
    /\ op' = [op EXCEPT ![c] = "edited"]
    /\ UNCHANGED <<open, notifier, turnVars, frames, client, nextId, fates>>

\* Clearing an empty queue spends a version and announces nothing of itself.
Clear(c) ==
    /\ op[c] = "idle" /\ version < MaxVersion
    /\ queue' = <<>>
    /\ taken' = taken \cup Ids(queue)
    /\ Bump
    /\ op' = [op EXCEPT ![c] = IF queue = <<>> THEN "recheck" ELSE "edited"]
    /\ UNCHANGED <<open, notifier, turnVars, frames, client, nextId, read, dropped,
                   edited>>

\* notifyQueue: nothing is sent when the turn has taken its notifier away.
Notify(c) ==
    /\ op[c] \in {"notify", "edited"}
    /\ IF notifier THEN Publish ELSE UNCHANGED frames
    /\ op' = [op EXCEPT ![c] = IF @ = "notify" THEN "idle" ELSE "recheck"]
    /\ UNCHANGED <<queueVars, notifier, turnVars, client, nextId, fates, edited>>

\* Mutant: the request leaves the announcement to the turn's notifier.
RecheckNothing(c) ==
    /\ op[c] = "recheck"
    /\ op' = [op EXCEPT ![c] = "idle"]
    /\ UNCHANGED <<queueVars, notifier, turnVars, frames, client, nextId, fates,
                   edited>>

\* An edit of a shut queue is announced by the request itself.
Recheck(c) ==
    /\ op[c] = "recheck"
    /\ op' = [op EXCEPT ![c] = IF open THEN "idle" ELSE "publish"]
    /\ UNCHANGED <<queueVars, notifier, turnVars, frames, client, nextId, fates,
                   edited>>

PublishEdit(c) ==
    /\ op[c] = "publish"
    /\ Publish
    /\ op' = [op EXCEPT ![c] = "idle"]
    /\ UNCHANGED <<queueVars, notifier, turnVars, client, nextId, fates, edited>>

-----------------------------------------------------------------------------
(* The turn *)

\* The turn's goroutine announces a change before its next step.
Goto(from, to) == pc = from /\ ~ announce /\ pc' = to

Announce ==
    /\ announce
    /\ announce' = FALSE
    /\ IF notifier THEN Publish ELSE UNCHANGED frames
    /\ UNCHANGED <<queueVars, notifier, op, pc, batch, followUps, afterTurns, runs,
                   turns, client, nextId, fates, edited>>

\* beginTurn installs the notifier, then OpenMessageQueue.
OpenMessageQueue ==
    /\ Goto("idle", "running")
    /\ turns < MaxTurns
    /\ turns' = turns + 1
    /\ notifier' = TRUE
    /\ queue' = IF open THEN KeepAfterTurn(queue) ELSE queue
    /\ dropped' = IF open THEN dropped \cup Ids(TakeSteer(queue)) ELSE dropped
    /\ open' = TRUE
    /\ Bump
    /\ announce' = TRUE
    /\ followUps' = 0 /\ afterTurns' = 0 /\ runs' = 1
    /\ UNCHANGED <<op, batch, frames, client, nextId, read, taken, edited>>

\* TakeQueuedMessages, between two steps of a run.
ReadQueuedMessages ==
    /\ pc = "running" /\ ~ announce
    /\ LET steer == TakeSteer(queue) IN
       /\ steer # <<>> \/ version < MaxVersion
       /\ queue' = KeepAfterTurn(queue)
       /\ read' = read \cup Ids(steer)
       /\ announce' = (steer # <<>>)
    /\ Bump
    /\ UNCHANGED <<open, notifier, op, pc, batch, followUps, afterTurns, runs, turns,
                   frames, client, nextId, taken, dropped, edited>>

\* A run ends with an answer (or an output cap) and the boundary decides, or
\* it ends any other way - Stop, an error, a permission resume - and the turn is over.
RunEnds ==
    /\ \/ Goto("running", "boundary")
       \/ Goto("running", "closing")
    /\ UNCHANGED <<queueVars, notifier, op, announce, batch, followUps, afterTurns,
                   runs, turns, frames, client, nextId, fates, edited>>

TakeQueuedMessagesOrClose ==
    /\ LET steer == TakeSteer(queue) IN
       \/ /\ steer # <<>>
          /\ Goto("boundary", "charge")
          /\ batch' = steer
          /\ queue' = KeepAfterTurn(queue)
          /\ announce' = TRUE
          /\ UNCHANGED open
       \/ /\ steer = <<>> /\ queue # <<>>
          /\ Goto("boundary", "charge")
          /\ batch' = <<Head(queue)>>
          /\ queue' = Tail(queue)
          /\ announce' = TRUE
          /\ UNCHANGED open
       \/ /\ queue = <<>>
          /\ Goto("boundary", "closing")
          /\ open' = FALSE
          /\ UNCHANGED <<queue, batch, announce>>
    /\ Bump
    /\ UNCHANGED <<notifier, op, followUps, afterTurns, runs, turns, frames, client,
                   nextId, fates, edited>>

ReturnQueuedMessages(rows) ==
    /\ queue' = rows \o queue
    /\ IF rows = <<>> THEN UNCHANGED version ELSE Bump
    /\ announce' = (rows # <<>>)
    /\ batch' = <<>>
    /\ UNCHANGED open

\* Each kind of delivery is charged to its own bound; over it, the rows go back.
Charge ==
    /\ pc = "charge"
    /\ LET deferred == batch[1].mode = "after_turn"
           over == IF deferred THEN afterTurns >= MaxAfterTurns
                               ELSE followUps >= MaxFollowUps
       IN /\ IF over
               THEN Goto("charge", "capped") /\ ReturnQueuedMessages(batch)
               ELSE Goto("charge", "starting") /\ UNCHANGED <<queueVars, batch, announce>>
          /\ afterTurns' = IF deferred THEN afterTurns + 1 ELSE afterTurns
          /\ followUps' = IF deferred THEN followUps ELSE followUps + 1
    /\ UNCHANGED <<notifier, op, runs, turns, frames, client, nextId, fates, edited>>

\* Mutant: the close drops the deferred messages with the steer ones.
CloseQueueAll ==
    LET changed == open \/ queue # <<>>
    IN  /\ queue' = <<>>
        /\ dropped' = dropped \cup Ids(queue)
        /\ open' = FALSE
        /\ IF changed THEN Bump ELSE UNCHANGED version
        /\ announce' = changed

\* CloseMessageQueue: unread steer messages go with the turn.
CloseQueue ==
    LET left == TakeSteer(queue)
        changed == open \/ left # <<>>
    IN  /\ queue' = KeepAfterTurn(queue)
        /\ dropped' = dropped \cup Ids(left)
        /\ open' = FALSE
        /\ IF changed THEN Bump ELSE UNCHANGED version
        /\ announce' = changed

Capped ==
    /\ Goto("capped", "closing")
    /\ CloseQueue
    /\ UNCHANGED <<notifier, op, batch, followUps, afterTurns, runs, turns, frames,
                   client, nextId, read, taken, edited>>

\* The run of a queued prompt: its prompt enters the conversation, ...
PromptRecorded ==
    /\ Goto("starting", "running")
    /\ runs' = runs + 1
    /\ read' = read \cup Ids(batch)
    /\ batch' = <<>>
    /\ UNCHANGED <<queueVars, notifier, op, announce, followUps, afterTurns, turns,
                   frames, client, nextId, taken, dropped, edited>>

\* ... or the run ends before it does: a Stop that landed first, a hook's refusal.
PromptUnread ==
    /\ Goto("starting", "closing")
    /\ runs' = runs + 1
    /\ ReturnQueuedMessages(KeepAfterTurn(batch))
    /\ dropped' = dropped \cup Ids(TakeSteer(batch))
    /\ UNCHANGED <<notifier, op, followUps, afterTurns, turns, frames, client, nextId,
                   read, taken, edited>>

\* finish: the queue is closed, the close announced, the notifier let go.
CloseMessageQueue ==
    /\ Goto("closing", "released")
    /\ CloseQueue
    /\ UNCHANGED <<notifier, op, batch, followUps, afterTurns, runs, turns, frames,
                   client, nextId, read, taken, edited>>

Finish ==
    /\ Goto("released", "idle")
    /\ notifier' = FALSE
    /\ UNCHANGED <<queueVars, op, announce, batch, followUps, afterTurns, runs, turns,
                   frames, client, nextId, fates, edited>>

-----------------------------------------------------------------------------
(* A client keeps the highest version it has seen. *)

Receive(f) ==
    /\ f \in frames
    /\ frames' = frames \ {f}
    /\ client' = IF f.version < client.version THEN client ELSE f
    /\ UNCHANGED <<queueVars, notifier, op, turnVars, nextId, fates, edited>>

Request(c) ==
    \/ \E mode \in Modes : Enqueue(c, mode)
    \/ \E i \in DOMAIN queue : TakeBack(c, i)
    \/ \E i \in DOMAIN queue, mode \in Modes : SetMode(c, i, mode)
    \/ Clear(c)
    \/ Notify(c) \/ Recheck(c) \/ PublishEdit(c)

Turn ==
    \/ Announce \/ OpenMessageQueue \/ ReadQueuedMessages \/ RunEnds
    \/ TakeQueuedMessagesOrClose \/ Charge \/ Capped
    \/ PromptRecorded \/ PromptUnread \/ CloseMessageQueue \/ Finish

QueueNext ==
    \/ \E c \in Clients : Request(c)
    \/ Turn
    \/ \E f \in frames : Receive(f)

QueueSpec == QueueInit /\ [][QueueNext]_turnQueueVars

-----------------------------------------------------------------------------
(* Properties *)

\* A message the queue accepted is in one place: waiting, in the hands of the
\* boundary, in the conversation, back with an operator, or dropped with its turn.
OnePlace ==
    LET places == <<Ids(queue), Ids(batch), read, taken, dropped>> IN
    /\ Cardinality(Ids(queue)) = Len(queue)
    /\ \A m \in 1 .. nextId - 1 :
           Cardinality({k \in DOMAIN places : m \in places[k]}) = 1

\* Two answers about the queue with one version tell the same (bumpQueueLocked,
\* QueueSnapshot): a client can choose between them by the version alone.
VersionNamesContent ==
    LET answers == frames \cup {client, [version |-> version, rows |-> queue]} IN
    \A f, g \in answers : f.version = g.version => f.rows = g.rows

\* Once nothing is under way every client shows the queue as it is, however
\* the announcements were ordered, turns included that closed meanwhile.
ClientConverges ==
    /\ \A c \in Clients : op[c] = "idle"
    /\ ~ announce /\ frames = {}
    => client.rows = queue

\* A queue that refuses follow-ups holds no steer message, except one an
\* operator made steer while it was shut: none is accepted by a turn that is
\* already over (TakeQueuedMessagesOrClose).
SteerNotStranded ==
    ~ open => \A i \in DOMAIN queue :
                  queue[i].mode = "steer" => queue[i].id \in edited

\* A Stop, a refused prompt and an exhausted bound drop steer messages only.
NeverDropsDeferred ==
    [][\A r \in ToSet(queue) \cup ToSet(batch) :
           r.mode = "after_turn" => r.id \notin dropped']_turnQueueVars

\* One admission holds the session for a bounded number of runs, whatever the
\* operators keep writing (maxQueuedFollowUpRuns, maxQueuedAfterTurnRuns).
RunsBounded == runs <= 1 + MaxFollowUps + MaxAfterTurns

\* turn_queue.go:16: what one session may hold at once.
QueueBounded == Len(queue) <= QueueCap

\* turn_queue.go:432: the oldest after_turn message first.
AfterTurnInOrder ==
    [][(batch = <<>> /\ batch' # <<>> /\ batch'[1].mode = "after_turn")
          => \A i \in DOMAIN queue' : batch'[1].id < queue'[i].id]_turnQueueVars

\* The queue, the boundary and what was announced of them tell one story: a message is in one
\* place, a version names one content, the runs of an admission are bounded.
QueueIsConsistent == QueueTypeOK /\ OnePlace /\ VersionNamesContent /\ RunsBounded
=============================================================================
