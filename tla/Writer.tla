------------------------------- MODULE Writer -------------------------------
(***************************************************************************)
(* The writer task (swiftload-core/src/task/writer.rs): one task that owns *)
(* the part file, fed by a bounded queue, and the only one that commits    *)
(* checkpoints to the store.  Around it: the kernel's page cache and the   *)
(* disk under it, the store row a checkpoint overwrites, and a process     *)
(* that can be killed, or lose power, between any two steps and then       *)
(* resume from the row.                                                    *)
(*                                                                         *)
(* A chunk is one block of the file.  A RangeSet is the set of the blocks  *)
(* it covers (RangeSet.tla shows that its span arithmetic computes the set *)
(* operations used here).  What a block contains is not modelled.          *)
(***************************************************************************)
EXTENDS Integers, Sequences, FiniteSets

CONSTANTS
  NBlocks,           \* the length of the file, in blocks
  WRITER_QUEUE,      \* capacity of the channel, in messages
  MAX_COALESCE,      \* largest coalesced write, in blocks
  CHECKPOINT_BYTES,  \* a checkpoint is due once this much was written
  PARANOID_REWIND,   \* what a resume gives back at the end of every span
  MaxSessions,       \* bound: sessions (starts and resumes) in one behaviour
  MaxOverlaps        \* bound: chunks sent a second time in one session

ASSUME WriterAssumption ==
  /\ NBlocks \in Nat /\ PARANOID_REWIND \in Nat
  /\ MaxSessions \in Nat /\ MaxOverlaps \in Nat
  /\ WRITER_QUEUE \in Nat \ {0} /\ MAX_COALESCE \in Nat \ {0}
  /\ CHECKPOINT_BYTES \in Nat \ {0}

Block == 0 .. NBlocks - 1

VARIABLES
  \* the part file
  exists,    \* does the part file exist?
  cache,     \* blocks whose data a read of the file returns
  disk,      \* those of them that a power loss cannot take
  \* the store
  row,       \* completed_ranges, as the last commit left it
  past,      \* earlier commits a power loss may bring back
  \* the writer task
  wpc,       \* where run() is
  queue,     \* the channel
  pending,   \* pending[b]: buffered chunks of block b
  pendingBytes, since, done,
  ctl,       \* the message being handled, when it is not data
  \* the task that started the download
  client, final,
  \* history and bounds
  accepted,  \* blocks whose send() returned before finish() was called
  overlaps,  \* chunks sent again this session
  session

file   == <<exists, cache, disk>>
store  == <<row, past>>
buffer == <<pending, pendingBytes, since, done>>
starter == <<client, final>>
history == <<accepted, overlaps, session>>
vars == <<file, store, wpc, queue, buffer, ctl, starter, history>>

Data(b) == [type |-> "data", block |-> b]
Sync    == [type |-> "sync"]
Finish  == [type |-> "finish"]

\* What run() handles besides data.  "closed" is recv() returning None: every
\* sender was dropped and the loop falls through to its final checkpoint.
Control == {"none", "sync", "finish", "closed"}
Message == [type : {"data"}, block : Block] \cup [type : {"sync", "finish"}]

NoChunks == [b \in Block |-> 0]

(***************************************************************************)
(* RangeSet::rewind_tails: every span loses its last PARANOID_REWIND       *)
(* blocks, and a span no longer than that disappears.                      *)
(***************************************************************************)
Rewind(S) == {b \in S : \A k \in 0 .. PARANOID_REWIND : b + k \in S}

WriterAlive == wpc # "off"

\* The task has returned: its locals are gone and the receiver is closed.
TaskGone ==
  /\ wpc' = "off" /\ queue' = <<>> /\ ctl' = "none"
  /\ pending' = NoChunks /\ pendingBytes' = 0 /\ since' = 0 /\ done' = {}

Init ==
  /\ exists = FALSE /\ cache = {} /\ disk = {}
  /\ row = {} /\ past = {{}}
  /\ wpc = "off" /\ queue = <<>> /\ ctl = "none"
  /\ pending = NoChunks /\ pendingBytes = 0 /\ since = 0 /\ done = {}
  /\ client = "down" /\ final = {}
  /\ accepted = {} /\ overlaps = 0 /\ session = 0

-----------------------------------------------------------------------------
(* Starting a session, and sending to the writer.                          *)

\* Mutant: an unclean record is thrown away instead of being rewound.
MForget(S) == {}

(***************************************************************************)
(* What the session believes is on disk already: the row, rewound, unless  *)
(* there was no part file to go with it.  Only the copy in memory is reset.*)
(***************************************************************************)
Reconcile(S) == IF exists THEN Rewind(S) ELSE {}

Resume ==
  /\ client \in {"down", "done", "failed"} /\ ~WriterAlive
  /\ session < MaxSessions /\ session' = session + 1
  /\ exists' = TRUE                        \* open_part creates, never truncates
  /\ done' = Reconcile(row)
  /\ wpc' = "recv" /\ queue' = <<>> /\ ctl' = "none"
  /\ pending' = NoChunks /\ pendingBytes' = 0 /\ since' = 0
  /\ client' = "run" /\ final' = {} /\ accepted' = {} /\ overlaps' = 0
  /\ UNCHANGED <<cache, disk, store>>

\* Mutant: the channel has no bound.
MUnboundedSend(b) ==
  /\ WriterAlive /\ client = "run"
  /\ b \notin done \cup accepted
  /\ queue' = Append(queue, Data(b))
  /\ accepted' = accepted \cup {b}
  /\ UNCHANGED <<file, store, wpc, buffer, ctl, starter, overlaps, session>>

\* A worker's WriterHandle::write: a block of a gap it was given, or a block
\* that another worker sent too (a stolen range can overlap its victim's last
\* chunk).
Send(b) ==
  /\ WriterAlive /\ Len(queue) < WRITER_QUEUE
  /\ client = "run"
  /\ \/ b \notin done \cup accepted /\ UNCHANGED overlaps
     \/ b \in accepted /\ overlaps < MaxOverlaps /\ overlaps' = overlaps + 1
  /\ queue' = Append(queue, Data(b))
  /\ accepted' = accepted \cup {b}
  /\ UNCHANGED <<file, store, wpc, buffer, ctl, starter, session>>

\* A worker that drive() has aborted may still get a chunk in behind Finish:
\* abort takes effect at the worker's next await.
SendLate(b) ==
  /\ WriterAlive /\ Len(queue) < WRITER_QUEUE
  /\ client = "finishing" /\ b \notin done \cup accepted
  /\ queue' = Append(queue, Data(b))
  /\ UNCHANGED <<file, store, wpc, buffer, ctl, starter, history>>

SendSync ==
  /\ WriterAlive /\ Len(queue) < WRITER_QUEUE
  /\ client = "run"
  /\ \A i \in DOMAIN queue : queue[i] # Sync
  /\ queue' = Append(queue, Sync)
  /\ UNCHANGED <<file, store, wpc, buffer, ctl, starter, history>>

SendFinish ==
  /\ WriterAlive /\ Len(queue) < WRITER_QUEUE
  /\ client = "run"
  /\ queue' = Append(queue, Finish)
  /\ client' = "finishing"
  /\ UNCHANGED <<file, store, wpc, buffer, ctl, final, history>>

\* Mutant: something else keeps the reply channel open, so that a finish() that
\* was sent never learns that the writer died.
MFinishWaits ==
  /\ ~WriterAlive /\ client = "run"
  /\ client' = "failed"
  /\ UNCHANGED <<file, store, wpc, queue, buffer, ctl, final, history>>

\* finish() on a writer that has died, or that dies holding the reply.
FinishFails ==
  /\ ~WriterAlive /\ client \in {"run", "finishing"}
  /\ client' = "failed"
  /\ UNCHANGED <<file, store, wpc, queue, buffer, ctl, final, history>>

\* The download future is dropped before it calls finish(): its handle and the
\* workers' go with it.
Abandon ==
  /\ client = "run"
  /\ client' = "down"
  /\ UNCHANGED <<file, store, wpc, queue, buffer, ctl, final, history>>

-----------------------------------------------------------------------------
(* run(): receive, drain, flush, checkpoint.                               *)

Buffered(b) == /\ pending' = [pending EXCEPT ![b] = @ + 1]
               /\ pendingBytes' = pendingBytes + 1

\* recv().await returned a message
Receive ==
  /\ wpc = "recv" /\ queue # <<>>
  /\ queue' = Tail(queue)
  /\ LET m == Head(queue) IN
     IF m.type = "data"
     THEN /\ Buffered(m.block)
          /\ wpc' = "drain"
          /\ UNCHANGED ctl
     ELSE /\ ctl' = m.type
          /\ wpc' = "flush"
          /\ UNCHANGED <<pending, pendingBytes>>
  /\ UNCHANGED <<file, store, since, done, starter, history>>

\* recv().await returned None
Closed ==
  /\ wpc = "recv" /\ queue = <<>> /\ client = "down"
  /\ ctl' = "closed" /\ wpc' = "flush"
  /\ UNCHANGED <<file, store, queue, buffer, starter, history>>

\* Mutant: a message is taken from the channel before looking whether it fits.
MDrainLoses ==
  /\ wpc = "drain" /\ queue # <<>>
  /\ queue' = Tail(queue)
  /\ LET m == Head(queue) IN
     IF m.type = "data"
     THEN /\ IF pendingBytes < MAX_COALESCE
             THEN Buffered(m.block) /\ UNCHANGED wpc
             ELSE wpc' = "flush" /\ UNCHANGED <<pending, pendingBytes>>
          /\ UNCHANGED ctl
     ELSE /\ ctl' = m.type
          /\ wpc' = "flush"
          /\ UNCHANGED <<pending, pendingBytes>>
  /\ UNCHANGED <<file, store, since, done, starter, history>>

\* try_recv, while there is room to coalesce
Drain ==
  /\ wpc = "drain" /\ pendingBytes < MAX_COALESCE /\ queue # <<>>
  /\ queue' = Tail(queue)
  /\ LET m == Head(queue) IN
     IF m.type = "data"
     THEN /\ Buffered(m.block)
          /\ UNCHANGED <<wpc, ctl>>
     ELSE /\ ctl' = m.type
          /\ wpc' = "flush"
          /\ UNCHANGED <<pending, pendingBytes>>
  /\ UNCHANGED <<file, store, since, done, starter, history>>

DrainDone ==
  /\ wpc = "drain" /\ (pendingBytes >= MAX_COALESCE \/ queue = <<>>)
  /\ wpc' = "flush"
  /\ UNCHANGED <<file, store, queue, buffer, ctl, starter, history>>

(***************************************************************************)
(* flush_pending walks the buffered chunks in offset order and merges a    *)
(* chunk into the current write when it starts where that write ends.  Two *)
(* copies of a block do not merge: a..e is one write when every block of   *)
(* it is buffered, all but the last of them once.                          *)
(***************************************************************************)
Mergeable(a, e) ==
  /\ \A x \in a .. e : pending[x] > 0
  /\ \A x \in a .. e - 1 : pending[x] = 1
  /\ e - a < MAX_COALESCE

NextWrite(a, e) ==
  /\ a <= e /\ Mergeable(a, e)
  /\ \A x \in Block : x < a => pending[x] = 0
  /\ e + 1 \in Block => ~Mergeable(a, e + 1)

\* Mutant: the whole buffer is dropped once one run of it is written.
MDropRest(a, e) ==
  /\ cache' = cache \cup (a .. e)
  /\ done' = done \cup (a .. e)
  /\ since' = since + (e - a + 1)
  /\ pending' = NoChunks

\* Mutant: a run is recorded one chunk longer than it was written.
MRecordTooFar(a, e) ==
  /\ cache' = cache \cup (a .. e)
  /\ done' = done \cup ((a .. e + 1) \cap Block)
  /\ since' = since + (e - a + 1)
  /\ pending' = [x \in Block |-> IF x \in a .. e THEN pending[x] - 1 ELSE pending[x]]

\* One write_at, which succeeded: insert the run into done and count it.
WriteRun(a, e) ==
  /\ cache' = cache \cup (a .. e)
  /\ done' = done \cup (a .. e)
  /\ since' = since + (e - a + 1)
  /\ pending' = [x \in Block |-> IF x \in a .. e THEN pending[x] - 1 ELSE pending[x]]

FlushStep ==
  /\ wpc = "flush"
  /\ \E a, e \in Block : NextWrite(a, e) /\ WriteRun(a, e)
  /\ UNCHANGED <<exists, disk, store, wpc, queue, pendingBytes, ctl, starter, history>>

\* write_at failed part of the way: nothing of the run is recorded and the task
\* returns the error.
FlushFails ==
  /\ wpc = "flush"
  /\ \E a, e \in Block :
       /\ NextWrite(a, e)
       /\ \E x \in a - 1 .. e - 1 : cache' = cache \cup (a .. x)
  /\ TaskGone
  /\ UNCHANGED <<exists, disk, store, starter, history>>

\* Nothing buffered any more.  A control message checkpoints; data checkpoints
\* when enough was written or, at any moment, when the interval has elapsed.
FlushDone ==
  /\ wpc = "flush" /\ pending = NoChunks
  /\ pendingBytes' = 0
  /\ \/ wpc' = "sync"
     \/ ctl = "none" /\ since < CHECKPOINT_BYTES /\ wpc' = "recv"
  /\ UNCHANGED <<file, store, queue, pending, since, done, ctl, starter, history>>

\* Mutant: the sync is skipped.
MNoSync ==
  /\ wpc = "sync" /\ wpc' = "commit"
  /\ UNCHANGED <<file, store, queue, buffer, ctl, starter, history>>

\* Mutant: the row is committed while the sync is still under way.
MCommitMeanwhile ==
  /\ wpc = "sync" /\ wpc' = "commit"
  /\ disk' = cache /\ row' = done /\ past' = past \cup {row}
  /\ UNCHANGED <<exists, cache, queue, buffer, ctl, starter, history>>

\* durable_checkpoint, first half: sync_data
SyncData ==
  /\ wpc = "sync"
  /\ disk' = cache /\ wpc' = "commit"
  /\ UNCHANGED <<exists, cache, store, queue, buffer, ctl, starter, history>>

\* durable_checkpoint, second half: the sink commits the row.  A data or Sync
\* checkpoint goes on; after Finish, or the end of the loop, the task returns.
Commit ==
  /\ wpc = "commit"
  /\ row' = done /\ past' = past \cup {row}
  /\ IF ctl \in {"none", "sync"}
     THEN /\ wpc' = "recv" /\ ctl' = "none" /\ since' = 0
          /\ UNCHANGED <<queue, pending, pendingBytes, done>>
     ELSE TaskGone
  /\ IF ctl = "finish"
     THEN client' = "done" /\ final' = done
     ELSE UNCHANGED starter
  /\ UNCHANGED <<file, history>>

\* Mutant: a checkpoint that failed is tried again until it succeeds.
MRetryCheckpoint ==
  /\ wpc \in {"sync", "commit"} /\ wpc' = "sync"
  /\ UNCHANGED <<file, store, queue, buffer, ctl, starter, history>>

\* sync_data or the sink failed.  The error of a control message is sent to
\* whoever asked, and only Sync goes on; any other error is the task's result.
CheckpointFails ==
  /\ wpc \in {"sync", "commit"}
  /\ IF ctl = "sync"
     THEN /\ wpc' = "recv" /\ ctl' = "none" /\ since' = 0
          /\ UNCHANGED <<queue, pending, pendingBytes, done>>
     ELSE TaskGone
  /\ client' = IF ctl = "finish" THEN "failed" ELSE client
  /\ UNCHANGED <<file, store, final, history>>

-----------------------------------------------------------------------------
(* The environment: kills and power losses.  Nobody deletes or shortens the *)
(* part file between sessions; Lifecycle.tla has what follows if one does.  *)

NoProcess ==
  /\ TaskGone
  /\ client' = "down" /\ final' = {} /\ accepted' = {} /\ overlaps' = 0
  /\ UNCHANGED session

\* The process dies; the kernel keeps what it was given.
Kill ==
  /\ WriterAlive \/ client = "run"
  /\ NoProcess
  /\ UNCHANGED <<file, store>>

\* Some of what was not synced is lost, and the store may open at an earlier
\* commit: synchronous=NORMAL does not sync its log at every commit.  What it
\* opens at was read back from the disk, so it cannot go back further later.
PowerLoss ==
  /\ \E X \in SUBSET (cache \ disk) : cache' = disk \cup X /\ disk' = disk \cup X
  /\ row' \in past \cup {row} /\ past' = {row'}
  /\ NoProcess
  /\ UNCHANGED exists

-----------------------------------------------------------------------------
WriterStep ==
  \/ Receive \/ Closed \/ Drain \/ DrainDone \/ FlushStep \/ FlushFails \/ FlushDone
  \/ SyncData \/ Commit \/ CheckpointFails

Next ==
  \/ Resume \/ SendSync \/ SendFinish \/ FinishFails \/ Abandon
  \/ \E b \in Block : Send(b) \/ SendLate(b)
  \/ WriterStep
  \/ Kill \/ PowerLoss

Spec == Init /\ [][Next]_vars

(***************************************************************************)
(* The runtime keeps polling a task that is ready, and a call the kernel   *)
(* was given returns.  Nobody owes the writer a message, or a crash.       *)
(***************************************************************************)
FairSpec == Spec /\ WF_vars(WriterStep) /\ WF_vars(FinishFails)

-----------------------------------------------------------------------------
(* What makes the writer correct.                                          *)

TypeOK ==
  /\ exists \in BOOLEAN /\ cache \subseteq Block /\ disk \subseteq cache
  /\ row \subseteq Block /\ past \subseteq SUBSET Block
  /\ wpc \in {"off", "recv", "drain", "flush", "sync", "commit"}
  /\ queue \in Seq(Message) /\ Len(queue) <= WRITER_QUEUE
  /\ pending \in [Block -> Nat] /\ pendingBytes \in Nat /\ since \in Nat
  /\ done \subseteq Block /\ ctl \in Control
  /\ client \in {"down", "run", "finishing", "done", "failed"}
  /\ final \subseteq Block /\ accepted \subseteq Block
  /\ overlaps \in Nat /\ session \in Nat

(***************************************************************************)
(* A checkpoint claims only bytes that are already durable, whatever       *)
(* commit the store opens at after a power loss (writer.rs:10-13: "a       *)
(* checkpoint may only ever claim bytes that are already durable").        *)
(***************************************************************************)
ClaimIsDurable == \A r \in past \cup {row} : r \subseteq disk

(***************************************************************************)
(* What a running session believes is done can be read back from the part  *)
(* file: neither a failed write nor what the session was resumed with puts *)
(* a block into "done" that the file does not hold (mod.rs:237-238: "Trust *)
(* the file, never the record").                                           *)
(***************************************************************************)
DoneIsInFile == WriterAlive => done \subseteq cache

(***************************************************************************)
(* The ranges finish() returns are what download() publishes the file by   *)
(* (mod.rs:297-318).  They hold every chunk a worker's send() accepted     *)
(* before finish() was called, and all of them are durable.                *)
(***************************************************************************)
FinishIsComplete == client = "done" => accepted \subseteq final /\ final \subseteq disk

(***************************************************************************)
(* A session never falls behind the record it was resumed from by more     *)
(* than the rewound tails, so no commit throws away earlier progress.      *)
(***************************************************************************)
ProgressKept == WriterAlive => Rewind(row) \subseteq done

(***************************************************************************)
(* Between send() and the part file no accepted chunk is ever dropped: it  *)
(* is done, buffered, or still in the channel, ahead of the Finish that    *)
(* will be answered with it.  An abandoned channel is drained too.         *)
(***************************************************************************)
Held == {b \in Block : pending[b] > 0}
Ahead(i) == {b \in Block : \E j \in 1 .. i - 1 : queue[j] = Data(b)}
Covered(i) == accepted \subseteq done \cup Held \cup Ahead(i)

NothingDropped ==
  /\ WriterAlive /\ client \in {"run", "down"} => Covered(Len(queue) + 1)
  /\ \A i \in 1 .. Len(queue) :
       queue[i] = Finish => client = "finishing" /\ Covered(i)
  /\ ctl = "finish" => client = "finishing" /\ Covered(1)

(***************************************************************************)
(* finish() is answered: the writer works its way to the message through a *)
(* queue that workers may still be filling, or dies and drops the reply.   *)
(***************************************************************************)
FinishAnswered == client = "finishing" ~> client # "finishing"

(***************************************************************************)
(* Backpressure ends: a full queue is drained, or its receiver is dropped  *)
(* and the blocked workers get WriterGone (writer.rs:5-7).                 *)
(***************************************************************************)
QueueFull == WriterAlive /\ Len(queue) = WRITER_QUEUE
BackpressureEnds == QueueFull ~> ~QueueFull

(***************************************************************************)
(* The strengthening that makes the invariants above inductive: what the   *)
(* phases of run() guarantee each other, and that a record with no part    *)
(* file is empty (when nobody deletes part files).                         *)
(***************************************************************************)
Phases ==
  /\ wpc = "off" => queue = <<>>
  /\ wpc \in {"off", "recv", "drain"} => ctl = "none"
  /\ wpc \in {"sync", "commit"} => Held = {}
  /\ wpc = "commit" => done \subseteq disk

RecordHasFile == ~exists => row = {} /\ past \subseteq {{}} /\ wpc = "off"

IInv == /\ TypeOK /\ Phases /\ RecordHasFile
        /\ ClaimIsDurable /\ DoneIsInFile /\ ProgressKept
        /\ NothingDropped /\ FinishIsComplete

(***************************************************************************)
(* Seen from outside, the writer and its crashes are the durable claim of  *)
(* Progress.tla: the record only ever moves to what was safe before.       *)
(***************************************************************************)
Durable == INSTANCE Progress WITH safe <- disk, claim <- row, earlier <- past
ImplementsProgress == Durable!Spec
=============================================================================
