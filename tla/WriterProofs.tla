---------------------------- MODULE WriterProofs ----------------------------
(***************************************************************************)
(* Proofs about Writer.tla, for every file length, queue capacity,         *)
(* coalescing limit, checkpoint threshold, rewind and number of crashes.   *)
(***************************************************************************)
EXTENDS Writer, TLAPS

(***************************************************************************)
(* Type correctness of the writer, its queue and the store row.            *)
(***************************************************************************)
LEMMA TypeInit == Init => TypeOK
<1> SUFFICES ASSUME Init PROVE TypeOK
  OBVIOUS
<1>1. pending \in [Block -> Nat] /\ pendingBytes \in Nat /\ since \in Nat
  BY DEF Init, NoChunks
<1>2. queue \in Seq(Message) /\ Len(queue) <= WRITER_QUEUE
  BY WriterAssumption DEF Init
<1>3. past \subseteq SUBSET Block /\ ctl \in Control
  BY DEF Init, Control
<1>4. QED
  BY <1>1, <1>2, <1>3 DEF Init, TypeOK

(* Every action of the writer, of its callers and of the environment keeps *)
(* the variables in their types.                                           *)
LEMMA TypeStep == TypeOK /\ [Next]_vars => TypeOK'
<1> SUFFICES ASSUME TypeOK, [Next]_vars PROVE TypeOK'
  OBVIOUS
<1> USE WriterAssumption DEF TypeOK
<1>1. NoChunks \in [Block -> Nat]
  BY DEF NoChunks
<1>2. CASE Resume
  BY <1>1, <1>2 DEF Resume, Reconcile, Rewind, store, Message, Control
<1>3. ASSUME NEW b \in Block, Send(b) \/ SendLate(b)
      PROVE  TypeOK'
  <2>1. Data(b) \in Message
    BY DEF Data, Message
  <2>2. /\ queue' \in Seq(Message) /\ Len(queue') = Len(queue) + 1
        /\ Len(queue) \in Nat /\ Len(queue) < WRITER_QUEUE
    <3>1. CASE Send(b)
      BY <3>1, <2>1 DEF Send
    <3>2. CASE SendLate(b)
      BY <3>2, <2>1 DEF SendLate
    <3> QED BY <1>3, <3>1, <3>2
  <2>3. CASE Send(b)
    BY <2>2, <2>3 DEF Send, file, store, buffer, starter
  <2>4. CASE SendLate(b)
    BY <2>2, <2>4 DEF SendLate, file, store, buffer, starter, history
  <2>5. QED
    BY <1>3, <2>3, <2>4
<1>4. CASE SendSync \/ SendFinish
  <2>1. Sync \in Message /\ Finish \in Message
    BY DEF Sync, Finish, Message
  <2>2. /\ queue' \in Seq(Message) /\ Len(queue') = Len(queue) + 1
        /\ Len(queue) \in Nat /\ Len(queue) < WRITER_QUEUE
    BY <1>4, <2>1 DEF SendSync, SendFinish
  <2>3. CASE SendSync
    BY <2>2, <2>3 DEF SendSync, file, store, buffer, starter, history
  <2>4. CASE SendFinish
    BY <2>2, <2>4 DEF SendFinish, file, store, buffer, history
  <2>5. QED
    BY <1>4, <2>3, <2>4
<1>5. CASE FinishFails \/ Abandon
  BY <1>5 DEF FinishFails, Abandon, file, store, buffer, history
<1>6. CASE Receive \/ Drain
  <2>1. queue # <<>> /\ queue' = Tail(queue)
    BY <1>6 DEF Receive, Drain
  <2>2. Head(queue) \in Message /\ Tail(queue) \in Seq(Message) /\ Len(Tail(queue)) = Len(queue) - 1
    BY <2>1
  <2>3. /\ Head(queue).type = "data" => Head(queue).block \in Block
        /\ Head(queue).type \in {"data", "sync", "finish"}
    BY <2>2 DEF Message
  <2>4. pending' \in [Block -> Nat] /\ pendingBytes' \in Nat /\ ctl' \in Control
    BY <1>6, <2>3 DEF Receive, Drain, Buffered, Control
  <2>5. queue' \in Seq(Message) /\ Len(queue') <= WRITER_QUEUE
    BY <2>1, <2>2
  <2>6. CASE Receive
    BY <2>4, <2>5, <2>6 DEF Receive, file, store, starter, history
  <2>7. CASE Drain
    BY <2>4, <2>5, <2>7 DEF Drain, file, store, starter, history
  <2>8. QED
    BY <1>6, <2>6, <2>7
<1>7. CASE Closed \/ DrainDone \/ FlushDone \/ SyncData
  BY <1>7 DEF Closed, DrainDone, FlushDone, SyncData, file, store, buffer, starter, history, Control
<1>8. CASE FlushStep
  <2>1. PICK a \in Block, e \in Block : NextWrite(a, e) /\ WriteRun(a, e)
    BY <1>8 DEF FlushStep
  <2>2. a .. e \subseteq Block /\ \A x \in a .. e : pending[x] - 1 \in Nat
    BY <2>1 DEF NextWrite, Mergeable, Block
  <2>3. pending' \in [Block -> Nat] /\ since' \in Nat
    BY <2>1, <2>2 DEF WriteRun, NextWrite, Block
  <2>4. QED
    BY <1>8, <2>1, <2>2, <2>3 DEF FlushStep, WriteRun, store, starter, history
<1>9. CASE FlushFails
  <2>1. PICK a \in Block, e \in Block, x \in Int : x <= e - 1 /\ cache' = cache \cup (a .. x)
    BY <1>9 DEF FlushFails
  <2>2. a .. x \subseteq Block
    BY <2>1 DEF Block
  <2>3. QED
    BY <1>1, <1>9, <2>1, <2>2 DEF FlushFails, TaskGone, Control, Message, store, starter, history
<1>10. CASE Commit \/ CheckpointFails
  <2> DEFINE Goes == /\ wpc' = "recv" /\ ctl' = "none" /\ since' = 0
                     /\ UNCHANGED <<queue, pending, pendingBytes, done>>
             Locals == /\ queue' \in Seq(Message) /\ Len(queue') <= WRITER_QUEUE
                       /\ pending' \in [Block -> Nat] /\ pendingBytes' \in Nat
                       /\ since' \in Nat /\ done' \subseteq Block /\ ctl' \in Control
  <2>a. Goes \/ TaskGone
    BY <1>10 DEF Commit, CheckpointFails
  <2>b. Goes => Locals
    BY DEF Control
  <2>c. TaskGone => Locals
    BY <1>1 DEF TaskGone, Control
  <2>1. Locals
    BY <2>a, <2>b, <2>c
  <2>2. wpc' \in {"off", "recv"}
    BY <2>a DEF TaskGone
  <2>3. CASE Commit
    <3>1. row' \subseteq Block /\ past' \subseteq SUBSET Block
      BY <2>3 DEF Commit
    <3>2. client' \in {client, "done"} /\ final' \subseteq Block
      BY <2>3 DEF Commit, starter
    <3>3. QED
      BY <2>1, <2>2, <2>3, <3>1, <3>2 DEF Commit, file, history
  <2>4. CASE CheckpointFails
    BY <2>1, <2>2, <2>4 DEF CheckpointFails, file, store, history
  <2>5. QED
    BY <1>10, <2>3, <2>4
<1>11. CASE Kill
  BY <1>1, <1>11 DEF Kill, NoProcess, TaskGone, Control, Message, file, store
<1>12. CASE PowerLoss
  <2>1. cache' \subseteq Block /\ disk' \subseteq cache' /\ exists' \in BOOLEAN
    BY <1>12 DEF PowerLoss
  <2>2. row' \subseteq Block /\ past' \subseteq SUBSET Block
    BY <1>12 DEF PowerLoss
  <2>3. QED
    BY <1>1, <1>12, <2>1, <2>2 DEF PowerLoss, NoProcess, TaskGone, Control, Message
<1>13. CASE UNCHANGED vars
  BY <1>13 DEF vars, file, store, buffer, starter, history
<1>14. QED
  BY <1>2, <1>3, <1>4, <1>5, <1>6, <1>7, <1>8, <1>9, <1>10, <1>11, <1>12, <1>13 DEF Next, WriterStep

(* The channel never holds more than WRITER_QUEUE messages, the record and *)
(* its copies only name blocks of the file, counters stay naturals.        *)
THEOREM TypeCorrect == Spec => []TypeOK
  BY TypeInit, TypeStep, PTL DEF Spec

-----------------------------------------------------------------------------
(* Rewinding only ever takes blocks away.                                  *)
LEMMA RewindShrinks ==
  ASSUME NEW S \in SUBSET Block
  PROVE  Rewind(S) \subseteq S
  BY DEF Rewind

(***************************************************************************)
(* The half of the invariant that is about the file and the store.         *)
(***************************************************************************)
DInv == /\ TypeOK /\ Phases /\ RecordHasFile
        /\ ClaimIsDurable /\ DoneIsInFile /\ ProgressKept

(* Nothing is claimed at the start.                                        *)
LEMMA DurableInit == Init => DInv
  BY TypeInit DEF Init, DInv, Phases, RecordHasFile, ClaimIsDurable,
     DoneIsInFile, ProgressKept, WriterAlive, Held, NoChunks

(* A step that leaves the file, the store and done alone, and enters       *)
(* neither sync nor commit, keeps it.                                      *)
LEMMA QuietStep ==
  ASSUME DInv, TypeOK', UNCHANGED <<file, store, done>>,
         wpc' \in {"off", "recv", "drain", "flush"} \/ UNCHANGED <<wpc, pending>>,
         wpc = "off" => wpc' = "off",
         wpc' = "off" => queue' = <<>>,
         wpc' \in {"off", "recv", "drain"} => ctl' = "none"
  PROVE  DInv'
<1>1. Phases'
  BY DEF DInv, Phases, Held, file
<1>2. RecordHasFile' /\ ClaimIsDurable'
  BY DEF DInv, RecordHasFile, ClaimIsDurable, file, store
<1>3. DoneIsInFile' /\ ProgressKept'
  BY DEF DInv, DoneIsInFile, ProgressKept, WriterAlive, Rewind, file, store
<1>4. QED
  BY <1>1, <1>2, <1>3 DEF DInv

(* Every step keeps the record, in memory and in the store, behind what    *)
(* the file and the disk hold.                                             *)
LEMMA DurableStep ==
  DInv /\ [Next]_vars => DInv'
<1> SUFFICES ASSUME DInv, [Next]_vars PROVE DInv'
  OBVIOUS
<1>0. TypeOK /\ TypeOK'
  BY TypeStep DEF DInv
<1>1. CASE Resume
  <2>1. Reconcile(row) = IF exists THEN Rewind(row) ELSE {}
    BY DEF Reconcile
  <2>2. Rewind(row) \subseteq row /\ row \subseteq disk /\ disk \subseteq cache
    BY <1>0, RewindShrinks DEF TypeOK, DInv, ClaimIsDurable
  <2>3. ~exists => Rewind(row) = {}
    BY <2>2 DEF DInv, RecordHasFile
  <2>4. DoneIsInFile' /\ ProgressKept'
    BY <1>1, <2>1, <2>2, <2>3 DEF Resume, DoneIsInFile, ProgressKept, Rewind, store
  <2>5. Phases' /\ RecordHasFile' /\ ClaimIsDurable'
    BY <1>1 DEF Resume, DInv, Phases, RecordHasFile, ClaimIsDurable, store
  <2>6. QED
    BY <1>0, <2>4, <2>5 DEF DInv
<1>2. ASSUME NEW b \in Block, Send(b) \/ SendLate(b)
      PROVE  DInv'
  <2>1. UNCHANGED <<file, store, done, wpc, pending, ctl>> /\ wpc # "off"
    BY <1>2 DEF Send, SendLate, buffer, WriterAlive
  <2>2. QED
    BY <1>0, <2>1, QuietStep DEF DInv, Phases
<1>3. CASE SendSync \/ SendFinish
  <2>1. UNCHANGED <<file, store, done, wpc, pending, ctl>> /\ wpc # "off"
    BY <1>3 DEF SendSync, SendFinish, buffer, WriterAlive
  <2>2. QED
    BY <1>0, <2>1, QuietStep DEF DInv, Phases
<1>4. CASE FinishFails \/ Abandon
  <2>1. UNCHANGED <<file, store, done, wpc, pending, ctl, queue>>
    BY <1>4 DEF FinishFails, Abandon, buffer
  <2>2. QED
    BY <1>0, <2>1, QuietStep DEF DInv, Phases
<1>5. CASE Receive \/ Drain
  <2>1. /\ UNCHANGED <<file, store, done>> /\ wpc # "off" /\ ctl = "none"
        /\ \/ wpc' = "drain" /\ ctl' = ctl
           \/ wpc' = "flush"
    BY <1>5 DEF Receive, Drain, DInv, Phases
  <2>2. QED
    BY <1>0, <2>1, QuietStep
<1>6. CASE Closed \/ DrainDone
  <2>1. UNCHANGED <<file, store, done>> /\ wpc # "off" /\ wpc' = "flush"
    BY <1>6 DEF Closed, DrainDone, buffer
  <2>2. QED
    BY <1>0, <2>1, QuietStep
<1>7. CASE FlushStep
  <2>1. PICK a \in Block, e \in Block : WriteRun(a, e)
    BY <1>7 DEF FlushStep
  <2>2. /\ cache' = cache \cup (a .. e) /\ done' = done \cup (a .. e)
        /\ UNCHANGED <<exists, disk, row, past, wpc, queue, ctl>> /\ wpc = "flush"
    BY <1>7, <2>1 DEF FlushStep, WriteRun, store
  <2>3. DoneIsInFile' /\ ProgressKept'
    BY <2>2 DEF DInv, DoneIsInFile, ProgressKept, WriterAlive, Rewind
  <2>4. Phases' /\ RecordHasFile' /\ ClaimIsDurable'
    BY <2>2 DEF DInv, Phases, RecordHasFile, ClaimIsDurable
  <2>5. QED
    BY <1>0, <2>3, <2>4 DEF DInv
<1>8. CASE FlushFails \/ Kill
  <2>1. /\ UNCHANGED <<exists, disk, row, past>> /\ TaskGone
    BY <1>8 DEF FlushFails, Kill, NoProcess, file, store
  <2>2. QED
    BY <1>0, <2>1 DEF TaskGone, DInv, Phases, RecordHasFile, ClaimIsDurable,
       DoneIsInFile, ProgressKept, WriterAlive
<1>9. CASE FlushDone
  <2>1. /\ UNCHANGED <<file, store, done, pending, ctl>> /\ pending = NoChunks
        /\ \/ wpc' = "sync"
           \/ wpc' = "recv" /\ ctl = "none"
    BY <1>9 DEF FlushDone
  <2>2. Phases'
    BY <2>1 DEF Phases, Held, NoChunks
  <2>3. RecordHasFile' /\ ClaimIsDurable'
    BY <1>9, <2>1 DEF FlushDone, DInv, RecordHasFile, ClaimIsDurable, file, store
  <2>4. DoneIsInFile' /\ ProgressKept'
    BY <1>9, <2>1 DEF FlushDone, DInv, DoneIsInFile, ProgressKept, WriterAlive, Rewind, file, store
  <2>5. QED
    BY <1>0, <2>2, <2>3, <2>4 DEF DInv
<1>10. CASE SyncData
  <2>1. /\ disk' = cache /\ wpc = "sync" /\ wpc' = "commit"
        /\ UNCHANGED <<exists, cache, row, past, queue, pending, done, ctl>>
    BY <1>10 DEF SyncData, store, buffer
  <2>2. Phases'
    BY <2>1 DEF DInv, Phases, Held, DoneIsInFile, WriterAlive
  <2>3. ClaimIsDurable' /\ RecordHasFile'
    BY <1>0, <2>1 DEF DInv, TypeOK, ClaimIsDurable, RecordHasFile
  <2>4. DoneIsInFile' /\ ProgressKept'
    BY <2>1 DEF DInv, DoneIsInFile, ProgressKept, WriterAlive, Rewind
  <2>5. QED
    BY <1>0, <2>2, <2>3, <2>4 DEF DInv
<1>11. CASE Commit
  <2>1. /\ wpc = "commit" /\ row' = done /\ past' = past \cup {row}
        /\ UNCHANGED <<exists, cache, disk>>
        /\ \/ wpc' = "recv" /\ ctl' = "none" /\ UNCHANGED done
           \/ TaskGone
    BY <1>11 DEF Commit, file
  <2>2. done \subseteq disk /\ disk \subseteq cache /\ done \subseteq Block
    BY <1>0, <2>1 DEF DInv, Phases, TypeOK
  <2>3. ClaimIsDurable'
    BY <2>1, <2>2 DEF DInv, ClaimIsDurable
  <2>4. DoneIsInFile'
    BY <2>1, <2>2 DEF DoneIsInFile, TaskGone, WriterAlive
  <2>5. ProgressKept'
    <3>1. Rewind(done) \subseteq done
      BY <2>2, RewindShrinks
    <3>2. (wpc' = "recv" /\ UNCHANGED done) => ProgressKept'
      BY <2>1, <3>1 DEF ProgressKept, Rewind
    <3>3. QED
      BY <2>1, <3>2 DEF TaskGone, ProgressKept, WriterAlive
  <2>6. Phases'
    BY <2>1 DEF Phases, TaskGone
  <2>7. RecordHasFile'
    BY <2>1 DEF DInv, RecordHasFile, DoneIsInFile
  <2>8. QED
    BY <1>0, <2>3, <2>4, <2>5, <2>6, <2>7 DEF DInv
<1>12. CASE CheckpointFails
  <2>1. /\ wpc # "off" /\ UNCHANGED <<exists, cache, disk, row, past>>
        /\ \/ wpc' = "recv" /\ ctl' = "none" /\ UNCHANGED done
           \/ TaskGone
    BY <1>12 DEF CheckpointFails, file, store
  <2>2. Phases' /\ RecordHasFile' /\ ClaimIsDurable'
    BY <2>1 DEF DInv, Phases, RecordHasFile, ClaimIsDurable, TaskGone
  <2>3. DoneIsInFile' /\ ProgressKept'
    BY <2>1 DEF DInv, DoneIsInFile, ProgressKept, WriterAlive, Rewind, TaskGone
  <2>4. QED
    BY <1>0, <2>2, <2>3 DEF DInv
<1>13. CASE PowerLoss
  <2>1. /\ disk \subseteq disk' /\ UNCHANGED exists /\ TaskGone
        /\ row' \in past \cup {row} /\ past' = {row'}
    BY <1>13 DEF PowerLoss, NoProcess
  <2>2. ClaimIsDurable' /\ RecordHasFile'
    BY <2>1 DEF DInv, ClaimIsDurable, RecordHasFile, TaskGone
  <2>3. Phases' /\ DoneIsInFile' /\ ProgressKept'
    BY <2>1 DEF TaskGone, Phases, DoneIsInFile, ProgressKept, WriterAlive
  <2>4. QED
    BY <1>0, <2>2, <2>3 DEF DInv
<1>14. CASE UNCHANGED vars
  <2>1. UNCHANGED <<file, store, done, wpc, pending, ctl, queue>>
    BY <1>14 DEF vars, buffer
  <2>2. QED
    BY <1>0, <2>1, QuietStep DEF DInv, Phases
<1>15. QED
  BY <1>1, <1>2, <1>3, <1>4, <1>5, <1>6, <1>7, <1>8, <1>9, <1>10, <1>11, <1>12,
     <1>13, <1>14 DEF Next, WriterStep

-----------------------------------------------------------------------------
(***************************************************************************)
(* The other half: the channel.  Appending to the queue hides nothing that *)
(* was ahead of a position; taking its head moves every position up by one *)
(* and what was the head has to be held somewhere else.                    *)
(***************************************************************************)
QInv == NothingDropped /\ FinishIsComplete

(* A message sent to the channel stands behind all that were there.        *)
LEMMA AheadAppend ==
  ASSUME TypeOK, NEW m \in Message, queue' = Append(queue, m)
  PROVE  /\ Len(queue') = Len(queue) + 1 /\ Len(queue) \in Nat
         /\ \A i \in 1 .. Len(queue) : queue'[i] = queue[i]
         /\ queue'[Len(queue) + 1] = m
         /\ \A i \in 1 .. Len(queue) + 1 : Ahead(i)' = Ahead(i)
         /\ Ahead(Len(queue) + 1) \subseteq Ahead(Len(queue) + 1)'
         /\ \A b \in Block : m = Data(b) => b \in Ahead(Len(queue) + 1)'
<1>1. /\ Len(queue') = Len(queue) + 1 /\ Len(queue) \in Nat
      /\ \A i \in 1 .. Len(queue) : queue'[i] = queue[i]
      /\ queue'[Len(queue) + 1] = m
  BY DEF TypeOK
<1>2. \A i \in 1 .. Len(queue) + 1 : Ahead(i)' = Ahead(i)
  BY <1>1 DEF Ahead
<1>3. Ahead(Len(queue) + 1) \subseteq Ahead(Len(queue) + 1)'
  BY <1>1 DEF Ahead
<1>4. ASSUME NEW b \in Block, m = Data(b)
      PROVE  b \in Ahead(Len(queue) + 1)'
  BY <1>1, <1>4 DEF Ahead
<1>5. QED
  BY <1>1, <1>2, <1>3, <1>4

(* Taking the first message moves every other one up by one place.         *)
LEMMA AheadTail ==
  ASSUME TypeOK, queue # <<>>, queue' = Tail(queue)
  PROVE  /\ Len(queue') = Len(queue) - 1 /\ Len(queue) \in Nat \ {0}
         /\ Head(queue) = queue[1] /\ Head(queue) \in Message
         /\ \A i \in 1 .. Len(queue') : queue'[i] = queue[i + 1]
         /\ \A i \in 1 .. Len(queue) :
              Ahead(i + 1) \subseteq Ahead(i)' \cup {b \in Block : Head(queue) = Data(b)}
<1>1. /\ Len(queue') = Len(queue) - 1 /\ Len(queue) \in Nat \ {0}
      /\ Head(queue) = queue[1] /\ Head(queue) \in Message
      /\ \A i \in 1 .. Len(queue') : queue'[i] = queue[i + 1]
  BY DEF TypeOK
<1>2. ASSUME NEW i \in 1 .. Len(queue), NEW b \in Ahead(i + 1), Head(queue) # Data(b)
      PROVE  b \in Ahead(i)'
  <2>1. PICK j \in 1 .. i : queue[j] = Data(b)
    BY <1>2 DEF Ahead
  <2>2. j # 1
    BY <1>1, <1>2, <2>1
  <2>3. j - 1 \in 1 .. i - 1 /\ queue'[j - 1] = Data(b)
    BY <1>1, <2>1, <2>2
  <2>4. QED
    BY <1>2, <2>3 DEF Ahead
<1>3. QED
  BY <1>1, <1>2 DEF Ahead

(* What the channel can hold, and how the kinds of messages differ.        *)
LEMMA Messages ==
  /\ \A m \in Message : m.type \in {"data", "sync", "finish"}
  /\ \A m \in Message : m.type = "data" => m.block \in Block /\ m = Data(m.block)
  /\ \A b \in Block : Data(b) \in Message /\ Data(b) # Finish /\ Data(b).type = "data"
  /\ Sync \in Message /\ Finish \in Message /\ Sync # Finish
  /\ Finish.type = "finish"
<1>1. /\ \A m \in Message : m.type \in {"data", "sync", "finish"}
      /\ \A m \in Message : m.type = "data" => m.block \in Block /\ m = Data(m.block)
  BY DEF Message, Data
<1>2. \A b \in Block : Data(b) \in Message /\ Data(b).type = "data"
  BY DEF Message, Data
<1>3. Sync \in Message /\ Finish \in Message /\ Finish.type = "finish" /\ Sync.type = "sync"
  BY DEF Message, Sync, Finish
<1>4. QED
  BY <1>1, <1>2, <1>3

(* Nothing was accepted at the start.                                      *)
LEMMA QueueInit == Init => QInv
<1> SUFFICES ASSUME Init PROVE QInv
  OBVIOUS
<1>1. wpc = "off" /\ queue = <<>> /\ ctl = "none" /\ client = "down"
  BY DEF Init
<1>2. Len(queue) = 0
  BY <1>1
<1>3. QED
  BY <1>1, <1>2 DEF QInv, NothingDropped, FinishIsComplete, WriterAlive

(* The reply finish() gave stays true while its reader holds it.           *)
LEMMA ReplyKept ==
  ASSUME QInv, client' = "done" => client = "done" /\ UNCHANGED <<final, accepted>>,
         disk \subseteq disk'
  PROVE  FinishIsComplete'
  BY DEF QInv, FinishIsComplete

(* When the writer is gone there is nothing left to drop.                  *)
LEMMA GoneStep ==
  ASSUME TaskGone
  PROVE  NothingDropped'
<1>1. queue' = <<>> /\ ctl' = "none" /\ wpc' = "off"
  BY DEF TaskGone
<1>2. Len(queue') = 0
  BY <1>1
<1>3. QED
  BY <1>1, <1>2 DEF NothingDropped, WriterAlive

(* A step of the writer that neither takes a message nor answers one.      *)
LEMMA ChannelKept ==
  ASSUME QInv, UNCHANGED <<queue, accepted, client>>,
         WriterAlive' => WriterAlive, ctl' \in {ctl, "none", "closed"},
         done \cup Held \subseteq done' \cup Held'
  PROVE  NothingDropped'
<1>1. \A i : Covered(i) => Covered(i)'
  BY DEF Covered, Ahead
<1>2. QED
  BY <1>1 DEF QInv, NothingDropped

(* Every step keeps each accepted chunk ahead of the reply that counts it. *)
LEMMA QueueStep ==
  DInv /\ QInv /\ [Next]_vars => QInv'
<1> SUFFICES ASSUME DInv, QInv, [Next]_vars PROVE QInv'
  OBVIOUS
<1>0. TypeOK /\ Phases /\ Len(queue) \in Nat
  BY DEF DInv, TypeOK
<1>1. CASE Resume
  <2>1. /\ queue' = <<>> /\ accepted' = {} /\ ctl' = "none" /\ client' = "run"
    BY <1>1 DEF Resume
  <2>2. Len(queue') = 0
    BY <2>1
  <2>3. QED
    BY <2>1, <2>2 DEF QInv, NothingDropped, FinishIsComplete, Covered
<1>2. ASSUME NEW b \in Block, Send(b)
      PROVE  QInv'
  <2>1. /\ client = "run" /\ WriterAlive /\ accepted' = accepted \cup {b}
        /\ queue' = Append(queue, Data(b)) /\ UNCHANGED <<pending, done, ctl, client>>
    BY <1>2 DEF Send, buffer, starter
  <2>2. Data(b) \in Message /\ Data(b) # Finish
    BY Messages
  <2>3. Covered(Len(queue) + 1)'
    BY <1>0, <2>1, <2>2, AheadAppend DEF QInv, NothingDropped, Covered, Held
  <2>4. \A i \in 1 .. Len(queue') : queue'[i] # Finish
    BY <1>0, <2>1, <2>2, AheadAppend DEF QInv, NothingDropped
  <2>5. ctl' # "finish"
    BY <2>1 DEF QInv, NothingDropped
  <2>6. QED
    BY <2>1, <2>3, <2>4, <2>5 DEF QInv, NothingDropped, FinishIsComplete
<1>3. ASSUME NEW b \in Block, SendLate(b)
      PROVE  QInv'
  <2>1. /\ client = "finishing" /\ UNCHANGED <<accepted, pending, done, ctl, client>>
        /\ queue' = Append(queue, Data(b))
    BY <1>3 DEF SendLate, buffer, starter, history
  <2>2. Data(b) \in Message /\ Data(b) # Finish
    BY Messages
  <2>3. \A i \in 1 .. Len(queue) + 1 : Covered(i) => Covered(i)'
    BY <1>0, <2>1, <2>2, AheadAppend DEF Covered, Held
  <2>4. \A i \in 1 .. Len(queue') : queue'[i] = Finish => i \in 1 .. Len(queue) /\ queue[i] = Finish
    BY <1>0, <2>1, <2>2, AheadAppend
  <2>5. QED
    BY <1>0, <2>1, <2>3, <2>4 DEF QInv, NothingDropped, FinishIsComplete
<1>4. CASE SendSync
  <2>1. /\ client = "run" /\ WriterAlive /\ UNCHANGED <<accepted, pending, done, ctl, client>>
        /\ queue' = Append(queue, Sync)
    BY <1>4 DEF SendSync, buffer, starter, history
  <2>2. Sync \in Message /\ Sync # Finish
    BY Messages
  <2>3. Covered(Len(queue) + 1)'
    BY <1>0, <2>1, <2>2, AheadAppend DEF QInv, NothingDropped, Covered, Held
  <2>4. \A i \in 1 .. Len(queue') : queue'[i] # Finish
    BY <1>0, <2>1, <2>2, AheadAppend DEF QInv, NothingDropped
  <2>5. ctl' # "finish"
    BY <2>1 DEF QInv, NothingDropped
  <2>6. QED
    BY <2>1, <2>3, <2>4, <2>5 DEF QInv, NothingDropped, FinishIsComplete
<1>5. CASE SendFinish
  <2>1. /\ client = "run" /\ WriterAlive /\ client' = "finishing"
        /\ UNCHANGED <<accepted, pending, done, ctl>> /\ queue' = Append(queue, Finish)
    BY <1>5 DEF SendFinish, buffer, history
  <2>2. Covered(Len(queue) + 1) /\ ctl # "finish"
    BY <2>1 DEF QInv, NothingDropped
  <2>3. \A i \in 1 .. Len(queue) + 1 : Covered(i) => Covered(i)'
    BY <1>0, <2>1, Messages, AheadAppend DEF Covered, Held
  <2>4. \A i \in 1 .. Len(queue') : queue'[i] = Finish => Covered(i)'
    BY <1>0, <2>1, <2>2, <2>3, Messages, AheadAppend DEF QInv, NothingDropped
  <2>5. QED
    BY <2>1, <2>2, <2>3, <2>4 DEF QInv, NothingDropped, FinishIsComplete
<1>6. CASE FinishFails
  <2>1. wpc = "off" /\ client' = "failed" /\ UNCHANGED <<wpc, queue, ctl>>
    BY <1>6 DEF FinishFails, WriterAlive
  <2>2. queue' = <<>> /\ Len(queue') = 0 /\ ctl' = "none"
    BY <1>0, <2>1 DEF Phases
  <2>3. QED
    BY <2>1, <2>2 DEF QInv, NothingDropped, FinishIsComplete, WriterAlive
<1>7. CASE Abandon
  <2>1. /\ client = "run" /\ client' = "down"
        /\ UNCHANGED <<wpc, queue, ctl, pending, done, accepted>>
    BY <1>7 DEF Abandon, buffer, history
  <2>2. \A i : Covered(i) => Covered(i)'
    BY <2>1 DEF Covered, Held, Ahead
  <2>3. QED
    BY <2>1, <2>2 DEF QInv, NothingDropped, FinishIsComplete, WriterAlive
<1>8. CASE Receive \/ Drain
  <2> DEFINE m == Head(queue)
  <2>1. /\ queue # <<>> /\ queue' = Tail(queue) /\ wpc \in {"recv", "drain"} /\ wpc' # "off"
        /\ UNCHANGED <<file, done, client, final, accepted>>
    BY <1>8 DEF Receive, Drain, starter, history
  <2>2. /\ m.type = "data" => pending' = [pending EXCEPT ![m.block] = @ + 1] /\ UNCHANGED ctl
        /\ m.type # "data" => ctl' = m.type /\ UNCHANGED pending
    BY <1>8 DEF Receive, Drain, Buffered
  <2>3. m \in Message /\ ctl = "none"
    BY <1>0, <2>1, AheadTail DEF Phases
  <2>4. Held \cup {b \in Block : m = Data(b)} \subseteq Held'
    <3>1. CASE m.type = "data"
      <4>1. m.block \in Block /\ m = Data(m.block) /\ pending \in [Block -> Nat]
        BY <1>0, <2>3, <3>1, Messages DEF TypeOK
      <4>2. \A b \in Block : m = Data(b) => b = m.block
        BY DEF Data
      <4>3. \A b \in Block : pending[b] > 0 \/ b = m.block => pending'[b] > 0
        BY <2>2, <3>1, <4>1
      <4>4. QED
        BY <4>1, <4>2, <4>3 DEF Held
    <3>2. CASE m.type # "data"
      BY <2>2, <2>3, <3>2, Messages DEF Held
    <3>3. QED
      BY <3>1, <3>2
  <2>5. \A i \in 1 .. Len(queue) : Covered(i + 1) => Covered(i)'
    BY <1>0, <2>1, <2>4, AheadTail DEF Covered
  <2>6. client \in {"run", "down"} => Covered(Len(queue) + 1)'
    <3>1. Len(queue) \in 1 .. Len(queue) /\ Len(queue') + 1 = Len(queue)
      BY <1>0, <2>1, AheadTail
    <3>2. \A i : i = Len(queue') + 1 /\ Covered(i)' => Covered(Len(queue) + 1)'
      BY DEF Covered, Ahead
    <3>3. QED
      BY <2>1, <2>5, <3>1, <3>2 DEF QInv, NothingDropped, WriterAlive
  <2>7. \A i \in 1 .. Len(queue') : queue'[i] = Finish => client = "finishing" /\ Covered(i)'
    BY <1>0, <2>1, <2>5, AheadTail DEF QInv, NothingDropped
  <2>8. ctl' = "finish" => client = "finishing" /\ Covered(1)'
    <3>1. SUFFICES ASSUME ctl' = "finish" PROVE client = "finishing" /\ Covered(1)'
      OBVIOUS
    <3>2. m = Finish
      BY <2>2, <2>3, <3>1 DEF Message, Finish
    <3>3. client = "finishing" /\ Covered(1) /\ m = queue[1]
      BY <1>0, <2>1, <3>2, AheadTail DEF QInv, NothingDropped
    <3>4. Covered(2)
      BY <3>3 DEF Covered, Ahead
    <3>5. QED
      BY <1>0, <2>1, <2>5, <3>3, <3>4, AheadTail
  <2>9. NothingDropped'
    BY <1>0, <2>1, <2>6, <2>7, <2>8 DEF NothingDropped
  <2>10. QED
    BY <2>1, <2>9, ReplyKept DEF file, QInv
<1>9. CASE Closed \/ DrainDone \/ FlushDone \/ SyncData \/ UNCHANGED vars
  <2>1. /\ UNCHANGED <<queue, accepted, client, final, pending, done>>
        /\ WriterAlive' => WriterAlive
        /\ ctl' \in {ctl, "closed"}
    BY <1>9 DEF Closed, DrainDone, FlushDone, SyncData, vars, buffer, starter, history, WriterAlive
  <2>2. disk \subseteq disk'
    BY <1>0, <1>9 DEF Closed, DrainDone, FlushDone, SyncData, vars, file, TypeOK
  <2>3. QED
    <3>1. /\ done \cup Held \subseteq done' \cup Held'
          /\ UNCHANGED <<queue, accepted, client>>
          /\ ctl' \in {ctl, "none", "closed"}
      BY <2>1 DEF Held
    <3>2. NothingDropped'
      BY <2>1, <3>1, ChannelKept
    <3>3. FinishIsComplete'
      BY <2>1, <2>2, ReplyKept
    <3>4. QED
      BY <3>2, <3>3 DEF QInv
<1>10. CASE FlushStep
  <2>1. PICK a \in Block, e \in Block : WriteRun(a, e)
    BY <1>10 DEF FlushStep
  <2>2. UNCHANGED <<queue, accepted, client, final, disk, wpc, ctl>>
    BY <1>10 DEF FlushStep, starter, history
  <2>3. done \cup Held \subseteq done' \cup Held'
    BY <2>1 DEF WriteRun, Held
  <2>4. QED
    BY <2>2, <2>3, ReplyKept, ChannelKept DEF QInv, WriterAlive
<1>11. CASE FlushFails
  <2>1. TaskGone /\ UNCHANGED <<disk, client, final, accepted>>
    BY <1>11 DEF FlushFails, starter, history
  <2>2. QED
    BY <2>1, GoneStep, ReplyKept DEF QInv
<1>12. CASE Commit
  <2>1. /\ wpc = "commit" /\ UNCHANGED <<disk, accepted>>
        /\ \/ /\ ctl # "finish" /\ ctl' = "none" /\ UNCHANGED <<queue, pending, done, client>>
           \/ TaskGone
    BY <1>12 DEF Commit, file, history, starter
  <2>2. NothingDropped'
    BY <2>1, GoneStep, ChannelKept DEF Held, WriterAlive
  <2>3. FinishIsComplete'
    <3>1. CASE ctl = "finish"
      <4>1. final' = done /\ Covered(1) /\ Held = {} /\ done \subseteq disk
        BY <1>0, <1>12, <2>1, <3>1 DEF Commit, Phases, QInv, NothingDropped
      <4>2. accepted \subseteq done
        BY <4>1 DEF Covered, Ahead
      <4>3. QED
        BY <2>1, <4>1, <4>2 DEF FinishIsComplete
    <3>2. CASE ctl # "finish"
      BY <1>12, <2>1, <3>2, ReplyKept DEF Commit, starter
    <3>3. QED
      BY <3>1, <3>2
  <2>4. QED
    BY <2>2, <2>3 DEF QInv
<1>13. CASE CheckpointFails
  <2>1. /\ wpc # "off" /\ UNCHANGED <<disk, accepted, final>>
        /\ client' = "done" => client = "done"
        /\ \/ ctl' = "none" /\ UNCHANGED <<queue, pending, done, client>>
           \/ TaskGone
    BY <1>13 DEF CheckpointFails, file, history
  <2>2. NothingDropped'
    BY <2>1, GoneStep, ChannelKept DEF Held, WriterAlive
  <2>3. QED
    BY <2>1, <2>2, ReplyKept DEF QInv
<1>14. CASE Kill \/ PowerLoss
  <2>1. TaskGone /\ client' = "down"
    BY <1>14 DEF Kill, PowerLoss, NoProcess
  <2>2. QED
    BY <2>1, GoneStep DEF QInv, FinishIsComplete
<1>15. QED
  BY <1>1, <1>2, <1>3, <1>4, <1>5, <1>6, <1>7, <1>8, <1>9, <1>10, <1>11, <1>12,
     <1>13, <1>14 DEF Next, WriterStep

-----------------------------------------------------------------------------
(***************************************************************************)
(* The theorems.                                                           *)
(***************************************************************************)
THEOREM Invariance ==
  Spec => []IInv
<1>1. Init => DInv /\ QInv
  BY DurableInit, QueueInit
<1>2. DInv /\ QInv /\ [Next]_vars => DInv' /\ QInv'
  BY DurableStep, QueueStep
<1>3. DInv /\ QInv => IInv
  BY DEF DInv, QInv, IInv
<1>4. QED
  BY <1>1, <1>2, <1>3, PTL DEF Spec

(* writer.rs:10-13: a checkpoint only ever claims bytes already durable.   *)
THEOREM CheckpointsAreDurable ==
  Spec => []ClaimIsDurable
<1>1. IInv => ClaimIsDurable
  BY DEF IInv
<1>2. QED
  BY <1>1, Invariance, PTL

(* No session believes in a block its part file does not hold.             *)
THEOREM SessionsTrustTheFile ==
  Spec => []DoneIsInFile
<1>1. IInv => DoneIsInFile
  BY DEF IInv
<1>2. QED
  BY <1>1, Invariance, PTL

(* The ranges download() decides on after finish() are complete, durable.  *)
THEOREM FinishTellsTheTruth ==
  Spec => []FinishIsComplete
<1>1. IInv => FinishIsComplete
  BY DEF IInv
<1>2. QED
  BY <1>1, Invariance, PTL

(* A resume and the commits after it lose at most the rewound tails.       *)
THEOREM ResumeKeepsProgress ==
  Spec => []ProgressKept
<1>1. IInv => ProgressKept
  BY DEF IInv
<1>2. QED
  BY <1>1, Invariance, PTL

(* No chunk a worker handed over is dropped on its way to the file.        *)
THEOREM ChunksAreNotDropped ==
  Spec => []NothingDropped
<1>1. IInv => NothingDropped
  BY DEF IInv
<1>2. QED
  BY <1>1, Invariance, PTL

-----------------------------------------------------------------------------
(* Every step of the writer is a step, or a stutter, of Progress.          *)
LEMMA ProgressStep ==
  IInv /\ IInv' /\ [Next]_vars => [Durable!Next]_Durable!vars
<1> SUFFICES ASSUME IInv, IInv', [Next]_vars PROVE [Durable!Next]_Durable!vars
  OBVIOUS
<1>0. /\ TypeOK /\ TypeOK'
  BY DEF IInv
<1>1. CASE SyncData
  BY <1>0, <1>1 DEF SyncData, TypeOK, store, Durable!Next, Durable!Save
<1>2. CASE Commit
  <2>1. done \subseteq disk
    BY <1>2 DEF Commit, IInv, Phases
  <2>2. QED
    BY <1>2, <2>1 DEF Commit, file, Durable!Next, Durable!Record
<1>3. CASE PowerLoss
  BY <1>0, <1>3 DEF PowerLoss, TypeOK, Durable!Next, Durable!PowerCut
<1>4. CASE ~(SyncData \/ Commit \/ PowerLoss)
  <2>1. UNCHANGED <<disk, row, past>>
    BY <1>4 DEF Next, WriterStep, vars, file, store, Resume, Send, SendLate, SendSync,
       SendFinish, FinishFails, Abandon, Receive, Closed, Drain, DrainDone, FlushStep,
       FlushFails, FlushDone, CheckpointFails, Kill
  <2>2. QED
    BY <2>1 DEF Durable!vars
<1>5. QED
  BY <1>1, <1>2, <1>3, <1>4

(***************************************************************************)
(* The writer, its crashes and its resumes implement the durable claim.    *)
(***************************************************************************)
THEOREM Refinement ==
  Spec => ImplementsProgress
<1>1. Init => Durable!Init
  BY DEF Init, Durable!Init
<1>2. QED
  BY <1>1, ProgressStep, Invariance, PTL DEF Spec, ImplementsProgress, Durable!Spec
=============================================================================
