--------------------------- MODULE ClaimPlanProofs ---------------------------
(***************************************************************************)
(* The plan loses no byte, and workers that all find it exhausted have     *)
(* completed the file: for every file, alignment and smallest segment, any *)
(* number of workers, chunks of any size and any number of attempts.       *)
(*                                                                         *)
(* NoByteLost needs no lock: it is inductive next to the types and to the  *)
(* slice that waits for the writer staying inside the file.  That exhausted*)
(* means done does need it: a tail can only be pushed back when nobody is  *)
(* in the middle of a steal, so the last worker to conclude "exhausted"    *)
(* looked at a list that stayed empty.                                     *)
(*                                                                         *)
(* The refinement of Claims needs it too, and two more facts: what release *)
(* has read is what it gives back, and a victim is still listed.           *)
(***************************************************************************)
EXTENDS ClaimPlan, SegmentsProofs

\* A slice on its way to the writer, and the split of a steal, are in the file.
InFile ==
  /\ \A w \in Worker : pc[w] = "send" => cursor[w] + chunk[w].take <= NBlocks
  /\ steal.at \in Position

\* Whoever is in the middle of a steal holds the plan, and nothing is unclaimed.
Stealing ==
  \A w \in Worker : pc[w] \in {"aim", "lower"} => steal.thief = {w} /\ free = {}

SeedsFirst == seeding => \A w \in Worker : pc[w] = "idle"

\* What is unclaimed still has a worker that has not concluded "exhausted".
StillThere ==
  \/ free = {}
  \/ \A w \in Worker : pc[w] = "idle"
  \/ \E w \in Worker : pc[w] \notin {"idle", "Exhausted"}

IInv == TypeOK /\ InFile /\ NoByteLost /\ Stealing /\ SeedsFirst /\ StillThere

-----------------------------------------------------------------------------
(***************************************************************************)
(* Types, and what stays inside the file.                                  *)
(***************************************************************************)
LEMMA RemainingType ==
  ASSUME TypeOK, NEW w \in Worker
  PROVE  Remaining(w) \in Position
BY SegmentsAssumption DEF TypeOK, Remaining, Position

\* The end of a steal: a split between a cursor and an end is a position.
LEMMA AimType ==
  ASSUME IInv, NEW w \in Worker, Aim(w)
  PROVE  TypeOK' /\ InFile'
<1>1. PICK v \in steal.victim :
        LET split == AlignUp(cursor[v] + steal.at \div 2) IN
        IF split <= cursor[v] \/ split >= end[v]
        THEN Goto(w, "Exhausted") /\ steal' = None
        ELSE Goto(w, "lower") /\ steal' = [steal EXCEPT !.at = split]
  BY DEF Aim
<1> DEFINE split == AlignUp(cursor[v] + steal.at \div 2)
<1>2. v \in Worker /\ steal.at \in Nat /\ cursor[v] \in Nat /\ end[v] \in Position
  BY SegmentsAssumption DEF IInv, TypeOK, InFile, Steal, None, Position
<1>3. split \in Nat
  BY <1>2, AlignUpType
<1> HIDE DEF split
<1>4. steal' \in Steal /\ steal'.at \in Position
  <2>1. CASE split <= cursor[v] \/ split >= end[v]
    BY <1>1, <2>1, SegmentsAssumption DEF split, Steal, None, Position
  <2>2. CASE ~(split <= cursor[v] \/ split >= end[v])
    <3>1. steal' = [steal EXCEPT !.at = split]
      BY <1>1, <2>2 DEF split
    <3>2. split \in Position
      BY <1>2, <1>3, <2>2, SegmentsAssumption DEF Position
    <3>3. steal \in [thief : {{u} : u \in Worker}, victim : {{u} : u \in Worker}, at : Nat]
      BY DEF IInv, TypeOK, Steal, None
    <3>4. steal' = [thief |-> steal.thief, victim |-> steal.victim, at |-> split]
      BY <3>1, <3>3
    <3> QED BY <1>3, <3>2, <3>3, <3>4 DEF Steal
  <2> QED BY <2>1, <2>2
<1>5. pc' \in [Worker -> PC] /\ \A u \in Worker : pc'[u] = "send" => pc[u] = "send"
  BY <1>1 DEF IInv, TypeOK, Goto, PC, Exit
<1> QED BY <1>4, <1>5 DEF Aim, IInv, TypeOK, InFile, slot, locals, tokens

\* Cursors, ends, tails and intervals stay positions of the file.
LEMMA TypeStep ==
  ASSUME IInv, Next
  PROVE  TypeOK' /\ InFile'
<1> USE SegmentsAssumption, PlanAssumption
<1> USE DEF IInv, TypeOK, InFile, slot, locals, tokens, Goto, PC, Streaming, Exit
<1>1. CASE SeedSplit
  BY <1>1, SeedKeepsBytes DEF SeedSplit
<1>2. CASE SeedDone \/ Cancel
  BY <1>2 DEF SeedDone, Cancel
<1>3. ASSUME NEW w \in Worker, Spawn(w) \/ Retire(w)
      PROVE  TypeOK' /\ InFile'
  BY <1>3 DEF Spawn, Retire, Running
<1>4. ASSUME NEW w \in Worker, Request(w)
      PROVE  TypeOK' /\ InFile'
  <2>1. CASE StandDown(w) \/ Exhausted(w)
    BY <2>1 DEF StandDown, Exhausted
  <2>2. CASE TakeFree(w)
    BY <2>2 DEF TakeFree, Largest, NewClaim, Interval
  <2>3. CASE Choose(w)
    <3>1. PICK v \in Worker : steal' = [thief |-> {w}, victim |-> {v}, at |-> Remaining(v)]
      BY <2>3 DEF Choose
    <3>2. steal' \in Steal /\ steal'.at \in Position
      BY <3>1, RemainingType DEF Steal, Position
    <3> QED BY <2>3, <3>2 DEF Choose
  <2>4. CASE Aim(w)
    BY <2>4, AimType
  <2>5. CASE Lower(w)
    <3>1. PICK v \in steal.victim :
            /\ cursor' = [cursor EXCEPT ![w] = steal.at]
            /\ end' = [end EXCEPT ![v] = steal.at, ![w] = end[v]]
      BY <2>5 DEF Lower, NewClaim
    <3>2. v \in Worker
      BY DEF Steal, None
    <3>3. cursor' \in [Worker -> Position] /\ end' \in [Worker -> Position]
      BY <3>1, <3>2
    <3>4. steal' \in Steal /\ steal'.at \in Position
      BY <2>5 DEF Lower, Steal, None, Position
    <3>5. \A u \in Worker \ {w} : cursor'[u] = cursor[u] /\ pc'[u] = pc[u]
      BY <2>5, <3>1 DEF Lower, NewClaim
    <3>6. pc' \in [Worker -> PC]
      BY <2>5 DEF Lower, NewClaim
    <3>7. \A u \in Worker : pc'[u] = "send" => u # w
      BY <2>5 DEF Lower, NewClaim
    <3>8. InFile'
      BY <2>5, <3>4, <3>5, <3>7 DEF Lower
    <3>9. UNCHANGED <<seeding, free, locals, tokens, fetched>>
      BY <2>5 DEF Lower
    <3> QED BY <3>3, <3>4, <3>6, <3>8, <3>9
  <2> QED BY <1>4, <2>1, <2>2, <2>3, <2>4, <2>5 DEF Request
<1>5. ASSUME NEW w \in Worker, Release(w)
      PROVE  TypeOK' /\ InFile'
  <2>1. CASE Deactivate(w)
    BY <2>1 DEF Deactivate
  <2>4. CASE ReadTail(w)
    BY <2>4 DEF ReadTail
  <2>2. CASE PushTail(w)
    BY <2>2 DEF PushTail, MergeFree, Spans
  <2>3. CASE Retain(w)
    BY <2>3 DEF Retain, Position
  <2> QED BY <1>5, <2>1, <2>2, <2>3, <2>4 DEF Release
<1>6. ASSUME NEW w \in Worker, Begin(w) \/ Respond(w) \/ BodyOver(w) \/ WriterGone(w) \/ Ended(w)
      PROVE  TypeOK' /\ InFile'
  <2>1. CASE Begin(w)
    BY <2>1 DEF Begin, Return
  <2>2. CASE Respond(w)
    BY <2>2 DEF Respond, Return
  <2>3. CASE BodyOver(w)
    BY <2>3 DEF BodyOver
  <2>4. CASE WriterGone(w)
    BY <2>4 DEF WriterGone, Return
  <2>5. CASE Ended(w)
    BY <2>5 DEF Ended, Return
  <2> QED BY <1>6, <2>1, <2>2, <2>3, <2>4, <2>5
<1>7. ASSUME NEW w \in Worker, Retry(w)
      PROVE  TypeOK' /\ InFile'
  <2>1. attempt' \in [Worker -> 0 .. MaxAttempts]
    BY <1>7 DEF Retry
  <2>2. pc' \in [Worker -> PC] /\ \A u \in Worker : pc'[u] = "send" => pc[u] = "send"
    BY <1>7 DEF Retry, Return
  <2>3. verdict' \in [Worker -> {"ok", "Cancelled", "Failed"}]
    BY <1>7 DEF Retry, Return
  <2> QED BY <1>7, <2>1, <2>2, <2>3 DEF Retry
<1>8. ASSUME NEW w \in Worker, Chunk(w)
      PROVE  TypeOK' /\ InFile'
  <2>1. UNCHANGED <<seeding, free, cursor, end, attempt, verdict, tail, steal, retire, cancel, fetched>>
    BY <1>8 DEF Chunk
  <2>2. CASE cursor[w] >= end[w]
    <3>1. pc' = [pc EXCEPT ![w] = "ended"] /\ chunk' = chunk
      BY <1>8, <2>2 DEF Chunk
    <3> QED BY <2>1, <3>1
  <2>3. CASE cursor[w] < end[w]
    <3>1. PICK n \in 1 .. MaxChunk :
            /\ pc' = [pc EXCEPT ![w] = "send"]
            /\ chunk' = [chunk EXCEPT ![w] =
                 IF n > end[w] - cursor[w] THEN [take |-> end[w] - cursor[w], cut |-> TRUE]
                                           ELSE [take |-> n, cut |-> FALSE]]
      BY <1>8, <2>3 DEF Chunk, Position
    <3> DEFINE slice == IF n > end[w] - cursor[w] THEN [take |-> end[w] - cursor[w], cut |-> TRUE]
                                                  ELSE [take |-> n, cut |-> FALSE]
    <3>2. cursor[w] \in Nat /\ end[w] \in Nat /\ end[w] <= NBlocks
      BY DEF Position
    <3>3. slice \in [take : 0 .. MaxChunk, cut : BOOLEAN] /\ cursor[w] + slice.take <= NBlocks
      BY <2>3, <3>2
    <3> HIDE DEF slice
    <3>4. chunk' = [chunk EXCEPT ![w] = slice]
      BY <3>1 DEF slice
    <3>5. chunk' \in [Worker -> [take : 0 .. MaxChunk, cut : BOOLEAN]]
      BY <3>3, <3>4
    <3>6. pc' \in [Worker -> PC]
      BY <3>1
    <3>7. InFile'
      BY <2>1, <3>1, <3>3, <3>4
    <3> QED BY <2>1, <3>5, <3>6, <3>7
  <2> QED BY <2>2, <2>3 DEF Position
<1>9. ASSUME NEW w \in Worker, Accept(w)
      PROVE  TypeOK' /\ InFile'
  <2> DEFINE to == cursor[w] + chunk[w].take
  <2>1. to \in Position /\ cursor[w] .. to - 1 \subseteq Block
    BY <1>9 DEF Accept, Position, Block
  <2>2. cursor' = [cursor EXCEPT ![w] = to] /\ fetched' = fetched \cup (cursor[w] .. to - 1)
    BY <1>9 DEF Accept
  <2> QED BY <1>9, <2>1, <2>2 DEF Accept
<1> QED BY <1>1, <1>2, <1>3, <1>4, <1>5, <1>6, <1>7, <1>8, <1>9 DEF Next, WorkerStep

-----------------------------------------------------------------------------
(***************************************************************************)
(* Nothing is lost.                                                        *)
(***************************************************************************)
InPlan == AllBytes(free) \cup UNION {Claimed(w) : w \in Worker}

\* It is enough that what was unclaimed, and every claim, is somewhere.
LEMMA NothingDropped ==
  ASSUME NoByteLost, fetched \subseteq fetched',
         AllBytes(free) \subseteq fetched' \cup InPlan',
         \A u \in Worker : Claimed(u) \subseteq fetched' \cup InPlan'
  PROVE  NoByteLost'
BY DEF NoByteLost, InPlan

\* A worker's bytes stay its own while it goes from one place that holds a
\* claim to the next.
HoldsClaim == Streaming \cup {"release", "read"}

\* A worker that only changes its line of code keeps every block accounted for.
LEMMA StaysClaimed ==
  ASSUME TypeOK, NoByteLost, UNCHANGED <<free, slot, tail, fetched>>,
         NEW w \in Worker, NEW p \in PC, Goto(w, p),
         pc[w] # "push", p \in HoldsClaim \/ pc[w] \notin HoldsClaim
  PROVE  NoByteLost'
<1>1. \A u \in Worker : u # w => Claimed(u) = Claimed(u)'
  BY DEF TypeOK, Goto, Claimed, slot
<1>2. Claimed(w) \subseteq Claimed(w)'
  BY DEF TypeOK, Goto, Claimed, slot, HoldsClaim, Streaming
<1> QED BY <1>1, <1>2, NothingDropped DEF InPlan

\* No step takes a block out of all hands: the free list, a claim, a tail in
\* transit and the fetched blocks.
LEMMA NoByteLostStep ==
  ASSUME IInv, Next, TypeOK'
  PROVE  NoByteLost'
<1> USE SegmentsAssumption
<1>1. CASE SeedSplit
  <2>1. AllBytes(free) \subseteq AllBytes(free')
    BY <1>1, SeedKeepsBytes DEF SeedSplit, IInv, TypeOK
  <2>2. \A u \in Worker : Claimed(u)' = Claimed(u)
    BY <1>1 DEF SeedSplit, Claimed, slot, locals
  <2> QED BY <1>1, <2>1, <2>2, NothingDropped DEF SeedSplit, InPlan, IInv
<1>2. CASE SeedDone \/ Cancel
  BY <1>2 DEF SeedDone, Cancel, IInv, NoByteLost, Claimed, slot, locals
<1>3. ASSUME NEW w \in Worker, Spawn(w)
      PROVE  NoByteLost'
  BY <1>3, StaysClaimed DEF Spawn, IInv, HoldsClaim, Streaming, PC, Exit, locals
<1>4. ASSUME NEW w \in Worker, Retire(w)
      PROVE  NoByteLost'
  BY <1>4 DEF Retire, IInv, NoByteLost, Claimed, slot, locals
<1>5. ASSUME NEW w \in Worker, StandDown(w)
      PROVE  NoByteLost'
  BY <1>5, StaysClaimed DEF StandDown, IInv, HoldsClaim, Streaming, PC, Exit, locals
<1>6. ASSUME NEW w \in Worker, Choose(w) \/ Exhausted(w)
      PROVE  NoByteLost'
  BY <1>6, StaysClaimed DEF Choose, Exhausted, Asks, IInv, HoldsClaim, Streaming, PC, Exit, locals
<1>7. ASSUME NEW w \in Worker, Aim(w)
      PROVE  NoByteLost'
  BY <1>7, StaysClaimed DEF Aim, IInv, HoldsClaim, Streaming, PC, Exit, locals
<1>8. ASSUME NEW w \in Worker, TakeFree(w)
      PROVE  NoByteLost'
  <2>1. PICK i \in free :
          /\ free' = free \ {i}
          /\ NewClaim(w, i[1], i[2]) /\ end' = [end EXCEPT ![w] = i[2]]
    BY <1>8 DEF TakeFree
  <2>2. Claimed(w)' = Bytes(i) /\ Claimed(w) = {}
    BY <1>8, <2>1 DEF TakeFree, Asks, NewClaim, Goto, Claimed, Bytes, IInv, TypeOK, Streaming
  <2>3. \A u \in Worker : u # w => Claimed(u) = Claimed(u)'
    BY <1>8, <2>1 DEF TakeFree, NewClaim, Goto, Claimed, IInv, TypeOK, locals
  <2>4. AllBytes(free) \subseteq AllBytes(free') \cup Bytes(i)
    BY <2>1 DEF AllBytes
  <2> QED BY <1>8, <2>2, <2>3, <2>4, NothingDropped DEF TakeFree, InPlan, IInv
<1>9. ASSUME NEW w \in Worker, Lower(w)
      PROVE  NoByteLost'
  <2>1. PICK v \in steal.victim :
          /\ NewClaim(w, steal.at, end[v])
          /\ end' = [end EXCEPT ![v] = steal.at, ![w] = end[v]]
    BY <1>9 DEF Lower
  <2>2. v \in Worker /\ steal.at \in Position /\ end[v] \in Position /\ cursor[v] \in Position
    BY DEF IInv, TypeOK, InFile, Steal, None
  <2>3. Claimed(w) = {} /\ Claimed(w)' = steal.at .. end[v] - 1
    BY <1>9, <2>1, <2>2 DEF Lower, NewClaim, Goto, Claimed, Bytes, IInv, TypeOK, Streaming
  <2>4. \A u \in Worker : u # w /\ u # v => Claimed(u) = Claimed(u)'
    BY <1>9, <2>1, <2>2 DEF Lower, NewClaim, Goto, Claimed, IInv, TypeOK, locals
  <2>5. v # w => Claimed(v) \subseteq Claimed(v)' \cup Claimed(w)'
    <3> SUFFICES ASSUME v # w PROVE Claimed(v) \subseteq Claimed(v)' \cup Claimed(w)'
      OBVIOUS
    <3>1. pc'[v] = pc[v] /\ cursor'[v] = cursor[v] /\ end'[v] = steal.at /\ tail' = tail
      BY <1>9, <2>1, <2>2 DEF Lower, NewClaim, Goto, IInv, TypeOK, locals
    <3>2. cursor[v] .. end[v] - 1 \subseteq (cursor[v] .. steal.at - 1) \cup (steal.at .. end[v] - 1)
      BY <2>2 DEF Position
    <3> QED BY <2>3, <3>1, <3>2 DEF Claimed, Bytes
  <2>6. \A u \in Worker : Claimed(u) \subseteq InPlan'
    BY <2>2, <2>3, <2>4, <2>5 DEF InPlan
  <2> QED BY <1>9, <2>6, NothingDropped DEF Lower, InPlan, IInv
<1>10. ASSUME NEW w \in Worker,
              Begin(w) \/ Respond(w) \/ Chunk(w) \/ BodyOver(w) \/ WriterGone(w) \/ Ended(w) \/ Retry(w)
       PROVE  NoByteLost'
  <2>1. UNCHANGED <<free, slot, tail, fetched>> /\ pc[w] \in Streaming
    BY <1>10 DEF Begin, Respond, Chunk, BodyOver, WriterGone, Ended, Retry, locals, Streaming
  <2>2. PICK p \in Streaming \cup {"release"} : Goto(w, p)
    <3>1. CASE Begin(w) \/ Respond(w) \/ BodyOver(w)
      BY <3>1 DEF Begin, Respond, BodyOver, Return, Streaming
    <3>2. CASE Chunk(w)
      BY <3>2 DEF Chunk, Streaming
    <3>3. CASE WriterGone(w) \/ Ended(w)
      BY <3>3 DEF WriterGone, Ended, Return, Streaming
    <3>4. CASE Retry(w)
      BY <3>4 DEF Retry, Return, Streaming
    <3> QED BY <1>10, <3>1, <3>2, <3>3, <3>4
  <2>3. p \in PC /\ p \in HoldsClaim /\ pc[w] # "push"
    BY <2>1, <2>2 DEF PC, HoldsClaim, Streaming
  <2> QED BY <2>1, <2>2, <2>3, StaysClaimed DEF IInv
<1>11. ASSUME NEW w \in Worker, Accept(w)
       PROVE  NoByteLost'
  <2> DEFINE to == cursor[w] + chunk[w].take
  <2>1. /\ fetched' = fetched \cup (cursor[w] .. to - 1)
        /\ cursor' = [cursor EXCEPT ![w] = to]
        /\ end' = end /\ tail' = tail /\ free' = free
        /\ \E p \in Streaming : Goto(w, p)
    BY <1>11 DEF Accept, Streaming
  <2>2. cursor[w] \in Nat /\ to \in Nat /\ end[w] \in Nat
    BY DEF IInv, TypeOK, Position
  <2>3. Claimed(w) \subseteq fetched' \cup Claimed(w)'
    <3>1. Claimed(w) = cursor[w] .. end[w] - 1
      BY <1>11 DEF Accept, Claimed, Bytes, Streaming
    <3>2. Claimed(w)' = to .. end[w] - 1
      BY <2>1 DEF Claimed, Bytes, Goto, IInv, TypeOK
    <3> QED BY <2>1, <2>2, <3>1, <3>2
  <2>4. \A u \in Worker : u # w => Claimed(u) = Claimed(u)'
    BY <2>1 DEF Claimed, Goto, IInv, TypeOK
  <2> HIDE DEF to
  <2> QED BY <2>1, <2>3, <2>4, NothingDropped DEF InPlan, IInv
<1>12. ASSUME NEW w \in Worker, Deactivate(w)
       PROVE  NoByteLost'
  BY <1>12, StaysClaimed DEF Deactivate, IInv, HoldsClaim, Streaming, PC, locals
<1>13. ASSUME NEW w \in Worker, ReadTail(w)
       PROVE  NoByteLost'
  <2>1. \A u \in Worker : u # w => Claimed(u) = Claimed(u)'
    BY <1>13 DEF ReadTail, Claimed, Goto, IInv, TypeOK, slot
  <2>2. Claimed(w) = Bytes(<<cursor[w], end[w]>>)
    BY <1>13 DEF ReadTail, Claimed
  <2>3. Claimed(w) \subseteq Claimed(w)'
    <3>1. CASE cursor[w] < end[w]
      BY <1>13, <2>2, <3>1 DEF ReadTail, Claimed, Goto, IInv, TypeOK, Streaming
    <3>2. CASE ~(cursor[w] < end[w])
      <4> cursor[w] \in Nat /\ end[w] \in Nat
        BY DEF IInv, TypeOK, Position
      <4> QED BY <2>2, <3>2 DEF Bytes
    <3> QED BY <3>1, <3>2
  <2> QED BY <1>13, <2>1, <2>3, NothingDropped DEF ReadTail, InPlan, IInv
<1>14. ASSUME NEW w \in Worker, PushTail(w)
       PROVE  NoByteLost'
  <2>1. \A u \in Worker : u # w => Claimed(u) = Claimed(u)'
    BY <1>14 DEF PushTail, Claimed, Goto, IInv, TypeOK, slot, locals
  <2>2. Claimed(w) = Bytes(tail[w])
    BY <1>14 DEF PushTail, Claimed, Streaming
  <2>3. AllBytes(free \cup {tail[w]}) = AllBytes(free) \cup Bytes(tail[w])
    BY DEF AllBytes
  <2>4. AllBytes(free \cup {tail[w]}) \subseteq Block
    BY DEF AllBytes, Bytes, IInv, TypeOK, Interval, Position, Block
  <2>5. AllBytes(free') = AllBytes(free) \cup Bytes(tail[w])
    BY <1>14, <2>3, <2>4, MergeKeepsBytes DEF PushTail
  <2> QED BY <1>14, <2>1, <2>2, <2>5, NothingDropped DEF PushTail, InPlan, IInv
<1>15. ASSUME NEW w \in Worker, Retain(w)
       PROVE  NoByteLost'
  <2>1. \A u \in Worker : u # w => Claimed(u) = Claimed(u)'
    BY <1>15 DEF Retain, Claimed, Goto, IInv, TypeOK
  <2>2. Claimed(w) = {}
    BY <1>15 DEF Retain, Claimed, Streaming
  <2> QED BY <1>15, <2>1, <2>2, NothingDropped DEF Retain, InPlan, IInv
<1> QED BY <1>1, <1>2, <1>3, <1>4, <1>5, <1>6, <1>7, <1>8, <1>9, <1>10, <1>11,
           <1>12, <1>13, <1>14, <1>15 DEF Next, WorkerStep, Request, Release

-----------------------------------------------------------------------------
(***************************************************************************)
(* The lock of the plan, and who is left to take what is unclaimed.        *)
(***************************************************************************)
LEMMA ElsewhereThanExhausted ==
  ASSUME IInv, NEW w \in Worker,
         \/ Deactivate(w) \/ ReadTail(w) \/ Retain(w) \/ Begin(w) \/ Respond(w) \/ Chunk(w)
         \/ BodyOver(w) \/ Accept(w) \/ WriterGone(w) \/ Ended(w) \/ Retry(w)
  PROVE  \E p \in PC \ {"idle", "aim", "lower", "Exhausted"} : pc' = [pc EXCEPT ![w] = p]
<1> USE DEF Goto, Return, PC, Streaming, Exit
<1>1. CASE Deactivate(w) \/ ReadTail(w)
  BY <1>1 DEF Deactivate, ReadTail
<1>2. CASE Retain(w)
  BY <1>2 DEF Retain, IInv, TypeOK
<1>3. CASE Begin(w) \/ Respond(w)
  BY <1>3 DEF Begin, Respond
<1>4. CASE Chunk(w) \/ BodyOver(w)
  BY <1>4 DEF Chunk, BodyOver
<1>5. CASE Accept(w) \/ WriterGone(w)
  BY <1>5 DEF Accept, WriterGone
<1>6. CASE Ended(w) \/ Retry(w)
  BY <1>6 DEF Ended, Retry
<1> QED BY <1>1, <1>2, <1>3, <1>4, <1>5, <1>6

\* The mutex is held by the worker that steals or pushes, and seeding comes first.
LEMMA StealingStep ==
  ASSUME IInv, Next
  PROVE  Stealing' /\ SeedsFirst'
<1> USE DEF IInv, TypeOK, Stealing, SeedsFirst, Goto, slot, locals, tokens
<1>1. CASE SeedSplit \/ SeedDone \/ Cancel
  BY <1>1 DEF SeedSplit, SeedDone, Cancel
<1>2. ASSUME NEW w \in Worker, Spawn(w) \/ Retire(w)
      PROVE  Stealing' /\ SeedsFirst'
  BY <1>2 DEF Spawn, Retire
<1>3. ASSUME NEW w \in Worker, StandDown(w) \/ Choose(w) \/ Exhausted(w) \/ Lower(w)
      PROVE  Stealing' /\ SeedsFirst'
  <2>1. CASE StandDown(w) \/ Exhausted(w)
    BY <2>1 DEF StandDown, Exhausted, Asks
  <2>2. CASE Choose(w)
    BY <2>2 DEF Choose, Asks, Unlocked, None
  <2>3. CASE Lower(w)
    BY <2>3 DEF Lower, NewClaim
  <2> QED BY <1>3, <2>1, <2>2, <2>3
<1>4. ASSUME NEW w \in Worker, Aim(w)
      PROVE  Stealing' /\ SeedsFirst'
  <2>1. pc[w] = "aim" /\ steal.thief = {w} /\ free = {} /\ free' = {} /\ seeding' = seeding
    BY <1>4 DEF Aim
  <2>2. \/ steal' = None /\ pc' = [pc EXCEPT ![w] = "Exhausted"]
        \/ steal'.thief = steal.thief /\ pc' = [pc EXCEPT ![w] = "lower"]
    <3>1. \/ steal' = None /\ pc' = [pc EXCEPT ![w] = "Exhausted"]
          \/ (\E split : steal' = [steal EXCEPT !.at = split]) /\ pc' = [pc EXCEPT ![w] = "lower"]
      BY <1>4 DEF Aim
    <3>2. steal \in [thief : SUBSET Worker, victim : SUBSET Worker, at : Nat]
      BY DEF Steal, None
    <3>3. ASSUME NEW split PROVE [steal EXCEPT !.at = split].thief = steal.thief
      <4>1. [steal EXCEPT !.at = split] = [thief |-> steal.thief, victim |-> steal.victim, at |-> split]
        BY <3>2
      <4> QED BY <4>1
    <3>4. CASE \E split : steal' = [steal EXCEPT !.at = split]
      <4>1. PICK split : steal' = [steal EXCEPT !.at = split]
        BY <3>4
      <4>2. steal'.thief = steal.thief
        BY <3>3, <4>1
      <4> QED BY <3>1, <4>2
    <3> QED BY <3>1, <3>4
  <2>3. \A u \in Worker : u # w => pc[u] \notin {"aim", "lower"} /\ pc'[u] = pc[u]
    BY <2>1, <2>2
  <2>4. SeedsFirst'
    BY <2>1
  <2>5. CASE pc' = [pc EXCEPT ![w] = "Exhausted"]
    BY <2>3, <2>4, <2>5
  <2>6. CASE steal'.thief = steal.thief
    BY <2>1, <2>3, <2>4, <2>6
  <2> QED BY <2>2, <2>5, <2>6
<1>5. ASSUME NEW w \in Worker, TakeFree(w)
      PROVE  Stealing' /\ SeedsFirst'
  BY <1>5 DEF TakeFree, Asks, Unlocked, None, NewClaim
<1>6. ASSUME NEW w \in Worker, PushTail(w)
      PROVE  Stealing' /\ SeedsFirst'
  BY <1>6 DEF PushTail, Unlocked, None
<1>7. ASSUME NEW w \in Worker,
             \/ Deactivate(w) \/ ReadTail(w) \/ Retain(w) \/ Begin(w) \/ Respond(w) \/ Chunk(w)
             \/ BodyOver(w) \/ Accept(w) \/ WriterGone(w) \/ Ended(w) \/ Retry(w)
      PROVE  Stealing' /\ SeedsFirst'
  <2>1. UNCHANGED <<seeding, free, steal>> /\ pc[w] # "idle"
    BY <1>7 DEF Deactivate, ReadTail, Retain, Begin, Respond, Chunk, BodyOver, Accept, WriterGone,
                Ended, Retry
  <2>2. \E p \in PC \ {"idle", "aim", "lower", "Exhausted"} : pc' = [pc EXCEPT ![w] = p]
    BY <1>7, ElsewhereThanExhausted
  <2> QED BY <2>1, <2>2
<1> QED BY <1>1, <1>2, <1>3, <1>4, <1>5, <1>6, <1>7 DEF Next, WorkerStep, Request, Release

\* A worker that found the plan exhausted left while every block was done or in
\* the hands of a worker that is still there.
LEMMA StillThereStep ==
  ASSUME IInv, Next
  PROVE  StillThere'
<1>1. CASE SeedSplit \/ SeedDone
  BY <1>1 DEF SeedSplit, SeedDone, IInv, SeedsFirst, StillThere
<1>2. CASE Cancel \/ \E w \in Worker : Retire(w)
  BY <1>2 DEF Cancel, Retire, IInv, StillThere
<1>3. ASSUME NEW w \in Worker, Exhausted(w) \/ Aim(w) \/ Choose(w)
      PROVE  StillThere'
  BY <1>3 DEF Exhausted, Aim, Choose, IInv, Stealing, StillThere
<1>4. ASSUME NEW w \in Worker,
             \E p \in PC \ {"idle", "aim", "lower", "Exhausted"} : pc' = [pc EXCEPT ![w] = p]
      PROVE  StillThere'
  BY <1>4 DEF IInv, TypeOK, StillThere
<1>5. ASSUME NEW w \in Worker, Spawn(w) \/ StandDown(w) \/ TakeFree(w) \/ Lower(w) \/ PushTail(w)
      PROVE  \E p \in PC \ {"idle", "aim", "lower", "Exhausted"} : pc' = [pc EXCEPT ![w] = p]
  BY <1>5 DEF Spawn, StandDown, TakeFree, Lower, PushTail, NewClaim, Goto, PC, Streaming, Exit
<1> QED BY <1>1, <1>2, <1>3, <1>4, <1>5, ElsewhereThanExhausted DEF Next, WorkerStep, Request, Release

-----------------------------------------------------------------------------
(***************************************************************************)
(* The theorems.                                                           *)
(***************************************************************************)
LEMMA Start == Init => IInv
<1> SUFFICES ASSUME Init PROVE IInv
  OBVIOUS
<1> USE SegmentsAssumption, PlanAssumption
<1>1. PICK done \in SUBSET Block : fetched = done /\ free = Spans(Block \ done)
  BY DEF Init
<1>2. TypeOK
  <2>1. free \subseteq Interval /\ fetched \subseteq Block
    BY <1>1 DEF Spans
  <2>2. 0 \in Position /\ None \in Steal /\ "idle" \in PC
    BY DEF Position, Steal, PC
  <2>3. chunk \in [Worker -> [take : 0 .. MaxChunk, cut : BOOLEAN]]
    BY DEF Init
  <2>4. tail \in [Worker -> Position \X Position]
    BY <2>2 DEF Init
  <2>5. /\ cursor \in [Worker -> Position] /\ end \in [Worker -> Position]
        /\ pc \in [Worker -> PC] /\ attempt \in [Worker -> 0 .. MaxAttempts]
        /\ verdict \in [Worker -> {"ok", "Cancelled", "Failed"}]
    BY <2>2 DEF Init
  <2> QED BY <2>1, <2>2, <2>3, <2>4, <2>5 DEF Init, TypeOK
<1>3. NoByteLost
  BY <1>1, SpansCover DEF NoByteLost
<1>4. InFile
  BY DEF Init, InFile, None, Position
<1>5. Stealing /\ SeedsFirst /\ StillThere
  BY DEF Init, Stealing, SeedsFirst, StillThere
<1> QED BY <1>2, <1>3, <1>4, <1>5 DEF IInv

\* Every step keeps every part of the invariant.
LEMMA Kept == IInv /\ [Next]_vars => IInv'
<1> SUFFICES ASSUME IInv, [Next]_vars PROVE IInv'
  OBVIOUS
<1>1. CASE Next
  <2>1. TypeOK' /\ InFile'
    BY <1>1, TypeStep
  <2> QED BY <1>1, <2>1, NoByteLostStep, StealingStep, StillThereStep DEF IInv
<1>2. CASE UNCHANGED vars
  <2> USE <1>2 DEF vars, slot, locals, tokens, IInv
  <2>1. TypeOK' /\ InFile'
    BY DEF TypeOK, InFile
  <2>2. NoByteLost'
    BY DEF NoByteLost, Claimed
  <2>3. Stealing' /\ SeedsFirst' /\ StillThere'
    BY DEF Stealing, SeedsFirst, StillThere
  <2> QED BY <2>1, <2>2, <2>3
<1> QED BY <1>1, <1>2

\* The invariant holds in every state of the plan.
LEMMA PlanInductive == Spec => []IInv
BY Start, Kept, PTL DEF Spec

\* Every variable of the plan keeps its type: cursors, ends and tails stay in
\* the file, attempts within their bound.
THEOREM PlanTypeCorrect == Spec => []TypeOK
BY PlanInductive, PTL DEF IInv

\* Whatever the interleaving of steals, releases, failures and cancellations,
\* what the writer has not accepted is unclaimed, claimed or about to be pushed
\* back.
THEOREM NothingIsLost == Spec => []NoByteLost
BY PlanInductive, PTL DEF IInv

\* If every worker that was started concluded that no work is left, none is.
THEOREM ExhaustedIsDone == Spec => []ExhaustedMeansDone
<1>1. IInv => ExhaustedMeansDone
  <2> SUFFICES ASSUME IInv, AllGone, \A w \in Worker : pc[w] \in {"idle", "Exhausted"}
               PROVE  fetched = Block
    BY DEF ExhaustedMeansDone
  <2>1. free = {}
    <3>1. \E w \in Worker : pc[w] # "idle"
      BY DEF AllGone, Running
    <3> QED BY <3>1 DEF IInv, StillThere
  <2>2. \A w \in Worker : Claimed(w) = {}
    BY DEF Claimed, Streaming
  <2>3. AllBytes(free) = {}
    BY <2>1 DEF AllBytes
  <2>4. UNION {Claimed(w) : w \in Worker} = {}
    BY <2>2
  <2> QED BY <2>3, <2>4 DEF IInv, NoByteLost, TypeOK
<1> QED BY <1>1, PlanInductive, PTL

-----------------------------------------------------------------------------
(***************************************************************************)
(* What drive() sees.  A claim that is being given back is the one release *)
(* has read, and the victim of a steal is a worker that has not yet given  *)
(* its claim back, since that takes the mutex.                             *)
(***************************************************************************)
Released ==
  \A w \in Worker :
    /\ pc[w] = "push" => tail[w][1] < tail[w][2]
    /\ pc[w] = "retain" => tail[w][1] < tail[w][2] \/ cursor[w] >= end[w]
    /\ pc[w] = "release" =>
         \/ verdict[w] = "ok" /\ (cursor[w] >= end[w] \/ w \in retire \/ ~UseRange)
         \/ verdict[w] = "Failed"
         \/ verdict[w] = "Cancelled" /\ cancel

Robbed(w, v) ==
  /\ steal.victim = {v}
  /\ pc[v] \in Streaming \cup {"release", "read", "push", "retain"}
  /\ pc[v] = "push" => tail[v][2] = end[v]
  /\ pc[v] = "retain" => ~(tail[v][1] < tail[v][2])
  /\ pc[w] = "lower" => steal.at \in SplitPoint /\ steal.at < end[v]

Robbery == \A w \in Worker : pc[w] \in {"aim", "lower"} => \E v \in Worker \ {w} : Robbed(w, v)

SeenInv == IInv /\ Released /\ Robbery

\* One worker's move leaves what is known of the others.
LEMMA ReleasedElsewhere ==
  ASSUME Released, NEW w \in Worker, retire \subseteq retire', cancel => cancel',
         \A u \in Worker \ {w} : /\ pc'[u] = pc[u] /\ verdict'[u] = verdict[u] /\ tail'[u] = tail[u]
                                 /\ cursor'[u] = cursor[u] /\ end'[u] = end[u],
         pc'[w] \notin {"release", "push", "retain"}
  PROVE  Released'
BY DEF Released

LEMMA ReleasedStep ==
  ASSUME IInv, Released, Robbery, Next
  PROVE  Released'
<1> USE DEF Goto, slot, locals, tokens
<1>0. TypeOK
  BY DEF IInv
<1>1. CASE SeedSplit \/ SeedDone \/ Cancel
  BY <1>1 DEF SeedSplit, SeedDone, Cancel, Released
<1>2. ASSUME NEW w \in Worker, Retire(w)
      PROVE  Released'
  BY <1>2 DEF Retire, Released
<1>3. ASSUME NEW w \in Worker,
             Spawn(w) \/ StandDown(w) \/ TakeFree(w) \/ Choose(w) \/ Exhausted(w) \/ Aim(w)
      PROVE  Released'
  <2> USE <1>0 DEF TypeOK
  <2>1. CASE Spawn(w) \/ StandDown(w) \/ Choose(w) \/ Exhausted(w)
    BY <2>1, ReleasedElsewhere DEF Spawn, StandDown, Choose, Exhausted
  <2>2. CASE TakeFree(w)
    BY <2>2, ReleasedElsewhere DEF TakeFree, NewClaim
  <2>3. CASE Aim(w)
    <3>1. pc' = [pc EXCEPT ![w] = "Exhausted"] \/ pc' = [pc EXCEPT ![w] = "lower"]
      BY <2>3 DEF Aim
    <3> QED BY <2>3, <3>1, ReleasedElsewhere DEF Aim
  <2> QED BY <1>3, <2>1, <2>2, <2>3
<1>4. ASSUME NEW w \in Worker, Lower(w)
      PROVE  Released'
  <2>1. PICK v \in steal.victim :
          /\ cursor' = [cursor EXCEPT ![w] = steal.at]
          /\ end' = [end EXCEPT ![v] = steal.at, ![w] = end[v]]
    BY <1>4 DEF Lower, NewClaim
  <2>2. v \in Worker /\ v # w /\ steal.at < end[v] /\ steal.at \in Nat
    <3>1. pc[w] = "lower"
      BY <1>4 DEF Lower
    <3> QED BY <2>1, <3>1, SegmentsAssumption DEF Robbery, Robbed, IInv, InFile, Position
  <2>3. pc' = [pc EXCEPT ![w] = "claim"] /\ UNCHANGED <<verdict, tail, retire, cancel>>
    BY <1>4 DEF Lower, NewClaim
  <2>4. \A u \in Worker \ {w} : /\ pc'[u] = pc[u] /\ cursor'[u] = cursor[u]
                                /\ cursor[u] \in Nat /\ end[u] \in Nat /\ end'[u] \in Nat
                                /\ end'[u] <= end[u]
    BY <1>0, <2>1, <2>2, <2>3, SegmentsAssumption DEF TypeOK, Position
  <2>5. pc'[w] = "claim"
    BY <1>0, <2>3 DEF TypeOK
  <2> QED BY <2>3, <2>4, <2>5 DEF Released
<1>5. ASSUME NEW w \in Worker, Begin(w) \/ Respond(w) \/ WriterGone(w) \/ Ended(w) \/ Retry(w)
      PROVE  Released'
  <2> USE <1>0 DEF TypeOK, Return
  <2>0. cursor[w] \in Nat /\ end[w] \in Nat
    BY SegmentsAssumption DEF Position
  <2>1. CASE Begin(w)
    BY <2>0, <2>1 DEF Begin, Released
  <2>2. CASE Respond(w)
    BY <2>2 DEF Respond, Released
  <2>3. CASE WriterGone(w)
    BY <2>3 DEF WriterGone, Released
  <2>4. CASE Ended(w)
    BY <2>0, <2>4 DEF Ended, Released
  <2>5. CASE Retry(w)
    BY <2>5 DEF Retry, Released
  <2> QED BY <1>5, <2>1, <2>2, <2>3, <2>4, <2>5
<1>6. ASSUME NEW w \in Worker, Chunk(w) \/ BodyOver(w) \/ Accept(w) \/ Deactivate(w)
      PROVE  Released'
  <2> USE <1>0 DEF TypeOK
  <2>1. CASE Chunk(w)
    BY <2>1, ReleasedElsewhere DEF Chunk
  <2>2. CASE BodyOver(w)
    BY <2>2, ReleasedElsewhere DEF BodyOver
  <2>3. CASE Accept(w)
    BY <2>3, ReleasedElsewhere DEF Accept
  <2>4. CASE Deactivate(w)
    BY <2>4, ReleasedElsewhere DEF Deactivate
  <2> QED BY <1>6, <2>1, <2>2, <2>3, <2>4
<1>7. ASSUME NEW w \in Worker, ReadTail(w)
      PROVE  Released'
  <2>0. cursor[w] \in Nat /\ end[w] \in Nat
    BY <1>0, SegmentsAssumption DEF TypeOK, Position
  <2> QED BY <1>0, <1>7, <2>0 DEF ReadTail, TypeOK, Released
<1>8. ASSUME NEW w \in Worker, PushTail(w)
      PROVE  Released'
  BY <1>0, <1>8 DEF PushTail, TypeOK, Released
<1>9. ASSUME NEW w \in Worker, Retain(w)
      PROVE  Released'
  BY <1>0, <1>9, ReleasedElsewhere DEF Retain, TypeOK
<1> QED BY <1>1, <1>2, <1>3, <1>4, <1>5, <1>6, <1>7, <1>8, <1>9
        DEF Next, WorkerStep, Request, Release

\* Nobody is in the middle of a steal unless the plan is locked, and then one is.
LEMMA OneThief ==
  ASSUME Stealing, NEW w \in Worker, pc[w] \in {"aim", "lower"}
  PROVE  ~Unlocked /\ \A u \in Worker \ {w} : pc[u] \notin {"aim", "lower"}
BY DEF Stealing, Unlocked, None

MayBeRobbed == Streaming \cup {"release", "read", "push", "retain"}

\* A step of a worker that is not the thief: if it is the victim it stays one.
LEMMA RobberyElsewhere ==
  ASSUME TypeOK, Robbery, NEW w \in Worker, steal' = steal,
         \A u \in Worker \ {w} : pc'[u] = pc[u] /\ tail'[u] = tail[u],
         end' = end, pc'[w] \notin {"aim", "lower"},
         pc[w] \in MayBeRobbed => pc'[w] \in MayBeRobbed,
         pc[w] \in MayBeRobbed /\ pc'[w] = "push" => tail'[w][2] = end[w],
         pc[w] \in MayBeRobbed /\ pc'[w] = "retain" => ~(tail'[w][1] < tail'[w][2])
  PROVE  Robbery'
BY DEF Robbery, Robbed, MayBeRobbed

LEMMA RobberyStep ==
  ASSUME IInv, Robbery, Next
  PROVE  Robbery'
<1> USE DEF Goto, slot, locals, tokens
<1>0. TypeOK /\ Stealing /\ InFile /\ SeedsFirst
  BY DEF IInv
<1>1. CASE SeedSplit \/ SeedDone \/ Cancel
  BY <1>1 DEF SeedSplit, SeedDone, Cancel, Robbery, Robbed
<1>2. ASSUME NEW w \in Worker, Retire(w)
      PROVE  Robbery'
  BY <1>2 DEF Retire, Robbery, Robbed
<1>3. ASSUME NEW w \in Worker, Spawn(w) \/ StandDown(w)
      PROVE  Robbery'
  BY <1>0, <1>3, RobberyElsewhere DEF Spawn, StandDown, MayBeRobbed, Streaming, TypeOK
<1>4. ASSUME NEW w \in Worker, TakeFree(w) \/ Exhausted(w) \/ PushTail(w) \/ Retain(w)
      PROVE  Robbery'
  <2>1. Unlocked
    BY <1>4 DEF TakeFree, Exhausted, Asks, PushTail, Retain
  <2>2. \A u \in Worker : pc[u] \notin {"aim", "lower"}
    BY <1>0, <2>1, OneThief
  <2>3. \A u \in Worker : pc'[u] \notin {"aim", "lower"}
    <3>1. \E p \in PC \ {"aim", "lower"} : pc' = [pc EXCEPT ![w] = p]
      BY <1>0, <1>4 DEF TakeFree, Exhausted, PushTail, Retain, NewClaim, PC, Streaming, Exit, TypeOK
    <3> QED BY <1>0, <2>2, <3>1 DEF TypeOK
  <2> QED BY <2>3 DEF Robbery
<1>5. ASSUME NEW w \in Worker, Choose(w)
      PROVE  Robbery'
  <2>1. PICK v \in Worker : /\ Victim(v)
                            /\ steal' = [thief |-> {w}, victim |-> {v}, at |-> Remaining(v)]
    BY <1>5 DEF Choose
  <2>2. pc[w] = "top" /\ pc' = [pc EXCEPT ![w] = "aim"] /\ Unlocked
    BY <1>5 DEF Choose, Asks
  <2>3. pc[v] \in Streaming \cup {"release"} /\ v # w
    BY <2>1, <2>2 DEF Victim, Active, Streaming
  <2>4. \A u \in Worker \ {w} : pc[u] \notin {"aim", "lower"} /\ pc'[u] = pc[u]
    BY <1>0, <2>2, OneThief DEF TypeOK
  <2>5. pc'[w] = "aim" /\ pc'[v] = pc[v] /\ steal'.victim = {v}
    BY <1>0, <2>1, <2>2, <2>3 DEF TypeOK
  <2>6. Robbed(w, v)'
    BY <2>3, <2>5 DEF Robbed, Streaming
  <2> QED BY <2>3, <2>4, <2>6 DEF Robbery
<1>6. ASSUME NEW w \in Worker, Aim(w)
      PROVE  Robbery'
  <2>1. pc[w] = "aim"
    BY <1>6 DEF Aim
  <2>2. PICK v \in Worker \ {w} : Robbed(w, v)
    BY <2>1 DEF Robbery
  <2> DEFINE p == cursor[v] + steal.at \div 2
             split == AlignUp(p)
  <2>3. IF split <= cursor[v] \/ split >= end[v]
        THEN pc' = [pc EXCEPT ![w] = "Exhausted"] /\ steal' = None
        ELSE pc' = [pc EXCEPT ![w] = "lower"] /\ steal' = [steal EXCEPT !.at = split]
    BY <1>6, <2>2 DEF Aim, Robbed
  <2>4. \A u \in Worker \ {w} : pc[u] \notin {"aim", "lower"}
    BY <1>0, <2>1, OneThief
  <2>5. CASE split <= cursor[v] \/ split >= end[v]
    BY <1>0, <2>3, <2>4, <2>5 DEF TypeOK, Robbery
  <2>6. CASE ~(split <= cursor[v] \/ split >= end[v])
    <3>1. cursor[v] \in Nat /\ end[v] \in Nat /\ end[v] <= NBlocks /\ steal.at \in Nat
      BY <1>0, SegmentsAssumption DEF TypeOK, InFile, Position
    <3>2. p \in Nat /\ split \in Nat /\ p <= split
      BY <3>1, AlignUpType, AlignUpGrows
    <3> HIDE DEF split
    <3>3. split < end[v] /\ split # 0 /\ p \in Position
      BY <2>6, <3>1, <3>2, SegmentsAssumption DEF Position
    <3>4. split \in SplitPoint
      BY <3>3 DEF SplitPoint, split
    <3>5. pc' = [pc EXCEPT ![w] = "lower"] /\ steal' = [steal EXCEPT !.at = split]
      BY <2>3, <2>6 DEF split
    <3>6. steal' = [thief |-> steal.thief, victim |-> steal.victim, at |-> split]
      BY <1>0, <3>5 DEF TypeOK, Steal, None
    <3>7. pc'[w] = "lower" /\ pc'[v] = pc[v] /\ steal'.victim = {v} /\ steal'.at = split
      BY <1>0, <2>2, <3>5, <3>6 DEF TypeOK, Robbed
    <3>8. tail' = tail /\ end' = end
      BY <1>6 DEF Aim
    <3>9. Robbed(w, v)'
      BY <2>2, <3>3, <3>4, <3>7, <3>8 DEF Robbed
    <3>10. \A u \in Worker \ {w} : pc'[u] \notin {"aim", "lower"}
      BY <1>0, <2>4, <3>5 DEF TypeOK
    <3> QED BY <2>2, <3>9, <3>10 DEF Robbery
  <2> QED BY <2>5, <2>6
<1>7. ASSUME NEW w \in Worker, Lower(w)
      PROVE  Robbery'
  <2>1. pc[w] = "lower" /\ pc' = [pc EXCEPT ![w] = "claim"]
    BY <1>7 DEF Lower, NewClaim
  <2>2. \A u \in Worker \ {w} : pc[u] \notin {"aim", "lower"}
    BY <1>0, <2>1, OneThief
  <2> QED BY <1>0, <2>1, <2>2 DEF TypeOK, Robbery
<1>8. ASSUME NEW w \in Worker,
             \/ Begin(w) \/ Respond(w) \/ Chunk(w) \/ BodyOver(w) \/ Accept(w) \/ WriterGone(w)
             \/ Ended(w) \/ Retry(w) \/ Deactivate(w)
      PROVE  Robbery'
  <2>1. /\ steal' = steal /\ tail' = tail /\ end' = end
        /\ \E p \in Streaming \cup {"release", "read"} : pc' = [pc EXCEPT ![w] = p]
    <3> USE DEF Return, Streaming
    <3>1. CASE Begin(w) \/ Respond(w) \/ BodyOver(w)
      BY <3>1 DEF Begin, Respond, BodyOver
    <3>2. CASE Chunk(w) \/ Accept(w)
      BY <3>2 DEF Chunk, Accept
    <3>3. CASE WriterGone(w) \/ Ended(w) \/ Deactivate(w)
      BY <3>3 DEF WriterGone, Ended, Deactivate
    <3>4. CASE Retry(w)
      BY <3>4 DEF Retry
    <3> QED BY <1>8, <3>1, <3>2, <3>3, <3>4
  <2>2. /\ pc'[w] \in Streaming \cup {"release", "read"}
        /\ \A u \in Worker \ {w} : pc'[u] = pc[u]
    BY <1>0, <2>1 DEF TypeOK
  <2> QED BY <1>0, <2>1, <2>2, RobberyElsewhere DEF MayBeRobbed, Streaming
<1>9. ASSUME NEW w \in Worker, ReadTail(w)
      PROVE  Robbery'
  <2>1. /\ steal' = steal /\ end' = end /\ tail' = [tail EXCEPT ![w] = <<cursor[w], end[w]>>]
        /\ pc' = [pc EXCEPT ![w] = IF cursor[w] < end[w] THEN "push" ELSE "retain"]
    BY <1>9 DEF ReadTail
  <2>2. /\ tail'[w] = <<cursor[w], end[w]>>
        /\ pc'[w] = IF cursor[w] < end[w] THEN "push" ELSE "retain"
        /\ \A u \in Worker \ {w} : pc'[u] = pc[u] /\ tail'[u] = tail[u]
    BY <1>0, <2>1 DEF TypeOK
  <2> QED BY <1>0, <2>1, <2>2, RobberyElsewhere DEF MayBeRobbed, Streaming
<1> QED BY <1>1, <1>2, <1>3, <1>4, <1>5, <1>6, <1>7, <1>8, <1>9
        DEF Next, WorkerStep, Request, Release

\* What is seen of a step of one worker.
LEMMA SeenChanges ==
  ASSUME NEW w \in Worker,
         \A u \in Worker \ {w} : Doing(u)' = Doing(u) /\ GivingBack(u)' = GivingBack(u)
  PROVE  /\ WorkerSeen' = [WorkerSeen EXCEPT ![w] = Doing(w)']
         /\ CursorSeen' = [CursorSeen EXCEPT ![w] = GivingBack(w)'[1]]
         /\ EndSeen' = [EndSeen EXCEPT ![w] = GivingBack(w)'[2]]
BY DEF WorkerSeen, CursorSeen, EndSeen

LEMMA SeenOfOthers ==
  ASSUME NEW u \in Worker, pc'[u] = pc[u], verdict'[u] = verdict[u], tail'[u] = tail[u],
         cursor'[u] = cursor[u], end'[u] = end[u]
  PROVE  Doing(u)' = Doing(u) /\ GivingBack(u)' = GivingBack(u)
BY DEF Doing, GivingBack, Active

\* Nothing is seen of a step that leaves a worker as busy as it was, with its claim.
LEMMA NothingSeen ==
  ASSUME NEW w \in Worker,
         \A u \in Worker \ {w} : /\ pc'[u] = pc[u] /\ verdict'[u] = verdict[u] /\ tail'[u] = tail[u]
                                 /\ cursor'[u] = cursor[u] /\ end'[u] = end[u],
         Doing(w)' = Doing(w), GivingBack(w)' = GivingBack(w),
         UNCHANGED <<free, fetched, retire, cancel>>
  PROVE  UNCHANGED Told!claims
<1>1. \A u \in Worker : Doing(u)' = Doing(u) /\ GivingBack(u)' = GivingBack(u)
  BY SeenOfOthers
<1>2. WorkerSeen' = WorkerSeen /\ CursorSeen' = CursorSeen /\ EndSeen' = EndSeen
  BY <1>1 DEF WorkerSeen, CursorSeen, EndSeen
<1> QED BY <1>2 DEF Told!claims, Told!plan

LEMMA StreamingUnseen ==
  ASSUME TypeOK, NEW w \in Worker,
         \/ Begin(w) \/ Respond(w) \/ Chunk(w) \/ BodyOver(w) \/ WriterGone(w) \/ Ended(w) \/ Retry(w)
  PROVE  UNCHANGED Told!claims
<1> USE DEF Goto, Return, Streaming
<1>1. /\ pc[w] \in Streaming
      /\ \E p \in Streaming \cup {"release"} : pc' = [pc EXCEPT ![w] = p]
      /\ verdict' = verdict \/ \E r \in {"ok", "Failed", "Cancelled"} : verdict' = [verdict EXCEPT ![w] = r]
      /\ UNCHANGED <<cursor, end, tail, free, fetched, retire, cancel>>
  <2> USE DEF slot, locals, tokens
  <2>1. CASE Begin(w) \/ Respond(w) \/ BodyOver(w)
    BY <2>1 DEF Begin, Respond, BodyOver
  <2>2. CASE Chunk(w)
    BY <2>2 DEF Chunk
  <2>3. CASE WriterGone(w) \/ Ended(w)
    BY <2>3 DEF WriterGone, Ended
  <2>4. CASE Retry(w)
    BY <2>4 DEF Retry
  <2> QED BY <2>1, <2>2, <2>3, <2>4
<1>2. pc'[w] \in Streaming \cup {"release"}
  BY <1>1 DEF TypeOK
<1>3. Doing(w)' = Doing(w) /\ GivingBack(w)' = GivingBack(w)
  BY <1>1, <1>2 DEF Doing, GivingBack, Active
<1>4. \A u \in Worker \ {w} : pc'[u] = pc[u] /\ verdict'[u] = verdict[u]
  BY <1>1 DEF TypeOK
<1> QED BY <1>1, <1>3, <1>4, NothingSeen

\* Asking for work: until the thief lowers the end, nothing is seen of a steal.
LEMMA RequestSeen ==
  ASSUME SeenInv, NEW w \in Worker, Request(w)
  PROVE  Told!WorkerStep(w) \/ UNCHANGED Told!claims
<1> USE DEF Goto, slot, locals, tokens
<1>0. TypeOK /\ Stealing /\ InFile /\ Robbery
  BY DEF SeenInv, IInv
<1> DEFINE Same(u) == /\ pc'[u] = pc[u] /\ verdict'[u] = verdict[u] /\ tail'[u] = tail[u]
                      /\ cursor'[u] = cursor[u] /\ end'[u] = end[u]
<1>a. ASSUME \A u \in Worker \ {w} : Same(u)
      PROVE  /\ WorkerSeen' = [WorkerSeen EXCEPT ![w] = Doing(w)']
             /\ CursorSeen' = [CursorSeen EXCEPT ![w] = GivingBack(w)'[1]]
             /\ EndSeen' = [EndSeen EXCEPT ![w] = GivingBack(w)'[2]]
  BY <1>a, SeenOfOthers, SeenChanges
<1>b. /\ CursorSeen = [CursorSeen EXCEPT ![w] = GivingBack(w)[1]]
      /\ EndSeen = [EndSeen EXCEPT ![w] = GivingBack(w)[2]]
      /\ WorkerSeen[w] = Doing(w)
  BY DEF CursorSeen, EndSeen, WorkerSeen
<1>1. CASE StandDown(w)
  <2>1. /\ pc[w] = "top" /\ (cancel \/ w \in retire) /\ \A u \in Worker \ {w} : Same(u)
        /\ pc'[w] = IF cancel THEN "Cancelled" ELSE "Retired"
        /\ UNCHANGED <<cursor, end, tail, free, fetched, retire, cancel>>
    BY <1>0, <1>1 DEF StandDown, TypeOK
  <2>2. /\ Doing(w) = "ready" /\ Doing(w)' = IF cancel THEN "Cancelled" ELSE "Retired"
        /\ GivingBack(w)' = GivingBack(w)
    <3>1. Doing(w) = "ready"
      BY <2>1 DEF Doing
    <3>2. GivingBack(w)' = GivingBack(w)
      BY <2>1 DEF GivingBack
    <3>3. CASE cancel
      BY <2>1, <3>1, <3>2, <3>3 DEF Doing, Active, Streaming, Exit
    <3>4. CASE ~cancel
      BY <2>1, <3>1, <3>2, <3>4 DEF Doing, Active, Streaming, Exit
    <3> QED BY <3>3, <3>4
  <2>3. /\ WorkerSeen' = [WorkerSeen EXCEPT ![w] = IF cancel THEN "Cancelled" ELSE "Retired"]
        /\ CursorSeen' = CursorSeen /\ EndSeen' = EndSeen
    BY <1>a, <1>b, <2>1, <2>2
  <2>4. Told!StandDown(w)
    BY <1>b, <2>1, <2>2, <2>3 DEF Told!StandDown, Told!Becomes, Told!plan
  <2> QED BY <2>1, <2>4 DEF Told!WorkerStep
<1>2. CASE TakeFree(w)
  <2>1. PICK i \in free : /\ Largest(free, i) /\ free' = free \ {i}
                          /\ cursor' = [cursor EXCEPT ![w] = i[1]]
                          /\ end' = [end EXCEPT ![w] = i[2]]
                          /\ pc' = [pc EXCEPT ![w] = "claim"]
    BY <1>2 DEF TakeFree, NewClaim
  <2>2. /\ pc[w] = "top" /\ ~cancel /\ w \notin retire
        /\ UNCHANGED <<verdict, tail, fetched, retire, cancel>>
    BY <1>2 DEF TakeFree, Asks
  <2>3. /\ \A u \in Worker \ {w} : Same(u)
        /\ pc'[w] = "claim" /\ cursor'[w] = i[1] /\ end'[w] = i[2]
    BY <1>0, <2>1, <2>2 DEF TypeOK
  <2>4. /\ Doing(w) = "ready" /\ Doing(w)' = "busy" /\ GivingBack(w)' = <<i[1], i[2]>>
    BY <2>2, <2>3 DEF Doing, GivingBack, Active, Streaming, Exit
  <2>5. /\ WorkerSeen' = [WorkerSeen EXCEPT ![w] = "busy"]
        /\ CursorSeen' = [CursorSeen EXCEPT ![w] = i[1]]
        /\ EndSeen' = [EndSeen EXCEPT ![w] = i[2]]
    <3>1. GivingBack(w)'[1] = i[1] /\ GivingBack(w)'[2] = i[2]
      BY <2>4
    <3> QED BY <1>a, <2>3, <2>4, <3>1
  <2>6. Told!Largest(free, i)
    BY <2>1 DEF Largest, Told!Largest, Size, Told!Size
  <2>7. Told!TakeFree(w)
    BY <1>b, <2>1, <2>2, <2>4, <2>5, <2>6 DEF Told!TakeFree, Told!Becomes
  <2> QED BY <2>2, <2>7 DEF Told!WorkerStep
<1>3. CASE Choose(w)
  <2>1. /\ pc[w] = "top" /\ pc'[w] = "aim" /\ \A u \in Worker \ {w} : Same(u)
        /\ UNCHANGED <<cursor, end, tail, free, fetched, retire, cancel>>
    BY <1>0, <1>3 DEF Choose, Asks, TypeOK
  <2>2. Doing(w)' = Doing(w) /\ GivingBack(w)' = GivingBack(w)
    BY <2>1 DEF Doing, GivingBack
  <2> QED BY <2>1, <2>2, NothingSeen
<1>4. ASSUME pc[w] \in {"top", "aim"}, free = {}, pc' = [pc EXCEPT ![w] = "Exhausted"],
             UNCHANGED <<cursor, end, tail, verdict, free, fetched, retire, cancel>>
      PROVE  Told!WorkerStep(w)
  <2>1. pc'[w] = "Exhausted" /\ \A u \in Worker \ {w} : Same(u)
    BY <1>0, <1>4 DEF TypeOK
  <2>2. Doing(w) = "ready" /\ Doing(w)' = "Exhausted" /\ GivingBack(w)' = GivingBack(w)
    BY <1>4, <2>1 DEF Doing, GivingBack, Active, Streaming, Exit
  <2>3. /\ WorkerSeen' = [WorkerSeen EXCEPT ![w] = "Exhausted"]
        /\ CursorSeen' = CursorSeen /\ EndSeen' = EndSeen
    BY <1>a, <1>b, <2>1, <2>2
  <2>4. Told!Exhausted(w)
    BY <1>4, <1>b, <2>2, <2>3 DEF Told!Exhausted, Told!Becomes, Told!plan
  <2> QED BY <1>4, <2>4 DEF Told!WorkerStep
<1>5. CASE Exhausted(w)
  BY <1>4, <1>5 DEF Exhausted, Asks
<1>6. CASE Aim(w)
  <2>1. /\ pc[w] = "aim" /\ free = {}
        /\ pc' = [pc EXCEPT ![w] = "Exhausted"] \/ pc' = [pc EXCEPT ![w] = "lower"]
        /\ UNCHANGED <<cursor, end, tail, verdict, free, fetched, retire, cancel>>
    BY <1>0, <1>6 DEF Aim, Stealing
  <2>2. CASE pc' = [pc EXCEPT ![w] = "Exhausted"]
    BY <1>4, <2>1, <2>2
  <2>3. CASE pc' = [pc EXCEPT ![w] = "lower"]
    <3>1. pc'[w] = "lower" /\ \A u \in Worker \ {w} : Same(u)
      BY <1>0, <2>1, <2>3 DEF TypeOK
    <3>2. Doing(w)' = Doing(w) /\ GivingBack(w)' = GivingBack(w)
      BY <2>1, <3>1 DEF Doing, GivingBack
    <3> QED BY <2>1, <3>1, <3>2, NothingSeen
  <2> QED BY <2>1, <2>2, <2>3
<1>7. CASE Lower(w)
  <2>1. pc[w] = "lower" /\ free = {}
    BY <1>0, <1>7 DEF Lower, Stealing
  <2>2. PICK v \in Worker \ {w} : Robbed(w, v)
    BY <1>0, <2>1 DEF Robbery
  <2> DEFINE at == steal.at
  <2>3. /\ cursor' = [cursor EXCEPT ![w] = at]
        /\ end' = [end EXCEPT ![v] = at, ![w] = end[v]]
        /\ pc' = [pc EXCEPT ![w] = "claim"]
        /\ UNCHANGED <<free, verdict, tail, retire, cancel, fetched>>
    BY <1>7, <2>2 DEF Lower, NewClaim, Robbed
  <2>4. at \in SplitPoint /\ at < end[v] /\ at \in Nat
    BY <1>0, <2>1, <2>2, SegmentsAssumption DEF Robbed, InFile, Position
  <2> HIDE DEF at
  <2>5. /\ pc'[w] = "claim" /\ cursor'[w] = at /\ end'[w] = end[v]
        /\ pc'[v] = pc[v] /\ cursor'[v] = cursor[v] /\ end'[v] = at
        /\ \A u \in Worker \ {v, w} : Same(u)
    BY <1>0, <2>2, <2>3 DEF TypeOK
  <2>6. /\ Doing(w) = "ready" /\ Doing(w)' = "busy"
        /\ GivingBack(w)'[1] = at /\ GivingBack(w)'[2] = end[v]
    BY <2>1, <2>5 DEF Doing, GivingBack, Active, Streaming, Exit
  <2>7. \A u \in Worker \ {v, w} : Doing(u)' = Doing(u) /\ GivingBack(u)' = GivingBack(u)
    BY <2>5, SeenOfOthers
  <2>8. /\ Doing(v)' = Doing(v) /\ GivingBack(v)[2] = end[v]
        /\ GivingBack(v)'[1] = GivingBack(v)[1]
        /\ \/ pc[v] # "push" /\ GivingBack(v)'[2] = at
           \/ pc[v] = "push" /\ GivingBack(v)'[2] = end[v]
    BY <2>2, <2>3, <2>5 DEF Robbed, Doing, GivingBack, Active, Streaming
  <2>9. Doing(v) \in {"ready", "busy", "back", "giveup", "standdown"}
        /\ (pc[v] = "push" => Doing(v) \in {"back", "giveup", "standdown"})
    BY <2>2 DEF Robbed, Doing, Active, Streaming, Exit
  <2>10. DOMAIN Told!Leaving = {"back", "giveup", "standdown"}
    BY DEF Told!Leaving
  <2>11. v \in Told!Live \ {w}
    BY <2>9, <2>10 DEF Told!Live, WorkerSeen
  <2>12. WorkerSeen' = [WorkerSeen EXCEPT ![w] = "busy"]
    BY <2>6, <2>7, <2>8 DEF WorkerSeen
  <2>13. CursorSeen' = [CursorSeen EXCEPT ![w] = at]
    BY <2>6, <2>7, <2>8 DEF CursorSeen
  <2>14. /\ \A u \in Worker : EndSeen[u] = GivingBack(u)[2] /\ EndSeen'[u] = GivingBack(u)'[2]
         /\ EndSeen = [u \in Worker |-> EndSeen[u]] /\ EndSeen' = [u \in Worker |-> EndSeen'[u]]
    BY DEF EndSeen
  <2>15. \/ EndSeen' = [EndSeen EXCEPT ![v] = at, ![w] = EndSeen[v]]
         \/ pc[v] = "push" /\ EndSeen' = [EndSeen EXCEPT ![w] = EndSeen[v]]
    BY <2>2, <2>6, <2>7, <2>8, <2>14
  <2>16. EndSeen[v] = end[v] /\ WorkerSeen[v] = Doing(v) /\ WorkerSeen[w] = "ready"
    BY <2>6, <2>8 DEF EndSeen, WorkerSeen
  <2>17. at \in Told!SplitPoint
    BY <2>4 DEF SplitPoint, Told!SplitPoint, AlignUp, Told!AlignUp, Position, Told!Position
  <2>18. Told!StealTail(w)
    BY <2>1, <2>3, <2>4, <2>9, <2>10, <2>11, <2>12, <2>13, <2>15, <2>16, <2>17
       DEF Told!StealTail, Told!Becomes
  <2> QED BY <2>3, <2>18 DEF Told!WorkerStep
<1> QED BY <1>1, <1>2, <1>3, <1>5, <1>6, <1>7 DEF Request

\* Before and after a step that leaves the other workers as they were.
LEMMA OneSeen ==
  ASSUME NEW w \in Worker,
         \A u \in Worker \ {w} : /\ pc'[u] = pc[u] /\ verdict'[u] = verdict[u] /\ tail'[u] = tail[u]
                                 /\ cursor'[u] = cursor[u] /\ end'[u] = end[u]
  PROVE  /\ WorkerSeen[w] = Doing(w)
         /\ CursorSeen[w] = GivingBack(w)[1] /\ EndSeen[w] = GivingBack(w)[2]
         /\ CursorSeen = [CursorSeen EXCEPT ![w] = GivingBack(w)[1]]
         /\ EndSeen = [EndSeen EXCEPT ![w] = GivingBack(w)[2]]
         /\ WorkerSeen' = [WorkerSeen EXCEPT ![w] = Doing(w)']
         /\ CursorSeen' = [CursorSeen EXCEPT ![w] = GivingBack(w)'[1]]
         /\ EndSeen' = [EndSeen EXCEPT ![w] = GivingBack(w)'[2]]
<1>1. \A u \in Worker \ {w} : Doing(u)' = Doing(u) /\ GivingBack(u)' = GivingBack(u)
  BY SeenOfOthers
<1>2. /\ WorkerSeen[w] = Doing(w)
      /\ CursorSeen[w] = GivingBack(w)[1] /\ EndSeen[w] = GivingBack(w)[2]
      /\ CursorSeen = [CursorSeen EXCEPT ![w] = GivingBack(w)[1]]
      /\ EndSeen = [EndSeen EXCEPT ![w] = GivingBack(w)[2]]
  BY DEF WorkerSeen, CursorSeen, EndSeen
<1> QED BY <1>1, <1>2, SeenChanges

\* The writer accepts a slice: bytes are delivered, unless the slice was empty.
LEMMA AcceptSeen ==
  ASSUME SeenInv, NEW w \in Worker, Accept(w)
  PROVE  Told!WorkerStep(w) \/ UNCHANGED Told!claims
<1> DEFINE to == cursor[w] + chunk[w].take
<1>0. TypeOK /\ InFile
  BY DEF SeenInv, IInv
<1>1. /\ pc[w] = "send"
      /\ fetched' = fetched \cup (cursor[w] .. to - 1)
      /\ cursor' = [cursor EXCEPT ![w] = to]
      /\ pc' = [pc EXCEPT ![w] = IF chunk[w].cut THEN "ended" ELSE "stream"]
      /\ UNCHANGED <<free, end, verdict, tail, retire, cancel>>
  BY DEF Accept, Goto, tokens
<1>2. /\ cursor[w] \in Nat /\ chunk[w].take \in Nat /\ chunk[w].take <= MaxChunk
      /\ to \in Nat /\ to <= NBlocks
  BY <1>0, <1>1, SegmentsAssumption, PlanAssumption DEF TypeOK, InFile, Position
<1>3. /\ pc'[w] \in {"stream", "ended"} /\ cursor'[w] = to
      /\ \A u \in Worker \ {w} : pc'[u] = pc[u] /\ cursor'[u] = cursor[u]
  BY <1>0, <1>1 DEF TypeOK
<1>4. /\ Doing(w) = "busy" /\ Doing(w)' = "busy"
      /\ GivingBack(w) = <<cursor[w], end[w]>> /\ GivingBack(w)' = <<to, end[w]>>
  BY <1>1, <1>3 DEF Doing, GivingBack, Active, Streaming
<1>5. CASE chunk[w].take = 0
  <2>1. to = cursor[w] /\ fetched' = fetched
    BY <1>1, <1>2, <1>5
  <2> QED BY <1>1, <1>3, <1>4, <2>1, NothingSeen
<1>6. CASE chunk[w].take # 0
  <2>1. cursor[w] < to /\ to <= cursor[w] + MaxChunk /\ to \in Told!Position
    BY <1>2, <1>6, PlanAssumption, SegmentsAssumption DEF Told!Position
  <2> HIDE DEF to
  <2>2. /\ WorkerSeen[w] = "busy" /\ WorkerSeen' = WorkerSeen
        /\ CursorSeen[w] = cursor[w]
        /\ CursorSeen' = [CursorSeen EXCEPT ![w] = to] /\ EndSeen' = EndSeen
    <3>1. WorkerSeen = [WorkerSeen EXCEPT ![w] = Doing(w)]
      BY DEF WorkerSeen
    <3> QED BY <1>1, <1>3, <1>4, <3>1, OneSeen
  <2>3. fetched' = fetched \cup Told!Bytes(<<CursorSeen[w], to>>)
    BY <1>1, <2>2 DEF Told!Bytes
  <2>4. Told!Deliver(w)
    BY <1>1, <2>1, <2>2, <2>3 DEF Told!Deliver
  <2> QED BY <1>1, <2>4 DEF Told!WorkerStep
<1> QED BY <1>5, <1>6

\* Releasing a claim: it leaves the worker once, as it was read.
LEMMA ReleaseSeen ==
  ASSUME SeenInv, NEW w \in Worker, Release(w)
  PROVE  Told!WorkerStep(w) \/ UNCHANGED Told!claims
<1> USE DEF Goto, slot, locals, tokens
<1>0. TypeOK /\ Released
  BY DEF SeenInv, IInv
<1>1. /\ DOMAIN Told!Leaving = {"back", "giveup", "standdown"}
      /\ Told!Leaving["back"] = "ready" /\ Told!Leaving["giveup"] = "Failed"
      /\ Told!Leaving["standdown"] = "Cancelled"
  BY DEF Told!Leaving
<1>2. cursor[w] \in Nat /\ end[w] \in Nat /\ tail[w] \in Position \X Position
  BY <1>0, SegmentsAssumption DEF TypeOK, Position
<1>3. CASE Deactivate(w)
  <2>1. /\ pc[w] = "release" /\ pc'[w] = "read" /\ \A u \in Worker \ {w} : pc'[u] = pc[u]
        /\ UNCHANGED <<cursor, end, tail, verdict, free, fetched, retire, cancel>>
    BY <1>0, <1>3 DEF Deactivate, TypeOK
  <2>2. /\ Doing(w) = "busy" /\ GivingBack(w) = <<cursor[w], end[w]>>
        /\ GivingBack(w)' = GivingBack(w)
    BY <2>1 DEF Doing, GivingBack, Active, Streaming
  <2>3. Doing(w)' = IF verdict[w] = "ok" THEN "back"
                    ELSE IF verdict[w] = "Failed" THEN "giveup" ELSE "standdown"
    BY <2>1 DEF Doing, Active, Streaming, Exit
  <2>4. /\ WorkerSeen[w] = "busy" /\ CursorSeen[w] = cursor[w] /\ EndSeen[w] = end[w]
        /\ WorkerSeen' = [WorkerSeen EXCEPT ![w] = Doing(w)']
        /\ CursorSeen' = CursorSeen /\ EndSeen' = EndSeen
    BY <2>1, <2>2, OneSeen
  <2>5. \/ Doing(w)' = "back" /\ (cursor[w] >= end[w] \/ w \in retire \/ ~UseRange)
        \/ Doing(w)' = "giveup"
        \/ Doing(w)' = "standdown" /\ cancel
    BY <1>0, <2>1, <2>3 DEF Released
  <2>6. Told!Leave(w)
    BY <2>1, <2>4, <2>5 DEF Told!Leave, Told!Becomes, Told!plan
  <2> QED BY <2>1, <2>6 DEF Told!WorkerStep
<1>4. CASE ReadTail(w)
  <2>1. /\ pc[w] = "read" /\ tail'[w] = <<cursor[w], end[w]>>
        /\ pc'[w] = IF cursor[w] < end[w] THEN "push" ELSE "retain"
        /\ \A u \in Worker \ {w} : pc'[u] = pc[u] /\ tail'[u] = tail[u]
        /\ UNCHANGED <<cursor, end, verdict, free, fetched, retire, cancel>>
    BY <1>0, <1>4 DEF ReadTail, TypeOK
  <2>2. Doing(w)' = Doing(w)
    BY <2>1 DEF Doing, Active, Streaming, Exit
  <2>3. GivingBack(w)' = GivingBack(w)
    BY <2>1 DEF GivingBack
  <2> QED BY <2>1, <2>2, <2>3, NothingSeen
<1>5. ASSUME pc[w] \in {"push", "retain"}
      PROVE  /\ Doing(w) \in {"back", "giveup", "standdown"}
             /\ verdict[w] = "ok" => Doing(w) = "back"
             /\ verdict[w] = "Failed" => Doing(w) = "giveup"
             /\ verdict[w] = "Cancelled" => Doing(w) = "standdown"
  BY <1>5 DEF Doing, Active, Streaming, Exit
<1>6. CASE PushTail(w)
  <2>1. /\ pc[w] = "push" /\ pc'[w] = "retain" /\ \A u \in Worker \ {w} : pc'[u] = pc[u]
        /\ free' = MergeFree(free \cup {tail[w]})
        /\ UNCHANGED <<cursor, end, tail, verdict, fetched, retire, cancel>>
    BY <1>0, <1>6 DEF PushTail, TypeOK
  <2>2. tail[w][1] < tail[w][2] /\ tail[w] = <<tail[w][1], tail[w][2]>>
    BY <1>0, <1>2, <2>1 DEF Released
  <2>3. GivingBack(w) = tail[w] /\ GivingBack(w)' = <<0, 0>>
    BY <2>1, <2>2 DEF GivingBack
  <2>4. Doing(w)' = Doing(w)
    BY <2>1 DEF Doing, Active, Streaming, Exit
  <2>5. /\ WorkerSeen[w] = Doing(w) /\ WorkerSeen' = WorkerSeen
        /\ CursorSeen[w] = tail[w][1] /\ EndSeen[w] = tail[w][2]
        /\ CursorSeen' = [CursorSeen EXCEPT ![w] = 0] /\ EndSeen' = [EndSeen EXCEPT ![w] = 0]
    <3>1. WorkerSeen = [WorkerSeen EXCEPT ![w] = Doing(w)]
      BY DEF WorkerSeen
    <3>2. GivingBack(w)'[1] = 0 /\ GivingBack(w)'[2] = 0
      BY <2>3
    <3> QED BY <2>1, <2>3, <2>4, <3>1, <3>2, OneSeen
  <2>6. free' = Told!MergeFree(free \cup {<<CursorSeen[w], EndSeen[w]>>})
    <3>1. \A F : Told!MergeFree(F) = MergeFree(F)
      BY DEF Told!MergeFree, Told!Spans, Told!AllBytes, Told!Bytes, Told!Interval, Told!Position,
             MergeFree, Spans, AllBytes, Bytes, Interval, Position
    <3>2. <<CursorSeen[w], EndSeen[w]>> = tail[w]
      BY <2>2, <2>5
    <3> QED BY <2>1, <3>1, <3>2
  <2>7. Told!GiveBack(w)
    BY <1>1, <1>5, <2>1, <2>2, <2>5, <2>6 DEF Told!GiveBack, Told!NoClaim
  <2> QED BY <2>1, <2>7 DEF Told!WorkerStep
<1>7. CASE Retain(w)
  <2>1. /\ pc[w] = "retain" /\ pc'[w] = IF verdict[w] = "ok" THEN "top" ELSE verdict[w]
        /\ cursor'[w] = 0 /\ end'[w] = 0 /\ tail'[w] = <<0, 0>>
        /\ \A u \in Worker \ {w} : /\ pc'[u] = pc[u] /\ verdict'[u] = verdict[u] /\ tail'[u] = tail[u]
                                   /\ cursor'[u] = cursor[u] /\ end'[u] = end[u]
        /\ UNCHANGED <<free, fetched, retire, cancel>>
    BY <1>0, <1>7 DEF Retain, TypeOK
  <2>2. verdict[w] \in {"ok", "Cancelled", "Failed"}
    BY <1>0 DEF TypeOK
  <2>3. GivingBack(w)[1] >= GivingBack(w)[2]
    BY <1>0, <2>1 DEF Released, GivingBack
  <2>4. GivingBack(w)'[1] = 0 /\ GivingBack(w)'[2] = 0
    BY <2>1, <2>2 DEF GivingBack
  <2>5. Doing(w) \in DOMAIN Told!Leaving /\ Doing(w)' = Told!Leaving[Doing(w)]
    <3>1. CASE verdict[w] = "ok"
      BY <1>1, <1>5, <2>1, <3>1 DEF Doing
    <3>2. CASE verdict[w] = "Failed"
      BY <1>1, <1>5, <2>1, <3>2 DEF Doing, Active, Streaming, Exit
    <3>3. CASE verdict[w] = "Cancelled"
      BY <1>1, <1>5, <2>1, <3>3 DEF Doing, Active, Streaming, Exit
    <3> QED BY <2>2, <3>1, <3>2, <3>3
  <2>6. /\ WorkerSeen[w] = Doing(w) /\ WorkerSeen' = [WorkerSeen EXCEPT ![w] = Doing(w)']
        /\ CursorSeen[w] >= EndSeen[w]
        /\ CursorSeen' = [CursorSeen EXCEPT ![w] = 0] /\ EndSeen' = [EndSeen EXCEPT ![w] = 0]
    BY <2>1, <2>3, <2>4, OneSeen
  <2>7. Told!GoOn(w)
    BY <2>1, <2>5, <2>6 DEF Told!GoOn, Told!NoClaim, Told!Becomes
  <2> QED BY <2>1, <2>7 DEF Told!WorkerStep
<1> QED BY <1>3, <1>4, <1>6, <1>7 DEF Release

\* What drive() does to the plan and its workers.
LEMMA DriverSeen ==
  ASSUME SeenInv,
         SeedSplit \/ SeedDone \/ Cancel \/ \E w \in Worker : Spawn(w) \/ Retire(w)
  PROVE  Told!Drives
<1> USE DEF Goto, slot, locals, tokens
<1>0. SeedsFirst /\ WorkerSeen' \in [Worker -> Told!Status]
  <2>1. DOMAIN Told!Leaving = {"back", "giveup", "standdown"}
    BY DEF Told!Leaving
  <2>2. \A w \in Worker : Doing(w)' \in Told!Status
    BY <2>1 DEF Doing, Told!Status, Told!Exit, Exit
  <2> QED BY <2>2 DEF WorkerSeen, SeenInv, IInv
<1>1. UNCHANGED <<cursor, end, tail, verdict, fetched>> /\ retire \subseteq retire' /\ (cancel => cancel')
  BY DEF SeedSplit, SeedDone, Cancel, Spawn, Retire
<1>2. ASSUME pc' = pc
      PROVE  WorkerSeen' = WorkerSeen /\ CursorSeen' = CursorSeen /\ EndSeen' = EndSeen
  <2>1. \A w \in Worker : Doing(w)' = Doing(w) /\ GivingBack(w)' = GivingBack(w)
    BY <1>1, <1>2, SeenOfOthers
  <2> QED BY <2>1 DEF WorkerSeen, CursorSeen, EndSeen
<1>3. CASE SeedSplit
  <2>1. pc' = pc /\ seeding /\ free' \in SeedRound(free)
    BY <1>3 DEF SeedSplit
  <2>2. \A w \in Worker : WorkerSeen[w] = "none"
    BY <1>0, <2>1 DEF SeedsFirst, WorkerSeen, Doing
  <2>3. \A F : Told!SeedRound(F) = SeedRound(F)
    BY DEF SeedRound, Told!SeedRound, Largest, Told!Largest, Splittable, Told!Splittable,
           Halves, Told!Halves, Size, Told!Size, AlignUp, Told!AlignUp
  <2> QED BY <1>0, <1>1, <1>2, <2>1, <2>2, <2>3 DEF Told!Drives, Told!Directed
<1>4. CASE SeedDone \/ Cancel \/ \E w \in Worker : Retire(w)
  <2>1. pc' = pc /\ free' = free
    BY <1>4 DEF SeedDone, Cancel, Retire
  <2> QED BY <1>0, <1>1, <1>2, <2>1 DEF Told!Drives, Told!Directed
<1>5. ASSUME NEW w \in Worker, Spawn(w)
      PROVE  Told!Drives
  <2>1. /\ pc[w] = "idle" /\ pc'[w] \in {"top", "Failed"} /\ free' = free
        /\ \A u \in Worker \ {w} : pc'[u] = pc[u]
    BY <1>5 DEF Spawn, SeenInv, IInv, TypeOK
  <2>2. /\ Doing(w) = "none" /\ Doing(w)' \in {"ready", "Failed"}
        /\ GivingBack(w)' = GivingBack(w)
    <3>1. GivingBack(w)' = GivingBack(w)
      BY <1>1, <2>1 DEF GivingBack
    <3>2. Doing(w) = "none" /\ Doing(w)' \in {"ready", "Failed"}
      BY <2>1 DEF Doing, Active, Streaming, Exit
    <3> QED BY <3>1, <3>2
  <2>3. /\ WorkerSeen[w] = "none" /\ WorkerSeen' = [WorkerSeen EXCEPT ![w] = Doing(w)']
        /\ CursorSeen' = CursorSeen /\ EndSeen' = EndSeen
    BY <1>1, <2>1, <2>2, OneSeen
  <2>4. \A u \in Worker : Told!Directed(u)
    BY <2>2, <2>3 DEF Told!Directed, WorkerSeen
  <2> QED BY <1>0, <1>1, <2>1, <2>3, <2>4 DEF Told!Drives
<1> QED BY <1>3, <1>4, <1>5

\* At the start nothing is claimed, and nobody is releasing or stealing.
LEMMA SeenStart ==
  ASSUME Init
  PROVE  SeenInv /\ Told!Unstarted
<1>1. Released /\ Robbery
  BY DEF Init, Released, Robbery
<1>2. \A w \in Worker : Doing(w) = "none" /\ GivingBack(w) = <<0, 0>>
  BY DEF Init, Doing, GivingBack
<1>3. /\ WorkerSeen = [w \in Worker |-> "none"]
      /\ CursorSeen = [w \in Worker |-> 0] /\ EndSeen = [w \in Worker |-> 0]
  BY <1>2 DEF WorkerSeen, CursorSeen, EndSeen
<1>4. \A S : Told!Spans(S) = Spans(S) /\ Told!Block = Block
  BY DEF Told!Spans, Told!Bytes, Told!Interval, Told!Position, Told!Block,
         Spans, Bytes, Interval, Position, Block
<1>5. Told!Unstarted
  BY <1>3, <1>4 DEF Init, Told!Unstarted
<1> QED BY <1>1, <1>5, Start DEF SeenInv

LEMMA SeenKept == SeenInv /\ [Next]_vars => SeenInv'
<1> SUFFICES ASSUME SeenInv, [Next]_vars PROVE SeenInv'
  OBVIOUS
<1>1. IInv'
  BY Kept DEF SeenInv
<1>2. CASE Next
  BY <1>1, <1>2, ReleasedStep, RobberyStep DEF SeenInv
<1>3. CASE UNCHANGED vars
  <2>1. Released' /\ Robbery'
    BY <1>3 DEF vars, slot, locals, tokens, SeenInv, Released, Robbery, Robbed
  <2> QED BY <1>1, <2>1 DEF SeenInv
<1> QED BY <1>2, <1>3

\* Every step of the plan and its workers is one that Claims allows, or is not seen.
LEMMA PlanStepSeen ==
  ASSUME SeenInv, [Next]_vars
  PROVE  [Told!ClaimsNext]_(Told!claims)
<1>1. TypeOK
  BY DEF SeenInv, IInv
<1>2. CASE SeedSplit \/ SeedDone \/ Cancel
  BY <1>2, DriverSeen DEF Told!ClaimsNext
<1>3. ASSUME NEW w \in Worker, Spawn(w) \/ Retire(w)
      PROVE  Told!ClaimsNext
  BY <1>3, DriverSeen DEF Told!ClaimsNext
<1>4. ASSUME NEW w \in Worker, WorkerStep(w) \/ Respond(w)
      PROVE  Told!WorkerStep(w) \/ UNCHANGED Told!claims
  BY <1>1, <1>4, RequestSeen, ReleaseSeen, AcceptSeen, StreamingUnseen DEF WorkerStep
<1>5. CASE UNCHANGED vars
  <2>1. \A w \in Worker : Doing(w)' = Doing(w) /\ GivingBack(w)' = GivingBack(w)
    BY <1>5, SeenOfOthers DEF vars, slot, locals
  <2>2. WorkerSeen' = WorkerSeen /\ CursorSeen' = CursorSeen /\ EndSeen' = EndSeen
    BY <2>1 DEF WorkerSeen, CursorSeen, EndSeen
  <2> QED BY <1>5, <2>2 DEF vars, tokens, Told!claims, Told!plan
<1> QED BY <1>2, <1>3, <1>4, <1>5 DEF Next, Told!ClaimsNext

\* Whatever the interleaving of steals, releases and failures, and whenever workers
\* are started, asked to stand down or cancelled, drive() sees the workers and the
\* plan do what Claims says: a steal is one step, and a claim is given back once.
THEOREM PlanKeepsItsWord == Spec => ImplementsClaims
<1>1. Init => SeenInv /\ Told!Unstarted
  BY SeenStart
<1>2. SeenInv /\ [Next]_vars => [Told!ClaimsNext]_(Told!claims)
  BY PlanStepSeen
<1> QED BY <1>1, <1>2, SeenKept, PTL DEF Spec, ImplementsClaims, Told!ClaimsSpec
=============================================================================
