------------------------------ MODULE ClaimPlan ------------------------------
(***************************************************************************)
(* The plan (swiftload-core/src/task/plan.rs) and the workers that draw    *)
(* their claims from it (task/worker.rs).  A claim [cursor, end) belongs   *)
(* to one worker, which only moves its cursor; whoever asks for work and   *)
(* finds none unclaimed lowers the end of the largest claim and takes the  *)
(* tail.  The mutex of the plan is held across the several atomic reads    *)
(* and the store of such a steal, but giving a claim back reads the claim  *)
(* before it takes the mutex, and the owner streams without it.            *)
(*                                                                         *)
(* drive(), which starts workers and stands them down, and the governor    *)
(* behind it are left open: Spawn, Retire and Cancel may come at any time. *)
(* What drive() may rely on in turn is Claims.tla.                         *)
(* A position is a multiple of the network's chunk granularity.            *)
(***************************************************************************)
EXTENDS Segments

CONSTANTS
  Worker,        \* the workers one session may spawn
  MaxChunk,      \* bound: the largest body chunk
  MaxAttempts,   \* max_retries_per_segment
  UseRange       \* did the probe find that ranges work?

ASSUME PlanAssumption ==
  /\ MaxChunk \in Nat \ {0} /\ MaxAttempts \in Nat
  /\ UseRange \in BOOLEAN

VARIABLES
  seeding,   \* is seed() still splitting the gaps?
  free,      \* unclaimed intervals
  pc,        \* where each worker is, and how it exited
  cursor, end,
  attempt,   \* failed attempts at the claim
  chunk,     \* the slice handed to the writer, and whether it was cut short
  verdict,   \* what fetch_claim returned
  tail,      \* (cursor, end) as release() read them
  steal,     \* the steal under way, under the mutex; or None
  retire,    \* workers asked to stand down
  cancel,
  fetched    \* history: blocks on disk already, or accepted by the writer

slot    == <<cursor, end>>
locals  == <<attempt, chunk, verdict, tail>>
tokens  == <<retire, cancel>>
vars == <<seeding, free, pc, slot, locals, steal, tokens, fetched>>

None == [thief |-> {}, victim |-> {}, at |-> 0]
Steal == {None} \cup [thief : {{w} : w \in Worker}, victim : {{w} : w \in Worker}, at : Nat]

Streaming == {"claim", "head", "stream", "send", "ended", "error"}
Exit == {"Exhausted", "Retired", "Cancelled", "Failed"}
PC == {"idle", "top", "aim", "lower", "release", "read", "push", "retain"}
        \cup Streaming \cup Exit

Running == {w \in Worker : pc[w] \notin {"idle"} \cup Exit}
Active  == {w \in Worker : pc[w] \in Streaming \cup {"release"}}

Unlocked == steal = None

Remaining(w) == IF cursor[w] < end[w] THEN end[w] - cursor[w] ELSE 0
Goto(w, p) == pc' = [pc EXCEPT ![w] = p]
Return(w, v) == /\ Goto(w, "release")
                /\ verdict' = [verdict EXCEPT ![w] = v]

Init ==
  /\ \E done \in SUBSET Block : fetched = done /\ free = Spans(Block \ done)
  /\ seeding = TRUE
  /\ pc = [w \in Worker |-> "idle"]
  /\ cursor = [w \in Worker |-> 0] /\ end = [w \in Worker |-> 0]
  /\ attempt = [w \in Worker |-> 0]
  /\ chunk = [w \in Worker |-> [take |-> 0, cut |-> FALSE]]
  /\ verdict = [w \in Worker |-> "ok"]
  /\ tail = [w \in Worker |-> <<0, 0>>]
  /\ steal = None
  /\ retire = {} /\ cancel = FALSE

-----------------------------------------------------------------------------
(* Before the workers: seed(k0).                                           *)

SeedSplit ==
  /\ seeding
  /\ Cardinality(free) < Cardinality(Worker)
  /\ free' \in SeedRound(free)
  /\ UNCHANGED <<seeding, pc, slot, locals, steal, tokens, fetched>>

\* n is the k0 of initial_conns: any number of pieces up to the workers.
SeedDone ==
  /\ seeding /\ seeding' = FALSE
  /\ UNCHANGED <<free, pc, slot, locals, steal, tokens, fetched>>

-----------------------------------------------------------------------------
(* drive(), as far as a worker can tell.                                   *)

\* run() starts by building the worker's own client, which may fail.
Spawn(w) ==
  /\ ~seeding /\ pc[w] = "idle"
  /\ Goto(w, "top") \/ Goto(w, "Failed")
  /\ UNCHANGED <<seeding, free, slot, locals, steal, tokens, fetched>>

Retire(w) ==
  /\ w \in Running \ retire
  /\ retire' = retire \cup {w}
  /\ UNCHANGED <<seeding, free, pc, slot, locals, steal, cancel, fetched>>

Cancel ==
  /\ ~cancel /\ cancel' = TRUE
  /\ UNCHANGED <<seeding, free, pc, slot, locals, steal, retire, fetched>>

-----------------------------------------------------------------------------
(* Plan::request, called at the top of the worker's loop.                  *)

StandDown(w) ==
  /\ pc[w] = "top" /\ (cancel \/ w \in retire)
  /\ Goto(w, IF cancel THEN "Cancelled" ELSE "Retired")
  /\ UNCHANGED <<seeding, free, slot, locals, steal, tokens, fetched>>

Asks(w) == pc[w] = "top" /\ ~cancel /\ w \notin retire /\ Unlocked

NewClaim(w, from, to) ==
  /\ cursor' = [cursor EXCEPT ![w] = from]
  /\ Goto(w, "claim")

TakeFree(w) ==
  /\ Asks(w)
  /\ \E i \in free :
       /\ Largest(free, i)
       /\ free' = free \ {i}
       /\ NewClaim(w, i[1], i[2]) /\ end' = [end EXCEPT ![w] = i[2]]
  /\ UNCHANGED <<seeding, locals, steal, tokens, fetched>>

\* The active claim with the most left, if it is worth splitting.
Victim(v) ==
  /\ v \in Active /\ Remaining(v) >= 2 * MIN_SEGMENT
  /\ \A u \in Active : Remaining(u) <= Remaining(v)

Choose(w) ==
  /\ Asks(w) /\ free = {}
  /\ \E v \in Worker :
       Victim(v) /\ steal' = [thief |-> {w}, victim |-> {v}, at |-> Remaining(v)]
  /\ Goto(w, "aim")
  /\ UNCHANGED <<seeding, free, slot, locals, tokens, fetched>>

Exhausted(w) ==
  /\ Asks(w) /\ free = {}
  /\ \A v \in Worker : ~Victim(v)
  /\ Goto(w, "Exhausted")
  /\ UNCHANGED <<seeding, free, slot, locals, steal, tokens, fetched>>

\* The victim's cursor is read again: it may have moved on meanwhile.
Aim(w) ==
  /\ pc[w] = "aim"
  /\ \E v \in steal.victim :
       LET split == AlignUp(cursor[v] + steal.at \div 2) IN
       IF split <= cursor[v] \/ split >= end[v]
       THEN Goto(w, "Exhausted") /\ steal' = None
       ELSE Goto(w, "lower") /\ steal' = [steal EXCEPT !.at = split]
  /\ UNCHANGED <<seeding, free, slot, locals, tokens, fetched>>

\* Mutant: the thief starts one block behind where the victim stops.
MLower(w) ==
  /\ pc[w] = "lower"
  /\ \E v \in steal.victim :
       /\ NewClaim(w, steal.at + 1, end[v])
       /\ end' = [end EXCEPT ![v] = steal.at, ![w] = end[v]]
  /\ steal' = None
  /\ UNCHANGED <<seeding, free, locals, tokens, fetched>>

Lower(w) ==
  /\ pc[w] = "lower"
  /\ \E v \in steal.victim :
       /\ NewClaim(w, steal.at, end[v])
       /\ end' = [end EXCEPT ![v] = steal.at, ![w] = end[v]]
  /\ steal' = None
  /\ UNCHANGED <<seeding, free, locals, tokens, fetched>>

-----------------------------------------------------------------------------
(* fetch_claim and stream_once.                                            *)

\* The top of fetch_claim's loop, up to a connection or a failure to connect
\* (connect_timeout).
Begin(w) ==
  /\ pc[w] = "claim"
  /\ IF cursor[w] >= end[w] THEN Return(w, "ok")
     ELSE IF cancel THEN Return(w, "Cancelled")
     ELSE (Goto(w, "head") \/ Goto(w, "error")) /\ UNCHANGED verdict
  /\ UNCHANGED <<seeding, free, slot, attempt, chunk, tail, steal, tokens, fetched>>

\* The response headers: accepted, refused for good (a status or a
\* verification that is not retryable), or a failure worth a retry.
Respond(w) ==
  /\ pc[w] = "head"
  /\ \/ (Goto(w, "stream") \/ Goto(w, "error")) /\ UNCHANGED verdict
     \/ Return(w, "Failed")
  /\ UNCHANGED <<seeding, free, slot, attempt, chunk, tail, steal, tokens, fetched>>

\* Mutant: the slice is not cut at the end of the claim.
MChunk(w) ==
  /\ pc[w] = "stream"
  /\ IF cursor[w] >= end[w]
     THEN Goto(w, "ended") /\ UNCHANGED chunk
     ELSE /\ Goto(w, "send")
          /\ \E n \in 1 .. MaxChunk : chunk' = [chunk EXCEPT ![w] = [take |-> n, cut |-> FALSE]]
  /\ UNCHANGED <<seeding, free, slot, attempt, verdict, tail, steal, tokens, fetched>>

\* A chunk arrives.  The slice is cut at the end as it is now; a steal may lower
\* the end before the slice is accepted.
Chunk(w) ==
  /\ pc[w] = "stream"
  /\ IF cursor[w] >= end[w]
     THEN Goto(w, "ended") /\ UNCHANGED chunk
     ELSE /\ Goto(w, "send")
          /\ \E n \in 1 .. MaxChunk :
               chunk' = [chunk EXCEPT ![w] =
                 IF n > end[w] - cursor[w] THEN [take |-> end[w] - cursor[w], cut |-> TRUE]
                                           ELSE [take |-> n, cut |-> FALSE]]
  /\ UNCHANGED <<seeding, free, slot, attempt, verdict, tail, steal, tokens, fetched>>

\* The body ends, early or not; or it breaks, idles for too long, or the
\* download is found cancelled between two chunks.
BodyOver(w) ==
  /\ pc[w] = "stream"
  /\ Goto(w, "ended") \/ Goto(w, "error")
  /\ UNCHANGED <<seeding, free, slot, locals, steal, tokens, fetched>>

\* The writer accepts the slice and the cursor moves past it; or it is gone.
Accept(w) ==
  /\ pc[w] = "send"
  /\ LET to == cursor[w] + chunk[w].take IN
     /\ fetched' = fetched \cup (cursor[w] .. to - 1)
     /\ cursor' = [cursor EXCEPT ![w] = to]
  /\ Goto(w, IF chunk[w].cut THEN "ended" ELSE "stream")
  /\ chunk' = [chunk EXCEPT ![w] = [take |-> 0, cut |-> FALSE]]
  /\ UNCHANGED <<seeding, free, end, attempt, verdict, tail, steal, tokens>>

\* Mutant: the cursor is moved before the writer is asked.
MWriterGone(w) ==
  /\ pc[w] = "send"
  /\ cursor' = [cursor EXCEPT ![w] = @ + chunk[w].take]
  /\ Return(w, "Failed")
  /\ chunk' = [chunk EXCEPT ![w] = [take |-> 0, cut |-> FALSE]]
  /\ UNCHANGED <<seeding, free, end, attempt, tail, steal, tokens, fetched>>

WriterGone(w) ==
  /\ pc[w] = "send"
  /\ Return(w, "Failed")
  /\ chunk' = [chunk EXCEPT ![w] = [take |-> 0, cut |-> FALSE]]
  /\ UNCHANGED <<seeding, free, slot, attempt, tail, steal, tokens, fetched>>

\* A body that ended before its claim is a failure worth a retry, unless ranges
\* do not work or the worker was asked to stand down.
Ended(w) ==
  /\ pc[w] = "ended"
  /\ IF UseRange /\ cursor[w] < end[w] /\ w \notin retire
     THEN Goto(w, "error") /\ UNCHANGED verdict
     ELSE Return(w, "ok")
  /\ UNCHANGED <<seeding, free, slot, attempt, chunk, tail, steal, tokens, fetched>>

\* Mutant: the attempts are not counted.
MRetry(w) ==
  /\ pc[w] = "error"
  /\ \/ /\ attempt[w] >= MaxAttempts /\ Return(w, "Failed") /\ UNCHANGED attempt
     \/ /\ attempt[w] < MaxAttempts
        /\ UNCHANGED attempt
        /\ \/ Goto(w, "claim") /\ UNCHANGED verdict
           \/ cancel /\ Return(w, "Cancelled")
  /\ UNCHANGED <<seeding, free, slot, chunk, tail, steal, tokens, fetched>>

\* The error arm of fetch_claim: give up, or wait and try again from the cursor
\* unless the download is cancelled first.
Retry(w) ==
  /\ pc[w] = "error"
  /\ \/ /\ attempt[w] >= MaxAttempts /\ Return(w, "Failed") /\ UNCHANGED attempt
     \/ /\ attempt[w] < MaxAttempts
        /\ attempt' = [attempt EXCEPT ![w] = @ + 1]
        /\ \/ Goto(w, "claim") /\ UNCHANGED verdict
           \/ cancel /\ Return(w, "Cancelled")
  /\ UNCHANGED <<seeding, free, slot, chunk, tail, steal, tokens, fetched>>

-----------------------------------------------------------------------------
(* Plan::release, after which the worker loops or exits.                   *)

Deactivate(w) ==
  /\ pc[w] = "release" /\ Goto(w, "read")
  /\ UNCHANGED <<seeding, free, slot, locals, steal, tokens, fetched>>

ReadTail(w) ==
  /\ pc[w] = "read"
  /\ tail' = [tail EXCEPT ![w] = <<cursor[w], end[w]>>]
  /\ Goto(w, IF cursor[w] < end[w] THEN "push" ELSE "retain")
  /\ UNCHANGED <<seeding, free, slot, attempt, chunk, verdict, steal, tokens, fetched>>

\* Mutant: the tail is pushed while somebody else holds the mutex.
MPushTail(w) ==
  /\ pc[w] = "push"
  /\ free' = MergeFree(free \cup {tail[w]})
  /\ Goto(w, "retain")
  /\ UNCHANGED <<seeding, slot, locals, steal, tokens, fetched>>

PushTail(w) ==
  /\ pc[w] = "push" /\ Unlocked
  /\ free' = MergeFree(free \cup {tail[w]})
  /\ Goto(w, "retain")
  /\ UNCHANGED <<seeding, slot, locals, steal, tokens, fetched>>

\* The slot leaves the list: nobody refers to the claim any more.
Retain(w) ==
  /\ pc[w] = "retain" /\ Unlocked
  /\ Goto(w, IF verdict[w] = "ok" THEN "top" ELSE verdict[w])
  /\ cursor' = [cursor EXCEPT ![w] = 0] /\ end' = [end EXCEPT ![w] = 0]
  /\ tail' = [tail EXCEPT ![w] = <<0, 0>>]
  /\ verdict' = [verdict EXCEPT ![w] = "ok"] /\ attempt' = [attempt EXCEPT ![w] = 0]
  /\ UNCHANGED <<seeding, free, chunk, steal, tokens, fetched>>

-----------------------------------------------------------------------------
Request(w) == StandDown(w) \/ TakeFree(w) \/ Choose(w) \/ Exhausted(w) \/ Aim(w) \/ Lower(w)

Release(w) == Deactivate(w) \/ ReadTail(w) \/ PushTail(w) \/ Retain(w)

\* Everything a worker does without waiting for the server's headers.  The chunk
\* it waits for comes, or the idle timeout does.
WorkerStep(w) ==
  \/ Request(w) \/ Release(w)
  \/ Begin(w) \/ Chunk(w) \/ BodyOver(w) \/ Accept(w) \/ WriterGone(w) \/ Ended(w) \/ Retry(w)

Next ==
  \/ SeedSplit \/ SeedDone \/ Cancel
  \/ \E w \in Worker : Spawn(w) \/ Retire(w) \/ WorkerStep(w) \/ Respond(w)

Spec == Init /\ [][Next]_vars

(***************************************************************************)
(* Every worker is a task of its own and is polled when it is ready; the   *)
(* writer takes its chunk or is gone (BackpressureEnds of Writer.tla).     *)
(* There is no timeout on the wait for response headers: that one needs a  *)
(* server that answers or hangs up.                                        *)
(***************************************************************************)
FairSpec == Spec /\ \A w \in Worker : WF_vars(WorkerStep(w))
ServedSpec == FairSpec /\ \A w \in Worker : WF_vars(Respond(w))

-----------------------------------------------------------------------------
(* What makes the plan correct.                                            *)

TypeOK ==
  /\ seeding \in BOOLEAN /\ free \subseteq Interval
  /\ pc \in [Worker -> PC]
  /\ cursor \in [Worker -> Position] /\ end \in [Worker -> Position]
  /\ attempt \in [Worker -> 0 .. MaxAttempts]
  /\ chunk \in [Worker -> [take : 0 .. MaxChunk, cut : BOOLEAN]]
  /\ verdict \in [Worker -> {"ok", "Cancelled", "Failed"}]
  /\ tail \in [Worker -> Position \X Position]
  /\ steal \in Steal
  /\ retire \subseteq Worker /\ cancel \in BOOLEAN
  /\ fetched \subseteq Block

(***************************************************************************)
(* No byte is lost between the plan's lists: what the writer has not been  *)
(* given is unclaimed, in a live claim, or in the tail that a worker is    *)
(* about to push back (plan.rs:353-357: "no bytes lost").                  *)
(***************************************************************************)
Claimed(w) ==
  IF pc[w] \in Streaming \cup {"release", "read"} THEN Bytes(<<cursor[w], end[w]>>)
  ELSE IF pc[w] = "push" THEN Bytes(tail[w])
  ELSE {}

NoByteLost == Block \ fetched \subseteq AllBytes(free) \cup UNION {Claimed(w) : w \in Worker}

(***************************************************************************)
(* When every worker found the plan exhausted the file is complete: nobody *)
(* concluded it from a moment at which a tail was between two lists        *)
(* (worker.rs:106-107: "No work left to claim").                           *)
(***************************************************************************)
AllGone == Running = {} /\ \E w \in Worker : pc[w] # "idle"

ExhaustedMeansDone ==
  AllGone /\ (\A w \in Worker : pc[w] \in {"idle", "Exhausted"}) => fetched = Block

(***************************************************************************)
(* Seen from drive(), the workers do what Claims says: with the mutex held *)
(* a steal is one step, and a claim that is given back is the one that     *)
(* release() has read, although its end may be lowered meanwhile           *)
(* (plan.rs:225-228).                                                      *)
(***************************************************************************)
Doing(w) ==
  IF pc[w] = "idle" THEN "none"
  ELSE IF pc[w] \in {"top", "aim", "lower"} THEN "ready"
  ELSE IF w \in Active THEN "busy"
  ELSE IF pc[w] \in Exit THEN pc[w]
  ELSE IF verdict[w] = "ok" THEN "back"
  ELSE IF verdict[w] = "Failed" THEN "giveup"
  ELSE "standdown"

GivingBack(w) ==
  IF pc[w] = "push" THEN tail[w]
  ELSE IF pc[w] = "retain" /\ tail[w][1] < tail[w][2] THEN <<0, 0>>
  ELSE <<cursor[w], end[w]>>

WorkerSeen == [w \in Worker |-> Doing(w)]
CursorSeen == [w \in Worker |-> GivingBack(w)[1]]
EndSeen    == [w \in Worker |-> GivingBack(w)[2]]

Told == INSTANCE Claims WITH worker <- WorkerSeen, cursor <- CursorSeen, end <- EndSeen

ImplementsClaims == Told!ClaimsSpec

(***************************************************************************)
(* A worker does not run for ever: every retry, steal and short body is    *)
(* paid for by an attempt or by a byte (client.rs:48-49: "Stalls are       *)
(* caught by the per-read idle timeout in the worker instead").            *)
(***************************************************************************)
Terminates == \A w \in Worker : pc[w] = "top" ~> pc[w] \in Exit
=============================================================================
