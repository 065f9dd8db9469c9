-------------------------------- MODULE Claims --------------------------------
(***************************************************************************)
(* What drive() may rely on from the plan and its workers: which worker    *)
(* has which claim, what is unclaimed and what the writer was given, at    *)
(* the grain at which the driver can tell.  A steal is one step, and so is *)
(* everything a worker does to stream a slice of its claim; giving a claim *)
(* back and going on are two.                                              *)
(*                                                                         *)
(* ClaimPlan.tla, the translation of plan.rs and worker.rs, is shown to    *)
(* keep it; Drive.tla composes drive() with it.                            *)
(***************************************************************************)
EXTENDS Segments

CONSTANTS
  Worker,    \* the workers one session may spawn
  MaxChunk,  \* bound: the largest slice of a body
  UseRange   \* did the probe find that ranges work?

VARIABLES
  free,          \* unclaimed intervals
  cursor, end,   \* each worker's claim, as the plan will get it back
  worker,        \* what each worker is doing, or how it exited
  fetched,       \* the blocks the writer was given
  retire,        \* workers asked to stand down
  cancel         \* the download's cancellation token

plan == <<free, cursor, end>>
claims == <<plan, worker, fetched, retire, cancel>>

\* A worker that leaves its claim gives it back before it goes on or exits.
Leaving == [back |-> "ready", giveup |-> "Failed", standdown |-> "Cancelled"]
Exit == {"Exhausted", "Retired", "Cancelled", "Failed"}
Status == {"none", "ready", "busy", "aborted"} \cup DOMAIN Leaving \cup Exit

Live == {w \in Worker : worker[w] \in {"ready", "busy"} \cup DOMAIN Leaving}
Claim(w) == Bytes(<<cursor[w], end[w]>>)

NoClaim(w) == cursor' = [cursor EXCEPT ![w] = 0] /\ end' = [end EXCEPT ![w] = 0]
Becomes(w, s) == worker' = [worker EXCEPT ![w] = s]

Unstarted ==
  /\ \E done \in SUBSET Block : fetched = done /\ free = Spans(Block \ done)
  /\ cursor = [w \in Worker |-> 0] /\ end = [w \in Worker |-> 0]
  /\ worker = [w \in Worker |-> "none"]
  /\ retire = {} /\ cancel = FALSE

-----------------------------------------------------------------------------
(* The workers.                                                            *)

StandDown(w) ==
  /\ worker[w] = "ready" /\ (cancel \/ w \in retire)
  /\ Becomes(w, IF cancel THEN "Cancelled" ELSE "Retired")
  /\ UNCHANGED <<plan, fetched>>

TakeFree(w) ==
  /\ worker[w] = "ready" /\ ~cancel /\ w \notin retire
  /\ \E i \in free :
       /\ Largest(free, i)
       /\ free' = free \ {i}
       /\ cursor' = [cursor EXCEPT ![w] = i[1]] /\ end' = [end EXCEPT ![w] = i[2]]
  /\ Becomes(w, "busy")
  /\ UNCHANGED fetched

\* Mutant: the thief starts one block behind where the victim stops.
MStealTail(w) ==
  /\ worker[w] = "ready" /\ free = {}
  /\ \E v \in Live \ {w}, at \in SplitPoint :
       /\ at < end[v]
       /\ cursor' = [cursor EXCEPT ![w] = at + 1]
       /\ \/ end' = [end EXCEPT ![v] = at, ![w] = end[v]]
          \/ worker[v] \in DOMAIN Leaving /\ end' = [end EXCEPT ![w] = end[v]]
  /\ Becomes(w, "busy")
  /\ UNCHANGED <<free, fetched>>

\* The thief found nothing unclaimed, and starts where the victim will stop.  It
\* may have been told to stand down since it asked, the victim may have passed
\* the split, and a victim that is leaving may give back what it had before.
StealTail(w) ==
  /\ worker[w] = "ready" /\ free = {}
  /\ \E v \in Live \ {w}, at \in SplitPoint :
       /\ at < end[v]
       /\ cursor' = [cursor EXCEPT ![w] = at]
       /\ \/ end' = [end EXCEPT ![v] = at, ![w] = end[v]]
          \/ worker[v] \in DOMAIN Leaving /\ end' = [end EXCEPT ![w] = end[v]]
  /\ Becomes(w, "busy")
  /\ UNCHANGED <<free, fetched>>

\* Nothing unclaimed, and no claim worth splitting.
Exhausted(w) ==
  /\ worker[w] = "ready" /\ free = {}
  /\ Becomes(w, "Exhausted")
  /\ UNCHANGED <<plan, fetched>>

\* The writer accepts a slice, which was cut at the end of the claim; a steal may
\* have lowered the end since.
Deliver(w) ==
  /\ worker[w] = "busy"
  /\ \E to \in Position :
       /\ cursor[w] < to /\ to <= cursor[w] + MaxChunk
       /\ fetched' = fetched \cup Bytes(<<cursor[w], to>>)
       /\ cursor' = [cursor EXCEPT ![w] = to]
  /\ UNCHANGED <<worker, free, end>>

\* The claim is done, or its body ended early and the worker is to stand down (or
\* another request would begin at the start of the file); a failure is not worth
\* another try; the download is cancelled.
Leave(w) ==
  /\ worker[w] = "busy"
  /\ \/ (cursor[w] >= end[w] \/ w \in retire \/ ~UseRange)
        /\ Becomes(w, "back")
     \/ Becomes(w, "giveup")
     \/ cancel /\ Becomes(w, "standdown")
  /\ UNCHANGED <<plan, fetched>>

GiveBack(w) ==
  /\ worker[w] \in DOMAIN Leaving /\ cursor[w] < end[w]
  /\ free' = MergeFree(free \cup {<<cursor[w], end[w]>>})
  /\ NoClaim(w)
  /\ UNCHANGED <<worker, fetched>>

GoOn(w) ==
  /\ worker[w] \in DOMAIN Leaving /\ cursor[w] >= end[w]
  /\ Becomes(w, Leaving[worker[w]])
  /\ NoClaim(w)
  /\ UNCHANGED <<free, fetched>>

WorkerStep(w) ==
  /\ \/ StandDown(w) \/ TakeFree(w) \/ StealTail(w) \/ Exhausted(w)
     \/ Deliver(w) \/ Leave(w) \/ GiveBack(w) \/ GoOn(w)
  /\ UNCHANGED <<retire, cancel>>

-----------------------------------------------------------------------------
(* What drive() does to them: it seeds the plan, starts workers (whose     *)
(* client may fail to build), asks some to stand down, cancels them all,   *)
(* and in the end aborts those that are left.                              *)

Directed(w) ==
  \/ worker'[w] = worker[w]
  \/ worker[w] = "none" /\ worker'[w] \in {"ready", "Failed"}
  \/ w \in Live /\ cancel /\ worker'[w] = "aborted"

Drives ==
  /\ worker' \in [Worker -> Status] /\ \A w \in Worker : Directed(w)
  /\ retire \subseteq retire' /\ cancel => cancel'
  /\ \/ free' = free
     \/ free' \in SeedRound(free) /\ \A w \in Worker : worker[w] = "none"
  /\ UNCHANGED <<cursor, end, fetched>>

ClaimsNext == Drives \/ \E w \in Worker : WorkerStep(w)

ClaimsSpec == Unstarted /\ [][ClaimsNext]_claims
==============================================================================
