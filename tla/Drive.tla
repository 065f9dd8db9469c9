------------------------------- MODULE Drive ---------------------------------
(***************************************************************************)
(* download() and drive() (swiftload-core/src/task/mod.rs): one task that  *)
(* starts workers, joins them, ticks, and on a tick asks the governor how  *)
(* many there should be; afterwards it flushes, decides whether the file   *)
(* is complete, and publishes it.                                          *)
(*                                                                         *)
(* The governor is its promise (Concurrency), and the plan and the workers *)
(* are theirs (Claims).  Ranges work.                                      *)
(***************************************************************************)
EXTENDS Claims, Concurrency

CONSTANTS
  Adaptive,   \* adaptive_concurrency, and no --conns
  MaxSpawn    \* bound: the workers of one session

\* Workers are numbered in the order in which they are spawned.
ASSUME DriveAssumption ==
  /\ Adaptive \in BOOLEAN
  /\ Worker = 1 .. MaxSpawn
  /\ MaxSpawn \in Nat /\ MaxSpawn >= MaxConns

VARIABLES
  driver,     \* where download() is
  result,
  fatal,      \* has a worker that failed been joined?
  conns,      \* live.conns
  next_id,    \* workers spawned so far
  set,        \* JoinSet: the workers not yet joined
  paused      \* history: did the user cancel?

download == <<driver, result, fatal>>
pool     == <<conns, next_id, set>>
governor == <<target, limit>>
tokens   == <<retire, cancel, paused>>
vars == <<download, pool, governor, plan, tokens, worker, fetched>>

Spawned == 1 .. next_id
Result == {"none", "Failed", "Cancelled", "Incomplete", "ChecksumMismatch", "Io", "Ok"}

Active == {w \in Worker : worker[w] = "busy"}

\* Plan::outstanding, and the segments the governor makes of it.
Held == {c \in Active \X Block : c[2] \in Claim(c[1])}
Outstanding == Cardinality(AllBytes(free)) + Cardinality(Held)
SegmentsLeft == Outstanding \div MIN_SEGMENT
UsefulWorkers == IF SegmentsLeft = 0 THEN 1 ELSE SegmentsLeft

\* initial_conns, for a server whose ranges work: the file bounds it.
InitialConns ==
  {n \in Level : n = 1 \/ n * MIN_SEGMENT <= NBlocks}

Init ==
  /\ Unstarted
  /\ limit = MaxConns /\ target \in InitialConns
  /\ driver = "seed" /\ result = "none" /\ fatal = FALSE
  /\ conns = 0 /\ next_id = 0 /\ set = {}
  /\ paused = FALSE

-----------------------------------------------------------------------------
(* drive().                                                                *)

\* New workers up to n in all; building its client may fail one at once.
Spawn(n) ==
  LET new == next_id + 1 .. next_id + n IN
  /\ next_id + n <= MaxSpawn
  /\ next_id' = next_id + n
  /\ conns' = conns + n
  /\ set' = set \cup new
  /\ \E broken \in SUBSET new :
       worker' = [w \in Worker |-> IF w \in broken THEN "Failed"
                                   ELSE IF w \in new THEN "ready" ELSE worker[w]]

\* Plan::seed(k0) in a loop, then the first workers.
Seed ==
  /\ driver = "seed" /\ Cardinality(free) < target
  /\ free' \in SeedRound(free)
  /\ UNCHANGED <<download, pool, governor, cursor, end, tokens, worker, fetched>>

StartUp ==
  /\ driver = "seed"
  /\ Cardinality(free) >= target \/ SeedRound(free) = {}
  /\ Spawn(target)
  /\ driver' = "select"
  /\ UNCHANGED <<result, fatal, governor, plan, tokens, fetched>>

\* Mutant: the error arm forgets the counter.
MJoin(w) ==
  /\ driver = "select"
  /\ w \in set /\ worker[w] \in Exit
  /\ set' = set \ {w} /\ conns' = IF worker[w] = "Failed" THEN conns ELSE conns - 1
  /\ fatal' = (fatal \/ worker[w] = "Failed")
  /\ cancel' = (cancel \/ worker[w] = "Failed")
  /\ driver' = IF set' = {} THEN "finish" ELSE driver
  /\ UNCHANGED <<result, next_id, governor, plan, retire, paused, worker, fetched>>

Join(w) ==
  /\ driver = "select"
  /\ w \in set /\ worker[w] \in Exit
  /\ set' = set \ {w} /\ conns' = conns - 1
  /\ fatal' = (fatal \/ worker[w] = "Failed")
  /\ cancel' = (cancel \/ worker[w] = "Failed")
  /\ driver' = IF set' = {} THEN "finish" ELSE driver
  /\ UNCHANGED <<result, next_id, governor, plan, retire, paused, worker, fetched>>

\* The oldest tokens first, finished workers' tokens among them.
Oldest(S, n) == {i \in S : Cardinality({j \in S : j < i}) < n}

RetireDownTo(n) ==
  LET excess == conns - (IF n > 1 THEN n ELSE 1) IN
  retire' = retire \cup Oldest(Spawned \ retire, excess)

\* drive() returns and drops its JoinSet, which aborts the workers.
Abort == worker' = [w \in Worker |-> IF w \in set /\ worker[w] \notin Exit
                                     THEN "aborted" ELSE worker[w]]

\* Mutant: the workers are waited for.
MTickCancelled ==
  /\ driver = "select" /\ cancel
  /\ \A w \in set : worker[w] \in Exit
  /\ Abort /\ driver' = "finish"
  /\ UNCHANGED <<result, fatal, pool, governor, plan, tokens, fetched>>

TickCancelled ==
  /\ driver = "select" /\ cancel
  /\ Abort /\ driver' = "finish"
  /\ UNCHANGED <<result, fatal, pool, governor, plan, tokens, fetched>>

\* Mutant: workers asked to stand down are not counted any more.
MGrow(n) ==
  LET useful == IF n < UsefulWorkers THEN n ELSE UsefulWorkers
      staying == conns - Cardinality(set \cap retire) IN
  Spawn(IF useful > staying THEN useful - staying ELSE 0)

Grow(n) ==
  LET useful == IF n < UsefulWorkers THEN n ELSE UsefulWorkers IN
  Spawn(IF useful > conns THEN useful - conns ELSE 0)

Act(d) ==
  \/ /\ d = Hold
     /\ UNCHANGED <<pool, worker, retire>>
  \/ /\ d.act = "SpawnTo" /\ Grow(d.conns)
     /\ UNCHANGED retire
  \/ /\ d.act \in {"RetireTo", "ReleaseToken", "BackOff"} /\ RetireDownTo(d.conns)
     /\ UNCHANGED <<pool, worker>>

Tick ==
  /\ driver = "select" /\ ~cancel /\ Adaptive
  /\ \E d \in Decision : Decide(d) /\ Act(d)
  /\ driver' = "endgame"
  /\ UNCHANGED <<result, fatal, plan, cancel, paused, fetched>>

\* The workers have moved on since the tick looked at the plan.
Endgame ==
  /\ driver = "endgame"
  /\ LET n == EndgameTarget(SegmentsLeft) IN
     IF n = NoOpinion THEN UNCHANGED retire ELSE RetireDownTo(n)
  /\ driver' = "select"
  /\ UNCHANGED <<result, fatal, pool, governor, plan, cancel, paused, worker, fetched>>

-----------------------------------------------------------------------------
(* The rest of download().                                                 *)

Over(r) == driver' = "over" /\ result' = r

\* The writer answers with everything it was given, or it is gone.
Finish ==
  /\ driver = "finish"
  /\ \/ driver' = "verify" /\ UNCHANGED result
     \/ Over("Io")
  /\ UNCHANGED <<fatal, pool, governor, plan, tokens, worker, fetched>>

Verify ==
  /\ driver = "verify"
  /\ IF fatal THEN Over("Failed")
     ELSE IF cancel THEN Over("Cancelled")
     ELSE IF fetched # Block THEN Over("Incomplete")
     ELSE driver' = "publish" /\ UNCHANGED result
  /\ UNCHANGED <<fatal, pool, governor, plan, tokens, worker, fetched>>

\* The expected hash, and the rename to the final name.
Publish ==
  /\ driver = "publish"
  /\ \E r \in {"ChecksumMismatch", "Io", "Ok"} : Over(r)
  /\ UNCHANGED <<fatal, pool, governor, plan, tokens, worker, fetched>>

-----------------------------------------------------------------------------
Pause ==
  /\ driver # "over" /\ ~paused
  /\ paused' = TRUE /\ cancel' = TRUE
  /\ UNCHANGED <<download, pool, governor, plan, retire, worker, fetched>>

DriverStep ==
  \/ Seed \/ StartUp \/ TickCancelled \/ Tick \/ Endgame
  \/ \E w \in Worker : Join(w)
  \/ Finish \/ Verify \/ Publish

WorkersStep ==
  /\ \E w \in Worker : WorkerStep(w)
  /\ UNCHANGED <<download, pool, governor, paused>>

Next == DriverStep \/ Pause \/ WorkersStep

Spec == Init /\ [][Next]_vars

(***************************************************************************)
(* Only the task of download() is sure to be scheduled: its ticker fires   *)
(* and the writer answers (FinishAnswered of Writer.tla).  Nothing is      *)
(* assumed of the workers: a server may never answer them.                 *)
(***************************************************************************)
FairSpec == Spec /\ WF_vars(DriverStep)

-----------------------------------------------------------------------------
TypeOK ==
  /\ driver \in {"seed", "select", "endgame", "finish", "verify", "publish", "over"}
  /\ result \in Result /\ fatal \in BOOLEAN
  /\ next_id \in 0 .. MaxSpawn /\ set \subseteq Spawned
  /\ conns = Cardinality(set)
  /\ limit \in Level /\ target \in 1 .. limit
  /\ retire \subseteq Spawned /\ cancel \in BOOLEAN /\ paused \in BOOLEAN
  /\ worker \in [Worker -> Status]
  /\ free \subseteq Interval
  /\ cursor \in [Worker -> Position] /\ end \in [Worker -> Position]
  /\ fetched \subseteq Block

(***************************************************************************)
(* There are never more connections than the cap, whatever the order in    *)
(* which the governor grows and shrinks and workers come and go: a worker  *)
(* that is asked to stand down still has its connection.                   *)
(***************************************************************************)
CapRespected == Cardinality(Live) <= MaxConns

(***************************************************************************)
(* The verdict is true.  A download is found incomplete only if workers    *)
(* were stood down: those that found the plan exhausted, in whatever order *)
(* they were joined, left nothing behind.  Only the user's pause is told   *)
(* as Cancelled: a worker's failure cancels the others through the same    *)
(* token and must not pass for it (main.rs maps Cancelled to a paused      *)
(* download, the rest to a failed one).  What is hashed and renamed is all *)
(* there.                                                                  *)
(***************************************************************************)
VerdictIsTrue ==
  /\ result = "Incomplete" => retire # {}
  /\ result = "Cancelled" => paused
  /\ result \in {"ChecksumMismatch", "Ok"} => fetched = Block

(***************************************************************************)
(* A pause, or a worker's failure, ends the download even if every other   *)
(* worker waits for a server that never answers.                           *)
(***************************************************************************)
CancelEnds == cancel ~> driver = "over"

(***************************************************************************)
(* Standing workers down leaves one of them: as long as none has exited,   *)
(* one was not asked to (the test of retire_down_to: "at least one worker  *)
(* must survive or the download stalls").                                  *)
(***************************************************************************)
OneSurvives == set # {} /\ set \subseteq Live => ~(set \subseteq retire)
==============================================================================
