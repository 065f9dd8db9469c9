----------------------------- MODULE Concurrency -----------------------------
(***************************************************************************)
(* What the governor promises drive(), whatever it measures: a target      *)
(* between one connection and a limit that never rises.  Growing and       *)
(* shrinking are announced, except that a target that is settled on        *)
(* (ReleaseToken) may lie anywhere below the limit.  Drive.tla composes    *)
(* drive() with this promise; Governor.tla, the translation of             *)
(* governor.rs, is checked to keep it.                                     *)
(***************************************************************************)
EXTENDS Integers

CONSTANT MaxConns   \* GovernorConfig::max_conns

ASSUME ConcurrencyAssumption == MaxConns \in Nat \ {0}

VARIABLES target, limit

Level == 1 .. MaxConns

SpawnTo(n)      == [act |-> "SpawnTo", conns |-> n]
RetireTo(n)     == [act |-> "RetireTo", conns |-> n]
BackOff(n)      == [act |-> "BackOff", conns |-> n]
ReleaseToken(n) == [act |-> "ReleaseToken", conns |-> n]
Hold            == [act |-> "Hold", conns |-> 0]

Decision ==
  {Hold} \cup [act : {"SpawnTo", "RetireTo", "BackOff", "ReleaseToken"}, conns : Level]

Start == limit = MaxConns /\ target \in Level

\* One observation, answered by d.
Decide(d) ==
  /\ limit' \in 1 .. limit
  /\ target' \in 1 .. limit'
  /\ \/ d = Hold /\ target' = target
     \/ d = SpawnTo(target') /\ target' > target
     \/ d = RetireTo(target') /\ target' < target
     \/ d = BackOff(target') /\ target' <= target /\ limit' = target'
     \/ d = ReleaseToken(target')

(***************************************************************************)
(* How many connections are enough for the last segments, or no opinion.   *)
(***************************************************************************)
NoOpinion == 0

EndgameTarget(segments) ==
  IF segments = 0 THEN 1
  ELSE IF segments = 1 THEN IF target < 2 THEN target ELSE 2
  ELSE NoOpinion
==============================================================================
