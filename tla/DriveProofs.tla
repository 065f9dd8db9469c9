----------------------------- MODULE DriveProofs -----------------------------
(***************************************************************************)
(* For every file, cap, number of workers and order of joins and ticks,    *)
(* with or without the governor: the connections stay below the cap, and   *)
(* the verdict on the download is true.  The argument is IInv: what the    *)
(* driver counts is its join set, the live workers are among it, a worker  *)
(* without work has no claim, and as long as something is unclaimed        *)
(* somebody is there who has not concluded that the plan is exhausted, or  *)
(* has left for another reason.                                            *)
(***************************************************************************)
EXTENDS Drive, SegmentsProofs

Idle == {"none", "ready"} \cup Exit
Ends == {"finish", "verify", "publish", "over"}

\* The workers that are counted are those that may have a connection.
Counted ==
  /\ Live \subseteq set
  /\ conns <= MaxConns
  /\ driver = "seed" => next_id = 0
  /\ driver # "seed" => next_id # 0
  /\ \A w \in Worker : worker[w] = "none" <=> w \notin Spawned

\* One token, two reasons.
Reasons ==
  /\ cancel => paused \/ fatal
  /\ result = "Cancelled" => paused
  /\ driver \in {"seed", "select", "endgame", "finish", "verify"} => result = "none"

\* Every block that was not fetched is unclaimed, or in somebody's claim.
Covered ==
  /\ Block \subseteq fetched \cup AllBytes(free) \cup UNION {Claim(w) : w \in Worker}
  /\ \A w \in Worker : worker[w] \in Idle => cursor[w] = 0 /\ end[w] = 0

\* Why a worker that was joined, or is leaving, is no longer at work.
Departures ==
  /\ \A w \in Spawned \ set : worker[w] \in Exit /\ (worker[w] = "Failed" => cancel)
  /\ \A w \in Worker : worker[w] \in {"Cancelled", "standdown", "aborted"} => cancel
  /\ \A w \in Worker : worker[w] = "Retired" => retire # {}
  /\ driver \in Ends /\ ~cancel => set = {}

\* What is unclaimed still has a worker that has not concluded "exhausted".
StillThere ==
  \/ free = {}
  \/ \A w \in Worker : worker[w] = "none"
  \/ \E w \in Worker : worker[w] \notin {"none", "Exhausted"}

\* What verify concluded, and what it saw.
Concluded ==
  /\ result = "Incomplete" => retire # {}
  /\ driver = "publish" \/ result \in {"ChecksumMismatch", "Ok"} => fetched = Block

IInv == TypeOK /\ Counted /\ Reasons /\ Covered /\ Departures /\ StillThere /\ Concluded

(***************************************************************************)
(* What a worker may be while it leaves, and what it becomes.              *)
(***************************************************************************)
LEMMA LeavingIs ==
  /\ DOMAIN Leaving = {"back", "giveup", "standdown"}
  /\ Leaving["back"] = "ready"
  /\ Leaving["giveup"] = "Failed"
  /\ Leaving["standdown"] = "Cancelled"
BY DEF Leaving

(***************************************************************************)
(* The join set is finite.                                                 *)
(***************************************************************************)
LEMMA SetIsFinite ==
  ASSUME TypeOK
  PROVE  IsFiniteSet(set) /\ next_id \in Nat /\ conns \in Nat
<1>1. next_id \in Nat /\ set \subseteq 1 .. next_id
  BY DriveAssumption DEF TypeOK, Spawned
<1>2. IsFiniteSet(1 .. next_id)
  BY <1>1, FS_Interval
<1>3. IsFiniteSet(set)
  BY <1>1, <1>2, FS_Subset
<1> QED BY <1>1, <1>3, FS_CardinalityType DEF TypeOK

(***************************************************************************)
(* spawn_worker: the new workers are in the join set, and are counted; the *)
(* others are left alone.                                                  *)
(***************************************************************************)
LEMMA SpawnAdds ==
  ASSUME TypeOK, NEW n \in Nat, Spawn(n)
  PROVE  /\ next_id' \in 0 .. MaxSpawn /\ next_id' = next_id + n
         /\ set \subseteq set' /\ set' \subseteq Spawned'
         /\ Spawned' \ Spawned = set' \ set
         /\ conns' = conns + n /\ conns' = Cardinality(set')
         /\ worker' \in [Worker -> Status]
         /\ \A w \in Worker : IF w \in set' \ set THEN worker'[w] \in {"ready", "Failed"}
                               ELSE worker'[w] = worker[w]
<1> DEFINE new == next_id + 1 .. next_id + n
<1>1. next_id \in Nat /\ MaxSpawn \in Nat /\ IsFiniteSet(set) /\ conns \in Nat
  BY SetIsFinite, DriveAssumption
<1>2. /\ next_id + n <= MaxSpawn /\ next_id' = next_id + n
      /\ conns' = conns + n /\ set' = set \cup new
  BY DEF Spawn
<1>3. PICK broken \in SUBSET new :
        worker' = [w \in Worker |-> IF w \in broken THEN "Failed"
                                    ELSE IF w \in new THEN "ready" ELSE worker[w]]
  BY DEF Spawn
<1>4. set \subseteq 1 .. next_id /\ set \cap new = {}
  BY <1>1 DEF TypeOK, Spawned
<1>5. IsFiniteSet(new) /\ Cardinality(new) = n
  <2>1. next_id + 1 \in Int /\ next_id + n \in Int
    BY <1>1
  <2>2. IsFiniteSet(new) /\ Cardinality(new) = IF next_id + 1 > next_id + n THEN 0
                                               ELSE (next_id + n) - (next_id + 1) + 1
    BY <2>1, FS_Interval
  <2> QED BY <1>1, <2>2
<1>6. Cardinality(set') = conns + n
  <2>1. Cardinality(set \cup new)
          = Cardinality(set) + Cardinality(new) - Cardinality(set \cap new)
    BY <1>1, <1>5, FS_Union
  <2>2. Cardinality(set \cap new) = 0
    BY <1>4, FS_EmptySet
  <2> QED BY <1>1, <1>2, <1>5, <2>1, <2>2 DEF TypeOK
<1>7. set' \subseteq Spawned' /\ Spawned' \ Spawned = new /\ set' \ set = new
  BY <1>1, <1>2, <1>4 DEF Spawned
<1> HIDE DEF new
<1>8. \A w \in Worker : IF w \in new THEN worker'[w] \in {"ready", "Failed"}
                         ELSE worker'[w] = worker[w]
  BY <1>3
<1>9. worker' \in [Worker -> Status]
  BY <1>3 DEF TypeOK, Status, Exit
<1>10. next_id' \in 0 .. MaxSpawn
  BY <1>1, <1>2
<1> QED BY <1>2, <1>6, <1>7, <1>8, <1>9, <1>10

(***************************************************************************)
(* The number of workers worth having is a number.                         *)
(***************************************************************************)
LEMMA UsefulIsNat ==
  ASSUME TypeOK
  PROVE  UsefulWorkers \in Nat
<1>1. AllBytes(free) \subseteq Block
  BY BytesAreBlocks DEF TypeOK, Interval, AllBytes
<1>2. IsFiniteSet(Block) /\ IsFiniteSet(Worker)
  BY FS_Interval, SegmentsAssumption, DriveAssumption DEF Block
<1>3. IsFiniteSet(AllBytes(free)) /\ Cardinality(AllBytes(free)) \in Nat
  BY <1>1, <1>2, FS_Subset, FS_CardinalityType
<1>4. IsFiniteSet(Active)
  BY <1>2, FS_Subset DEF Active
<1>5. IsFiniteSet(Active \X Block)
  BY <1>2, <1>4, FS_Product
<1>6. Cardinality(Held) \in Nat
  <2>1. Held \subseteq Active \X Block
    BY DEF Held
  <2> QED BY <1>5, <2>1, FS_Subset, FS_CardinalityType
<1>7. Outstanding \in Nat
  BY <1>3, <1>6 DEF Outstanding
<1>8. SegmentsLeft \in Nat
  BY <1>7, SegmentsAssumption DEF SegmentsLeft
<1> QED BY <1>8 DEF UsefulWorkers

(***************************************************************************)
(* A tick, told apart: it spawns, within the cap, or it asks some of the   *)
(* spawned workers to stand down, or does neither.                         *)
(***************************************************************************)
LEMMA TickDoes ==
  ASSUME TypeOK, conns <= MaxConns, Tick
  PROVE  /\ driver = "select" /\ driver' = "endgame" /\ limit' \in Level /\ target' \in 1 .. limit'
         /\ UNCHANGED <<result, fatal, plan, cancel, paused, fetched>>
         /\ \/ /\ UNCHANGED <<pool, worker>>
               /\ retire \subseteq retire' /\ retire' \subseteq Spawned
            \/ /\ UNCHANGED retire
               /\ \E n \in Nat : conns + n <= MaxConns /\ Spawn(n)
<1>1. PICK d \in Decision : Decide(d) /\ Act(d)
  BY DEF Tick
<1>2. limit' \in Level /\ target' \in 1 .. limit'
  BY <1>1, ConcurrencyAssumption DEF Decide, Level, TypeOK
<1>3. CASE d = Hold
  BY <1>1, <1>2, <1>3 DEF Tick, TypeOK, Act, Hold, RetireDownTo, Oldest
<1>4. CASE d.act \in {"RetireTo", "ReleaseToken", "BackOff"} /\ RetireDownTo(d.conns)
           /\ UNCHANGED <<pool, worker>>
  BY <1>2, <1>4 DEF Tick, TypeOK, RetireDownTo, Oldest
<1>5. CASE d.act = "SpawnTo" /\ Grow(d.conns) /\ UNCHANGED retire
  <2> DEFINE useful == IF d.conns < UsefulWorkers THEN d.conns ELSE UsefulWorkers
             n == IF useful > conns THEN useful - conns ELSE 0
  <2>1. d.conns \in Level
    BY <1>5 DEF Decision, Hold
  <2>2. UsefulWorkers \in Nat
    BY UsefulIsNat
  <2>3. Spawn(n)
    BY <1>5 DEF Grow
  <2>4. conns \in Nat /\ MaxConns \in Nat /\ d.conns \in Nat /\ d.conns <= MaxConns
    BY <2>1, SetIsFinite, ConcurrencyAssumption DEF Level
  <2>5. n \in Nat /\ conns + n <= MaxConns
    BY <2>2, <2>4
  <2> HIDE DEF n
  <2> QED BY <1>2, <1>5, <2>3, <2>5 DEF Tick
<1> QED BY <1>1, <1>3, <1>4, <1>5 DEF Act

(***************************************************************************)
(* A split that is before the end of a claim lies within the file.         *)
(***************************************************************************)
LEMMA SplitIsInside ==
  ASSUME TypeOK, NEW v \in Worker, NEW at \in SplitPoint, at < end[v]
  PROVE  at \in Position /\ at \in Nat
<1>1. PICK p \in Position : at = AlignUp(p)
  BY DEF SplitPoint
<1>2. at \in Nat
  BY <1>1, AlignUpType, SegmentsAssumption DEF Position
<1>3. end[v] \in Nat /\ end[v] <= NBlocks
  BY SegmentsAssumption DEF TypeOK, Position
<1> QED BY <1>2, <1>3, SegmentsAssumption DEF Position

(***************************************************************************)
(* Every step of the driver and of the workers keeps the types.            *)
(***************************************************************************)
LEMMA TypeStep ==
  ASSUME TypeOK, Counted, [Next]_vars
  PROVE  TypeOK'
<1> USE LeavingIs DEF Spawned
<1>1. CASE Seed
  <2>1. free' \subseteq Interval
    BY <1>1, SeedKeepsBytes DEF Seed, TypeOK
  <2> QED BY <1>1, <2>1 DEF Seed, TypeOK, download, pool, governor, tokens
<1>2. CASE StartUp
  <2>1. Spawn(target) /\ target \in Nat
    BY <1>2, ConcurrencyAssumption DEF StartUp, TypeOK, Level
  <2>2. /\ next_id' \in 0 .. MaxSpawn /\ set' \subseteq Spawned' /\ Spawned \subseteq Spawned'
        /\ conns' = Cardinality(set') /\ worker' \in [Worker -> Status]
    BY <2>1, SpawnAdds, SetIsFinite
  <2> QED BY <1>2, <2>2 DEF StartUp, TypeOK, governor, plan, tokens
<1>3. ASSUME NEW w \in Worker, Join(w)
      PROVE  TypeOK'
  <2>1. conns' = Cardinality(set')
    BY <1>3, SetIsFinite, FS_RemoveElement DEF Join, TypeOK
  <2> QED BY <1>3, <2>1 DEF Join, TypeOK, governor, plan
<1>4. CASE TickCancelled
  BY <1>4 DEF TickCancelled, Abort, TypeOK, Status, pool, governor, plan, tokens
<1>5. CASE Tick
  <2>1. /\ driver' = "endgame" /\ limit' \in Level /\ target' \in 1 .. limit'
        /\ UNCHANGED <<result, fatal, plan, cancel, paused, fetched>>
        /\ \/ /\ UNCHANGED <<pool, worker>>
              /\ retire \subseteq retire' /\ retire' \subseteq Spawned
           \/ /\ UNCHANGED retire
              /\ \E n \in Nat : conns + n <= MaxConns /\ Spawn(n)
    BY <1>5, TickDoes, Zenon DEF Counted
  <2>2. CASE UNCHANGED <<pool, worker>> /\ retire' \subseteq Spawned
    BY <2>1, <2>2 DEF TypeOK, pool, plan
  <2>3. ASSUME NEW n \in Nat, Spawn(n), UNCHANGED retire
        PROVE  TypeOK'
    <3>1. /\ next_id' \in 0 .. MaxSpawn /\ set' \subseteq Spawned' /\ Spawned \subseteq Spawned'
          /\ conns' = Cardinality(set') /\ worker' \in [Worker -> Status]
      BY <2>3, SpawnAdds, SetIsFinite
    <3> QED BY <2>1, <2>3, <3>1 DEF TypeOK, plan
  <2> QED BY <2>1, <2>2, <2>3
<1>6. CASE Endgame
  BY <1>6 DEF Endgame, RetireDownTo, Oldest, TypeOK, pool, governor, plan
<1>7. CASE Finish \/ Verify \/ Publish
  BY <1>7 DEF Finish, Verify, Publish, Over, Result, TypeOK, pool, governor, plan, tokens
<1>8. CASE Pause
  BY <1>8 DEF Pause, TypeOK, download, pool, governor, plan
<1>9. CASE WorkersStep
  <2>0. PICK w \in Worker : WorkerStep(w)
    BY <1>9 DEF WorkersStep
  <2> DEFINE Rest == driver' = driver /\ result' = result /\ fatal' = fatal
                     /\ conns' = conns /\ next_id' = next_id /\ set' = set
                     /\ target' = target /\ limit' = limit
                     /\ retire' = retire /\ cancel' = cancel /\ paused' = paused
  <2>1. Rest
    BY <1>9, <2>0 DEF WorkersStep, WorkerStep, download, pool, governor
  <2>2. worker' \in [Worker -> Status]
    BY <2>0 DEF TypeOK, WorkerStep, StandDown, TakeFree, StealTail, Exhausted, Deliver,
                Leave, GiveBack, GoOn, Becomes, Exit, Status
  <2>3. /\ free' \subseteq Interval
        /\ cursor' \in [Worker -> Position] /\ end' \in [Worker -> Position]
        /\ fetched' \subseteq Block
    <3> USE <2>0
    <3>0. 0 \in Position
      BY SegmentsAssumption DEF Position
    <3>1. CASE StandDown(w) \/ Exhausted(w) \/ Leave(w)
      BY <3>1 DEF StandDown, Exhausted, Leave, TypeOK, plan
    <3>2. CASE TakeFree(w)
      <4>1. PICK i \in free : /\ free' = free \ {i}
                               /\ cursor' = [cursor EXCEPT ![w] = i[1]]
                               /\ end' = [end EXCEPT ![w] = i[2]]
        BY <3>2 DEF TakeFree
      <4>2. i[1] \in Position /\ i[2] \in Position
        BY DEF TypeOK, Interval
      <4> QED BY <3>2, <4>1, <4>2 DEF TakeFree, TypeOK
    <3>3. CASE StealTail(w)
      <4>1. PICK v \in Live \ {w}, at \in SplitPoint :
              /\ at < end[v]
              /\ cursor' = [cursor EXCEPT ![w] = at]
              /\ \/ end' = [end EXCEPT ![v] = at, ![w] = end[v]]
                 \/ end' = [end EXCEPT ![w] = end[v]]
        BY <3>3 DEF StealTail
      <4>2. v \in Worker /\ at \in Position /\ end[v] \in Position
        BY <4>1, SplitIsInside DEF Live, TypeOK
      <4> QED BY <3>3, <4>1, <4>2 DEF StealTail, TypeOK
    <3>4. CASE Deliver(w)
      <4>1. PICK to \in Position : /\ fetched' = fetched \cup Bytes(<<cursor[w], to>>)
                                     /\ cursor' = [cursor EXCEPT ![w] = to]
        BY <3>4 DEF Deliver
      <4>2. Bytes(<<cursor[w], to>>) \subseteq Block
        BY BytesAreBlocks DEF TypeOK
      <4> QED BY <3>4, <4>1, <4>2 DEF Deliver, TypeOK
    <3>5. CASE GoOn(w)
      BY <3>0, <3>5 DEF GoOn, NoClaim, TypeOK
    <3>6. CASE GiveBack(w)
      <4>1. free' \subseteq Interval
        BY <3>6 DEF GiveBack, MergeFree, Spans
      <4> QED BY <3>0, <3>6, <4>1 DEF GiveBack, NoClaim, TypeOK
    <3> QED BY <3>1, <3>2, <3>3, <3>4, <3>5, <3>6 DEF WorkerStep
  <2> QED BY <2>1, <2>2, <2>3 DEF TypeOK
<1>10. CASE UNCHANGED vars
  BY <1>10 DEF TypeOK, vars, download, pool, governor, plan, tokens
<1> QED BY <1>1, <1>2, <1>3, <1>4, <1>5, <1>6, <1>7, <1>8, <1>9, <1>10 DEF Next, DriverStep

(***************************************************************************)
(* What a step of a worker may change, and why it stands down.             *)
(***************************************************************************)
LEMMA WorkerDoes ==
  ASSUME TypeOK, NEW w \in Worker, WorkerStep(w)
  PROVE  /\ UNCHANGED <<retire, cancel>>
         /\ \A u \in Worker \ {w} : worker'[u] = worker[u]
         /\ worker[w] \in {"ready", "busy"} \cup DOMAIN Leaving
         /\ worker'[w] \in {"ready", "busy"} \cup DOMAIN Leaving \cup Exit
         /\ worker'[w] \in {"Cancelled", "standdown"} => cancel \/ worker[w] = "standdown"
         /\ worker'[w] = "Retired" => retire # {}
<1> USE LeavingIs DEF Becomes, TypeOK, Exit
<1>1. UNCHANGED <<retire, cancel>>
  BY DEF WorkerStep
<1>2. CASE StandDown(w)
  BY <1>1, <1>2 DEF StandDown
<1>3. CASE TakeFree(w)
  BY <1>1, <1>3 DEF TakeFree
<1>4. CASE StealTail(w)
  BY <1>1, <1>4 DEF StealTail
<1>5. CASE Exhausted(w)
  BY <1>1, <1>5 DEF Exhausted
<1>6. CASE Deliver(w)
  BY <1>1, <1>6 DEF Deliver
<1>7. CASE Leave(w)
  BY <1>1, <1>7 DEF Leave
<1>8. CASE GiveBack(w)
  BY <1>1, <1>8 DEF GiveBack
<1>9. CASE GoOn(w)
  BY <1>1, <1>9 DEF GoOn
<1> QED BY <1>2, <1>3, <1>4, <1>5, <1>6, <1>7, <1>8, <1>9, Zenon DEF WorkerStep

(***************************************************************************)
(* The workers take a step: one of them does, and the driver's own state   *)
(* stays.                                                                  *)
(***************************************************************************)
LEMMA OneOfThem ==
  ASSUME WorkersStep
  PROVE  /\ UNCHANGED <<driver, result, fatal, conns, next_id, set, target, limit, paused>>
         /\ \E w \in Worker : WorkerStep(w)
BY DEF WorkersStep, download, pool, governor

(***************************************************************************)
(* What counts against the cap stays within it, whatever a tick asks for.  *)
(***************************************************************************)
LEMMA CountedStep ==
  ASSUME TypeOK, Counted, [Next]_vars
  PROVE  Counted'
<1> USE LeavingIs DEF Spawned
<1>0. /\ IsFiniteSet(set) /\ conns \in Nat /\ next_id \in Nat /\ MaxConns \in Nat
      /\ target \in Nat /\ target >= 1 /\ target <= MaxConns
  BY SetIsFinite, ConcurrencyAssumption DEF TypeOK, Level
<1>1. CASE Seed
  BY <1>1 DEF Seed, Counted, Live, download, pool
<1>2. ASSUME NEW n \in Nat, Spawn(n), conns + n <= MaxConns,
             driver' # "seed", driver = "seed" => n # 0
      PROVE  Counted'
  <2>1. /\ next_id' = next_id + n /\ set \subseteq set' /\ conns' = conns + n
        /\ Spawned' \ Spawned = set' \ set
        /\ \A w \in Worker : IF w \in set' \ set THEN worker'[w] \in {"ready", "Failed"}
                              ELSE worker'[w] = worker[w]
    BY <1>2, SpawnAdds, Zenon
  <2>2. Live' \subseteq set'
    BY <2>1 DEF Counted, Live
  <2>3. next_id' # 0
    BY <1>0, <1>2, <2>1 DEF Counted
  <2>4. \A w \in Worker : worker'[w] = "none" <=> w \notin Spawned'
    <3>1. TAKE w \in Worker
    <3>2. CASE w \in set' \ set
      BY <2>1, <3>2
    <3>3. CASE w \notin set' \ set
      <4>1. worker'[w] = worker[w] /\ w \notin Spawned' \ Spawned
        BY <2>1, <3>3
      <4>2. Spawned \subseteq Spawned'
        BY <1>0, <2>1
      <4> QED BY <4>1, <4>2 DEF Counted
    <3> QED BY <3>2, <3>3
  <2> QED BY <1>2, <2>1, <2>2, <2>3, <2>4 DEF Counted
<1>3. CASE StartUp
  <2>1. Spawn(target) /\ driver = "seed" /\ driver' = "select"
    BY <1>3 DEF StartUp
  <2>2. conns = 0
    <3>1. set = {}
      BY <2>1 DEF Counted, TypeOK
    <3> QED BY <3>1, FS_EmptySet DEF TypeOK
  <2> QED BY <1>0, <1>2, <2>1, <2>2
<1>4. ASSUME NEW w \in Worker, Join(w)
      PROVE  Counted'
  <2>1. Live' = Live /\ worker[w] \in Exit /\ w \in set /\ set' = set \ {w} /\ conns' = conns - 1
        /\ driver = "select" /\ driver' \in {"select", "finish"}
        /\ next_id' = next_id /\ worker' = worker
    BY <1>4 DEF Join, Live
  <2>2. w \notin Live
    BY <2>1 DEF Live, Exit
  <2> QED BY <1>0, <2>1, <2>2 DEF Counted
<1>5. CASE TickCancelled
  <2>1. UNCHANGED <<conns, next_id, set>> /\ driver = "select" /\ driver' = "finish"
    BY <1>5 DEF TickCancelled, pool
  <2>2. \A w \in Worker : /\ worker'[w] = worker[w] \/ worker'[w] = "aborted"
                          /\ w \notin set => worker'[w] = worker[w]
    BY <1>5 DEF TickCancelled, Abort
  <2>3. \A w \in Worker : w \in set => worker[w] # "none"
    BY DEF Counted, TypeOK
  <2> QED BY <2>1, <2>2, <2>3 DEF Counted, Live
<1>6. CASE Tick
  <2>1. /\ driver = "select" /\ driver' = "endgame"
        /\ \/ UNCHANGED <<pool, worker>>
           \/ \E n \in Nat : conns + n <= MaxConns /\ Spawn(n)
    BY <1>6, TickDoes, Zenon DEF Counted
  <2> QED BY <1>2, <2>1 DEF Counted, Live, pool
<1>7. CASE Endgame \/ Finish \/ Verify \/ Publish \/ Pause
  BY <1>7 DEF Endgame, Finish, Verify, Publish, Pause, Over, Counted, Live, download, pool
<1>8. ASSUME NEW w \in Worker, WorkerStep(w), WorkersStep
      PROVE  Counted'
  <2>1. /\ UNCHANGED <<driver, conns, next_id, set>>
        /\ \A u \in Worker \ {w} : worker'[u] = worker[u]
        /\ worker[w] \in {"ready", "busy"} \cup DOMAIN Leaving
        /\ worker'[w] \in {"ready", "busy"} \cup DOMAIN Leaving \cup Exit
    BY <1>8, WorkerDoes, OneOfThem
  <2>2. w \in Live /\ w \in set /\ w \in Spawned
    BY <2>1 DEF Live, Counted, TypeOK
  <2>3. Live' \subseteq Live
    BY <2>1, <2>2 DEF Live
  <2> QED BY <2>1, <2>2, <2>3 DEF Counted, Exit
<1>9. CASE UNCHANGED vars
  BY <1>9 DEF vars, download, pool, Counted, Live
<1> QED BY <1>1, <1>3, <1>4, <1>5, <1>6, <1>7, <1>8, <1>9, OneOfThem DEF Next, DriverStep

(***************************************************************************)
(* Whoever cancelled is remembered: the user, or a worker that failed.     *)
(***************************************************************************)
LEMMA ReasonsStep ==
  ASSUME TypeOK, Reasons, [Next]_vars
  PROVE  Reasons'
<1> USE DEF Reasons
<1>1. CASE Seed \/ StartUp \/ TickCancelled \/ Tick \/ Endgame
  BY <1>1 DEF Seed, StartUp, TickCancelled, Tick, Endgame, download, tokens
<1>2. ASSUME NEW w \in Worker, Join(w)
      PROVE  Reasons'
  BY <1>2 DEF Join
<1>3. CASE Finish
  BY <1>3 DEF Finish, Over, tokens
<1>4. CASE Verify
  BY <1>4 DEF Verify, Over, tokens
<1>5. CASE Publish \/ Pause
  BY <1>5 DEF Publish, Pause, Over, download, tokens, TypeOK
<1>6. ASSUME NEW w \in Worker, WorkerStep(w), WorkersStep
      PROVE  Reasons'
  BY <1>6, WorkerDoes, OneOfThem
<1>7. CASE UNCHANGED vars
  BY <1>7 DEF vars, download, tokens
<1> QED BY <1>1, <1>2, <1>3, <1>4, <1>5, <1>6, <1>7, OneOfThem DEF Next, DriverStep

(***************************************************************************)
(* No block is lost between the plan, the claims and the writer.           *)
(***************************************************************************)
LEMMA CoveredStep ==
  ASSUME TypeOK, Counted, Covered, [Next]_vars
  PROVE  Covered'
<1> USE LeavingIs
<1>0. /\ AllBytes(free) \subseteq Block
      /\ \A w \in Worker : cursor[w] \in Nat /\ end[w] \in Nat /\ Claim(w) \subseteq Block
  <2>1. AllBytes(free) \subseteq Block
    BY BytesAreBlocks DEF TypeOK, Interval, AllBytes
  <2>2. \A w \in Worker : Claim(w) \subseteq Block
    BY BytesAreBlocks DEF TypeOK, Claim
  <2> QED BY <2>1, <2>2, SegmentsAssumption DEF TypeOK, Position
<1>1. ASSUME UNCHANGED <<cursor, end, fetched>>, AllBytes(free) \subseteq AllBytes(free'),
             \A w \in Worker : worker'[w] \in Idle => worker[w] \in Idle
      PROVE  Covered'
  BY <1>1 DEF Covered, Claim
<1>2. CASE Seed
  <2>1. AllBytes(free) \subseteq AllBytes(free')
    BY <1>2, SeedKeepsBytes DEF Seed, TypeOK
  <2> QED BY <1>1, <1>2, <2>1 DEF Seed
<1>3. ASSUME NEW n \in Nat, Spawn(n), UNCHANGED <<plan, fetched>>
      PROVE  Covered'
  <2>1. \A w \in Worker : worker'[w] = worker[w] \/ worker[w] = "none"
    <3>1. /\ Spawned' \ Spawned = set' \ set
          /\ \A w \in Worker : IF w \in set' \ set THEN worker'[w] \in {"ready", "Failed"}
                                ELSE worker'[w] = worker[w]
      BY <1>3, SpawnAdds, Zenon
    <3> QED BY <3>1 DEF Counted
  <2> QED BY <1>1, <1>3, <2>1 DEF plan, Idle
<1>4. CASE StartUp
  <2>1. Spawn(target) /\ target \in Nat /\ UNCHANGED <<plan, fetched>>
    BY <1>4, ConcurrencyAssumption DEF StartUp, TypeOK, Level
  <2> QED BY <1>3, <2>1
<1>5. CASE Tick
  <2>1. /\ UNCHANGED <<plan, fetched>>
        /\ UNCHANGED worker \/ \E n \in Nat : Spawn(n)
    BY <1>5, TickDoes, Zenon DEF Counted
  <2> QED BY <1>1, <1>3, <2>1 DEF plan
<1>6. CASE TickCancelled
  <2>1. \A w \in Worker : worker'[w] = worker[w] \/ worker'[w] = "aborted"
    BY <1>6 DEF TickCancelled, Abort
  <2>2. UNCHANGED <<cursor, end, fetched, free>>
    BY <1>6 DEF TickCancelled, plan
  <2> QED BY <1>1, <2>1, <2>2 DEF Idle, Exit
<1>7. ASSUME NEW w \in Worker, Join(w)
      PROVE  Covered'
  BY <1>1, <1>7 DEF Join, plan
<1>8. CASE Endgame \/ Finish \/ Verify \/ Publish \/ Pause
  <2>1. UNCHANGED <<plan, worker, fetched>>
    BY <1>8 DEF Endgame, Finish, Verify, Publish, Pause
  <2> QED BY <1>1, <2>1 DEF plan
<1>9. ASSUME NEW w \in Worker, WorkerStep(w), WorkersStep
      PROVE  Covered'
  <2>0. /\ \A u \in Worker \ {w} : worker'[u] = worker[u]
        /\ worker[w] \in {"ready", "busy"} \cup DOMAIN Leaving
    BY <1>9, WorkerDoes
  <2>1. CASE StandDown(w) \/ Exhausted(w)
    <3>1. UNCHANGED <<plan, fetched>> /\ worker[w] = "ready"
      BY <2>1 DEF StandDown, Exhausted
    <3> QED BY <1>1, <2>0, <3>1 DEF plan, Idle
  <2>2. CASE Leave(w)
    <3>1. UNCHANGED <<plan, fetched>> /\ worker'[w] \notin Idle
      BY <2>2 DEF Leave, Becomes, Idle, Exit, TypeOK
    <3> QED BY <1>1, <2>0, <3>1 DEF plan, Idle
  <2>3. CASE TakeFree(w)
    <3>1. PICK i \in free : /\ free' = free \ {i}
                             /\ cursor' = [cursor EXCEPT ![w] = i[1]]
                             /\ end' = [end EXCEPT ![w] = i[2]]
      BY <2>3 DEF TakeFree
    <3>2. /\ fetched' = fetched /\ worker'[w] = "busy"
          /\ cursor[w] = 0 /\ end[w] = 0
      BY <2>3 DEF TakeFree, Covered, Idle, Becomes, TypeOK
    <3>3. /\ Claim(w) = {} /\ Claim(w)' = Bytes(i)
          /\ \A u \in Worker \ {w} : Claim(u)' = Claim(u) /\ cursor'[u] = cursor[u] /\ end'[u] = end[u]
      <4>1. i[1] \in Position /\ i[2] \in Position
        BY DEF TypeOK, Interval
      <4> QED BY <3>1, <3>2, <4>1 DEF Claim, Bytes, TypeOK
    <3>4. AllBytes(free) \subseteq AllBytes(free') \cup Bytes(i)
      BY <3>1 DEF AllBytes
    <3>5. Block \subseteq fetched' \cup AllBytes(free') \cup UNION {Claim(u)' : u \in Worker}
      BY <3>2, <3>3, <3>4 DEF Covered
    <3>6. \A u \in Worker : worker'[u] \in Idle => cursor'[u] = 0 /\ end'[u] = 0
      BY <2>0, <3>2, <3>3 DEF Covered, Idle, Exit
    <3> QED BY <3>5, <3>6 DEF Covered, Claim
  <2>4. CASE StealTail(w)
    <3>1. PICK v \in Live \ {w}, at \in SplitPoint :
            /\ at < end[v]
            /\ cursor' = [cursor EXCEPT ![w] = at]
            /\ \/ end' = [end EXCEPT ![v] = at, ![w] = end[v]]
               \/ end' = [end EXCEPT ![w] = end[v]]
      BY <2>4 DEF StealTail
    <3>2. /\ fetched' = fetched /\ free' = free /\ worker'[w] = "busy"
          /\ cursor[w] = 0 /\ end[w] = 0 /\ worker[w] = "ready"
      BY <2>4 DEF StealTail, Covered, Idle, Becomes, TypeOK
    <3>3. v \in Worker /\ v # w /\ worker[v] \in {"ready", "busy"} \cup DOMAIN Leaving
      BY <3>1 DEF Live
    <3>4. worker[v] \notin Idle
      <4>1. worker[v] # "ready"
        <5> SUFFICES ASSUME worker[v] = "ready" PROVE FALSE
          OBVIOUS
        <5>1. end[v] = 0 /\ at \in Nat
          BY <3>1, <3>3, SplitIsInside DEF Covered, Idle
        <5> QED BY <3>1, <5>1
      <4> QED BY <3>3, <4>1 DEF Idle, Exit
    <3>5. at \in Position /\ at \in Nat /\ end[v] \in Nat
      BY <1>0, <3>1, <3>3, SplitIsInside
    <3>6. /\ cursor'[w] = at /\ end'[w] = end[v] /\ cursor'[v] = cursor[v]
          /\ end'[v] = at \/ end'[v] = end[v]
          /\ \A u \in Worker \ {v, w} : cursor'[u] = cursor[u] /\ end'[u] = end[u]
      BY <3>1, <3>3 DEF TypeOK
    <3>7. Claim(w) = {} /\ Claim(v) \subseteq Claim(v)' \cup Claim(w)'
      BY <1>0, <3>2, <3>3, <3>5, <3>6 DEF Claim, Bytes
    <3>8. \A u \in Worker \ {v, w} : Claim(u)' = Claim(u)
      BY <3>6 DEF Claim
    <3>9. Block \subseteq fetched' \cup AllBytes(free') \cup UNION {Claim(u)' : u \in Worker}
      <4>1. UNION {Claim(u) : u \in Worker} \subseteq UNION {Claim(u)' : u \in Worker}
        BY <3>7, <3>8
      <4> QED BY <3>2, <4>1 DEF Covered
    <3>10. \A u \in Worker : worker'[u] \in Idle => cursor'[u] = 0 /\ end'[u] = 0
      BY <2>0, <3>2, <3>3, <3>4, <3>6 DEF Covered, Idle, Exit
    <3> QED BY <3>9, <3>10 DEF Covered, Claim
  <2>5. CASE Deliver(w)
    <3>1. PICK to \in Position : /\ fetched' = fetched \cup Bytes(<<cursor[w], to>>)
                                   /\ cursor' = [cursor EXCEPT ![w] = to]
      BY <2>5 DEF Deliver
    <3>2. UNCHANGED <<worker, free, end>> /\ worker[w] = "busy"
      BY <2>5 DEF Deliver
    <3>3. Claim(w) \subseteq fetched' \cup Claim(w)'
      <4>1. cursor'[w] = to /\ to \in Nat /\ end'[w] = end[w]
        BY <3>1, <3>2, SegmentsAssumption DEF Position, TypeOK
      <4>2. Claim(w) \subseteq Bytes(<<cursor[w], to>>) \cup Claim(w)'
        BY <1>0, <4>1 DEF Claim, Bytes
      <4> QED BY <3>1, <4>2
    <3>4. \A u \in Worker \ {w} : Claim(u)' = Claim(u) /\ cursor'[u] = cursor[u]
      BY <3>1, <3>2 DEF Claim, TypeOK
    <3>5. Block \subseteq fetched' \cup AllBytes(free') \cup UNION {Claim(u)' : u \in Worker}
      <4>1. fetched \subseteq fetched'
        BY <3>1
      <4> QED BY <3>2, <3>3, <3>4, <4>1 DEF Covered
    <3>6. \A u \in Worker : worker'[u] \in Idle => cursor'[u] = 0 /\ end'[u] = 0
      BY <3>2, <3>4 DEF Covered, Idle, Exit
    <3> QED BY <3>5, <3>6 DEF Covered, Claim
  <2>6. CASE GoOn(w) \/ GiveBack(w)
    <3>1. /\ fetched' = fetched
          /\ cursor' = [cursor EXCEPT ![w] = 0] /\ end' = [end EXCEPT ![w] = 0]
      BY <2>6 DEF GoOn, GiveBack, NoClaim
    <3>2. /\ \A u \in Worker \ {w} : Claim(u)' = Claim(u) /\ cursor'[u] = cursor[u] /\ end'[u] = end[u]
          /\ cursor'[w] = 0 /\ end'[w] = 0
      BY <3>1 DEF Claim, TypeOK
    <3>3. AllBytes(free) \cup Claim(w) \subseteq AllBytes(free')
      <4>1. CASE GoOn(w)
        BY <1>0, <4>1 DEF GoOn, Claim, Bytes
      <4>2. CASE GiveBack(w)
        <5> DEFINE F == free \cup {<<cursor[w], end[w]>>}
        <5>1. AllBytes(F) = AllBytes(free) \cup Claim(w)
          BY DEF AllBytes, Claim
        <5>2. free' = MergeFree(F)
          BY <4>2 DEF GiveBack
        <5> HIDE DEF F
        <5>3. AllBytes(F) \subseteq Block
          BY <1>0, <5>1
        <5>4. AllBytes(MergeFree(F)) = AllBytes(F)
          BY <5>3, MergeKeepsBytes, Zenon
        <5>5. AllBytes(free') = AllBytes(F)
          BY <5>2, <5>4
        <5> QED BY <5>1, <5>5
      <4> QED BY <2>6, <4>1, <4>2
    <3>4. Block \subseteq fetched' \cup AllBytes(free') \cup UNION {Claim(u)' : u \in Worker}
      BY <3>1, <3>2, <3>3 DEF Covered
    <3>5. \A u \in Worker : worker'[u] \in Idle => cursor'[u] = 0 /\ end'[u] = 0
      BY <2>0, <3>2 DEF Covered
    <3> QED BY <3>4, <3>5 DEF Covered, Claim
  <2> QED BY <1>9, <2>1, <2>2, <2>3, <2>4, <2>5, <2>6, Zenon DEF WorkerStep
<1>10. CASE UNCHANGED vars
  BY <1>1, <1>10 DEF vars, plan
<1> QED BY <1>2, <1>4, <1>5, <1>6, <1>7, <1>8, <1>9, <1>10, OneOfThem DEF Next, DriverStep

(***************************************************************************)
(* A worker leaves for a reason that the tokens remember.                  *)
(***************************************************************************)
LEMMA DeparturesStep ==
  ASSUME TypeOK, Counted, Departures, [Next]_vars
  PROVE  Departures'
<1> USE LeavingIs DEF Exit, Ends
<1>1. CASE Seed
  BY <1>1 DEF Seed, Departures, Spawned, download, pool, tokens
<1>2. ASSUME NEW n \in Nat, Spawn(n), driver \notin Ends, driver' \notin Ends,
             UNCHANGED <<cancel, retire>>
      PROVE  Departures'
  <2>1. /\ set \subseteq set' /\ Spawned' \ Spawned = set' \ set
        /\ \A w \in Worker : IF w \in set' \ set THEN worker'[w] \in {"ready", "Failed"}
                              ELSE worker'[w] = worker[w]
    BY <1>2, SpawnAdds, Zenon
  <2>2. Spawned' \ set' \subseteq Spawned \ set
    BY <2>1
  <2>3. Spawned \ set \subseteq Worker
    BY DriveAssumption DEF TypeOK, Spawned
  <2>4. \A w \in Spawned' \ set' : worker'[w] = worker[w]
    BY <2>1, <2>2, <2>3
  <2>5. \A w \in Spawned' \ set' : worker'[w] \in Exit /\ (worker'[w] = "Failed" => cancel')
    BY <1>2, <2>2, <2>4 DEF Departures
  <2>6. \A w \in Worker : /\ worker'[w] \in {"Cancelled", "standdown", "aborted"} => cancel'
                          /\ worker'[w] = "Retired" => retire' # {}
    BY <1>2, <2>1 DEF Departures
  <2> QED BY <1>2, <2>5, <2>6 DEF Departures
<1>3. CASE StartUp
  <2>1. Spawn(target) /\ target \in Nat /\ driver = "seed" /\ driver' = "select"
        /\ UNCHANGED <<cancel, retire>>
    BY <1>3, ConcurrencyAssumption DEF StartUp, TypeOK, Level, tokens
  <2> QED BY <1>2, <2>1
<1>4. CASE Tick
  <2>1. /\ driver = "select" /\ driver' = "endgame" /\ cancel' = cancel
        /\ \/ UNCHANGED <<pool, worker>> /\ retire \subseteq retire'
           \/ UNCHANGED retire /\ \E n \in Nat : Spawn(n)
    BY <1>4, TickDoes, Zenon DEF Counted
  <2>2. CASE UNCHANGED <<pool, worker>> /\ retire \subseteq retire'
    BY <2>1, <2>2 DEF Departures, Spawned, pool
  <2> QED BY <1>2, <2>1, <2>2
<1>5. ASSUME NEW w \in Worker, Join(w)
      PROVE  Departures'
  <2>1. /\ worker[w] \in Exit /\ set' = set \ {w} /\ UNCHANGED <<next_id, worker, retire>>
        /\ cancel' = (cancel \/ worker[w] = "Failed")
        /\ driver = "select" /\ driver' = IF set' = {} THEN "finish" ELSE driver
    BY <1>5 DEF Join
  <2>2. cancel => cancel'
    BY <2>1
  <2>3. worker[w] = "Failed" => cancel'
    BY <2>1
  <2>4. \A u \in Spawned' \ set' : worker'[u] \in Exit /\ (worker'[u] = "Failed" => cancel')
    BY <2>1, <2>2, <2>3 DEF Departures, Spawned
  <2>5. \A u \in Worker : /\ worker'[u] \in {"Cancelled", "standdown", "aborted"} => cancel'
                          /\ worker'[u] = "Retired" => retire' # {}
    BY <2>1, <2>2 DEF Departures
  <2>6. driver' \in Ends => set' = {}
    BY <2>1
  <2> QED BY <2>4, <2>5, <2>6 DEF Departures
<1>6. CASE TickCancelled
  <2>1. cancel /\ cancel' = cancel /\ retire' = retire /\ next_id' = next_id /\ set' = set
    BY <1>6 DEF TickCancelled, pool, tokens
  <2>2. \A w \in Worker : /\ worker'[w] = worker[w] \/ worker'[w] = "aborted"
                          /\ w \notin set => worker'[w] = worker[w]
    BY <1>6 DEF TickCancelled, Abort
  <2>3. Spawned \ set \subseteq Worker
    BY DriveAssumption DEF TypeOK, Spawned
  <2>4. \A w \in Spawned' \ set' : worker'[w] \in Exit
    BY <2>1, <2>2, <2>3 DEF Departures, Spawned
  <2>5. \A w \in Worker : worker'[w] = "Retired" => retire' # {}
    BY <2>1, <2>2 DEF Departures
  <2> QED BY <2>1, <2>4, <2>5 DEF Departures
<1>7. CASE Endgame
  <2>1. retire \subseteq retire'
    BY <1>7 DEF Endgame, RetireDownTo
  <2> QED BY <1>7, <2>1 DEF Endgame, Departures, Spawned, pool
<1>8. CASE Finish \/ Verify \/ Publish
  <2>1. UNCHANGED <<worker, retire, cancel, next_id, set>> /\ driver \in Ends
    BY <1>8 DEF Finish, Verify, Publish, pool, tokens
  <2> QED BY <2>1 DEF Departures, Spawned
<1>9. CASE Pause
  BY <1>9 DEF Pause, Departures, Spawned, download, pool
<1>10. ASSUME NEW w \in Worker, WorkerStep(w), WorkersStep
      PROVE  Departures'
  <2>1. /\ UNCHANGED <<driver, next_id, set, retire, cancel>>
        /\ \A u \in Worker \ {w} : worker'[u] = worker[u]
        /\ worker[w] \in {"ready", "busy"} \cup DOMAIN Leaving
        /\ worker'[w] \in {"ready", "busy"} \cup DOMAIN Leaving \cup Exit
        /\ worker'[w] \in {"Cancelled", "standdown"} => cancel \/ worker[w] = "standdown"
        /\ worker'[w] = "Retired" => retire # {}
    BY <1>10, WorkerDoes, OneOfThem
  <2>2. w \in set
    BY <2>1 DEF Counted, Live
  <2>3. Spawned \ set \subseteq Worker \ {w}
    BY <2>2, DriveAssumption DEF TypeOK, Spawned
  <2>4. \A u \in Spawned' \ set' : worker'[u] \in Exit /\ (worker'[u] = "Failed" => cancel')
    BY <2>1, <2>3 DEF Departures, Spawned
  <2>5. \A u \in Worker : /\ worker'[u] \in {"Cancelled", "standdown", "aborted"} => cancel'
                          /\ worker'[u] = "Retired" => retire' # {}
    BY <2>1 DEF Departures
  <2> QED BY <2>1, <2>4, <2>5 DEF Departures
<1>11. CASE UNCHANGED vars
  BY <1>11 DEF vars, download, pool, tokens, Departures, Spawned
<1> QED BY <1>1, <1>3, <1>4, <1>5, <1>6, <1>7, <1>8, <1>9, <1>10, <1>11, OneOfThem DEF Next, DriverStep

(***************************************************************************)
(* When all workers have left because the plan was exhausted, everything   *)
(* was fetched.                                                            *)
(***************************************************************************)
LEMMA NothingLeft ==
  ASSUME TypeOK, Counted, Covered, Departures, StillThere,
         set = {}, ~cancel, retire = {}, next_id # 0
  PROVE  fetched = Block
<1>1. \A w \in Worker : worker[w] \in {"none", "Exhausted"}
  BY DEF Departures, Counted, Exit, TypeOK
<1>2. 1 \in Spawned /\ 1 \in Worker /\ worker[1] = "Exhausted"
  <2>1. 1 \in Spawned /\ 1 \in Worker
    BY DriveAssumption DEF TypeOK, Spawned
  <2> QED BY <1>1, <2>1 DEF Counted
<1>3. free = {}
  BY <1>1, <1>2 DEF StillThere
<1>4. \A w \in Worker : Claim(w) = {}
  BY <1>1 DEF Covered, Idle, Exit, Claim, Bytes
<1>5. Block \subseteq fetched
  BY <1>3, <1>4 DEF Covered, AllBytes
<1> QED BY <1>5 DEF TypeOK

(***************************************************************************)
(* A worker concludes "exhausted" when nothing is unclaimed, and what is   *)
(* given back is given back by a worker that is still there.               *)
(***************************************************************************)
LEMMA StillThereStep ==
  ASSUME IInv, [Next]_vars
  PROVE  StillThere'
<1> USE LeavingIs
<1>1. TypeOK /\ Counted /\ StillThere
  BY DEF IInv
<1>2. ASSUME UNCHANGED <<worker, free>>
      PROVE  StillThere'
  BY <1>1, <1>2 DEF StillThere
<1>3. CASE Seed
  <2>1. driver = "seed" /\ UNCHANGED worker
    BY <1>3 DEF Seed
  <2>2. \A w \in Worker : worker'[w] = "none"
    BY <1>1, <2>1 DEF Counted, Spawned
  <2> QED BY <2>2 DEF StillThere
<1>4. ASSUME NEW n \in Nat, Spawn(n), UNCHANGED free
      PROVE  StillThere'
  <2>1. \A w \in Worker : worker'[w] = worker[w]
                         \/ (worker[w] = "none" /\ worker'[w] \in {"ready", "Failed"})
    <3>1. /\ Spawned' \ Spawned = set' \ set
          /\ \A w \in Worker : IF w \in set' \ set THEN worker'[w] \in {"ready", "Failed"}
                                ELSE worker'[w] = worker[w]
      BY <1>1, <1>4, SpawnAdds, Zenon
    <3> QED BY <1>1, <3>1 DEF Counted
  <2> QED BY <1>1, <1>4, <2>1 DEF StillThere
<1>5. CASE StartUp
  <2>1. Spawn(target) /\ target \in Nat /\ UNCHANGED free
    BY <1>1, <1>5, ConcurrencyAssumption DEF StartUp, TypeOK, Level, plan
  <2> QED BY <1>4, <2>1
<1>6. CASE Tick
  <2>1. UNCHANGED free /\ (UNCHANGED worker \/ \E n \in Nat : Spawn(n))
    BY <1>1, <1>6, TickDoes, Zenon DEF Counted, IInv, plan
  <2> QED BY <1>2, <1>4, <2>1
<1>7. CASE TickCancelled
  <2>1. free' = free /\ \A w \in Worker : worker'[w] = worker[w] \/ worker'[w] = "aborted"
    BY <1>7 DEF TickCancelled, Abort, plan
  <2> QED BY <1>1, <2>1 DEF StillThere
<1>8. CASE Endgame \/ Finish \/ Verify \/ Publish \/ Pause \/ \E w \in Worker : Join(w)
  BY <1>2, <1>8 DEF Endgame, Finish, Verify, Publish, Pause, Join, plan
<1>9. ASSUME NEW w \in Worker, WorkerStep(w)
      PROVE  StillThere'
  <2>1. CASE worker'[w] \notin {"none", "Exhausted"}
    BY <2>1 DEF StillThere
  <2>2. CASE worker'[w] \in {"none", "Exhausted"}
    <3>1. Exhausted(w)
      <4>1. /\ ~StandDown(w) /\ ~TakeFree(w) /\ ~StealTail(w)
        BY <1>1, <2>2 DEF StandDown, TakeFree, StealTail, Becomes, TypeOK
      <4>2. ~Deliver(w) /\ ~Leave(w) /\ ~GiveBack(w) /\ ~GoOn(w)
        BY <1>1, <2>2 DEF Deliver, Leave, GiveBack, GoOn, Becomes, TypeOK
      <4> QED BY <1>9, <4>1, <4>2 DEF WorkerStep
    <3> QED BY <3>1 DEF Exhausted, plan, StillThere
  <2> QED BY <2>1, <2>2
<1>10. CASE UNCHANGED vars
  BY <1>2, <1>10 DEF vars, plan
<1> QED BY <1>3, <1>5, <1>6, <1>7, <1>8, <1>9, <1>10, OneOfThem DEF Next, DriverStep

(***************************************************************************)
(* A verdict is reached on what is there, and no block is lost after it.   *)
(***************************************************************************)
LEMMA ConcludedStep ==
  ASSUME IInv, [Next]_vars, TypeOK'
  PROVE  Concluded'
<1> USE LeavingIs
<1>1. /\ TypeOK /\ Counted /\ Covered /\ Departures /\ StillThere /\ Concluded /\ Reasons
  BY DEF IInv
<1>2. ASSUME retire \subseteq retire', fetched \subseteq fetched', result' = result,
             driver' = "publish" => driver = "publish"
      PROVE  Concluded'
  <2>1. fetched' \subseteq Block
    BY DEF TypeOK
  <2> QED BY <1>1, <1>2, <2>1 DEF Concluded
<1>3. CASE Seed \/ StartUp \/ TickCancelled \/ Endgame \/ Pause
  BY <1>2, <1>3 DEF Seed, StartUp, TickCancelled, Endgame, Pause, RetireDownTo, download, tokens
<1>4. CASE Tick
  <2>1. /\ driver' = "endgame" /\ UNCHANGED <<result, fetched>> /\ retire \subseteq retire'
    BY <1>1, <1>4, TickDoes, Zenon DEF Counted
  <2> QED BY <1>2, <2>1
<1>5. ASSUME NEW w \in Worker, Join(w)
      PROVE  Concluded'
  BY <1>2, <1>5 DEF Join
<1>6. CASE Finish
  BY <1>1, <1>6 DEF Finish, Over, tokens, Concluded, Reasons
<1>7. CASE Verify
  <2>1. driver = "verify" /\ UNCHANGED <<fetched, retire>> /\ result = "none"
    BY <1>1, <1>7 DEF Verify, tokens, Reasons
  <2>2. next_id # 0 /\ (~cancel => set = {})
    BY <1>1, <2>1 DEF Counted, Departures, Ends
  <2>3. result' = "Incomplete" => ~cancel /\ fetched # Block
    BY <1>7, <2>1 DEF Verify, Over
  <2>4. result' = "Incomplete" => retire' # {}
    BY <1>1, <2>1, <2>2, <2>3, NothingLeft
  <2>5. driver' = "publish" \/ result' \in {"ChecksumMismatch", "Ok"} => fetched' = Block
    BY <1>7, <2>1 DEF Verify, Over
  <2> QED BY <2>4, <2>5 DEF Concluded
<1>8. CASE Publish
  BY <1>1, <1>8 DEF Publish, Over, tokens, Concluded
<1>9. ASSUME NEW w \in Worker, WorkerStep(w), WorkersStep
      PROVE  Concluded'
  <2>1. fetched \subseteq fetched'
    BY <1>9 DEF WorkerStep, StandDown, TakeFree, StealTail, Exhausted, Deliver, Leave, GiveBack, GoOn
  <2> QED BY <1>1, <1>2, <1>9, <2>1, WorkerDoes, OneOfThem
<1>10. CASE UNCHANGED vars
  BY <1>2, <1>10 DEF vars, download, tokens
<1> QED BY <1>3, <1>4, <1>5, <1>6, <1>7, <1>8, <1>9, <1>10, OneOfThem DEF Next, DriverStep

(***************************************************************************)
(* A session begins with no workers and nothing lost.                      *)
(***************************************************************************)
LEMMA StartsRight == Init => IInv
<1> SUFFICES ASSUME Init PROVE IInv
  OBVIOUS
<1>1. PICK done \in SUBSET Block : fetched = done /\ free = Spans(Block \ done)
  BY DEF Init, Unstarted
<1>2. free \subseteq Interval /\ AllBytes(free) = Block \ done
  <2>1. Block \ done \in SUBSET Block
    OBVIOUS
  <2> QED BY <1>1, <2>1, SpansCover DEF Spans
<1>3. Spawned = {} /\ set = {} /\ Live = {}
  BY DEF Init, Unstarted, Spawned, Live, Leaving
<1>4. TypeOK
  <2>1. conns = Cardinality(set)
    BY <1>3, FS_EmptySet DEF Init
  <2>2. limit \in Level /\ target \in 1 .. limit
    BY ConcurrencyAssumption DEF Init, InitialConns, Level
  <2>3. worker \in [Worker -> Status]
    BY DEF Init, Unstarted, Status
  <2>4. cursor \in [Worker -> Position] /\ end \in [Worker -> Position]
    BY SegmentsAssumption DEF Init, Unstarted, Position
  <2>5. next_id \in 0 .. MaxSpawn
    BY DriveAssumption DEF Init
  <2> QED BY <1>1, <1>2, <1>3, <2>1, <2>2, <2>3, <2>4, <2>5 DEF TypeOK, Init, Unstarted, Result
<1>5. Counted
  BY <1>3, ConcurrencyAssumption DEF Init, Unstarted, Counted
<1>6. Reasons /\ Departures /\ StillThere /\ Concluded
  BY <1>3 DEF Init, Unstarted, Reasons, Departures, StillThere, Concluded, Ends
<1>7. Covered
  BY <1>1, <1>2 DEF Init, Unstarted, Covered
<1> QED BY <1>4, <1>5, <1>6, <1>7 DEF IInv

(***************************************************************************)
(* IInv is an invariant of the download.                                   *)
(***************************************************************************)
THEOREM DriveInvariance == Spec => []IInv
<1>1. IInv /\ [Next]_vars => IInv'
  BY TypeStep, CountedStep, ReasonsStep, CoveredStep, DeparturesStep, StillThereStep,
     ConcludedStep DEF IInv
<1> QED BY StartsRight, <1>1, PTL DEF Spec

(***************************************************************************)
(* Every variable of a download stays in its type, and live.conns is the   *)
(* size of the join set.                                                   *)
(***************************************************************************)
THEOREM DriveTypeCorrect == Spec => []TypeOK
<1>1. IInv => TypeOK
  BY DEF IInv
<1> QED BY <1>1, DriveInvariance, PTL

(***************************************************************************)
(* No order of ticks, joins and exits has more connections than the cap,   *)
(* for every cap and every file.                                           *)
(***************************************************************************)
THEOREM CapIsRespected == Spec => []CapRespected
<1>1. IInv => CapRespected
  <2> SUFFICES ASSUME IInv PROVE CapRespected
    OBVIOUS
  <2>1. IsFiniteSet(set) /\ Cardinality(set) <= MaxConns /\ Live \subseteq set
    BY SetIsFinite DEF IInv, Counted, TypeOK
  <2>2. Cardinality(Live) <= Cardinality(set) /\ IsFiniteSet(Live)
    BY <2>1, FS_Subset
  <2>3. Cardinality(Live) \in Nat /\ Cardinality(set) \in Nat
    BY <2>1, <2>2, FS_CardinalityType
  <2> QED BY <2>1, <2>2, <2>3, ConcurrencyAssumption DEF CapRespected
<1> QED BY <1>1, DriveInvariance, PTL

(***************************************************************************)
(* Without a failure, a pause or a worker that was stood down, the workers *)
(* leave a complete file, whatever they stole from each other; a download  *)
(* that is reported as cancelled was paused by the user; and what is       *)
(* published is complete.                                                  *)
(***************************************************************************)
THEOREM TheVerdictIsTrue == Spec => []VerdictIsTrue
<1>1. IInv => VerdictIsTrue
  BY DEF IInv, Reasons, Concluded, VerdictIsTrue
<1> QED BY <1>1, DriveInvariance, PTL

(***************************************************************************)
(* drive() treats the plan and its workers as Claims has it: to them it is *)
(* one of the drivers that Claims leaves open.                             *)
(***************************************************************************)
THEOREM DriveStaysOutside == Spec => ClaimsSpec
<1>1. Init => Unstarted
  BY DEF Init
<1>2. ASSUME IInv, IInv', [Next]_vars PROVE [ClaimsNext]_claims
  <2> USE LeavingIs
  <2>1. TypeOK /\ Counted /\ TypeOK' /\ worker' \in [Worker -> Status]
    BY <1>2 DEF IInv, TypeOK
  <2>2. CASE Seed
    <3>1. \A w \in Worker : worker[w] = "none"
      BY <2>1, <2>2 DEF Seed, Counted, Spawned
    <3> QED BY <2>1, <2>2, <3>1 DEF Seed, tokens, ClaimsNext, Drives, Directed
  <2>3. ASSUME UNCHANGED <<plan, fetched>>, retire \subseteq retire', cancel => cancel',
               \A w \in Worker : Directed(w)
        PROVE  ClaimsNext
    BY <2>1, <2>3 DEF ClaimsNext, Drives, plan
  <2>4. ASSUME NEW n \in Nat, Spawn(n), UNCHANGED <<plan, fetched, retire, cancel>>
        PROVE  ClaimsNext
    <3>1. /\ Spawned' \ Spawned = set' \ set
          /\ \A w \in Worker : IF w \in set' \ set THEN worker'[w] \in {"ready", "Failed"}
                                ELSE worker'[w] = worker[w]
      BY <2>1, <2>4, SpawnAdds, Zenon
    <3>2. \A w \in Worker : Directed(w)
      BY <2>1, <3>1 DEF Counted, Directed
    <3> QED BY <2>3, <2>4, <3>2
  <2>5. CASE StartUp
    <3>1. Spawn(target) /\ target \in Nat /\ UNCHANGED <<plan, fetched, retire, cancel>>
      BY <2>1, <2>5, ConcurrencyAssumption DEF StartUp, TypeOK, Level, tokens
    <3> QED BY <2>4, <3>1
  <2>6. CASE Tick
    <3>1. /\ UNCHANGED <<plan, cancel, fetched>>
          /\ \/ UNCHANGED worker /\ retire \subseteq retire'
             \/ UNCHANGED retire /\ \E n \in Nat : Spawn(n)
      BY <2>1, <2>6, TickDoes, Zenon DEF Counted
    <3> QED BY <2>3, <2>4, <3>1 DEF Directed
  <2>7. CASE TickCancelled
    <3>1. /\ UNCHANGED <<plan, fetched, retire, cancel>> /\ cancel
          /\ \A w \in Worker : worker'[w] = worker[w]
                               \/ (w \in set /\ worker[w] \notin Exit /\ worker'[w] = "aborted")
      BY <2>7 DEF TickCancelled, Abort, tokens
    <3>2. \A w \in Worker : worker[w] = "none" => w \notin set
      BY <2>1 DEF TypeOK, Counted
    <3>3. \A w \in Worker : Directed(w)
      BY <2>1, <3>1, <3>2 DEF Directed, Live, TypeOK, Status
    <3> QED BY <2>3, <3>1, <3>3
  <2>8. CASE Endgame \/ Finish \/ Verify \/ Publish \/ Pause \/ \E w \in Worker : Join(w)
    BY <2>3, <2>8 DEF Endgame, Finish, Verify, Publish, Pause, Join, RetireDownTo, tokens, Directed
  <2>9. CASE WorkersStep
    BY <2>9 DEF WorkersStep, ClaimsNext
  <2>10. CASE UNCHANGED vars
    BY <2>10 DEF vars, claims, tokens
  <2> QED BY <1>2, <2>2, <2>5, <2>6, <2>7, <2>8, <2>9, <2>10 DEF Next, DriverStep
<1> QED BY <1>1, <1>2, DriveInvariance, PTL DEF Spec, ClaimsSpec

-----------------------------------------------------------------------------
(* A cancelled download ends.                                              *)

Stage ==
  IF driver = "seed" THEN 6
  ELSE IF driver = "endgame" THEN 5
  ELSE IF driver = "select" THEN 4
  ELSE IF driver = "finish" THEN 3
  ELSE IF driver = "verify" THEN 2
  ELSE IF driver = "publish" THEN 1
  ELSE 0

\* How many splits seed() has to go at most.
Unsplit == IF Cardinality(free) < target THEN target - Cardinality(free) ELSE 0

ToGo == <<Stage, IF driver = "seed" THEN Unsplit ELSE conns>>

Distance == [1 .. 2 -> Nat]
Nearer == LexProductOrdering(OpToRel(<, Nat), Nat, 2)

\* Cancelled, download() comes nearer to its end, and nobody takes it back.
EndNears == cancel => IF DriverStep THEN <<ToGo', ToGo>> \in Nearer ELSE ToGo' = ToGo

SeedsApart == driver = "seed" => Apart(free)

(***************************************************************************)
(* Coming nearer ends.                                                     *)
(***************************************************************************)
LEMMA NearerEnds == IsWellFoundedOn(Nearer, Distance)
<1>1. IsWellFoundedOn(OpToRel(<, Nat), Nat)
  BY NatLessThanWellFounded, Zenon
<1> DEFINE R == OpToRel(<, Nat)
<1> HIDE DEF R
<1>2. \A n \in Nat : IsWellFoundedOn(R, Nat) => IsWellFoundedOn(LexProductOrdering(R, Nat, n), [1 .. n -> Nat])
  BY WFLexProductOrdering, Zenon
<1>3. 2 \in Nat
  OBVIOUS
<1> QED BY <1>1, <1>2, <1>3, Zenon DEF R, Nearer, Distance

(***************************************************************************)
(* Either a later stage, or less to do in this one.                        *)
(***************************************************************************)
LEMMA ComesNearer ==
  ASSUME NEW e \in Distance, NEW f \in Distance,
         e[1] < f[1] \/ (e[1] = f[1] /\ e[2] < f[2])
  PROVE  <<e, f>> \in Nearer
<1> DEFINE R == OpToRel(<, Nat)
           ff == <<e, f>>
<1>1. PICK k \in 1 .. 2 : e[k] < f[k] /\ \A i \in 1 .. k - 1 : e[i] = f[i]
  BY DEF Distance
<1>2. e[k] \in Nat /\ f[k] \in Nat
  BY DEF Distance
<1>3. <<e[k], f[k]>> \in R
  BY <1>1, <1>2, Zenon DEF OpToRel
<1>4. <<ff[1][k], ff[2][k]>> \in R /\ \A i \in 1 .. k - 1 : ff[1][i] = ff[2][i]
  BY <1>1, <1>3
<1>5. ff \in [1 .. 2 -> Nat] \X [1 .. 2 -> Nat]
  BY DEF Distance
<1> HIDE DEF ff, R
<1>6. ff \in LexProductOrdering(R, Nat, 2)
  BY <1>4, <1>5, Zenon DEF LexProductOrdering
<1> QED BY <1>6 DEF ff, R, Nearer

(***************************************************************************)
(* Both parts of the distance are numbers.                                 *)
(***************************************************************************)
LEMMA ToGoCounts == TypeOK => ToGo \in Distance
<1> SUFFICES ASSUME TypeOK PROVE ToGo \in Distance
  OBVIOUS
<1>1. IsFiniteSet(free) /\ Cardinality(free) \in Nat
  <2>1. IsFiniteSet(Position)
    BY FS_Interval, SegmentsAssumption DEF Position
  <2>2. IsFiniteSet(Position \X Position)
    BY <2>1, FS_Product
  <2>3. free \subseteq Position \X Position
    BY DEF TypeOK, Interval
  <2> QED BY <2>2, <2>3, FS_Subset, FS_CardinalityType
<1>2. Unsplit \in Nat
  BY <1>1, ConcurrencyAssumption DEF Unsplit, TypeOK, Level
<1>3. conns \in Nat /\ Stage \in Nat
  BY SetIsFinite DEF Stage
<1> QED BY <1>2, <1>3 DEF ToGo, Distance

(***************************************************************************)
(* No worker takes a step before it is started.                            *)
(***************************************************************************)
LEMMA NobodyWorksYet ==
  ASSUME TypeOK, Counted, driver = "seed"
  PROVE  ~WorkersStep
<1>1. \A w \in Worker : worker[w] = "none"
  BY DEF Counted, Spawned
<1>2. \A w \in Worker : ~WorkerStep(w)
  BY <1>1, LeavingIs
     DEF WorkerStep, StandDown, TakeFree, StealTail, Exhausted, Deliver, Leave, GiveBack, GoOn
<1> QED BY <1>2 DEF WorkersStep

(***************************************************************************)
(* What is unclaimed does not overlap while seed() splits it.              *)
(***************************************************************************)
LEMMA StaysApart == Spec => []SeedsApart
<1>1. Init => SeedsApart
  BY SpansApart DEF Init, Unstarted, SeedsApart
<1>2. ASSUME TypeOK, Counted, SeedsApart, [Next]_vars
      PROVE  SeedsApart'
  <2>1. SUFFICES ASSUME driver' = "seed" PROVE Apart(free)'
    BY DEF SeedsApart
  <2>2. driver = "seed" /\ (Seed \/ free' = free)
    <3>1. CASE WorkersStep
      BY <1>2, <2>1, <3>1, NobodyWorksYet DEF WorkersStep, download
    <3>2. CASE DriverStep
      BY <2>1, <3>2 DEF DriverStep, Seed, StartUp, TickCancelled, Tick, Endgame, Join, Finish,
                        Verify, Publish, Over, download
    <3>3. CASE Pause \/ UNCHANGED vars
      BY <2>1, <3>3 DEF Pause, vars, download, plan
    <3> QED BY <1>2, <3>1, <3>2, <3>3 DEF Next
  <2>3. CASE Seed
    BY <1>2, <2>2, <2>3, SeedRoundAdds DEF Seed, SeedsApart, TypeOK
  <2> QED BY <1>2, <2>2, <2>3 DEF SeedsApart, Apart
<1>3. IInv => TypeOK /\ Counted
  BY DEF IInv
<1> QED BY <1>1, <1>2, <1>3, DriveInvariance, PTL DEF Spec

(***************************************************************************)
(* Every step of download() comes nearer.                                  *)
(***************************************************************************)
LEMMA DriverNears ==
  ASSUME TypeOK, SeedsApart, cancel, DriverStep, ToGo \in Distance, ToGo' \in Distance
  PROVE  <<ToGo', ToGo>> \in Nearer
<1>0. /\ ToGo[1] = Stage /\ ToGo'[1] = Stage'
      /\ ToGo[2] = IF driver = "seed" THEN Unsplit ELSE conns
      /\ ToGo'[2] = IF driver' = "seed" THEN Unsplit' ELSE conns'
  BY DEF ToGo
<1>1. CASE Seed
  <2>1. driver = "seed" /\ driver' = "seed" /\ target' = target /\ Cardinality(free) < target
    BY <1>1 DEF Seed, download, governor
  <2>2. Cardinality(free') = Cardinality(free) + 1 /\ Cardinality(free) \in Nat
    <3>1. Apart(free) /\ free \in SUBSET Interval /\ free' \in SeedRound(free)
      BY <1>1, <2>1 DEF Seed, SeedsApart, TypeOK
    <3> QED BY <3>1, SeedRoundAdds, FS_CardinalityType
  <2>3. target \in Nat
    BY ConcurrencyAssumption DEF TypeOK, Level
  <2>4. Unsplit' < Unsplit
    BY <2>1, <2>2, <2>3 DEF Unsplit
  <2>5. Stage' = Stage
    BY <2>1 DEF Stage
  <2> QED BY <1>0, <2>1, <2>4, <2>5, ComesNearer
<1>2. ASSUME NEW w \in Worker, Join(w)
      PROVE  <<ToGo', ToGo>> \in Nearer
  <2>1. driver = "select" /\ driver' \in {"select", "finish"} /\ conns' = conns - 1
    BY <1>2 DEF Join
  <2>2. conns \in Nat
    BY SetIsFinite
  <2>3. CASE driver' = "finish"
    BY <1>0, <2>1, <2>3, ComesNearer DEF Stage
  <2>4. CASE driver' = "select"
    BY <1>0, <2>1, <2>2, <2>4, ComesNearer DEF Stage
  <2> QED BY <2>1, <2>3, <2>4
<1>3. CASE StartUp \/ TickCancelled \/ Endgame \/ Finish \/ Verify \/ Publish
  <2>1. \/ driver = "seed" /\ driver' = "select"
        \/ driver = "select" /\ driver' = "finish"
        \/ driver = "endgame" /\ driver' = "select"
        \/ driver = "finish" /\ driver' \in {"verify", "over"}
        \/ driver = "verify" /\ driver' \in {"publish", "over"}
        \/ driver = "publish" /\ driver' = "over"
    <3>1. CASE StartUp \/ TickCancelled \/ Endgame
      BY <3>1 DEF StartUp, TickCancelled, Endgame
    <3>2. CASE Finish \/ Publish
      BY <3>2 DEF Finish, Publish, Over
    <3>3. CASE Verify
      BY <3>3 DEF Verify, Over
    <3> QED BY <1>3, <3>1, <3>2, <3>3
  <2>2. Stage' < Stage
    BY <2>1 DEF Stage
  <2> QED BY <1>0, <2>2, ComesNearer
<1>4. ~Tick
  BY DEF Tick
<1> QED BY <1>1, <1>2, <1>3, <1>4 DEF DriverStep

(***************************************************************************)
(* Once it is cancelled, every step of download() brings it nearer to its  *)
(* end - splits of seed() still to make, workers to join, and what comes   *)
(* after them - and no step of a worker, nor a pause, takes it back.  That *)
(* cannot go on for ever (NearerEnds): it takes no server and no worker    *)
(* for a cancelled download to end, as long as its own task runs.          *)
(***************************************************************************)
THEOREM CancelledComesToAnEnd == Spec => [][EndNears]_vars
<1>1. /\ TypeOK /\ Counted /\ SeedsApart
      /\ ToGo \in Distance /\ (ToGo \in Distance)' /\ [Next]_vars
      => [EndNears]_vars
  <2> SUFFICES ASSUME TypeOK, Counted, SeedsApart, ToGo \in Distance, ToGo' \in Distance, Next
               PROVE  EndNears
    OBVIOUS
  <2>1. CASE DriverStep
    BY <2>1, DriverNears DEF EndNears
  <2>2. CASE ~DriverStep /\ (Pause \/ WorkersStep)
    <3>1. driver' = driver /\ conns' = conns /\ target' = target
      BY <2>2 DEF Pause, WorkersStep, download, pool, governor
    <3>2. driver = "seed" => free' = free
      BY <2>2, NobodyWorksYet DEF Pause, plan
    <3>3. ToGo' = ToGo
      BY <3>1, <3>2 DEF ToGo, Stage, Unsplit
    <3> QED BY <2>2, <3>3 DEF EndNears
  <2> QED BY <2>1, <2>2 DEF Next
<1>2. IInv => TypeOK /\ Counted
  BY DEF IInv
<1> QED BY <1>1, <1>2, ToGoCounts, StaysApart, DriveInvariance, PTL DEF Spec
=============================================================================
