------------------------------ MODULE Segments -------------------------------
(***************************************************************************)
(* The arithmetic of the plan (swiftload-core/src/task/plan.rs): intervals *)
(* of a file, how one is split and how the unclaimed ones are kept merged. *)
(* A position is a multiple of the network's chunk granularity.            *)
(***************************************************************************)
EXTENDS Integers, FiniteSets

CONSTANTS
  NBlocks,       \* the length of the file
  SPLIT_ALIGN,   \* splits are rounded up to this
  MIN_SEGMENT    \* claims below twice this are not split

ASSUME SegmentsAssumption ==
  /\ NBlocks \in Nat
  /\ SPLIT_ALIGN \in Nat \ {0} /\ MIN_SEGMENT \in Nat \ {0}

Block == 0 .. NBlocks - 1
Position == 0 .. NBlocks
Interval == {i \in Position \X Position : i[1] < i[2]}

Bytes(i) == i[1] .. i[2] - 1
Size(i) == i[2] - i[1]
AllBytes(F) == UNION {Bytes(i) : i \in F}
AlignUp(v) == ((v + SPLIT_ALIGN - 1) \div SPLIT_ALIGN) * SPLIT_ALIGN

\* Where a claim may be split.
SplitPoint == {AlignUp(p) : p \in Position} \ {0}

(***************************************************************************)
(* The maximal intervals of S: what gaps_in finds around the completed     *)
(* ranges, and what merge_free makes of intervals that touch or overlap.   *)
(***************************************************************************)
Spans(S) ==
  {i \in Interval : Bytes(i) \subseteq S /\ i[1] - 1 \notin S /\ i[2] \notin S}

MergeFree(F) == Spans(AllBytes(F))

\* max_by_key keeps the last of equals, and the list is sorted by start.
Largest(F, i) ==
  /\ i \in F
  /\ \A j \in F : Size(j) < Size(i) \/ (Size(j) = Size(i) /\ j[1] <= i[1])

\* One round of seed(): the largest interval of F, if it is worth it, in two.
Splittable(i) ==
  LET half == AlignUp(Size(i) \div 2) IN
  Size(i) >= 2 * MIN_SEGMENT /\ half # 0 /\ half < Size(i)

Halves(i) == LET mid == i[1] + AlignUp(Size(i) \div 2) IN {<<i[1], mid>>, <<mid, i[2]>>}

SeedRound(F) ==
  {(F \ {i}) \cup Halves(i) : i \in {j \in F : Largest(F, j) /\ Splittable(j)}}
==============================================================================
