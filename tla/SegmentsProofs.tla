--------------------------- MODULE SegmentsProofs ----------------------------
(***************************************************************************)
(* The arithmetic of the plan loses no byte: merging the unclaimed         *)
(* intervals and splitting one of them leave the set of their bytes as it  *)
(* was, for every file, alignment and smallest segment.                    *)
(***************************************************************************)
EXTENDS Segments, FiniteSets, FiniteSetTheorems, WellFoundedInduction, TLAPS

(***************************************************************************)
(* A set of natural numbers that is not empty has a least element.         *)
(***************************************************************************)
LEMMA LeastNat ==
  ASSUME NEW S \in SUBSET Nat, S # {}
  PROVE  \E m \in S : \A n \in S : m <= n
<1> DEFINE R == OpToRel(<, Nat)
<1>1. IsWellFoundedOn(R, Nat)
  BY NatLessThanWellFounded, Zenon
<1>2. \A m, n \in Nat : n < m => <<n, m>> \in R
  BY Zenon DEF OpToRel
<1> HIDE DEF R
<1>3. PICK m \in S : \A n \in S : <<n, m>> \notin R
  BY <1>1, WFMin, Zenon
<1>4. \A n \in S : ~(n < m)
  BY <1>2, <1>3
<1> QED BY <1>3, <1>4

(***************************************************************************)
(* The maximal intervals of a set of blocks hold its blocks and no others. *)
(***************************************************************************)
LEMMA SpansCover ==
  ASSUME NEW S \in SUBSET Block
  PROVE  AllBytes(Spans(S)) = S
<1>1. AllBytes(Spans(S)) \subseteq S
  BY DEF AllBytes, Spans
<1>2. ASSUME NEW b \in S
      PROVE  \E i \in Spans(S) : b \in Bytes(i)
  <2> NBlocks \in Nat /\ b \in Nat /\ b < NBlocks
    BY SegmentsAssumption DEF Block
  <2> DEFINE L == {a \in 0 .. b : a .. b \subseteq S}
             U == {d \in Nat : \E c \in Position : d = NBlocks - c /\ b < c /\ b .. c - 1 \subseteq S}
  <2>1. b \in L
    OBVIOUS
  <2>2. NBlocks - (b + 1) \in U
    <3>1. b .. (b + 1) - 1 \subseteq S
      OBVIOUS
    <3> QED BY <3>1 DEF Position
  <2>3. PICK a \in L : \A n \in L : a <= n
    <3>1. L \in SUBSET Nat /\ L # {}
      BY <2>1
    <3> HIDE DEF L
    <3> QED BY <3>1, LeastNat
  <2>4. PICK d \in U : \A n \in U : d <= n
    <3>1. U \in SUBSET Nat /\ U # {}
      BY <2>2
    <3> HIDE DEF U
    <3> QED BY <3>1, LeastNat
  <2>5. PICK c \in Position : d = NBlocks - c /\ b < c /\ b .. c - 1 \subseteq S
    BY <2>4
  <2>6. a \in Nat /\ a <= b /\ a .. b \subseteq S /\ c \in Nat /\ c <= NBlocks
    BY <2>3, <2>5 DEF Position
  <2>7. a - 1 \notin S
    <3> SUFFICES ASSUME a - 1 \in S PROVE FALSE
      OBVIOUS
    <3>1. a - 1 \in Nat
      BY DEF Block
    <3>2. (a - 1) .. b \subseteq S
      BY <2>6
    <3>3. a - 1 \in L
      BY <2>6, <3>1, <3>2
    <3> QED BY <2>3, <2>6, <3>3
  <2>8. c \notin S
    <3> SUFFICES ASSUME c \in S PROVE FALSE
      OBVIOUS
    <3>1. c + 1 \in Position /\ b < c + 1
      BY <2>5, <2>6 DEF Block, Position
    <3>2. b .. (c + 1) - 1 \subseteq S
      BY <2>5, <2>6
    <3>3. NBlocks - (c + 1) \in U
      BY <3>1, <3>2 DEF Position
    <3> QED BY <2>4, <2>5, <2>6, <3>3
  <2>9. a .. c - 1 \subseteq S
    BY <2>5, <2>6
  <2>10. <<a, c>> \in Spans(S)
    BY <2>5, <2>6, <2>7, <2>8, <2>9 DEF Spans, Interval, Position, Bytes
  <2> QED BY <2>5, <2>6, <2>10 DEF Bytes
<1> QED BY <1>1, <1>2 DEF AllBytes

(***************************************************************************)
(* merge_free keeps every unclaimed byte and invents none.                 *)
(***************************************************************************)
LEMMA MergeKeepsBytes ==
  ASSUME NEW F, AllBytes(F) \subseteq Block
  PROVE  AllBytes(MergeFree(F)) = AllBytes(F) /\ MergeFree(F) \subseteq Interval
BY SpansCover DEF MergeFree, Spans

(***************************************************************************)
(* A position rounded up is a position.                                    *)
(***************************************************************************)
LEMMA AlignUpType ==
  ASSUME NEW v \in Nat
  PROVE  AlignUp(v) \in Nat
<1> DEFINE q == (v + SPLIT_ALIGN - 1) \div SPLIT_ALIGN
<1>1. q \in Nat
  BY SegmentsAssumption
<1>2. \A x, y \in Nat : x * y \in Nat
  OBVIOUS
<1> HIDE DEF q
<1>3. q * SPLIT_ALIGN \in Nat
  BY <1>1, <1>2, SegmentsAssumption
<1> QED BY <1>3 DEF AlignUp, q

(***************************************************************************)
(* Aligning never goes back.                                               *)
(***************************************************************************)
LEMMA AlignUpGrows ==
  ASSUME NEW v \in Nat
  PROVE  v <= AlignUp(v)
<1> DEFINE n == v + SPLIT_ALIGN - 1
           q == n \div SPLIT_ALIGN
<1>1. n \in Nat /\ q \in Nat /\ SPLIT_ALIGN \in Nat \ {0}
  BY SegmentsAssumption
<1>2. n < (q + 1) * SPLIT_ALIGN
  BY <1>1
<1> HIDE DEF q
<1>3. (q + 1) * SPLIT_ALIGN = q * SPLIT_ALIGN + SPLIT_ALIGN
  BY <1>1
<1>4. q * SPLIT_ALIGN \in Nat /\ q * SPLIT_ALIGN = AlignUp(v)
  BY AlignUpType DEF AlignUp, q
<1> QED BY <1>1, <1>2, <1>3, <1>4

(***************************************************************************)
(* The bytes of an interval are blocks.                                    *)
(***************************************************************************)
LEMMA BytesAreBlocks ==
  ASSUME NEW a \in Position, NEW c \in Position
  PROVE  Bytes(<<a, c>>) \subseteq Block
BY SegmentsAssumption DEF Bytes, Position, Block

(***************************************************************************)
(* A round of seed() splits an interval into two that have all its bytes.  *)
(***************************************************************************)
LEMMA SeedKeepsBytes ==
  ASSUME NEW F \in SUBSET Interval, NEW G \in SeedRound(F)
  PROVE  G \subseteq Interval /\ AllBytes(F) \subseteq AllBytes(G)
<1>1. PICK i \in F : Splittable(i) /\ G = (F \ {i}) \cup Halves(i)
  BY DEF SeedRound
<1> DEFINE half == AlignUp(Size(i) \div 2)
           mid == i[1] + half
<1>2. i[1] \in Nat /\ i[2] \in Nat /\ i[1] < i[2] /\ i[2] <= NBlocks /\ i = <<i[1], i[2]>>
  BY SegmentsAssumption DEF Interval, Position
<1>3. half \in Nat
  BY <1>2, AlignUpType DEF Size
<1>4. half # 0 /\ half < Size(i)
  BY <1>1 DEF Splittable
<1> HIDE DEF half
<1>5. i[1] < mid /\ mid < i[2] /\ mid \in Nat
  BY <1>2, <1>3, <1>4 DEF Size
<1>6. Halves(i) = {<<i[1], mid>>, <<mid, i[2]>>}
  BY DEF Halves, half
<1> HIDE DEF mid
<1>7. G \subseteq Interval
  BY <1>1, <1>2, <1>5, <1>6, SegmentsAssumption DEF Interval, Position
<1>8. Bytes(i) \subseteq AllBytes(Halves(i))
  BY <1>2, <1>5, <1>6 DEF Bytes, AllBytes
<1>9. AllBytes(F) \subseteq AllBytes(G)
  BY <1>1, <1>8 DEF AllBytes
<1> QED BY <1>7, <1>9

Apart(F) == \A i, j \in F : i # j => Bytes(i) \cap Bytes(j) = {}

(***************************************************************************)
(* Two maximal intervals that share a byte are one.                        *)
(***************************************************************************)
LEMMA SpansApart ==
  ASSUME NEW S
  PROVE  Apart(Spans(S))
<1> SUFFICES ASSUME NEW i \in Spans(S), NEW j \in Spans(S), NEW b \in Bytes(i) \cap Bytes(j)
             PROVE  i = j
  BY DEF Apart
<1>1. /\ i[1] \in Nat /\ i[2] \in Nat /\ j[1] \in Nat /\ j[2] \in Nat
      /\ i = <<i[1], i[2]>> /\ j = <<j[1], j[2]>>
  BY SegmentsAssumption DEF Spans, Interval, Position
<1>2. b \in Int /\ i[1] <= b /\ b < i[2] /\ j[1] <= b /\ b < j[2]
  BY <1>1 DEF Bytes
<1>3. /\ i[1] .. i[2] - 1 \subseteq S /\ i[1] - 1 \notin S /\ i[2] \notin S
      /\ j[1] .. j[2] - 1 \subseteq S /\ j[1] - 1 \notin S /\ j[2] \notin S
  BY DEF Spans, Bytes
<1>4. i[1] = j[1]
  <2>1. ~(i[1] < j[1])
    BY <1>1, <1>2, <1>3
  <2>2. ~(j[1] < i[1])
    BY <1>1, <1>2, <1>3
  <2> QED BY <1>1, <2>1, <2>2
<1>5. i[2] = j[2]
  <2>1. ~(i[2] < j[2])
    BY <1>1, <1>2, <1>3
  <2>2. ~(j[2] < i[2])
    BY <1>1, <1>2, <1>3
  <2> QED BY <1>1, <2>1, <2>2
<1> QED BY <1>1, <1>4, <1>5

(***************************************************************************)
(* A round of seed() leaves one interval more, and still no two that share *)
(* a byte.                                                                 *)
(***************************************************************************)
LEMMA SeedRoundAdds ==
  ASSUME NEW F \in SUBSET Interval, Apart(F), NEW G \in SeedRound(F)
  PROVE  Apart(G) /\ Cardinality(G) = Cardinality(F) + 1 /\ IsFiniteSet(F)
<1>1. PICK i \in F : Splittable(i) /\ G = (F \ {i}) \cup Halves(i)
  BY DEF SeedRound
<1> DEFINE half == AlignUp(Size(i) \div 2)
           mid == i[1] + half
           low == <<i[1], mid>>
           high == <<mid, i[2]>>
<1>2. i[1] \in Nat /\ i[2] \in Nat /\ i[1] < i[2] /\ i = <<i[1], i[2]>>
  BY SegmentsAssumption DEF Interval, Position
<1>3. half \in Nat
  BY <1>2, AlignUpType DEF Size
<1>4. half # 0 /\ half < Size(i)
  BY <1>1 DEF Splittable
<1> HIDE DEF half
<1>5. i[1] < mid /\ mid < i[2] /\ mid \in Nat
  BY <1>2, <1>3, <1>4 DEF Size
<1>6. Halves(i) = {low, high}
  BY DEF Halves, half
<1> HIDE DEF mid
<1>7. /\ Bytes(low) \subseteq Bytes(i) /\ Bytes(high) \subseteq Bytes(i)
      /\ Bytes(low) \cap Bytes(high) = {}
      /\ i[1] \in Bytes(low) /\ mid \in Bytes(high)
  BY <1>2, <1>5 DEF Bytes
<1>8. low # i /\ high # i /\ low # high
  BY <1>2, <1>5
<1> HIDE DEF low, high
<1>9. low \notin F /\ high \notin F
  BY <1>7, <1>8 DEF Apart
<1>10. Apart(G)
  BY <1>1, <1>6, <1>7 DEF Apart
<1>11. IsFiniteSet(F)
  <2>1. IsFiniteSet(Position)
    BY FS_Interval, SegmentsAssumption DEF Position
  <2>2. IsFiniteSet(Position \X Position)
    BY <2>1, FS_Product
  <2>3. F \subseteq Position \X Position
    BY DEF Interval
  <2> QED BY <2>2, <2>3, FS_Subset
<1>12. Cardinality(G) = Cardinality(F) + 1
  <2>1. /\ IsFiniteSet(F \ {i}) /\ Cardinality(F \ {i}) = Cardinality(F) - 1
        /\ Cardinality(F) \in Nat
    BY <1>11, FS_RemoveElement, FS_CardinalityType
  <2>2. /\ IsFiniteSet((F \ {i}) \cup {low})
        /\ Cardinality((F \ {i}) \cup {low}) = Cardinality(F)
    <3> DEFINE X == F \ {i}
    <3>1. IsFiniteSet(X) /\ low \notin X /\ Cardinality(X) + 1 = Cardinality(F)
      BY <1>9, <2>1
    <3> HIDE DEF X
    <3>2. IsFiniteSet(X \cup {low}) /\ Cardinality(X \cup {low}) = Cardinality(F)
      BY <3>1, FS_AddElement
    <3> QED BY <3>2 DEF X
  <2>3. Cardinality(((F \ {i}) \cup {low}) \cup {high}) = Cardinality(F) + 1
    BY <1>8, <1>9, <2>2, FS_AddElement
  <2>4. G = ((F \ {i}) \cup {low}) \cup {high}
    BY <1>1, <1>6
  <2> QED BY <2>3, <2>4
<1> QED BY <1>10, <1>11, <1>12
=============================================================================
