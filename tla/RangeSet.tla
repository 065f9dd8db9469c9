------------------------------- MODULE RangeSet -------------------------------
(***************************************************************************)
(* The record of the bytes on disk (swiftload-core/src/util/intervals.rs): *)
(* a sorted vector of (start, len) spans, its updates, its queries and its *)
(* encoding.  "covered" is the set of bytes the record should denote: what *)
(* the other modules use in its place.                                     *)
(***************************************************************************)
EXTENDS Integers, Sequences, FiniteSets, SequencesExt

CONSTANTS
  NBytes,      \* bound: positions used are 0 .. NBytes
  BASE,        \* of the varint digits (2^7 in the code)
  MAX_DIGITS   \* a varint of more digits overflows (10 in the code)

ASSUME RangeAssumption ==
  /\ NBytes \in Nat /\ BASE \in Nat \ {0, 1} /\ MAX_DIGITS \in Nat

Byte == 0 .. NBytes - 1
Position == 0 .. NBytes

VARIABLES spans, covered

vars == <<spans, covered>>

Start(sp) == sp[1]
End(sp) == sp[1] + sp[2]
Bytes(rs) == UNION {Start(rs[i]) .. End(rs[i]) - 1 : i \in DOMAIN rs}
Least(a, b) == IF a <= b THEN a ELSE b
Greatest(a, b) == IF a <= b THEN b ELSE a

-----------------------------------------------------------------------------
(* The updates.                                                            *)

\* Mutant: a span that only touches the new one is not merged with it.
MInsert(rs, start, len) ==
  LET end == start + len
      lo == Cardinality({i \in DOMAIN rs : End(rs[i]) <= start})
      hi == Cardinality({i \in DOMAIN rs : Start(rs[i]) < end})
      keep(from, to) == SubSeq(rs, 1, lo) \o <<<<from, to - from>>>> \o SubSeq(rs, hi + 1, Len(rs))
  IN  IF len = 0 THEN rs
      ELSE IF lo >= hi THEN SubSeq(rs, 1, lo) \o <<<<start, len>>>> \o SubSeq(rs, lo + 1, Len(rs))
      ELSE keep(Least(start, Start(rs[lo + 1])), Greatest(end, End(rs[hi])))

\* insert.  partition_point is the number of spans before the point.
Insert(rs, start, len) ==
  LET end == start + len
      lo == Cardinality({i \in DOMAIN rs : End(rs[i]) < start})
      hi == Cardinality({i \in DOMAIN rs : Start(rs[i]) <= end})
      splice(from, to) == SubSeq(rs, 1, lo) \o <<<<from, to - from>>>> \o SubSeq(rs, hi + 1, Len(rs))
  IN  IF len = 0 THEN rs
      ELSE IF lo >= hi THEN SubSeq(rs, 1, lo) \o <<<<start, len>>>> \o SubSeq(rs, lo + 1, Len(rs))
      ELSE splice(Least(start, Start(rs[lo + 1])), Greatest(end, End(rs[hi])))

\* remove: what is left of every span before and behind [start, start + len)
RemoveRange(rs, start, len) ==
  LET end == start + len
      left(sp) ==
        IF End(sp) <= start \/ Start(sp) >= end THEN <<sp>>
        ELSE (IF Start(sp) < start THEN <<<<Start(sp), start - Start(sp)>>>> ELSE <<>>)
             \o (IF End(sp) > end THEN <<<<end, End(sp) - end>>>> ELSE <<>>)
  IN  IF len = 0 THEN rs ELSE FlattenSeq([i \in DOMAIN rs |-> left(rs[i])])

TruncateTo(rs, limit) ==
  LET left(sp) ==
        IF Start(sp) >= limit THEN <<>>
        ELSE <<<<Start(sp), Least(End(sp), limit) - Start(sp)>>>>
  IN  FlattenSeq([i \in DOMAIN rs |-> left(rs[i])])

\* Mutant: only the last span is rewound.
MRewindTails(rs, margin) ==
  IF margin = 0 \/ rs = <<>> THEN rs
  ELSE LET lst == rs[Len(rs)] IN
       IF lst[2] <= margin THEN Front(rs)
       ELSE Append(Front(rs), <<Start(lst), lst[2] - margin>>)

RewindTails(rs, margin) ==
  LET left(sp) ==
        IF sp[2] <= margin THEN <<>> ELSE <<<<Start(sp), sp[2] - margin>>>>
  IN  FlattenSeq([i \in DOMAIN rs |-> left(rs[i])])

-----------------------------------------------------------------------------
(* The queries.                                                            *)

ContainsAll(rs, start, end) ==
  \/ start >= end
  \/ \E i \in DOMAIN rs : Start(rs[i]) <= start /\ end <= End(rs[i])

\* first_gap_at_or_after: <<start, end>>, or <<start>> when it is open-ended
FirstGapStep(at, sp) ==
  IF Len(at) = 2 \/ End(sp) <= at[1] THEN at
  ELSE IF Start(sp) <= at[1] THEN <<End(sp)>>
  ELSE <<at[1], Start(sp)>>

FirstGap(rs, pos) ==
  LET at[i \in 0 .. Len(rs)] == IF i = 0 THEN <<pos>> ELSE FirstGapStep(at[i - 1], rs[i])
  IN  at[Len(rs)]

\* One round of gaps_in: over means that the loop was left.
GapStep(seen, sp, end) ==
  IF seen.over \/ End(sp) <= seen.cursor THEN seen
  ELSE IF Start(sp) >= end THEN [seen EXCEPT !.over = TRUE]
  ELSE [cursor |-> Greatest(seen.cursor, End(sp)),
        gaps |-> IF Start(sp) > seen.cursor
                 THEN Append(seen.gaps, <<seen.cursor, Least(Start(sp), end) - seen.cursor>>)
                 ELSE seen.gaps,
        over |-> Greatest(seen.cursor, End(sp)) >= end]

GapScan(rs, start, end) ==
  LET seen[i \in 0 .. Len(rs)] ==
        IF i = 0 THEN [cursor |-> start, gaps |-> <<>>, over |-> FALSE]
        ELSE GapStep(seen[i - 1], rs[i], end)
  IN  seen[Len(rs)]

\* Mutant: the gap behind the last span is forgotten.
MGapsIn(rs, start, end) == IF start >= end THEN <<>> ELSE GapScan(rs, start, end).gaps

GapsIn(rs, start, end) ==
  LET seen == GapScan(rs, start, end)
  IN  IF start >= end THEN <<>>
      ELSE IF seen.cursor < end THEN Append(seen.gaps, <<seen.cursor, end - seen.cursor>>)
      ELSE seen.gaps

-----------------------------------------------------------------------------
(* The encoding: for each span its distance from the one before and its    *)
(* length, as varints.  A digit of a varint says whether more follow.      *)

\* put_varint: the digits from the lowest, until the rest of v is a digit itself.
PutVarint(v) ==
  LET rest[k \in Nat] == IF k = 0 THEN v ELSE rest[k - 1] \div BASE
      last == CHOOSE k \in 0 .. v : rest[k] < BASE /\ \A j \in 0 .. k - 1 : rest[j] >= BASE
  IN  [k \in 1 .. last + 1 |-> [digit |-> rest[k - 1] % BASE, more |-> k <= last]]

\* Mutant: the distance is taken from the start of the span before.
MEncode(rs) ==
  LET prev(i) == IF i = 1 THEN 0 ELSE Start(rs[i - 1]) IN
  FlattenSeq([i \in DOMAIN rs |-> PutVarint(Start(rs[i]) - prev(i)) \o PutVarint(rs[i][2])])

Encode(rs) ==
  LET prev(i) == IF i = 1 THEN 0 ELSE End(rs[i - 1]) IN
  FlattenSeq([i \in DOMAIN rs |-> PutVarint(Start(rs[i]) - prev(i)) \o PutVarint(rs[i][2])])

\* What a digit is worth: 1 << shift, for the k digits before it.
Place[k \in Nat] == IF k = 0 THEN 1 ELSE BASE * Place[k - 1]

\* A position always fits: in the code, 64 bits in ten digits of seven.
ASSUME DigitsSuffice == NBytes < Place[MAX_DIGITS]

\* decode between two bytes: the spans so far and where the last one ended, the
\* number it reads and, while that is a length, the distance read before it.
Fresh == [error |-> "", spans |-> <<>>, prev |-> 0, reads |-> "gap", gap |-> 0,
          value |-> 0, digits |-> 0]

\* One byte of get_varint, and what decode makes of the last one of a number.
TakeByte(st, b) ==
  LET v == st.value + b.digit * Place[st.digits] IN
  IF st.error # "" THEN st
  ELSE IF st.digits >= MAX_DIGITS THEN [st EXCEPT !.error = "overflow"]
  ELSE IF b.more THEN [st EXCEPT !.value = v, !.digits = @ + 1]
  ELSE IF st.reads = "gap" THEN [st EXCEPT !.reads = "len", !.gap = v, !.value = 0, !.digits = 0]
  ELSE IF v = 0 THEN [st EXCEPT !.error = "zero-length"]
  ELSE [Fresh EXCEPT !.spans = Append(st.spans, <<st.prev + st.gap, v>>),
                     !.prev = st.prev + st.gap + v]

Decode(bytes) ==
  LET st[i \in 0 .. Len(bytes)] == IF i = 0 THEN Fresh ELSE TakeByte(st[i - 1], bytes[i])
      end == st[Len(bytes)]
  IN  IF end.error # "" THEN [error |-> end.error]
      ELSE IF end.reads = "len" \/ end.digits > 0 THEN [error |-> "truncated"]
      ELSE [error |-> "", spans |-> end.spans]

-----------------------------------------------------------------------------
(* Every sequence of updates.                                              *)

Init == spans = <<>> /\ covered = {}

DoInsert(start, len) ==
  /\ spans' = Insert(spans, start, len)
  /\ covered' = covered \cup (start .. start + len - 1)

DoRemove(start, len) ==
  /\ spans' = RemoveRange(spans, start, len)
  /\ covered' = covered \ (start .. start + len - 1)

DoTruncate(limit) ==
  /\ spans' = TruncateTo(spans, limit)
  /\ covered' = {b \in covered : b < limit}

\* What Writer.tla says of a rewind: a byte stays when the margin behind it is
\* covered too.
DoRewind(margin) ==
  /\ spans' = RewindTails(spans, margin)
  /\ covered' = {b \in covered : \A k \in 0 .. margin : b + k \in covered}

\* A checkpoint is written and a resume reads it back.
DoReload ==
  /\ Decode(Encode(spans)).error = ""
  /\ spans' = Decode(Encode(spans)).spans
  /\ UNCHANGED covered

Next ==
  \/ \E start, len \in Position :
       start + len <= NBytes /\ (DoInsert(start, len) \/ DoRemove(start, len))
  \/ \E limit \in Position : DoTruncate(limit)
  \/ \E margin \in Position : DoRewind(margin)
  \/ DoReload

Spec == Init /\ [][Next]_vars

-----------------------------------------------------------------------------
(* What makes the record correct.                                          *)

(***************************************************************************)
(* The canonical form on which contains_all, insert and encode rest        *)
(* (intervals.rs:7-11: sorted, disjoint, non-adjacent, no empty span).     *)
(***************************************************************************)
CanonicalForm(rs) ==
  /\ rs \in Seq(Position \X Position)
  /\ \A i \in DOMAIN rs : rs[i][2] > 0 /\ End(rs[i]) <= NBytes
  /\ \A i \in 1 .. Len(rs) - 1 : End(rs[i]) < Start(rs[i + 1])

Canonical == CanonicalForm(spans)

(***************************************************************************)
(* The spans denote the bytes that went in and were not taken out: no      *)
(* update, and no trip through the store, gains or loses one.              *)
(***************************************************************************)
DenotesCovered == Bytes(spans) = covered

(***************************************************************************)
(* The check that lets a download be published (mod.rs:313) is true of     *)
(* exactly the windows whose every byte is there; the gaps the planner     *)
(* starts from (plan.rs:108) and the covered bytes tile every window, and  *)
(* the gaps are maximal: ClaimPlan.tla's Spans.                            *)
(***************************************************************************)
QueriesAreExact ==
  \A a, b \in Position :
    LET gaps == GapsIn(spans, a, b) IN
    /\ ContainsAll(spans, a, b) <=> a .. b - 1 \subseteq covered
    /\ Bytes(gaps) = (a .. b - 1) \ covered
    /\ \A i \in 1 .. Len(gaps) - 1 : End(gaps[i]) < Start(gaps[i + 1])
    /\ a < b /\ gaps # <<>> /\ Head(gaps)[1] < b =>
         LET first == FirstGap(spans, a) IN
         first[1] = Head(gaps)[1]
           /\ (Len(first) = 2 => Least(first[2], b) = End(Head(gaps)))

(***************************************************************************)
(* A checkpoint reads back as what was written, and a torn one is refused  *)
(* or claims less, never more (intervals.rs:218).                          *)
(***************************************************************************)
ReloadIsFaithful ==
  LET bytes == Encode(spans) IN
  /\ Decode(bytes) = [error |-> "", spans |-> spans]
  /\ \A n \in 0 .. Len(bytes) :
       LET torn == Decode(SubSeq(bytes, 1, n)) IN
       torn.error = "" => Bytes(torn.spans) \subseteq covered
=============================================================================
