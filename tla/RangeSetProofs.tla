--------------------------- MODULE RangeSetProofs ----------------------------
(***************************************************************************)
(* The record of the bytes on disk: whatever it goes through, it stays     *)
(* canonical and denotes exactly the bytes that went in and were not taken *)
(* out; its queries answer exactly; and what is written of it reads back.  *)
(***************************************************************************)
EXTENDS RangeSet, FiniteSetTheorems, SequenceTheorems, WellFoundedInduction, TLAPS

-----------------------------------------------------------------------------
(* Loops.                                                                  *)

(***************************************************************************)
(* Induction over the natural numbers, for a set of them.                  *)
(***************************************************************************)
LEMMA Induct ==
  ASSUME NEW S, 0 \in S, \A n \in Nat : n \in S => n + 1 \in S
  PROVE  \A n \in Nat : n \in S
<1> DEFINE R == OpToRel(<, Nat)
           D == Nat \ S
<1>1. IsWellFoundedOn(R, Nat)
  BY NatLessThanWellFounded, Zenon
<1>2. \A m, n \in Nat : n < m => <<n, m>> \in R
  BY Zenon DEF OpToRel
<1> HIDE DEF R
<1> SUFFICES ASSUME D # {} PROVE FALSE
  OBVIOUS
<1>3. PICK m \in D : \A n \in D : <<n, m>> \notin R
  <2>1. D \in SUBSET Nat
    OBVIOUS
  <2> HIDE DEF D
  <2> QED BY <1>1, <2>1, WFMin, Zenon
<1>4. m \in Nat /\ m # 0 /\ m - 1 \in Nat /\ m - 1 < m
  BY <1>3
<1>5. m - 1 \in D
  BY <1>3, <1>4
<1> QED BY <1>2, <1>3, <1>4, <1>5

\* The runs of a loop over A: it begins with start, and f is what a round does.
Runs(A, start, f) ==
  {s \in [Nat -> A] : s[0] = start /\ \A i \in Nat : s[i + 1] = f[i + 1][s[i]]}

(***************************************************************************)
(* Every loop has a run.                                                   *)
(***************************************************************************)
LEMMA LoopRuns ==
  ASSUME NEW A, NEW start \in A, NEW f \in [Nat -> [A -> A]]
  PROVE  Runs(A, start, f) # {}
<1> DEFINE Begun(n, g) == /\ g \in [0 .. n -> A] /\ g[0] = start
                         /\ \A i \in 0 .. n - 1 : g[i + 1] = f[i + 1][g[i]]
           S == {n \in Nat : \E g \in [0 .. n -> A] : Begun(n, g)}
<1>1. \A n \in Nat : n \in S
  <2>1. 0 \in S
    <3>1. Begun(0, [i \in 0 .. 0 |-> start])
      OBVIOUS
    <3> QED BY <3>1
  <2>2. ASSUME NEW n \in Nat, n \in S PROVE n + 1 \in S
    <3>1. PICK g \in [0 .. n -> A] : Begun(n, g)
      BY <2>2
    <3> DEFINE h == [i \in 0 .. n + 1 |-> IF i = n + 1 THEN f[n + 1][g[n]] ELSE g[i]]
    <3>2. Begun(n + 1, h)
      <4>1. h \in [0 .. n + 1 -> A]
        BY <3>1
      <4>2. h[0] = start
        BY <3>1
      <4>3. ASSUME NEW i \in 0 .. n PROVE h[i + 1] = f[i + 1][h[i]]
        <5>1. CASE i = n
          BY <5>1
        <5>2. CASE i # n
          <6>1. i \in 0 .. n - 1 /\ i + 1 \in 0 .. n
            BY <5>2
          <6>2. h[i + 1] = g[i + 1] /\ h[i] = g[i]
            BY <6>1
          <6> QED BY <3>1, <6>1, <6>2
        <5> QED BY <5>1, <5>2
      <4>4. (n + 1) - 1 = n
        OBVIOUS
      <4> HIDE DEF h
      <4> QED BY <4>1, <4>2, <4>3, <4>4
    <3>3. h \in [0 .. n + 1 -> A]
      BY <3>2
    <3> HIDE DEF h, Begun
    <3> QED BY <3>2, <3>3
  <2> HIDE DEF S
  <2> QED BY <2>1, <2>2, Induct
<1>2. ASSUME NEW n \in Nat, NEW m \in Nat, n <= m,
             NEW g, Begun(n, g), NEW h, Begun(m, h)
      PROVE  g[n] = h[n]
  <2> DEFINE T == {i \in Nat : i <= n => g[i] = h[i]}
  <2>1. 0 \in T
    BY <1>2
  <2>2. ASSUME NEW i \in Nat, i \in T PROVE i + 1 \in T
    <3> SUFFICES ASSUME i + 1 <= n PROVE g[i + 1] = h[i + 1]
      OBVIOUS
    <3>1. i \in 0 .. n - 1 /\ i \in 0 .. m - 1 /\ g[i] = h[i]
      BY <1>2, <2>2
    <3> QED BY <1>2, <3>1
  <2>3. \A i \in Nat : i \in T
    <3> HIDE DEF T
    <3> QED BY <2>1, <2>2, Induct
  <2> QED BY <2>3
<1> DEFINE run(n) == CHOOSE g \in [0 .. n -> A] : Begun(n, g)
           s == [n \in Nat |-> run(n)[n]]
<1>3. ASSUME NEW n \in Nat PROVE Begun(n, run(n))
  BY <1>1
<1> HIDE DEF run
<1>4. s \in [Nat -> A]
  BY <1>3
<1>5. s[0] = start
  BY <1>3
<1>6. ASSUME NEW n \in Nat PROVE s[n + 1] = f[n + 1][s[n]]
  <2>1. Begun(n, run(n)) /\ Begun(n + 1, run(n + 1))
    BY <1>3
  <2>2. run(n + 1)[n] = run(n)[n]
    <3> HIDE DEF Begun
    <3> QED BY <1>2, <2>1
  <2> QED BY <2>1, <2>2
<1> QED BY <1>4, <1>5, <1>6 DEF Runs

\* The runs of a loop of n rounds.
RunsTo(n, A, start, f) ==
  {s \in [0 .. n -> A] : s[0] = start /\ \A i \in 1 .. n : s[i] = f[i][s[i - 1]]}

(***************************************************************************)
(* A loop of n rounds has a run.                                           *)
(***************************************************************************)
LEMMA LoopRunsTo ==
  ASSUME NEW A, NEW start \in A, NEW n \in Nat, NEW f \in [1 .. n -> [A -> A]]
  PROVE  RunsTo(n, A, start, f) # {}
<1> DEFINE h == [i \in Nat |-> IF i \in 1 .. n THEN f[i] ELSE [a \in A |-> a]]
<1>1. h \in [Nat -> [A -> A]]
  OBVIOUS
<1>2. \A i \in 1 .. n : h[i] = f[i]
  OBVIOUS
<1> HIDE DEF h
<1>3. PICK r \in [Nat -> A] : r[0] = start /\ \A i \in Nat : r[i + 1] = h[i + 1][r[i]]
  <2>1. Runs(A, start, h) # {}
    BY <1>1, LoopRuns
  <2> QED BY <2>1, Zenon DEF Runs
<1> DEFINE s == [i \in 0 .. n |-> r[i]]
<1>4. s \in [0 .. n -> A] /\ s[0] = start
  BY <1>3
<1>5. ASSUME NEW i \in 1 .. n PROVE s[i] = f[i][s[i - 1]]
  <2>1. i - 1 \in Nat /\ (i - 1) + 1 = i /\ i - 1 \in 0 .. n /\ i \in 0 .. n
    OBVIOUS
  <2>2. r[i] = h[i][r[i - 1]]
    BY <1>3, <2>1
  <2>3. s[i] = r[i] /\ s[i - 1] = r[i - 1]
    BY <2>1
  <2> QED BY <1>2, <2>2, <2>3
<1> QED BY <1>4, <1>5 DEF RunsTo

(***************************************************************************)
(* The loops that push the pieces left of every span.                      *)
(***************************************************************************)
LEMMA JoinRuns ==
  ASSUME NEW T, NEW p \in Seq(Seq(T))
  PROVE  \E out \in [0 .. Len(p) -> Seq(T)] :
           /\ out[0] = <<>> /\ FlattenSeq(p) = out[Len(p)]
           /\ \A i \in 1 .. Len(p) : out[i] = out[i - 1] \o p[i]
<1> DEFINE n == Len(p)
           A == Seq(T)
           f == [i \in 1 .. n |-> [q \in A |-> q \o p[i]]]
<1>1. n \in Nat /\ \A i \in 1 .. n : p[i] \in A
  OBVIOUS
<1>2. /\ <<>> \in A /\ \A q, r \in A : q \o r \in A
      /\ \A q \in A : <<>> \o q = q
  OBVIOUS
<1>3. n = 0 => FlattenSeq(p) = <<>>
  BY DEF FlattenSeq
<1> DEFINE body(g) == [i \in 1 .. n |-> IF i = 1 THEN p[i] ELSE g[i - 1] \o p[i]]
           flatten == CHOOSE g : g = body(g)
<1>4. n # 0 => FlattenSeq(p) = flatten[n]
  BY Zenon DEF FlattenSeq
<1> HIDE DEF n, A
<1>5. f \in [1 .. n -> [A -> A]]
  <2>1. ASSUME NEW i \in 1 .. n, NEW q \in A PROVE q \o p[i] \in A
    BY <1>1, <1>2
  <2> QED BY <2>1
<1>6. \A i \in 1 .. n : \A q \in A : f[i][q] = q \o p[i]
  OBVIOUS
<1> HIDE DEF f
<1>7. PICK s \in [0 .. n -> A] : s[0] = <<>> /\ \A i \in 1 .. n : s[i] = f[i][s[i - 1]]
  <2>1. RunsTo(n, A, <<>>, f) # {}
    BY <1>1, <1>2, <1>5, LoopRunsTo
  <2> QED BY <2>1, Zenon DEF RunsTo
<1>8. ASSUME NEW i \in 1 .. n PROVE s[i] = s[i - 1] \o p[i]
  <2>1. s[i - 1] \in A
    BY <1>1, <1>7
  <2> QED BY <1>6, <1>7, <2>1
<1>9. n # 0 => s[1] = p[1]
  <2> SUFFICES ASSUME n # 0 PROVE s[1] = p[1]
    OBVIOUS
  <2>1. 1 \in 1 .. n /\ 1 - 1 = 0
    BY <1>1
  <2>2. s[1] = s[1 - 1] \o p[1]
    BY <1>8, <2>1, Zenon
  <2>3. s[1] = <<>> \o p[1]
    BY <1>7, <2>1, <2>2, Zenon
  <2> QED BY <1>1, <1>2, <2>1, <2>3, Zenon
<1>10. flatten = body(flatten)
  <2> DEFINE g == [i \in 1 .. n |-> s[i]]
  <2>1. ASSUME NEW i \in 1 .. n
        PROVE  s[i] = IF i = 1 THEN p[i] ELSE g[i - 1] \o p[i]
    <3>1. CASE i = 1
      BY <1>1, <1>9, <3>1
    <3>2. CASE i # 1
      <4>1. i - 1 \in 1 .. n
        BY <1>1, <3>2
      <4> QED BY <1>8, <3>2, <4>1
    <3> QED BY <3>1, <3>2
  <2>2. g = body(g)
    BY <2>1
  <2> HIDE DEF g, body
  <2> QED BY <2>2
<1> HIDE DEF flatten
<1>11. \A i \in 1 .. n : flatten[i] = s[i]
  <2> DEFINE S == {i \in Nat : i \in 1 .. n => flatten[i] = s[i]}
  <2>1. 0 \in S
    OBVIOUS
  <2>2. ASSUME NEW i \in Nat, i \in S PROVE i + 1 \in S
    <3> SUFFICES ASSUME i + 1 \in 1 .. n PROVE flatten[i + 1] = s[i + 1]
      OBVIOUS
    <3>1. CASE i = 0
      <4>1. flatten[1] = p[1]
        BY <1>10, <3>1
      <4> QED BY <1>1, <1>9, <3>1, <4>1
    <3>2. CASE i # 0
      <4>1. i \in 1 .. n /\ (i + 1) - 1 = i /\ i + 1 # 1
        BY <1>1, <3>2
      <4>2. flatten[i] = s[i]
        BY <2>2, <4>1
      <4>3. flatten[i + 1] = flatten[(i + 1) - 1] \o p[i + 1]
        BY <1>10, <4>1
      <4>4. s[i + 1] = s[(i + 1) - 1] \o p[i + 1]
        BY <1>8, Zenon
      <4> QED BY <4>1, <4>2, <4>3, <4>4
    <3> QED BY <3>1, <3>2
  <2>3. \A i \in Nat : i \in S
    <3> HIDE DEF S
    <3> QED BY <2>1, <2>2, Induct
  <2>4. \A i \in 1 .. n : i \in Nat
    BY <1>1
  <2> QED BY <2>3, <2>4
<1>12. FlattenSeq(p) = s[n]
  BY <1>1, <1>3, <1>4, <1>7, <1>11
<1>13. \E out \in [0 .. n -> A] :
         /\ out[0] = <<>> /\ FlattenSeq(p) = out[n]
         /\ \A i \in 1 .. n : out[i] = out[i - 1] \o p[i]
  BY <1>7, <1>8, <1>12, Zenon
<1> QED BY <1>13, Zenon DEF n, A

-----------------------------------------------------------------------------
(* Canonical sequences of spans.                                           *)

\* A span of the record.
Span == Position \X Position

\* The pieces of a span.
Within(q, sp) == \A j \in DOMAIN q : Start(sp) <= Start(q[j]) /\ End(q[j]) <= End(sp)

\* All of q lies before all of r, and does not touch it.
Before(q, r) == \A i \in DOMAIN q, j \in DOMAIN r : End(q[i]) < Start(r[j])

(***************************************************************************)
(* The numbers of a canonical sequence.                                    *)
(***************************************************************************)
LEMMA SpanIs ==
  ASSUME NEW rs, CanonicalForm(rs), NEW i \in DOMAIN rs
  PROVE  /\ rs[i] \in Span /\ rs[i] = <<Start(rs[i]), rs[i][2]>>
         /\ Start(rs[i]) \in Nat /\ End(rs[i]) \in Nat /\ rs[i][2] \in Nat
         /\ Start(rs[i]) < End(rs[i]) /\ End(rs[i]) <= NBytes
         /\ End(rs[i]) = Start(rs[i]) + rs[i][2]
<1>1. rs[i] \in Span
  BY DEF CanonicalForm, Span
<1>2. rs[i][1] \in Nat /\ rs[i][2] \in Nat /\ rs[i] = <<rs[i][1], rs[i][2]>>
  BY <1>1, RangeAssumption DEF Span, Position
<1>3. rs[i][2] > 0 /\ End(rs[i]) <= NBytes
  BY DEF CanonicalForm
<1> QED BY <1>1, <1>2, <1>3 DEF Start, End

(***************************************************************************)
(* Every span ends before any later one begins.                            *)
(***************************************************************************)
LEMMA Ordered ==
  ASSUME NEW rs, CanonicalForm(rs), NEW i \in DOMAIN rs, NEW j \in DOMAIN rs, i < j
  PROVE  End(rs[i]) < Start(rs[j])
<1> DEFINE n == Len(rs)
<1>1. n \in Nat /\ DOMAIN rs = 1 .. n
  BY DEF CanonicalForm
<1>2. \A k \in 1 .. n - 1 : End(rs[k]) < Start(rs[k + 1])
  BY DEF CanonicalForm
<1> HIDE DEF n
<1>3. \A k \in 1 .. n : /\ Start(rs[k]) \in Nat /\ End(rs[k]) \in Nat
                        /\ Start(rs[k]) < End(rs[k])
  BY <1>1, SpanIs
<1> DEFINE S == {k \in Nat : i + 1 + k <= n => End(rs[i]) < Start(rs[i + 1 + k])}
<1>4. i \in 1 .. n /\ j \in 1 .. n /\ i \in Nat /\ j \in Nat
  BY <1>1
<1>5. 0 \in S
  BY <1>1, <1>2, <1>4
<1>6. ASSUME NEW k \in Nat, k \in S PROVE k + 1 \in S
  <2> SUFFICES ASSUME i + 1 + (k + 1) <= n PROVE End(rs[i]) < Start(rs[i + 1 + (k + 1)])
    OBVIOUS
  <2> DEFINE m == i + 1 + k
  <2>1. m \in 1 .. n - 1 /\ m \in 1 .. n /\ m + 1 \in 1 .. n /\ m + 1 = i + 1 + (k + 1)
    BY <1>1, <1>4
  <2>2. End(rs[i]) < Start(rs[m])
    BY <1>6, <2>1
  <2> HIDE DEF m
  <2>3. End(rs[m]) < Start(rs[m + 1])
    BY <1>2, <2>1
  <2>4. End(rs[i]) < Start(rs[m + 1])
    BY <1>3, <1>4, <2>1, <2>2, <2>3
  <2> QED BY <2>1, <2>4
<1>7. \A k \in Nat : k \in S
  <2> HIDE DEF S
  <2> QED BY <1>5, <1>6, Induct
<1>8. j - (i + 1) \in Nat /\ i + 1 + (j - (i + 1)) = j
  BY <1>4
<1> QED BY <1>4, <1>7, <1>8

(***************************************************************************)
(* A byte is covered when it lies in one of the spans.                     *)
(***************************************************************************)
LEMMA BytesAre ==
  ASSUME NEW rs, CanonicalForm(rs), NEW b
  PROVE  b \in Bytes(rs) <=>
           b \in Nat /\ \E i \in DOMAIN rs : Start(rs[i]) <= b /\ b < End(rs[i])
<1>1. \A i \in DOMAIN rs : Start(rs[i]) \in Nat /\ End(rs[i]) \in Nat
  BY SpanIs
<1>2. \A i \in DOMAIN rs :
        b \in Start(rs[i]) .. End(rs[i]) - 1 <=>
          b \in Nat /\ Start(rs[i]) <= b /\ b < End(rs[i])
  BY <1>1
<1> QED BY <1>2 DEF Bytes

(***************************************************************************)
(* A span of two sequences together is one of the first or of the second.  *)
(***************************************************************************)
LEMMA ConcatAt ==
  ASSUME NEW q, CanonicalForm(q), NEW r, CanonicalForm(r), NEW j \in DOMAIN (q \o r)
  PROVE  \/ j \in DOMAIN q /\ (q \o r)[j] = q[j]
         \/ j - Len(q) \in DOMAIN r /\ (q \o r)[j] = r[j - Len(q)]
<1>1. q \in Seq(Span) /\ r \in Seq(Span)
  BY DEF CanonicalForm, Span
<1> QED BY <1>1

(***************************************************************************)
(* Two canonical sequences, one before the other, are one.                 *)
(***************************************************************************)
LEMMA Joined ==
  ASSUME NEW q, CanonicalForm(q), NEW r, CanonicalForm(r), Before(q, r)
  PROVE  CanonicalForm(q \o r) /\ Bytes(q \o r) = Bytes(q) \cup Bytes(r)
<1> DEFINE t == q \o r
           m == Len(q)
           n == Len(r)
<1>1. q \in Seq(Span) /\ r \in Seq(Span)
  BY DEF CanonicalForm, Span
<1>2. /\ m \in Nat /\ n \in Nat /\ DOMAIN q = 1 .. m /\ DOMAIN r = 1 .. n
      /\ t \in Seq(Span) /\ Len(t) = m + n /\ DOMAIN t = 1 .. m + n
      /\ \A i \in 1 .. m + n : t[i] = IF i <= m THEN q[i] ELSE r[i - m]
  BY <1>1
<1>3. /\ \A i \in 1 .. m - 1 : End(q[i]) < Start(q[i + 1])
      /\ \A i \in 1 .. n - 1 : End(r[i]) < Start(r[i + 1])
      /\ \A i \in 1 .. m : q[i][2] > 0 /\ End(q[i]) <= NBytes
      /\ \A i \in 1 .. n : r[i][2] > 0 /\ End(r[i]) <= NBytes
  BY <1>2 DEF CanonicalForm
<1>4. \A i \in 1 .. m, j \in 1 .. n : End(q[i]) < Start(r[j])
  BY <1>2 DEF Before
<1> HIDE DEF t, m, n
<1>5. \A i \in 1 .. m + n :
        \/ i \in 1 .. m /\ t[i] = q[i]
        \/ i - m \in 1 .. n /\ t[i] = r[i - m]
  BY <1>2
<1>6. \A i \in 1 .. m + n : t[i][2] > 0 /\ End(t[i]) <= NBytes
  BY <1>3, <1>5
<1>7. ASSUME NEW i \in 1 .. m + n - 1 PROVE End(t[i]) < Start(t[i + 1])
  <2>1. CASE i < m
    <3>1. i \in 1 .. m - 1 /\ t[i] = q[i] /\ t[i + 1] = q[i + 1]
      BY <1>2, <2>1
    <3> QED BY <1>3, <3>1
  <2>2. CASE i = m
    <3>1. i \in 1 .. m /\ 1 \in 1 .. n /\ t[i] = q[i] /\ t[i + 1] = r[1]
      BY <1>2, <2>2
    <3> QED BY <1>4, <3>1
  <2>3. CASE i > m
    <3>1. i - m \in 1 .. n - 1 /\ t[i] = r[i - m] /\ t[i + 1] = r[(i - m) + 1]
      <4>1. (i + 1) - m = (i - m) + 1 /\ i - m \in 1 .. n - 1 /\ i \in 1 .. m + n
              /\ i + 1 \in 1 .. m + n /\ ~(i <= m) /\ ~(i + 1 <= m)
        BY <1>2, <2>3
      <4> QED BY <1>2, <4>1
    <3> QED BY <1>3, <3>1
  <2> QED BY <1>2, <2>1, <2>2, <2>3
<1>8. CanonicalForm(t)
  BY <1>2, <1>6, <1>7 DEF CanonicalForm, Span
<1>9. \A b : b \in Bytes(t) <=> b \in Bytes(q) \/ b \in Bytes(r)
  <2> TAKE b
  <2>1. ASSUME b \in Bytes(q) PROVE b \in Bytes(t)
    <3>1. PICK i \in 1 .. m : Start(q[i]) <= b /\ b < End(q[i]) /\ b \in Nat
      BY <1>2, <2>1, BytesAre
    <3>2. i \in 1 .. m + n /\ t[i] = q[i]
      BY <1>2
    <3> QED BY <1>2, <1>8, <3>1, <3>2, BytesAre
  <2>2. ASSUME b \in Bytes(r) PROVE b \in Bytes(t)
    <3>1. PICK i \in 1 .. n : Start(r[i]) <= b /\ b < End(r[i]) /\ b \in Nat
      BY <1>2, <2>2, BytesAre
    <3>2. i + m \in 1 .. m + n /\ t[i + m] = r[i]
      BY <1>2
    <3> QED BY <1>2, <1>8, <3>1, <3>2, BytesAre
  <2>3. ASSUME b \in Bytes(t) PROVE b \in Bytes(q) \/ b \in Bytes(r)
    <3>1. PICK i \in 1 .. m + n : Start(t[i]) <= b /\ b < End(t[i]) /\ b \in Nat
      BY <1>2, <1>8, <2>3, BytesAre
    <3> QED BY <1>2, <1>5, <3>1, BytesAre
  <2> QED BY <2>1, <2>2, <2>3
<1> QED BY <1>8, <1>9 DEF t

(***************************************************************************)
(* Pieces of a span, one after another, are pieces of it.                  *)
(***************************************************************************)
LEMMA WithinBoth ==
  ASSUME NEW q, CanonicalForm(q), NEW r, CanonicalForm(r),
         NEW sp, Within(q, sp), Within(r, sp)
  PROVE  Within(q \o r, sp)
<1>1. \A j \in DOMAIN (q \o r) :
        \/ j \in DOMAIN q /\ (q \o r)[j] = q[j]
        \/ j - Len(q) \in DOMAIN r /\ (q \o r)[j] = r[j - Len(q)]
  BY ConcatAt
<1> QED BY <1>1 DEF Within

(***************************************************************************)
(* A part of a canonical sequence is canonical.                            *)
(***************************************************************************)
LEMMA Part ==
  ASSUME NEW rs, CanonicalForm(rs), NEW a \in Nat, NEW c \in Nat, 1 <= a, a <= c + 1, c <= Len(rs)
  PROVE  /\ CanonicalForm(SubSeq(rs, a, c))
         /\ DOMAIN SubSeq(rs, a, c) = 1 .. c - a + 1
         /\ \A i \in 1 .. c - a + 1 : SubSeq(rs, a, c)[i] = rs[a + i - 1]
         /\ \A b : b \in Bytes(SubSeq(rs, a, c)) <=>
              b \in Nat /\ \E i \in a .. c : Start(rs[i]) <= b /\ b < End(rs[i])
<1> DEFINE t == SubSeq(rs, a, c)
<1>1. rs \in Seq(Span) /\ DOMAIN rs = 1 .. Len(rs) /\ Len(rs) \in Nat
  BY DEF CanonicalForm, Span
<1>2. /\ t \in Seq(Span) /\ DOMAIN t = 1 .. c - a + 1 /\ Len(t) = c - a + 1
      /\ \A i \in 1 .. c - a + 1 : t[i] = rs[a + i - 1]
  BY <1>1
<1> HIDE DEF t
<1>3. \A i \in 1 .. c - a + 1 : a + i - 1 \in DOMAIN rs
  BY <1>1
<1>4. \A i \in 1 .. (c - a + 1) - 1 :
        a + i - 1 \in 1 .. Len(rs) - 1 /\ (a + i - 1) + 1 = a + (i + 1) - 1
          /\ i \in 1 .. c - a + 1 /\ i + 1 \in 1 .. c - a + 1
  BY <1>1
<1>5. \A i \in 1 .. c - a + 1 : t[i][2] > 0 /\ End(t[i]) <= NBytes
  BY <1>2, <1>3 DEF CanonicalForm
<1>6. ASSUME NEW i \in 1 .. (c - a + 1) - 1 PROVE End(t[i]) < Start(t[i + 1])
  <2>1. End(rs[a + i - 1]) < Start(rs[(a + i - 1) + 1])
    BY <1>4 DEF CanonicalForm
  <2> QED BY <1>2, <1>4, <2>1
<1>7. CanonicalForm(t)
  BY <1>2, <1>5, <1>6 DEF CanonicalForm, Span
<1>8. ASSUME NEW b
      PROVE  b \in Bytes(t) <=>
               b \in Nat /\ \E i \in a .. c : Start(rs[i]) <= b /\ b < End(rs[i])
  <2>1. ASSUME NEW i \in a .. c
        PROVE  i - a + 1 \in 1 .. c - a + 1 /\ t[i - a + 1] = rs[i]
    <3>1. i - a + 1 \in 1 .. c - a + 1 /\ a + (i - a + 1) - 1 = i
      OBVIOUS
    <3> QED BY <1>2, <3>1
  <2>2. \A i \in 1 .. c - a + 1 : a + i - 1 \in a .. c
    OBVIOUS
  <2> QED BY <1>2, <1>7, <2>1, <2>2, BytesAre
<1> QED BY <1>2, <1>7, <1>8 DEF t

(***************************************************************************)
(* What is covered without a gap lies in one span.                         *)
(***************************************************************************)
LEMMA RunIsInOneSpan ==
  ASSUME NEW rs, CanonicalForm(rs), NEW a \in Nat, NEW z \in Nat, a < z,
         \A b \in a .. z - 1 : b \in Bytes(rs)
  PROVE  \E i \in DOMAIN rs : Start(rs[i]) <= a /\ z <= End(rs[i])
<1>1. a \in Bytes(rs)
  OBVIOUS
<1>2. PICK i \in DOMAIN rs : Start(rs[i]) <= a /\ a < End(rs[i])
  BY <1>1, BytesAre
<1>3. Start(rs[i]) \in Nat /\ End(rs[i]) \in Nat
  BY SpanIs
<1>4. CASE End(rs[i]) < z
  <2>1. End(rs[i]) \in Bytes(rs)
    BY <1>2, <1>3, <1>4
  <2>2. PICK j \in DOMAIN rs : Start(rs[j]) <= End(rs[i]) /\ End(rs[i]) < End(rs[j])
    BY <2>1, BytesAre
  <2>3. Start(rs[j]) \in Nat /\ End(rs[j]) \in Nat /\ Start(rs[i]) < End(rs[i])
          /\ i \in Nat /\ j \in Nat
    <3>1. DOMAIN rs = 1 .. Len(rs) /\ Len(rs) \in Nat
      BY DEF CanonicalForm
    <3> QED BY <3>1, SpanIs
  <2>4. CASE i < j
    BY <1>3, <2>2, <2>3, <2>4, Ordered
  <2>5. CASE j < i
    <3>1. End(rs[j]) < Start(rs[i])
      BY <2>5, Ordered
    <3> QED BY <1>3, <2>2, <2>3, <3>1
  <2>6. i # j
    BY <1>3, <2>2
  <2> QED BY <2>3, <2>4, <2>5, <2>6
<1>5. CASE z <= End(rs[i])
  BY <1>2, <1>5
<1> QED BY <1>3, <1>4, <1>5

(***************************************************************************)
(* No span covers nothing.                                                 *)
(***************************************************************************)
LEMMA NoSpan == CanonicalForm(<<>>) /\ Bytes(<<>>) = {}
<1>1. <<>> \in Seq(Position \X Position) /\ DOMAIN <<>> = {} /\ Len(<<>>) = 0
  OBVIOUS
<1>2. CanonicalForm(<<>>)
  BY <1>1 DEF CanonicalForm
<1> QED BY <1>1, <1>2 DEF Bytes

(***************************************************************************)
(* One span covers its bytes.                                              *)
(***************************************************************************)
LEMMA OneSpan ==
  ASSUME NEW a \in Nat, NEW l \in Nat, l > 0, a + l <= NBytes
  PROVE  /\ CanonicalForm(<<<<a, l>>>>)
         /\ DOMAIN <<<<a, l>>>> = {1}
         /\ \A b : b \in Bytes(<<<<a, l>>>>) <=> b \in Nat /\ a <= b /\ b < a + l
<1> DEFINE t == <<<<a, l>>>>
<1>1. <<a, l>> \in Position \X Position
  BY RangeAssumption DEF Position
<1>2. t \in Seq(Position \X Position) /\ Len(t) = 1 /\ DOMAIN t = {1} /\ t[1] = <<a, l>>
  BY <1>1
<1> HIDE DEF t
<1>3. Start(t[1]) = a /\ End(t[1]) = a + l /\ t[1][2] = l
  BY <1>2 DEF Start, End
<1>4. CanonicalForm(t)
  BY <1>2, <1>3 DEF CanonicalForm
<1>5. \A b : b \in Bytes(t) <=> b \in Nat /\ a <= b /\ b < a + l
  BY <1>2, <1>3, <1>4, BytesAre
<1> QED BY <1>2, <1>4, <1>5 DEF t

(***************************************************************************)
(* A loop that pushes pieces of every span leaves a canonical sequence of  *)
(* the bytes of the pieces.                                                *)
(***************************************************************************)
LEMMA Rebuilt ==
  ASSUME NEW rs, CanonicalForm(rs), NEW p, p = [i \in DOMAIN rs |-> p[i]],
         \A i \in DOMAIN rs : CanonicalForm(p[i]) /\ Within(p[i], rs[i])
  PROVE  /\ CanonicalForm(FlattenSeq(p))
         /\ \A b : b \in Bytes(FlattenSeq(p)) <=> \E i \in DOMAIN rs : b \in Bytes(p[i])
<1> DEFINE n == Len(rs)
<1>1. n \in Nat /\ DOMAIN rs = 1 .. n
  BY DEF CanonicalForm
<1> HIDE DEF n
<1>2. p \in Seq(Seq(Span)) /\ Len(p) = n /\ DOMAIN p = DOMAIN rs
  <2>1. \A i \in 1 .. n : p[i] \in Seq(Span)
    BY <1>1 DEF CanonicalForm, Span
  <2>2. p \in [1 .. n -> Seq(Span)]
    BY <1>1, <2>1, Zenon
  <2> QED BY <1>1, <2>2
<1>3. PICK out \in [0 .. n -> Seq(Span)] :
        /\ out[0] = <<>> /\ FlattenSeq(p) = out[n]
        /\ \A i \in 1 .. n : out[i] = out[i - 1] \o p[i]
  BY <1>2, JoinRuns
<1> DEFINE Good(i) ==
      /\ CanonicalForm(out[i])
      /\ \A b : b \in Bytes(out[i]) <=> \E k \in 1 .. i : b \in Bytes(p[k])
      /\ i > 0 => \A j \in DOMAIN out[i] : End(out[i][j]) <= End(rs[i])
           S == {i \in Nat : i <= n => Good(i)}
<1>4. 0 \in S
  BY <1>3, NoSpan
<1>5. ASSUME NEW i \in Nat, i \in S PROVE i + 1 \in S
  <2> SUFFICES ASSUME i + 1 <= n PROVE Good(i + 1)
    OBVIOUS
  <2> DEFINE q == out[i]
             r == p[i + 1]
  <2>1. Good(i) /\ i + 1 \in 1 .. n /\ (i + 1) - 1 = i
    BY <1>1, <1>5
  <2>2. out[i + 1] = q \o r
    BY <1>3, <2>1
  <2>3. CanonicalForm(q) /\ CanonicalForm(r) /\ Within(r, rs[i + 1])
    BY <1>1, <2>1
  <2>4. ASSUME NEW j \in DOMAIN q
        PROVE  End(q[j]) < Start(rs[i + 1]) /\ End(q[j]) \in Nat
    <3>1. i > 0
      BY <1>3, <2>1
    <3>2. End(q[j]) <= End(rs[i])
      BY <2>1, <3>1
    <3>3. i \in DOMAIN rs /\ i + 1 \in DOMAIN rs /\ i < i + 1
      BY <1>1, <2>1, <3>1
    <3> HIDE DEF q, r, Good
    <3>4. End(rs[i]) < Start(rs[i + 1])
      BY <3>3, Ordered
    <3>5. End(rs[i]) \in Nat /\ Start(rs[i + 1]) \in Nat /\ End(q[j]) \in Nat
      BY <2>3, <3>3, SpanIs
    <3> QED BY <3>2, <3>4, <3>5
  <2>5. i + 1 \in DOMAIN rs
    BY <1>1, <2>1
  <2>6. Start(rs[i + 1]) \in Nat /\ End(rs[i + 1]) \in Nat /\ Start(rs[i + 1]) < End(rs[i + 1])
    BY <2>5, SpanIs
  <2>7. Before(q, r)
    <3> HIDE DEF q, r
    <3>1. ASSUME NEW j \in DOMAIN q, NEW k \in DOMAIN r PROVE End(q[j]) < Start(r[k])
      <4>1. Start(rs[i + 1]) <= Start(r[k]) /\ Start(r[k]) \in Nat
        BY <2>3, SpanIs DEF Within
      <4> QED BY <2>4, <2>6, <4>1
    <3> QED BY <3>1 DEF Before
  <2>8. CanonicalForm(q \o r) /\ Bytes(q \o r) = Bytes(q) \cup Bytes(r)
    BY <2>3, <2>7, Joined
  <2>9. \A b : b \in Bytes(q \o r) <=> \E k \in 1 .. i + 1 : b \in Bytes(p[k])
    <3>1. \A k : k \in 1 .. i + 1 <=> k \in 1 .. i \/ k = i + 1
      OBVIOUS
    <3>2. \A b : b \in Bytes(q) <=> \E k \in 1 .. i : b \in Bytes(p[k])
      BY <2>1
    <3> QED BY <2>8, <3>1, <3>2
  <2>10. ASSUME NEW j \in DOMAIN (q \o r) PROVE End((q \o r)[j]) <= End(rs[i + 1])
    <3>1. \/ j \in DOMAIN q /\ (q \o r)[j] = q[j]
          \/ j - Len(q) \in DOMAIN r /\ (q \o r)[j] = r[j - Len(q)]
      BY <2>3, ConcatAt
    <3>2. CASE j \in DOMAIN q /\ (q \o r)[j] = q[j]
      <4> HIDE DEF q, r
      <4> QED BY <2>4, <2>6, <3>2
    <3>3. CASE j - Len(q) \in DOMAIN r /\ (q \o r)[j] = r[j - Len(q)]
      <4> HIDE DEF q, r
      <4> QED BY <2>3, <3>3 DEF Within
    <3> QED BY <3>1, <3>2, <3>3
  <2> QED BY <2>2, <2>8, <2>9, <2>10
<1>6. \A i \in Nat : i \in S
  <2> HIDE DEF S
  <2> QED BY <1>4, <1>5, Induct
<1>7. Good(n)
  <2>1. n \in S
    BY <1>1, <1>6
  <2> HIDE DEF Good
  <2> QED BY <1>1, <2>1
<1> QED BY <1>1, <1>3, <1>7

-----------------------------------------------------------------------------
(* The updates.                                                            *)

(***************************************************************************)
(* truncate_to: the bytes below the limit stay.                            *)
(***************************************************************************)
LEMMA TruncateIs ==
  ASSUME NEW rs, CanonicalForm(rs), NEW limit \in Position
  PROVE  /\ CanonicalForm(TruncateTo(rs, limit))
         /\ Bytes(TruncateTo(rs, limit)) = {b \in Bytes(rs) : b < limit}
<1> DEFINE left(sp) == IF Start(sp) >= limit THEN <<>>
                       ELSE <<<<Start(sp), Least(End(sp), limit) - Start(sp)>>>>
           p == [i \in DOMAIN rs |-> left(rs[i])]
<1>1. limit \in Nat
  BY RangeAssumption DEF Position
<1>2. ASSUME NEW i \in DOMAIN rs
      PROVE  /\ CanonicalForm(p[i]) /\ Within(p[i], rs[i])
             /\ \A b : b \in Bytes(p[i]) <=>
                         b \in Nat /\ Start(rs[i]) <= b /\ b < End(rs[i]) /\ b < limit
  <2> DEFINE a == Start(rs[i])
             z == End(rs[i])
  <2>1. a \in Nat /\ z \in Nat /\ a < z /\ z <= NBytes
    BY SpanIs
  <2>2. p[i] = left(rs[i])
    OBVIOUS
  <2>3. CASE a >= limit
    <3>1. p[i] = <<>>
      BY <2>2, <2>3
    <3>2. CanonicalForm(p[i]) /\ Bytes(p[i]) = {} /\ Within(p[i], rs[i])
      BY <3>1, NoSpan DEF Within
    <3> HIDE DEF a, z, p
    <3>3. \A b \in Nat : ~(a <= b /\ b < limit)
      BY <1>1, <2>1, <2>3
    <3> QED BY <3>2, <3>3 DEF a, z
  <2>4. CASE a < limit
    <3> DEFINE l == Least(z, limit) - a
    <3>1. p[i] = <<<<a, l>>>>
      BY <1>1, <2>1, <2>2, <2>4
    <3> HIDE DEF a, z, p
    <3>2. /\ l \in Nat /\ l > 0 /\ a + l <= NBytes /\ a + l <= z
          /\ \A b \in Nat : b < a + l <=> b < z /\ b < limit
      BY <1>1, <2>1, <2>4, RangeAssumption DEF Least
    <3> HIDE DEF l
    <3>3. CanonicalForm(p[i]) /\ \A b : b \in Bytes(p[i]) <=> b \in Nat /\ a <= b /\ b < a + l
      BY <2>1, <3>1, <3>2, OneSpan
    <3>4. Within(p[i], rs[i])
      BY <2>1, <3>1, <3>2 DEF Within, Start, End, a, z
    <3> QED BY <3>2, <3>3, <3>4 DEF a, z
  <2> QED BY <1>1, <2>1, <2>3, <2>4
<1>3. TruncateTo(rs, limit) = FlattenSeq(p)
  BY DEF TruncateTo
<1>4. p = [i \in DOMAIN rs |-> p[i]]
  OBVIOUS
<1> HIDE DEF p
<1>5. /\ CanonicalForm(FlattenSeq(p))
      /\ \A b : b \in Bytes(FlattenSeq(p)) <=> \E i \in DOMAIN rs : b \in Bytes(p[i])
  BY <1>2, <1>4, Rebuilt
<1>6. \A b : b \in Bytes(FlattenSeq(p)) <=> b \in Bytes(rs) /\ b < limit
  BY <1>2, <1>5, BytesAre
<1> QED BY <1>3, <1>5, <1>6

(***************************************************************************)
(* rewind_tails: the bytes stay behind which the margin is covered, too.   *)
(***************************************************************************)
LEMMA RewindIs ==
  ASSUME NEW rs, CanonicalForm(rs), NEW margin \in Position
  PROVE  /\ CanonicalForm(RewindTails(rs, margin))
         /\ Bytes(RewindTails(rs, margin))
              = {b \in Bytes(rs) : \A k \in 0 .. margin : b + k \in Bytes(rs)}
<1> DEFINE left(sp) == IF sp[2] <= margin THEN <<>> ELSE <<<<Start(sp), sp[2] - margin>>>>
           p == [i \in DOMAIN rs |-> left(rs[i])]
<1>1. margin \in Nat
  BY RangeAssumption DEF Position
<1>2. ASSUME NEW i \in DOMAIN rs
      PROVE  /\ CanonicalForm(p[i]) /\ Within(p[i], rs[i])
             /\ \A b : b \in Bytes(p[i]) <=>
                         b \in Nat /\ Start(rs[i]) <= b /\ b + margin < End(rs[i])
  <2> DEFINE a == Start(rs[i])
             z == End(rs[i])
             l == rs[i][2]
  <2>1. a \in Nat /\ z \in Nat /\ l \in Nat /\ z = a + l /\ a < z /\ z <= NBytes
    BY SpanIs
  <2>2. p[i] = left(rs[i])
    OBVIOUS
  <2>3. CASE l <= margin
    <3>1. p[i] = <<>>
      BY <2>2, <2>3
    <3>2. CanonicalForm(p[i]) /\ Bytes(p[i]) = {} /\ Within(p[i], rs[i])
      BY <3>1, NoSpan DEF Within
    <3> HIDE DEF a, z, l, p
    <3>3. \A b \in Nat : ~(a <= b /\ b + margin < z)
      BY <1>1, <2>1, <2>3
    <3> QED BY <3>2, <3>3 DEF a, z
  <2>4. CASE l > margin
    <3>1. p[i] = <<<<a, l - margin>>>>
      BY <1>1, <2>1, <2>2, <2>4
    <3> HIDE DEF a, z, l, p
    <3>2. /\ l - margin \in Nat /\ l - margin > 0
          /\ a + (l - margin) <= NBytes /\ a + (l - margin) <= z
          /\ \A b \in Nat : b < a + (l - margin) <=> b + margin < z
      BY <1>1, <2>1, <2>4, RangeAssumption
    <3>3. CanonicalForm(p[i]) /\
            \A b : b \in Bytes(p[i]) <=> b \in Nat /\ a <= b /\ b < a + (l - margin)
      BY <2>1, <3>1, <3>2, OneSpan
    <3>4. Within(p[i], rs[i])
      BY <2>1, <3>1, <3>2 DEF Within, Start, End, a, z
    <3> QED BY <3>2, <3>3, <3>4 DEF a, z
  <2>5. l <= margin \/ l > margin
    BY <1>1, <2>1
  <2> HIDE DEF p, l
  <2> QED BY <2>3, <2>4, <2>5
<1>3. RewindTails(rs, margin) = FlattenSeq(p)
  BY DEF RewindTails
<1>4. p = [i \in DOMAIN rs |-> p[i]]
  OBVIOUS
<1> HIDE DEF p
<1>5. /\ CanonicalForm(FlattenSeq(p))
      /\ \A b : b \in Bytes(FlattenSeq(p)) <=> \E i \in DOMAIN rs : b \in Bytes(p[i])
  BY <1>2, <1>4, Rebuilt
<1>6. ASSUME NEW b, b \in Bytes(FlattenSeq(p))
      PROVE  b \in Bytes(rs) /\ \A k \in 0 .. margin : b + k \in Bytes(rs)
  <2>1. PICK i \in DOMAIN rs : b \in Nat /\ Start(rs[i]) <= b /\ b + margin < End(rs[i])
    BY <1>2, <1>5, <1>6
  <2>2. Start(rs[i]) \in Nat /\ End(rs[i]) \in Nat
    BY SpanIs
  <2>3. \A k \in 0 .. margin : b + k \in Nat /\ Start(rs[i]) <= b + k /\ b + k < End(rs[i])
    BY <1>1, <2>1, <2>2
  <2>4. b < End(rs[i])
    BY <1>1, <2>1, <2>2
  <2> QED BY <2>1, <2>3, <2>4, BytesAre
<1>7. ASSUME NEW b, b \in Bytes(rs), \A k \in 0 .. margin : b + k \in Bytes(rs)
      PROVE  b \in Bytes(FlattenSeq(p))
  <2>1. b \in Nat
    BY <1>7, BytesAre
  <2>2. \A c \in b .. (b + margin + 1) - 1 : c \in Bytes(rs)
    <3> TAKE c \in b .. (b + margin + 1) - 1
    <3>1. c - b \in 0 .. margin /\ b + (c - b) = c
      BY <1>1, <2>1
    <3> QED BY <1>7, <3>1
  <2>3. b + margin + 1 \in Nat /\ b < b + margin + 1
    BY <1>1, <2>1
  <2>4. PICK i \in DOMAIN rs : Start(rs[i]) <= b /\ b + margin + 1 <= End(rs[i])
    BY <2>1, <2>2, <2>3, RunIsInOneSpan
  <2>5. b + margin < End(rs[i])
    BY <1>1, <2>1, <2>4, SpanIs
  <2> QED BY <1>2, <1>5, <2>1, <2>4, <2>5
<1> QED BY <1>3, <1>5, <1>6, <1>7

(***************************************************************************)
(* How many spans lie before a point: they are the first ones.             *)
(***************************************************************************)
LEMMA PrefixCount ==
  ASSUME NEW n \in Nat, NEW S \in SUBSET (1 .. n), \A i \in S : \A j \in 1 .. i : j \in S
  PROVE  Cardinality(S) \in 0 .. n /\ S = 1 .. Cardinality(S)
<1> DEFINE Closed(X) == \A i \in X : \A j \in 1 .. i : j \in X
           T == {m \in Nat : \A X \in SUBSET (1 .. m) : Closed(X) => \E k \in 0 .. m : X = 1 .. k}
<1>1. 0 \in T
  <2>1. ASSUME NEW X \in SUBSET (1 .. 0) PROVE X = 1 .. 0
    OBVIOUS
  <2>2. 0 \in 0 .. 0
    OBVIOUS
  <2> QED BY <2>1, <2>2
<1>2. ASSUME NEW m \in Nat, m \in T PROVE m + 1 \in T
  <2> SUFFICES ASSUME NEW X \in SUBSET (1 .. m + 1), Closed(X)
               PROVE  \E k \in 0 .. m + 1 : X = 1 .. k
    OBVIOUS
  <2>1. CASE m + 1 \in X
    <3>1. X = 1 .. m + 1
      BY <2>1
    <3> QED BY <3>1
  <2>2. CASE m + 1 \notin X
    <3>1. X \in SUBSET (1 .. m)
      BY <2>2
    <3>2. PICK k \in 0 .. m : X = 1 .. k
      BY <1>2, <3>1
    <3> QED BY <3>2
  <2> QED BY <2>1, <2>2
<1>3. n \in T
  <2> HIDE DEF T
  <2> QED BY <1>1, <1>2, Induct
<1>4. PICK k \in 0 .. n : S = 1 .. k
  BY <1>3
<1>5. Cardinality(1 .. k) = k
  BY FS_Interval
<1> QED BY <1>4, <1>5

(***************************************************************************)
(* remove: the bytes outside the window stay.                              *)
(***************************************************************************)
LEMMA RemoveIs ==
  ASSUME NEW rs, CanonicalForm(rs), NEW start \in Nat, NEW len \in Nat, start + len <= NBytes
  PROVE  /\ CanonicalForm(RemoveRange(rs, start, len))
         /\ Bytes(RemoveRange(rs, start, len)) = Bytes(rs) \ (start .. start + len - 1)
<1> DEFINE end == start + len
           head(sp) == IF Start(sp) < start THEN <<<<Start(sp), start - Start(sp)>>>> ELSE <<>>
           tail(sp) == IF End(sp) > end THEN <<<<end, End(sp) - end>>>> ELSE <<>>
           left(sp) == IF End(sp) <= start \/ Start(sp) >= end THEN <<sp>>
                       ELSE head(sp) \o tail(sp)
           p == [i \in DOMAIN rs |-> left(rs[i])]
           Rest(q, i) ==
             \A b : b \in Bytes(q) <=>
                    /\ b \in Nat /\ Start(rs[i]) <= b /\ b < End(rs[i])
                    /\ b < start \/ end <= b
<1>1. start \in Nat /\ end \in Nat /\ end = start + len /\ end <= NBytes
  OBVIOUS
<1>2. CASE len = 0
  <2>1. RemoveRange(rs, start, len) = rs /\ start .. start + len - 1 = {}
    BY <1>2 DEF RemoveRange
  <2> QED BY <2>1
<1>3. CASE len # 0
  <2>1. start < end
    BY <1>3
  <2>2. RemoveRange(rs, start, len) = FlattenSeq(p)
    BY <1>3 DEF RemoveRange
  <2>3. p = [i \in DOMAIN rs |-> p[i]] /\ \A i \in DOMAIN rs : p[i] = left(rs[i])
    OBVIOUS
  <2> HIDE DEF end, p
  <2>4. ASSUME NEW i \in DOMAIN rs
        PROVE  CanonicalForm(p[i]) /\ Within(p[i], rs[i]) /\ Rest(p[i], i)
    <3> DEFINE a == Start(rs[i])
               z == End(rs[i])
    <3>1. /\ a \in Nat /\ z \in Nat /\ a < z /\ z <= NBytes
          /\ rs[i] = <<a, z - a>>
      BY SpanIs
    <3>2. CASE z <= start \/ a >= end
      <4>1. p[i] = <<<<a, z - a>>>>
        BY <2>3, <3>1, <3>2
      <4> HIDE DEF a, z
      <4>2. z - a \in Nat /\ z - a > 0 /\ a + (z - a) = z
        BY <3>1
      <4>3. CanonicalForm(p[i]) /\ \A b : b \in Bytes(p[i]) <=> b \in Nat /\ a <= b /\ b < z
        BY <3>1, <4>1, <4>2, OneSpan
      <4>4. Within(p[i], rs[i])
        BY <3>1, <4>1, <4>2 DEF Within, Start, End
      <4>5. \A b \in Nat : a <= b /\ b < z => b < start \/ end <= b
        BY <1>1, <3>1, <3>2
      <4> QED BY <4>3, <4>4, <4>5 DEF a, z
    <3>3. CASE ~(z <= start \/ a >= end)
      <4> DEFINE q == head(rs[i])
                 r == tail(rs[i])
      <4>1. p[i] = q \o r
        BY <2>3, <3>3
      <4>2. /\ CanonicalForm(q) /\ Within(q, rs[i])
            /\ \A b : b \in Bytes(q) <=> b \in Nat /\ a <= b /\ b < start
            /\ \A j \in DOMAIN q : End(q[j]) = start
        <5>1. CASE a < start
          <6>1. q = <<<<a, start - a>>>>
            BY <5>1
          <6> HIDE DEF a, z, q
          <6>2. start - a \in Nat /\ start - a > 0 /\ a + (start - a) = start /\ start <= z
                  /\ start <= NBytes
            BY <1>1, <2>1, <3>1, <3>3, <5>1, RangeAssumption
          <6>3. /\ CanonicalForm(q) /\ DOMAIN q = {1}
                /\ \A b : b \in Bytes(q) <=> b \in Nat /\ a <= b /\ b < start
            BY <3>1, <6>1, <6>2, OneSpan
          <6>4. Start(q[1]) = a /\ End(q[1]) = start
            BY <6>1, <6>2 DEF Start, End
          <6>5. Within(q, rs[i])
            BY <3>1, <6>2, <6>3, <6>4 DEF Within, a, z
          <6> QED BY <6>3, <6>4, <6>5
        <5>2. CASE ~(a < start)
          <6>1. q = <<>>
            BY <5>2
          <6> HIDE DEF a, z, q
          <6>2. \A b \in Nat : ~(a <= b /\ b < start)
            BY <1>1, <3>1, <5>2
          <6> QED BY <6>1, <6>2, NoSpan DEF Within
        <5> QED BY <5>1, <5>2
      <4>3. /\ CanonicalForm(r) /\ Within(r, rs[i])
            /\ \A b : b \in Bytes(r) <=> b \in Nat /\ end <= b /\ b < z
            /\ \A j \in DOMAIN r : Start(r[j]) = end
        <5>1. CASE z > end
          <6>1. r = <<<<end, z - end>>>>
            BY <5>1
          <6> HIDE DEF a, z, r
          <6>2. z - end \in Nat /\ z - end > 0 /\ end + (z - end) = z /\ a <= end /\ z <= NBytes
            BY <1>1, <2>1, <3>1, <3>3, <5>1
          <6>3. /\ CanonicalForm(r) /\ DOMAIN r = {1}
                /\ \A b : b \in Bytes(r) <=> b \in Nat /\ end <= b /\ b < z
            BY <1>1, <6>1, <6>2, OneSpan
          <6>4. Start(r[1]) = end /\ End(r[1]) = z
            BY <6>1, <6>2 DEF Start, End
          <6>5. Within(r, rs[i])
            BY <3>1, <6>2, <6>3, <6>4 DEF Within, a, z
          <6> QED BY <6>3, <6>4, <6>5
        <5>2. CASE ~(z > end)
          <6>1. r = <<>>
            BY <5>2
          <6> HIDE DEF a, z, r
          <6>2. \A b \in Nat : ~(end <= b /\ b < z)
            BY <1>1, <3>1, <5>2
          <6> QED BY <6>1, <6>2, NoSpan DEF Within
        <5> QED BY <5>1, <5>2
      <4> HIDE DEF q, r
      <4>4. Before(q, r)
        BY <1>1, <2>1, <4>2, <4>3 DEF Before
      <4>5. CanonicalForm(q \o r) /\ Bytes(q \o r) = Bytes(q) \cup Bytes(r)
        BY <4>2, <4>3, <4>4, Joined
      <4>6. Within(q \o r, rs[i])
        BY <4>2, <4>3, WithinBoth
      <4>7. Rest(q \o r, i)
        <5> HIDE DEF a, z
        <5>1. \A b \in Nat : /\ b < start => b < z
                             /\ end <= b => a <= b
          BY <1>1, <3>1, <3>3
        <5> QED BY <4>2, <4>3, <4>5, <5>1 DEF a, z
      <4> QED BY <4>1, <4>5, <4>6, <4>7
    <3> QED BY <3>2, <3>3
  <2>5. /\ CanonicalForm(FlattenSeq(p))
        /\ \A b : b \in Bytes(FlattenSeq(p)) <=> \E i \in DOMAIN rs : b \in Bytes(p[i])
    BY <2>3, <2>4, Rebuilt
  <2>6. \A b : b \in Bytes(FlattenSeq(p)) <=> b \in Bytes(rs) /\ (b < start \/ end <= b)
    BY <2>4, <2>5, BytesAre
  <2>7. \A b \in Nat : b < start \/ end <= b <=> b \notin start .. end - 1
    BY <1>1
  <2>8. \A b : b \in Bytes(rs) => b \in Nat
    BY BytesAre
  <2> QED BY <2>2, <2>5, <2>6, <2>7, <2>8 DEF end
<1> QED BY <1>2, <1>3

\* [from, to) put in the place of the spans from lo + 1 to hi.
Splice(rs, lo, hi, from, to) ==
  SubSeq(rs, 1, lo) \o <<<<from, to - from>>>> \o SubSeq(rs, hi + 1, Len(rs))

(***************************************************************************)
(* It is canonical if what is before and behind does not touch it.         *)
(***************************************************************************)
LEMMA Spliced ==
  ASSUME NEW rs, CanonicalForm(rs), NEW lo \in Nat, NEW hi \in Nat, lo <= hi, hi <= Len(rs),
         NEW from \in Nat, NEW to \in Nat, from < to, to <= NBytes,
         \A i \in 1 .. lo : End(rs[i]) < from,
         \A i \in hi + 1 .. Len(rs) : to < Start(rs[i])
  PROVE  /\ CanonicalForm(Splice(rs, lo, hi, from, to))
         /\ \A b : b \in Bytes(Splice(rs, lo, hi, from, to)) <=>
              /\ b \in Nat
              /\ \/ from <= b /\ b < to
                 \/ \E i \in DOMAIN rs :
                      (i <= lo \/ hi < i) /\ Start(rs[i]) <= b /\ b < End(rs[i])
<1> DEFINE n == Len(rs)
           q == SubSeq(rs, 1, lo)
           m == <<<<from, to - from>>>>
           r == SubSeq(rs, hi + 1, n)
           t == Splice(rs, lo, hi, from, to)
<1>1. n \in Nat /\ DOMAIN rs = 1 .. n
  BY DEF CanonicalForm
<1>2. /\ CanonicalForm(q) /\ DOMAIN q = 1 .. lo /\ \A i \in 1 .. lo : q[i] = rs[i]
      /\ \A b : b \in Bytes(q) <=>
           b \in Nat /\ \E i \in 1 .. lo : Start(rs[i]) <= b /\ b < End(rs[i])
  <2>1. lo - 1 + 1 = lo /\ \A i \in 1 .. lo : 1 + i - 1 = i
    OBVIOUS
  <2>2. 1 \in Nat /\ 1 <= 1 /\ 1 <= lo + 1 /\ lo <= n
    BY <1>1
  <2>3. /\ CanonicalForm(q) /\ DOMAIN q = 1 .. lo - 1 + 1
        /\ \A i \in 1 .. lo - 1 + 1 : q[i] = rs[1 + i - 1]
        /\ \A b : b \in Bytes(q) <=>
             b \in Nat /\ \E i \in 1 .. lo : Start(rs[i]) <= b /\ b < End(rs[i])
    BY <2>2, Part
  <2> HIDE DEF q
  <2> QED BY <2>1, <2>3
<1>3. /\ CanonicalForm(r) /\ DOMAIN r = 1 .. n - hi /\ \A i \in 1 .. n - hi : r[i] = rs[hi + i]
      /\ \A b : b \in Bytes(r) <=>
           b \in Nat /\ \E i \in hi + 1 .. n : Start(rs[i]) <= b /\ b < End(rs[i])
  <2>1. n - (hi + 1) + 1 = n - hi /\ \A i \in 1 .. n - hi : hi + 1 + i - 1 = hi + i
    BY <1>1
  <2>2. hi + 1 \in Nat /\ 1 <= hi + 1 /\ hi + 1 <= n + 1 /\ n <= n
    BY <1>1
  <2>3. /\ CanonicalForm(r) /\ DOMAIN r = 1 .. n - (hi + 1) + 1
        /\ \A i \in 1 .. n - (hi + 1) + 1 : r[i] = rs[hi + 1 + i - 1]
        /\ \A b : b \in Bytes(r) <=>
             b \in Nat /\ \E i \in hi + 1 .. n : Start(rs[i]) <= b /\ b < End(rs[i])
    BY <1>1, <2>2, Part
  <2> HIDE DEF r, n
  <2> QED BY <2>1, <2>3
<1>4. /\ CanonicalForm(m) /\ DOMAIN m = {1} /\ Start(m[1]) = from /\ End(m[1]) = to
      /\ \A b : b \in Bytes(m) <=> b \in Nat /\ from <= b /\ b < to
  <2>1. to - from \in Nat /\ to - from > 0 /\ from + (to - from) = to
    OBVIOUS
  <2>2. Start(m[1]) = from /\ End(m[1]) = to
    BY <2>1 DEF Start, End
  <2> HIDE DEF m
  <2>3. /\ CanonicalForm(m) /\ DOMAIN m = {1}
        /\ \A b : b \in Bytes(m) <=> b \in Nat /\ from <= b /\ b < from + (to - from)
    BY <2>1, OneSpan DEF m
  <2> QED BY <2>1, <2>2, <2>3
<1>5. t = (q \o m) \o r
  BY DEF Splice
<1> HIDE DEF q, m, r, n, t
<1>6. Before(q, m)
  BY <1>2, <1>4 DEF Before
<1>7. CanonicalForm(q \o m) /\ Bytes(q \o m) = Bytes(q) \cup Bytes(m)
  BY <1>2, <1>4, <1>6, Joined
<1>8. Before(q \o m, r)
  <2>1. \A j \in DOMAIN (q \o m) :
          \/ j \in DOMAIN q /\ (q \o m)[j] = q[j]
          \/ j - Len(q) \in DOMAIN m /\ (q \o m)[j] = m[j - Len(q)]
    BY <1>2, <1>4, ConcatAt
  <2>2. ASSUME NEW j \in DOMAIN (q \o m) PROVE End((q \o m)[j]) <= to /\ End((q \o m)[j]) \in Nat
    <3>1. CASE j \in DOMAIN q /\ (q \o m)[j] = q[j]
      <4>1. End(q[j]) < from /\ End(q[j]) \in Nat
        BY <1>2, <3>1, SpanIs
      <4> QED BY <3>1, <4>1
    <3>2. CASE j - Len(q) \in DOMAIN m /\ (q \o m)[j] = m[j - Len(q)]
      BY <1>4, <3>2
    <3> QED BY <2>1, <3>1, <3>2
  <2>3. ASSUME NEW k \in DOMAIN r PROVE to < Start(r[k]) /\ Start(r[k]) \in Nat
    <3>1. hi + k \in hi + 1 .. n /\ r[k] = rs[hi + k]
      BY <1>1, <1>3
    <3>2. to < Start(rs[hi + k])
      BY <3>1 DEF n
    <3> QED BY <1>3, <3>1, <3>2, SpanIs
  <2> QED BY <2>2, <2>3 DEF Before
<1>9. CanonicalForm(t) /\ Bytes(t) = Bytes(q) \cup Bytes(m) \cup Bytes(r)
  BY <1>3, <1>5, <1>7, <1>8, Joined
<1>10. \A i : /\ i \in 1 .. lo <=> i \in DOMAIN rs /\ i <= lo
              /\ i \in hi + 1 .. n <=> i \in DOMAIN rs /\ hi < i
  BY <1>1 DEF n
<1> QED BY <1>2, <1>3, <1>4, <1>9, <1>10 DEF t

(***************************************************************************)
(* insert: the new bytes come to the old ones.                             *)
(***************************************************************************)
LEMMA InsertIs ==
  ASSUME NEW rs, CanonicalForm(rs), NEW start \in Nat, NEW len \in Nat, start + len <= NBytes
  PROVE  /\ CanonicalForm(Insert(rs, start, len))
         /\ Bytes(Insert(rs, start, len)) = Bytes(rs) \cup (start .. start + len - 1)
<1> DEFINE n == Len(rs)
           end == start + len
           L == {i \in DOMAIN rs : End(rs[i]) < start}
           H == {i \in DOMAIN rs : Start(rs[i]) <= end}
           lo == Cardinality(L)
           hi == Cardinality(H)
           t == Insert(rs, start, len)
<1>1. n \in Nat /\ DOMAIN rs = 1 .. n
  BY DEF CanonicalForm
<1>2. CASE len = 0
  <2>1. t = rs /\ start .. start + len - 1 = {}
    BY <1>2 DEF Insert
  <2> QED BY <2>1
<1>3. CASE len # 0
  <2>1. end \in Nat /\ start < end /\ end <= NBytes /\ end - start = len
    BY <1>3
  <2>2. \A i \in DOMAIN rs : /\ Start(rs[i]) \in Nat /\ End(rs[i]) \in Nat
                             /\ Start(rs[i]) < End(rs[i]) /\ End(rs[i]) <= NBytes
    BY SpanIs
  <2>3. \A i, j \in DOMAIN rs : i < j => End(rs[i]) < Start(rs[j])
    BY Ordered
  <2>4. lo \in 0 .. n /\ L = 1 .. lo
    <3>1. L \in SUBSET (1 .. n)
      BY <1>1
    <3>2. ASSUME NEW i \in L, NEW j \in 1 .. i PROVE j \in L
      <4>1. i \in 1 .. n /\ j \in 1 .. n /\ End(rs[i]) < start
        BY <1>1
      <4>2. CASE j < i
        <5>1. End(rs[j]) < Start(rs[i])
          BY <1>1, <2>3, <4>1, <4>2
        <5>2. End(rs[j]) < start
          BY <1>1, <2>2, <4>1, <5>1
        <5> QED BY <1>1, <4>1, <5>2
      <4> QED BY <4>1, <4>2
    <3> HIDE DEF L, n
    <3> QED BY <1>1, <3>1, <3>2, PrefixCount
  <2>5. hi \in 0 .. n /\ H = 1 .. hi
    <3>1. H \in SUBSET (1 .. n)
      BY <1>1
    <3>2. ASSUME NEW i \in H, NEW j \in 1 .. i PROVE j \in H
      <4>1. i \in 1 .. n /\ j \in 1 .. n /\ Start(rs[i]) <= end
        BY <1>1
      <4>2. CASE j < i
        <5>1. End(rs[j]) < Start(rs[i])
          BY <1>1, <2>3, <4>1, <4>2
        <5>2. Start(rs[j]) <= end
          BY <1>1, <2>1, <2>2, <4>1, <5>1
        <5> QED BY <1>1, <4>1, <5>2
      <4> QED BY <4>1, <4>2
    <3> HIDE DEF H, n
    <3> QED BY <1>1, <3>1, <3>2, PrefixCount
  <2>6. lo <= hi
    <3>1. \A i \in L : i \in H
      BY <2>1, <2>2
    <3> HIDE DEF L, H, lo, hi, n
    <3>2. lo \in Nat /\ hi \in Nat /\ (lo > 0 => lo \in 1 .. lo)
      BY <1>1, <2>4, <2>5
    <3>3. lo > 0 => lo \in 1 .. hi
      BY <2>4, <2>5, <3>1, <3>2
    <3> QED BY <3>2, <3>3
  <2>7. /\ \A i \in 1 .. lo : i \in DOMAIN rs /\ End(rs[i]) < start
        /\ \A i \in lo + 1 .. n : i \in DOMAIN rs /\ start <= End(rs[i])
        /\ \A i \in 1 .. hi : i \in DOMAIN rs /\ Start(rs[i]) <= end
        /\ \A i \in hi + 1 .. n : i \in DOMAIN rs /\ end < Start(rs[i])
    <3>1. \A i \in 1 .. n : /\ i \in 1 .. lo <=> End(rs[i]) < start
                            /\ i \in 1 .. hi <=> Start(rs[i]) <= end
      <4>1. \A i \in 1 .. n : /\ i \in L <=> End(rs[i]) < start
                              /\ i \in H <=> Start(rs[i]) <= end
        BY <1>1
      <4> HIDE DEF L, H
      <4> QED BY <2>4, <2>5, <4>1
    <3> HIDE DEF lo, hi, n
    <3>2. \A i \in 1 .. n : Start(rs[i]) \in Nat /\ End(rs[i]) \in Nat
      BY <1>1, <2>2
    <3> QED BY <1>1, <2>1, <2>4, <2>5, <3>1, <3>2
  <2>8. CASE lo >= hi
    <3>1. t = Splice(rs, lo, lo, start, end)
      BY <1>3, <2>1, <2>8 DEF Insert, Splice
    <3> HIDE DEF t, lo, hi, n, end
    <3>2. lo = hi /\ lo \in Nat /\ hi <= n
      BY <1>1, <2>4, <2>5, <2>6, <2>8
    <3>3. /\ CanonicalForm(t)
          /\ \A b : b \in Bytes(t) <=>
               /\ b \in Nat
               /\ \/ start <= b /\ b < end
                  \/ \E i \in DOMAIN rs :
                       (i <= lo \/ lo < i) /\ Start(rs[i]) <= b /\ b < End(rs[i])
      <4>1. lo <= lo /\ lo <= Len(rs)
        BY <3>2 DEF n
      <4>2. /\ \A i \in 1 .. lo : End(rs[i]) < start
            /\ \A i \in lo + 1 .. Len(rs) : end < Start(rs[i])
        BY <2>7, <3>2 DEF n
      <4> QED BY <2>1, <3>1, <3>2, <4>1, <4>2, Spliced
    <3>4. \A i \in DOMAIN rs : i <= lo \/ lo < i
      BY <1>1, <3>2
    <3>5. \A b : b \in Bytes(t) <=> b \in Bytes(rs) \/ (b \in Nat /\ start <= b /\ b < end)
      BY <3>3, <3>4, BytesAre
    <3>6. \A b : b \in start .. end - 1 <=> b \in Nat /\ start <= b /\ b < end
      BY <2>1
    <3>7. Bytes(t) = Bytes(rs) \cup (start .. end - 1)
      BY <3>5, <3>6
    <3> QED BY <3>3, <3>7 DEF t, end
  <2>9. CASE lo < hi
    <3> DEFINE from == Least(start, Start(rs[lo + 1]))
               to == Greatest(end, End(rs[hi]))
    <3>1. t = Splice(rs, lo, hi, from, to)
      <4>1. ~(lo >= hi)
        BY <2>4, <2>5, <2>9
      <4> QED BY <1>3, <4>1 DEF Insert, Splice
    <3> HIDE DEF t, lo, hi, n, end, L, H
    <3>2. lo \in Nat /\ hi \in Nat /\ hi <= n /\ lo + 1 \in DOMAIN rs /\ hi \in DOMAIN rs
            /\ lo + 1 <= hi /\ lo + 1 \in lo + 1 .. n /\ hi \in 1 .. hi /\ lo + 1 \in 1 .. hi
            /\ hi \in lo + 1 .. n
      BY <1>1, <2>4, <2>5, <2>9
    <3> DEFINE f == Start(rs[lo + 1])
               z == End(rs[hi])
    <3>3. /\ f \in Nat /\ z \in Nat /\ f <= end /\ start <= z /\ z <= NBytes
          /\ start <= End(rs[lo + 1]) /\ Start(rs[hi]) <= end
      BY <2>2, <2>7, <3>2
    <3>4. /\ from \in Nat /\ to \in Nat /\ from <= start /\ from <= f /\ end <= to /\ z <= to
          /\ from \in {start, f} /\ to \in {end, z} /\ from < to /\ to <= NBytes
      <4> HIDE DEF f, z
      <4>1. from = Least(start, f) /\ to = Greatest(end, z)
        BY DEF f, z
      <4> HIDE DEF from, to
      <4> QED BY <2>1, <3>3, <4>1, RangeAssumption DEF Least, Greatest
    <3> HIDE DEF from, to
    <3>5. ASSUME NEW i \in 1 .. lo PROVE End(rs[i]) < from
      <4>1. i < lo + 1 /\ i \in DOMAIN rs
        BY <2>7, <3>2
      <4>2. End(rs[i]) < f
        BY <2>3, <3>2, <4>1
      <4>3. End(rs[i]) < start
        BY <2>7
      <4> QED BY <3>4, <4>2, <4>3
    <3>6. ASSUME NEW i \in hi + 1 .. n PROVE to < Start(rs[i])
      <4>1. hi < i /\ i \in DOMAIN rs
        BY <1>1, <2>7, <3>2
      <4>2. z < Start(rs[i])
        BY <2>3, <3>2, <4>1
      <4>3. end < Start(rs[i])
        BY <2>7
      <4> QED BY <3>4, <4>2, <4>3
    <3>7. /\ CanonicalForm(t)
          /\ \A b : b \in Bytes(t) <=>
               /\ b \in Nat
               /\ \/ from <= b /\ b < to
                  \/ \E i \in DOMAIN rs :
                       (i <= lo \/ hi < i) /\ Start(rs[i]) <= b /\ b < End(rs[i])
      <4>1. lo <= hi /\ hi <= Len(rs)
        BY <2>6, <3>2 DEF n
      <4>2. /\ \A i \in 1 .. lo : End(rs[i]) < from
            /\ \A i \in hi + 1 .. Len(rs) : to < Start(rs[i])
        BY <3>5, <3>6 DEF n
      <4> QED BY <3>1, <3>2, <3>4, <4>1, <4>2, Spliced
    <3>8. ASSUME NEW b \in Nat, from <= b, b < to
          PROVE  \/ start <= b /\ b < end
                 \/ \E i \in DOMAIN rs : Start(rs[i]) <= b /\ b < End(rs[i])
      <4>1. CASE b < start
        <5>1. f <= b /\ b < End(rs[lo + 1])
          BY <2>2, <3>2, <3>3, <3>4, <3>8, <4>1
        <5> QED BY <3>2, <5>1
      <4>2. CASE end <= b
        <5>1. Start(rs[hi]) <= b /\ b < z
          BY <2>1, <2>2, <3>2, <3>3, <3>4, <3>8, <4>2
        <5> QED BY <3>2, <5>1
      <4> QED BY <2>1, <4>1, <4>2
    <3>9. ASSUME NEW b \in Nat, NEW i \in DOMAIN rs, Start(rs[i]) <= b, b < End(rs[i])
          PROVE  (from <= b /\ b < to) \/ i <= lo \/ hi < i
      <4> SUFFICES ASSUME lo < i, i <= hi PROVE from <= b /\ b < to
        BY <1>1, <3>2
      <4>1. f <= Start(rs[i])
        <5>1. i = lo + 1 \/ lo + 1 < i
          BY <1>1, <3>2
        <5>2. lo + 1 < i => End(rs[lo + 1]) < Start(rs[i])
          BY <2>3, <3>2
        <5> QED BY <2>2, <3>2, <5>1, <5>2
      <4>2. End(rs[i]) <= z
        <5>1. i = hi \/ i < hi
          BY <1>1, <3>2
        <5>2. i < hi => End(rs[i]) < Start(rs[hi])
          BY <2>3, <3>2
        <5> QED BY <2>2, <3>2, <5>1, <5>2
      <4> QED BY <2>2, <3>2, <3>3, <3>4, <3>9, <4>1, <4>2
    <3>10. \A b \in Nat : start <= b /\ b < end => from <= b /\ b < to
      BY <2>1, <3>4
    <3>11. \A b : b \in Bytes(t) <=> b \in Bytes(rs) \/ (b \in Nat /\ start <= b /\ b < end)
      BY <3>7, <3>8, <3>9, <3>10, BytesAre
    <3>12. \A b : b \in start .. end - 1 <=> b \in Nat /\ start <= b /\ b < end
      BY <2>1
    <3>13. Bytes(t) = Bytes(rs) \cup (start .. end - 1)
      BY <3>11, <3>12
    <3> QED BY <3>7, <3>13 DEF t, end
  <2> QED BY <2>4, <2>5, <2>8, <2>9
<1> QED BY <1>2, <1>3

-----------------------------------------------------------------------------
(* The queries.                                                            *)

(***************************************************************************)
(* contains_all: a window is there when every byte of it is covered.       *)
(***************************************************************************)
LEMMA ContainsIs ==
  ASSUME NEW rs, CanonicalForm(rs), NEW a \in Position, NEW z \in Position
  PROVE  ContainsAll(rs, a, z) <=> a .. z - 1 \subseteq Bytes(rs)
<1>1. a \in Nat /\ z \in Nat
  BY RangeAssumption DEF Position
<1>2. CASE a >= z
  BY <1>1, <1>2 DEF ContainsAll
<1>3. CASE a < z
  <2>1. ASSUME NEW i \in DOMAIN rs, Start(rs[i]) <= a, z <= End(rs[i]), NEW b \in a .. z - 1
        PROVE  b \in Bytes(rs)
    <3>1. Start(rs[i]) \in Nat /\ End(rs[i]) \in Nat
      BY SpanIs
    <3>2. b \in Nat /\ Start(rs[i]) <= b /\ b < End(rs[i])
      BY <1>1, <2>1, <3>1
    <3> QED BY <3>2, BytesAre
  <2>2. a .. z - 1 \subseteq Bytes(rs)
          => \E i \in DOMAIN rs : Start(rs[i]) <= a /\ z <= End(rs[i])
    BY <1>1, <1>3, RunIsInOneSpan
  <2>3. ContainsAll(rs, a, z) <=> \E i \in DOMAIN rs : Start(rs[i]) <= a /\ z <= End(rs[i])
    BY <1>1, <1>3 DEF ContainsAll
  <2> QED BY <2>1, <2>2, <2>3
<1> QED BY <1>1, <1>2, <1>3

\* What gaps_in keeps between two spans.
Scan == [cursor : Nat, gaps : Seq(Nat \X Nat), over : BOOLEAN]

(***************************************************************************)
(* The rounds of gaps_in.                                                  *)
(***************************************************************************)
LEMMA GapScanRuns ==
  ASSUME NEW rs, CanonicalForm(rs), NEW start \in Nat, NEW end \in Nat
  PROVE  \E s \in [0 .. Len(rs) -> Scan] :
           /\ s[0] = [cursor |-> start, gaps |-> <<>>, over |-> FALSE]
           /\ \A i \in 1 .. Len(rs) : s[i] = GapStep(s[i - 1], rs[i], end)
           /\ GapScan(rs, start, end) = s[Len(rs)]
<1> DEFINE n == Len(rs)
           init == [cursor |-> start, gaps |-> <<>>, over |-> FALSE]
           f == [i \in 1 .. n |-> [q \in Scan |-> GapStep(q, rs[i], end)]]
           body(g) == [i \in 0 .. n |-> IF i = 0 THEN init ELSE GapStep(g[i - 1], rs[i], end)]
           seen == CHOOSE g : g = body(g)
<1>1. n \in Nat /\ DOMAIN rs = 1 .. n
  BY DEF CanonicalForm
<1>2. GapScan(rs, start, end) = seen[n]
  BY Zenon DEF GapScan
<1>3. init \in Scan
  BY DEF Scan
<1> HIDE DEF n, init
<1>4. f \in [1 .. n -> [Scan -> Scan]]
  <2>1. ASSUME NEW i \in 1 .. n, NEW q \in Scan PROVE GapStep(q, rs[i], end) \in Scan
    <3>1. Start(rs[i]) \in Nat /\ End(rs[i]) \in Nat
      BY <1>1, SpanIs
    <3>2. q.cursor \in Nat /\ q.gaps \in Seq(Nat \X Nat) /\ q.over \in BOOLEAN
      BY DEF Scan
    <3>3. CASE q.over \/ End(rs[i]) <= q.cursor
      BY <3>3 DEF GapStep
    <3>4. CASE ~(q.over \/ End(rs[i]) <= q.cursor) /\ Start(rs[i]) >= end
      <4>1. GapStep(q, rs[i], end) = [q EXCEPT !.over = TRUE]
        BY <3>4 DEF GapStep
      <4> QED BY <4>1 DEF Scan
    <3>5. CASE ~(q.over \/ End(rs[i]) <= q.cursor) /\ ~(Start(rs[i]) >= end)
      <4> DEFINE c == Greatest(q.cursor, End(rs[i]))
                 l == Least(Start(rs[i]), end) - q.cursor
                 gs == IF Start(rs[i]) > q.cursor THEN Append(q.gaps, <<q.cursor, l>>) ELSE q.gaps
      <4>1. GapStep(q, rs[i], end) = [cursor |-> c, gaps |-> gs, over |-> c >= end]
        BY <3>5 DEF GapStep
      <4>2. c \in Nat
        BY <3>1, <3>2 DEF Greatest
      <4>3. Start(rs[i]) > q.cursor => <<q.cursor, l>> \in Nat \X Nat
        BY <3>1, <3>2, <3>5 DEF Least
      <4>4. gs \in Seq(Nat \X Nat)
        <5> HIDE DEF l
        <5> QED BY <3>2, <4>3
      <4> HIDE DEF c, gs
      <4>5. (c >= end) \in BOOLEAN
        OBVIOUS
      <4> QED BY <4>1, <4>2, <4>4, <4>5 DEF Scan
    <3> QED BY <3>3, <3>4, <3>5
  <2> QED BY <2>1
<1>5. \A i \in 1 .. n : \A q \in Scan : f[i][q] = GapStep(q, rs[i], end)
  OBVIOUS
<1> HIDE DEF f
<1>6. PICK s \in [0 .. n -> Scan] : s[0] = init /\ \A i \in 1 .. n : s[i] = f[i][s[i - 1]]
  <2>1. RunsTo(n, Scan, init, f) # {}
    BY <1>1, <1>3, <1>4, LoopRunsTo
  <2> QED BY <2>1, Zenon DEF RunsTo
<1>7. ASSUME NEW i \in 1 .. n PROVE s[i] = GapStep(s[i - 1], rs[i], end)
  <2>1. s[i - 1] \in Scan
    BY <1>1, <1>6
  <2> QED BY <1>5, <1>6, <2>1
<1>8. s = body(s)
  <2>1. ASSUME NEW i \in 0 .. n
        PROVE  s[i] = IF i = 0 THEN init ELSE GapStep(s[i - 1], rs[i], end)
    <3>1. CASE i = 0
      BY <1>6, <3>1
    <3>2. CASE i # 0
      <4>1. i \in 1 .. n
        BY <1>1, <3>2
      <4> QED BY <1>7, <3>2, <4>1
    <3> QED BY <3>1, <3>2
  <2> QED BY <1>6, <2>1
<1>9. seen = body(seen)
  <2> HIDE DEF body
  <2> QED BY <1>8
<1> HIDE DEF seen
<1>10. seen[0] = init /\ \A i \in 1 .. n : seen[i] = GapStep(seen[i - 1], rs[i], end)
  <2>1. \A i \in 0 .. n : seen[i] = IF i = 0 THEN init ELSE GapStep(seen[i - 1], rs[i], end)
    BY <1>9, Zenon
  <2>2. 0 \in 0 .. n /\ \A i \in 1 .. n : i \in 0 .. n /\ i # 0
    BY <1>1
  <2> HIDE DEF body
  <2> QED BY <2>1, <2>2, Zenon
<1>11. \A i \in 0 .. n : seen[i] = s[i]
  <2> DEFINE S == {i \in Nat : i <= n => seen[i] = s[i]}
  <2>1. 0 \in S
    BY <1>6, <1>10
  <2>2. ASSUME NEW i \in Nat, i \in S PROVE i + 1 \in S
    <3> SUFFICES ASSUME i + 1 <= n PROVE seen[i + 1] = s[i + 1]
      OBVIOUS
    <3>1. i + 1 \in 1 .. n /\ (i + 1) - 1 = i /\ seen[i] = s[i]
      BY <1>1, <2>2
    <3> QED BY <1>7, <1>10, <3>1
  <2>3. \A i \in Nat : i \in S
    <3> HIDE DEF S
    <3> QED BY <2>1, <2>2, Induct
  <2> QED BY <1>1, <2>3
<1>12. GapScan(rs, start, end) = s[n]
  BY <1>1, <1>2, <1>11
<1> QED BY <1>6, <1>7, <1>12 DEF n, init

(***************************************************************************)
(* gaps_in: exactly the bytes of the window that are not covered, and in   *)
(* canonical form.                                                         *)
(***************************************************************************)
LEMMA GapsAre ==
  ASSUME NEW rs, CanonicalForm(rs), NEW start \in Position, NEW end \in Position
  PROVE  /\ CanonicalForm(GapsIn(rs, start, end))
         /\ \A b : b \in Bytes(GapsIn(rs, start, end)) <=>
                     b \in Nat /\ start <= b /\ b < end /\ b \notin Bytes(rs)
<1> DEFINE n == Len(rs)
<1>1. n \in Nat /\ DOMAIN rs = 1 .. n
  BY DEF CanonicalForm
<1>2. start \in Nat /\ end \in Nat /\ end <= NBytes
  BY RangeAssumption DEF Position
<1>3. CASE start >= end
  <2>1. GapsIn(rs, start, end) = <<>>
    BY <1>3 DEF GapsIn
  <2>2. \A b \in Nat : ~(start <= b /\ b < end)
    BY <1>2, <1>3
  <2> QED BY <2>1, <2>2, NoSpan
<1>4. CASE start < end
  <2>1. PICK s \in [0 .. n -> Scan] :
          /\ s[0] = [cursor |-> start, gaps |-> <<>>, over |-> FALSE]
          /\ \A i \in 1 .. n : s[i] = GapStep(s[i - 1], rs[i], end)
          /\ GapScan(rs, start, end) = s[n]
    BY <1>2, GapScanRuns
  <2>2. \A i \in 1 .. n : /\ Start(rs[i]) \in Nat /\ End(rs[i]) \in Nat
                          /\ Start(rs[i]) < End(rs[i]) /\ End(rs[i]) <= NBytes
    BY <1>1, SpanIs
  <2>3. \A i, j \in 1 .. n : i < j => End(rs[i]) < Start(rs[j])
    BY <1>1, Ordered
  <2>4. \A b : b \in Bytes(rs) <=>
                 b \in Nat /\ \E i \in 1 .. n : Start(rs[i]) <= b /\ b < End(rs[i])
    BY <1>1, BytesAre
  <2> HIDE DEF n
  <2> DEFINE Found(q) ==
               /\ CanonicalForm(q.gaps) /\ start <= q.cursor
               /\ \A j \in DOMAIN q.gaps : End(q.gaps[j]) < q.cursor
               /\ \A b : b \in Bytes(q.gaps) <=>
                           /\ b \in Nat /\ start <= b /\ b < q.cursor /\ b < end
                           /\ b \notin Bytes(rs)
             Good(i) ==
               /\ Found(s[i])
               /\ ~s[i].over => s[i].cursor < end /\ \A k \in 1 .. i : End(rs[k]) <= s[i].cursor
               /\ s[i].over => \/ end <= s[i].cursor
                               \/ \A k \in 1 .. n : End(rs[k]) <= s[i].cursor \/ end <= Start(rs[k])
             S == {i \in Nat : i <= n => Good(i)}
  <2>5. 0 \in S
    <3>1. s[0].cursor = start /\ s[0].gaps = <<>> /\ s[0].over = FALSE
      BY <2>1
    <3>2. \A b \in Nat : ~(start <= b /\ b < start)
      BY <1>2
    <3>3. Found(s[0])
      BY <1>2, <3>1, <3>2, NoSpan
    <3> HIDE DEF Found
    <3> QED BY <1>4, <3>1, <3>3
  <2>6. ASSUME NEW i \in Nat, i \in S PROVE i + 1 \in S
    <3> SUFFICES ASSUME i + 1 <= n PROVE Good(i + 1)
      OBVIOUS
    <3> DEFINE q == s[i]
               sp == rs[i + 1]
               a == Start(sp)
               z == End(sp)
               t == s[i + 1]
    <3>1. i + 1 \in 1 .. n /\ (i + 1) - 1 = i /\ i \in 0 .. n
      BY <1>1
    <3>2. Good(i)
      BY <1>1, <2>6, <3>1
    <3>3. t = GapStep(q, sp, end)
      BY <2>1, <3>1
    <3>4. q.cursor \in Nat /\ q.over \in BOOLEAN
      BY <2>1, <3>1 DEF Scan
    <3>5. /\ a \in Nat /\ z \in Nat /\ a < z /\ z <= NBytes
          /\ \A k \in 1 .. n : k < i + 1 => End(rs[k]) < a
          /\ \A k \in 1 .. n : i + 1 < k => z < Start(rs[k])
      BY <2>2, <2>3, <3>1
    <3>6. \A k \in 1 .. i + 1 : k \in 1 .. n /\ (k \in 1 .. i \/ k = i + 1)
      BY <1>1, <3>1
    <3>7. CASE q.over
      <4>1. t = q
        BY <3>3, <3>7 DEF GapStep
      <4> HIDE DEF Found
      <4> QED BY <3>2, <3>7, <4>1
    <3>8. CASE ~q.over /\ z <= q.cursor
      <4>1. t = q
        BY <3>3, <3>8 DEF GapStep
      <4> HIDE DEF Found
      <4>2. \A k \in 1 .. i + 1 : End(rs[k]) <= t.cursor
        BY <3>2, <3>6, <3>8, <4>1
      <4> QED BY <3>2, <3>8, <4>1, <4>2
    <3>9. CASE ~q.over /\ q.cursor < z /\ end <= a
      <4>1. t = [q EXCEPT !.over = TRUE]
        BY <3>3, <3>4, <3>5, <3>9 DEF GapStep
      <4>2. t.cursor = q.cursor /\ t.gaps = q.gaps /\ t.over
        BY <2>1, <3>1, <4>1 DEF Scan
      <4>3. ASSUME NEW k \in 1 .. n PROVE End(rs[k]) <= q.cursor \/ end <= Start(rs[k])
        <5>1. k \in 1 .. i \/ k = i + 1 \/ i + 1 < k
          BY <1>1, <3>1
        <5>2. i + 1 < k => end <= Start(rs[k])
          BY <1>2, <2>2, <3>5, <3>9
        <5> QED BY <3>2, <3>9, <5>1, <5>2
      <4>4. Found(t)
        BY <3>2, <4>2
      <4> HIDE DEF Found
      <4> QED BY <4>2, <4>3, <4>4
    <3>10. CASE ~q.over /\ q.cursor < z /\ a < end
      <4> DEFINE c == q.cursor
      <4>1. /\ t.cursor = z /\ (t.over <=> z >= end)
            /\ t.gaps = IF a > c THEN Append(q.gaps, <<c, a - c>>) ELSE q.gaps
        <5>1. ~(q.over \/ z <= q.cursor) /\ ~(a >= end)
          BY <1>2, <3>4, <3>5, <3>10
        <5>2. Greatest(q.cursor, z) = z /\ Least(a, end) = a
          BY <1>2, <3>4, <3>5, <3>10 DEF Greatest, Least
        <5>3. t = [cursor |-> Greatest(q.cursor, z),
                   gaps |-> IF a > q.cursor
                            THEN Append(q.gaps, <<q.cursor, Least(a, end) - q.cursor>>)
                            ELSE q.gaps,
                   over |-> Greatest(q.cursor, z) >= end]
          BY <3>3, <5>1 DEF GapStep
        <5> HIDE DEF a, z, t, q
        <5> QED BY <5>2, <5>3
      <4>2. /\ CanonicalForm(q.gaps) /\ start <= c /\ c < end
            /\ \A j \in DOMAIN q.gaps : End(q.gaps[j]) < c
            /\ \A b : b \in Bytes(q.gaps) <=>
                        b \in Nat /\ start <= b /\ b < c /\ b < end /\ b \notin Bytes(rs)
            /\ \A k \in 1 .. i : End(rs[k]) <= c
        BY <3>2, <3>10
      <4>3. c \in Nat
        BY <3>4
      <4> HIDE DEF a, z, t, q, c, sp
      <4>4. \A b \in Nat : c <= b /\ b < z => (b \notin Bytes(rs) <=> b < a)
        <5> TAKE b \in Nat
        <5> HAVE c <= b /\ b < z
        <5>1. ASSUME a <= b PROVE b \in Bytes(rs)
          BY <2>4, <3>1, <5>1 DEF a, z, sp
        <5>2. ASSUME b < a, b \in Bytes(rs) PROVE FALSE
          <6>1. PICK k \in 1 .. n : Start(rs[k]) <= b /\ b < End(rs[k])
            BY <2>4, <5>2
          <6>2. k \in 1 .. i \/ k = i + 1 \/ i + 1 < k
            BY <1>1, <3>1
          <6>3. k \in 1 .. i => b < c
            BY <2>2, <4>2, <4>3, <6>1
          <6>4. k = i + 1 => a <= b
            BY <6>1 DEF a, sp
          <6>5. i + 1 < k => z <= b
            BY <2>2, <3>5, <6>1
          <6> QED BY <3>5, <4>3, <5>2, <6>2, <6>3, <6>4, <6>5
        <5> QED BY <3>5, <5>1, <5>2
      <4>5. /\ CanonicalForm(t.gaps)
            /\ \A j \in DOMAIN t.gaps : End(t.gaps[j]) < z
            /\ \A b : b \in Bytes(t.gaps) <=>
                        b \in Bytes(q.gaps) \/ (b \in Nat /\ c <= b /\ b < a)
        <5>1. CASE a > c
          <6> DEFINE l == a - c
                     m == <<<<c, l>>>>
          <6>1. l \in Nat /\ l > 0 /\ c + l = a /\ a <= NBytes
            BY <3>5, <4>3, <5>1, RangeAssumption
          <6>2. t.gaps = q.gaps \o m /\ q.gaps \in Seq(Span)
            <7>1. q.gaps \in Seq(Position \X Position)
              BY <4>2 DEF CanonicalForm
            <7>2. t.gaps = Append(q.gaps, <<c, a - c>>)
              BY <4>1, <5>1
            <7> QED BY <7>1, <7>2 DEF Span
          <6>3. Start(m[1]) = c /\ End(m[1]) = a
            BY <6>1 DEF Start, End
          <6> HIDE DEF l, m
          <6>4. /\ CanonicalForm(m) /\ DOMAIN m = {1}
                /\ \A b : b \in Bytes(m) <=> b \in Nat /\ c <= b /\ b < a
            BY <4>3, <6>1, OneSpan DEF m
          <6>5. Before(q.gaps, m)
            BY <4>2, <6>3, <6>4 DEF Before
          <6>6. CanonicalForm(t.gaps) /\ Bytes(t.gaps) = Bytes(q.gaps) \cup Bytes(m)
            BY <4>2, <6>2, <6>4, <6>5, Joined
          <6>7. ASSUME NEW j \in DOMAIN t.gaps PROVE End(t.gaps[j]) < z
            <7>1. \/ j \in DOMAIN q.gaps /\ t.gaps[j] = q.gaps[j]
                  \/ j - Len(q.gaps) \in DOMAIN m /\ t.gaps[j] = m[j - Len(q.gaps)]
              BY <4>2, <6>2, <6>4, ConcatAt
            <7>2. \A k \in DOMAIN q.gaps : End(q.gaps[k]) \in Nat
              BY <4>2, SpanIs
            <7>3. \A k \in DOMAIN q.gaps : End(q.gaps[k]) < z
              BY <3>5, <4>2, <4>3, <5>1, <7>2
            <7> QED BY <3>5, <6>3, <6>4, <7>1, <7>3
          <6> QED BY <6>4, <6>6, <6>7
        <5>2. CASE ~(a > c)
          <6>1. t.gaps = q.gaps
            BY <4>1, <5>2
          <6>2. \A k \in DOMAIN q.gaps : End(q.gaps[k]) \in Nat
            BY <4>2, SpanIs
          <6>3. \A k \in DOMAIN q.gaps : End(q.gaps[k]) < z
            BY <3>4, <3>5, <3>10, <4>2, <4>3, <6>2 DEF c
          <6>4. \A b \in Nat : ~(c <= b /\ b < a)
            BY <3>5, <4>3, <5>2
          <6> QED BY <4>2, <6>1, <6>3, <6>4
        <5> QED BY <5>1, <5>2
      <4>6. \A b : b \in Bytes(t.gaps) <=>
                     b \in Nat /\ start <= b /\ b < z /\ b < end /\ b \notin Bytes(rs)
        <5>1. c < z
          BY <3>10 DEF c
        <5>2. \A b \in Nat : /\ b < c => b < z /\ b < end
                             /\ b < a => b < end /\ b < z
                             /\ c <= b => start <= b
                             /\ b < c \/ c <= b
          BY <1>2, <3>5, <3>10, <4>2, <4>3, <5>1
        <5> QED BY <4>2, <4>4, <4>5, <5>2
      <4>7. Found(t)
        <5>1. start <= z
          BY <1>2, <3>4, <3>5, <3>10, <4>2 DEF c
        <5> QED BY <4>1, <4>5, <4>6, <5>1
      <4>8. ~t.over => t.cursor < end /\ \A k \in 1 .. i + 1 : End(rs[k]) <= t.cursor
        <5>1. \A k \in 1 .. i + 1 : End(rs[k]) <= z
          BY <2>2, <3>5, <3>6 DEF z, sp
        <5>2. ~t.over => t.cursor < end
          BY <1>2, <3>5, <4>1
        <5> QED BY <4>1, <5>1, <5>2
      <4>9. t.over => end <= t.cursor
        BY <1>2, <3>5, <4>1
      <4> HIDE DEF Found
      <4> QED BY <4>7, <4>8, <4>9 DEF t
    <3>11. q.cursor < z \/ z <= q.cursor
      BY <3>4, <3>5
    <3>12. a < end \/ end <= a
      BY <1>2, <3>5
    <3> HIDE DEF Good, q, z, a
    <3> QED BY <3>7, <3>8, <3>9, <3>10, <3>11, <3>12
  <2>7. Good(n)
    <3>1. \A i \in Nat : i \in S
      <4> HIDE DEF S
      <4> QED BY <2>5, <2>6, Induct
    <3> HIDE DEF Good
    <3> QED BY <1>1, <3>1
  <2> DEFINE q == s[n]
             c == q.cursor
             gs == GapsIn(rs, start, end)
  <2>8. c \in Nat /\ q.over \in BOOLEAN
    BY <1>1, <2>1 DEF Scan
  <2>9. gs = IF c < end THEN Append(q.gaps, <<c, end - c>>) ELSE q.gaps
    BY <1>2, <1>4, <2>1 DEF GapsIn
  <2>10. /\ CanonicalForm(q.gaps) /\ start <= c
         /\ \A j \in DOMAIN q.gaps : End(q.gaps[j]) < c
         /\ \A b : b \in Bytes(q.gaps) <=>
                     b \in Nat /\ start <= b /\ b < c /\ b < end /\ b \notin Bytes(rs)
    BY <2>7
  <2>11. c < end => \A k \in 1 .. n : End(rs[k]) <= c \/ end <= Start(rs[k])
    <3> HIDE DEF Found
    <3> QED BY <1>2, <2>7, <2>8
  <2> HIDE DEF q, c, gs
  <2>12. CASE c < end
    <3> DEFINE l == end - c
               m == <<<<c, l>>>>
    <3>1. l \in Nat /\ l > 0 /\ c + l = end
      BY <1>2, <2>8, <2>12
    <3>2. gs = q.gaps \o m
      <4>1. q.gaps \in Seq(Nat \X Nat)
        BY <1>1, <2>1 DEF q, Scan
      <4>2. gs = Append(q.gaps, <<c, l>>) /\ <<c, l>> \in Nat \X Nat
        BY <2>8, <2>9, <2>12, <3>1
      <4> HIDE DEF l
      <4>3. Append(q.gaps, <<c, l>>) = q.gaps \o <<<<c, l>>>>
        BY <4>1, <4>2, AppendIsConcat
      <4> QED BY <4>2, <4>3
    <3>3. Start(m[1]) = c
      BY DEF Start
    <3> HIDE DEF l, m
    <3>4. /\ CanonicalForm(m) /\ DOMAIN m = {1}
          /\ \A b : b \in Bytes(m) <=> b \in Nat /\ c <= b /\ b < end
      BY <1>2, <2>8, <3>1, OneSpan DEF m
    <3>5. Before(q.gaps, m)
      BY <2>10, <3>3, <3>4 DEF Before
    <3>6. CanonicalForm(gs) /\ Bytes(gs) = Bytes(q.gaps) \cup Bytes(m)
      BY <2>10, <3>2, <3>4, <3>5, Joined
    <3>7. \A b \in Nat : c <= b /\ b < end => b \notin Bytes(rs)
      <4> TAKE b \in Nat
      <4> HAVE c <= b /\ b < end
      <4>1. \A k \in 1 .. n : ~(Start(rs[k]) <= b /\ b < End(rs[k]))
        BY <1>2, <2>2, <2>8, <2>11, <2>12
      <4> QED BY <2>4, <4>1
    <3>8. \A b \in Nat : /\ b < c => b < end
                         /\ c <= b => start <= b
                         /\ b < c \/ c <= b
      BY <1>2, <2>8, <2>10, <2>12
    <3> QED BY <2>10, <3>4, <3>6, <3>7, <3>8 DEF gs
  <2>13. CASE end <= c
    <3>1. gs = q.gaps
      BY <1>2, <2>8, <2>9, <2>13
    <3>2. \A b \in Nat : b < end => b < c
      BY <1>2, <2>8, <2>13
    <3> QED BY <2>10, <3>1, <3>2 DEF gs
  <2> QED BY <1>2, <2>8, <2>12, <2>13
<1> QED BY <1>2, <1>3, <1>4

\* What first_gap_at_or_after may have found.
Gap == {q \in Seq(Nat) : q # <<>>}

(***************************************************************************)
(* The rounds of first_gap_at_or_after.                                    *)
(***************************************************************************)
LEMMA FirstGapRuns ==
  ASSUME NEW rs, CanonicalForm(rs), NEW pos \in Nat
  PROVE  \E s \in [0 .. Len(rs) -> Gap] :
           /\ s[0] = <<pos>>
           /\ \A i \in 1 .. Len(rs) : s[i] = FirstGapStep(s[i - 1], rs[i])
           /\ FirstGap(rs, pos) = s[Len(rs)]
<1> DEFINE n == Len(rs)
           init == <<pos>>
           f == [i \in 1 .. n |-> [q \in Gap |-> FirstGapStep(q, rs[i])]]
           body(g) == [i \in 0 .. n |-> IF i = 0 THEN init ELSE FirstGapStep(g[i - 1], rs[i])]
           at == CHOOSE g : g = body(g)
<1>1. n \in Nat /\ DOMAIN rs = 1 .. n
  BY DEF CanonicalForm
<1>2. FirstGap(rs, pos) = at[n]
  BY Zenon DEF FirstGap
<1>3. init \in Gap
  BY DEF Gap
<1> HIDE DEF n, init
<1>4. f \in [1 .. n -> [Gap -> Gap]]
  <2>1. ASSUME NEW i \in 1 .. n, NEW q \in Gap PROVE FirstGapStep(q, rs[i]) \in Gap
    <3>1. Start(rs[i]) \in Nat /\ End(rs[i]) \in Nat
      BY <1>1, SpanIs
    <3>2. q \in Seq(Nat) /\ q # <<>> /\ q[1] \in Nat
      BY DEF Gap
    <3>3. <<End(rs[i])>> \in Gap /\ <<q[1], Start(rs[i])>> \in Gap
      BY <3>1, <3>2 DEF Gap
    <3> QED BY <3>3 DEF FirstGapStep
  <2> QED BY <2>1
<1>5. \A i \in 1 .. n : \A q \in Gap : f[i][q] = FirstGapStep(q, rs[i])
  OBVIOUS
<1> HIDE DEF f
<1>6. PICK s \in [0 .. n -> Gap] : s[0] = init /\ \A i \in 1 .. n : s[i] = f[i][s[i - 1]]
  <2>1. RunsTo(n, Gap, init, f) # {}
    BY <1>1, <1>3, <1>4, LoopRunsTo
  <2> QED BY <2>1, Zenon DEF RunsTo
<1>7. ASSUME NEW i \in 1 .. n PROVE s[i] = FirstGapStep(s[i - 1], rs[i])
  <2>1. s[i - 1] \in Gap
    BY <1>1, <1>6
  <2> QED BY <1>5, <1>6, <2>1
<1>8. s = body(s)
  <2>1. ASSUME NEW i \in 0 .. n
        PROVE  s[i] = IF i = 0 THEN init ELSE FirstGapStep(s[i - 1], rs[i])
    <3>1. CASE i = 0
      BY <1>6, <3>1
    <3>2. CASE i # 0
      <4>1. i \in 1 .. n
        BY <1>1, <3>2
      <4> QED BY <1>7, <3>2, <4>1
    <3> QED BY <3>1, <3>2
  <2> QED BY <1>6, <2>1
<1>9. at = body(at)
  <2> HIDE DEF body
  <2> QED BY <1>8
<1> HIDE DEF at
<1>10. at[0] = init /\ \A i \in 1 .. n : at[i] = FirstGapStep(at[i - 1], rs[i])
  <2>1. \A i \in 0 .. n : at[i] = IF i = 0 THEN init ELSE FirstGapStep(at[i - 1], rs[i])
    BY <1>9, Zenon
  <2>2. 0 \in 0 .. n /\ \A i \in 1 .. n : i \in 0 .. n /\ i # 0
    BY <1>1
  <2> HIDE DEF body
  <2> QED BY <2>1, <2>2, Zenon
<1>11. \A i \in 0 .. n : at[i] = s[i]
  <2> DEFINE S == {i \in Nat : i <= n => at[i] = s[i]}
  <2>1. 0 \in S
    BY <1>6, <1>10
  <2>2. ASSUME NEW i \in Nat, i \in S PROVE i + 1 \in S
    <3> SUFFICES ASSUME i + 1 <= n PROVE at[i + 1] = s[i + 1]
      OBVIOUS
    <3>1. i + 1 \in 1 .. n /\ (i + 1) - 1 = i /\ at[i] = s[i]
      BY <1>1, <2>2
    <3> QED BY <1>7, <1>10, <3>1
  <2>3. \A i \in Nat : i \in S
    <3> HIDE DEF S
    <3> QED BY <2>1, <2>2, Induct
  <2> QED BY <1>1, <2>3
<1>12. FirstGap(rs, pos) = s[n]
  BY <1>1, <1>2, <1>11
<1> QED BY <1>6, <1>7, <1>12 DEF n, init

(***************************************************************************)
(* first_gap_at_or_after: from pos on everything is covered up to the gap, *)
(* and nothing in it is; behind it comes a covered byte, or none at all.   *)
(***************************************************************************)
LEMMA FirstGapIs ==
  ASSUME NEW rs, CanonicalForm(rs), NEW pos \in Nat, NEW first, first = FirstGap(rs, pos)
  PROVE  /\ first[1] \in Nat /\ pos <= first[1]
         /\ \A b \in pos .. first[1] - 1 : b \in Bytes(rs)
         /\ Len(first) = 2 =>
              /\ first[2] \in Nat /\ first[1] < first[2] /\ first[2] \in Bytes(rs)
              /\ \A b \in first[1] .. first[2] - 1 : b \notin Bytes(rs)
         /\ Len(first) # 2 => \A b \in Nat : first[1] <= b => b \notin Bytes(rs)
<1> DEFINE n == Len(rs)
<1>1. n \in Nat /\ DOMAIN rs = 1 .. n
  BY DEF CanonicalForm
<1>2. PICK s \in [0 .. n -> Gap] :
        /\ s[0] = <<pos>>
        /\ \A i \in 1 .. n : s[i] = FirstGapStep(s[i - 1], rs[i])
        /\ FirstGap(rs, pos) = s[n]
  BY FirstGapRuns
<1>3. \A i \in 1 .. n : /\ Start(rs[i]) \in Nat /\ End(rs[i]) \in Nat
                        /\ Start(rs[i]) < End(rs[i])
  BY <1>1, SpanIs
<1>4. \A i, j \in 1 .. n : i < j => End(rs[i]) < Start(rs[j])
  BY <1>1, Ordered
<1>5. \A b : b \in Bytes(rs) <=>
               b \in Nat /\ \E i \in 1 .. n : Start(rs[i]) <= b /\ b < End(rs[i])
  BY <1>1, BytesAre
<1> HIDE DEF n
<1> DEFINE Found(q) ==
             /\ q[1] \in Nat /\ pos <= q[1]
             /\ \A b \in pos .. q[1] - 1 : b \in Bytes(rs)
           Closed(q) ==
             /\ q[2] \in Nat /\ q[1] < q[2] /\ q[2] \in Bytes(rs)
             /\ \A b \in q[1] .. q[2] - 1 : b \notin Bytes(rs)
           Good(i) ==
             /\ Found(s[i])
             /\ Len(s[i]) = 2 => Closed(s[i])
             /\ Len(s[i]) # 2 => \A k \in 1 .. i : End(rs[k]) <= s[i][1]
           S == {i \in Nat : i <= n => Good(i)}
<1>6. 0 \in S
  <2>1. s[0] = <<pos>> /\ Len(s[0]) = 1 /\ s[0][1] = pos
    BY <1>2
  <2> QED BY <2>1
<1>7. ASSUME NEW i \in Nat, i \in S PROVE i + 1 \in S
  <2> SUFFICES ASSUME i + 1 <= n PROVE Good(i + 1)
    OBVIOUS
  <2> DEFINE q == s[i]
             t == s[i + 1]
             a == Start(rs[i + 1])
             z == End(rs[i + 1])
  <2>1. i + 1 \in 1 .. n /\ (i + 1) - 1 = i
    BY <1>1
  <2>2. Good(i)
    BY <1>1, <1>7
  <2>3. t = FirstGapStep(q, rs[i + 1])
    BY <1>2, <2>1
  <2>4. a \in Nat /\ z \in Nat /\ a < z
    BY <1>3, <2>1
  <2>5. \A k \in 1 .. i + 1 : k \in 1 .. n /\ (k \in 1 .. i \/ k = i + 1)
    BY <1>1, <2>1
  <2>6. CASE Len(q) = 2
    <3>1. t = q
      BY <2>3, <2>6 DEF FirstGapStep
    <3> HIDE DEF Found, Closed
    <3> QED BY <2>2, <2>6, <3>1
  <2>7. CASE Len(q) # 2 /\ z <= q[1]
    <3>1. t = q
      BY <2>3, <2>7 DEF FirstGapStep
    <3>2. \A k \in 1 .. i + 1 : End(rs[k]) <= q[1]
      BY <2>2, <2>5, <2>7
    <3> HIDE DEF Found, Closed
    <3> QED BY <2>2, <2>7, <3>1, <3>2
  <2>8. CASE Len(q) # 2 /\ q[1] < z /\ a <= q[1]
    <3>1. q[1] \in Nat
      BY <2>2
    <3>2. t = <<z>> /\ Len(t) = 1 /\ t[1] = z
      BY <2>3, <2>4, <2>8, <3>1 DEF FirstGapStep
    <3>3. \A b \in pos .. z - 1 : b \in Bytes(rs)
      <4> TAKE b \in pos .. z - 1
      <4>1. CASE b < q[1]
        BY <2>2, <3>1, <4>1
      <4>2. CASE q[1] <= b
        <5>1. b \in Nat /\ a <= b /\ b < z
          BY <2>4, <2>8, <3>1, <4>2
        <5> QED BY <1>5, <2>1, <5>1
      <4> QED BY <3>1, <4>1, <4>2
    <3>4. \A k \in 1 .. i + 1 : End(rs[k]) <= z
      <4> TAKE k \in 1 .. i + 1
      <4>1. k \in 1 .. i => End(rs[k]) <= q[1] /\ End(rs[k]) \in Nat
        BY <1>3, <2>2, <2>5, <2>8
      <4> QED BY <2>4, <2>5, <2>8, <3>1, <4>1
    <3>5. pos <= z
      BY <2>2, <2>4, <2>8, <3>1
    <3> HIDE DEF t, z
    <3> QED BY <2>4, <3>2, <3>3, <3>4, <3>5 DEF t
  <2>9. CASE Len(q) # 2 /\ q[1] < z /\ q[1] < a
    <3>1. q[1] \in Nat
      BY <2>2
    <3>2. t = <<q[1], a>> /\ Len(t) = 2 /\ t[1] = q[1] /\ t[2] = a
      BY <2>3, <2>4, <2>9, <3>1 DEF FirstGapStep
    <3>3. \A b \in q[1] .. a - 1 : b \notin Bytes(rs)
      <4> TAKE b \in q[1] .. a - 1
      <4> SUFFICES ASSUME NEW k \in 1 .. n, Start(rs[k]) <= b, b < End(rs[k]) PROVE FALSE
        BY <1>5
      <4>1. b \in Nat /\ q[1] <= b /\ b < a
        BY <2>4, <3>1
      <4>2. k \in 1 .. i \/ k = i + 1 \/ i + 1 < k
        BY <1>1, <2>1
      <4>3. k \in 1 .. i => End(rs[k]) <= q[1]
        BY <2>2, <2>9
      <4>4. i + 1 < k => z < Start(rs[k])
        BY <1>4, <2>1
      <4> QED BY <1>3, <2>4, <3>1, <4>1, <4>2, <4>3, <4>4
    <3>4. a \in Bytes(rs)
      BY <1>5, <2>1, <2>4
    <3>5. Found(t)
      BY <2>2, <3>2
    <3>6. Closed(t)
      BY <2>4, <2>9, <3>1, <3>2, <3>3, <3>4
    <3> HIDE DEF Found, Closed
    <3> QED BY <3>2, <3>5, <3>6
  <2>10. q[1] < z \/ z <= q[1]
    BY <2>2, <2>4
  <2>11. q[1] < a \/ a <= q[1]
    BY <2>2, <2>4
  <2> HIDE DEF Good, q, a, z
  <2> QED BY <2>6, <2>7, <2>8, <2>9, <2>10, <2>11
<1>8. Good(n)
  <2>1. \A i \in Nat : i \in S
    <3> HIDE DEF S
    <3> QED BY <1>6, <1>7, Induct
  <2> HIDE DEF Good
  <2> QED BY <1>1, <2>1
<1>9. first = s[n]
  BY <1>2 DEF n
<1>10. ASSUME Len(first) # 2, NEW b \in Nat, first[1] <= b PROVE b \notin Bytes(rs)
  <2>1. first[1] \in Nat /\ \A k \in 1 .. n : End(rs[k]) <= first[1]
    BY <1>8, <1>9, <1>10
  <2>2. \A k \in 1 .. n : ~(b < End(rs[k]))
    BY <1>3, <1>10, <2>1
  <2> QED BY <1>5, <2>2
<1> QED BY <1>8, <1>9, <1>10

(***************************************************************************)
(* The first gap of a window that has one inside it.                       *)
(***************************************************************************)
LEMMA FirstGapOfWindow ==
  ASSUME NEW rs, CanonicalForm(rs), NEW a \in Position, NEW z \in Position, a < z,
         GapsIn(rs, a, z) # <<>>
  PROVE  LET gaps == GapsIn(rs, a, z)
             first == FirstGap(rs, a)
         IN  /\ first[1] = Head(gaps)[1]
             /\ Len(first) = 2 => Least(first[2], z) = End(Head(gaps))
<1> DEFINE gaps == GapsIn(rs, a, z)
           first == FirstGap(rs, a)
           s == Start(gaps[1])
           e == End(gaps[1])
           f == first[1]
           g == first[2]
<1>1. a \in Nat /\ z \in Nat
  BY RangeAssumption DEF Position
<1>2. /\ CanonicalForm(gaps)
      /\ \A b : b \in Bytes(gaps) <=> b \in Nat /\ a <= b /\ b < z /\ b \notin Bytes(rs)
  BY GapsAre
<1>3. 1 \in DOMAIN gaps /\ Head(gaps) = gaps[1] /\ \A i \in DOMAIN gaps : i = 1 \/ 1 < i
  <2>1. gaps \in Seq(Position \X Position) /\ gaps # <<>>
    BY <1>2 DEF CanonicalForm
  <2> HIDE DEF gaps
  <2> QED BY <2>1
<1>4. /\ f \in Nat /\ a <= f
      /\ \A b \in a .. f - 1 : b \in Bytes(rs)
      /\ Len(first) = 2 =>
           /\ g \in Nat /\ f < g /\ g \in Bytes(rs)
           /\ \A b \in f .. g - 1 : b \notin Bytes(rs)
      /\ Len(first) # 2 => \A b \in Nat : f <= b => b \notin Bytes(rs)
  BY <1>1, FirstGapIs
<1> HIDE DEF gaps, first
<1>5. s \in Nat /\ e \in Nat /\ s < e
  BY <1>2, <1>3, SpanIs
<1>6. \A i \in DOMAIN gaps : /\ Start(gaps[i]) \in Nat /\ End(gaps[i]) \in Nat
                             /\ i = 1 \/ e < Start(gaps[i])
  BY <1>2, <1>3, SpanIs, Ordered
<1>7. \A b \in Nat : s <= b /\ b < e => a <= b /\ b < z /\ b \notin Bytes(rs)
  BY <1>2, <1>3, BytesAre
<1>8. f <= s
  BY <1>1, <1>4, <1>5, <1>7
<1>9. f \notin Bytes(rs) /\ f < z
  <2>1. f \notin Bytes(rs)
    BY <1>4
  <2>2. s < z
    BY <1>5, <1>7
  <2> QED BY <1>1, <1>4, <1>5, <1>8, <2>1, <2>2
<1>10. f = s
  <2>1. f \in Bytes(gaps)
    BY <1>2, <1>4, <1>9
  <2>2. PICK i \in DOMAIN gaps : Start(gaps[i]) <= f /\ f < End(gaps[i])
    BY <1>2, <2>1, BytesAre
  <2> QED BY <1>4, <1>5, <1>6, <1>8, <2>2
<1>11. ASSUME Len(first) = 2 PROVE Least(g, z) = e
  <2> DEFINE m == Least(g, z)
  <2>1. /\ g \in Nat /\ f < g /\ g \in Bytes(rs)
        /\ \A b \in f .. g - 1 : b \notin Bytes(rs)
    BY <1>4, <1>11
  <2>2. m \in Nat /\ m <= g /\ m <= z /\ f < m /\ (m = g \/ m = z)
    BY <1>1, <1>9, <2>1 DEF Least
  <2> HIDE DEF m
  <2>3. \A b \in f .. m - 1 : b \in Bytes(gaps)
    BY <1>1, <1>2, <1>4, <2>1, <2>2
  <2>4. PICK i \in DOMAIN gaps : Start(gaps[i]) <= f /\ m <= End(gaps[i])
    BY <1>2, <1>4, <2>2, <2>3, RunIsInOneSpan
  <2>5. m <= e
    BY <1>4, <1>5, <1>6, <1>8, <1>10, <2>4
  <2>6. e <= z
    <3>1. e - 1 \in Nat /\ s <= e - 1 /\ e - 1 < e
      BY <1>5
    <3>2. e - 1 < z
      BY <1>7, <3>1
    <3> QED BY <1>1, <1>5, <3>2
  <2>7. e <= g
    BY <1>5, <1>7, <1>10, <2>1
  <2> QED BY <1>1, <1>5, <2>1, <2>2, <2>5, <2>6, <2>7 DEF m
<1> QED BY <1>3, <1>10, <1>11, Zenon DEF gaps, first, Start

(***************************************************************************)
(* A canonical record that denotes the covered bytes answers exactly.      *)
(***************************************************************************)
LEMMA AnswersAreExact ==
  ASSUME Canonical, DenotesCovered
  PROVE  QueriesAreExact
<1> SUFFICES ASSUME NEW a \in Position, NEW b \in Position
             PROVE  LET gaps == GapsIn(spans, a, b) IN
                    /\ ContainsAll(spans, a, b) <=> a .. b - 1 \subseteq covered
                    /\ Bytes(gaps) = (a .. b - 1) \ covered
                    /\ \A i \in 1 .. Len(gaps) - 1 : End(gaps[i]) < Start(gaps[i + 1])
                    /\ a < b /\ gaps # <<>> /\ Head(gaps)[1] < b =>
                         LET first == FirstGap(spans, a) IN
                         first[1] = Head(gaps)[1]
                           /\ (Len(first) = 2 => Least(first[2], b) = End(Head(gaps)))
  BY Zenon DEF QueriesAreExact
<1> DEFINE gaps == GapsIn(spans, a, b)
<1>1. CanonicalForm(spans) /\ Bytes(spans) = covered
  BY DEF Canonical, DenotesCovered
<1>2. ContainsAll(spans, a, b) <=> a .. b - 1 \subseteq covered
  BY <1>1, ContainsIs
<1>3. /\ CanonicalForm(gaps)
      /\ \A x : x \in Bytes(gaps) <=> x \in Nat /\ a <= x /\ x < b /\ x \notin covered
  BY <1>1, GapsAre
<1>4. Bytes(gaps) = (a .. b - 1) \ covered
  <2>1. a \in Nat /\ b \in Nat
    BY RangeAssumption DEF Position
  <2>2. \A x : x \in a .. b - 1 <=> x \in Nat /\ a <= x /\ x < b
    BY <2>1
  <2> HIDE DEF gaps
  <2> QED BY <1>3, <2>2, Zenon
<1>5. \A i \in 1 .. Len(gaps) - 1 : End(gaps[i]) < Start(gaps[i + 1])
  BY <1>3 DEF CanonicalForm
<1>6. ASSUME a < b, gaps # <<>>
      PROVE  LET first == FirstGap(spans, a) IN
             first[1] = Head(gaps)[1]
               /\ (Len(first) = 2 => Least(first[2], b) = End(Head(gaps)))
  BY <1>1, <1>6, FirstGapOfWindow, Zenon
<1> QED BY <1>2, <1>4, <1>5, <1>6, Zenon

-----------------------------------------------------------------------------
(* The digits of a number.                                                 *)

\* A byte of the encoding.
Digit == [digit : Nat, more : BOOLEAN]

(***************************************************************************)
(* A number is its digit and BASE times its rest.                          *)
(***************************************************************************)
LEMMA Divides ==
  ASSUME NEW a \in Nat
  PROVE  /\ a \div BASE \in Nat /\ a % BASE \in Nat
         /\ a = BASE * (a \div BASE) + (a % BASE)
         /\ a >= BASE => a \div BASE < a /\ a \div BASE >= 1
         /\ a < BASE => a % BASE = a
<1> DEFINE q == a \div BASE
           r == a % BASE
<1>1. BASE \in Nat /\ BASE >= 2
  BY RangeAssumption
<1>2. q \in Nat /\ r \in Nat /\ r < BASE /\ a = BASE * q + r
  BY <1>1
<1> HIDE DEF q, r
<1>3. q = 0 => BASE * q = 0
  BY <1>1, <1>2
<1>4. q >= 1 => BASE * q >= BASE /\ BASE * q >= 2 * q
  BY <1>1, <1>2
<1>5. a >= BASE => q < a /\ q >= 1
  BY <1>1, <1>2, <1>3, <1>4
<1>6. a < BASE => r = a
  BY <1>1, <1>2, <1>3, <1>4
<1> QED BY <1>2, <1>5, <1>6 DEF q, r

(***************************************************************************)
(* What the digits are worth.                                              *)
(***************************************************************************)
LEMMA PlaceIs ==
  /\ Place[0] = 1
  /\ \A k \in Nat : Place[k] \in Nat /\ Place[k] >= 1 /\ Place[k + 1] = BASE * Place[k]
<1> DEFINE f == [k \in Nat |-> [a \in Nat |-> BASE * a]]
           body(g) == [k \in Nat |-> IF k = 0 THEN 1 ELSE BASE * g[k - 1]]
<1>1. BASE \in Nat /\ BASE >= 2
  BY RangeAssumption
<1>2. PICK s \in [Nat -> Nat] : s[0] = 1 /\ \A k \in Nat : s[k + 1] = f[k + 1][s[k]]
  <2>1. f \in [Nat -> [Nat -> Nat]]
    BY <1>1
  <2> HIDE DEF f
  <2>2. Runs(Nat, 1, f) # {}
    BY <2>1, LoopRuns
  <2> QED BY <2>2, Zenon DEF Runs
<1>3. s = body(s)
  <2>1. ASSUME NEW k \in Nat PROVE s[k] = IF k = 0 THEN 1 ELSE BASE * s[k - 1]
    <3>1. CASE k = 0
      BY <1>2, <3>1
    <3>2. CASE k # 0
      <4>1. k - 1 \in Nat /\ (k - 1) + 1 = k
        BY <3>2
      <4>2. s[k] = f[k][s[k - 1]] /\ s[k - 1] \in Nat
        BY <1>2, <4>1
      <4> QED BY <3>2, <4>2
    <3> QED BY <3>1, <3>2
  <2> QED BY <1>2, <2>1
<1>4. Place = CHOOSE g : g = body(g)
  BY Zenon DEF Place
<1>5. Place = body(Place)
  <2> HIDE DEF body
  <2> QED BY <1>3, <1>4
<1>6. Place[0] = 1 /\ \A k \in Nat : Place[k + 1] = BASE * Place[k]
  <2>1. \A k \in Nat : Place[k] = IF k = 0 THEN 1 ELSE BASE * Place[k - 1]
    BY <1>5, Zenon
  <2>2. \A k \in Nat : k + 1 \in Nat /\ k + 1 # 0 /\ (k + 1) - 1 = k
    OBVIOUS
  <2> HIDE DEF body
  <2> QED BY <2>1, <2>2
<1> DEFINE S == {k \in Nat : Place[k] \in Nat /\ Place[k] >= 1}
<1>7. 0 \in S
  BY <1>6
<1>8. ASSUME NEW k \in Nat, k \in S PROVE k + 1 \in S
  <2>1. BASE * Place[k] \in Nat /\ BASE * Place[k] >= Place[k]
    BY <1>1, <1>8
  <2> QED BY <1>6, <1>8, <2>1
<1>9. \A k \in Nat : k \in S
  <2> HIDE DEF S
  <2> QED BY <1>7, <1>8, Induct
<1> QED BY <1>6, <1>9

(***************************************************************************)
(* A later digit is worth more.                                            *)
(***************************************************************************)
LEMMA PlaceGrows ==
  ASSUME NEW j \in Nat, NEW k \in Nat, j <= k
  PROVE  Place[j] <= Place[k]
<1> DEFINE S == {i \in Nat : Place[j] <= Place[j + i]}
<1>1. 0 \in S
  BY PlaceIs
<1>2. ASSUME NEW i \in Nat, i \in S PROVE i + 1 \in S
  <2>1. j + i \in Nat /\ j + (i + 1) = (j + i) + 1
    OBVIOUS
  <2>2. Place[j] \in Nat /\ Place[j + i] \in Nat /\ Place[(j + i) + 1] = BASE * Place[j + i]
    BY <2>1, PlaceIs
  <2>3. BASE * Place[j + i] >= Place[j + i] /\ BASE * Place[j + i] \in Nat
    BY <2>2, RangeAssumption
  <2> QED BY <1>2, <2>1, <2>2, <2>3
<1>3. \A i \in Nat : i \in S
  <2> HIDE DEF S
  <2> QED BY <1>1, <1>2, Induct
<1>4. k - j \in Nat /\ j + (k - j) = k
  OBVIOUS
<1> QED BY <1>3, <1>4

(***************************************************************************)
(* put_varint: r is what is left of v after each digit, last + 1 their     *)
(* number.                                                                 *)
(***************************************************************************)
LEMMA DigitsOf ==
  ASSUME NEW v \in Nat
  PROVE  \E r \in [Nat -> Nat], last \in Nat :
           /\ r[0] = v /\ \A k \in Nat : r[k + 1] = r[k] \div BASE
           /\ r[last] < BASE /\ \A j \in 0 .. last - 1 : r[j] >= BASE
           /\ PutVarint(v) = [k \in 1 .. last + 1 |->
                                [digit |-> r[k - 1] % BASE, more |-> k <= last]]
<1> DEFINE f == [k \in Nat |-> [a \in Nat |-> a \div BASE]]
           body(g) == [k \in Nat |-> IF k = 0 THEN v ELSE g[k - 1] \div BASE]
           rest == CHOOSE g : g = body(g)
           Ends(k) == rest[k] < BASE /\ \A j \in 0 .. k - 1 : rest[j] >= BASE
           last == CHOOSE k \in 0 .. v : Ends(k)
<1>1. PICK s \in [Nat -> Nat] : s[0] = v /\ \A k \in Nat : s[k + 1] = f[k + 1][s[k]]
  <2>1. f \in [Nat -> [Nat -> Nat]]
    BY Divides
  <2> HIDE DEF f
  <2>2. Runs(Nat, v, f) # {}
    BY <2>1, LoopRuns
  <2> QED BY <2>2, Zenon DEF Runs
<1>2. s = body(s)
  <2>1. ASSUME NEW k \in Nat PROVE s[k] = IF k = 0 THEN v ELSE s[k - 1] \div BASE
    <3>1. CASE k = 0
      BY <1>1, <3>1
    <3>2. CASE k # 0
      <4>1. k - 1 \in Nat /\ (k - 1) + 1 = k
        BY <3>2
      <4>2. s[k] = f[k][s[k - 1]] /\ s[k - 1] \in Nat
        BY <1>1, <4>1
      <4> QED BY <3>2, <4>2
    <3> QED BY <3>1, <3>2
  <2> QED BY <1>1, <2>1
<1>3. PutVarint(v) = [k \in 1 .. last + 1 |->
                        [digit |-> rest[k - 1] % BASE, more |-> k <= last]]
  BY Zenon DEF PutVarint
<1> HIDE DEF last
<1>4. rest = body(rest)
  <2> HIDE DEF body
  <2> QED BY <1>2
<1> HIDE DEF rest
<1>5. rest[0] = v /\ \A k \in Nat : rest[k + 1] = rest[k] \div BASE
  <2>1. \A k \in Nat : rest[k] = IF k = 0 THEN v ELSE rest[k - 1] \div BASE
    BY <1>4, Zenon
  <2>2. \A k \in Nat : k + 1 \in Nat /\ k + 1 # 0 /\ (k + 1) - 1 = k
    OBVIOUS
  <2> HIDE DEF body
  <2> QED BY <2>1, <2>2
<1>6. \A k \in Nat : rest[k] \in Nat
  <2> DEFINE S == {k \in Nat : rest[k] \in Nat}
  <2>1. 0 \in S
    BY <1>5
  <2>2. ASSUME NEW k \in Nat, k \in S PROVE k + 1 \in S
    BY <1>5, <2>2, Divides
  <2>3. \A k \in Nat : k \in S
    <3> HIDE DEF S
    <3> QED BY <2>1, <2>2, Induct
  <2> QED BY <2>3
<1>7. \E k \in 0 .. v : Ends(k)
  <2> DEFINE S == {n \in Nat : \/ \E k \in 0 .. n : Ends(k)
                              \/ /\ \A j \in 0 .. n : rest[j] >= BASE
                                 /\ rest[n] <= v - n}
  <2>1. 0 \in S
    <3>1. CASE rest[0] < BASE
      <4>1. Ends(0) /\ 0 \in 0 .. 0
        BY <3>1
      <4> HIDE DEF Ends
      <4> QED BY <4>1
    <3>2. CASE rest[0] >= BASE
      BY <1>5, <3>2
    <3> QED BY <1>5, <3>1, <3>2, RangeAssumption
  <2>2. ASSUME NEW n \in Nat, n \in S PROVE n + 1 \in S
    <3>1. ASSUME NEW k \in 0 .. n, Ends(k) PROVE \E i \in 0 .. n + 1 : Ends(i)
      <4>1. k \in 0 .. n + 1
        OBVIOUS
      <4> HIDE DEF Ends
      <4> QED BY <3>1, <4>1
    <3>2. CASE /\ \A j \in 0 .. n : rest[j] >= BASE
               /\ rest[n] <= v - n
      <4>1. rest[n] \in Nat /\ rest[n + 1] \in Nat /\ rest[n + 1] < rest[n]
        BY <1>5, <1>6, <3>2, Divides
      <4>2. CASE rest[n + 1] < BASE
        <5>1. (n + 1) - 1 = n /\ n + 1 \in 0 .. n + 1
          OBVIOUS
        <5>2. Ends(n + 1)
          BY <3>2, <4>2, <5>1
        <5> HIDE DEF Ends
        <5> QED BY <5>1, <5>2
      <4>3. CASE rest[n + 1] >= BASE
        <5>1. \A j \in 0 .. n + 1 : rest[j] >= BASE
          BY <3>2, <4>3
        <5>2. rest[n + 1] <= v - (n + 1)
          BY <3>2, <4>1
        <5> QED BY <5>1, <5>2
      <4> QED BY <4>1, <4>2, <4>3, RangeAssumption
    <3> HIDE DEF Ends
    <3> QED BY <2>2, <3>1, <3>2
  <2>3. \A n \in Nat : n \in S
    <3> HIDE DEF S
    <3> QED BY <2>1, <2>2, Induct
  <2>4. ~(rest[v] >= BASE /\ rest[v] <= v - v)
    BY <1>6, RangeAssumption
  <2>5. v \in S /\ v \in 0 .. v
    BY <2>3
  <2> HIDE DEF Ends
  <2> QED BY <2>4, <2>5
<1>8. last \in Nat /\ Ends(last)
  <2>1. last \in 0 .. v /\ Ends(last)
    <3> HIDE DEF Ends
    <3> QED BY <1>7, Zenon DEF last
  <2> HIDE DEF Ends
  <2> QED BY <2>1
<1>9. rest \in [Nat -> Nat]
  BY <1>4, <1>6
<1> QED BY <1>3, <1>5, <1>8, <1>9

-----------------------------------------------------------------------------
(* Reading bytes back.                                                     *)

\* What decode keeps between two bytes.
Reader == [error : {"", "overflow", "zero-length"}, spans : Seq(Nat \X Nat), prev : Nat,
           reads : {"gap", "len"}, gap : Nat, value : Nat, digits : Nat]

\* The states of a decode of bytes that is in st before the first.
Readings(st, bytes) ==
  {s \in [0 .. Len(bytes) -> Reader] :
     s[0] = st /\ \A i \in 1 .. Len(bytes) : s[i] = TakeByte(s[i - 1], bytes[i])}

\* Such a decode ends in to.
ReadsTo(st, bytes, to) == \E s \in Readings(st, bytes) : s[Len(bytes)] = to

\* r goes on where q ends.
Extends(q, r) == /\ Len(q) <= Len(r)
                 /\ \A i \in 1 .. Len(q) : r[i] = q[i]

(***************************************************************************)
(* A decode begins as a reader.                                            *)
(***************************************************************************)
LEMMA FreshIs == Fresh \in Reader
<1>1. <<>> \in Seq(Nat \X Nat) /\ 0 \in Nat /\ "gap" \in {"gap", "len"}
  OBVIOUS
<1>2. "" \in {"", "overflow", "zero-length"}
  OBVIOUS
<1> QED BY <1>1, <1>2, Zenon DEF Fresh, Reader

(***************************************************************************)
(* One byte read: the spans only grow.                                     *)
(***************************************************************************)
LEMMA TakeByteIs ==
  ASSUME NEW st \in Reader, NEW b \in Digit
  PROVE  TakeByte(st, b) \in Reader /\ Extends(st.spans, TakeByte(st, b).spans)
<1> DEFINE v == st.value + b.digit * Place[st.digits]
           t == TakeByte(st, b)
           more == Append(st.spans, <<st.prev + st.gap, v>>)
<1>1. /\ st.prev \in Nat /\ st.gap \in Nat /\ st.value \in Nat /\ st.digits \in Nat
      /\ b.digit \in Nat
  BY DEF Reader, Digit
<1>2. st.spans \in Seq(Nat \X Nat)
  BY DEF Reader
<1>3. v \in Nat
  <2>1. Place[st.digits] \in Nat
    BY <1>1, PlaceIs
  <2>2. b.digit * Place[st.digits] \in Nat
    BY <1>1, <2>1
  <2> QED BY <1>1, <2>2
<1>4. t = IF st.error # "" THEN st
          ELSE IF st.digits >= MAX_DIGITS THEN [st EXCEPT !.error = "overflow"]
          ELSE IF b.more THEN [st EXCEPT !.value = v, !.digits = @ + 1]
          ELSE IF st.reads = "gap"
               THEN [st EXCEPT !.reads = "len", !.gap = v, !.value = 0, !.digits = 0]
          ELSE IF v = 0 THEN [st EXCEPT !.error = "zero-length"]
          ELSE [Fresh EXCEPT !.spans = more, !.prev = st.prev + st.gap + v]
  BY Zenon DEF TakeByte
<1> HIDE DEF v, t, more
<1>5. more \in Seq(Nat \X Nat) /\ Extends(st.spans, more)
  BY <1>1, <1>3, <1>2 DEF more, Extends
<1>6. Extends(st.spans, st.spans)
  BY <1>2 DEF Extends
<1>7. CASE t = [Fresh EXCEPT !.spans = more, !.prev = st.prev + st.gap + v]
  <2> DEFINE p == st.prev + st.gap + v
             f == [Fresh EXCEPT !.spans = more, !.prev = p]
  <2>1. p \in Nat
    BY <1>1, <1>3
  <2> HIDE DEF p
  <2>2. f \in Reader
    BY <1>5, <2>1, FreshIs DEF Reader
  <2>3. f.spans = more
    BY DEF Fresh
  <2> QED BY <1>5, <1>7, <2>2, <2>3 DEF p, t
<1>8. CASE t = st
  BY <1>6, <1>8 DEF t
<1>9. CASE t = [st EXCEPT !.error = "overflow"] \/ t = [st EXCEPT !.error = "zero-length"]
  <2>1. t \in Reader
    BY <1>9 DEF Reader
  <2>2. t.spans = st.spans
    BY <1>9 DEF Reader
  <2> QED BY <1>6, <2>1, <2>2 DEF t
<1>10. CASE t = [st EXCEPT !.value = v, !.digits = @ + 1]
  <2> DEFINE d == st.digits + 1
             f == [st EXCEPT !.value = v, !.digits = d]
  <2>1. d \in Nat
    BY <1>1
  <2>2. f.spans = st.spans
    BY DEF Reader
  <2>3. t = f
    BY <1>10
  <2> HIDE DEF d
  <2>4. f \in Reader
    BY <1>3, <2>1 DEF Reader
  <2> QED BY <1>6, <2>2, <2>3, <2>4 DEF t
<1>11. CASE t = [st EXCEPT !.reads = "len", !.gap = v, !.value = 0, !.digits = 0]
  <2>1. t \in Reader
    BY <1>3, <1>11 DEF Reader
  <2>2. t.spans = st.spans
    BY <1>11 DEF Reader
  <2> QED BY <1>6, <2>1, <2>2 DEF t
<1> QED BY <1>4, <1>7, <1>8, <1>9, <1>10, <1>11, Zenon

(***************************************************************************)
(* Every sequence of bytes can be read.                                    *)
(***************************************************************************)
LEMMA CanRead ==
  ASSUME NEW bytes \in Seq(Digit), NEW st \in Reader
  PROVE  Readings(st, bytes) # {}
<1> DEFINE n == Len(bytes)
           f == [i \in 1 .. n |-> [q \in Reader |-> TakeByte(q, bytes[i])]]
<1>1. n \in Nat /\ \A i \in 1 .. n : bytes[i] \in Digit
  OBVIOUS
<1> HIDE DEF n
<1>2. f \in [1 .. n -> [Reader -> Reader]]
  <2>1. ASSUME NEW i \in 1 .. n, NEW q \in Reader PROVE TakeByte(q, bytes[i]) \in Reader
    BY <1>1, TakeByteIs
  <2> QED BY <2>1
<1>3. \A i \in 1 .. n : \A q \in Reader : f[i][q] = TakeByte(q, bytes[i])
  OBVIOUS
<1> HIDE DEF f
<1>4. PICK s \in [0 .. n -> Reader] : s[0] = st /\ \A i \in 1 .. n : s[i] = f[i][s[i - 1]]
  <2>1. RunsTo(n, Reader, st, f) # {}
    BY <1>1, <1>2, LoopRunsTo
  <2> QED BY <2>1, Zenon DEF RunsTo
<1>5. ASSUME NEW i \in 1 .. n PROVE s[i] = TakeByte(s[i - 1], bytes[i])
  <2>1. s[i - 1] \in Reader
    BY <1>1, <1>4
  <2> QED BY <1>3, <1>4, <2>1
<1> QED BY <1>4, <1>5 DEF Readings, n

(***************************************************************************)
(* It can be read in one way only.                                         *)
(***************************************************************************)
LEMMA ReadsOneWay ==
  ASSUME NEW bytes \in Seq(Digit), NEW st \in Reader,
         NEW s \in Readings(st, bytes),
         NEW g, g[0] = st, \A i \in 1 .. Len(bytes) : g[i] = TakeByte(g[i - 1], bytes[i])
  PROVE  \A i \in 0 .. Len(bytes) : g[i] = s[i]
<1> DEFINE n == Len(bytes)
           S == {i \in Nat : i <= n => g[i] = s[i]}
<1>1. n \in Nat
  OBVIOUS
<1>2. s[0] = st /\ \A i \in 1 .. n : s[i] = TakeByte(s[i - 1], bytes[i])
  BY DEF Readings
<1> HIDE DEF n
<1>3. 0 \in S
  BY <1>2
<1>4. ASSUME NEW i \in Nat, i \in S PROVE i + 1 \in S
  <2> SUFFICES ASSUME i + 1 <= n PROVE g[i + 1] = s[i + 1]
    OBVIOUS
  <2>1. i + 1 \in 1 .. n /\ (i + 1) - 1 = i /\ g[i] = s[i]
    BY <1>1, <1>4
  <2>2. g[i + 1] = TakeByte(g[i], bytes[i + 1])
    BY <2>1 DEF n
  <2> QED BY <1>2, <2>1, <2>2
<1>5. \A i \in Nat : i \in S
  <2> HIDE DEF S
  <2> QED BY <1>3, <1>4, Induct
<1> QED BY <1>1, <1>5 DEF n

(***************************************************************************)
(* decode is such a reading, from the state before the first byte.         *)
(***************************************************************************)
LEMMA DecodeReads ==
  ASSUME NEW bytes \in Seq(Digit), NEW s \in Readings(Fresh, bytes)
  PROVE  LET end == s[Len(bytes)] IN
         Decode(bytes) = IF end.error # "" THEN [error |-> end.error]
                         ELSE IF end.reads = "len" \/ end.digits > 0
                              THEN [error |-> "truncated"]
                         ELSE [error |-> "", spans |-> end.spans]
<1> DEFINE n == Len(bytes)
           body(g) == [i \in 0 .. n |-> IF i = 0 THEN Fresh ELSE TakeByte(g[i - 1], bytes[i])]
           st == CHOOSE g : g = body(g)
           Result(end) == IF end.error # "" THEN [error |-> end.error]
                          ELSE IF end.reads = "len" \/ end.digits > 0
                               THEN [error |-> "truncated"]
                          ELSE [error |-> "", spans |-> end.spans]
<1>1. n \in Nat
  OBVIOUS
<1>2. /\ s \in [0 .. n -> Reader] /\ s[0] = Fresh
      /\ \A i \in 1 .. n : s[i] = TakeByte(s[i - 1], bytes[i])
  BY DEF Readings
<1>3. Decode(bytes) = Result(st[n])
  BY Zenon DEF Decode
<1>4. Fresh \in Reader
  BY FreshIs
<1> HIDE DEF Result, n
<1>5. s = body(s)
  <2>1. ASSUME NEW i \in 0 .. n
        PROVE  s[i] = IF i = 0 THEN Fresh ELSE TakeByte(s[i - 1], bytes[i])
    <3>1. CASE i = 0
      BY <1>2, <3>1
    <3>2. CASE i # 0
      <4>1. i \in 1 .. n
        BY <1>1, <3>2
      <4> QED BY <1>2, <3>2, <4>1
    <3> QED BY <3>1, <3>2
  <2> QED BY <1>2, <2>1
<1>6. st = body(st)
  <2> HIDE DEF body
  <2> QED BY <1>5
<1> HIDE DEF st
<1>7. st[0] = Fresh /\ \A i \in 1 .. n : st[i] = TakeByte(st[i - 1], bytes[i])
  <2>1. \A i \in 0 .. n : st[i] = IF i = 0 THEN Fresh ELSE TakeByte(st[i - 1], bytes[i])
    BY <1>6, Zenon
  <2>2. 0 \in 0 .. n /\ \A i \in 1 .. n : i \in 0 .. n /\ i # 0
    BY <1>1
  <2> HIDE DEF body
  <2> QED BY <2>1, <2>2, Zenon
<1>8. \A i \in 0 .. n : st[i] = s[i]
  BY <1>4, <1>7, ReadsOneWay DEF n
<1>9. st[n] = s[n]
  BY <1>1, <1>8
<1> QED BY <1>3, <1>9, Zenon DEF Result, n

(***************************************************************************)
(* Bytes read behind others go on where those ended.                       *)
(***************************************************************************)
LEMMA ReadsOn ==
  ASSUME NEW p \in Seq(Digit), NEW q \in Seq(Digit), NEW st \in Reader,
         NEW mid, ReadsTo(st, p, mid), NEW to, ReadsTo(mid, q, to)
  PROVE  ReadsTo(st, p \o q, to)
<1> DEFINE m == Len(p)
           n == Len(q)
           t == p \o q
<1>1. /\ m \in Nat /\ n \in Nat /\ t \in Seq(Digit) /\ Len(t) = m + n
      /\ \A i \in 1 .. m : t[i] = p[i]
      /\ \A i \in m + 1 .. m + n : t[i] = q[i - m]
  OBVIOUS
<1>2. PICK r \in [0 .. m -> Reader] :
        r[0] = st /\ r[m] = mid /\ \A i \in 1 .. m : r[i] = TakeByte(r[i - 1], p[i])
  BY DEF ReadsTo, Readings
<1>3. PICK s \in [0 .. n -> Reader] :
        s[0] = mid /\ s[n] = to /\ \A i \in 1 .. n : s[i] = TakeByte(s[i - 1], q[i])
  BY DEF ReadsTo, Readings
<1> HIDE DEF m, n, t
<1> DEFINE u == [i \in 0 .. m + n |-> IF i <= m THEN r[i] ELSE s[i - m]]
<1>4. u \in [0 .. m + n -> Reader] /\ u[0] = st
  BY <1>1, <1>2, <1>3
<1>5. u[m + n] = to
  <2>1. CASE n = 0
    BY <1>1, <1>2, <1>3, <2>1
  <2>2. CASE n # 0
    BY <1>1, <1>3, <2>2
  <2> QED BY <2>1, <2>2
<1>6. ASSUME NEW i \in 1 .. m + n PROVE u[i] = TakeByte(u[i - 1], t[i])
  <2>1. CASE i <= m
    <3>1. i \in 1 .. m /\ i - 1 <= m /\ i \in 0 .. m + n /\ i - 1 \in 0 .. m + n
      BY <1>1, <2>1
    <3>2. u[i] = r[i] /\ u[i - 1] = r[i - 1] /\ t[i] = p[i]
      BY <1>1, <3>1
    <3> HIDE DEF u
    <3> QED BY <1>2, <3>1, <3>2
  <2>2. CASE i > m
    <3>1. /\ i - m \in 1 .. n /\ (i - 1) - m = (i - m) - 1
          /\ i \in m + 1 .. m + n /\ i \in 0 .. m + n /\ i - 1 \in 0 .. m + n /\ ~(i <= m)
      BY <1>1, <2>2
    <3>2. u[i] = s[i - m] /\ t[i] = q[i - m]
      BY <1>1, <3>1
    <3>3. u[i - 1] = s[(i - m) - 1]
      <4>1. CASE i - 1 = m
        <5>1. u[i - 1] = r[m] /\ (i - m) - 1 = 0
          BY <1>1, <3>1, <4>1
        <5> HIDE DEF u
        <5> QED BY <1>2, <1>3, <5>1
      <4>2. CASE i - 1 > m
        BY <1>1, <3>1, <4>2
      <4> QED BY <1>1, <2>2, <4>1, <4>2
    <3> HIDE DEF u
    <3> QED BY <1>3, <3>1, <3>2, <3>3
  <2> QED BY <1>1, <2>1, <2>2
<1> HIDE DEF u
<1>7. u \in Readings(st, t)
  BY <1>1, <1>4, <1>6 DEF Readings
<1> QED BY <1>1, <1>5, <1>7 DEF ReadsTo, t

(***************************************************************************)
(* What was read before the bytes ran out is the beginning of what is read *)
(* in the end.                                                             *)
(***************************************************************************)
LEMMA SpansGrow ==
  ASSUME NEW bytes \in Seq(Digit), NEW st \in Reader, NEW s \in Readings(st, bytes),
         NEW n \in 0 .. Len(bytes)
  PROVE  Extends(s[n].spans, s[Len(bytes)].spans)
<1> DEFINE m == Len(bytes)
           S == {k \in Nat : n + k <= m => Extends(s[n].spans, s[n + k].spans)}
<1>1. m \in Nat /\ n \in Nat /\ n <= m /\ \A i \in 1 .. m : bytes[i] \in Digit
  OBVIOUS
<1>2. /\ s \in [0 .. m -> Reader]
      /\ \A i \in 1 .. m : s[i] = TakeByte(s[i - 1], bytes[i])
  BY DEF Readings
<1> HIDE DEF m
<1>3. \A i \in 0 .. m : s[i].spans \in Seq(Nat \X Nat)
  BY <1>2 DEF Reader
<1>4. 0 \in S
  BY <1>1, <1>3 DEF Extends
<1>5. ASSUME NEW k \in Nat, k \in S PROVE k + 1 \in S
  <2> SUFFICES ASSUME n + (k + 1) <= m PROVE Extends(s[n].spans, s[n + (k + 1)].spans)
    OBVIOUS
  <2> DEFINE i == n + (k + 1)
             x == s[n].spans
             y == s[i - 1].spans
             z == s[i].spans
  <2>1. i \in 1 .. m /\ i - 1 = n + k /\ i - 1 \in 0 .. m /\ i \in 0 .. m /\ n \in 0 .. m
    BY <1>1
  <2>2. Extends(x, y)
    BY <1>1, <1>5, <2>1
  <2>3. Extends(y, z)
    <3>1. s[i - 1] \in Reader /\ bytes[i] \in Digit /\ s[i] = TakeByte(s[i - 1], bytes[i])
      BY <1>1, <1>2, <2>1
    <3> HIDE DEF i
    <3> QED BY <3>1, TakeByteIs
  <2>4. x \in Seq(Nat \X Nat) /\ y \in Seq(Nat \X Nat) /\ z \in Seq(Nat \X Nat)
    BY <1>3, <2>1
  <2> HIDE DEF x, y, z, i
  <2>5. Extends(x, z)
    <3>1. Len(x) \in Nat /\ Len(y) \in Nat /\ Len(z) \in Nat
      BY <2>4
    <3> QED BY <2>2, <2>3, <3>1 DEF Extends
  <2> QED BY <2>5 DEF x, z, i
<1>6. \A k \in Nat : k \in S
  <2> HIDE DEF S
  <2> QED BY <1>4, <1>5, Induct
<1>7. m - n \in Nat /\ n + (m - n) = m
  BY <1>1
<1> QED BY <1>6, <1>7 DEF m

\* q is between two numbers; k digits of value w are read behind it; v was read.
ReadsNumber(q) == q \in Reader /\ q.error = "" /\ q.value = 0 /\ q.digits = 0
After(q, w, k) == [q EXCEPT !.value = w, !.digits = k]
NumberRead(q, v) ==
  IF q.reads = "gap" THEN [q EXCEPT !.reads = "len", !.gap = v]
  ELSE [Fresh EXCEPT !.spans = Append(q.spans, <<q.prev + q.gap, v>>),
                     !.prev = q.prev + q.gap + v]

(***************************************************************************)
(* One more digit of a number.                                             *)
(***************************************************************************)
LEMMA TakesDigit ==
  ASSUME NEW q, ReadsNumber(q), NEW w \in Nat, NEW k \in Nat, k < MAX_DIGITS,
         NEW b, b.more, NEW x \in Nat, x = w + b.digit * Place[k]
  PROVE  TakeByte(After(q, w, k), b) = After(q, x, k + 1)
<1> DEFINE st == After(q, w, k)
<1>1. st.error = "" /\ st.value = w /\ st.digits = k
  BY DEF After, ReadsNumber, Reader
<1>2. ~(k >= MAX_DIGITS)
  BY RangeAssumption
<1>3. TakeByte(st, b) = [st EXCEPT !.value = x, !.digits = @ + 1]
  BY <1>1, <1>2 DEF TakeByte
<1>4. [st EXCEPT !.value = x, !.digits = @ + 1] = After(q, x, k + 1)
  BY DEF After, ReadsNumber, Reader
<1> QED BY <1>3, <1>4

(***************************************************************************)
(* The last digit of a number ends it.                                     *)
(***************************************************************************)
LEMMA TakesLastDigit ==
  ASSUME NEW q, ReadsNumber(q), NEW w \in Nat, NEW k \in Nat, k < MAX_DIGITS,
         NEW b, ~b.more, NEW x \in Nat, x = w + b.digit * Place[k], q.reads = "gap" \/ x > 0
  PROVE  TakeByte(After(q, w, k), b) = NumberRead(q, x)
<1> DEFINE st == After(q, w, k)
           more == Append(q.spans, <<q.prev + q.gap, x>>)
           p == q.prev + q.gap + x
<1>1. /\ st.error = "" /\ st.value = w /\ st.digits = k /\ st.reads = q.reads
      /\ st.spans = q.spans /\ st.prev = q.prev /\ st.gap = q.gap
  BY DEF After, ReadsNumber, Reader
<1>2. ~(k >= MAX_DIGITS)
  BY RangeAssumption
<1>3. TakeByte(st, b) =
        IF st.reads = "gap" THEN [st EXCEPT !.reads = "len", !.gap = x, !.value = 0, !.digits = 0]
        ELSE IF x = 0 THEN [st EXCEPT !.error = "zero-length"]
        ELSE [Fresh EXCEPT !.spans = more, !.prev = p]
  BY <1>1, <1>2 DEF TakeByte
<1>4. [st EXCEPT !.reads = "len", !.gap = x, !.value = 0, !.digits = 0]
        = [q EXCEPT !.reads = "len", !.gap = x]
  BY DEF After, ReadsNumber, Reader
<1> HIDE DEF st
<1>5. ASSUME q.reads = "gap" PROVE TakeByte(st, b) = NumberRead(q, x)
  BY <1>1, <1>3, <1>4, <1>5 DEF NumberRead
<1>6. ASSUME q.reads # "gap" PROVE TakeByte(st, b) = NumberRead(q, x)
  <2>1. x # 0
    BY <1>6
  <2> QED BY <1>1, <1>3, <1>6, <2>1 DEF NumberRead
<1> QED BY <1>5, <1>6 DEF st

(***************************************************************************)
(* get_varint reads what put_varint wrote, whatever number it was.         *)
(***************************************************************************)
LEMMA NumberReadsBack ==
  ASSUME NEW v \in Nat, v < Place[MAX_DIGITS], MAX_DIGITS > 0,
         NEW q, ReadsNumber(q), q.reads = "gap" \/ v > 0
  PROVE  PutVarint(v) \in Seq(Digit) /\ ReadsTo(q, PutVarint(v), NumberRead(q, v))
<1> DEFINE bytes == PutVarint(v)
<1>1. PICK r \in [Nat -> Nat], last \in Nat :
        /\ r[0] = v /\ \A k \in Nat : r[k + 1] = r[k] \div BASE
        /\ r[last] < BASE /\ \A j \in 0 .. last - 1 : r[j] >= BASE
        /\ bytes = [k \in 1 .. last + 1 |->
                      [digit |-> r[k - 1] % BASE, more |-> k <= last]]
  BY DigitsOf
<1>2. \A k \in Nat : r[k] \in Nat /\ r[k] % BASE \in Nat
  BY <1>1, Divides
<1>3. bytes \in Seq(Digit) /\ Len(bytes) = last + 1
  <2>1. \A k \in 1 .. last + 1 : [digit |-> r[k - 1] % BASE, more |-> k <= last] \in Digit
    <3> TAKE k \in 1 .. last + 1
    <3>1. k - 1 \in Nat /\ (k <= last) \in BOOLEAN
      OBVIOUS
    <3>2. r[k - 1] % BASE \in Nat
      BY <1>2, <3>1
    <3> QED BY <3>1, <3>2, Zenon DEF Digit
  <2>2. bytes \in [1 .. last + 1 -> Digit]
    BY <1>1, <2>1, Zenon
  <2> QED BY <2>2
<1>4. ASSUME NEW k \in 0 .. last
      PROVE  bytes[k + 1].digit = r[k] % BASE /\ (bytes[k + 1].more <=> k + 1 <= last)
  <2>1. k + 1 \in 1 .. last + 1 /\ (k + 1) - 1 = k
    OBVIOUS
  <2> HIDE DEF bytes
  <2>2. bytes[k + 1] = [digit |-> r[(k + 1) - 1] % BASE, more |-> k + 1 <= last]
    BY <1>1, <2>1, Zenon
  <2>3. bytes[k + 1].more <=> k + 1 <= last
    <3> DEFINE c == k + 1 <= last
               d == r[(k + 1) - 1] % BASE
    <3>1. bytes[k + 1] = [digit |-> d, more |-> c]
      BY <2>2, Zenon
    <3>2. c \in BOOLEAN
      OBVIOUS
    <3> HIDE DEF c, d
    <3>3. bytes[k + 1].more <=> c
      BY <3>1, <3>2
    <3> QED BY <3>3 DEF c
  <2>4. bytes[k + 1].digit = r[k] % BASE
    BY <2>1, <2>2
  <2> QED BY <2>3, <2>4
<1> HIDE DEF bytes
<1>5. PICK s \in Readings(q, bytes) : TRUE
  BY <1>3, CanRead, Zenon DEF ReadsNumber
<1>6. s[0] = q /\ \A i \in 1 .. last + 1 : s[i] = TakeByte(s[i - 1], bytes[i])
  BY <1>3, <1>5 DEF Readings
<1> DEFINE Good(k, w) == w + Place[k] * r[k] = v /\ s[k] = After(q, w, k)
           S == {k \in Nat : k <= last => \E w \in Nat : Good(k, w)}
<1>7. 0 \in S
  <2>1. 0 + Place[0] * r[0] = v
    BY <1>1, PlaceIs
  <2>2. q = After(q, 0, 0)
    BY DEF After, ReadsNumber, Reader
  <2>3. Good(0, 0)
    BY <1>6, <2>1, <2>2
  <2> HIDE DEF Good
  <2> QED BY <2>3
<1>8. ASSUME NEW k \in Nat, k <= last, NEW w \in Nat, Good(k, w)
      PROVE  k < MAX_DIGITS
  <2>1. CASE k = 0
    BY <2>1
  <2>2. CASE k > 0
    <3>1. k - 1 \in 0 .. last - 1 /\ k - 1 \in Nat /\ (k - 1) + 1 = k
      BY <1>8, <2>2
    <3>2. r[k] >= 1
      <4>1. r[k - 1] >= BASE /\ r[k] = r[k - 1] \div BASE /\ r[k - 1] \in Nat
        BY <1>1, <3>1
      <4> QED BY <4>1, Divides
    <3>3. Place[k] \in Nat /\ r[k] \in Nat
      BY <1>1, PlaceIs
    <3>4. Place[k] <= Place[k] * r[k] /\ Place[k] * r[k] \in Nat
      BY <3>2, <3>3
    <3>5. w + Place[k] * r[k] = v
      BY <1>8
    <3>6. Place[k] <= v
      BY <3>3, <3>4, <3>5
    <3>7. MAX_DIGITS \in Nat /\ Place[MAX_DIGITS] \in Nat
      BY PlaceIs, RangeAssumption
    <3>8. MAX_DIGITS <= k => Place[MAX_DIGITS] <= Place[k]
      BY <3>7, PlaceGrows
    <3> QED BY <3>3, <3>6, <3>7, <3>8
  <2> QED BY <2>1, <2>2
<1>9. ASSUME NEW k \in Nat, k \in S PROVE k + 1 \in S
  <2> SUFFICES ASSUME k + 1 <= last PROVE \E w \in Nat : Good(k + 1, w)
    OBVIOUS
  <2>1. /\ k <= last /\ k \in 0 .. last /\ k + 1 \in Nat
        /\ k + 1 \in 1 .. last + 1 /\ (k + 1) - 1 = k
    OBVIOUS
  <2>2. PICK w \in Nat : Good(k, w)
    <3> HIDE DEF Good
    <3> QED BY <1>9, <2>1
  <2> DEFINE P == Place[k]
             m == r[k] % BASE
             d == r[k + 1]
             x == w + m * P
  <2>3. BASE \in Nat /\ P \in Nat /\ m \in Nat /\ d \in Nat
    BY <1>2, <2>1, PlaceIs, RangeAssumption
  <2>4. r[k] = BASE * d + m /\ Place[k + 1] = BASE * P
    BY <1>1, Divides, PlaceIs
  <2>5. w + P * r[k] = v
    BY <2>2
  <2>6. k < MAX_DIGITS
    <3> HIDE DEF Good
    <3> QED BY <1>8, <2>1, <2>2
  <2>7. x \in Nat /\ x + Place[k + 1] * d = v
    <3> HIDE DEF P, m, d
    <3>1. m * P \in Nat
      BY <2>3
    <3>2. m * P + (BASE * P) * d = P * (BASE * d + m)
      BY <2>3
    <3>3. (BASE * P) * d \in Nat
      BY <2>3
    <3>4. P * (BASE * d + m) = P * r[k]
      BY <2>4
    <3> QED BY <2>3, <2>4, <2>5, <3>1, <3>2, <3>3, <3>4
  <2>8. s[k + 1] = After(q, x, k + 1)
    <3> DEFINE b == bytes[k + 1]
    <3>1. b.digit = m /\ b.more
      BY <1>4, <2>1
    <3>2. s[k + 1] = TakeByte(After(q, w, k), b)
      BY <1>6, <2>1, <2>2
    <3>3. x = w + b.digit * Place[k]
      BY <3>1
    <3> HIDE DEF b, x
    <3> QED BY <2>6, <2>7, <3>1, <3>2, <3>3, TakesDigit
  <2>9. Good(k + 1, x)
    <3> HIDE DEF x
    <3> QED BY <2>7, <2>8 DEF d
  <2> HIDE DEF Good, x
  <2> QED BY <2>7, <2>9
<1>10. PICK w \in Nat : Good(last, w)
  <2>1. \A k \in Nat : k \in S
    <3> HIDE DEF S
    <3> QED BY <1>7, <1>9, Induct
  <2> HIDE DEF Good
  <2> QED BY <2>1
<1>11. s[last + 1] = NumberRead(q, v)
  <2> DEFINE d == r[last]
  <2>1. /\ last + 1 \in 1 .. last + 1 /\ (last + 1) - 1 = last /\ last \in 0 .. last
        /\ (last + 1 <= last) = FALSE
    OBVIOUS
  <2>2. d \in Nat /\ r[last] % BASE = d
    BY <1>1, Divides
  <2> DEFINE b == bytes[last + 1]
  <2>3. b.digit = d /\ ~b.more
    BY <1>4, <2>1, <2>2
  <2>4. s[last + 1] = TakeByte(After(q, w, last), b)
    BY <1>6, <1>10, <2>1
  <2>5. last < MAX_DIGITS
    <3> HIDE DEF Good
    <3> QED BY <1>8, <1>10
  <2>6. v = w + b.digit * Place[last]
    <3>1. Place[last] \in Nat /\ w + Place[last] * d = v
      BY <1>10, PlaceIs
    <3> HIDE DEF d, b
    <3> QED BY <2>2, <2>3, <3>1
  <2> HIDE DEF b
  <2> QED BY <2>3, <2>4, <2>5, <2>6, TakesLastDigit
<1> QED BY <1>3, <1>5, <1>11 DEF ReadsTo, bytes

\* decode behind the spans q, the last of which ends at p.
Behind(q, p) == [Fresh EXCEPT !.spans = q, !.prev = p]

(***************************************************************************)
(* Between two spans a number is read, the distance to the next one.       *)
(***************************************************************************)
LEMMA BehindIs ==
  ASSUME NEW q \in Seq(Nat \X Nat), NEW p \in Nat
  PROVE  /\ ReadsNumber(Behind(q, p)) /\ Behind(q, p).reads = "gap"
         /\ Behind(q, p).spans = q /\ Behind(q, p).prev = p
<1>1. Behind(q, p) \in Reader
  BY FreshIs DEF Behind, Reader
<1>2. /\ Behind(q, p).error = "" /\ Behind(q, p).value = 0 /\ Behind(q, p).digits = 0
      /\ Behind(q, p).reads = "gap" /\ Behind(q, p).spans = q /\ Behind(q, p).prev = p
  BY DEF Behind, Fresh
<1> QED BY <1>1, <1>2 DEF ReadsNumber

(***************************************************************************)
(* A distance and a length read are one more span.                         *)
(***************************************************************************)
LEMMA SpanReadsBack ==
  ASSUME MAX_DIGITS > 0, NEW q \in Seq(Nat \X Nat), NEW p \in Nat,
         NEW v \in Nat, v < Place[MAX_DIGITS],
         NEW l \in Nat, l < Place[MAX_DIGITS], l > 0
  PROVE  /\ PutVarint(v) \o PutVarint(l) \in Seq(Digit)
         /\ ReadsTo(Behind(q, p), PutVarint(v) \o PutVarint(l),
                    Behind(Append(q, <<p + v, l>>), p + v + l))
<1> DEFINE st == Behind(q, p)
           mid == [st EXCEPT !.reads = "len", !.gap = v]
           to == Behind(Append(q, <<p + v, l>>), p + v + l)
<1>1. ReadsNumber(st) /\ st.reads = "gap" /\ st.spans = q /\ st.prev = p
  BY BehindIs
<1>2. NumberRead(st, v) = mid
  BY <1>1 DEF NumberRead
<1>3. ReadsNumber(mid) /\ mid.reads = "len" /\ mid.gap = v /\ mid.spans = q /\ mid.prev = p
  <2> HIDE DEF st
  <2>1. mid \in Reader
    BY <1>1 DEF ReadsNumber, Reader
  <2>2. /\ mid.error = "" /\ mid.value = 0 /\ mid.digits = 0
        /\ mid.reads = "len" /\ mid.gap = v /\ mid.spans = q /\ mid.prev = p
    BY <1>1 DEF ReadsNumber, Reader
  <2> HIDE DEF mid
  <2> QED BY <2>1, <2>2 DEF ReadsNumber
<1> HIDE DEF st, mid
<1>4. NumberRead(mid, l) = to
  <2>1. mid.reads # "gap"
    BY <1>3
  <2> QED BY <1>3, <2>1, Zenon DEF NumberRead, Behind
<1> HIDE DEF to
<1>5. PutVarint(v) \in Seq(Digit) /\ ReadsTo(st, PutVarint(v), mid)
  BY <1>1, <1>2, NumberReadsBack
<1>6. PutVarint(l) \in Seq(Digit) /\ ReadsTo(mid, PutVarint(l), to)
  BY <1>3, <1>4, NumberReadsBack
<1>7. ReadsTo(st, PutVarint(v) \o PutVarint(l), to)
  <2>1. st \in Reader
    BY <1>1 DEF ReadsNumber
  <2> QED BY <1>5, <1>6, <2>1, ReadsOn
<1>8. PutVarint(v) \o PutVarint(l) \in Seq(Digit)
  BY <1>5, <1>6
<1> QED BY <1>7, <1>8 DEF st, to

(***************************************************************************)
(* What encode wrote is read to its end and yields the spans.              *)
(***************************************************************************)
LEMMA EncodedIsRead ==
  ASSUME NEW rs, CanonicalForm(rs)
  PROVE  Encode(rs) \in Seq(Digit) /\ \E p \in Nat : ReadsTo(Fresh, Encode(rs), Behind(rs, p))
<1> DEFINE n == Len(rs)
           prev(i) == IF i = 1 THEN 0 ELSE End(rs[i - 1])
           v(i) == Start(rs[i]) - prev(i)
           w == [i \in 1 .. n |-> PutVarint(v(i)) \o PutVarint(rs[i][2])]
           last(i) == IF i = 0 THEN 0 ELSE End(rs[i])
           At(i) == Behind(SubSeq(rs, 1, i), last(i))
<1>1. n \in Nat /\ DOMAIN rs = 1 .. n
  BY DEF CanonicalForm
<1>2. rs \in Seq(Nat \X Nat)
  <2>1. rs \in Seq(Position \X Position) /\ \A i \in DOMAIN rs : rs[i] \in Nat \X Nat
    BY SpanIs, RangeAssumption DEF CanonicalForm, Position
  <2> QED BY <2>1
<1>3. /\ n > 0 => MAX_DIGITS > 0
      /\ \A x \in Nat : x <= NBytes => x < Place[MAX_DIGITS]
  <2>1. /\ NBytes \in Nat /\ MAX_DIGITS \in Nat /\ NBytes < Place[MAX_DIGITS]
        /\ Place[MAX_DIGITS] \in Nat /\ Place[0] = 1
    BY PlaceIs, RangeAssumption, DigitsSuffice
  <2>2. n > 0 => NBytes > 0
    <3> SUFFICES ASSUME n > 0 PROVE NBytes > 0
      OBVIOUS
    <3>1. 1 \in DOMAIN rs
      BY <1>1
    <3>2. Start(rs[1]) \in Nat /\ Start(rs[1]) < End(rs[1]) /\ End(rs[1]) <= NBytes
          /\ End(rs[1]) \in Nat
      BY <3>1, SpanIs
    <3> QED BY <2>1, <3>2
  <2>3. \A x \in Nat : x <= NBytes => x < Place[MAX_DIGITS]
    BY <2>1
  <2>4. NBytes > 0 => MAX_DIGITS > 0
    BY <2>1
  <2> QED BY <2>2, <2>3, <2>4
<1>4. ASSUME NEW i \in 1 .. n
      PROVE  /\ v(i) \in Nat /\ v(i) < Place[MAX_DIGITS] /\ prev(i) = last(i - 1)
             /\ rs[i][2] \in Nat /\ rs[i][2] < Place[MAX_DIGITS] /\ rs[i][2] > 0
             /\ prev(i) \in Nat /\ <<prev(i) + v(i), rs[i][2]>> = rs[i]
             /\ prev(i) + v(i) + rs[i][2] = last(i)
  <2>1. /\ rs[i] = <<Start(rs[i]), rs[i][2]>> /\ Start(rs[i]) \in Nat /\ End(rs[i]) \in Nat
        /\ rs[i][2] \in Nat /\ Start(rs[i]) < End(rs[i]) /\ End(rs[i]) <= NBytes
        /\ End(rs[i]) = Start(rs[i]) + rs[i][2]
    BY <1>1, SpanIs
  <2>2. prev(i) \in Nat /\ prev(i) <= Start(rs[i]) /\ prev(i) = last(i - 1)
    <3>1. CASE i = 1
      BY <2>1, <3>1
    <3>2. CASE i # 1
      <4>1. i - 1 \in 1 .. n - 1 /\ i - 1 \in DOMAIN rs /\ (i - 1) + 1 = i /\ i - 1 # 0
        BY <1>1, <3>2
      <4>2. End(rs[i - 1]) < Start(rs[i])
        BY <4>1 DEF CanonicalForm
      <4>3. End(rs[i - 1]) \in Nat
        BY <4>1, SpanIs
      <4> QED BY <2>1, <3>2, <4>1, <4>2, <4>3
    <3> QED BY <3>1, <3>2
  <2>3. v(i) \in Nat /\ v(i) <= NBytes /\ rs[i][2] <= NBytes /\ rs[i][2] > 0
    <3> HIDE DEF prev
    <3> QED BY <2>1, <2>2, RangeAssumption
  <2>4. prev(i) + v(i) = Start(rs[i])
    <3> HIDE DEF prev
    <3> QED BY <2>1, <2>2
  <2>5. last(i) = End(rs[i])
    BY <1>1
  <2>6. v(i) < Place[MAX_DIGITS] /\ rs[i][2] < Place[MAX_DIGITS]
    <3> HIDE DEF v
    <3> QED BY <1>3, <2>1, <2>3
  <2> HIDE DEF v, prev, last
  <2> QED BY <2>1, <2>2, <2>3, <2>4, <2>5, <2>6
<1>5. Encode(rs) = FlattenSeq(w)
  BY <1>1 DEF Encode
<1> HIDE DEF n, v, prev, last
<1>6. ASSUME NEW i \in 1 .. n, NEW q \in Seq(Nat \X Nat)
      PROVE  /\ w[i] \in Seq(Digit)
             /\ ReadsTo(Behind(q, last(i - 1)), w[i], Behind(Append(q, rs[i]), last(i)))
  <2>1. MAX_DIGITS > 0
    BY <1>1, <1>3
  <2>2. /\ PutVarint(v(i)) \o PutVarint(rs[i][2]) \in Seq(Digit)
        /\ ReadsTo(Behind(q, prev(i)), PutVarint(v(i)) \o PutVarint(rs[i][2]),
                   Behind(Append(q, <<prev(i) + v(i), rs[i][2]>>), prev(i) + v(i) + rs[i][2]))
    BY <1>4, <2>1, SpanReadsBack
  <2>3. w[i] = PutVarint(v(i)) \o PutVarint(rs[i][2])
    OBVIOUS
  <2> HIDE DEF w
  <2> QED BY <1>4, <2>2, <2>3
<1>7. w \in Seq(Seq(Digit)) /\ Len(w) = n
  <2>1. w = [i \in 1 .. n |-> w[i]]
    OBVIOUS
  <2> HIDE DEF w
  <2>2. \A i \in 1 .. n : w[i] \in Seq(Digit)
    BY <1>2, <1>6
  <2>3. w \in [1 .. n -> Seq(Digit)]
    BY <2>1, <2>2, Zenon
  <2> QED BY <1>1, <2>3
<1> HIDE DEF w
<1>8. PICK out \in [0 .. n -> Seq(Digit)] :
        /\ out[0] = <<>> /\ FlattenSeq(w) = out[n]
        /\ \A i \in 1 .. n : out[i] = out[i - 1] \o w[i]
  <2>1. \E out \in [0 .. Len(w) -> Seq(Digit)] :
           /\ out[0] = <<>> /\ FlattenSeq(w) = out[Len(w)]
           /\ \A i \in 1 .. Len(w) : out[i] = out[i - 1] \o w[i]
    BY <1>7, JoinRuns
  <2> QED BY <1>7, <2>1, Zenon
<1> DEFINE S == {i \in Nat : i <= n => ReadsTo(Fresh, out[i], At(i))}
<1>9. \A i \in 0 .. n : SubSeq(rs, 1, i) \in Seq(Nat \X Nat) /\ last(i) \in Nat
  <2> TAKE i \in 0 .. n
  <2>1. SubSeq(rs, 1, i) \in Seq(Nat \X Nat)
    BY <1>1, <1>2 DEF n
  <2>2. last(i) \in Nat
    BY <1>1, SpanIs DEF last
  <2> QED BY <2>1, <2>2
<1>10. 0 \in S
  <2>1. SubSeq(rs, 1, 0) = <<>> /\ last(0) = 0
    BY <1>2 DEF last
  <2>2. At(0) = Fresh
    <3>1. At(0) = Behind(<<>>, 0)
      BY <2>1, Zenon
    <3> HIDE DEF At
    <3>2. Fresh.spans = <<>> /\ Fresh.prev = 0
      BY DEF Fresh
    <3>3. Behind(<<>>, 0) = Fresh
      BY <3>2, FreshIs DEF Behind, Reader
    <3> QED BY <3>1, <3>3
  <2>3. [i \in 0 .. 0 |-> Fresh] \in Readings(Fresh, <<>>)
    BY FreshIs DEF Readings
  <2>4. ReadsTo(Fresh, <<>>, Fresh)
    BY <2>3 DEF ReadsTo
  <2> HIDE DEF At
  <2> QED BY <1>8, <2>2, <2>4
<1>11. ASSUME NEW i \in Nat, i \in S PROVE i + 1 \in S
  <2> SUFFICES ASSUME i + 1 <= n PROVE ReadsTo(Fresh, out[i + 1], At(i + 1))
    OBVIOUS
  <2> DEFINE q == SubSeq(rs, 1, i)
  <2>1. i \in 0 .. n /\ i + 1 \in 1 .. n /\ (i + 1) - 1 = i /\ i <= n
    BY <1>1
  <2>2. q \in Seq(Nat \X Nat) /\ Append(q, rs[i + 1]) = SubSeq(rs, 1, i + 1)
    BY <1>1, <1>2, <2>1 DEF n
  <2>3. ReadsTo(Fresh, out[i], Behind(q, last(i)))
    BY <1>11, <2>1
  <2> HIDE DEF q
  <2>4. w[i + 1] \in Seq(Digit) /\ ReadsTo(Behind(q, last(i)), w[i + 1], Behind(Append(q, rs[i + 1]), last(i + 1)))
    <3>1. ReadsTo(Behind(q, last((i + 1) - 1)), w[i + 1], Behind(Append(q, rs[i + 1]), last(i + 1)))
      BY <1>6, <2>1, <2>2
    <3>2. last((i + 1) - 1) = last(i)
      BY <2>1
    <3> QED BY <1>6, <2>1, <2>2, <3>1, <3>2
  <2>5. ReadsTo(Fresh, out[i] \o w[i + 1], Behind(Append(q, rs[i + 1]), last(i + 1)))
    <3>1. out[i] \in Seq(Digit)
      BY <1>8, <2>1
    <3> QED BY <2>3, <2>4, <3>1, FreshIs, ReadsOn
  <2>6. out[i + 1] = out[i] \o w[i + 1]
    BY <1>8, <2>1
  <2> QED BY <2>2, <2>5, <2>6
<1>12. ReadsTo(Fresh, out[n], At(n))
  <2>1. \A i \in Nat : i \in S
    <3> HIDE DEF S
    <3> QED BY <1>10, <1>11, Induct
  <2> HIDE DEF At
  <2> QED BY <1>1, <2>1
<1>13. SubSeq(rs, 1, n) = rs
  BY <1>2 DEF n
<1>14. out[n] \in Seq(Digit) /\ last(n) \in Nat
  BY <1>1, <1>8, <1>9
<1> QED BY <1>5, <1>8, <1>12, <1>13, <1>14

(***************************************************************************)
(* decode undoes encode.                                                   *)
(***************************************************************************)
LEMMA DecodesBack ==
  ASSUME NEW rs, CanonicalForm(rs)
  PROVE  Decode(Encode(rs)) = [error |-> "", spans |-> rs]
<1> DEFINE bytes == Encode(rs)
<1>1. PICK p \in Nat : bytes \in Seq(Digit) /\ ReadsTo(Fresh, bytes, Behind(rs, p))
  BY EncodedIsRead
<1> HIDE DEF bytes
<1>2. PICK s \in Readings(Fresh, bytes) : s[Len(bytes)] = Behind(rs, p)
  BY <1>1 DEF ReadsTo
<1> DEFINE end == s[Len(bytes)]
<1>3. end.error = "" /\ end.reads = "gap" /\ end.spans = rs
  BY <1>2 DEF Behind, Fresh
<1>4. end.digits = 0
  BY <1>2 DEF Behind, Fresh
<1>5. Decode(bytes) = IF end.error # "" THEN [error |-> end.error]
                      ELSE IF end.reads = "len" \/ end.digits > 0
                           THEN [error |-> "truncated"]
                      ELSE [error |-> "", spans |-> end.spans]
  BY <1>1, DecodeReads
<1> HIDE DEF end
<1>6. end.reads # "len" /\ ~(end.digits > 0)
  <2>1. end.reads # "len"
    BY <1>3
  <2>2. ~(end.digits > 0)
    BY <1>4
  <2> QED BY <2>1, <2>2
<1>7. Decode(bytes) = [error |-> "", spans |-> rs]
  BY <1>3, <1>5, <1>6, Zenon
<1> QED BY <1>7 DEF bytes

(***************************************************************************)
(* What is decoded of the first n bytes is refused or claims no byte that  *)
(* all of them do not.                                                     *)
(***************************************************************************)
LEMMA TornClaimsLess ==
  ASSUME NEW bytes \in Seq(Digit), NEW rs, CanonicalForm(rs),
         NEW s \in Readings(Fresh, bytes), s[Len(bytes)].spans = rs,
         NEW n \in Nat, n <= Len(bytes)
  PROVE  LET torn == Decode(SubSeq(bytes, 1, n)) IN
         torn.error = "" => Bytes(torn.spans) \subseteq Bytes(rs)
<1> DEFINE part == SubSeq(bytes, 1, n)
           torn == Decode(part)
           r == [i \in 0 .. n |-> s[i]]
<1>1. /\ part \in Seq(Digit) /\ Len(part) = n
      /\ \A i \in 1 .. n : part[i] = bytes[i]
  OBVIOUS
<1> HIDE DEF part
<1>2. /\ s \in [0 .. Len(bytes) -> Reader] /\ s[0] = Fresh
      /\ \A i \in 1 .. Len(bytes) : s[i] = TakeByte(s[i - 1], bytes[i])
  BY DEF Readings
<1>3. r \in Readings(Fresh, part)
  <2>1. \A i \in 0 .. n : i \in 0 .. Len(bytes)
    OBVIOUS
  <2>2. r \in [0 .. n -> Reader] /\ r[0] = Fresh
    <3>1. \A i \in 0 .. n : s[i] \in Reader
      BY <1>2, <2>1
    <3>2. 0 \in 0 .. n
      OBVIOUS
    <3> QED BY <1>2, <3>1, <3>2, Zenon
  <2>3. ASSUME NEW i \in 1 .. n PROVE r[i] = TakeByte(r[i - 1], part[i])
    <3>1. i \in 0 .. n /\ i - 1 \in 0 .. n /\ i \in 1 .. Len(bytes)
      OBVIOUS
    <3>2. r[i] = s[i] /\ r[i - 1] = s[i - 1]
      BY <3>1
    <3> HIDE DEF r
    <3> QED BY <1>1, <1>2, <3>1, <3>2
  <2> HIDE DEF r
  <2> QED BY <1>1, <2>2, <2>3 DEF Readings
<1> DEFINE end == r[Len(part)]
<1>4. torn = IF end.error # "" THEN [error |-> end.error]
             ELSE IF end.reads = "len" \/ end.digits > 0 THEN [error |-> "truncated"]
             ELSE [error |-> "", spans |-> end.spans]
  BY <1>1, <1>3, DecodeReads, Zenon
<1>5. end = s[n] /\ n \in 0 .. Len(bytes)
  BY <1>1
<1> HIDE DEF end
<1>6. torn.error = "" => torn.spans = s[n].spans
  <2> HIDE DEF torn
  <2> QED BY <1>4, <1>5
<1> DEFINE q == s[n].spans
<1>7. Extends(q, rs)
  BY <1>5, FreshIs, SpansGrow
<1>8. DOMAIN q = 1 .. Len(q) /\ Len(q) \in Nat /\ DOMAIN rs = 1 .. Len(rs) /\ Len(rs) \in Nat
  <2>1. q \in Seq(Nat \X Nat)
    BY <1>2, <1>5 DEF Reader
  <2>2. rs \in Seq(Position \X Position)
    BY DEF CanonicalForm
  <2> HIDE DEF q
  <2> QED BY <2>1, <2>2
<1> HIDE DEF q
<1>9. \A i \in DOMAIN q : i \in DOMAIN rs /\ q[i] = rs[i]
  BY <1>7, <1>8 DEF Extends
<1>10. Bytes(q) \subseteq Bytes(rs)
  BY <1>9 DEF Bytes
<1> HIDE DEF torn
<1>11. torn.error = "" => Bytes(torn.spans) \subseteq Bytes(rs)
  BY <1>6, <1>10 DEF q
<1> QED BY <1>11, Zenon DEF torn, part

(***************************************************************************)
(* A checkpoint reads back as what was written.                            *)
(***************************************************************************)
LEMMA CheckpointsAreFaithful ==
  ASSUME Canonical, DenotesCovered
  PROVE  ReloadIsFaithful
<1>1. CanonicalForm(spans) /\ Bytes(spans) = covered
  BY DEF Canonical, DenotesCovered
<1>2. Decode(Encode(spans)) = [error |-> "", spans |-> spans]
  BY <1>1, DecodesBack
<1> DEFINE bytes == Encode(spans)
<1>3. PICK p \in Nat : bytes \in Seq(Digit) /\ ReadsTo(Fresh, bytes, Behind(spans, p))
  BY <1>1, EncodedIsRead
<1> HIDE DEF bytes
<1>4. PICK s \in Readings(Fresh, bytes) : s[Len(bytes)] = Behind(spans, p)
  BY <1>3 DEF ReadsTo
<1>5. s[Len(bytes)].spans = spans
  BY <1>4 DEF Behind, Fresh
<1>6. ASSUME NEW n \in 0 .. Len(bytes)
      PROVE  LET torn == Decode(SubSeq(bytes, 1, n)) IN
             torn.error = "" => Bytes(torn.spans) \subseteq covered
  <2>1. n \in Nat /\ n <= Len(bytes)
    BY <1>3
  <2> QED BY <1>1, <1>3, <1>5, <2>1, TornClaimsLess
<1> QED BY <1>2, <1>6 DEF ReloadIsFaithful, bytes

-----------------------------------------------------------------------------
(* Every sequence of updates.                                              *)

\* What every update relies on and leaves true.
IInv == Canonical /\ DenotesCovered

(***************************************************************************)
(* The empty record of Init is canonical and covers nothing.               *)
(***************************************************************************)
LEMMA StartsEmpty == Init => IInv
<1> SUFFICES ASSUME Init PROVE IInv
  OBVIOUS
<1>1. spans = <<>> /\ covered = {}
  BY DEF Init
<1> QED BY <1>1, NoSpan DEF IInv, Canonical, DenotesCovered

(***************************************************************************)
(* Every update keeps the record canonical and true of the covered bytes.  *)
(***************************************************************************)
LEMMA UpdatesKeepIt == IInv /\ [Next]_vars => IInv'
<1> SUFFICES ASSUME IInv, [Next]_vars PROVE CanonicalForm(spans') /\ Bytes(spans') = covered'
  BY DEF IInv, Canonical, DenotesCovered
<1>1. CanonicalForm(spans) /\ Bytes(spans) = covered
  BY DEF IInv, Canonical, DenotesCovered
<1>2. \A x \in Position : x \in Nat
  BY RangeAssumption DEF Position
<1>3. ASSUME NEW start \in Position, NEW len \in Position, start + len <= NBytes,
             DoInsert(start, len)
      PROVE  CanonicalForm(spans') /\ Bytes(spans') = covered'
  BY <1>1, <1>2, <1>3, InsertIs DEF DoInsert
<1>4. ASSUME NEW start \in Position, NEW len \in Position, start + len <= NBytes,
             DoRemove(start, len)
      PROVE  CanonicalForm(spans') /\ Bytes(spans') = covered'
  BY <1>1, <1>2, <1>4, RemoveIs DEF DoRemove
<1>5. ASSUME NEW limit \in Position, DoTruncate(limit)
      PROVE  CanonicalForm(spans') /\ Bytes(spans') = covered'
  BY <1>1, <1>5, TruncateIs DEF DoTruncate
<1>6. ASSUME NEW margin \in Position, DoRewind(margin)
      PROVE  CanonicalForm(spans') /\ Bytes(spans') = covered'
  BY <1>1, <1>6, RewindIs DEF DoRewind
<1>7. ASSUME DoReload PROVE CanonicalForm(spans') /\ Bytes(spans') = covered'
  <2>1. Decode(Encode(spans)) = [error |-> "", spans |-> spans]
    BY <1>1, DecodesBack
  <2>2. spans' = Decode(Encode(spans)).spans /\ covered' = covered
    BY <1>7 DEF DoReload
  <2>3. Decode(Encode(spans)).spans = spans
    <3> DEFINE d == Decode(Encode(spans))
    <3> HIDE DEF d
    <3>1. d = [error |-> "", spans |-> spans]
      BY <2>1 DEF d
    <3>2. d.spans = spans
      BY <3>1
    <3> QED BY <3>2 DEF d
  <2> QED BY <1>1, <2>2, <2>3
<1>8. ASSUME UNCHANGED vars PROVE CanonicalForm(spans') /\ Bytes(spans') = covered'
  BY <1>1, <1>8 DEF vars
<1> QED BY <1>3, <1>4, <1>5, <1>6, <1>7, <1>8 DEF Next

(***************************************************************************)
(* Whatever is inserted, removed, truncated, rewound and read back from    *)
(* the store: the record stays sorted, disjoint, non-adjacent and without  *)
(* empty spans (intervals.rs:7-11).                                        *)
(***************************************************************************)
THEOREM StaysCanonical == Spec => []Canonical
<1>1. IInv => Canonical
  BY DEF IInv
<1> QED BY <1>1, StartsEmpty, UpdatesKeepIt, PTL DEF Spec

(***************************************************************************)
(* And it denotes exactly the bytes that went in and were not taken out:   *)
(* the set that the other modules keep in its place.                       *)
(***************************************************************************)
THEOREM DenotesTheCovered == Spec => []DenotesCovered
<1>1. IInv => DenotesCovered
  BY DEF IInv
<1> QED BY <1>1, StartsEmpty, UpdatesKeepIt, PTL DEF Spec

(***************************************************************************)
(* contains_all, gaps_in and first_gap_at_or_after answer exactly, in      *)
(* every record that can be reached and for every window.                  *)
(***************************************************************************)
THEOREM QueriesStayExact == Spec => []QueriesAreExact
<1>1. IInv => QueriesAreExact
  BY AnswersAreExact DEF IInv
<1> QED BY <1>1, StartsEmpty, UpdatesKeepIt, PTL DEF Spec

(***************************************************************************)
(* Every checkpoint reads back as what was written, and no torn one claims *)
(* a byte that is not covered.                                             *)
(***************************************************************************)
THEOREM ReloadsStayFaithful == Spec => []ReloadIsFaithful
<1>1. IInv => ReloadIsFaithful
  BY CheckpointsAreFaithful DEF IInv
<1> QED BY <1>1, StartsEmpty, UpdatesKeepIt, PTL DEF Spec
=============================================================================
