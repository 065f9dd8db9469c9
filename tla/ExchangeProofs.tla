--------------------------- MODULE ExchangeProofs ----------------------------
(***************************************************************************)
(* For every file, rewind, window, number of windows, redirects, attempts  *)
(* and links: a download over ranges puts every block where it belongs     *)
(* although the server may change its ways at any time, and a replacement  *)
(* that was accepted has the bytes of the file that was begun at both ends *)
(* of what is kept.  The argument is IInv: until a worker starts, every    *)
(* kept block is in its place; a body that is read begins where its claim  *)
(* began; and what was read of the windows so far agreed with the link.    *)
(* FairlyJudged, further down, shows that no good link is refused, and     *)
(* Effort that a command cannot go on for ever.                            *)
(***************************************************************************)
EXTENDS Exchange, FiniteSetTheorems, WellFoundedInduction, TLAPS

-----------------------------------------------------------------------------
(* Least, greatest and n-th elements of sets of numbers, by which the       *)
(* windows are found.                                                      *)

(***************************************************************************)
(* A set of natural numbers that is not empty has a least element.         *)
(***************************************************************************)
LEMMA LeastNat ==
  ASSUME NEW S \in SUBSET Nat, S # {}
  PROVE  \E m \in S : \A n \in S : m <= n
<1> DEFINE R == OpToRel(<, Nat)
<1>1. IsWellFoundedOn(R, Nat)
  BY NatLessThanWellFounded, Zenon
<1>2. \A m, n \in Nat : n < m => <<n, m>> \in R
  BY Zenon DEF OpToRel
<1> HIDE DEF R
<1>3. PICK m \in S : \A n \in S : <<n, m>> \notin R
  BY <1>1, WFMin, Zenon
<1>4. \A n \in S : ~(n < m)
  BY <1>2, <1>3
<1> QED BY <1>3, <1>4

(***************************************************************************)
(* One that is bounded has a greatest element, too.                        *)
(***************************************************************************)
LEMMA GreatestNat ==
  ASSUME NEW S \in SUBSET Nat, S # {}, NEW top \in Nat, \A n \in S : n <= top
  PROVE  \E m \in S : \A n \in S : n <= m
<1> DEFINE D == {top - n : n \in S}
<1>0. \A n \in S : n \in Nat /\ top - n \in Nat
  OBVIOUS
<1>1. D \in SUBSET Nat /\ D # {}
  BY <1>0
<1>2. PICK d \in D : \A e \in D : d <= e
  <2> HIDE DEF D
  <2> QED BY <1>1, LeastNat
<1>3. PICK m \in S : d = top - m
  BY <1>2
<1>4. ASSUME NEW n \in S PROVE n <= m
  <2>1. top - n \in D
    OBVIOUS
  <2>2. top - m <= top - n
    BY <1>2, <1>3, <2>1
  <2> QED BY <1>0, <2>2
<1> QED BY <1>4

Below(S, b) == {c \in S : c < b}

(***************************************************************************)
(* Every finite set of numbers has, for each n below its size, an element  *)
(* with n smaller ones.                                                    *)
(***************************************************************************)
LEMMA NthExists ==
  ASSUME NEW S \in SUBSET Nat, NEW top \in Nat, \A b \in S : b <= top,
         NEW n \in Nat, n < Cardinality(S)
  PROVE  \E b \in S : Cardinality(Below(S, b)) = n
<1>0. \A x \in S : x \in Nat
  OBVIOUS
<1>1. IsFiniteSet(S) /\ Cardinality(S) \in Nat
  BY FS_BoundedSetOfNaturals, FS_CardinalityType
<1>2. ASSUME NEW b \in S
      PROVE  IsFiniteSet(Below(S, b)) /\ Cardinality(Below(S, b)) \in Nat
  <2>1. Below(S, b) \in SUBSET S
    BY DEF Below
  <2> QED BY <1>1, <2>1, FS_Subset, FS_CardinalityType
<1> DEFINE X == {b \in S : n <= Cardinality(Below(S, b))}
<1>3. X # {}
  <2>1. S # {}
    BY FS_EmptySet
  <2>2. PICK m \in S : \A b \in S : b <= m
    BY <2>1, GreatestNat
  <2>3. Below(S, m) = S \ {m}
    <3>1. \A c \in S : c < m <=> c # m
      BY <1>0, <2>2
    <3> QED BY <3>1, Zenon DEF Below
  <2>4. Cardinality(Below(S, m)) = Cardinality(S) - 1
    BY <1>1, <2>3, FS_RemoveElement
  <2>5. n <= Cardinality(Below(S, m))
    BY <1>1, <2>4
  <2> QED BY <2>5
<1>4. PICK b \in X : \A c \in X : b <= c
  <2>1. X \in SUBSET Nat
    OBVIOUS
  <2> HIDE DEF X
  <2> QED BY <1>3, <2>1, LeastNat
<1>5. b \in S /\ n <= Cardinality(Below(S, b)) /\ Cardinality(Below(S, b)) \in Nat
  BY <1>2, <1>4
<1>6. CASE Cardinality(Below(S, b)) > n
  <2>1. Below(S, b) # {}
    <3>1. Cardinality(Below(S, b)) # 0
      BY <1>5, <1>6
    <3> QED BY <3>1, FS_EmptySet
  <2>2. Below(S, b) \in SUBSET Nat /\ \A c \in Below(S, b) : c <= top
    BY DEF Below
  <2>3. PICK p \in Below(S, b) : \A c \in Below(S, b) : c <= p
    BY <2>1, <2>2, GreatestNat
  <2>4. p \in S /\ p < b /\ Below(S, p) = Below(S, b) \ {p}
    <3>1. p \in S /\ p < b
      BY <2>3 DEF Below
    <3>2. \A c \in S : c < p <=> c < b /\ c # p
      <4>1. \A c \in S : c < b => c <= p
        BY <2>3 DEF Below
      <4> QED BY <1>0, <1>5, <3>1, <4>1
    <3> QED BY <3>1, <3>2, Zenon DEF Below
  <2>5. Cardinality(Below(S, p)) = Cardinality(Below(S, b)) - 1
    <3>1. IsFiniteSet(Below(S, b))
      BY <1>2, <1>5
    <3>2. Cardinality(Below(S, b) \ {p})
            = IF p \in Below(S, b) THEN Cardinality(Below(S, b)) - 1 ELSE Cardinality(Below(S, b))
      BY <3>1, FS_RemoveElement
    <3> QED BY <2>3, <2>4, <3>2, Zenon
  <2>6. n <= Cardinality(Below(S, p))
    BY <1>5, <1>6, <2>5
  <2>7. p \in X
    BY <2>4, <2>6
  <2>8. b <= p
    BY <1>4, <2>7
  <2> QED BY <1>5, <2>4, <2>8
<1> QED BY <1>5, <1>6

(***************************************************************************)
(* And not two.                                                            *)
(***************************************************************************)
LEMMA NthIsUnique ==
  ASSUME NEW S \in SUBSET Nat, IsFiniteSet(S), NEW a \in S, NEW b \in S,
         Cardinality(Below(S, a)) = Cardinality(Below(S, b))
  PROVE  a = b
<1>1. ASSUME NEW x \in S, NEW y \in S, x < y
      PROVE  Cardinality(Below(S, x)) # Cardinality(Below(S, y))
  <2>1. IsFiniteSet(Below(S, x)) /\ IsFiniteSet(Below(S, y))
    BY FS_Subset DEF Below
  <2>2. Below(S, x) \in SUBSET Below(S, y)
    <3>1. \A c \in S : c < x => c < y
      <4>1. \A c \in S : c \in Nat
        OBVIOUS
      <4> QED BY <1>1, <4>1
    <3> QED BY <3>1, Zenon DEF Below
  <2>3. x \in Below(S, y) /\ x \notin Below(S, x)
    BY <1>1 DEF Below
  <2> QED BY <2>1, <2>2, <2>3, FS_Subset
<1>2. a < b \/ b < a \/ a = b
  OBVIOUS
<1> QED BY <1>1, <1>2

\* What a command is, and what the server can be.
Shape ==
  /\ TypeOK
  /\ link \in Scenario /\ link.size <= N
  /\ DOMAIN conv = DOMAIN Hello
  /\ conv.sent \in Nat /\ conv.body.count \in Nat

\* Until a worker has started, and ever after if ranges work.
BeforeWork == {"probing", "comparing", "verifying", "deciding"}

InPlace ==
  conv.pc \in BeforeWork \/ conv.pr.range = "Supported"
    => \A b \in done : part[b] = Byte(part[b][1], b)

Streams ==
  conv.pc = "streaming" =>
    /\ conv.body.seed \in 0 .. 2 /\ conv.body.from \in Nat
    /\ conv.body.from + conv.body.count <= N
    /\ conv.pr.range = "Supported" => conv.body.from + conv.sent = conv.at

\* The blocks at which a window would agree with the link, and the windows at
\* the ends of what is kept.
Length == WindowLength(done)
Agreeing ==
  {w \in Block : \A n \in 0 .. Length - 1 : w + n < N => part[w + n] = Byte(link.seed, w + n)}
EndWindows == Ends(done)

Compared ==
  /\ conv.pc = "verifying" =>
       /\ conv.pre \in Preliminary
       /\ done # {} /\ conv.windows # {} /\ conv.windows \subseteq done
       /\ EndWindows \subseteq conv.windows \cup Agreeing
  /\ \/ conv.pc = "deciding" /\ conv.verdict \in {"Resume", "Confirm"}
     \/ conv.pc = "probing" /\ swapped
     => done = {} \/ EndWindows \subseteq Agreeing

IInv == Shape /\ InPlace /\ Streams /\ Compared

-----------------------------------------------------------------------------
(***************************************************************************)
(* A new conversation, and the fields of any.                              *)
(***************************************************************************)
LEMMA HelloIs ==
  /\ DOMAIN Hello = {"pc", "hop", "pr", "pre", "windows", "at", "end", "body", "sent",
                     "attempt", "verdict"}
  /\ Hello.pc = "probing" /\ Hello.hop = 0 /\ Hello.pr = NoProbe /\ Hello.pre = "none"
  /\ Hello.windows = {} /\ Hello.at = 0 /\ Hello.end = 0 /\ Hello.body = NoBody
  /\ Hello.sent = 0 /\ Hello.attempt = 0 /\ Hello.verdict = "none"
BY DEF Hello

(***************************************************************************)
(* Whatever a server turns into, it serves the same content, and no more.  *)
(***************************************************************************)
LEMMA TurnedIs ==
  ASSUME NEW sc \in Scenario, NEW new \in Turned(sc) \cup {Emptied(sc)}
  PROVE  new \in Scenario /\ new.seed = sc.seed /\ new.size <= sc.size
<1>1. ASSUME NEW m \in {"Yes", "No"}
      PROVE  /\ [sc EXCEPT !.ranges = m] \in Scenario
             /\ [sc EXCEPT !.ranges = m].seed = sc.seed
             /\ [sc EXCEPT !.ranges = m].size = sc.size
  BY <1>1 DEF Scenario
<1>2. ASSUME NEW n \in Int
      PROVE  /\ StatusRoute(sc, n) \in Scenario
             /\ StatusRoute(sc, n).seed = sc.seed /\ StatusRoute(sc, n).size = sc.size
  BY <1>2 DEF Scenario, StatusRoute
<1>3. /\ [sc EXCEPT !.gzipAnyway = TRUE] \in Scenario
      /\ [sc EXCEPT !.gzipAnyway = TRUE].seed = sc.seed
      /\ [sc EXCEPT !.gzipAnyway = TRUE].size = sc.size
  BY DEF Scenario
<1>4. /\ [sc EXCEPT !.shift = 1] \in Scenario
      /\ [sc EXCEPT !.shift = 1].seed = sc.seed
      /\ [sc EXCEPT !.shift = 1].size = sc.size
  BY DEF Scenario
<1>5. LET small == [sc EXCEPT !.size = IF @ > 1 THEN @ - 1 ELSE @]
      IN  small \in Scenario /\ small.seed = sc.seed /\ small.size <= sc.size
  BY DEF Scenario
<1>6. Down \in Int /\ Signed(sc, FALSE) = StatusRoute(sc, 403) /\ sc.size \in Nat
  BY DEF Down, Signed, Scenario
<1>7. ASSUME NEW n \in Int, new = StatusRoute(sc, n)
      PROVE  new \in Scenario /\ new.seed = sc.seed /\ new.size <= sc.size
  <2>1. new \in Scenario /\ new.seed = sc.seed /\ new.size = sc.size
    BY <1>2, <1>7
  <2> QED BY <1>6, <2>1
<1>8. \/ \E m \in {"Yes", "No"} : new = [sc EXCEPT !.ranges = m]
      \/ new \in {StatusRoute(sc, Down), StatusRoute(sc, 429), Signed(sc, FALSE)}
      \/ new = [sc EXCEPT !.gzipAnyway = TRUE] \/ new = [sc EXCEPT !.shift = 1]
      \/ new = [sc EXCEPT !.size = IF @ > 1 THEN @ - 1 ELSE @]
      \/ new = StatusRoute(sc, 200)
  <2>1. \/ new \in {[sc EXCEPT !.ranges = m] : m \in {"Yes", "No"}}
        \/ new \in {StatusRoute(sc, Down), StatusRoute(sc, 429), Signed(sc, FALSE)}
        \/ new \in {[sc EXCEPT !.gzipAnyway = TRUE], [sc EXCEPT !.shift = 1],
                    [sc EXCEPT !.size = IF @ > 1 THEN @ - 1 ELSE @]}
        \/ new = StatusRoute(sc, 200)
    BY Zenon DEF Turned, Emptied
  <2>4. CASE new \in {[sc EXCEPT !.ranges = m] : m \in {"Yes", "No"}}
    BY <2>4, Zenon
  <2>5. CASE new \in {[sc EXCEPT !.gzipAnyway = TRUE], [sc EXCEPT !.shift = 1],
                     [sc EXCEPT !.size = IF @ > 1 THEN @ - 1 ELSE @]}
    BY <2>5, Zenon
  <2> QED BY <2>1, <2>4, <2>5, Zenon
<1>9. CASE \E m \in {"Yes", "No"} : new = [sc EXCEPT !.ranges = m]
  BY <1>1, <1>6, <1>9
<1>10. CASE new = [sc EXCEPT !.gzipAnyway = TRUE] \/ new = [sc EXCEPT !.shift = 1]
  <2>1. new \in Scenario /\ new.seed = sc.seed /\ new.size = sc.size
    BY <1>3, <1>4, <1>10, Zenon
  <2> QED BY <1>6, <2>1
<1>11. CASE new = [sc EXCEPT !.size = IF @ > 1 THEN @ - 1 ELSE @]
  BY <1>5, <1>11
<1>12. CASE new \in {StatusRoute(sc, Down), StatusRoute(sc, 429), Signed(sc, FALSE)}
  <2>1. new = StatusRoute(sc, Down) \/ new = StatusRoute(sc, 429) \/ new = StatusRoute(sc, 403)
    BY <1>6, <1>12, Zenon
  <2>2. CASE new = StatusRoute(sc, Down)
    BY <1>6, <1>7, <2>2
  <2>3. CASE new = StatusRoute(sc, 429)
    BY <1>7, <2>3
  <2>4. CASE new = StatusRoute(sc, 403)
    BY <1>7, <2>4
  <2> QED BY <2>1, <2>2, <2>3, <2>4
<1>13. CASE new = StatusRoute(sc, 200)
  BY <1>7, <1>13
<1> QED BY <1>8, <1>9, <1>10, <1>11, <1>12, <1>13

(***************************************************************************)
(* What can be relied on in a response, to whatever was asked.             *)
(***************************************************************************)
LEMMA ServeIs ==
  ASSUME NEW sc \in Scenario, NEW a \in Nat, NEW z \in Int, NEW t
  PROVE  LET r == Serve(sc, <<a, z>>, t) IN
         /\ r.status \in Int /\ r.count \in Nat /\ r.contentLength \in 0 .. sc.size
         /\ r.seed \in 0 .. 2 /\ r.from \in Nat
         /\ <<a, z>> = Whole => r.from + r.count <= sc.size
         /\ r.status \in {206} /\ r.count # 0 =>
              /\ r.seed = sc.seed /\ r.from = a + sc.shift
              /\ r.contentRange.start = r.from /\ r.contentRange.total = sc.size
              /\ r.from + r.count <= sc.size + sc.shift
         /\ r.status = 206 /\ r.count = 0 => ~ParseContentRange(r.contentRange)
<1> DEFINE range == <<a, z>>
           honour == sc.ranges = "Yes" /\ range # Whole
           start == IF honour THEN a + sc.shift ELSE 0
           last == LastOf(range, sc.size)
           stop == IF honour THEN last + sc.shift ELSE sc.size - 1
           r == Serve(sc, range, t)
<1>1. sc.size \in Nat \ {0} /\ sc.shift \in Nat /\ sc.status \in Int /\ sc.seed \in 1 .. 2
  BY DEF Scenario
<1>2. last \in Int /\ last < sc.size
  BY <1>1 DEF LastOf
<1>3. ASSUME NEW n \in Int, r = Refusal(n)
      PROVE  /\ r.status = n /\ r.count = 0 /\ r.contentLength = 0 /\ r.seed = 0 /\ r.from = 0
             /\ ~ParseContentRange(r.contentRange)
  BY <1>3 DEF Refusal, ParseContentRange, NoRange, Unknown
<1>4. CASE sc.status # 0
  <2>1. r = Refusal(sc.status)
    BY <1>4 DEF Serve
  <2> HIDE DEF r
  <2> QED BY <1>1, <1>3, <2>1 DEF r
<1>5. CASE sc.status = 0 /\ honour /\ ~Satisfiable(range, sc.size)
  <2>1. r = Refusal(416)
    BY <1>5 DEF Serve
  <2> HIDE DEF r
  <2> QED BY <1>1, <1>3, <2>1 DEF r
<1>6. CASE sc.status = 0 /\ ~(honour /\ ~Satisfiable(range, sc.size))
  <2>1. /\ r.status = IF honour THEN 206 ELSE 200
        /\ r.contentRange = IF honour THEN [start |-> start, end |-> stop, total |-> sc.size]
                            ELSE NoRange
        /\ r.contentLength = IF sc.advertiseLen THEN stop + 1 - start ELSE Unknown
        /\ r.seed = sc.seed /\ r.from = start /\ r.count = stop + 1 - start
    BY <1>6 DEF Serve
  <2>2. honour => a <= last
    BY <1>6 DEF Satisfiable
  <2>6. <<a, z>> = Whole => ~honour
    OBVIOUS
  <2> HIDE DEF r, last, honour
  <2>3. r.count \in Nat \ {0} /\ r.count <= sc.size
    BY <1>1, <1>2, <2>1, <2>2
  <2>4. r.contentLength \in 0 .. sc.size
    BY <1>1, <2>1, <2>3 DEF Unknown
  <2>5. r.status = 206 => honour
    BY <2>1
  <2>7. /\ r.from \in Nat
        /\ <<a, z>> = Whole => r.from + r.count <= sc.size
        /\ r.from + r.count <= sc.size + sc.shift
    BY <1>1, <1>2, <2>1, <2>3, <2>6
  <2>8. honour => r.from = a + sc.shift /\ r.contentRange.start = r.from
                  /\ r.contentRange.total = sc.size
    BY <2>1
  <2>9. r.status \in Int /\ r.seed \in 0 .. 2
    BY <1>1, <2>1
  <2> QED BY <2>1, <2>3, <2>4, <2>5, <2>7, <2>8, <2>9 DEF r
<1> QED BY <1>4, <1>5, <1>6

(***************************************************************************)
(* Every way a response can be wrong is an error class.                    *)
(***************************************************************************)
LEMMA HeadErrorIs ==
  ASSUME NEW r
  PROVE  HeadError(r) \in ErrorClass \cup {"none"}
<1>1. \A s, b : ClassifyStatus(s, b) \in ErrorClass
  BY DEF ClassifyStatus, ErrorClass
<1> QED BY <1>1 DEF HeadError, ErrorClass

Verdicts ==
  Verdict \cup ErrorClass \cup {"none", "complete", "not taken"}
          \cup {"Redirect", "Transport", "Client"}

\* The types of a conversation, and the claim it works on.
Talk ==
  /\ DOMAIN conv = DOMAIN Hello
  /\ conv.pc \in Pc /\ conv.hop \in 0 .. MaxRedirects /\ conv.windows \subseteq Block
  /\ conv.pr.range \in RangeSupport /\ conv.pr.total \in 0 .. N
  /\ conv.at \in 0 .. N /\ conv.end \in 0 .. N /\ conv.at <= conv.end
  /\ conv.sent \in Nat /\ conv.body.count \in Nat /\ conv.sent <= conv.body.count
  /\ conv.attempt \in 0 .. MaxAttempts
  /\ conv.pre \in Preliminary \cup {"none"}
  /\ conv.verdict \in Verdicts
  /\ conv.pc \in {"streaming", "requesting"} => conv.at .. conv.end - 1 \cap done = {}

Things ==
  /\ part \in [Block -> Contents] /\ done \subseteq Block
  /\ kind \in Kind /\ swapped \in BOOLEAN /\ turns \in 0 .. MaxTurns
  /\ row.total \in 0 .. N
  /\ link \in Scenario /\ link.size <= N

(***************************************************************************)
(* Shape, in two halves.                                                   *)
(***************************************************************************)
LEMMA ShapeIs == Shape <=> Talk /\ Things
BY DEF Shape, Talk, Things, TypeOK, At, Verdicts

(***************************************************************************)
(* A command that ends leaves a conversation in order.                     *)
(***************************************************************************)
LEMMA EndTalks ==
  ASSUME Talk, NEW v \in Verdicts, End(v)
  PROVE  Talk' /\ conv'.pc = "ended" /\ conv'.pr = conv.pr /\ conv'.verdict = v
<1>1. /\ DOMAIN conv' = DOMAIN Hello
      /\ conv'.pc = "ended" /\ conv'.hop = 0 /\ conv'.pr = conv.pr /\ conv'.pre = "none"
      /\ conv'.windows = {} /\ conv'.at = 0 /\ conv'.end = 0 /\ conv'.body = NoBody
      /\ conv'.sent = 0 /\ conv'.attempt = 0 /\ conv'.verdict = v
  BY HelloIs DEF End
<1> QED BY <1>1, ExchangeAssumption DEF Talk, Pc, NoBody

(***************************************************************************)
(* Another attempt at a claim, or the end of the download.                 *)
(***************************************************************************)
LEMMA TryAgainTalks ==
  ASSUME Talk, NEW c \in ErrorClass, TryAgain(c), UNCHANGED done,
         conv.pc \in {"requesting", "streaming"}
  PROVE  Talk' /\ conv'.pr = conv.pr /\ conv'.pc \in {"requesting", "ended"}
<1>1. CASE End(c)
  BY <1>1, EndTalks DEF Verdicts
<1>2. CASE ~BackoffExhausted(conv.attempt, MaxAttempts)
           /\ conv' = [conv EXCEPT !.pc = "requesting", !.body = NoBody, !.sent = 0,
                                   !.attempt = @ + 1]
  <2>1. /\ DOMAIN conv' = DOMAIN Hello
        /\ conv'.pc = "requesting" /\ conv'.hop = conv.hop /\ conv'.pr = conv.pr
        /\ conv'.pre = conv.pre /\ conv'.windows = conv.windows /\ conv'.at = conv.at
        /\ conv'.end = conv.end /\ conv'.body = NoBody /\ conv'.sent = 0
        /\ conv'.attempt = conv.attempt + 1 /\ conv'.verdict = conv.verdict
    BY <1>2, HelloIs DEF Talk
  <2>2. conv.attempt + 1 \in 0 .. MaxAttempts
    BY <1>2, ExchangeAssumption DEF BackoffExhausted, Talk
  <2>3. NoBody.count = 0
    BY DEF NoBody
  <2> QED BY <2>1, <2>2, <2>3 DEF Talk, Pc
<1> QED BY <1>1, <1>2 DEF TryAgain

(***************************************************************************)
(* What was compared does not change unless the part file, or what the     *)
(* link serves, does.                                                      *)
(***************************************************************************)
LEMMA SameWindows ==
  ASSUME UNCHANGED <<part, done>>, link'.seed = link.seed
  PROVE  Agreeing' = Agreeing /\ EndWindows' = EndWindows /\ Length' = Length
BY DEF Agreeing, EndWindows, Length, Ends, Locate, WindowLength

(***************************************************************************)
(* What a command keeps while it does not write: whatever it goes on with, *)
(* if no worker has begun to read and nothing is decided by it.            *)
(***************************************************************************)
LEMMA Unwritten ==
  ASSUME IInv, UNCHANGED <<link, row, part, done, kind, swapped, turns>>, Talk',
         conv'.pc \in BeforeWork => conv.pc \in BeforeWork,
         conv'.pr.range = "Supported" => conv.pc \in BeforeWork \/ conv.pr.range = "Supported",
         conv'.pc \in {"claiming", "requesting", "ended"}
  PROVE  IInv'
<1>1. Things'
  BY ShapeIs DEF IInv, Things
<1>2. InPlace'
  BY DEF IInv, InPlace
<1>3. Streams' /\ Compared'
  BY DEF Streams, Compared
<1>4. Shape'
  BY <1>1, ShapeIs DEF Shape, Talk, Things, TypeOK, At, Verdicts
<1> QED BY <1>2, <1>3, <1>4 DEF IInv

(***************************************************************************)
(* The redirects of a probe.                                               *)
(***************************************************************************)
LEMMA HopKeeps ==
  ASSUME IInv, Hop
  PROVE  IInv'
<1>1. Talk /\ Things /\ conv.pc = "probing"
  BY ShapeIs DEF IInv, Hop, At
<1>2. CASE End("Redirect")
  <2>1. Talk' /\ conv'.pc = "ended" /\ conv'.pr = conv.pr
    BY <1>1, <1>2, EndTalks DEF Verdicts
  <2> QED BY <1>1, <2>1, Unwritten DEF Hop, BeforeWork
<1>3. CASE conv' = [conv EXCEPT !.hop = @ + 1] /\ conv.hop # MaxRedirects
  <2>1. /\ DOMAIN conv' = DOMAIN Hello /\ conv'.pc = conv.pc /\ conv'.hop = conv.hop + 1
        /\ conv'.pr = conv.pr /\ conv'.pre = conv.pre /\ conv'.windows = conv.windows
        /\ conv'.at = conv.at /\ conv'.end = conv.end /\ conv'.body = conv.body
        /\ conv'.sent = conv.sent /\ conv'.attempt = conv.attempt
        /\ conv'.verdict = conv.verdict
    BY <1>1, <1>3, HelloIs DEF Talk
  <2>2. Talk'
    BY <1>1, <1>3, <2>1, ExchangeAssumption DEF Talk, Hop
  <2>3. Things'
    BY <1>1 DEF Hop, Things
  <2>4. Shape'
    BY <2>2, <2>3 DEF Shape, Talk, Things, TypeOK, At, Verdicts
  <2>5. InPlace' /\ Streams'
    BY <1>1, <2>1 DEF Hop, IInv, InPlace, Streams, BeforeWork
  <2>6. Compared'
    BY <1>1, <2>1, SameWindows DEF Hop, IInv, Compared
  <2> QED BY <2>4, <2>5, <2>6 DEF IInv
<1> QED BY <1>2, <1>3 DEF Hop

(***************************************************************************)
(* The answer to a probe.                                                  *)
(***************************************************************************)
LEMMA AnswerKeeps ==
  ASSUME IInv, Answer
  PROVE  IInv'
<1> DEFINE r == Serve(link, <<0, 0>>, tick)
<1>1. Talk /\ Things /\ conv.pc = "probing"
      /\ UNCHANGED <<link, row, part, done, kind, swapped, turns>>
  BY ShapeIs DEF IInv, Answer, At
<1>2. /\ r.contentLength \in 0 .. link.size /\ r.count \in Nat /\ r.status \in Int
      /\ r.status \in {206} /\ r.count # 0 => r.contentRange.total = link.size
      /\ r.status = 206 /\ r.count = 0 => ~ParseContentRange(r.contentRange)
  <2>1. link \in Scenario /\ 0 \in Nat /\ 0 \in Int
    BY <1>1 DEF Things
  <2> QED BY <2>1, ServeIs
<1>3. link.size \in Nat /\ link.size <= N /\ N \in Nat
  BY <1>1, ExchangeAssumption DEF Things, Scenario
<1> HIDE DEF r
<1>4. Interpret(r).total \in 0 .. N /\ Interpret(r).range \in RangeSupport
  BY <1>2, <1>3 DEF Interpret, RangeSupport
<1>5. CASE r.status \notin 200 .. 299
  <2> DEFINE v == IF r.status = Down THEN "Transport" ELSE ClassifyStatus(r.status, FALSE)
  <2>1. v \in Verdicts
    BY DEF Verdicts, ClassifyStatus, ErrorClass
  <2>2. End(v)
    BY <1>5 DEF Answer, r
  <2> HIDE DEF v
  <2>3. Talk' /\ conv'.pc = "ended" /\ conv'.pr = conv.pr
    BY <1>1, <2>1, <2>2, EndTalks
  <2> QED BY <1>1, <2>3, Unwritten DEF BeforeWork
<1>6. CASE r.status \in 200 .. 299
  <2>1. conv' = [conv EXCEPT !.pr = Interpret(r),
                   !.pc = IF kind = "refresh" THEN "comparing" ELSE "claiming"]
    BY <1>6 DEF Answer, r
  <2>2. /\ DOMAIN conv' = DOMAIN Hello /\ conv'.pc \in {"comparing", "claiming"}
        /\ conv'.hop = conv.hop /\ conv'.pr = Interpret(r)
        /\ conv'.pre = conv.pre /\ conv'.windows = conv.windows
        /\ conv'.at = conv.at /\ conv'.end = conv.end /\ conv'.body = conv.body
        /\ conv'.sent = conv.sent /\ conv'.attempt = conv.attempt
        /\ conv'.verdict = conv.verdict
    BY <1>1, <2>1, HelloIs DEF Talk
  <2>3. Talk'
    BY <1>1, <1>4, <2>2 DEF Talk, Pc
  <2>4. Things'
    BY <1>1 DEF Things
  <2>5. Shape'
    BY <2>3, <2>4 DEF Shape, Talk, Things, TypeOK, At, Verdicts
  <2>6. InPlace' /\ Streams' /\ Compared'
    BY <1>1, <2>2 DEF IInv, InPlace, Streams, Compared, BeforeWork
  <2> QED BY <2>5, <2>6 DEF IInv
<1> QED BY <1>5, <1>6

(***************************************************************************)
(* The n-th downloaded block is one of them.                               *)
(***************************************************************************)
LEMMA LocateIs ==
  ASSUME done \subseteq Block, NEW n \in Nat, n < Cardinality(done)
  PROVE  Locate(done, n) \in done /\ Cardinality(Below(done, Locate(done, n))) = n
<1>1. done \in SUBSET Nat /\ N \in Nat /\ \A b \in done : b <= N
  BY ExchangeAssumption DEF Block
<1>2. \E b \in done : Cardinality(Below(done, b)) = n
  BY <1>1, NthExists
<1> QED BY <1>2, Zenon DEF Locate, Below

(***************************************************************************)
(* The windows lie among the downloaded blocks, and those at the ends are  *)
(* always among them.                                                      *)
(***************************************************************************)
LEMMA WindowsAreKept ==
  ASSUME done \subseteq Block, done # {}
  PROVE  /\ IsFiniteSet(done) /\ Cardinality(done) \in Nat
         /\ Length \in Nat \ {0} /\ Length <= Cardinality(done)
         /\ Length = IF WINDOW < Cardinality(done) THEN WINDOW ELSE Cardinality(done)
         /\ EndWindows = {Locate(done, 0), Locate(done, Cardinality(done) - Length)}
         /\ EndWindows \subseteq done
         /\ \A w \in ChooseWindows(done) : w \subseteq done /\ w # {} /\ EndWindows \subseteq w
<1>1. IsFiniteSet(Block)
  BY FS_Interval, ExchangeAssumption DEF Block
<1>2. IsFiniteSet(done) /\ Cardinality(done) \in Nat \ {0}
  BY <1>1, FS_Subset, FS_CardinalityType, FS_EmptySet
<1>3. Length = IF WINDOW < Cardinality(done) THEN WINDOW ELSE Cardinality(done)
  BY DEF Length, WindowLength
<1>4. Length \in Nat \ {0} /\ Length <= Cardinality(done)
  BY <1>2, <1>3, IdentityAssumption
<1>5. EndWindows = {Locate(done, 0), Locate(done, Cardinality(done) - Length)}
  BY DEF EndWindows, Ends, Length
<1>6. Locate(done, 0) \in done /\ Locate(done, Cardinality(done) - Length) \in done
  BY <1>2, <1>4, LocateIs
<1>7. Inner(done) \subseteq done
  <2>1. \A n \in 0 .. Cardinality(done) - Length - 1 : n \in Nat /\ n < Cardinality(done)
    BY <1>2, <1>4
  <2>2. \A n \in 0 .. Cardinality(done) - Length - 1 : Locate(done, n) \in done
    BY <2>1, LocateIs
  <2> QED BY <2>2 DEF Inner, Length
<1>8. ASSUME NEW w \in ChooseWindows(done)
      PROVE  w \subseteq done /\ w # {} /\ EndWindows \subseteq w
  <2>1. PICK rest \in SUBSET Inner(done) : w = Ends(done) \cup rest
    BY <1>8 DEF ChooseWindows
  <2> QED BY <1>5, <1>6, <1>7, <2>1 DEF EndWindows
<1> QED BY <1>2, <1>3, <1>4, <1>5, <1>6, <1>8

(***************************************************************************)
(* The headers are compared; windows are chosen if they may decide.        *)
(***************************************************************************)
LEMMA CompareSignalsKeeps ==
  ASSUME IInv, CompareSignals
  PROVE  IInv'
<1> DEFINE pre == Compare(row, conv.pr)
<1>1. Talk /\ Things /\ conv.pc = "comparing"
      /\ UNCHANGED <<link, row, part, done, kind, swapped, turns>>
  BY ShapeIs DEF IInv, CompareSignals, At
<1>2. pre \in Preliminary
  BY DEF Compare, Preliminary
<1>3. Things'
  BY <1>1 DEF Things
<1>4. EndWindows' = EndWindows /\ Agreeing' = Agreeing
  BY <1>1, SameWindows
<1>5. ASSUME NEW w \in ChooseWindows(done), Verifiable(pre, done, conv.pr),
             conv' = [conv EXCEPT !.pc = "verifying", !.pre = pre, !.windows = w]
      PROVE  IInv'
  <2> HIDE DEF pre
  <2>1. done # {} /\ w \subseteq done /\ w # {} /\ EndWindows \subseteq w /\ w \subseteq Block
    BY <1>1, <1>5, WindowsAreKept DEF Verifiable, Things
  <2>2. /\ DOMAIN conv' = DOMAIN Hello /\ conv'.pc = "verifying" /\ conv'.hop = conv.hop
        /\ conv'.pr = conv.pr /\ conv'.pre = pre /\ conv'.windows = w
        /\ conv'.at = conv.at /\ conv'.end = conv.end /\ conv'.body = conv.body
        /\ conv'.sent = conv.sent /\ conv'.attempt = conv.attempt
        /\ conv'.verdict = conv.verdict
    BY <1>1, <1>5, HelloIs DEF Talk
  <2>3. Talk'
    BY <1>1, <1>2, <2>1, <2>2 DEF Talk, Pc
  <2>4. Shape'
    BY <1>3, <2>3 DEF Shape, Talk, Things, TypeOK, At, Verdicts
  <2>5. InPlace' /\ Streams'
    BY <1>1, <2>2 DEF IInv, InPlace, Streams, BeforeWork
  <2>6. Compared'
    BY <1>1, <1>2, <1>4, <2>1, <2>2 DEF Compared
  <2> QED BY <2>4, <2>5, <2>6 DEF IInv
<1>6. ASSUME ~Verifiable(pre, done, conv.pr),
             conv' = [conv EXCEPT !.pc = "deciding", !.verdict = Finalize(pre, FALSE)]
      PROVE  IInv'
  <2>1. Finalize(pre, FALSE) \in Verdict
    BY <1>2 DEF Finalize, Preliminary, Verdict
  <2>2. Finalize(pre, FALSE) \in {"Resume", "Confirm"} => done = {}
    <3>1. pre \notin {"Reject", "RestartOnly"} => conv.pr.range = "Supported"
      BY DEF Compare
    <3>2. Finalize(pre, FALSE) \in {"Resume", "Confirm"} => pre \notin {"Reject", "RestartOnly"}
      BY <1>2 DEF Finalize, Preliminary
    <3> HIDE DEF pre
    <3> QED BY <1>6, <3>1, <3>2 DEF Verifiable
  <2> DEFINE v == Finalize(pre, FALSE)
  <2> HIDE DEF v
  <2>3. /\ DOMAIN conv' = DOMAIN Hello /\ conv'.pc = "deciding" /\ conv'.hop = conv.hop
        /\ conv'.pr = conv.pr /\ conv'.pre = conv.pre /\ conv'.windows = conv.windows
        /\ conv'.at = conv.at /\ conv'.end = conv.end /\ conv'.body = conv.body
        /\ conv'.sent = conv.sent /\ conv'.attempt = conv.attempt
        /\ conv'.verdict = v
    BY <1>1, <1>6, HelloIs DEF Talk, v
  <2>4. Talk'
    BY <1>1, <2>1, <2>3 DEF Talk, Pc, Verdicts, v
  <2>5. Shape'
    BY <1>3, <2>4 DEF Shape, Talk, Things, TypeOK, At, Verdicts
  <2>6. InPlace' /\ Streams'
    BY <1>1, <2>3 DEF IInv, InPlace, Streams, BeforeWork
  <2>7. Compared'
    BY <1>1, <2>2, <2>3 DEF Compared, v
  <2> QED BY <2>5, <2>6, <2>7 DEF IInv
<1> QED BY <1>5, <1>6 DEF CompareSignals

(***************************************************************************)
(* A window whose bytes do not differ agrees with the link: the response   *)
(* cannot begin elsewhere, since the block itself is in its place.         *)
(***************************************************************************)
LEMMA WindowAgrees ==
  ASSUME Things, done # {}, NEW w \in done, part[w] = Byte(part[w][1], w), NEW t,
         Serve(link, <<w, w + Length - 1>>, t).status = 206,
         ~Differs(w, Length, Serve(link, <<w, w + Length - 1>>, t))
  PROVE  w \in Agreeing
<1> DEFINE r == Serve(link, <<w, w + Length - 1>>, t)
           local == IF w + Length <= N THEN Length ELSE N - w
<1>1. done \subseteq Block /\ w \in Nat /\ w < N /\ N \in Nat /\ Length \in Nat \ {0}
  BY WindowsAreKept, ExchangeAssumption DEF Things, Block
<1>2. local \in Nat \ {0}
  BY <1>1
<1>3. r.count = local /\ \A n \in 0 .. local - 1 : part[w + n] = BodyBlock(r, n)
  BY DEF Differs
<1>4. r.seed = link.seed /\ r.from = w + link.shift
  <2>1. w + Length - 1 \in Int /\ link \in Scenario
    BY <1>1 DEF Things
  <2>2. r.status = 206 /\ r.count # 0
    BY <1>2, <1>3
  <2> QED BY <1>1, <2>1, <2>2, ServeIs
<1> HIDE DEF r, local
<1>5. link.shift \in Nat
  BY DEF Things, Scenario
<1>6. \A n \in 0 .. local - 1 : part[w + n] = <<link.seed, w + link.shift + n>>
  BY <1>3, <1>4 DEF BodyBlock, Byte
<1>7. link.shift = 0
  <2>1. part[w + 0] = <<link.seed, w + link.shift + 0>>
    BY <1>2, <1>6
  <2>2. part[w] = <<link.seed, w + link.shift>>
    BY <1>1, <1>5, <2>1
  <2>3. part[w][2] = w
    BY DEF Byte
  <2> QED BY <1>1, <1>5, <2>2, <2>3
<1>8. \A n \in 0 .. local - 1 : part[w + n] = Byte(link.seed, w + n)
  BY <1>1, <1>6, <1>7 DEF Byte
<1>9. \A n \in 0 .. Length - 1 : w + n < N => n \in 0 .. local - 1
  BY <1>1 DEF local
<1> QED BY <1>1, <1>8, <1>9 DEF Agreeing, Block

(***************************************************************************)
(* A window is read, and compared.                                         *)
(***************************************************************************)
LEMMA WindowKeeps ==
  ASSUME IInv, Window
  PROVE  IInv'
<1> DEFINE w == CHOOSE b \in conv.windows : \A c \in conv.windows : b <= c
           r == Serve(link, <<w, w + Length - 1>>, tick)
           bad == r.status # 206 \/ Differs(w, Length, r)
<1>1. Talk /\ Things /\ conv.pc = "verifying"
      /\ UNCHANGED <<link, row, part, done, kind, swapped, turns>>
  BY ShapeIs DEF IInv, Window, At
<1>2. /\ conv.pre \in Preliminary
      /\ done # {} /\ conv.windows # {} /\ conv.windows \subseteq done
      /\ EndWindows \subseteq conv.windows \cup Agreeing
  BY <1>1 DEF IInv, Compared
<1>3. w \in conv.windows /\ w \in done
  <2>1. conv.windows \in SUBSET Nat
    <3>1. Block \subseteq Nat
      BY ExchangeAssumption DEF Block
    <3>2. done \subseteq Block
      BY <1>1 DEF Things
    <3> QED BY <3>1, <3>2, <1>2
  <2>2. \E b \in conv.windows : \A c \in conv.windows : b <= c
    BY <1>2, <2>1, LeastNat
  <2>3. w \in conv.windows
    BY <2>2, Zenon
  <2> QED BY <1>2, <2>3
<1>4. ~bad => w \in Agreeing
  <2>1. part[w] = Byte(part[w][1], w)
    BY <1>1, <1>3 DEF IInv, InPlace, BeforeWork
  <2> HIDE DEF w
  <2> QED BY <1>1, <1>2, <1>3, <2>1, WindowAgrees
<1>5. \/ End("Client")
      \/ bad /\ conv' = [conv EXCEPT !.pc = "deciding", !.windows = {},
                                     !.verdict = Finalize(conv.pre, TRUE)]
      \/ ~bad /\ conv.windows = {w}
           /\ conv' = [conv EXCEPT !.pc = "deciding", !.windows = {},
                                   !.verdict = Finalize(conv.pre, FALSE)]
      \/ ~bad /\ conv.windows # {w}
           /\ conv' = [conv EXCEPT !.windows = @ \ {w}]
  BY DEF Window, Length
<1> HIDE DEF w, r, bad
<1>6. Things'
  BY <1>1 DEF Things
<1>7. EndWindows' = EndWindows /\ Agreeing' = Agreeing
  BY <1>1, SameWindows
<1>8. CASE End("Client")
  <2>1. Talk' /\ conv'.pc = "ended" /\ conv'.pr = conv.pr
    BY <1>1, <1>8, EndTalks DEF Verdicts
  <2> QED BY <1>1, <2>1, Unwritten DEF BeforeWork
<1>9. ASSUME NEW v, conv' = [conv EXCEPT !.pc = "deciding", !.windows = {}, !.verdict = v],
             v \in Verdicts, v \in {"Resume", "Confirm"} => EndWindows \subseteq Agreeing
      PROVE  IInv'
  <2>1. /\ DOMAIN conv' = DOMAIN Hello /\ conv'.pc = "deciding" /\ conv'.hop = conv.hop
        /\ conv'.pr = conv.pr /\ conv'.pre = conv.pre /\ conv'.windows = {}
        /\ conv'.at = conv.at /\ conv'.end = conv.end /\ conv'.body = conv.body
        /\ conv'.sent = conv.sent /\ conv'.attempt = conv.attempt
        /\ conv'.verdict = v
    BY <1>1, <1>9, HelloIs DEF Talk
  <2>2. Talk'
    BY <1>1, <1>9, <2>1 DEF Talk, Pc
  <2>3. Shape'
    BY <1>6, <2>2 DEF Shape, Talk, Things, TypeOK, At, Verdicts
  <2>4. InPlace' /\ Streams'
    BY <1>1, <2>1 DEF IInv, InPlace, Streams, BeforeWork
  <2>5. Compared'
    BY <1>7, <1>9, <2>1 DEF Compared
  <2> QED BY <2>3, <2>4, <2>5 DEF IInv
<1>10. CASE bad /\ conv' = [conv EXCEPT !.pc = "deciding", !.windows = {},
                                        !.verdict = Finalize(conv.pre, TRUE)]
  <2>1. Finalize(conv.pre, TRUE) = "ContentMismatch"
    BY DEF Finalize
  <2>2. "ContentMismatch" \in Verdicts
    BY DEF Verdicts, Verdict
  <2> QED BY <1>9, <1>10, <2>1, <2>2
<1>11. CASE ~bad /\ conv.windows = {w}
            /\ conv' = [conv EXCEPT !.pc = "deciding", !.windows = {},
                                    !.verdict = Finalize(conv.pre, FALSE)]
  <2>1. EndWindows \subseteq Agreeing
    BY <1>2, <1>4, <1>11
  <2>2. Finalize(conv.pre, FALSE) \in Verdicts
    BY <1>2 DEF Finalize, Verdicts, Verdict, Preliminary
  <2> QED BY <1>9, <1>11, <2>1, <2>2
<1>12. CASE ~bad /\ conv.windows # {w} /\ conv' = [conv EXCEPT !.windows = @ \ {w}]
  <2>1. /\ DOMAIN conv' = DOMAIN Hello /\ conv'.pc = conv.pc /\ conv'.hop = conv.hop
        /\ conv'.pr = conv.pr /\ conv'.pre = conv.pre /\ conv'.windows = conv.windows \ {w}
        /\ conv'.at = conv.at /\ conv'.end = conv.end /\ conv'.body = conv.body
        /\ conv'.sent = conv.sent /\ conv'.attempt = conv.attempt
        /\ conv'.verdict = conv.verdict
    BY <1>1, <1>12, HelloIs DEF Talk
  <2>2. Talk'
    BY <1>1, <2>1 DEF Talk
  <2>3. Shape'
    BY <1>6, <2>2 DEF Shape, Talk, Things, TypeOK, At, Verdicts
  <2>4. InPlace' /\ Streams'
    BY <1>1, <2>1 DEF IInv, InPlace, Streams, BeforeWork
  <2>5. conv'.windows # {} /\ conv'.windows \subseteq done
        /\ EndWindows \subseteq conv'.windows \cup Agreeing
    BY <1>2, <1>3, <1>4, <1>12, <2>1
  <2>6. Compared'
    BY <1>1, <1>2, <1>7, <2>1, <2>5 DEF Compared
  <2> QED BY <2>3, <2>4, <2>6 DEF IInv
<1> QED BY <1>5, <1>8, <1>10, <1>11, <1>12

(***************************************************************************)
(* A refusal, a Confirm nobody confirms, and an exhausted plan end the     *)
(* command.                                                                *)
(***************************************************************************)
LEMMA EndsKeep ==
  ASSUME IInv, TurnDown \/ NotTaken \/ Exhausted
  PROVE  IInv'
<1>1. Talk /\ Things /\ UNCHANGED <<link, row, part, done, kind, swapped, turns>>
  BY ShapeIs DEF IInv, TurnDown, NotTaken, Exhausted
<1>2. \E v \in Verdicts : End(v)
  BY <1>1 DEF TurnDown, NotTaken, Exhausted, Verdicts, Talk
<1>3. Talk' /\ conv'.pc = "ended" /\ conv'.pr = conv.pr
  BY <1>1, <1>2, EndTalks
<1> QED BY <1>1, <1>3, Unwritten DEF BeforeWork

(***************************************************************************)
(* The replacement is accepted, and the command begins anew.               *)
(***************************************************************************)
LEMMA SwapKeeps ==
  ASSUME IInv, Swap
  PROVE  IInv'
<1>1. Talk /\ Things /\ conv.pc = "deciding" /\ conv.verdict \in {"Resume", "Confirm"}
      /\ UNCHANGED <<link, part, done, turns>> /\ conv' = Hello /\ kind' = "resume" /\ swapped' = TRUE
  BY ShapeIs DEF IInv, Swap, At
<1>2. row'.total \in 0 .. N
  BY <1>1 DEF Swap, Talk, Things
<1>3. Things'
  BY <1>1, <1>2 DEF Things, Kind
<1>4. Talk'
  <2>1. NoProbe.range \in RangeSupport /\ NoProbe.total \in 0 .. N /\ NoBody.count = 0
    BY ExchangeAssumption DEF NoProbe, NoBody, RangeSupport, Unknown
  <2>2. "none" \in Verdicts /\ "probing" \in Pc /\ 0 \in 0 .. N
        /\ 0 \in 0 .. MaxRedirects /\ 0 \in 0 .. MaxAttempts
    BY ExchangeAssumption DEF Verdicts, Pc
  <2> QED BY <1>1, <2>1, <2>2, HelloIs DEF Talk
<1>5. Shape'
  BY <1>3, <1>4 DEF Shape, Talk, Things, TypeOK, At, Verdicts
<1>6. InPlace' /\ Streams'
  BY <1>1, HelloIs DEF IInv, InPlace, Streams, BeforeWork
<1>7. EndWindows' = EndWindows /\ Agreeing' = Agreeing
  BY <1>1, SameWindows
<1>8. Compared'
  BY <1>1, <1>7, HelloIs DEF IInv, Compared
<1> QED BY <1>5, <1>6, <1>8 DEF IInv

(***************************************************************************)
(* A claim is taken, and may shrink.                                       *)
(***************************************************************************)
LEMMA ClaimFromKeeps ==
  ASSUME IInv, NEW a \in Block, ClaimFrom(a)
  PROVE  IInv'
<1>1. Talk /\ Things /\ conv.pc = "claiming"
      /\ UNCHANGED <<link, row, part, done, kind, swapped, turns>>
  BY ShapeIs DEF IInv, ClaimFrom, At
<1>2. PICK z \in a + 1 .. conv.pr.total :
        /\ a .. z - 1 \subseteq Wanted
        /\ conv' = [conv EXCEPT !.pc = "requesting", !.at = a, !.end = z, !.attempt = 0]
  BY DEF ClaimFrom
<1>3. /\ DOMAIN conv' = DOMAIN Hello /\ conv'.pc = "requesting" /\ conv'.hop = conv.hop
      /\ conv'.pr = conv.pr /\ conv'.pre = conv.pre /\ conv'.windows = conv.windows
      /\ conv'.at = a /\ conv'.end = z /\ conv'.body = conv.body
      /\ conv'.sent = conv.sent /\ conv'.attempt = 0 /\ conv'.verdict = conv.verdict
  BY <1>1, <1>2, HelloIs DEF Talk
<1>4. a \in 0 .. N /\ z \in 0 .. N /\ a <= z
  BY <1>1, ExchangeAssumption DEF Talk, Block
<1>5. conv'.at .. conv'.end - 1 \cap done' = {}
  BY <1>1, <1>2, <1>3 DEF Wanted
<1>6. Talk'
  BY <1>1, <1>3, <1>4, <1>5, ExchangeAssumption DEF Talk, Pc
<1> QED BY <1>1, <1>3, <1>6, Unwritten DEF BeforeWork

(***************************************************************************)
(* What a response that passes the checks is, when a range was asked for.  *)
(***************************************************************************)
LEMMA GoodResponse ==
  ASSUME Talk, Things, conv.pr.range = "Supported",
         HeadError(Serve(link, <<conv.at, conv.end - 1>>, tick)) = "none"
  PROVE  LET r == Serve(link, <<conv.at, conv.end - 1>>, tick) IN
         r.seed \in 1 .. 2 /\ r.from = conv.at /\ r.from + r.count <= N
<1> DEFINE r == Serve(link, <<conv.at, conv.end - 1>>, tick)
<1>1. conv.at \in Nat /\ conv.end - 1 \in Int /\ link \in Scenario
  BY ExchangeAssumption DEF Talk, Things
<1>2. /\ r.status \in Int /\ r.count \in Nat
      /\ r.status \in {206} /\ r.count # 0 =>
           /\ r.seed = link.seed /\ r.from = conv.at + link.shift
           /\ r.contentRange.start = r.from /\ r.from + r.count <= link.size + link.shift
      /\ r.status = 206 /\ r.count = 0 => ~ParseContentRange(r.contentRange)
  BY <1>1, ServeIs
<1>3. r.status \in {206} \/ r.contentRange = NoRange
  BY DEF Serve, Refusal
<1> HIDE DEF r
<1>4. \A s, b : ClassifyStatus(s, b) # "none"
  BY DEF ClassifyStatus
<1>5. ParseContentRange(r.contentRange) /\ r.contentRange.start = conv.at
  <2>1. HeadError(r) = "none"
    BY DEF r
  <2>2. r.status # Down /\ r.status \in 200 .. 299
    BY <1>2, <1>4, <2>1 DEF HeadError, Down
  <2>3. r.status # 200
    BY <2>1, <2>2 DEF HeadError, UseRange, Down
  <2> QED BY <2>1, <2>2, <2>3 DEF HeadError, UseRange
<1>6. ~ParseContentRange(NoRange)
  BY DEF ParseContentRange, NoRange, Unknown
<1>7. r.status = 206 /\ r.count # 0
  BY <1>2, <1>3, <1>5, <1>6
<1>8. r.seed = link.seed /\ r.from = conv.at /\ r.from = conv.at + link.shift
  BY <1>2, <1>5, <1>7
<1>9. link.seed \in 1 .. 2 /\ link.size \in Nat /\ link.size <= N /\ link.shift \in Nat /\ N \in Nat
  BY <1>1, ExchangeAssumption DEF Scenario, Things
<1>10. link.shift = 0
  BY <1>1, <1>8, <1>9
<1>11. r.from + r.count <= N
  BY <1>1, <1>2, <1>7, <1>8, <1>9, <1>10
<1> QED BY <1>8, <1>9, <1>11 DEF r

(***************************************************************************)
(* A claim shrinks under the worker that has it.                           *)
(***************************************************************************)
LEMMA ShrinkKeeps ==
  ASSUME IInv, Shrink
  PROVE  IInv'
<1>1. Talk /\ Things /\ conv.pc \in {"requesting", "streaming"}
      /\ UNCHANGED <<link, row, part, done, kind, swapped, turns>>
  BY ShapeIs DEF IInv, Shrink
<1>2. PICK z \in conv.at + 1 .. conv.end - 1 : conv' = [conv EXCEPT !.end = z]
  BY DEF Shrink
<1>3. /\ DOMAIN conv' = DOMAIN Hello /\ conv'.pc = conv.pc /\ conv'.hop = conv.hop
      /\ conv'.pr = conv.pr /\ conv'.pre = conv.pre /\ conv'.windows = conv.windows
      /\ conv'.at = conv.at /\ conv'.end = z /\ conv'.body = conv.body
      /\ conv'.sent = conv.sent /\ conv'.attempt = conv.attempt /\ conv'.verdict = conv.verdict
  BY <1>1, <1>2, HelloIs DEF Talk
<1>4. z \in 0 .. N /\ conv.at <= z /\ z <= conv.end
  BY <1>1, ExchangeAssumption DEF Talk
<1>5. conv'.at .. conv'.end - 1 \cap done' = {}
  <2>1. \A x \in conv.at .. z - 1 : x \in conv.at .. conv.end - 1
    BY <1>1, <1>4, ExchangeAssumption DEF Talk
  <2> QED BY <1>1, <1>3, <2>1 DEF Talk
<1>6. Talk'
  BY <1>1, <1>3, <1>4, <1>5 DEF Talk
<1>7. Shape'
  <2>1. Things'
    BY <1>1 DEF Things
  <2> QED BY <1>6, <2>1 DEF Shape, Talk, Things, TypeOK, At, Verdicts
<1>8. InPlace' /\ Streams' /\ Compared'
  BY <1>1, <1>3 DEF IInv, InPlace, Streams, Compared, BeforeWork
<1> QED BY <1>7, <1>8 DEF IInv

(***************************************************************************)
(* Nothing was left of the claim when its last attempt failed.             *)
(***************************************************************************)
LEMMA NothingLeftKeeps ==
  ASSUME IInv, NothingLeft
  PROVE  IInv'
<1>1. Talk /\ conv.pc = "requesting" /\ conv' = [conv EXCEPT !.pc = "claiming"]
      /\ UNCHANGED <<link, row, part, done, kind, swapped, turns>>
  BY ShapeIs DEF IInv, NothingLeft, At
<1>2. /\ DOMAIN conv' = DOMAIN Hello /\ conv'.pc = "claiming" /\ conv'.hop = conv.hop
      /\ conv'.pr = conv.pr /\ conv'.pre = conv.pre /\ conv'.windows = conv.windows
      /\ conv'.at = conv.at /\ conv'.end = conv.end /\ conv'.body = conv.body
      /\ conv'.sent = conv.sent /\ conv'.attempt = conv.attempt
      /\ conv'.verdict = conv.verdict
  BY <1>1, HelloIs DEF Talk
<1>3. Talk'
  BY <1>1, <1>2 DEF Talk, Pc
<1> QED BY <1>1, <1>2, <1>3, Unwritten DEF BeforeWork

(***************************************************************************)
(* A request is answered: the body begins where the claim does.            *)
(***************************************************************************)
LEMMA RequestKeeps ==
  ASSUME IInv, Request
  PROVE  IInv'
<1> DEFINE range == IF UseRange THEN <<conv.at, conv.end - 1>> ELSE Whole
           r == Serve(link, range, tick)
<1>1. Talk /\ Things /\ conv.pc = "requesting"
      /\ UNCHANGED <<link, row, part, done, kind, swapped, turns>>
  BY ShapeIs DEF IInv, Request, At
<1>2. /\ r.count \in Nat /\ r.seed \in 0 .. 2 /\ r.from \in Nat
      /\ ~UseRange => r.from + r.count <= N
  <2>1. /\ conv.at \in Nat /\ conv.end - 1 \in Int /\ link \in Scenario
        /\ Whole = <<0, -1>> /\ 0 \in Nat /\ -1 \in Int
    BY <1>1, ExchangeAssumption DEF Talk, Things, Whole
  <2>2. CASE UseRange
    BY <2>1, <2>2, ServeIs
  <2>3. CASE ~UseRange
    <3>1. r.count \in Nat /\ r.seed \in 0 .. 2 /\ r.from \in Nat /\ r.from + r.count <= link.size
      BY <2>1, <2>3, ServeIs
    <3>2. link.size \in Nat /\ link.size <= N /\ N \in Nat
      BY <1>1, ExchangeAssumption DEF Things, Scenario
    <3> QED BY <3>1, <3>2
  <2> QED BY <2>2, <2>3
<1>3. conv.pr.range = "Supported" /\ HeadError(r) = "none" => r.from = conv.at /\ r.from + r.count <= N
  BY <1>1, GoodResponse DEF UseRange
<1>4. \/ HeadError(r) # "none" /\ TryAgain(HeadError(r))
      \/ HeadError(r) = "none"
         /\ conv' = [conv EXCEPT !.pc = "streaming", !.sent = 0,
                       !.body = [seed |-> r.seed, from |-> r.from, count |-> r.count]]
  BY DEF Request
<1> HIDE DEF r
<1>5. CASE HeadError(r) # "none" /\ TryAgain(HeadError(r))
  <2>1. HeadError(r) \in ErrorClass
    BY <1>5, HeadErrorIs
  <2>2. Talk' /\ conv'.pr = conv.pr /\ conv'.pc \in {"requesting", "ended"}
    BY <1>1, <1>5, <2>1, TryAgainTalks
  <2> QED BY <1>1, <2>2, Unwritten DEF BeforeWork
<1>6. CASE HeadError(r) = "none"
           /\ conv' = [conv EXCEPT !.pc = "streaming", !.sent = 0,
                         !.body = [seed |-> r.seed, from |-> r.from, count |-> r.count]]
  <2> DEFINE body == [seed |-> r.seed, from |-> r.from, count |-> r.count]
  <2>1. body.seed = r.seed /\ body.from = r.from /\ body.count = r.count
    OBVIOUS
  <2>2. conv' = [conv EXCEPT !.pc = "streaming", !.sent = 0, !.body = body]
    BY <1>6
  <2> HIDE DEF body
  <2>3. /\ DOMAIN conv' = DOMAIN Hello /\ conv'.pc = "streaming" /\ conv'.hop = conv.hop
        /\ conv'.pr = conv.pr /\ conv'.pre = conv.pre /\ conv'.windows = conv.windows
        /\ conv'.at = conv.at /\ conv'.end = conv.end /\ conv'.body = body
        /\ conv'.sent = 0 /\ conv'.attempt = conv.attempt /\ conv'.verdict = conv.verdict
    BY <1>1, <2>2, HelloIs DEF Talk
  <2>4. Talk'
    BY <1>1, <1>2, <2>1, <2>3 DEF Talk, Pc
  <2>5. Shape'
    <3>1. Things'
      BY <1>1 DEF Things
    <3> QED BY <2>4, <3>1 DEF Shape, Talk, Things, TypeOK, At, Verdicts
  <2>6. Streams'
    <3>1. conv'.pr.range = "Supported" => body.from + 0 = conv.at
      BY <1>1, <1>3, <1>6, <2>1, <2>3, ExchangeAssumption DEF Talk
    <3>2. body.seed \in 0 .. 2 /\ body.from \in Nat /\ body.from + body.count <= N
      BY <1>2, <1>3, <1>6, <2>1 DEF UseRange
    <3> QED BY <2>3, <3>1, <3>2 DEF Streams
  <2>7. InPlace' /\ Compared'
    BY <1>1, <2>3 DEF IInv, InPlace, Compared, BeforeWork
  <2> QED BY <2>5, <2>6, <2>7 DEF IInv
<1> QED BY <1>4, <1>5, <1>6

(***************************************************************************)
(* A block of the body is written at the worker's place.                   *)
(***************************************************************************)
LEMMA ChunkKeeps ==
  ASSUME IInv, Chunk
  PROVE  IInv'
<1> DEFINE here == conv.at
           new == BodyBlock(conv.body, conv.sent)
<1>1. Talk /\ Things /\ conv.pc = "streaming" /\ Streams
      /\ UNCHANGED <<link, row, kind, swapped, turns>>
      /\ conv.sent < conv.body.count /\ ~(conv.at >= conv.end)
      /\ part' = [part EXCEPT ![here] = new] /\ done' = done \cup {here}
      /\ conv' = [conv EXCEPT !.at = @ + 1, !.sent = @ + 1]
  BY ShapeIs DEF IInv, Chunk, At, Satisfied
<1>2. here \in Block /\ here \in Nat /\ here + 1 \in 0 .. N /\ here + 1 <= conv.end
      /\ conv.sent \in Nat /\ conv.body.count \in Nat /\ conv.end \in Nat
  BY <1>1, ExchangeAssumption DEF Talk, Block
<1>3. conv.body.from + conv.sent \in Block /\ conv.body.seed \in 0 .. 2
  BY <1>1, <1>2, ExchangeAssumption DEF Streams, Block
<1>4. new \in Contents
  BY <1>3 DEF BodyBlock, Contents
<1>5. /\ DOMAIN conv' = DOMAIN Hello /\ conv'.pc = "streaming" /\ conv'.hop = conv.hop
      /\ conv'.pr = conv.pr /\ conv'.pre = conv.pre /\ conv'.windows = conv.windows
      /\ conv'.at = here + 1 /\ conv'.end = conv.end /\ conv'.body = conv.body
      /\ conv'.sent = conv.sent + 1 /\ conv'.attempt = conv.attempt
      /\ conv'.verdict = conv.verdict
  BY <1>1, HelloIs DEF Talk
<1>6. conv'.at .. conv'.end - 1 \cap done' = {}
  <2>1. \A x \in here + 1 .. conv.end - 1 : x \in here .. conv.end - 1 /\ x # here
    BY <1>2
  <2>2. here .. conv.end - 1 \cap done = {}
    BY <1>1 DEF Talk
  <2> QED BY <1>1, <1>5, <2>1, <2>2
<1>7. Talk'
  BY <1>1, <1>2, <1>5, <1>6 DEF Talk
<1> HIDE DEF new, here
<1>8. Things'
  BY <1>1, <1>2, <1>4 DEF Things
<1>9. Shape'
  BY <1>7, <1>8 DEF Shape, Talk, Things, TypeOK, At, Verdicts
<1>10. InPlace'
  <2>1. SUFFICES ASSUME conv.pr.range = "Supported", NEW b \in done'
                 PROVE  part'[b] = Byte(part'[b][1], b)
    BY <1>5, Zenon DEF InPlace, BeforeWork
  <2>2. CASE b = here
    <3>1. new = <<conv.body.seed, here>>
      BY <1>1, <2>1 DEF Streams, new, here, BodyBlock, Byte
    <3>2. part'[b] = new
      BY <1>1, <1>2, <2>2 DEF Things
    <3> QED BY <2>2, <3>1, <3>2 DEF Byte
  <2>3. CASE b # here
    <3>1. b \in done /\ part'[b] = part[b]
      BY <1>1, <1>2, <2>1, <2>3 DEF Things
    <3> QED BY <2>1, <3>1 DEF IInv, InPlace
  <2> QED BY <2>2, <2>3
<1>11. Streams'
  <2>1. conv.pr.range = "Supported" => conv.body.from + (conv.sent + 1) = here + 1
    BY <1>1, <1>2 DEF Streams, here
  <2> QED BY <1>1, <1>5, <2>1 DEF Streams
<1>12. Compared'
  BY <1>5 DEF Compared
<1> QED BY <1>9, <1>10, <1>11, <1>12 DEF IInv

(***************************************************************************)
(* A body, or a claim, is at its end, or the connection breaks.            *)
(***************************************************************************)
LEMMA OverKeeps ==
  ASSUME IInv, Over \/ Reset
  PROVE  IInv'
<1>1. Talk /\ Things /\ conv.pc = "streaming"
      /\ UNCHANGED <<link, row, part, done, kind, swapped, turns>>
  BY ShapeIs DEF IInv, Over, Reset, At
<1>2. CASE TryAgain("TransientNetwork")
  <2>1. "TransientNetwork" \in ErrorClass
    BY DEF ErrorClass
  <2>2. Talk' /\ conv'.pr = conv.pr /\ conv'.pc \in {"requesting", "ended"}
    BY <1>1, <1>2, <2>1, TryAgainTalks
  <2> QED BY <1>1, <2>2, Unwritten DEF BeforeWork
<1>3. CASE conv' = [conv EXCEPT !.pc = "claiming", !.body = NoBody, !.sent = 0]
  <2>1. /\ DOMAIN conv' = DOMAIN Hello /\ conv'.pc = "claiming" /\ conv'.hop = conv.hop
        /\ conv'.pr = conv.pr /\ conv'.pre = conv.pre /\ conv'.windows = conv.windows
        /\ conv'.at = conv.at /\ conv'.end = conv.end /\ conv'.body = NoBody
        /\ conv'.sent = 0 /\ conv'.attempt = conv.attempt
        /\ conv'.verdict = conv.verdict
    BY <1>1, <1>3, HelloIs DEF Talk
  <2>2. NoBody.count = 0
    BY DEF NoBody
  <2>3. Talk'
    BY <1>1, <2>1, <2>2 DEF Talk, Pc
  <2> QED BY <1>1, <2>1, <2>3, Unwritten DEF BeforeWork
<1> QED BY <1>2, <1>3 DEF Over, Reset

(***************************************************************************)
(* The server behind the link changes its ways.                            *)
(***************************************************************************)
LEMMA TurnKeeps ==
  ASSUME IInv, Turn
  PROVE  IInv'
<1>1. Talk /\ Things /\ turns < MaxTurns /\ turns' = turns + 1
      /\ link' \in Turned(link) \cup {Emptied(link)}
      /\ UNCHANGED <<row, part, done, conv, kind, swapped>>
  BY ShapeIs DEF IInv, Turn
<1>2. link' \in Scenario /\ link'.seed = link.seed /\ link'.size <= link.size
  BY <1>1, TurnedIs DEF Things
<1>3. link'.size <= N
  BY <1>1, <1>2, ExchangeAssumption DEF Things, Scenario
<1>4. turns' \in 0 .. MaxTurns
  BY <1>1, ExchangeAssumption DEF Things
<1>5. Things'
  BY <1>1, <1>2, <1>3, <1>4 DEF Things
<1>6. Talk'
  BY <1>1 DEF Talk
<1>7. Shape'
  BY <1>5, <1>6 DEF Shape, Talk, Things, TypeOK, At, Verdicts
<1>8. InPlace' /\ Streams'
  BY <1>1 DEF IInv, InPlace, Streams
<1>9. EndWindows' = EndWindows /\ Agreeing' = Agreeing
  BY <1>1, <1>2, SameWindows
<1>10. Compared'
  BY <1>1, <1>9 DEF IInv, Compared
<1> QED BY <1>7, <1>8, <1>10 DEF IInv

(***************************************************************************)
(* A command begins with a part file that has what its row claims.         *)
(***************************************************************************)
LEMMA BeginsRight == Init => IInv
<1> SUFFICES ASSUME Init PROVE IInv
  OBVIOUS
<1>1. PICK old \in OldLinks, claim \in Claims, k \in Kind :
        /\ row = Signals(old) /\ kind = k /\ done = Rewind(claim)
        /\ link \in IF k = "refresh" THEN NewLinks ELSE {old}
        /\ \E bad \in {{}} \cup (IF k = "refresh" THEN {{b} : b \in claim} ELSE {}) :
             part = [b \in Block |-> IF b \notin claim THEN Hole
                                     ELSE Byte(IF b \in bad THEN 0 ELSE 1, b)]
  BY Zenon DEF Init
<1>2. PICK bad : part = [b \in Block |-> IF b \notin claim THEN Hole
                                        ELSE Byte(IF b \in bad THEN 0 ELSE 1, b)]
  BY <1>1
<1>3. conv = Hello /\ swapped = FALSE /\ turns = 0
  BY DEF Init
<1>4. done \subseteq claim /\ claim \subseteq Block
  BY <1>1, ExchangeAssumption DEF Rewind
<1>5. part \in [Block -> Contents]
  <2>1. Hole \in Contents
    BY DEF Contents
  <2>2. \A b \in Block : Byte(0, b) \in Contents /\ Byte(1, b) \in Contents
    BY DEF Contents
  <2>3. \A b \in Block : (IF b \notin claim THEN Hole
                          ELSE Byte(IF b \in bad THEN 0 ELSE 1, b)) \in Contents
    BY <2>1, <2>2, Zenon
  <2> QED BY <1>2, <2>3, Zenon
<1>6. \A b \in done : part[b] = Byte(part[b][1], b)
  <2>1. TAKE b \in done
  <2>2. b \in claim /\ b \in Block
    BY <1>4
  <2>3. part[b] = <<0, b>> \/ part[b] = <<1, b>>
    BY <1>2, <2>2 DEF Byte
  <2> QED BY <2>3 DEF Byte
<1>7. link \in Scenario /\ link.size <= N /\ row.total \in 0 .. N
  <2>1. link \in OldLinks \cup NewLinks
    BY <1>1
  <2>2. row.total = old.size
    BY <1>1 DEF Signals
  <2>3. old \in Scenario /\ old.size <= N
    BY ExchangeAssumption
  <2> QED BY <2>1, <2>2, <2>3, ExchangeAssumption DEF Scenario
<1>8. Things
  <2>1. kind \in Kind /\ swapped \in BOOLEAN /\ turns \in 0 .. MaxTurns
    <3>1. kind \in Kind /\ swapped \in BOOLEAN
      BY <1>1, <1>3, Zenon
    <3>2. turns \in 0 .. MaxTurns
      BY <1>3, ExchangeAssumption
    <3> QED BY <3>1, <3>2
  <2>2. done \subseteq Block
    BY <1>4
  <2> QED BY <1>5, <1>7, <2>1, <2>2 DEF Things
<1>9. Talk
  <2>1. NoProbe.range \in RangeSupport /\ NoProbe.total \in 0 .. N /\ NoBody.count = 0
    BY ExchangeAssumption DEF NoProbe, NoBody, RangeSupport, Unknown
  <2>2. "none" \in Verdicts /\ "probing" \in Pc /\ 0 \in 0 .. N
        /\ 0 \in 0 .. MaxRedirects /\ 0 \in 0 .. MaxAttempts
    BY ExchangeAssumption DEF Verdicts, Pc
  <2> QED BY <1>3, <2>1, <2>2, HelloIs DEF Talk
<1>10. InPlace /\ Streams /\ Compared
  BY <1>3, <1>6, HelloIs DEF InPlace, Streams, Compared
<1> QED BY <1>8, <1>9, <1>10, ShapeIs DEF IInv

(***************************************************************************)
(* IInv is an invariant of every command.                                  *)
(***************************************************************************)
THEOREM ExchangeInvariance == Spec => []IInv
<1>1. IInv /\ [Next]_vars => IInv'
  <2> SUFFICES ASSUME IInv, [Next]_vars PROVE IInv'
    OBVIOUS
  <2>1. CASE UNCHANGED vars
    <3>1. UNCHANGED <<link, row, part, done, conv, kind, swapped, turns>>
      BY <2>1 DEF vars
    <3>2. Shape'
      BY <3>1 DEF IInv, Shape, TypeOK, At
    <3>3. EndWindows' = EndWindows /\ Agreeing' = Agreeing
      BY <3>1, SameWindows
    <3>4. InPlace' /\ Streams' /\ Compared'
      BY <3>1, <3>3 DEF IInv, InPlace, Streams, Compared
    <3> QED BY <3>2, <3>4 DEF IInv
  <2> QED BY <2>1, HopKeeps, AnswerKeeps, CompareSignalsKeeps, WindowKeeps, EndsKeep,
             SwapKeeps, ClaimFromKeeps, ShrinkKeeps, NothingLeftKeeps, RequestKeeps,
             ChunkKeeps, OverKeeps, TurnKeeps DEF Next, Step
<1> QED BY BeginsRight, <1>1, PTL DEF Spec

(***************************************************************************)
(* Every variable of an exchange stays in its type, and a worker's claim   *)
(* has no block that was downloaded before.                                *)
(***************************************************************************)
THEOREM ExchangeTypeCorrect == Spec => []TypeOK
<1>1. IInv => TypeOK
  BY DEF IInv, Shape
<1> QED BY <1>1, ExchangeInvariance, PTL

(***************************************************************************)
(* Over ranges every block is put where it belongs, however often the      *)
(* server changes its ways and other workers take parts of the claim.      *)
(***************************************************************************)
THEOREM BlocksAreInPlace == Spec => []SegmentsBelong
<1>1. IInv => SegmentsBelong
  <2> SUFFICES ASSUME IInv, conv.pr.range = "Supported", NEW b \in done
               PROVE  part[b][2] = b
    BY DEF SegmentsBelong
  <2>1. part[b] = Byte(part[b][1], b)
    BY DEF IInv, InPlace
  <2> QED BY <2>1 DEF Byte
<1> QED BY <1>1, ExchangeInvariance, PTL

(***************************************************************************)
(* If the last span is as long as a window, the last window ends with the  *)
(* last block.                                                             *)
(***************************************************************************)
LEMMA LastWindow ==
  ASSUME done \subseteq Block, NEW l \in done, \A c \in done : c <= l,
         Cardinality(LastSpan) >= WINDOW
  PROVE  Length = WINDOW /\ l - Length + 1 \in EndWindows
<1>1. /\ IsFiniteSet(done) /\ Cardinality(done) \in Nat
      /\ Length = IF WINDOW < Cardinality(done) THEN WINDOW ELSE Cardinality(done)
      /\ EndWindows = {Locate(done, 0), Locate(done, Cardinality(done) - Length)}
      /\ l \in Nat /\ WINDOW \in Nat \ {0} /\ \A c \in done : c \in Nat
  BY WindowsAreKept, IdentityAssumption, ExchangeAssumption DEF Block
<1>2. LastSpan = {b \in done : b .. l \subseteq done}
  <2>1. \A c \in Block : IsLast(c) <=> c = l
    BY <1>1 DEF IsLast
  <2>2. l \in Block
    OBVIOUS
  <2> QED BY <2>1, <2>2, Zenon DEF LastSpan
<1>3. IsFiniteSet(LastSpan) /\ Cardinality(LastSpan) \in Nat /\ Cardinality(LastSpan) <= Cardinality(done)
  <2>1. LastSpan \in SUBSET done
    BY <1>2
  <2> QED BY <1>1, <2>1, FS_Subset, FS_CardinalityType
<1>4. Length = WINDOW
  BY <1>1, <1>3
<1> DEFINE w == l - WINDOW + 1
<1>5. w \in Int /\ w <= l
  BY <1>1
<1>6. PICK b \in LastSpan : b <= w
  <2> SUFFICES ASSUME \A b \in LastSpan : ~(b <= w) PROVE FALSE
    OBVIOUS
  <2>0. w + 1 \in Int /\ l \in Int
    BY <1>1, <1>5
  <2>1. LastSpan \in SUBSET (w + 1 .. l)
    <3>1. ASSUME NEW b \in LastSpan PROVE b \in w + 1 .. l
      <4>1. b \in done /\ b \in Nat /\ b <= l /\ ~(b <= w)
        BY <1>1, <1>2
      <4> HIDE DEF w
      <4> QED BY <1>1, <1>5, <4>1
    <3> QED BY <3>1
  <2>2. IsFiniteSet(w + 1 .. l) /\ Cardinality(w + 1 .. l) = IF w + 1 > l THEN 0 ELSE l - (w + 1) + 1
    BY <2>0, FS_Interval
  <2>3. Cardinality(w + 1 .. l) = WINDOW - 1
    BY <1>1, <2>2
  <2>4. Cardinality(LastSpan) <= WINDOW - 1
    BY <2>1, <2>2, <2>3, FS_Subset
  <2> QED BY <1>1, <1>3, <2>4
<1>7. w \in Nat /\ w .. l \subseteq done /\ w \in done
  <2>1. b \in Nat /\ b .. l \subseteq done
    BY <1>1, <1>2, <1>6
  <2> QED BY <1>1, <1>5, <1>6, <2>1
<1>8. Cardinality(Below(done, w)) = Cardinality(done) - WINDOW
  <2>1. done = Below(done, w) \cup (w .. l)
    <3>1. \A c \in done : c < w \/ c \in w .. l
      BY <1>1, <1>7
    <3> QED BY <1>7, <3>1 DEF Below
  <2>2. Below(done, w) \cap (w .. l) = {}
    BY <1>1, <1>7 DEF Below
  <2>3. IsFiniteSet(w .. l) /\ Cardinality(w .. l) = WINDOW
    <3>1. IsFiniteSet(w .. l) /\ Cardinality(w .. l) = IF w > l THEN 0 ELSE l - w + 1
      BY <1>1, <1>7, FS_Interval
    <3> QED BY <1>1, <1>5, <3>1
  <2>4. IsFiniteSet(Below(done, w)) /\ Cardinality(Below(done, w)) \in Nat
    BY <1>1, FS_Subset, FS_CardinalityType DEF Below
  <2>5. Cardinality(done) = Cardinality(Below(done, w)) + Cardinality(w .. l)
                            - Cardinality(Below(done, w) \cap (w .. l))
    BY <2>1, <2>3, <2>4, FS_Union
  <2>6. Cardinality(Below(done, w) \cap (w .. l)) = 0
    BY <2>2, FS_EmptySet
  <2> QED BY <1>1, <2>3, <2>4, <2>5, <2>6
<1> DEFINE n == Cardinality(done) - WINDOW
<1>9. n \in Nat /\ n < Cardinality(done)
  BY <1>1, <1>3
<1>10. Locate(done, n) \in done /\ Cardinality(Below(done, Locate(done, n))) = n
  BY <1>9, LocateIs
<1>11. Locate(done, n) = w
  <2>1. done \in SUBSET Nat
    BY <1>1
  <2> DEFINE x == Locate(done, n)
  <2>2. x \in done /\ w \in done /\ Cardinality(Below(done, x)) = Cardinality(Below(done, w))
    BY <1>7, <1>8, <1>10
  <2> HIDE DEF w, x
  <2>3. x = w
    BY <1>1, <2>1, <2>2, NthIsUnique
  <2> QED BY <2>3 DEF x
<1> QED BY <1>1, <1>4, <1>11

(***************************************************************************)
(* A refresh that was accepted continues a file with the same bytes at     *)
(* both ends of what is kept, for every size, window and link.             *)
(***************************************************************************)
THEOREM AcceptedLinksServeTheFile == Spec => []AcceptedIsSame
<1>1. IInv => AcceptedIsSame
  <2> SUFFICES ASSUME IInv, swapped, conv.pc = "probing", NEW b \in Block,
                      IsFirst(b) \/ (IsLast(b) /\ Cardinality(LastSpan) >= WINDOW)
               PROVE  part[b] = Byte(link.seed, b)
    BY DEF AcceptedIsSame, At
  <2>1. done \subseteq Block /\ b \in done /\ b \in Nat /\ b < N /\ N \in Nat
    <3>1. done \subseteq Block /\ b \in done
      BY ShapeIs DEF IInv, Things, IsFirst, IsLast
    <3> QED BY <3>1, ExchangeAssumption DEF Block
  <2>2. EndWindows \subseteq Agreeing
    BY <2>1 DEF IInv, Compared
  <2>3. /\ IsFiniteSet(done) /\ Length \in Nat \ {0} /\ Cardinality(done) \in Nat
        /\ Length <= Cardinality(done) /\ Locate(done, 0) \in EndWindows
    BY <2>1, WindowsAreKept
  <2>4. ASSUME NEW w \in EndWindows, NEW n \in 0 .. Length - 1, w + n = b
        PROVE  part[b] = Byte(link.seed, b)
    BY <2>1, <2>2, <2>4 DEF Agreeing
  <2>5. CASE IsFirst(b)
    <3>1. Below(done, b) = {}
      <4>1. \A c \in done : ~(c < b)
        BY <2>1, <2>5, ExchangeAssumption DEF IsFirst, Block
      <4> QED BY <4>1 DEF Below
    <3>2. Cardinality(Below(done, b)) = 0
      BY <3>1, FS_EmptySet
    <3>3. Locate(done, 0) \in done /\ Cardinality(Below(done, Locate(done, 0))) = 0
      BY <2>1, <2>3, LocateIs
    <3>4. done \in SUBSET Nat
      BY <2>1, ExchangeAssumption DEF Block
    <3>5. Locate(done, 0) = b
      BY <2>1, <2>3, <3>2, <3>3, <3>4, NthIsUnique
    <3>6. 0 \in 0 .. Length - 1 /\ b + 0 = b
      BY <2>1, <2>3
    <3> QED BY <2>3, <2>4, <3>5, <3>6
  <2>6. CASE IsLast(b) /\ Cardinality(LastSpan) >= WINDOW
    <3>1. \A c \in done : c <= b
      BY <2>6 DEF IsLast
    <3>2. b - Length + 1 \in EndWindows
      BY <2>1, <2>6, <3>1, LastWindow
    <3>3. Length - 1 \in 0 .. Length - 1 /\ (b - Length + 1) + (Length - 1) = b
      BY <2>1, <2>3
    <3> QED BY <2>4, <3>2, <3>3
  <2> QED BY <2>5, <2>6
<1> QED BY <1>1, ExchangeInvariance, PTL

-----------------------------------------------------------------------------
(* No refresh refuses a link to the same file without a reason.            *)

Refusals == {"SizeMismatch", "ContentMismatch", "RestartOnly"}

\* The link serves the file that was begun as it should, and always has; and the
\* part file is not damaged.
InOrder == turns = 0 /\ Faithful(link) /\ \A b \in Block : part[b][1] # 0

\* As far as a window may reach from a kept block, something was written there.
WindowsWritten ==
  \A w \in done, k \in 0 .. WINDOW - 1 :
    w + k < N => part[w + k] \in {Byte(0, w + k), Byte(1, w + k)}

Checking == {"comparing", "verifying", "deciding"}

\* A refresh has written nothing yet, a resume compares nothing, and as long as
\* all is in order neither the headers nor the windows speak against the link.
FairlyJudged ==
  /\ kind = "refresh" =>
       /\ row.total = N /\ WindowsWritten
       /\ conv.pc \in {"probing", "ended"} \cup Checking
  /\ kind = "resume" => conv.pc \notin Checking
  /\ conv.verdict \in Refusals => kind = "refresh" /\ ~InOrder
  /\ InOrder =>
       /\ conv.pc = "comparing" => conv.pr.range = "Supported" /\ conv.pr.total = N
       /\ conv.pc = "verifying" => conv.pre \notin {"Reject", "RestartOnly"}

(***************************************************************************)
(* What a step must say for the judgement to stay fair, if it neither      *)
(* writes nor changes the link.                                            *)
(***************************************************************************)
LEMMA StaysFair ==
  ASSUME FairlyJudged, UNCHANGED <<link, row, part, done, kind, turns>>,
         kind = "refresh" => conv'.pc \in {"probing", "ended"} \cup Checking,
         kind = "resume" => conv'.pc \notin Checking,
         conv'.verdict \in Refusals => kind = "refresh" /\ ~InOrder,
         InOrder /\ conv'.pc = "comparing" => conv'.pr.range = "Supported" /\ conv'.pr.total = N,
         InOrder /\ conv'.pc = "verifying" => conv'.pre \notin {"Reject", "RestartOnly"}
  PROVE  FairlyJudged'
<1>1. InOrder' = InOrder
  BY DEF InOrder, Faithful
<1>2. WindowsWritten' = WindowsWritten
  BY DEF WindowsWritten
<1> QED BY <1>1, <1>2 DEF FairlyJudged

(***************************************************************************)
(* No error of a conversation is a refusal.                                *)
(***************************************************************************)
LEMMA ErrorsAreNoRefusals ==
  /\ \A c \in ErrorClass : c \notin Refusals
  /\ \A c \in {"Redirect", "Transport", "Client", "not taken", "complete", "none"} : c \notin Refusals
  /\ \A s, b : ClassifyStatus(s, b) \in ErrorClass
BY DEF ErrorClass, Refusals, ClassifyStatus

(***************************************************************************)
(* A link in order answers a request for a part of the file with that part.*)
(***************************************************************************)
LEMMA FaithfulServes ==
  ASSUME NEW sc, Faithful(sc), NEW a \in Block, NEW z \in Nat, a <= z, NEW t
  PROVE  LET r == Serve(sc, <<a, z>>, t) IN
         /\ r.status = 206 /\ ~r.encoded
         /\ ParseContentRange(r.contentRange) /\ r.contentRange.total = N
         /\ r.seed = 1 /\ r.from = a
         /\ r.count = IF z < N THEN z + 1 - a ELSE N - a
<1> DEFINE r == Serve(sc, <<a, z>>, t)
           last == LastOf(<<a, z>>, N)
<1>1. /\ sc.seed = 1 /\ sc.size = N /\ sc.ranges = "Yes" /\ sc.shift = 0 /\ sc.status = 0
      /\ ~sc.gzipAnyway
  BY DEF Faithful
<1>2. a \in Nat /\ a < N /\ N \in Nat
  BY ExchangeAssumption DEF Block
<1>3. <<a, z>> # Whole
  BY DEF Whole
<1>4. last = IF z < N THEN z ELSE N - 1
  BY DEF LastOf
<1>5. last \in Nat /\ a <= last /\ last < N /\ a + 0 = a /\ last + 0 = last
  BY <1>2, <1>4
<1>6. Satisfiable(<<a, z>>, N)
  BY <1>5 DEF Satisfiable
<1> HIDE DEF last
<1>7. /\ r.status = 206
      /\ r.contentRange = [start |-> a + 0, end |-> last + 0, total |-> N]
      /\ r.encoded = sc.gzipAnyway
      /\ r.seed = 1 /\ r.from = a + 0 /\ r.count = (last + 0) + 1 - (a + 0)
  BY <1>1, <1>3, <1>6 DEF Serve, last
<1> HIDE DEF r
<1>8. ParseContentRange(r.contentRange) /\ r.contentRange.total = N
  BY <1>5, <1>7 DEF ParseContentRange
<1>9. r.count = IF z < N THEN z + 1 - a ELSE N - a
  BY <1>2, <1>4, <1>5, <1>7
<1> QED BY <1>1, <1>5, <1>7, <1>8, <1>9 DEF r

(***************************************************************************)
(* A step that ends the command with an error refuses nothing.             *)
(***************************************************************************)
LEMMA EndIsFair ==
  ASSUME FairlyJudged, UNCHANGED <<link, row, part, done, kind, turns>>,
         NEW v, End(v), v \notin Refusals \/ (kind = "refresh" /\ ~InOrder)
  PROVE  FairlyJudged'
<1>1. conv'.pc = "ended" /\ conv'.verdict = v
  BY HelloIs DEF End
<1> QED BY <1>1, StaysFair DEF Checking

(***************************************************************************)
(* The probe sees what a link in order can do.                             *)
(***************************************************************************)
LEMMA ProbeIsFair ==
  ASSUME IInv, FairlyJudged, Hop \/ Answer
  PROVE  FairlyJudged'
<1>1. Talk /\ Things /\ conv.pc = "probing" /\ kind \in Kind
      /\ UNCHANGED <<link, row, part, done, kind, turns>>
  BY ShapeIs DEF IInv, Hop, Answer, At, Things
<1>2. CASE Hop
  <2>1. CASE End("Redirect")
    BY <1>1, <2>1, EndIsFair, ErrorsAreNoRefusals
  <2>2. CASE conv' = [conv EXCEPT !.hop = @ + 1]
    <3>1. conv'.pc = "probing" /\ conv'.verdict = conv.verdict
      BY <1>1, <2>2, HelloIs DEF Talk
    <3> QED BY <1>1, <3>1, StaysFair DEF FairlyJudged, Checking
  <2> QED BY <1>2, <2>1, <2>2 DEF Hop
<1>3. CASE Answer
  <2> DEFINE r == Serve(link, <<0, 0>>, tick)
             v == IF r.status = Down THEN "Transport" ELSE ClassifyStatus(r.status, FALSE)
  <2>1. CASE End(v)
    <3>1. v \notin Refusals
      BY ErrorsAreNoRefusals
    <3> HIDE DEF v
    <3> QED BY <1>1, <2>1, <3>1, EndIsFair
  <2>2. CASE conv' = [conv EXCEPT !.pr = Interpret(r),
                        !.pc = IF kind = "refresh" THEN "comparing" ELSE "claiming"]
    <3>1. InOrder => Interpret(r).range = "Supported" /\ Interpret(r).total = N
      <4>1. SUFFICES ASSUME Faithful(link)
                     PROVE  Interpret(r).range = "Supported" /\ Interpret(r).total = N
        BY DEF InOrder
      <4>2. 0 \in Block /\ 0 \in Nat /\ 0 <= 0
        BY ExchangeAssumption DEF Block
      <4>3. /\ r.status = 206 /\ ~r.encoded /\ ParseContentRange(r.contentRange)
            /\ r.contentRange.total = N
        BY <4>1, <4>2, FaithfulServes
      <4> HIDE DEF r
      <4> QED BY <4>3 DEF Interpret
    <3> HIDE DEF r
    <3>2. /\ conv'.pc = IF kind = "refresh" THEN "comparing" ELSE "claiming"
          /\ conv'.pr = Interpret(r) /\ conv'.verdict = conv.verdict
      BY <1>1, <2>2, HelloIs DEF Talk
    <3> QED BY <1>1, <3>1, <3>2, StaysFair DEF FairlyJudged, Checking, Kind
  <2> QED BY <1>3, <2>1, <2>2 DEF Answer
<1> QED BY <1>2, <1>3

(***************************************************************************)
(* The headers of a link in order disprove nothing.                        *)
(***************************************************************************)
LEMMA HeadersAreFair ==
  ASSUME IInv, FairlyJudged, CompareSignals
  PROVE  FairlyJudged'
<1> DEFINE pre == Compare(row, conv.pr)
           v == Finalize(pre, FALSE)
<1>1. Talk /\ conv.pc = "comparing" /\ kind = "refresh"
      /\ UNCHANGED <<link, row, part, done, kind, turns>>
  BY ShapeIs DEF IInv, CompareSignals, At, FairlyJudged, Checking, Things, Kind
<1>2. pre \in Preliminary
  BY DEF Compare, Preliminary
<1>3. InOrder => pre \notin {"Reject", "RestartOnly"}
  <2>1. SUFFICES ASSUME InOrder PROVE pre \notin {"Reject", "RestartOnly"}
    OBVIOUS
  <2>2. row.total = N /\ conv.pr.range = "Supported" /\ conv.pr.total = N
    BY <1>1, <2>1 DEF FairlyJudged
  <2> QED BY <2>2 DEF Compare, SizeDiffers
<1>4. pre \notin {"Reject", "RestartOnly"} => v \notin Refusals
  BY <1>2 DEF Finalize, Preliminary, Refusals
<1>5. \/ \E w : conv' = [conv EXCEPT !.pc = "verifying", !.pre = pre, !.windows = w]
      \/ conv' = [conv EXCEPT !.pc = "deciding", !.verdict = v]
  BY DEF CompareSignals
<1>6. conv.verdict \in Refusals => kind = "refresh" /\ ~InOrder
  BY DEF FairlyJudged
<1> HIDE DEF pre, v
<1>7. CASE \E w : conv' = [conv EXCEPT !.pc = "verifying", !.pre = pre, !.windows = w]
  <2>1. conv'.pc = "verifying" /\ conv'.pre = pre /\ conv'.verdict = conv.verdict
    BY <1>1, <1>7, HelloIs DEF Talk
  <2> QED BY <1>1, <1>3, <1>6, <2>1, StaysFair DEF Checking
<1>8. CASE conv' = [conv EXCEPT !.pc = "deciding", !.verdict = v]
  <2>1. conv'.pc = "deciding" /\ conv'.verdict = v
    BY <1>1, <1>8, HelloIs DEF Talk
  <2> QED BY <1>1, <1>3, <1>4, <2>1, StaysFair DEF Checking
<1> QED BY <1>5, <1>7, <1>8

(***************************************************************************)
(* A window at a kept block shows no difference, if all is in order: what  *)
(* it reaches was written, although the window may leave the span.         *)
(***************************************************************************)
LEMMA WindowIsClean ==
  ASSUME Things, InOrder, WindowsWritten, NEW w \in done, NEW t
  PROVE  LET r == Serve(link, <<w, w + Length - 1>>, t) IN
         r.status = 206 /\ ~Differs(w, Length, r)
<1> DEFINE z == w + Length - 1
           r == Serve(link, <<w, z>>, t)
           local == IF w + Length <= N THEN Length ELSE N - w
<1>1. done \subseteq Block /\ w \in Block /\ w \in Nat /\ w < N /\ N \in Nat
  BY ExchangeAssumption DEF Things, Block
<1>2. Length \in Nat \ {0} /\ Length <= WINDOW
  BY <1>1, WindowsAreKept, IdentityAssumption
<1>3. z \in Nat /\ w <= z
  BY <1>1, <1>2
<1>4. /\ r.status = 206 /\ r.seed = 1 /\ r.from = w
      /\ r.count = IF z < N THEN z + 1 - w ELSE N - w
  <2> HIDE DEF z
  <2> QED BY <1>1, <1>3, FaithfulServes DEF InOrder
<1> HIDE DEF r
<1>5. r.count = local
  BY <1>1, <1>2, <1>4
<1>6. ASSUME NEW n \in 0 .. local - 1 PROVE part[w + n] = BodyBlock(r, n)
  <2>1. n \in 0 .. WINDOW - 1 /\ w + n < N /\ w + n \in Block
    BY <1>1, <1>2, IdentityAssumption, ExchangeAssumption DEF Block
  <2>2. part[w + n] = Byte(0, w + n) \/ part[w + n] = Byte(1, w + n)
    BY <2>1 DEF WindowsWritten
  <2>3. part[w + n][1] # 0
    BY <2>1 DEF InOrder
  <2>4. part[w + n] = Byte(1, w + n)
    BY <2>2, <2>3 DEF Byte
  <2> QED BY <1>4, <2>4 DEF BodyBlock
<1>7. ~Differs(w, Length, r)
  BY <1>5, <1>6 DEF Differs
<1> QED BY <1>4, <1>7 DEF r

(***************************************************************************)
(* Reading a window says nothing against a link in order.                  *)
(***************************************************************************)
LEMMA WindowIsFair ==
  ASSUME IInv, FairlyJudged, Window
  PROVE  FairlyJudged'
<1> DEFINE w == CHOOSE b \in conv.windows : \A c \in conv.windows : b <= c
           r == Serve(link, <<w, w + Length - 1>>, tick)
           bad == r.status # 206 \/ Differs(w, Length, r)
<1>1. Talk /\ Things /\ conv.pc = "verifying" /\ kind = "refresh"
      /\ UNCHANGED <<link, row, part, done, kind, turns>>
  BY ShapeIs DEF IInv, Window, At, FairlyJudged, Checking, Things, Kind
<1>2. w \in done
  <2>1. conv.windows # {} /\ conv.windows \subseteq done /\ done \subseteq Block
    BY <1>1 DEF IInv, Compared, Things
  <2>2. conv.windows \in SUBSET Nat
    <3>1. Block \subseteq Nat
      BY ExchangeAssumption DEF Block
    <3> QED BY <2>1, <3>1
  <2>3. \E b \in conv.windows : \A c \in conv.windows : b <= c
    BY <2>1, <2>2, LeastNat
  <2>4. w \in conv.windows
    BY <2>3, Zenon
  <2> QED BY <2>1, <2>4
<1>3. InOrder => ~bad
  <2>1. WindowsWritten
    BY <1>1 DEF FairlyJudged
  <2> HIDE DEF w
  <2> QED BY <1>1, <1>2, <2>1, WindowIsClean
<1>4. \/ End("Client")
      \/ bad /\ conv' = [conv EXCEPT !.pc = "deciding", !.windows = {},
                                     !.verdict = Finalize(conv.pre, TRUE)]
      \/ ~bad /\ conv' = [conv EXCEPT !.pc = "deciding", !.windows = {},
                                      !.verdict = Finalize(conv.pre, FALSE)]
      \/ conv' = [conv EXCEPT !.windows = @ \ {w}]
  BY DEF Window, Length
<1> HIDE DEF w, r, bad
<1>5. /\ conv.pre \in Preliminary
      /\ InOrder => conv.pre \notin {"Reject", "RestartOnly"}
      /\ conv.verdict \in Refusals => kind = "refresh" /\ ~InOrder
  BY <1>1 DEF IInv, Compared, FairlyJudged
<1>6. CASE End("Client")
  BY <1>1, <1>6, EndIsFair, ErrorsAreNoRefusals
<1>7. ASSUME NEW v, v \in Refusals => ~InOrder,
             conv' = [conv EXCEPT !.pc = "deciding", !.windows = {}, !.verdict = v]
      PROVE  FairlyJudged'
  <2>1. conv'.pc = "deciding" /\ conv'.verdict = v
    BY <1>1, <1>7, HelloIs DEF Talk
  <2> QED BY <1>1, <1>7, <2>1, StaysFair DEF Checking
<1>8. InOrder => Finalize(conv.pre, FALSE) \notin Refusals
  BY <1>5 DEF Finalize, Preliminary, Refusals
<1>9. CASE conv' = [conv EXCEPT !.windows = @ \ {w}]
  <2>1. conv'.pc = "verifying" /\ conv'.pre = conv.pre /\ conv'.verdict = conv.verdict
    BY <1>1, <1>9, HelloIs DEF Talk
  <2> QED BY <1>1, <1>5, <2>1, StaysFair DEF Checking
<1> QED BY <1>3, <1>4, <1>6, <1>7, <1>8, <1>9

(***************************************************************************)
(* A refusal ends the command as it was decided; a replacement that is     *)
(* taken is not looked at again.                                           *)
(***************************************************************************)
LEMMA DecisionIsFair ==
  ASSUME IInv, FairlyJudged, TurnDown \/ NotTaken \/ Swap
  PROVE  FairlyJudged'
<1>1. conv.verdict \in Refusals => kind = "refresh" /\ ~InOrder
  BY DEF FairlyJudged
<1>2. CASE TurnDown
  BY <1>1, <1>2, EndIsFair DEF TurnDown
<1>3. CASE NotTaken
  BY <1>3, EndIsFair, ErrorsAreNoRefusals DEF NotTaken
<1>4. CASE Swap
  <2>1. kind' = "resume" /\ conv'.pc = "probing" /\ conv'.verdict = "none"
    BY <1>4, HelloIs DEF Swap
  <2> QED BY <2>1, ErrorsAreNoRefusals DEF FairlyJudged, Checking
<1> QED BY <1>2, <1>3, <1>4

(***************************************************************************)
(* Another attempt, or the end of the download: no refusal either way.     *)
(***************************************************************************)
LEMMA TryAgainIsFair ==
  ASSUME IInv, FairlyJudged, kind = "resume", NEW c \in ErrorClass, TryAgain(c),
         UNCHANGED <<link, row, part, done, kind, turns>>
  PROVE  FairlyJudged'
<1>1. CASE End(c)
  BY <1>1, EndIsFair, ErrorsAreNoRefusals
<1>2. CASE conv' = [conv EXCEPT !.pc = "requesting", !.body = NoBody, !.sent = 0,
                                !.attempt = @ + 1]
  <2>1. conv'.pc = "requesting" /\ conv'.verdict = conv.verdict
    BY <1>2, ShapeIs, HelloIs DEF IInv, Talk
  <2> QED BY <2>1, StaysFair DEF FairlyJudged, Checking
<1> QED BY <1>1, <1>2 DEF TryAgain

(***************************************************************************)
(* A worker refuses nothing.                                               *)
(***************************************************************************)
LEMMA WorkIsFair ==
  ASSUME IInv, FairlyJudged,
         \/ Exhausted \/ (\E a \in Block : ClaimFrom(a)) \/ Shrink
         \/ NothingLeft \/ Request \/ Chunk \/ Over \/ Reset
  PROVE  FairlyJudged'
<1>1. Talk /\ conv.pc \in {"claiming", "requesting", "streaming"} /\ kind = "resume"
  <2>1. Talk /\ kind \in Kind
    BY ShapeIs DEF IInv, Things
  <2>2. conv.pc \in {"claiming", "requesting", "streaming"}
    BY DEF Exhausted, ClaimFrom, Shrink, NothingLeft, Request, Chunk, Over, Reset, At
  <2> QED BY <2>1, <2>2 DEF FairlyJudged, Checking, Kind
<1>2. conv.verdict \notin Refusals
  BY <1>1 DEF FairlyJudged
<1>3. ASSUME NEW pc \in {"claiming", "requesting", "streaming"},
             conv'.pc = pc, conv'.verdict = conv.verdict,
             UNCHANGED <<link, row, part, done, kind, turns>>
      PROVE  FairlyJudged'
  BY <1>1, <1>2, <1>3, StaysFair DEF Checking
<1>4. CASE Exhausted
  BY <1>4, EndIsFair, ErrorsAreNoRefusals DEF Exhausted
<1>5. CASE \E a \in Block : ClaimFrom(a)
  <2>1. \E a, z : conv' = [conv EXCEPT !.pc = "requesting", !.at = a, !.end = z, !.attempt = 0]
    BY <1>5 DEF ClaimFrom
  <2>2. conv'.pc = "requesting" /\ conv'.verdict = conv.verdict
    BY <1>1, <2>1, HelloIs DEF Talk
  <2>3. UNCHANGED <<link, row, part, done, kind, turns>>
    BY <1>5 DEF ClaimFrom
  <2> QED BY <1>3, <2>2, <2>3
<1>6. CASE Shrink
  <2>1. \E z : conv' = [conv EXCEPT !.end = z]
    BY <1>6 DEF Shrink
  <2>2. conv'.pc = conv.pc /\ conv'.verdict = conv.verdict
    BY <1>1, <2>1, HelloIs DEF Talk
  <2>3. UNCHANGED <<link, row, part, done, kind, turns>>
    BY <1>6 DEF Shrink
  <2> QED BY <1>1, <1>3, <2>2, <2>3
<1>7. CASE Request
  <2>1. UNCHANGED <<link, row, part, done, kind, turns>>
    BY <1>7 DEF Request
  <2>2. \/ \E r : HeadError(r) # "none" /\ TryAgain(HeadError(r))
        \/ \E b : conv' = [conv EXCEPT !.pc = "streaming", !.sent = 0, !.body = b]
    BY <1>7 DEF Request
  <2>3. CASE \E r : HeadError(r) # "none" /\ TryAgain(HeadError(r))
    <3>1. PICK c \in ErrorClass : TryAgain(c)
      BY <2>3, HeadErrorIs
    <3> QED BY <1>1, <2>1, <3>1, TryAgainIsFair
  <2>4. CASE \E b : conv' = [conv EXCEPT !.pc = "streaming", !.sent = 0, !.body = b]
    <3>1. conv'.pc = "streaming" /\ conv'.verdict = conv.verdict
      BY <1>1, <2>4, HelloIs DEF Talk
    <3> QED BY <1>3, <2>1, <3>1
  <2> QED BY <2>2, <2>3, <2>4
<1>8. CASE Chunk
  <2>1. conv'.pc = conv.pc /\ conv'.verdict = conv.verdict /\ kind' = kind
    BY <1>1, <1>8, HelloIs DEF Chunk, Talk
  <2> QED BY <1>1, <1>2, <2>1 DEF FairlyJudged, Checking
<1>9. CASE Over \/ Reset
  <2>1. UNCHANGED <<link, row, part, done, kind, turns>> /\ "TransientNetwork" \in ErrorClass
    BY <1>9 DEF Over, Reset, ErrorClass
  <2>2. \/ TryAgain("TransientNetwork")
        \/ conv' = [conv EXCEPT !.pc = "claiming", !.body = NoBody, !.sent = 0]
    BY <1>9 DEF Over, Reset
  <2>3. CASE TryAgain("TransientNetwork")
    BY <1>1, <2>1, <2>3, TryAgainIsFair
  <2>4. CASE conv' = [conv EXCEPT !.pc = "claiming", !.body = NoBody, !.sent = 0]
    <3>1. conv'.pc = "claiming" /\ conv'.verdict = conv.verdict
      BY <1>1, <2>4, HelloIs DEF Talk
    <3> QED BY <1>3, <2>1, <3>1
  <2> QED BY <2>2, <2>3, <2>4
<1>10. CASE NothingLeft
  <2>1. conv'.pc = "claiming" /\ conv'.verdict = conv.verdict
    BY <1>1, <1>10, HelloIs DEF NothingLeft, Talk
  <2> QED BY <1>3, <1>10, <2>1 DEF NothingLeft
<1> QED BY <1>4, <1>5, <1>6, <1>7, <1>8, <1>9, <1>10

(***************************************************************************)
(* Once the server has changed its ways it is not in order any more.       *)
(***************************************************************************)
LEMMA TurnIsFair ==
  ASSUME IInv, FairlyJudged, Turn
  PROVE  FairlyJudged'
<1>1. UNCHANGED <<row, part, done, conv, kind>> /\ turns' = turns + 1 /\ turns \in Nat
  BY ShapeIs DEF IInv, Things, Turn
<1>2. ~InOrder'
  BY <1>1 DEF InOrder
<1>3. WindowsWritten' = WindowsWritten
  BY <1>1 DEF WindowsWritten
<1> QED BY <1>1, <1>2, <1>3 DEF FairlyJudged

(***************************************************************************)
(* A command begins with a rewind: what a window may reach from a block it *)
(* keeps, the row of before had claimed.                                   *)
(***************************************************************************)
LEMMA BeginsFairly == Init => FairlyJudged
<1> SUFFICES ASSUME Init PROVE FairlyJudged
  OBVIOUS
<1>1. PICK old \in OldLinks, claim \in Claims, k \in Kind :
        /\ row = Signals(old) /\ kind = k /\ done = Rewind(claim)
        /\ \E bad \in {{}} \cup (IF k = "refresh" THEN {{b} : b \in claim} ELSE {}) :
             part = [b \in Block |-> IF b \notin claim THEN Hole
                                     ELSE Byte(IF b \in bad THEN 0 ELSE 1, b)]
  BY Zenon DEF Init
<1>2. PICK bad : part = [b \in Block |-> IF b \notin claim THEN Hole
                                        ELSE Byte(IF b \in bad THEN 0 ELSE 1, b)]
  BY <1>1
<1>3. conv.pc = "probing" /\ conv.verdict = "none"
  BY HelloIs DEF Init
<1>4. row.total = N
  BY <1>1, ExchangeAssumption DEF Signals
<1>5. WindowsWritten
  <2>1. SUFFICES ASSUME NEW w \in done, NEW j \in 0 .. WINDOW - 1
                 PROVE  part[w + j] \in {Byte(0, w + j), Byte(1, w + j)}
    BY DEF WindowsWritten
  <2>2. j \in 0 .. PARANOID_REWIND
    BY RewindCoversWindow, IdentityAssumption, ExchangeAssumption
  <2>3. w + j \in claim /\ w + j \in Block
    BY <1>1, <2>2, ExchangeAssumption DEF Rewind
  <2>4. part[w + j] = Byte(0, w + j) \/ part[w + j] = Byte(1, w + j)
    BY <1>2, <2>3
  <2> QED BY <2>4
<1> QED BY <1>3, <1>4, <1>5, ErrorsAreNoRefusals DEF FairlyJudged, Checking

(***************************************************************************)
(* FairlyJudged is an invariant of every command.                          *)
(***************************************************************************)
LEMMA JudgesFairly == Spec => []FairlyJudged
<1>1. IInv /\ FairlyJudged /\ [Next]_vars => FairlyJudged'
  <2> SUFFICES ASSUME IInv, FairlyJudged, [Next]_vars PROVE FairlyJudged'
    OBVIOUS
  <2>1. CASE UNCHANGED vars
    <3>1. UNCHANGED <<link, row, part, done, conv, kind, turns>>
      BY <2>1 DEF vars
    <3> QED BY <3>1 DEF FairlyJudged, InOrder, Faithful, WindowsWritten
  <2> QED BY <2>1, ProbeIsFair, HeadersAreFair, WindowIsFair, DecisionIsFair, WorkIsFair,
             TurnIsFair DEF Next, Step
<1> QED BY <1>1, BeginsFairly, ExchangeInvariance, PTL DEF Spec

(***************************************************************************)
(* A refresh refuses no link to the same file whose server is in order,    *)
(* for every size, every claim and every choice of windows: although a     *)
(* window may leave its span, it never reaches a block that was not        *)
(* written, because the rewind gave back at least a window's length.       *)
(***************************************************************************)
THEOREM NoLinkIsWronged == Spec => []NoFalseRefusal
<1>1. FairlyJudged => NoFalseRefusal
  BY DEF FairlyJudged, InOrder, NoFalseRefusal, Refusals
<1> QED BY <1>1, JudgesFairly, PTL

-----------------------------------------------------------------------------
(* Every step costs.                                                       *)

\* A worker without ranges asks a server that answers with an empty success.  This
\* is no attempt, and nothing limits how often it happens.
AsksForNothing == Request /\ GivesNothing

Phase ==
  IF conv.pc = "ended" THEN 0
  ELSE IF kind = "resume" THEN (IF conv.pc = "probing" THEN 2 ELSE 1)
  ELSE IF conv.pc = "deciding" THEN 3
  ELSE IF conv.pc = "verifying" THEN 4
  ELSE IF conv.pc = "comparing" THEN 5
  ELSE 6

ToDo ==
  IF conv.pc = "probing" THEN MaxRedirects - conv.hop
  ELSE IF conv.pc = "verifying" THEN Cardinality(conv.windows)
  ELSE Cardinality(Block \ done)

\* The body that is read is empty, and that is no error.
Nothing == ~UseRange /\ conv.body.count = 0

\* An attempt is worth less than a new claim, and that less than what a block that
\* was just written, or an answer without one, is worth.
Tries ==
  IF conv.pc = "streaming" /\ (conv.sent > 0 \/ Nothing) THEN MaxAttempts + 3
  ELSE IF conv.pc = "requesting" /\ Satisfied THEN MaxAttempts + 2
  ELSE IF conv.pc = "claiming" THEN MaxAttempts + 1
  ELSE MaxAttempts - conv.attempt

Unanswered == IF conv.pc = "requesting" THEN 1 ELSE 0

\* What a command has yet to go through: its phases; what is to be read or fetched;
\* attempts; an answer; what other workers may take; what the server may become.
Effort ==
  <<Phase, ToDo, Tries, Unanswered, conv.end - conv.at, MaxTurns - turns>>

Efforts == [1 .. 6 -> Nat]
Fewer == LexProductOrdering(OpToRel(<, Nat), Nat, 6)

StepCosts == <<Effort', Effort>> \in Fewer

\* A body that is begun has a claim that waits for it.
Going == conv.pc = "streaming" /\ conv.sent = 0 => conv.at < conv.end

(***************************************************************************)
(* What a command has yet to go through cannot fall for ever.              *)
(***************************************************************************)
LEMMA FewerEnds == IsWellFoundedOn(Fewer, Efforts)
<1>1. IsWellFoundedOn(OpToRel(<, Nat), Nat)
  BY NatLessThanWellFounded, Zenon
<1> DEFINE R == OpToRel(<, Nat)
<1> HIDE DEF R
<1>2. \A n \in Nat : IsWellFoundedOn(R, Nat) => IsWellFoundedOn(LexProductOrdering(R, Nat, n), [1 .. n -> Nat])
  BY WFLexProductOrdering, Zenon
<1>3. 6 \in Nat
  OBVIOUS
<1> QED BY <1>1, <1>2, <1>3, Zenon DEF R, Fewer, Efforts

(***************************************************************************)
(* It is less if it is less in one place and the same before.              *)
(***************************************************************************)
LEMMA Falls ==
  ASSUME NEW e \in Efforts, NEW f \in Efforts, NEW k \in 1 .. 6,
         e[k] < f[k], \A i \in 1 .. k - 1 : e[i] = f[i]
  PROVE  <<e, f>> \in Fewer
<1>1. <<e[k], f[k]>> \in OpToRel(<, Nat)
  <2>1. e[k] \in Nat /\ f[k] \in Nat
    BY DEF Efforts
  <2> QED BY <2>1, Zenon DEF OpToRel
<1> DEFINE R == OpToRel(<, Nat)
           ff == <<e, f>>
<1>2. <<ff[1][k], ff[2][k]>> \in R /\ \A i \in 1 .. k - 1 : ff[1][i] = ff[2][i]
  BY <1>1
<1>3. ff \in [1 .. 6 -> Nat] \X [1 .. 6 -> Nat]
  BY DEF Efforts
<1> HIDE DEF ff, R
<1>4. ff \in LexProductOrdering(R, Nat, 6)
  BY <1>2, <1>3, Zenon DEF LexProductOrdering
<1> QED BY <1>4 DEF ff, R, Fewer

(***************************************************************************)
(* It is a number in every place.                                          *)
(***************************************************************************)
LEMMA EffortCounts == IInv => Effort \in Efforts
<1> SUFFICES ASSUME IInv PROVE Effort \in Efforts
  OBVIOUS
<1>1. Talk /\ Things
  BY ShapeIs DEF IInv
<1>2. Phase \in Nat /\ Unanswered \in Nat
  BY DEF Phase, Unanswered
<1>3. conv.end - conv.at \in Nat /\ MaxTurns - turns \in Nat
  BY <1>1, ExchangeAssumption DEF Talk, Things
<1>4. Tries \in Nat
  BY <1>1, ExchangeAssumption DEF Talk, Tries
<1>5. ToDo \in Nat
  <2>1. IsFiniteSet(Block)
    BY FS_Interval, ExchangeAssumption DEF Block
  <2>2. IsFiniteSet(conv.windows) /\ IsFiniteSet(Block \ done)
    BY <1>1, <2>1, FS_Subset DEF Talk
  <2>3. Cardinality(conv.windows) \in Nat /\ Cardinality(Block \ done) \in Nat
    BY <2>2, FS_CardinalityType
  <2>4. MaxRedirects - conv.hop \in Nat
    BY <1>1, ExchangeAssumption DEF Talk
  <2> QED BY <2>3, <2>4 DEF ToDo
<1> QED BY <1>2, <1>3, <1>4, <1>5 DEF Effort, Efforts

(***************************************************************************)
(* Where the effort may fall.                                              *)
(***************************************************************************)
LEMMA Cheaper ==
  ASSUME Effort \in Efforts, Effort' \in Efforts,
         \/ Phase' < Phase
         \/ Phase' = Phase /\ ToDo' < ToDo
         \/ Phase' = Phase /\ ToDo' = ToDo /\ Tries' < Tries
         \/ Phase' = Phase /\ ToDo' = ToDo /\ Tries' = Tries /\ Unanswered' < Unanswered
         \/ /\ Phase' = Phase /\ ToDo' = ToDo /\ Tries' = Tries /\ Unanswered' = Unanswered
            /\ conv'.end - conv'.at < conv.end - conv.at
         \/ /\ Phase' = Phase /\ ToDo' = ToDo /\ Tries' = Tries /\ Unanswered' = Unanswered
            /\ conv'.end - conv'.at = conv.end - conv.at /\ MaxTurns - turns' < MaxTurns - turns
  PROVE  StepCosts
<1>1. /\ Effort[1] = Phase /\ Effort[2] = ToDo /\ Effort[3] = Tries /\ Effort[4] = Unanswered
      /\ Effort[5] = conv.end - conv.at /\ Effort[6] = MaxTurns - turns
  BY DEF Effort
<1>2. /\ Effort'[1] = Phase' /\ Effort'[2] = ToDo' /\ Effort'[3] = Tries'
      /\ Effort'[4] = Unanswered' /\ Effort'[5] = conv'.end - conv'.at
      /\ Effort'[6] = MaxTurns - turns'
  BY DEF Effort
<1> DEFINE e == Effort'
           f == Effort
<1>3. \E k \in 1 .. 6 : e[k] < f[k] /\ \A i \in 1 .. k - 1 : e[i] = f[i]
  <2>1. CASE Phase' < Phase
    <3> WITNESS 1 \in 1 .. 6
    <3> QED BY <1>1, <1>2, <2>1
  <2>2. CASE Phase' = Phase /\ ToDo' < ToDo
    <3> WITNESS 2 \in 1 .. 6
    <3> QED BY <1>1, <1>2, <2>2
  <2>3. CASE Phase' = Phase /\ ToDo' = ToDo /\ Tries' < Tries
    <3> WITNESS 3 \in 1 .. 6
    <3> QED BY <1>1, <1>2, <2>3
  <2>4. CASE Phase' = Phase /\ ToDo' = ToDo /\ Tries' = Tries /\ Unanswered' < Unanswered
    <3> WITNESS 4 \in 1 .. 6
    <3> QED BY <1>1, <1>2, <2>4
  <2>5. CASE /\ Phase' = Phase /\ ToDo' = ToDo /\ Tries' = Tries /\ Unanswered' = Unanswered
             /\ conv'.end - conv'.at < conv.end - conv.at
    <3> WITNESS 5 \in 1 .. 6
    <3> QED BY <1>1, <1>2, <2>5
  <2>6. CASE /\ Phase' = Phase /\ ToDo' = ToDo /\ Tries' = Tries /\ Unanswered' = Unanswered
             /\ conv'.end - conv'.at = conv.end - conv.at /\ MaxTurns - turns' < MaxTurns - turns
    <3> WITNESS 6 \in 1 .. 6
    <3> QED BY <1>1, <1>2, <2>6
  <2> QED BY <2>1, <2>2, <2>3, <2>4, <2>5, <2>6
<1>4. e \in Efforts /\ f \in Efforts
  OBVIOUS
<1> HIDE DEF e, f
<1>5. <<e, f>> \in Fewer
  BY <1>3, <1>4, Falls
<1> QED BY <1>5 DEF e, f, StepCosts

(***************************************************************************)
(* A command that ends.                                                    *)
(***************************************************************************)
LEMMA EndCosts ==
  ASSUME IInv, Effort \in Efforts, Effort' \in Efforts, conv.pc # "ended", conv'.pc = "ended"
  PROVE  StepCosts
<1>1. Phase' = 0
  BY DEF Phase
<1>2. Phase \in 1 .. 6
  BY DEF Phase
<1>3. Phase' < Phase
  BY <1>1, <1>2
<1> QED BY <1>3, Cheaper

(***************************************************************************)
(* A probe, and the comparison of a replacement.                           *)
(***************************************************************************)
LEMMA JudgingCosts ==
  ASSUME IInv, FairlyJudged, Effort \in Efforts, Effort' \in Efforts,
         Hop \/ Answer \/ CompareSignals \/ Window \/ TurnDown \/ NotTaken \/ Swap
  PROVE  StepCosts
<1>1. Talk /\ Things /\ kind \in Kind
  BY ShapeIs DEF IInv, Things
<1>2. conv.pc \in {"probing", "comparing", "verifying", "deciding"}
  BY DEF Hop, Answer, CompareSignals, Window, TurnDown, NotTaken, Swap, At
<1>3. ASSUME NEW v, End(v) PROVE StepCosts
  <2>1. conv'.pc = "ended"
    BY <1>3, HelloIs DEF End
  <2> QED BY <1>2, <2>1, EndCosts
<1>4. CASE Hop
  <2>1. CASE conv' = [conv EXCEPT !.hop = @ + 1] /\ kind' = kind
    <3>1. conv'.pc = conv.pc /\ conv'.hop = conv.hop + 1 /\ conv.pc = "probing"
      BY <1>1, <1>4, <2>1, HelloIs DEF Talk, Hop, At
    <3>2. Phase' = Phase
      BY <2>1, <3>1 DEF Phase
    <3>3. ToDo' < ToDo
      BY <1>1, <3>1, ExchangeAssumption DEF ToDo, Talk
    <3> QED BY <3>2, <3>3, Cheaper
  <2> QED BY <1>3, <1>4, <2>1 DEF Hop
<1>5. CASE Answer
  <2>1. CASE kind' = kind /\ conv'.pc = IF kind = "refresh" THEN "comparing" ELSE "claiming"
    <3>1. conv.pc = "probing"
      BY <1>5 DEF Answer, At
    <3>2. Phase' < Phase
      BY <1>1, <2>1, <3>1 DEF Phase, Kind
    <3> QED BY <3>2, Cheaper
  <2>2. \/ \E v : End(v)
        \/ \E p : conv' = [conv EXCEPT !.pr = p,
                             !.pc = IF kind = "refresh" THEN "comparing" ELSE "claiming"]
    BY <1>5 DEF Answer
  <2>3. CASE \E p : conv' = [conv EXCEPT !.pr = p,
                               !.pc = IF kind = "refresh" THEN "comparing" ELSE "claiming"]
    <3>1. conv'.pc = IF kind = "refresh" THEN "comparing" ELSE "claiming"
      BY <1>1, <2>3, HelloIs DEF Talk
    <3>2. kind' = kind
      BY <1>5 DEF Answer
    <3> QED BY <2>1, <3>1, <3>2
  <2> QED BY <1>3, <2>2, <2>3
<1>6. ASSUME conv.pc \in Checking PROVE kind = "refresh"
  BY <1>1, <1>6 DEF FairlyJudged, Kind
<1>7. CASE CompareSignals
  <2>1. conv.pc = "comparing" /\ kind' = kind /\ kind = "refresh"
    BY <1>6, <1>7 DEF CompareSignals, At, Checking
  <2>2. conv'.pc \in {"verifying", "deciding"}
    <3>1. \/ \E p, w : conv' = [conv EXCEPT !.pc = "verifying", !.pre = p, !.windows = w]
          \/ \E v : conv' = [conv EXCEPT !.pc = "deciding", !.verdict = v]
      BY <1>7 DEF CompareSignals
    <3> QED BY <1>1, <3>1, HelloIs DEF Talk
  <2>3. Phase' < Phase
    BY <2>1, <2>2 DEF Phase
  <2> QED BY <2>3, Cheaper
<1>8. CASE Window
  <2>1. conv.pc = "verifying" /\ kind' = kind /\ kind = "refresh"
    BY <1>6, <1>8 DEF Window, At, Checking
  <2> DEFINE w == CHOOSE b \in conv.windows : \A c \in conv.windows : b <= c
  <2>2. w \in conv.windows /\ conv.windows \subseteq Block
    <3>1. conv.windows # {} /\ conv.windows \subseteq Block /\ Block \subseteq Nat
      BY <1>1, <2>1, ExchangeAssumption DEF IInv, Compared, Talk, Block
    <3>2. \E b \in conv.windows : \A c \in conv.windows : b <= c
      BY <3>1, LeastNat
    <3>3. w \in conv.windows
      BY <3>2
    <3> QED BY <3>1, <3>3
  <2>3. \/ \E v : End(v)
        \/ \E v : conv' = [conv EXCEPT !.pc = "deciding", !.windows = {}, !.verdict = v]
        \/ conv' = [conv EXCEPT !.windows = @ \ {w}]
    BY <1>8, Zenon DEF Window
  <2> HIDE DEF w
  <2>4. CASE \E v : conv' = [conv EXCEPT !.pc = "deciding", !.windows = {}, !.verdict = v]
    <3>1. conv'.pc = "deciding"
      BY <1>1, <2>4, HelloIs DEF Talk
    <3>2. Phase' < Phase
      BY <2>1, <3>1 DEF Phase
    <3> QED BY <3>2, Cheaper
  <2>5. CASE conv' = [conv EXCEPT !.windows = @ \ {w}]
    <3>1. conv'.pc = "verifying" /\ conv'.windows = conv.windows \ {w}
      BY <1>1, <2>1, <2>5, HelloIs DEF Talk
    <3>2. IsFiniteSet(conv.windows)
      <4>1. IsFiniteSet(Block)
        BY FS_Interval, ExchangeAssumption DEF Block
      <4> QED BY <2>2, <4>1, FS_Subset
    <3>3. Cardinality(conv.windows \ {w}) = Cardinality(conv.windows) - 1
          /\ Cardinality(conv.windows) \in Nat
      BY <2>2, <3>2, FS_RemoveElement, FS_CardinalityType
    <3>4. ToDo' < ToDo /\ Phase' = Phase
      BY <2>1, <3>1, <3>3 DEF ToDo, Phase
    <3> QED BY <3>4, Cheaper
  <2> QED BY <1>3, <2>3, <2>4, <2>5
<1>9. CASE TurnDown \/ NotTaken
  BY <1>3, <1>9 DEF TurnDown, NotTaken
<1>10. CASE Swap
  <2>1. conv.pc = "deciding" /\ kind = "refresh" /\ kind' = "resume" /\ conv'.pc = "probing"
    BY <1>6, <1>10, HelloIs DEF Swap, At, Checking
  <2>2. Phase' < Phase
    BY <2>1 DEF Phase
  <2> QED BY <2>2, Cheaper
<1> QED BY <1>4, <1>5, <1>7, <1>8, <1>9, <1>10

(***************************************************************************)
(* A response that passes the checks has a body, if no range was asked for *)
(* and the server does not answer with empty successes.                    *)
(***************************************************************************)
LEMMA BodyHasBlocks ==
  ASSUME Things, link.status \notin 200 .. 299, ~UseRange,
         HeadError(Serve(link, Whole, tick)) = "none"
  PROVE  Serve(link, Whole, tick).count > 0
<1> DEFINE r == Serve(link, Whole, tick)
<1>1. link.status \in Int /\ link.size \in Nat \ {0}
  BY DEF Things, Scenario
<1>2. r.status = Down \/ r.status \in 200 .. 299
  <2>1. \A s, b : ClassifyStatus(s, b) # "none"
    BY DEF ClassifyStatus
  <2> HIDE DEF r
  <2>2. HeadError(r) = "none"
    BY DEF r
  <2> QED BY <2>1, <2>2 DEF HeadError
<1>3. r.status # Down
  <2> HIDE DEF r
  <2>1. HeadError(r) = "none"
    BY DEF r
  <2> QED BY <2>1 DEF HeadError
<1>4. CASE link.status # 0
  <2>1. r.status = link.status
    BY <1>4 DEF Serve, Refusal
  <2> HIDE DEF r
  <2> QED BY <1>2, <1>3, <2>1
<1>5. CASE link.status = 0
  <2>1. r.count = link.size - 1 + 1 - 0
    BY <1>5 DEF Serve
  <2> HIDE DEF r
  <2> QED BY <1>1, <2>1 DEF r
<1> QED BY <1>4, <1>5

(***************************************************************************)
(* Another attempt at a claim, after a body that did not finish it, or     *)
(* after none.                                                             *)
(***************************************************************************)
LEMMA TryAgainCosts ==
  ASSUME IInv, Effort \in Efforts, Effort' \in Efforts, NEW c, TryAgain(c),
         UNCHANGED <<done, kind, turns>>, kind = "resume",
         conv.pc \in {"requesting", "streaming"},
         conv.pc = "requesting" => ~Satisfied,
         conv.pc = "streaming" /\ conv.sent = 0 => ~Satisfied
  PROVE  StepCosts
<1>1. Talk
  BY ShapeIs DEF IInv
<1>2. CASE End(c)
  <2>1. conv'.pc = "ended"
    BY <1>2, HelloIs DEF End
  <2> QED BY <2>1, EndCosts
<1>3. CASE conv' = [conv EXCEPT !.pc = "requesting", !.body = NoBody, !.sent = 0,
                                !.attempt = @ + 1]
  <2>1. conv'.pc = "requesting" /\ conv'.attempt = conv.attempt + 1
        /\ conv'.at = conv.at /\ conv'.end = conv.end
    BY <1>1, <1>3, HelloIs DEF Talk
  <2>2. Phase' = Phase /\ ToDo' = ToDo
    BY <2>1 DEF Phase, ToDo, Block
  <2>3. conv.attempt \in Nat /\ conv.sent \in Nat /\ MaxAttempts \in Nat
        /\ conv.at \in Nat /\ conv.end \in Nat
    BY <1>1, ExchangeAssumption DEF Talk
  <2>4. Tries' < Tries
    BY <2>1, <2>3 DEF Tries, Satisfied
  <2> QED BY <2>2, <2>4, Cheaper
<1> QED BY <1>2, <1>3 DEF TryAgain

(***************************************************************************)
(* A worker, and the others that take parts of its claim.                  *)
(***************************************************************************)
LEMMA WorkCosts ==
  ASSUME IInv, FairlyJudged, Going, Effort \in Efforts, Effort' \in Efforts,
         \/ Exhausted \/ (\E a \in Block : ClaimFrom(a)) \/ Shrink
         \/ NothingLeft \/ Request \/ Chunk \/ Over \/ Reset,
         ~AsksForNothing
  PROVE  StepCosts
<1>1. Talk /\ conv.pc \in {"claiming", "requesting", "streaming"} /\ kind = "resume"
  <2>1. Talk /\ kind \in Kind
    BY ShapeIs DEF IInv, Things
  <2>2. conv.pc \in {"claiming", "requesting", "streaming"}
    BY DEF Exhausted, ClaimFrom, Shrink, NothingLeft, Request, Chunk, Over, Reset, At
  <2> QED BY <2>1, <2>2 DEF FairlyJudged, Checking, Kind
<1>2. conv.attempt \in 0 .. MaxAttempts /\ conv.sent \in Nat /\ MaxAttempts \in Nat
      /\ conv.at \in Nat /\ conv.end \in Nat /\ conv.body.count \in Nat
  BY <1>1, ExchangeAssumption DEF Talk
<1>3. kind' = kind
  BY DEF Exhausted, ClaimFrom, Shrink, NothingLeft, Request, Chunk, Over, Reset
<1>4. ASSUME conv'.pc \in {"claiming", "requesting", "streaming"}, done' = done
      PROVE  Phase' = Phase /\ ToDo' = ToDo
  BY <1>1, <1>3, <1>4 DEF Phase, ToDo, Block
<1>5. CASE Exhausted
  <2>1. conv'.pc = "ended"
    BY <1>5, HelloIs DEF Exhausted, End
  <2> QED BY <1>1, <2>1, EndCosts
<1>6. CASE \E a \in Block : ClaimFrom(a)
  <2>1. PICK a \in Block :
          /\ conv.pc = "claiming" /\ UNCHANGED done
          /\ \E z \in a + 1 .. conv.pr.total :
               conv' = [conv EXCEPT !.pc = "requesting", !.at = a, !.end = z, !.attempt = 0]
    BY <1>6 DEF ClaimFrom, At
  <2>2. PICK z \in a + 1 .. conv.pr.total :
          conv' = [conv EXCEPT !.pc = "requesting", !.at = a, !.end = z, !.attempt = 0]
    BY <2>1
  <2>3. conv'.pc = "requesting" /\ conv'.at = a /\ conv'.end = z /\ conv'.attempt = 0
    BY <1>1, <2>2, HelloIs DEF Talk
  <2>4. a < z /\ a \in Nat /\ z \in Nat
    BY ExchangeAssumption, <1>1 DEF Block, Talk
  <2>5. Tries' < Tries
    BY <1>2, <2>1, <2>3, <2>4 DEF Tries, Satisfied
  <2> QED BY <1>4, <2>1, <2>3, <2>5, Cheaper
<1>7. CASE Shrink
  <2>1. PICK z \in conv.at + 1 .. conv.end - 1 : conv' = [conv EXCEPT !.end = z]
    BY <1>7 DEF Shrink
  <2>2. /\ conv'.pc = conv.pc /\ conv'.at = conv.at /\ conv'.end = z
        /\ conv'.sent = conv.sent /\ conv'.attempt = conv.attempt
        /\ conv'.pr = conv.pr /\ conv'.body = conv.body
    BY <1>1, <2>1, HelloIs DEF Talk
  <2>3. Tries' = Tries /\ Unanswered' = Unanswered
    BY <1>2, <2>2 DEF Tries, Nothing, UseRange, Satisfied, Unanswered
  <2>4. conv'.end - conv'.at < conv.end - conv.at
    BY <1>2, <2>2
  <2>5. done' = done
    BY <1>7 DEF Shrink
  <2> QED BY <1>1, <1>4, <2>2, <2>3, <2>4, <2>5, Cheaper
<1>8. CASE NothingLeft
  <2>1. conv.pc = "requesting" /\ Satisfied /\ conv'.pc = "claiming" /\ done' = done
    BY <1>1, <1>8, HelloIs DEF NothingLeft, At, Talk
  <2>2. Tries' < Tries
    BY <1>2, <2>1 DEF Tries
  <2> QED BY <1>4, <2>1, <2>2, Cheaper
<1>9. CASE Request
  <2>1. conv.pc = "requesting" /\ ~Satisfied /\ UNCHANGED <<done, kind, turns>>
    BY <1>9 DEF Request, At
  <2> DEFINE r == Serve(link, IF UseRange THEN <<conv.at, conv.end - 1>> ELSE Whole, tick)
             body == [seed |-> r.seed, from |-> r.from, count |-> r.count]
  <2>2. \/ \E c : TryAgain(c)
        \/ /\ HeadError(r) = "none"
           /\ conv' = [conv EXCEPT !.pc = "streaming", !.sent = 0, !.body = body]
    BY <1>9, Zenon DEF Request
  <2>3. CASE \E c : TryAgain(c)
    BY <1>1, <2>1, <2>3, TryAgainCosts
  <2>4. CASE /\ HeadError(r) = "none"
             /\ conv' = [conv EXCEPT !.pc = "streaming", !.sent = 0, !.body = body]
    <3>1. body.count = r.count
      OBVIOUS
    <3>2. ~UseRange => r.count > 0
      <4>1. ~UseRange => r = Serve(link, Whole, tick) /\ ~Empty(link)
        BY <1>9 DEF r, AsksForNothing, GivesNothing
      <4> HIDE DEF r, body
      <4>2. Things
        BY ShapeIs DEF IInv
      <4> QED BY <2>4, <4>1, <4>2, BodyHasBlocks DEF Empty
    <3> HIDE DEF r, body
    <3>3. /\ conv'.pc = "streaming" /\ conv'.sent = 0 /\ conv'.attempt = conv.attempt
          /\ conv'.pr = conv.pr /\ conv'.body = body
      BY <1>1, <2>4, HelloIs DEF Talk
    <3>4. ~Nothing'
      BY <3>1, <3>2, <3>3 DEF Nothing, UseRange
    <3>5. Tries' = Tries /\ Unanswered' < Unanswered
      BY <2>1, <3>3, <3>4 DEF Tries, Unanswered
    <3> QED BY <1>4, <2>1, <3>3, <3>5, Cheaper
  <2> QED BY <2>2, <2>3, <2>4
<1>10. CASE Chunk
  <2>1. conv.pc = "streaming" /\ conv.at < conv.end /\ done' = done \cup {conv.at}
    BY <1>2, <1>10 DEF Chunk, At, Satisfied
  <2>2. conv'.pc = "streaming"
    BY <1>1, <1>10, <2>1, HelloIs DEF Chunk, Talk
  <2>3. conv.at \in Block \ done
    <3>1. conv.at \in conv.at .. conv.end - 1 /\ conv.end \in 0 .. N /\ N \in Nat
      BY <1>1, <1>2, <2>1, ExchangeAssumption DEF Talk
    <3> QED BY <1>1, <1>2, <2>1, <3>1 DEF Talk, Block
  <2>4. IsFiniteSet(Block \ done)
    <3>1. IsFiniteSet(Block)
      BY FS_Interval, ExchangeAssumption DEF Block
    <3> QED BY <3>1, FS_Subset
  <2>5. Cardinality((Block \ done) \ {conv.at}) = Cardinality(Block \ done) - 1
        /\ Cardinality(Block \ done) \in Nat
    BY <2>3, <2>4, FS_RemoveElement, FS_CardinalityType
  <2>6. Block \ done' = (Block \ done) \ {conv.at}
    BY <2>1
  <2>7. ToDo' < ToDo
    <3>1. ToDo' = Cardinality(Block \ done')
      BY <2>2 DEF ToDo, Block
    <3>2. ToDo = Cardinality(Block \ done)
      BY <2>1 DEF ToDo
    <3>3. ToDo' = Cardinality((Block \ done) \ {conv.at})
      BY <2>6, <3>1, Zenon
    <3> QED BY <2>5, <3>2, <3>3
  <2>8. Phase' = Phase
    BY <1>1, <1>3, <2>1, <2>2 DEF Phase
  <2> QED BY <2>7, <2>8, Cheaper
<1>11. CASE Over \/ Reset
  <2>1. conv.pc = "streaming" /\ UNCHANGED <<done, kind, turns>>
    BY <1>11 DEF Over, Reset, At
  <2>2. conv.sent = 0 => ~Satisfied
    BY <1>2, <2>1 DEF Going, Satisfied
  <2>3. \/ TryAgain("TransientNetwork")
        \/ /\ conv' = [conv EXCEPT !.pc = "claiming", !.body = NoBody, !.sent = 0]
           /\ conv.sent = conv.body.count \/ Satisfied
           /\ UseRange => Satisfied
    BY <1>11 DEF Over, Reset
  <2>4. CASE TryAgain("TransientNetwork")
    BY <1>1, <2>1, <2>2, <2>4, TryAgainCosts
  <2>5. CASE /\ conv' = [conv EXCEPT !.pc = "claiming", !.body = NoBody, !.sent = 0]
             /\ conv.sent = conv.body.count \/ Satisfied
             /\ UseRange => Satisfied
    <3>1. conv'.pc = "claiming"
      BY <1>1, <2>5, HelloIs DEF Talk
    <3>2. conv.sent > 0 \/ Nothing
      BY <1>2, <2>1, <2>2, <2>5 DEF Nothing
    <3>3. Tries' < Tries
      BY <1>2, <2>1, <3>1, <3>2 DEF Tries
    <3> QED BY <1>4, <2>1, <3>1, <3>3, Cheaper
  <2> QED BY <2>3, <2>4, <2>5
<1> QED BY <1>5, <1>6, <1>7, <1>8, <1>9, <1>10, <1>11

(***************************************************************************)
(* The server may change its ways so many times.                           *)
(***************************************************************************)
LEMMA TurnCosts ==
  ASSUME IInv, Effort \in Efforts, Effort' \in Efforts, Turn
  PROVE  StepCosts
<1>1. UNCHANGED <<done, conv, kind>> /\ turns' = turns + 1
  BY DEF Turn
<1>2. turns \in 0 .. MaxTurns /\ MaxTurns \in Nat
  BY ShapeIs, ExchangeAssumption DEF IInv, Things
<1>3. Phase' = Phase /\ ToDo' = ToDo /\ Tries' = Tries /\ Unanswered' = Unanswered
  BY <1>1 DEF Phase, ToDo, Tries, Nothing, UseRange, Unanswered, Satisfied, Block
<1>4. MaxTurns - turns' < MaxTurns - turns /\ conv'.end - conv'.at = conv.end - conv.at
  BY <1>1, <1>2
<1> QED BY <1>3, <1>4, Cheaper

(***************************************************************************)
(* Every body that is begun has a claim that waits for it.                 *)
(***************************************************************************)
LEMMA KeepsGoing ==
  ASSUME IInv, Going, [Next]_vars
  PROVE  Going'
<1>1. Talk /\ Things
  BY ShapeIs DEF IInv
<1> SUFFICES ASSUME conv'.pc = "streaming", conv'.sent = 0
             PROVE  conv'.at < conv'.end
  BY DEF Going
<1>3. CASE UNCHANGED conv
  BY <1>3 DEF Going
<1>4. ASSUME NEW v, End(v) PROVE FALSE
  BY <1>4, HelloIs DEF End
<1>5. ASSUME NEW c, TryAgain(c) PROVE FALSE
  <2>1. conv' = [conv EXCEPT !.pc = "requesting", !.body = NoBody, !.sent = 0, !.attempt = @ + 1]
    BY <1>4, <1>5 DEF TryAgain
  <2> QED BY <1>1, <2>1, HelloIs DEF Talk
<1>6. CASE Shrink
  <2>1. PICK z \in conv.at + 1 .. conv.end - 1 : conv' = [conv EXCEPT !.end = z]
    BY <1>6 DEF Shrink
  <2>2. /\ conv'.pc = conv.pc /\ conv'.at = conv.at /\ conv'.end = z /\ conv'.sent = conv.sent
        /\ conv'.pr = conv.pr /\ conv'.body = conv.body
    BY <1>1, <2>1, HelloIs DEF Talk
  <2>3. conv.at < z
    BY <1>1, ExchangeAssumption DEF Talk
  <2> QED BY <2>2, <2>3 DEF Going
<1>7. CASE Request
  <2>1. ~Satisfied /\ \E b : conv' = [conv EXCEPT !.pc = "streaming", !.sent = 0, !.body = b]
    BY <1>5, <1>7 DEF Request
  <2>2. conv'.at = conv.at /\ conv'.end = conv.end
    BY <1>1, <2>1, HelloIs DEF Talk
  <2> QED BY <1>1, <2>1, <2>2, ExchangeAssumption DEF Talk, Satisfied
<1>8. CASE Chunk
  <2>1. conv'.sent = conv.sent + 1 /\ conv.sent \in Nat
    BY <1>1, <1>8, HelloIs DEF Chunk, Talk
  <2> QED BY <2>1
<1>9. CASE Over \/ Reset
  <2>1. conv' = [conv EXCEPT !.pc = "claiming", !.body = NoBody, !.sent = 0]
    BY <1>5, <1>9 DEF Over, Reset
  <2> QED BY <1>1, <2>1, HelloIs DEF Talk
<1>10. CASE Hop \/ TurnDown \/ NotTaken \/ Swap \/ Exhausted \/ NothingLeft
            \/ \E a \in Block : ClaimFrom(a)
  <2>1. \/ \E v : End(v)
        \/ At("probing") /\ conv' = [conv EXCEPT !.hop = @ + 1]
        \/ conv' = Hello
        \/ conv' = [conv EXCEPT !.pc = "claiming"]
        \/ \E a, z : conv' = [conv EXCEPT !.pc = "requesting", !.at = a, !.end = z, !.attempt = 0]
    BY <1>10 DEF Hop, TurnDown, NotTaken, Swap, Exhausted, NothingLeft, ClaimFrom
  <2> QED BY <1>1, <1>4, <2>1, HelloIs DEF Talk, At
<1>11. CASE Answer \/ CompareSignals
  <2>1. \/ \E v : End(v)
        \/ \E p, pc : pc # "streaming" /\ conv' = [conv EXCEPT !.pr = p, !.pc = pc]
        \/ \E p, w : conv' = [conv EXCEPT !.pc = "verifying", !.pre = p, !.windows = w]
        \/ \E v : conv' = [conv EXCEPT !.pc = "deciding", !.verdict = v]
    BY <1>11 DEF Answer, CompareSignals
  <2> QED BY <1>1, <1>4, <2>1, HelloIs DEF Talk
<1>12. CASE Window
  <2>1. \/ \E v : End(v)
        \/ \E v : conv' = [conv EXCEPT !.pc = "deciding", !.windows = {}, !.verdict = v]
        \/ \E w : At("verifying") /\ conv' = [conv EXCEPT !.windows = @ \ {w}]
    BY <1>12, Zenon DEF Window
  <2> QED BY <1>1, <1>4, <2>1, HelloIs DEF Talk, At
<1> QED BY <1>3, <1>6, <1>7, <1>8, <1>9, <1>10, <1>11, <1>12 DEF Next, Step, Turn, vars

(***************************************************************************)
(* Every step of a command and of its servers brings it nearer to its end: *)
(* there are so many redirects, windows, blocks and attempts, and nothing  *)
(* that a server says or another worker takes gives any of them back.  The *)
(* one step that may is a request to a server without ranges that answers  *)
(* with an empty success.  As what is left cannot fall for ever            *)
(* (FewerEnds), a command whose server changes its ways finitely often     *)
(* takes finitely many steps, unless it asks for nothing again and again.  *)
(***************************************************************************)
THEOREM EveryStepCosts == Spec => [][StepCosts \/ AsksForNothing]_vars
<1>1. Init => Going
  BY HelloIs DEF Init, Going
<1>2. IInv /\ FairlyJudged /\ Going /\ Effort \in Efforts /\ (Effort \in Efforts)' /\ [Next]_vars
      => [StepCosts \/ AsksForNothing]_vars
  BY JudgingCosts, WorkCosts, TurnCosts DEF Next, Step
<1>3. IInv /\ Going /\ [Next]_vars => Going'
  BY KeepsGoing
<1> QED BY <1>1, <1>2, <1>3, EffortCounts, JudgesFairly, ExchangeInvariance, PTL DEF Spec
=============================================================================
