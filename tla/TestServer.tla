----------------------------- MODULE TestServer ------------------------------
(***************************************************************************)
(* The adversarial server the engine is tested against                     *)
(* (swiftload-testserver/src/lib.rs): one file, whose content is a         *)
(* function of a seed and an offset, served in one of several ways.        *)
(* Rates and delays are left out.                                          *)
(***************************************************************************)
EXTENDS Http

\* The whole file is asked for.
Whole == <<0, -1>>

Byte(seed, offset) == <<seed, offset>>

(***************************************************************************)
(* The scenario of a route: what a link leads to.  "shift" is no mode of   *)
(* the test server but of worse ones: a partial response that begins that  *)
(* many blocks behind the one asked for, and says so; "weak" marks the     *)
(* validator W/; "status" is what it says to everything, Down if nothing.  *)
(* A chain has the schemes of the URLs that redirect to the last one.      *)
(***************************************************************************)
Scenario ==
  [seed : 1 .. 2, size : Nat \ {0}, ranges : {"Yes", "No", "Lie"},
   etag : {"Stable", "Rotate", "None"}, weak : BOOLEAN, lastModified : BOOLEAN,
   gzipAnyway : BOOLEAN, advertiseLen : BOOLEAN, flaky : BOOLEAN, shift : Nat,
   status : Int, chain : Seq(STRING)]

Plain(seed, size) ==
  [seed |-> seed, size |-> size, ranges |-> "Yes", etag |-> "Stable", weak |-> FALSE,
   lastModified |-> TRUE, gzipAnyway |-> FALSE, advertiseLen |-> TRUE,
   flaky |-> FALSE, shift |-> 0, status |-> 0, chain |-> <<"http">>]

NoRangeRoute(seed, size) == [Plain(seed, size) EXCEPT !.ranges = "No"]
Liar(seed, size) == [Plain(seed, size) EXCEPT !.ranges = "Lie"]
NoLen(seed, size) == [NoRangeRoute(seed, size) EXCEPT !.advertiseLen = FALSE]
Gzip(seed, size) == [Plain(seed, size) EXCEPT !.gzipAnyway = TRUE]
RotateEtag(seed, size) == [Plain(seed, size) EXCEPT !.etag = "Rotate"]
NoMeta(seed, size) == [Plain(seed, size) EXCEPT !.etag = "None", !.lastModified = FALSE]
Flaky(seed, size) == [Plain(seed, size) EXCEPT !.flaky = TRUE]
Redirect(seed, size, chain) == [Plain(seed, size) EXCEPT !.chain = chain]

Down == -1
StatusRoute(sc, status) == [sc EXCEPT !.status = status]
Signed(sc, valid) == IF valid THEN sc ELSE StatusRoute(sc, 403)

\* parse_range: the end is cut to the file, and a start behind it is no range.
LastOf(range, size) == IF range[2] < size THEN range[2] ELSE size - 1
Satisfiable(range, size) == range[1] <= LastOf(range, size)

Etag(sc, tick) ==
  CASE sc.etag = "Stable" -> [tag |-> <<"seed", sc.seed>>, strong |-> ~sc.weak]
    [] sc.etag = "Rotate" -> [tag |-> <<"rot", tick>>, strong |-> TRUE]
    [] sc.etag = "None"   -> NoTag

Refusal(status) ==
  [status |-> status, contentRange |-> NoRange, contentLength |-> Unknown, etag |-> NoTag,
   lastModified |-> FALSE, encoded |-> FALSE, seed |-> 0, from |-> 0, count |-> 0]

(***************************************************************************)
(* serve() and the body behind it: "range" is the Range header, or Whole.  *)
(***************************************************************************)
Serve(sc, range, tick) ==
  LET honour == sc.ranges = "Yes" /\ range # Whole
      start == IF honour THEN range[1] + sc.shift ELSE 0
      end == IF honour THEN LastOf(range, sc.size) + sc.shift ELSE sc.size - 1
  IN  IF sc.status # 0 THEN Refusal(sc.status)
      ELSE IF honour /\ ~Satisfiable(range, sc.size) THEN Refusal(416)
      ELSE [status |-> IF honour THEN 206 ELSE 200,
            contentRange |-> IF honour THEN [start |-> start, end |-> end, total |-> sc.size]
                                       ELSE NoRange,
            contentLength |-> IF sc.advertiseLen THEN end + 1 - start ELSE Unknown,
            etag |-> Etag(sc, tick), lastModified |-> sc.lastModified,
            encoded |-> sc.gzipAnyway,
            seed |-> sc.seed, from |-> start, count |-> end + 1 - start]

\* body_stream(): the n-th block of a response's body.  A flaky route may end it
\* with a reset at any block; a stalled body ends as one, with the idle timeout.
BodyBlock(r, n) == Byte(r.seed, r.from + n)
MayReset(sc) == sc.flaky
==============================================================================
