------------------------------ MODULE Exchange -------------------------------
(***************************************************************************)
(* What one command and the server say to each other.  A "resume" probes   *)
(* the link, works from what the row claims and fetches the rest; a        *)
(* "refresh" first finds out whether another link serves the file that was *)
(* begun, and then resumes over it.  (probe.rs, identity.rs, worker.rs,    *)
(* http/, and cmd_refresh of the command line.)                            *)
(*                                                                         *)
(* Whose claim is whose is ClaimPlan.tla's business, who starts workers    *)
(* Drive.tla's: here one worker talks, and its claim may begin anywhere in *)
(* a gap and shrink at any time, as it may with others around it.  Sizes   *)
(* are known, except of a link that a refresh turns down.                  *)
(***************************************************************************)
EXTENDS TestServer, Identity

CONSTANTS
  N,                \* size of the file that was begun, in blocks
  Claims,           \* the claims a row may have
  OldLinks,         \* what the row's own link may have been
  NewLinks,         \* what a replacement may lead to
  PARANOID_REWIND,  \* what a command gives back at the end of every span
  MaxRedirects, MaxAttempts,
  Thieves,          \* are there other workers, which take parts of a claim?
  MaxTurns          \* bound: times the server behind a link changes its ways

Block == 0 .. N - 1
Kind == {"resume", "refresh"}

ASSUME ExchangeAssumption ==
  /\ N \in Nat \ {0} /\ Claims \subseteq SUBSET Block
  /\ PARANOID_REWIND \in Nat /\ MaxRedirects \in Nat /\ MaxAttempts \in Nat
  /\ Thieves \in BOOLEAN /\ MaxTurns \in Nat
  /\ \A sc \in OldLinks \cup NewLinks : sc \in Scenario /\ sc.size <= N
  /\ \A sc \in OldLinks : sc.size = N

\* What a kept block has behind it is at least a window: 1 MiB (config.rs:22) and
\* 64 KiB (identity.rs:36) in the code.
ASSUME RewindCoversWindow == WINDOW <= PARANOID_REWIND + 1

VARIABLES
  link,     \* what the link in use leads to
  row,      \* what the row says of the file: total, etag, lastModified
  part,     \* the blocks of the part file
  done,     \* what counts as downloaded
  conv,     \* the conversation: where it is, and what it has learnt
  kind,     \* what the command has yet to do
  swapped,  \* was a replacement link accepted?
  tick,     \* how often the server has made up a tag
  turns

vars == <<link, row, part, done, conv, kind, swapped, tick, turns>>

Hole == Byte(-1, -1)
NoProbe == [range |-> "Unknown", total |-> Unknown, etag |-> NoTag, lastModified |-> FALSE]
NoBody == [seed |-> 0, from |-> 0, count |-> 0]

Hello == [pc |-> "probing", hop |-> 0, pr |-> NoProbe, pre |-> "none", windows |-> {},
          at |-> 0, end |-> 0, body |-> NoBody, sent |-> 0, attempt |-> 0, verdict |-> "none"]

At(pc) == conv.pc = pc
Ended == At("ended")

\* The command is over; of what it learnt, the probe is kept.
End(verdict) ==
  conv' = [Hello EXCEPT !.pc = "ended", !.pr = conv.pr, !.verdict = verdict]

\* Mutant: the tails of the spans are believed.
MRewind(S) == S

\* rewind_tails: every command finds the clean flag cleared, and so rewinds.
Rewind(S) == {b \in S : \A k \in 0 .. PARANOID_REWIND : b + k \in S}

Signals(sc) ==
  [total |-> sc.size, etag |-> Etag(sc, 0), lastModified |-> sc.lastModified]

\* A row of an earlier command, and its part file: what is claimed was written
\* (Lifecycle.tla), and one block of it may have been damaged since.
Init ==
  /\ \E old \in OldLinks, claim \in Claims, k \in Kind :
       /\ row = Signals(old) /\ kind = k
       /\ done = Rewind(claim)
       /\ link \in IF k = "refresh" THEN NewLinks ELSE {old}
       /\ \E bad \in {{}} \cup (IF k = "refresh" THEN {{b} : b \in claim} ELSE {}) :
            part = [b \in Block |-> IF b \notin claim THEN Hole
                                    ELSE Byte(IF b \in bad THEN 0 ELSE 1, b)]
  /\ conv = Hello /\ swapped = FALSE /\ tick = 1 /\ turns = 0

-----------------------------------------------------------------------------
(* probe(): the redirects, then the answer to the request for one byte.    *)

LastHop == conv.hop + 1 = Len(link.chain)

Hop ==
  /\ At("probing") /\ ~LastHop /\ link.status # Down
  /\ IF \/ conv.hop = MaxRedirects
        \/ NextUrlRefused(link.chain[conv.hop + 1], link.chain[conv.hop + 2])
       THEN End("Redirect")
       ELSE conv' = [conv EXCEPT !.hop = @ + 1]
  /\ UNCHANGED <<link, row, part, done, kind, swapped, tick, turns>>

\* A probe is not repeated, and knows of no earlier success of the link.
Answer ==
  /\ At("probing") /\ (LastHop \/ link.status = Down)
  /\ LET r == Serve(link, <<0, 0>>, tick)
     IN  IF r.status \notin 200 .. 299
           THEN End(IF r.status = Down THEN "Transport" ELSE ClassifyStatus(r.status, FALSE))
           ELSE conv' = [conv EXCEPT !.pr = Interpret(r),
                           !.pc = IF kind = "refresh" THEN "comparing" ELSE "claiming"]
  /\ tick' = tick + 1
  /\ UNCHANGED <<link, row, part, done, kind, swapped, turns>>

-----------------------------------------------------------------------------
(* validate_replacement_url() and cmd_refresh.                             *)

CompareSignals ==
  /\ At("comparing")
  /\ LET pre == Compare(row, conv.pr)
     IN  IF Verifiable(pre, done, conv.pr)
           THEN \E w \in ChooseWindows(done) :
                  conv' = [conv EXCEPT !.pc = "verifying", !.pre = pre, !.windows = w]
           ELSE conv' = [conv EXCEPT !.pc = "deciding", !.verdict = Finalize(pre, FALSE)]
  /\ UNCHANGED <<link, row, part, done, kind, swapped, tick, turns>>

\* first_difference: of a window that begins at block w and the body of r.  The
\* part file has the row's size, the window may end behind it.
Differs(w, length, r) ==
  LET local == IF w + length <= N THEN length ELSE N - w
  IN  r.count # local \/ \E n \in 0 .. local - 1 : part[w + n] # BodyBlock(r, n)

\* The windows in order; one that differs, or is not answered with a partial
\* response, decides.  A broken connection ends the command.
Window ==
  /\ At("verifying")
  /\ LET w == CHOOSE b \in conv.windows : \A c \in conv.windows : b <= c
         length == WindowLength(done)
         r == Serve(link, <<w, w + length - 1>>, tick)
         settled(bad) == [conv EXCEPT !.pc = "deciding", !.windows = {},
                                      !.verdict = Finalize(conv.pre, bad)]
     IN  \/ (r.status = Down \/ MayReset(link)) /\ End("Client")
         \/ /\ r.status # Down
            /\ conv' = IF r.status # 206 \/ Differs(w, length, r) THEN settled(TRUE)
                       ELSE IF conv.windows = {w} THEN settled(FALSE)
                       ELSE [conv EXCEPT !.windows = @ \ {w}]
  /\ UNCHANGED <<link, row, part, done, kind, swapped, tick, turns>>

\* cmd_refresh: there is no way past a refusal.
TurnDown ==
  /\ At("deciding") /\ conv.verdict \notin {"Resume", "Confirm"}
  /\ End(conv.verdict)
  /\ UNCHANGED <<link, row, part, done, kind, swapped, tick, turns>>

\* Without --yes a Confirm ends the command; so does a dry run.
NotTaken ==
  /\ At("deciding") /\ conv.verdict \in {"Resume", "Confirm"}
  /\ End("not taken")
  /\ UNCHANGED <<link, row, part, done, kind, swapped, tick, turns>>

\* swap_url, and run(): download() probes once more.
Swap ==
  /\ At("deciding") /\ conv.verdict \in {"Resume", "Confirm"}
  /\ row' = [total |-> IF conv.pr.total = Unknown THEN row.total ELSE conv.pr.total,
             etag |-> conv.pr.etag, lastModified |-> conv.pr.lastModified]
  /\ conv' = Hello /\ kind' = "resume" /\ swapped' = TRUE
  /\ UNCHANGED <<link, part, done, tick, turns>>

-----------------------------------------------------------------------------
(* A worker: run(), fetch_claim() and stream_once().                       *)

Wanted == (0 .. conv.pr.total - 1) \ done

Exhausted ==
  /\ At("claiming") /\ Wanted = {}
  /\ End("complete")
  /\ UNCHANGED <<link, row, part, done, kind, swapped, tick, turns>>

ClaimFrom(a) ==
  /\ At("claiming") /\ a \in Wanted
  /\ Thieves \/ a - 1 \notin Wanted
  /\ \E z \in a + 1 .. conv.pr.total :
       /\ a .. z - 1 \subseteq Wanted /\ z \notin Wanted
       /\ conv' = [conv EXCEPT !.pc = "requesting", !.at = a, !.end = z, !.attempt = 0]
  /\ UNCHANGED <<link, row, part, done, kind, swapped, tick, turns>>

\* Another worker takes the rear of the claim; something is left of it.
Shrink ==
  /\ Thieves /\ conv.pc \in {"requesting", "streaming"}
  /\ \E z \in conv.at + 1 .. conv.end - 1 : conv' = [conv EXCEPT !.end = z]
  /\ UNCHANGED <<link, row, part, done, kind, swapped, tick, turns>>

UseRange == conv.pr.range = "Supported"

\* Mutant: where a partial body starts is not compared with the request.
MHeadError(r) ==
  CASE r.status = Down -> "TransientNetwork"
    [] r.status # Down /\ r.status \notin 200 .. 299 -> ClassifyStatus(r.status, TRUE)
    [] r.status = 200 /\ UseRange -> IF conv.at = 0 THEN "RangeUnsupported" ELSE "RangeLied"
    [] OTHER -> IF r.encoded THEN "RangeUnsupported" ELSE "none"

(***************************************************************************)
(* What is wrong with a response, before a block of it is written.  If no  *)
(* range was asked for, nobody asks where the body starts, nor how large   *)
(* the file is now.                                                        *)
(***************************************************************************)
HeadError(r) ==
  CASE r.status = Down -> "TransientNetwork"
    [] r.status # Down /\ r.status \notin 200 .. 299 -> ClassifyStatus(r.status, TRUE)
    [] r.status = 200 /\ UseRange -> IF conv.at = 0 THEN "RangeUnsupported" ELSE "RangeLied"
    [] OTHER ->
         IF UseRange /\ (~ParseContentRange(r.contentRange) \/ r.contentRange.start # conv.at)
           THEN "RangeLied"
         ELSE IF UseRange /\ r.contentRange.total \notin {Unknown, conv.pr.total}
           THEN "ResourceChanged"
         ELSE IF r.encoded THEN "RangeUnsupported"
         ELSE "none"

\* Mutant: the attempt is not counted.
MTryAgain(class) ==
  IF IsRetryable(class)
    THEN conv' = [conv EXCEPT !.pc = "requesting", !.body = NoBody, !.sent = 0]
    ELSE End(class)

\* fetch_claim: an error is worth another attempt, or the end of the download.
\* The attempts of a claim are counted whatever it got in between.
TryAgain(class) ==
  IF IsRetryable(class) /\ ~BackoffExhausted(conv.attempt, MaxAttempts)
    THEN conv' = [conv EXCEPT !.pc = "requesting", !.body = NoBody, !.sent = 0,
                              !.attempt = @ + 1]
    ELSE End(class)

\* Mutant: whatever the server sends is written.
MSatisfied == FALSE

Satisfied == conv.at >= conv.end

\* The top of fetch_claim's loop: what failed last may have been the read behind the
\* last block of the claim.
NothingLeft ==
  /\ At("requesting") /\ Satisfied
  /\ conv' = [conv EXCEPT !.pc = "claiming"]
  /\ UNCHANGED <<link, row, part, done, kind, swapped, tick, turns>>

Request ==
  /\ At("requesting") /\ ~Satisfied
  /\ LET r == Serve(link, IF UseRange THEN <<conv.at, conv.end - 1>> ELSE Whole, tick)
     IN  IF HeadError(r) # "none" THEN TryAgain(HeadError(r))
         ELSE conv' = [conv EXCEPT !.pc = "streaming", !.sent = 0,
                         !.body = [seed |-> r.seed, from |-> r.from, count |-> r.count]]
  /\ UNCHANGED <<link, row, part, done, kind, swapped, tick, turns>>

Chunk ==
  /\ At("streaming") /\ conv.sent < conv.body.count /\ ~Satisfied
  /\ part' = [part EXCEPT ![conv.at] = BodyBlock(conv.body, conv.sent)]
  /\ done' = done \cup {conv.at}
  /\ conv' = [conv EXCEPT !.at = @ + 1, !.sent = @ + 1]
  /\ UNCHANGED <<link, row, kind, swapped, tick, turns>>

\* The body or the claim is at its end.  Too short a body is an error, if it was
\* asked for by range; the claim's rest is released.
Over ==
  /\ At("streaming") /\ (conv.sent = conv.body.count \/ Satisfied)
  /\ IF UseRange /\ ~Satisfied THEN TryAgain("TransientNetwork")
     ELSE conv' = [conv EXCEPT !.pc = "claiming", !.body = NoBody, !.sent = 0]
  /\ UNCHANGED <<link, row, part, done, kind, swapped, tick, turns>>

Reset ==
  /\ At("streaming") /\ MayReset(link)
  /\ TryAgain("TransientNetwork")
  /\ UNCHANGED <<link, row, part, done, kind, swapped, tick, turns>>

-----------------------------------------------------------------------------
\* Another machine answers for the same file, or this one has new troubles.
Turned(sc) ==
  {[sc EXCEPT !.ranges = m] : m \in {"Yes", "No"}}
    \cup {StatusRoute(sc, Down), StatusRoute(sc, 429), Signed(sc, FALSE)}
    \cup {[sc EXCEPT !.gzipAnyway = TRUE], [sc EXCEPT !.shift = 1],
          [sc EXCEPT !.size = IF @ > 1 THEN @ - 1 ELSE @]}

\* A success without a body.  To a probe it would leave the size unknown.
Emptied(sc) == StatusRoute(sc, 200)
Empty(sc) == sc.status \in 200 .. 299
Working == conv.pc \in {"claiming", "requesting", "streaming"}

Turn ==
  /\ turns < MaxTurns /\ ~Ended
  /\ link' \in Turned(link) \cup (IF Working THEN {Emptied(link)} ELSE {})
  /\ turns' = turns + 1
  /\ UNCHANGED <<row, part, done, conv, kind, swapped, tick>>

Step ==
  \/ Hop \/ Answer \/ CompareSignals \/ Window \/ TurnDown \/ NotTaken \/ Swap
  \/ Exhausted \/ (\E a \in Block : ClaimFrom(a)) \/ NothingLeft \/ Request \/ Chunk \/ Over

Next == Step \/ Shrink \/ Reset \/ Turn

Spec == Init /\ [][Next]_vars

(***************************************************************************)
(* The command goes on.  The probe and the chunks of a body have timeouts; *)
(* the headers of a worker's and of a window's response have none, and     *)
(* their fairness is an assumption about the server (as is ServedSpec of   *)
(* ClaimPlan.tla).                                                         *)
(***************************************************************************)
FairSpec == Spec /\ WF_vars(Step)

-----------------------------------------------------------------------------
Pc == {"probing", "comparing", "verifying", "deciding", "claiming", "requesting",
       "streaming", "ended"}
Contents == {Hole} \cup {Byte(s, b) : s \in 0 .. 2, b \in Block}

TypeOK ==
  /\ part \in [Block -> Contents] /\ done \subseteq Block
  /\ kind \in Kind /\ swapped \in BOOLEAN /\ turns \in 0 .. MaxTurns
  /\ row.total \in 0 .. N
  /\ conv.pc \in Pc /\ conv.hop \in 0 .. MaxRedirects /\ conv.windows \subseteq Block
  /\ conv.pr.range \in RangeSupport /\ conv.pr.total \in 0 .. N
  /\ conv.at \in 0 .. N /\ conv.end \in 0 .. N
  /\ conv.at <= conv.end /\ conv.sent <= conv.body.count
  /\ conv.attempt \in 0 .. MaxAttempts
  /\ conv.pre \in Preliminary \cup {"none"}
  /\ conv.verdict \in Verdict \cup ErrorClass \cup {"none", "complete", "not taken"}
                                \cup {"Redirect", "Transport", "Client"}
  /\ At("streaming") \/ At("requesting") => conv.at .. conv.end - 1 \cap done = {}

(***************************************************************************)
(* Whatever becomes of the server under way (it forgets ranges, sends other*)
(* parts than asked for, another size): a download over a server that the  *)
(* probe saw to support ranges puts every block where it belongs.          *)
(***************************************************************************)
SegmentsBelong ==
  conv.pr.range = "Supported" => \A b \in done : part[b][2] = b

IsFirst(b) == b \in done /\ \A c \in done : b <= c
IsLast(b) == b \in done /\ \A c \in done : c <= b
LastSpan == {b \in done : \E c \in Block : IsLast(c) /\ b .. c \subseteq done}

(***************************************************************************)
(* A replacement that was accepted has the bytes of the file that was      *)
(* begun, at the first and at the last block of what is kept; damage to    *)
(* the part file there is noticed, too, even if all headers agree.  The    *)
(* last block is safe only if the last span is as long as a window.        *)
(***************************************************************************)
AcceptedIsSame ==
  swapped /\ At("probing") =>
    \A b \in Block :
      IsFirst(b) \/ (IsLast(b) /\ Cardinality(LastSpan) >= WINDOW)
        => part[b] = Byte(link.seed, b)

Faithful(sc) ==
  /\ sc.seed = 1 /\ sc.size = N /\ sc.ranges = "Yes" /\ sc.shift = 0 /\ sc.status = 0
  /\ ~sc.gzipAnyway

(***************************************************************************)
(* A refresh refuses no link to the same file whose server is in order: the*)
(* windows it compares never reach blocks that were not written, although  *)
(* nothing in choose_windows keeps a window inside a span.                 *)
(***************************************************************************)
NoFalseRefusal ==
  /\ Ended /\ conv.verdict \in {"SizeMismatch", "ContentMismatch", "RestartOnly"}
  /\ Faithful(link) /\ turns = 0
  => \E b \in Block : part[b][1] = 0

\* Without ranges an empty body is no failed attempt: the claim is given back and
\* asked for again (worker.rs:372).
GivesNothing == ~UseRange /\ Empty(link)

(***************************************************************************)
(* Every command ends: there is a limit to redirects, and one to the       *)
(* attempts at a claim, and other workers and a server that changes its    *)
(* ways do not feed them for ever.  The one exception is a server without  *)
(* ranges that goes on answering with successes that have no body.         *)
(***************************************************************************)
CommandEnds == <>Ended \/ <>[]GivesNothing

(***************************************************************************)
(* Every block of the file is where it belongs, whether or not the server  *)
(* has ranges: a download from one without is a single stream.             *)
(***************************************************************************)
BytesBelong == \A b \in done : part[b][2] = b
==============================================================================
