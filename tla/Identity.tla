------------------------------ MODULE Identity -------------------------------
(***************************************************************************)
(* Does a replacement link serve the file that was begun?                  *)
(* (swiftload-core/src/task/identity.rs)  Signals from the headers first,  *)
(* then the bytes of a few windows.  File name and content type are weak   *)
(* evidence that decides nothing, and are left out.                        *)
(***************************************************************************)
EXTENDS Http, FiniteSets

CONSTANTS WINDOW, WINDOW_COUNT

ASSUME IdentityAssumption == WINDOW \in Nat \ {0} /\ WINDOW_COUNT \in Nat \ {0}

Preliminary == {"Accept", "VerifyThenAccept", "VerifyThenConfirm", "Reject", "RestartOnly"}
Verdict == {"Resume", "Confirm", "SizeMismatch", "ContentMismatch", "RestartOnly"}

(***************************************************************************)
(* compare(): what the headers alone are worth.  Sizes that differ are the *)
(* only disproof; tags that differ are none.                               *)
(***************************************************************************)
SizeDiffers(old, new) ==
  old.total # Unknown /\ new.total # Unknown /\ old.total # new.total
SizeMatches(old, new) == old.total # Unknown /\ old.total = new.total

SameTag(old, new) ==
  old.etag # NoTag /\ new.etag # NoTag /\ old.etag.tag = new.etag.tag

Compare(old, new) ==
  IF SizeDiffers(old, new) THEN "Reject"
  ELSE IF new.range # "Supported" THEN "RestartOnly"
  ELSE IF SizeMatches(old, new) /\ SameTag(old, new)
    THEN IF old.etag.strong /\ new.etag.strong THEN "Accept" ELSE "VerifyThenAccept"
  ELSE IF /\ SizeMatches(old, new) /\ old.etag = NoTag /\ new.etag = NoTag
          /\ old.lastModified /\ new.lastModified
    THEN "VerifyThenAccept"
  ELSE "VerifyThenConfirm"

(***************************************************************************)
(* choose_windows(): where they begin.  The n-th downloaded block, counted *)
(* over all spans; always the first, and the one a window's length before  *)
(* the end; the others by a hash of the download's id: any of the rest.    *)
(***************************************************************************)
Locate(done, n) == CHOOSE b \in done : Cardinality({c \in done : c < b}) = n

WindowLength(done) == IF WINDOW < Cardinality(done) THEN WINDOW ELSE Cardinality(done)

\* Mutant: the last window is left out.
MEnds(done) == {Locate(done, 0)}

Ends(done) ==
  {Locate(done, 0), Locate(done, Cardinality(done) - WindowLength(done))}

Inner(done) ==
  {Locate(done, n) : n \in 0 .. Cardinality(done) - WindowLength(done) - 1}

\* Every choice the hash may make.
ChooseWindows(done) ==
  IF done = {} THEN {{}}
  ELSE {Ends(done) \cup rest :
          rest \in {s \in SUBSET Inner(done) : Cardinality(s) <= WINDOW_COUNT - 2}}

(***************************************************************************)
(* finalize(): the verdict once the windows were read.                     *)
(***************************************************************************)
Finalize(pre, mismatch) ==
  CASE mismatch -> "ContentMismatch"
    [] ~mismatch /\ pre \in {"Accept", "VerifyThenAccept"} -> "Resume"
    [] ~mismatch /\ pre = "VerifyThenConfirm" -> "Confirm"
    [] ~mismatch /\ pre = "Reject" -> "SizeMismatch"
    [] ~mismatch /\ pre = "RestartOnly" -> "RestartOnly"

\* Mutant: equal tags make reading windows unnecessary.
MVerifiable(pre, done, new) ==
  done # {} /\ new.range = "Supported" /\ pre \in {"VerifyThenAccept", "VerifyThenConfirm"}

\* validate_replacement_url(): windows are read even when the headers agree.
Verifiable(pre, done, new) ==
  done # {} /\ new.range = "Supported" /\ pre \notin {"Reject", "RestartOnly"}
==============================================================================
