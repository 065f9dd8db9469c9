-------------------------------- MODULE Http ---------------------------------
(***************************************************************************)
(* What the engine makes of a response: header parsing (http/headers.rs),  *)
(* error classes (http/errors.rs), redirects (http/redirect.rs) and the    *)
(* probe's reading of a server's abilities (task/probe.rs).                *)
(*                                                                         *)
(* Offsets and lengths count blocks of the file.  A response is a record;  *)
(* its body is the blocks from "from" on, "count" of them, of the content  *)
(* that "seed" stands for.                                                 *)
(***************************************************************************)
EXTENDS Integers, Sequences

Unknown == 0                                  \* a size nobody stated
NoRange == [start |-> 0, end |-> -1, total |-> Unknown]
NoTag == [tag |-> <<"none", 0>>, strong |-> FALSE]

-----------------------------------------------------------------------------
(* headers.rs                                                              *)

\* parse_content_range: a range that is empty, or ends behind its own total,
\* counts as no Content-Range at all.
ParseContentRange(cr) ==
  cr.start <= cr.end /\ (cr.total # Unknown => cr.end < cr.total)

-----------------------------------------------------------------------------
(* errors.rs                                                               *)

ErrorClass == {"TransientNetwork", "TransientServer", "RateLimited", "UrlExpired",
               "Fatal", "RangeUnsupported", "RangeLied", "ResourceChanged",
               "LocalFatal", "NetworkDown"}

ClassifyStatus(status, urlPreviouslyWorked) ==
  CASE status \in {429, 503} -> "RateLimited"
    [] status \in (500 .. 599 \ {503}) \cup {408, 425} -> "TransientServer"
    [] status = 403 /\ urlPreviouslyWorked -> "UrlExpired"
    [] status = 416 -> "ResourceChanged"
    [] OTHER -> "Fatal"

IsRetryable(class) ==
  class \in {"TransientNetwork", "TransientServer", "RateLimited", "NetworkDown"}

\* backoff.rs: how many times a claim's request is repeated.
BackoffExhausted(attempt, maxAttempts) == attempt >= maxAttempts

-----------------------------------------------------------------------------
(* redirect.rs, with block_insecure_redirect as it is by default.          *)

NextUrlRefused(current, next) ==
  next \notin {"http", "https"} \/ (current = "https" /\ next = "http")

-----------------------------------------------------------------------------
(* probe.rs: interpret().  A probe asks for the first byte only.           *)

RangeSupport == {"Unknown", "Supported", "Unsupported"}

Interpret(r) ==
  LET partial == r.status = 206 /\ ParseContentRange(r.contentRange)
  IN  [range |-> IF partial /\ ~r.encoded THEN "Supported" ELSE "Unsupported",
       total |-> IF partial THEN r.contentRange.total ELSE r.contentLength,
       etag |-> r.etag,
       lastModified |-> r.lastModified]
=============================================================================
