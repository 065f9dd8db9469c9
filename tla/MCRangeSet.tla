----------------------------- MODULE MCRangeSet -----------------------------
(* Every record over eight bytes: up to four spans, every neighbourhood of *)
(* an update, and varints of one, two and three digits.                    *)
EXTENDS RangeSet
=============================================================================
