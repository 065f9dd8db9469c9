----------------------------- MODULE MCClaimPlan -----------------------------
(* The plan and its workers on a file small enough for TLC and large       *)
(* enough to be split twice.                                               *)
EXTENDS ClaimPlan, TLC

\* Workers are interchangeable: none is treated differently by name.
Workers == Permutations(Worker)
=============================================================================
