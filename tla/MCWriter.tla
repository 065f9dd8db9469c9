------------------------------ MODULE MCWriter ------------------------------
(* The writer on a file of three blocks: every coalescing case (adjacent,  *)
(* apart), a queue that fills, and two sessions.  A chunk that is sent a   *)
(* second time multiplies the states; WriterProofs.tla covers that case.   *)
EXTENDS Writer
=============================================================================
