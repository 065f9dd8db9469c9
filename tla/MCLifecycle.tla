---------------------------- MODULE MCLifecycle ------------------------------
(* Files of a few blocks: one version, one of the same length, a shorter one. *)
EXTENDS Lifecycle

OneVersion == <<2>>
TwoVersions == <<2, 2>>
ShorterVersion == <<2, 1>>
==============================================================================
