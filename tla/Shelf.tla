-------------------------------- MODULE Shelf --------------------------------
(***************************************************************************)
(* What a download manager promises about finished files, without saying   *)
(* how: a file is put on the shelf under a name nobody uses, stays there   *)
(* as it is, and a download is reported complete only once a file of it is *)
(* on the shelf.  Lifecycle.tla implements it with a part file, a rename,  *)
(* a row of a database and a process that may die between any two of them. *)
(***************************************************************************)
CONSTANTS Name, Row, Nothing

VARIABLES
  shelf,      \* shelf[n]: the download whose file has the name n, or Nothing
  reported    \* the downloads reported complete

vars == <<shelf, reported>>

Init == shelf = [n \in Name |-> Nothing] /\ reported = {}

Put(r) == /\ \E n \in Name : shelf[n] = Nothing /\ shelf' = [shelf EXCEPT ![n] = r]
          /\ r \notin reported
          /\ UNCHANGED reported

Report(r) == /\ \E n \in Name : shelf[n] = r
             /\ reported' = reported \cup {r}
             /\ UNCHANGED shelf

\* A new link for a finished download puts it back in the queue.
Reopen(r) == /\ reported' = reported \ {r}
             /\ UNCHANGED shelf

Next == \E r \in Row : Put(r) \/ Report(r) \/ Reopen(r)

Spec == Init /\ [][Next]_vars
==============================================================================
