------------------------------ MODULE Progress ------------------------------
(***************************************************************************)
(* What resumable progress promises, without saying how: a record of what  *)
(* is downloaded that never claims a block before it is safe from a power  *)
(* loss, and that a power loss can set back but never put ahead of the     *)
(* data.  Writer.tla implements it with a page cache, sync_data and the    *)
(* commits of a database.                                                  *)
(***************************************************************************)
CONSTANT Block

VARIABLES
  safe,     \* blocks that survive anything
  claim,    \* blocks the record says are downloaded
  earlier   \* records a power loss may go back to

vars == <<safe, claim, earlier>>

Init == safe = {} /\ claim = {} /\ earlier = {{}}

\* Data becomes durable, with no change to the record.
Save == /\ safe' \in SUBSET Block /\ safe \subseteq safe'
        /\ UNCHANGED <<claim, earlier>>

\* The record moves to blocks that were safe before it moved.
Record == /\ claim' \in SUBSET safe
          /\ earlier' = earlier \cup {claim}
          /\ UNCHANGED safe

\* The record goes back to some earlier one; what was on its way to the disk
\* may have arrived.
PowerCut == /\ safe' \in SUBSET Block /\ safe \subseteq safe'
            /\ claim' \in earlier \cup {claim}
            /\ earlier' = {claim'}

Next == Save \/ Record \/ PowerCut

Spec == Init /\ [][Next]_vars
=============================================================================
