--------------------------------- MODULE SavedFile ---------------------------------
(***************************************************************************)
(* Abstract: a file of transactions.  It gains one whole transaction at a  *)
(* time, and none that it has already, and loses them only all at once,    *)
(* when the file is removed to make place for another.                     *)
(***************************************************************************)
CONSTANT Rows   \* ids of transactions

VARIABLE rows

Init == rows \subseteq Rows

Gains(r) == r \notin rows /\ rows' = rows \cup {r}

Removed == rows' = {}

Next == Removed \/ \E r \in Rows : Gains(r)
Spec == Init /\ [][Next]_rows
================================================================================
