----------------------- MODULE MCRetrievalCache -----------------------
(* RetrievalCache with two searches for the same query and two uploads, of   *)
(* two documents or of two versions of one: both searches can be under way   *)
(* at once, and a lock can pass from one to the other.                       *)
EXTENDS RetrievalCache

CONSTANTS s1, s2, w1, w2, d1, d2

MCSearches  == {s1, s2}
MCUpdates   == {w1, w2}
MCDocuments == {d1, d2}
MCOld       == {d1}
MCFaulty    == {w1, s1}

SameOrNot == {[w \in MCUpdates |-> d1],
              [w \in MCUpdates |-> IF w = w1 THEN d1 ELSE d2]}

UpToRestart == AllFaults \ {"restart"}
=============================================================================
