----------------------------- MODULE MCTuiQuery -----------------------------
(* A note with two reads, and one with a write.                            *)
EXTENDS TuiQuery

CONSTANTS f1, q1, q2, del

MCOpen == [f \in Files |-> IF f = f1 THEN <<q1, q2>> ELSE <<del>>]

MCNotes == {<<q2>>}
=============================================================================
