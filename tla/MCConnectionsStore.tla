------------------------- MODULE MCConnectionsStore -------------------------
(* ConnectionsStore for TLC: the calls are interchangeable.                *)
EXTENDS ConnectionsStore, TLC

TaskSymmetry == Permutations(Tasks)
=============================================================================
