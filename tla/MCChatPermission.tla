-------------------------- MODULE MCChatPermission --------------------------
(* ChatPermission for TLC: sessions are interchangeable, and so are calls. *)
EXTENDS ChatPermission, TLC

ChatSymmetry == Permutations(Sessions) \cup Permutations(Calls)
=============================================================================
