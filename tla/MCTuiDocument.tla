--------------------------- MODULE MCTuiDocument ---------------------------
(* Texts to start with, and for other programs to write.                   *)
EXTENDS TuiDocument

CONSTANTS w, h1

MCTexts == {<<w>>, <<h1, Fence>>}
=============================================================================
