--------------------------- MODULE MCVaultConfig ---------------------------
(* VaultConfig for TLC: variables and commands are interchangeable.        *)
EXTENDS VaultConfig, TLC

Symmetry == Permutations(Keys) \cup Permutations(Tasks)
=============================================================================
