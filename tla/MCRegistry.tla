----------------------------- MODULE MCRegistry -----------------------------
(* Instances of Registry for TLC.                                          *)
EXTENDS Registry, TLC

Symmetry == Permutations(Games)
=============================================================================
