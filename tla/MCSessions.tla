----------------------------- MODULE MCSessions -----------------------------
(* Instances of Sessions for TLC.                                          *)
EXTENDS Sessions, TLC

Symmetry == Permutations(Shells) \cup Permutations(Keys) \cup Permutations(Games)
=============================================================================
