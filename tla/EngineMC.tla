------------------------------ MODULE EngineMC ------------------------------
(* Instances of Engine for TLC.                                            *)
EXTENDS Engine, TLC

Symmetry == Permutations(Callers)
=============================================================================
