------------------------------ MODULE HelperMC ------------------------------
(* Instances of Helper for TLC.                                            *)
EXTENDS Helper, TLC

Symmetry == Permutations(Callers)
=============================================================================
