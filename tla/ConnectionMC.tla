---------------------------- MODULE ConnectionMC ----------------------------
(* Instances of Connection for TLC.                                        *)
EXTENDS Connection, TLC

Symmetry == Permutations(Tasks)
=============================================================================
