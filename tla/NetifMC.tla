------------------------------- MODULE NetifMC -------------------------------
(* Instances of Netif for TLC.                                             *)
EXTENDS Netif, TLC

\* No action tells two networks apart.
MCSymmetry == Permutations(Networks)
=============================================================================
