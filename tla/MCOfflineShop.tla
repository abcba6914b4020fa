--------------------------- MODULE MCOfflineShop ---------------------------
(***************************************************************************)
(* Instances of OfflineShop for TLC: activations and processes are model   *)
(* values given by the configurations.                                     *)
(***************************************************************************)
EXTENDS OfflineShop, TLC

Symmetry == Permutations(Children)
=============================================================================
