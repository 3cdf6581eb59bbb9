------------------------------ MODULE MCUpgrade ------------------------------
(***************************************************************************)
(* Instances of Upgrade for TLC.                                           *)
(***************************************************************************)
EXTENDS Upgrade, TLC

Symmetry == Permutations(Upgraders)
=============================================================================
