----------------------------- MODULE MCStateLog -----------------------------
(***************************************************************************)
(* Instances of StateLog for TLC.                                          *)
(***************************************************************************)
EXTENDS StateLog, TLC

RequestSymmetry == Permutations(Request)
=============================================================================
