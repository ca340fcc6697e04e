------------------------------- MODULE MCSaves -------------------------------
(* A small volume for TLC: model values for the chains. *)
EXTENDS Saves, TLC

ChainSymmetry == Permutations(Chain)
=============================================================================
