----------------------------- MODULE MCCapacity -----------------------------
(***************************************************************************)
(* Model values for Capacity.                                              *)
(***************************************************************************)
EXTENDS Capacity, TLC

Symmetry == Permutations(Callers) \cup Permutations(Tokens)

=============================================================================
