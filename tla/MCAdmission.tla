---------------------------- MODULE MCAdmission -----------------------------
(***************************************************************************)
(* Model values for Admission.                                             *)
(***************************************************************************)
EXTENDS Admission, TLC

Symmetry == Permutations(Keys) \cup Permutations(Apis)

=============================================================================
