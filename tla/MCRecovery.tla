----------------------------- MODULE MCRecovery -----------------------------
(***************************************************************************)
(* Small instances of Recovery.                                            *)
(***************************************************************************)
EXTENDS Recovery, TLC

MCSymmetry == Permutations(Sessions) \cup Permutations(Proofs)
                  \cup Permutations(Writers)

=============================================================================
