------------------------------ MODULE MCServer ------------------------------
(* Symmetry for the runs of Server that check no liveness. *)
EXTENDS Server, TLC

IdSymmetry == Permutations(Ids)
=============================================================================
