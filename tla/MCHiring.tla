------------------------------ MODULE MCHiring ------------------------------
(***************************************************************************)
(* Hiring for TLC: an agent of each kind, set in the cfg files.            *)
(***************************************************************************)
EXTENDS Hiring, TLC

Symmetry == Permutations(Projects) \cup Permutations(Keys)
=============================================================================
