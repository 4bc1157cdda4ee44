---------------------------- MODULE MCCoordinator ----------------------------
(***************************************************************************)
(* Coordinator for TLC: the constants get model values in the cfg files.   *)
(***************************************************************************)
EXTENDS Coordinator, TLC

Symmetry == Permutations(Runners)
=============================================================================
