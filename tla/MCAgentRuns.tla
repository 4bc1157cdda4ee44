---------------------------- MODULE MCAgentRuns ----------------------------
(***************************************************************************)
(* AgentRuns for TLC: the constants get model values in the cfg files.     *)
(***************************************************************************)
EXTENDS AgentRuns, TLC

Symmetry == Permutations(Runners)
=============================================================================
