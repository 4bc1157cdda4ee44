---------------------------- MODULE MCAgentVersions ----------------------------
(***************************************************************************)
(* AgentVersions for TLC: the constants get model values in the cfg files. *)
(***************************************************************************)
EXTENDS AgentVersions, TLC

Symmetry == Permutations(Ids) \cup Permutations(Tabs)
=============================================================================
