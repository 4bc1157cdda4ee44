------------------------------- MODULE MCBell -------------------------------
(***************************************************************************)
(* Bell for TLC.                                                           *)
(***************************************************************************)
EXTENDS Bell, TLC

CONSTANTS r1, r2

Symmetry == Permutations({r1, r2})
=============================================================================
