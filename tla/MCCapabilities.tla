--------------------------- MODULE MCCapabilities ---------------------------
(* Capabilities with two items and two presets, two installs at a time, an agent and a hire. *)
EXTENDS Capabilities, TLC

CONSTANTS i1, i2, p1, p2, s1, s2, a, h

Symmetry == Permutations(Items) \cup Permutations(Presets) \cup Permutations(Presses)
=============================================================================
