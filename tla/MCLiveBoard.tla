---------------------------- MODULE MCLiveBoard ----------------------------
(***************************************************************************)
(* LiveBoard for TLC: two cards whose moves and deletions overlap.         *)
(***************************************************************************)
EXTENDS LiveBoard, TLC

CONSTANTS t1, t2, c1, c2, r1, r2

Symmetry == Permutations({c1, c2}) \cup Permutations({r1, r2})
            \cup Permutations({t1, t2})
=============================================================================
