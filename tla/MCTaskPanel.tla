---------------------------- MODULE MCTaskPanel ----------------------------
(***************************************************************************)
(* TaskPanel for TLC.                                                      *)
(***************************************************************************)
EXTENDS TaskPanel, TLC
=============================================================================
