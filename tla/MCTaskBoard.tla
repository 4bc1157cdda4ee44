---------------------------- MODULE MCTaskBoard ----------------------------
(***************************************************************************)
(* TaskBoard for TLC.  The plan: tb needs ta, tc needs ta and tb; th is    *)
(* there for the tasks that are created later.                             *)
(***************************************************************************)
EXTENDS TaskBoard, TLC

CONSTANTS ta, tb, tc, th

Plan      == {ta, tb, tc}
PlanDeps  == {<<ta, tb>>, <<ta, tc>>, <<tb, tc>>}
PlanAgent == [t \in Plan |-> IF t = ta THEN "human" ELSE "ai"]
=============================================================================
