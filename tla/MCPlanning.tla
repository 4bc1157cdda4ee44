----------------------------- MODULE MCPlanning -----------------------------
(***************************************************************************)
(* Planning for TLC: two titles, one of a role nobody has, and the plans   *)
(* that differ in how their tasks depend on each other.                    *)
(***************************************************************************)
EXTENDS Planning, TLC

CONSTANTS h1, h2, a, b, tab

MCMatch == (a :> <<h1, h2>>) @@ (b :> <<>>)
T(t, deps) == [title |-> t, deps |-> deps]
MCPlans == {<<T(a, {b}), T(b, {})>>, <<T(a, {}), T(a, {a, b})>>}
=============================================================================
