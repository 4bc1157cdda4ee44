----------------------------- MODULE VersionList -----------------------------
(***************************************************************************)
(* What the owner of an agent sees of its versions: at most Limit of them  *)
(* in a fixed order, of which one may be chosen.  A request is taken, and  *)
(* then takes effect in one step, or is refused for a reason that can be   *)
(* seen in the list.  Deleting a version leaves the others in their order, *)
(* and the choice falls back to none when the chosen one goes.  Nothing is *)
(* said of numbers, or of how many writes a request takes.                 *)
(***************************************************************************)
EXTENDS Integers, FiniteSets

CONSTANTS Versions, None, Limit

VARIABLES members,
          before,   \* pairs of members, the earlier one first
          chosen,   \* a member or None
          asked,    \* the request that has been taken, if any, with the version it is about
          appends   \* is a new version always the last one?

listVars == <<members, before, chosen, asked, appends>>

Init ==
    /\ members \subseteq Versions /\ Cardinality(members) <= Limit
    /\ before \subseteq members \X members
    /\ \A i, j \in members : i = j <=> <<i, j>> \notin before /\ <<j, i>> \notin before
    /\ \A i, j, k \in members : <<i, j>> \in before /\ <<j, k>> \in before => <<i, k>> \in before
    /\ chosen \in members \cup {None}
    /\ asked = {}
    /\ appends \in BOOLEAN

Ask(op, v) ==
    /\ asked = {}
    /\ asked' = {<<op, v>>}
    /\ UNCHANGED <<members, before, chosen, appends>>

(* Unless new versions are appended, one takes a place before some later members. *)
Publish(i) ==
    /\ asked = {<<"publish", None>>} /\ asked' = {}
    /\ i \in Versions \ members
    /\ Cardinality(members) < Limit
    /\ members' = members \cup {i}
    /\ \E later \in SUBSET members :
          /\ appends => later = {}
          /\ \A j, k \in members : j \in later /\ <<j, k>> \in before => k \in later
          /\ before' = before \cup ((members \ later) \X {i}) \cup ({i} \X later)
    /\ UNCHANGED <<chosen, appends>>

Delete(i) ==
    /\ asked = {<<"delete", i>>} /\ asked' = {}
    /\ i \in members
    /\ members' = members \ {i}
    /\ before' = before \cap (members' \X members')
    /\ chosen' = IF chosen = i THEN None ELSE chosen
    /\ UNCHANGED appends

Choose(v) ==
    /\ asked = {<<"activate", v>>} /\ asked' = {}
    /\ v \in members \cup {None}
    /\ chosen' = v
    /\ UNCHANGED <<members, before, appends>>

Refuse ==
    /\ \/ asked = {<<"publish", None>>} /\ Cardinality(members) >= Limit
       \/ \E v \in Versions \ members : asked \in {{<<"delete", v>>}, {<<"activate", v>>}}
    /\ asked' = {}
    /\ UNCHANGED <<members, before, chosen, appends>>

Next ==
    \/ Ask("publish", None) \/ Refuse
    \/ \E i \in Versions : Publish(i) \/ Ask("delete", i) \/ Delete(i)
    \/ \E v \in Versions \cup {None} : Ask("activate", v) \/ Choose(v)
==============================================================================
