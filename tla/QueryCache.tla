----------------------------- MODULE QueryCache -----------------------------
(***************************************************************************)
(* An entry of the web application's query cache, as the pages use it      *)
(* (TanStack Query with the defaults of lib/query-client.ts).  data and    *)
(* got hold at most one value: what is shown, and what a fetch under way   *)
(* has read from the database.                                             *)
(***************************************************************************)
EXTENDS Naturals, FiniteSets

Unread == [data |-> {}, pc |-> "idle", got |-> {}, stale |-> FALSE]
Entry(V) == [data: {d \in SUBSET V : Cardinality(d) <= 1}, pc: {"idle", "sent", "read"},
             got: {g \in SUBSET V : Cardinality(g) <= 1}, stale: BOOLEAN]

Fetching(e) == [e EXCEPT !.pc = "sent", !.got = {}]
\* The fetch is over without an answer.
Resting(e) == [e EXCEPT !.pc = "idle", !.got = {}]
Reads(e, answer) == [e EXCEPT !.pc = "read", !.got = answer]
(* Mutant: an answer is added to what is shown. *)
ShowsMore(e) == Resting([e EXCEPT !.data = e.data \cup e.got, !.stale = FALSE])

\* The answer is shown; an error, an empty one, leaves the data as they are.
Shows(e) == IF e.got = {} THEN Resting(e) ELSE Resting([e EXCEPT !.data = e.got, !.stale = FALSE])
\* The page puts a value there itself.
Put(e, v) == [e EXCEPT !.data = {v}, !.stale = FALSE]

\* An entry on the screen is fetched again, unless its first fetch is under way; another turns stale.
Invalidated(e, active) ==
    IF ~active THEN [e EXCEPT !.stale = TRUE]
    ELSE IF e.data = {} /\ e.pc # "idle" THEN e
    ELSE Fetching(e)
\* What the fetch under way has read stays, and so does what has changed since.
TooLate(e, active) == e.pc = "read" /\ (~active \/ e.data = {})

(* Mutant: what has been fetched once is shown as it is. *)
MountedOnce(e) == {IF e.pc = "idle" /\ e.data = {} THEN Fetching(e) ELSE e}

\* The entry comes on the screen: data not known to be stale may be shown as they are.
Mounted(e) ==
    IF e.pc # "idle" THEN {e}
    ELSE {Fetching(e)} \cup (IF e.data = {} \/ e.stale THEN {} ELSE {e})
=============================================================================
