---------------------------- MODULE AgentVersions ----------------------------
(***************************************************************************)
(* The published versions of an agent (agents.service.ts) and of a         *)
(* project's planning agent (planning-agent.service.ts), with the version  *)
(* panels of the web application.  The two services answer the same three  *)
(* requests with different code; kind, chosen once, says which one runs.   *)
(*                                                                         *)
(* A request is several database statements with an await between them, so *)
(* requests interleave statement by statement.  One tab disables a button  *)
(* only while its own mutation is pending: a publish, a delete and an      *)
(* activation of the same tab overlap freely.  An answer is put into the   *)
(* tab's query cache and does not cancel a fetch under way, whose answer,  *)
(* read before, may then replace it.                                       *)
(***************************************************************************)
EXTENDS Integers, FiniteSets, Sequences

CONSTANTS
    Null,       \* no version: the draft is in use
    Ids,        \* version row ids
    Tabs,       \* browser tabs of the owner
    MaxOps,     \* bound: requests sent
    MaxFetches, \* bound: fetches under way at once
    MaxFaults   \* bound: restarts of the API process

ASSUME BoundAssumption == MaxOps \in Nat /\ MaxFaults \in Nat
ASSUME NullAssumption == Null \notin Ids
ASSUME IdsAssumption == IsFiniteSet(Ids)

VARIABLES
    kind,       \* "agent" or "planning"
    rows,       \* version number of each row, 0 when there is no such row
    made,       \* ids ever created
    active,     \* activeVersionId
    req,        \* the request of each mutation of each tab
    view,       \* what each tab's query cache shows
    fetch,      \* what the fetch of each tab's query, if any is under way, has read
    missed,     \* history: tabs that have missed a change; all of them, once overlapped
    ops, faults,
    overlapped  \* two requests have been in flight together, or one was lost

vars == <<kind, rows, made, active, req, view, fetch, missed, ops, faults, overlapped>>

Limit == 3
Ops == {"publish", "delete", "activate"}
Slots == Tabs \X Ops
Steps == {"idle", "read", "create", "remove", "renumber", "clear", "activate", "reread",
          "answer", "failed"}
Numbers == 0..Limit
Answer == [rows: [Ids -> Numbers], active: Ids \cup {Null}]
Request == [pc: Steps, id: Ids \cup {Null}, seen: Answer, number: Numbers,
            todo: Seq(Ids), at: Nat]

Stored == [rows |-> rows, active |-> active]
Present(rs) == {i \in Ids : rs[i] # 0}
Quiet == [pc |-> "idle", id |-> Null, seen |-> [rows |-> [i \in Ids |-> 0], active |-> Null],
          number |-> 0, todo |-> <<>>, at |-> 0]

\* Up to three versions have been published, one request after the other.
Init ==
    /\ kind \in {"agent", "planning"}
    /\ made \in SUBSET Ids
    /\ Cardinality(made) <= Limit
    /\ rows \in [Ids -> 0..Limit]
    /\ Present(rows) = made
    /\ {rows[i] : i \in made} = 1..Cardinality(made)
    /\ active \in made \cup {Null}
    /\ req = [s \in Slots |-> Quiet]
    /\ view = [t \in Tabs |-> Stored] /\ fetch = [t \in Tabs |-> {}] /\ missed = {}
    /\ ops = 0 /\ faults = 0
    /\ overlapped = FALSE

InFlight == {s \in Slots : req[s].pc # "idle"}

-----------------------------------------------------------------------------
(* The panels                                                              *)

\* A click sends the request of slot s about version id.
Send(s, id) ==
    /\ ops < MaxOps
    /\ req[s].pc = "idle"
    /\ ops' = ops + 1
    /\ req' = [req EXCEPT ![s] = [Quiet EXCEPT !.pc = "read", !.id = id]]
    /\ overlapped' = (overlapped \/ InFlight # {})
    /\ missed' = IF overlapped' THEN Tabs ELSE missed
    /\ UNCHANGED <<kind, rows, made, active, view, fetch, faults>>

\* The row of a version: activate, back to the draft, delete.
ClickVersion(t, v) ==
    /\ v \in Present(view[t].rows)
    /\ \/ Send(<<t, "activate">>, IF view[t].active = v THEN Null ELSE v)
       \/ Send(<<t, "delete">>, v)

\* The publish form shows only while the cache holds fewer than three versions.
ClickPublish(t) ==
    /\ Cardinality(Present(view[t].rows)) < Limit
    /\ Send(<<t, "publish">>, Null)

\* What a tab has missed it sees, as long as requests come one after the other.
Seen(t) == IF overlapped THEN missed ELSE missed \ {t}

\* onSuccess puts the answer into the query cache, whatever a fetch under way has read.
ShowAnswer(s) ==
    /\ req[s].pc = "answer"
    /\ view' = [view EXCEPT ![s[1]] = req[s].seen]
    /\ missed' = IF fetch[s[1]] = {} THEN Seen(s[1]) ELSE missed
    /\ req' = [req EXCEPT ![s] = Quiet]
    /\ UNCHANGED <<kind, rows, made, active, fetch, ops, faults, overlapped>>

\* An error is displayed; nothing is fetched again.
ShowError(s) ==
    /\ req[s].pc = "failed"
    /\ req' = [req EXCEPT ![s] = Quiet]
    /\ UNCHANGED <<kind, rows, made, active, view, fetch, missed, ops, faults, overlapped>>

\* The page's query runs again (mount, focus); saving or deleting an agent drops the fetch under
\* way for a new one.
FetchReads(t) ==
    /\ \/ fetch[t] = {} /\ Cardinality({u \in Tabs : fetch[u] # {}}) < MaxFetches
       \/ kind = "agent" /\ fetch[t] \notin {{}, {Stored}}
    /\ fetch' = [fetch EXCEPT ![t] = {Stored}]
    /\ missed' = Seen(t)
    /\ UNCHANGED <<kind, rows, made, active, req, view, ops, faults, overlapped>>

FetchShows(t) ==
    /\ \E got \in fetch[t] : view' = [view EXCEPT ![t] = got]
    /\ fetch' = [fetch EXCEPT ![t] = {}]
    /\ UNCHANGED <<kind, rows, made, active, req, missed, ops, faults, overlapped>>

\* A fetch and its retry fail, or their answer is lost.
FetchFails(t) ==
    /\ fetch[t] # {}
    /\ fetch' = [fetch EXCEPT ![t] = {}]
    /\ missed' = missed \cup {t}
    /\ UNCHANGED <<kind, rows, made, active, req, view, ops, faults, overlapped>>

-----------------------------------------------------------------------------
(* The services                                                            *)

Go(s, pc) == req' = [req EXCEPT ![s].pc = pc]
\* ... when the rest of the request uses nothing it has read.
Jump(s, pc) == req' = [req EXCEPT ![s] = [Quiet EXCEPT !.pc = pc]]
At(s, op, pc) == s[2] = op /\ req[s].pc = pc

\* Mutant: the sort of the remaining versions is the wrong way round.
OrderedBackwards(rs, gone) ==
    LET left == Present(rs) \ {gone}
        rank(i) == Cardinality({j \in left : rs[j] >= rs[i]})
    IN [n \in 1..Cardinality(left) |-> CHOOSE i \in left : rank(i) = n]

\* Remaining ids of a snapshot in the order of their numbers (one number per row for an agent).
Ordered(rs, gone) ==
    LET left == Present(rs) \ {gone}
        rank(i) == Cardinality({j \in left : rs[j] <= rs[i]})
    IN [n \in 1..Cardinality(left) |-> CHOOSE i \in left : rank(i) = n]

NextNumber(rs) ==
    IF kind = "agent"
    THEN Cardinality(Present(rs)) + 1
    ELSE CHOOSE n \in 1..(Cardinality(Ids) + 1) :
            /\ \A i \in Ids : rs[i] # n
            /\ \A m \in 1..(n - 1) : \E i \in Ids : rs[i] = m

\* publish: the versions are read and counted.
ReadForPublish(s) ==
    /\ At(s, "publish", "read")
    /\ IF Cardinality(Present(rows)) >= Limit
       THEN Jump(s, "failed")
       ELSE req' = [req EXCEPT ![s] = [@ EXCEPT !.pc = "create", !.number = NextNumber(rows)]]
    /\ UNCHANGED <<kind, rows, made, active, view, ops, faults, overlapped>>

\* Mutant: an agent's versions have no unique number either.
CreateVersionAnyway(s) ==
    /\ At(s, "publish", "create")
    /\ \E i \in Ids \ made :
        /\ rows' = [rows EXCEPT ![i] = req[s].number]
        /\ made' = made \cup {i}
        /\ Jump(s, "reread")
    /\ UNCHANGED <<kind, active, view, ops, faults, overlapped>>

\* The row is created: only an agent's versions have a unique number in the database.
CreateVersion(s) ==
    /\ At(s, "publish", "create")
    /\ IF kind = "agent" /\ \E i \in Ids : rows[i] = req[s].number
       THEN Jump(s, "failed") /\ UNCHANGED <<rows, made>>
       ELSE \E i \in Ids \ made :
                /\ rows' = [rows EXCEPT ![i] = req[s].number]
                /\ made' = made \cup {i}
                /\ Jump(s, "reread")
    /\ UNCHANGED <<kind, active, view, ops, faults, overlapped>>

\* The answer of a publish, and of a planning agent's delete, is a read of its own.
Reread(s) ==
    /\ req[s].pc = "reread"
    /\ req' = [req EXCEPT ![s] = [Quiet EXCEPT !.pc = "answer", !.seen = Stored]]
    /\ UNCHANGED <<kind, rows, made, active, view, ops, faults, overlapped>>

\* delete: what the rest of the request uses is read here.
ReadForDelete(s) ==
    /\ At(s, "delete", "read")
    /\ IF kind = "agent" /\ rows[req[s].id] = 0
       THEN Jump(s, "failed")
       ELSE req' = [req EXCEPT ![s].pc = "remove", ![s].seen = Stored]
    /\ UNCHANGED <<kind, rows, made, active, view, ops, faults, overlapped>>

\* The row goes.  delete fails on a row that is gone, deleteMany does not.
RemoveVersion(s) ==
    LET r == req[s] IN
    /\ At(s, "delete", "remove")
    /\ IF kind = "agent" /\ rows[r.id] = 0
       THEN Jump(s, "failed") /\ rows' = rows
       ELSE /\ rows' = [rows EXCEPT ![r.id] = 0]
            /\ IF kind = "agent"
               THEN req' = [req EXCEPT ![s] = [r EXCEPT !.pc = "renumber", !.at = 1,
                                                        !.todo = Ordered(r.seen.rows, r.id),
                                                        !.seen.rows = Quiet.seen.rows]]
               ELSE Go(s, "clear")
    /\ UNCHANGED <<kind, made, active, view, ops, faults, overlapped>>

\* One update of the loop: it fails when the row is gone or another row has the number.
Renumber(s) ==
    LET r == req[s]
        i == r.todo[r.at] IN
    /\ At(s, "delete", "renumber")
    /\ IF r.at > Len(r.todo)
       THEN req' = [req EXCEPT ![s] = [r EXCEPT !.pc = "clear", !.todo = <<>>, !.at = 0]]
            /\ rows' = rows
       ELSE IF rows[i] = 0 \/ \E j \in Ids \ {i} : rows[j] = r.at
       THEN Jump(s, "failed") /\ rows' = rows
       ELSE /\ rows' = [rows EXCEPT ![i] = r.at]
            /\ req' = [req EXCEPT ![s].at = r.at + 1]
    /\ UNCHANGED <<kind, made, active, view, ops, faults, overlapped>>

\* An agent's delete always writes activeVersionId, from its snapshot, and answers with the row.
WriteActiveBack(s) ==
    LET r == req[s]
        back == IF r.seen.active = r.id THEN Null ELSE r.seen.active IN
    /\ kind = "agent"
    /\ At(s, "delete", "clear")
    /\ active' = back
    /\ req' = [req EXCEPT ![s] = [Quiet EXCEPT !.pc = "answer", !.seen = Stored, !.seen.active = back]]
    /\ UNCHANGED <<kind, rows, made, view, ops, faults, overlapped>>

\* Mutant: the pointer is not looked at.
ClearNothing(s) ==
    /\ kind = "planning"
    /\ At(s, "delete", "clear")
    /\ Jump(s, "reread")
    /\ UNCHANGED <<kind, rows, made, active, view, ops, faults, overlapped>>

\* A planning agent's delete clears activeVersionId when its snapshot named the version.
ClearActive(s) ==
    /\ kind = "planning"
    /\ At(s, "delete", "clear")
    /\ active' = IF req[s].seen.active = req[s].id THEN Null ELSE active
    /\ Jump(s, "reread")
    /\ UNCHANGED <<kind, rows, made, view, ops, faults, overlapped>>

\* activate: the version has to be among those read.
ReadForActivate(s) ==
    /\ At(s, "activate", "read")
    /\ IF req[s].id # Null /\ rows[req[s].id] = 0 THEN Jump(s, "failed") ELSE Go(s, "activate")
    /\ UNCHANGED <<kind, rows, made, active, view, ops, faults, overlapped>>

\* Mutant: the version's number is stored for its id.
ActivateNumber(s) ==
    /\ At(s, "activate", "activate")
    /\ active' = IF req[s].id = Null THEN Null ELSE rows[req[s].id]
    /\ Jump(s, "failed")
    /\ UNCHANGED <<kind, rows, made, view, ops, faults, overlapped>>

\* Mutant: the answer is the row read before the update.
ActivateAnsweringOld(s) ==
    /\ At(s, "activate", "activate")
    /\ active' = req[s].id
    /\ req' = [req EXCEPT ![s] = [Quiet EXCEPT !.pc = "answer", !.seen = Stored]]
    /\ UNCHANGED <<kind, rows, made, view, ops, faults, overlapped>>

Activate(s) ==
    /\ At(s, "activate", "activate")
    /\ active' = req[s].id
    /\ req' = [req EXCEPT ![s] = [Quiet EXCEPT !.pc = "answer", !.seen = Stored,
                                                !.seen.active = req[s].id]]
    /\ UNCHANGED <<kind, rows, made, view, ops, faults, overlapped>>

\* The API process restarts: every request in flight ends where it is, with an error.
Restart ==
    /\ faults < MaxFaults
    /\ InFlight # {}
    /\ faults' = faults + 1
    /\ overlapped' = TRUE
    /\ req' = [s \in Slots |-> IF s \in InFlight THEN [Quiet EXCEPT !.pc = "failed"] ELSE Quiet]
    /\ missed' = Tabs
    /\ UNCHANGED <<kind, rows, made, active, view, fetch, ops>>

\* A write is missed by the other tabs, and by the one that asked for it when a fetch of its own has
\* read before and will be shown after.
Misses(s) ==
    /\ fetch' = fetch
    /\ missed' = IF Stored' = Stored THEN missed
                 ELSE missed \cup {t \in Tabs : t # s[1] \/ fetch[t] # {}}
Serve(s) ==
    /\ \/ ReadForPublish(s) \/ CreateVersion(s) \/ Reread(s)
       \/ ReadForDelete(s) \/ RemoveVersion(s) \/ Renumber(s)
       \/ WriteActiveBack(s) \/ ClearActive(s)
       \/ ReadForActivate(s) \/ Activate(s)
    /\ Misses(s)

Next ==
    \/ \E t \in Tabs : ClickPublish(t) \/ \E v \in Ids : ClickVersion(t, v)
    \/ \E t \in Tabs : FetchReads(t) \/ FetchShows(t) \/ FetchFails(t)
    \/ \E s \in Slots : ShowAnswer(s) \/ ShowError(s) \/ Serve(s)
    \/ Restart

Spec == Init /\ [][Next]_vars

-----------------------------------------------------------------------------
(* Properties                                                              *)

TypeOK ==
    /\ kind \in {"agent", "planning"}
    /\ rows \in [Ids -> Numbers]
    /\ made \subseteq Ids
    /\ active \in Ids \cup {Null}
    /\ req \in [Slots -> Request]
    /\ view \in [Tabs -> Answer] /\ fetch \in [Tabs -> SUBSET Answer] /\ missed \subseteq Tabs
    /\ ops \in 0..MaxOps /\ faults \in 0..MaxFaults
    /\ overlapped \in BOOLEAN

\* An agent never has more than three versions, though the count and the creation are separate
\* statements (agents.service.ts:283-304): two publishes that count the same versions pick the
\* same number, and the unique index lets one of them through.
AtMostThree == kind = "agent" => Cardinality(Present(rows)) <= Limit

\* What UI and message say of the planning agent: at most three versions
\* (planning-agent.service.ts:106, "Maximum of 3 versions allowed").
PlanningAtMostThree == kind = "planning" => Cardinality(Present(rows)) <= Limit

\* As long as requests come one after the other and none is cut off, the table is in order when
\* none is under way: the active version exists, an agent's numbers are 1..n, a planning agent's
\* are distinct and at most three (agents.service.ts:312-354, planning-agent.service.ts:97-173).
SerialIsClean ==
    (~overlapped /\ InFlight = {}) =>
        /\ active # Null => rows[active] # 0
        /\ Cardinality({rows[i] : i \in Present(rows)}) = Cardinality(Present(rows))
        /\ \A i \in Ids : rows[i] <= IF kind = "agent" THEN Cardinality(Present(rows)) ELSE Limit

\* As long as requests come one after the other, a panel shows the table as it is when nothing is
\* under way, unless it has missed a change: the pointer and the numbers of an answer were read back
\* after the last write of the request, and the exceptions are a change made from another tab, a
\* fetch that failed, and a fetch that had read before the change and was shown after its answer
\* (agents.service.ts:306, 333; planning-agent.service.ts:124, 148; agents/page.tsx:311-330).
PanelsShowTheTable ==
    InFlight = {} =>
        \A t \in Tabs : fetch[t] = {} => t \in missed \/ view[t] = Stored

\* The order in which versions are listed.
Before == {p \in Present(rows) \X Present(rows) : rows[p[1]] < rows[p[2]]}
\* A pointer that names no row chooses none of the versions.
Chosen == IF active \in Present(rows) THEN active ELSE Null
\* What the requests in flight ask for that has neither happened nor been refused.
Asked == {<<s[2], req[s].id>> :
             s \in {t \in Slots : req[t].pc \in {"read", "create", "remove", "activate"}}}

List == INSTANCE VersionList WITH
    Versions <- Ids,
    None     <- Null,
    members  <- Present(rows),
    before   <- Before,
    chosen   <- Chosen,
    asked    <- Asked,
    appends  <- kind = "agent"

\* As long as requests come one after the other and none is cut off, they implement the abstract list
\* of versions, statement by statement: a deletion takes effect with the row, no update of the
\* renumbering loop changes the order of the others or who is chosen, an agent's new version is the
\* last one, and a request ends without effect only when the list is full or lacks the version
\* (agents.service.ts:283-354, planning-agent.service.ts:97-173).
KeepsTheList == List!Init /\ [][~overlapped' => List!Next \/ UNCHANGED List!listVars]_vars
=============================================================================
