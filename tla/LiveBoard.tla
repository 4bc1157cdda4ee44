----------------------------- MODULE LiveBoard -----------------------------
(***************************************************************************)
(* What a project's board shows, against what the API stores: its list of  *)
(* tasks in the query cache, the cards moved before the API answers, the   *)
(* events of the kanban gateway, and the page left for the recycle bin.    *)
(*                                                                         *)
(* A request is reduced to the order in which its handler writes, emits    *)
(* and answers (TaskBoard has its reads and what follows it on other       *)
(* tasks, which may change Elsewhere here).                                *)
(***************************************************************************)
EXTENDS Integers, QueryCache

CONSTANTS
    Tasks, Columns,
    Slots,      \* bound: requests of the page in flight
    MaxOps,     \* bound: requests of the page and changes made elsewhere
    MaxFaults   \* bound: requests, fetches and connections that fail

ASSUME BoundAssumption == MaxOps \in Nat /\ MaxFaults \in Nat

VARIABLES
    stored,     \* each task's row: its column, and whether it is live, in the bin or absent
    page,       \* the board or the bin is on the screen
    room,       \* the socket: about to join the project's room, in it, or out
    wire,       \* events on their way to the page
    telling,    \* changes made elsewhere whose event is still to be emitted
    list,       \* the list in the query cache
    req,        \* requests of the page
    missed,     \* history: the list has changed and nothing tells the page
    ops, faults

vars == <<stored, page, room, wire, telling, list, req, missed, ops, faults>>
link == <<room, wire, telling>>

Row == [col: Columns, life: {"live", "bin", "absent"}]
Cards == {[t \in {u \in Tasks : stored[u].life = "live"} |-> stored[t].col]}
OnBoard == page = "board"
Quiet == [pc |-> "idle", op |-> "none", task |-> {}, to |-> {}, prior |-> {}]

Init ==
    /\ stored \in [Tasks -> {r \in Row : r.life # "bin"}]
    /\ page = "board" /\ room = "joining" /\ wire = 0 /\ telling = 0
    /\ list = Fetching(Unread)
    /\ req = [s \in Slots |-> Quiet]
    /\ missed = FALSE /\ ops = 0 /\ faults = 0

Fault == faults < MaxFaults /\ faults' = faults + 1
Op == ops < MaxOps /\ ops' = ops + 1

-----------------------------------------------------------------------------
(* The page and its socket                                                 *)

Invalidate ==
    /\ list' = Invalidated(list, OnBoard)
    /\ missed' = (missed \/ TooLate(list, OnBoard))

Fetched ==
    /\ list.pc = "sent"
    /\ list' = Reads(list, Cards) /\ missed' = FALSE
    /\ UNCHANGED <<stored, page, link, req, ops, faults>>
Answered ==
    /\ list.pc = "read" /\ list' = Shows(list)
    /\ UNCHANGED <<stored, page, link, req, missed, ops, faults>>
\* The fetch and its retry fail.
FetchFails ==
    /\ list.pc # "idle" /\ Fault
    /\ list' = Resting(list) /\ missed' = TRUE
    /\ UNCHANGED <<stored, page, link, req, ops>>

\* Events under way are lost with the connection or the handlers.
Out == /\ wire' = 0 /\ telling' = telling
       /\ missed' = (missed \/ wire > 0)
GoToBin ==
    /\ OnBoard /\ page' = "bin"
    /\ room' = (IF room = "in" THEN "out" ELSE room) /\ Out
    /\ UNCHANGED <<stored, list, req, ops, faults>>
GoToBoard ==
    /\ page = "bin" /\ page' = "board"
    /\ room' = (IF room = "in" THEN "in" ELSE "joining")
    /\ list' \in Mounted(list)
    /\ UNCHANGED <<stored, wire, telling, req, missed, ops, faults>>

\* Once per visit, when the token is there; a new connection does not join again.
Join ==
    /\ room = "joining" /\ room' = "in"
    /\ UNCHANGED <<stored, page, wire, telling, list, req, missed, ops, faults>>
Drop ==
    /\ room = "in" /\ Fault
    /\ room' = "out" /\ Out
    /\ UNCHANGED <<stored, page, list, req, ops>>

\* Whatever the event, the list is fetched again.
Deliver ==
    /\ wire > 0 /\ wire' = wire - 1
    /\ Invalidate
    /\ UNCHANGED <<stored, page, room, telling, req, ops, faults>>

-----------------------------------------------------------------------------
(* Requests of the page                                                    *)

Send(s, op, t, to) ==
    /\ Op /\ req[s].pc = "idle"
    /\ req' = [req EXCEPT ![s] = [pc |-> "sent", op |-> op, task |-> {t}, to |-> to,
                                  prior |-> IF op = "drag" THEN list.data ELSE {}]]
    /\ UNCHANGED <<stored, page, link, missed, faults>>

\* A card is dropped on another column: the list's fetch is given up and the card is moved.
DragEnd(s, t, c) ==
    /\ OnBoard
    /\ \E cards \in list.data :
         /\ t \in DOMAIN cards /\ cards[t] # c
         /\ list' = Put(Resting(list), [cards EXCEPT ![t] = c])
    /\ Send(s, "drag", t, {c})
\* A row of no task, that nothing shown or under way is about: identifiers are not used again.
Free(t) ==
    /\ stored[t].life = "absent" /\ \A s \in Slots : t \notin req[s].task
    /\ \A cards \in list.data \cup list.got \cup UNION {req[s].prior : s \in Slots} : t \notin DOMAIN cards
AddCard(s, t, c) ==
    /\ OnBoard /\ Free(t)
    /\ Send(s, "create", t, {c}) /\ UNCHANGED list
\* In the task opened over the board.
DetailButtons(s, t) ==
    /\ OnBoard /\ \E cards \in list.data : t \in DOMAIN cards
    /\ \/ \E c \in Columns : Send(s, "status", t, {c})
       \/ \E op \in {"comment", "delete"} : Send(s, op, t, {})
    /\ UNCHANGED list
BinButtons(s, t) ==
    /\ page = "bin" /\ stored[t].life = "bin"
    /\ \E op \in {"restore", "purge"} : Send(s, op, t, {})
    /\ UNCHANGED list

\* The requests whose success invalidates the list.
Refetching == {"drag", "create", "status", "delete", "restore"}

(* Mutant: a failed move is taken back, and that is all. *)
EndedOnSuccess(s) ==
    LET r == req[s] IN
    /\ r.pc \in {"done", "failed"}
    /\ IF r.op = "drag" /\ r.pc = "failed"
       THEN list' = [list EXCEPT !.data = r.prior] /\ missed' = missed
       ELSE IF r.op \in Refetching /\ r.pc = "done" THEN Invalidate
       ELSE UNCHANGED <<list, missed>>
    /\ req' = [req EXCEPT ![s] = Quiet]
    /\ UNCHANGED <<stored, page, link, ops, faults>>

\* A failed move is taken back, to the list as it was; whatever becomes of a move, the list is
\* fetched again.
Ended(s) ==
    LET r == req[s] IN
    /\ r.pc \in {"done", "failed"}
    /\ IF r.op = "drag" /\ r.pc = "failed"
       THEN /\ list' = Invalidated([list EXCEPT !.data = r.prior, !.stale = FALSE], OnBoard)
            /\ missed' = (missed \/ TooLate(list, OnBoard))
       ELSE IF r.op \in Refetching /\ r.pc = "done" THEN Invalidate
       ELSE UNCHANGED <<list, missed>>
    /\ req' = [req EXCEPT ![s] = Quiet]
    /\ UNCHANGED <<stored, page, link, ops, faults>>

-----------------------------------------------------------------------------
(* The API                                                                 *)

\* What is found decides whether a request is refused; tasks in the bin are updated like others.
Found(op, row) ==
    CASE op \in {"drag", "status", "comment"} -> row.life # "absent"
      [] op = "delete" -> row.life = "live"
      [] op \in {"restore", "purge"} -> row.life = "bin"
      [] OTHER -> TRUE
Written(op, row, to) ==
    CASE op \in {"drag", "status"} -> {[row EXCEPT !.col = c] : c \in to}
      [] op = "create" -> {[col |-> c, life |-> "live"] : c \in to}
      [] op = "delete" -> {[row EXCEPT !.life = "bin"]}
      [] op = "restore" -> {[row EXCEPT !.life = "live"]}
      [] op = "purge" -> {[row EXCEPT !.life = "absent"]}
      [] OTHER -> {row}
Write(s) ==
    LET r == req[s] IN
    /\ r.pc = "sent"
    /\ \E t \in r.task :
         \/ /\ ~Found(r.op, stored[t])
            /\ req' = [req EXCEPT ![s].pc = "failed"] /\ stored' = stored
         \/ /\ Found(r.op, stored[t])
            /\ req' = [req EXCEPT ![s].pc = IF r.op = "purge" THEN "done" ELSE "written"]
            /\ \E row \in Written(r.op, stored[t], r.to) : stored' = [stored EXCEPT ![t] = row]
    /\ UNCHANGED <<page, link, list, missed, ops, faults>>

\* An event reaches the pages that are in the room when it is emitted.
Emitted(quiet) ==
    /\ wire' = IF room = "in" THEN wire + 1 ELSE wire
    /\ missed' = (missed \/ (room # "in" /\ ~quiet))
Emit(s) ==
    /\ req[s].pc = "written"
    /\ req' = [req EXCEPT ![s].pc = "done"]
    /\ Emitted(req[s].op \in Refetching \cup {"comment"})
    /\ UNCHANGED <<stored, page, room, telling, list, ops, faults>>

\* A statement fails, the API restarts or the answer is lost: what is written stays written.
CutOff(s) ==
    /\ req[s].pc \in {"sent", "written", "done"} /\ Fault
    /\ req' = [req EXCEPT ![s].pc = "failed"]
    /\ missed' = (missed \/ (req[s].pc # "sent" /\ req[s].op # "drag"))
    /\ UNCHANGED <<stored, page, link, list, ops>>

-----------------------------------------------------------------------------
(* Elsewhere                                                               *)

\* Another member, an agent or the runner changes a task, and then emits an event.
Elsewhere(t) ==
    /\ Op
    /\ \E row \in Row :
         /\ row # stored[t] /\ row.life # "absent" /\ (Free(t) \/ stored[t].life # "absent")
         /\ (row.life = "bin" => stored[t].life = "live")
         /\ stored' = [stored EXCEPT ![t] = row]
    /\ telling' = telling + 1
    /\ UNCHANGED <<page, room, wire, list, req, missed, faults>>
(* Mutant: a change is announced more than once. *)
AnnounceAgain ==
    /\ telling' = telling - 1
    /\ Emitted(FALSE)
    /\ UNCHANGED <<stored, page, room, list, req, ops, faults>>

Announce ==
    /\ telling > 0 /\ telling' = telling - 1
    /\ Emitted(FALSE)
    /\ UNCHANGED <<stored, page, room, list, req, ops, faults>>
\* The planner does not announce the tasks of a plan, nor their assignees.
PlanAccepted(t) ==
    /\ Op /\ Free(t)
    /\ \E c \in Columns : stored' = [stored EXCEPT ![t] = [col |-> c, life |-> "live"]]
    /\ missed' = TRUE
    /\ UNCHANGED <<page, link, list, req, faults>>

-----------------------------------------------------------------------------
Next ==
    \/ GoToBin \/ GoToBoard \/ Join \/ Drop \/ Deliver \/ Announce \/ Fetched \/ Answered \/ FetchFails
    \/ \E s \in Slots, t \in Tasks :
         \/ \E c \in Columns : DragEnd(s, t, c) \/ AddCard(s, t, c)
         \/ DetailButtons(s, t) \/ BinButtons(s, t)
    \/ \E s \in Slots : Write(s) \/ Emit(s) \/ Ended(s) \/ CutOff(s)
    \/ \E t \in Tasks : Elsewhere(t) \/ PlanAccepted(t)

Spec == Init /\ [][Next]_vars

-----------------------------------------------------------------------------
(* Properties                                                              *)

Shown == UNION {[S -> Columns] : S \in SUBSET Tasks}
Request == [pc: {"idle", "sent", "written", "done", "failed"},
            op: Refetching \cup {"comment", "purge", "none"},
            task: SUBSET Tasks, to: SUBSET Columns, prior: SUBSET Shown]
TypeOK ==
    /\ stored \in [Tasks -> Row]
    /\ page \in {"board", "bin"} /\ room \in {"joining", "in", "out"}
    /\ wire \in 0..MaxOps /\ telling \in 0..MaxOps
    /\ list \in Entry(Shown)
    /\ req \in [Slots -> Request]
    /\ missed \in BOOLEAN /\ ops \in 0..MaxOps /\ faults \in 0..MaxFaults

\* Nothing is under way that could still change what is shown.
AtRest ==
    /\ list.pc = "idle" /\ wire = 0 /\ telling = 0 /\ room # "joining"
    /\ \A s \in Slots : req[s].pc = "idle"

\* Once everything under way is over, the board shows what is stored, whatever moves overlapped,
\* were taken back or answered late and whatever events arrived meanwhile; unless nothing told the
\* page of the last change: it was out of its room, a fetch failed, an answer was lost, or a first
\* fetch was not repeated (board/page.tsx:58-73, use-socket.ts:41-46).
BoardSettles == AtRest /\ OnBoard => missed \/ list.data = Cards
=============================================================================
