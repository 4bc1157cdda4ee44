----------------------------- MODULE TaskPanel -----------------------------
(***************************************************************************)
(* A task opened over the board (task-detail.tsx): the task and its runs   *)
(* in the query cache, the description typed into it, its requests, and    *)
(* the polling of a run.  The events of the gateway do not reach it.       *)
(*                                                                         *)
(* The status, the assignee, the activities and the comments are one       *)
(* number that grows with every change of them; the runs are whether one   *)
(* is RUNNING.  Changes of the status and the assignee and a comment may   *)
(* be in flight together, the first two even twice (their lists are not    *)
(* disabled meanwhile); each other kind of request is there once.  Users   *)
(* need not do anything; the browser, the API and the runner go on.        *)
(***************************************************************************)
EXTENDS Integers, QueryCache

CONSTANTS
    Updates,    \* requests in flight that change the status or the assignee, or comment
    MaxOps,     \* bound: requests and changes made elsewhere
    MaxTexts,   \* bound: texts typed
    MaxFaults   \* bound: requests and fetches that fail

ASSUME UpdatesAssumption == Updates \cap {"describe", "trigger", "stop", "delete"} = {}
ASSUME BoundAssumption == MaxOps \in Nat /\ MaxTexts \in Nat /\ MaxFaults \in Nat

VARIABLES
    row, live, running,     \* the task, whether it is not deleted, and whether a log is RUNNING
    open,                   \* the task is on the screen
    task, runs,             \* the queries
    typed,                  \* texts typed so far
    text, dirty,            \* the description in its field, and whether it is unsaved
    req,                    \* the request of each kind
    missed,                 \* history: queries whose answer changed when nothing tells the page
    raced,                  \* history: the description changed again while a save was in flight
    ops, faults

vars == <<row, live, running, open, task, runs, typed, text, dirty, req, missed, raced,
          ops, faults>>
store == <<row, live, running>>
field == <<typed, text, dirty, raced>>

Queries == {"task", "runs"}
Kinds == Updates \cup {"describe", "trigger", "stop", "delete"}
\* Descriptions are numbered: those typed here, then those written elsewhere.
Texts == 0..(MaxTexts + MaxOps)
Row == [rev: 0..MaxOps, desc: Texts]
\* here: the visit that sent the request still lasts.
Quiet == [pc |-> "idle", of |-> 0, here |-> FALSE]

Init ==
    /\ row = [rev |-> 0, desc |-> 0] /\ live = TRUE /\ running = FALSE
    /\ open = FALSE /\ task = Unread /\ runs = Unread
    /\ typed = 0 /\ text = 0 /\ dirty = FALSE
    /\ req = [k \in Kinds |-> Quiet]
    /\ missed = {} /\ raced = FALSE /\ ops = 0 /\ faults = 0

Fault == faults < MaxFaults /\ faults' = faults + 1
Op == ops < MaxOps /\ ops' = ops + 1
NoOp == UNCHANGED <<ops, faults>>

-----------------------------------------------------------------------------
(* The queries and the field                                               *)

Found == IF live THEN {row} ELSE {}
\* A new description goes into the field, unless something is unsaved there.
Seen(shown) ==
    text' = IF ~dirty /\ open /\ \E v \in shown : \A w \in task.data : v.desc # w.desc
            THEN (CHOOSE v \in shown : TRUE).desc ELSE text

FetchTask ==
    \/ /\ task.pc = "sent" /\ task' = Reads(task, Found) /\ missed' = missed \ {"task"}
       /\ text' = text
    \/ /\ task.pc = "read" /\ task' = Shows(task) /\ Seen(task.got)
       /\ missed' = IF task.got = {} THEN missed \cup {"task"} ELSE missed
FetchRuns ==
    \/ runs.pc = "sent" /\ runs' = Reads(runs, {running}) /\ missed' = missed \ {"runs"}
    \/ runs.pc = "read" /\ runs' = Shows(runs) /\ missed' = missed
Fetch(q) ==
    /\ \/ q = "task" /\ FetchTask /\ runs' = runs
       \/ q = "runs" /\ FetchRuns /\ UNCHANGED <<task, text>>
    /\ UNCHANGED <<store, open, typed, dirty, raced, req>> /\ NoOp
\* A fetch and its retry fail.
FetchFails(q) ==
    /\ Fault /\ ops' = ops
    /\ \/ /\ q = "task" /\ task.pc # "idle" /\ task' = Resting(task) /\ runs' = runs
          /\ missed' = missed \cup {q}
       \/ /\ q = "runs" /\ runs.pc # "idle" /\ runs' = Resting(runs) /\ task' = task
          /\ missed' = IF runs.data = {TRUE} THEN missed ELSE missed \cup {q}
    /\ UNCHANGED <<store, open, field, req>>

(* Mutant: only the page's own request is waited for. *)
PollWhileTriggering ==
    /\ req["trigger"].pc # "idle"
    /\ open /\ runs.pc = "idle" /\ runs.data = {TRUE}
    /\ runs' = Fetching(runs)
    /\ UNCHANGED <<store, open, task, field, req, missed>> /\ NoOp

\* Every 3 s while a run is shown RUNNING.
Poll ==
    /\ open /\ runs.pc = "idle" /\ runs.data = {TRUE}
    /\ runs' = Fetching(runs)
    /\ UNCHANGED <<store, open, task, field, req, missed>> /\ NoOp

(* Mutant: the field is that of the last visit. *)
OpenTaskAgain ==
    /\ ~open /\ open' = TRUE
    /\ task' \in Mounted(task) /\ runs' \in Mounted(runs)
    /\ UNCHANGED <<store, field, req, missed>> /\ NoOp

\* Whatever the cache has is shown, the field filled from it.
OpenTask ==
    /\ ~open /\ open' = TRUE
    /\ task' \in Mounted(task) /\ runs' \in Mounted(runs)
    /\ \E t \in IF task.data = {} THEN {0} ELSE {v.desc : v \in task.data} : text' = t
    /\ dirty' = FALSE
    /\ UNCHANGED <<store, typed, raced, req, missed>> /\ NoOp
CloseTask ==
    /\ open /\ open' = FALSE
    /\ req' = [k \in Kinds |-> [req[k] EXCEPT !.here = FALSE]]
    /\ UNCHANGED <<store, task, runs, field, missed>> /\ NoOp

Saving == req["describe"].pc # "idle"
Type ==
    /\ open /\ task.data # {} /\ typed < MaxTexts
    /\ typed' = typed + 1 /\ text' = typed' /\ dirty' = TRUE
    /\ raced' = (raced \/ Saving)
    /\ UNCHANGED <<store, open, task, runs, req, missed>> /\ NoOp
Cancel ==
    /\ open /\ dirty /\ dirty' = FALSE
    /\ \E v \in task.data : text' = v.desc
    /\ UNCHANGED <<store, open, task, runs, typed, raced, req, missed>> /\ NoOp

-----------------------------------------------------------------------------
(* Requests                                                                *)

\* The queries that the success of a request invalidates.
Refetched(k) ==
    CASE k \in Updates \cup {"describe"} -> {"task"}
      [] k \in {"trigger", "stop"} -> {"runs"}
      [] k = "delete" -> {}

\* Save is there while something is unsaved; Stop replaces Run while a run is shown RUNNING.
Button(k) ==
    /\ open /\ task.data # {} /\ req[k].pc = "idle" /\ Op /\ faults' = faults
    /\ k = "describe" => dirty
    /\ k = "stop" => runs.data = {TRUE}
    /\ k = "trigger" => runs.data # {TRUE}
    /\ req' = [req EXCEPT ![k] = IF k = "describe" THEN [pc |-> "sent", of |-> text, here |-> TRUE]
                                 ELSE [Quiet EXCEPT !.pc = "sent"]]
    /\ UNCHANGED <<store, open, task, runs, field, missed>>

Over(k) ==
    /\ dirty' = (dirty /\ ~(k = "describe" /\ req[k].pc = "done" /\ req[k].here))
    /\ IF k = "delete" /\ req[k].pc = "done"
       THEN open' = FALSE /\ req' = [l \in Kinds |-> IF l = k THEN Quiet ELSE [req[l] EXCEPT !.here = FALSE]]
       ELSE open' = open /\ req' = [req EXCEPT ![k] = Quiet]
    /\ UNCHANGED <<store, typed, text, raced>> /\ NoOp

\* A success invalidates; the description saved is clean, unless another visit has its own; a
\* deleted task is closed.
Ended(k) ==
    LET won == IF req[k].pc = "done" THEN Refetched(k) ELSE {} IN
    /\ req[k].pc \in {"done", "failed"} /\ Over(k)
    /\ task' = IF "task" \in won THEN Invalidated(task, open) ELSE task
    /\ runs' = IF "runs" \in won THEN Invalidated(runs, open) ELSE runs
    /\ missed' = missed \cup {q \in won : TooLate(IF q = "task" THEN task ELSE runs, open)}

-----------------------------------------------------------------------------
(* The API, and what happens elsewhere                                     *)

\* A run shown RUNNING, or about to be, is polled.
Polled ==
    \/ runs.pc = "sent"
    \/ runs.pc = "read" /\ runs.got = {TRUE}
    \/ runs.pc = "idle" /\ runs.data = {TRUE}
Miss(told) ==
    missed' = missed \cup ((IF Found' # Found THEN {"task"} ELSE {}) \ told)
                     \cup (IF running' # running /\ ~Polled THEN {"runs"} \ told ELSE {})
Bump == row' = [row EXCEPT !.rev = IF @ < MaxOps THEN @ + 1 ELSE @]

\* A deleted task is updated like others; a stop ends the latest log only.
Write(k) ==
    /\ req[k].pc = "sent"
    /\ CASE k \in Updates -> Bump /\ UNCHANGED <<live, running>>
         [] k = "describe" -> row' = [row EXCEPT !.desc = req[k].of] /\ UNCHANGED <<live, running>>
         [] k = "trigger" -> running' = TRUE /\ UNCHANGED <<row, live>>
         [] k = "stop" -> running' \in {running, FALSE} /\ UNCHANGED <<row, live>>
         [] k = "delete" -> live /\ live' = FALSE /\ running' \in {running, FALSE} /\ row' = row
    /\ req' = [req EXCEPT ![k].pc = IF Refetched(k) = {"task"} THEN "written" ELSE "done"]
    /\ Miss(Refetched(k))
    /\ UNCHANGED <<open, task, runs, field>> /\ NoOp
Refuse ==
    /\ req["delete"].pc = "sent" /\ ~live
    /\ req' = [req EXCEPT !["delete"].pc = "failed"]
    /\ UNCHANGED <<store, open, task, runs, field, missed>> /\ NoOp
\* The assignee may be enqueued, or stopped and enqueued by a comment.
FollowUp(k) ==
    /\ req[k].pc = "written" /\ req' = [req EXCEPT ![k].pc = "done"]
    /\ running' \in {running, TRUE}
    /\ UNCHANGED <<row, live, open, task, runs, field>> /\ NoOp
    /\ Miss({})
\* A statement fails, the API restarts or the answer is lost: what is written stays written.
CutOff(k) ==
    /\ req[k].pc \in {"sent", "written", "done"} /\ Fault /\ ops' = ops
    /\ req' = [req EXCEPT ![k].pc = "failed"]
    /\ missed' = IF req[k].pc = "sent" THEN missed ELSE missed \cup Refetched(k)
    /\ UNCHANGED <<store, open, task, runs, field>>

\* Another member, an agent or the runner.
Elsewhere ==
    /\ Op /\ faults' = faults
    /\ \/ Bump /\ UNCHANGED <<live, running, raced>>
       \/ row' = [row EXCEPT !.desc = MaxTexts + ops'] /\ raced' = (raced \/ Saving) /\ UNCHANGED <<live, running>>
       \/ live /\ live' = FALSE /\ UNCHANGED <<row, running, raced>>
       \/ running' = TRUE /\ UNCHANGED <<row, live, raced>>
    /\ UNCHANGED <<open, task, runs, typed, text, dirty, req>>
    /\ Miss({})
RunEnds ==
    /\ running /\ running' = FALSE
    /\ UNCHANGED <<row, live, open, task, runs, field, req>> /\ NoOp
    /\ Miss({})

-----------------------------------------------------------------------------
Handler(k) == Write(k) \/ FollowUp(k) \/ Ended(k)
Next ==
    \/ OpenTask \/ CloseTask \/ Type \/ Cancel \/ Poll \/ Refuse \/ Elsewhere \/ RunEnds
    \/ \E q \in Queries : Fetch(q) \/ FetchFails(q)
    \/ \E k \in Kinds : Button(k) \/ Handler(k) \/ CutOff(k)

Fairness ==
    /\ WF_vars(Poll) /\ WF_vars(Refuse) /\ WF_vars(RunEnds)
    /\ \A q \in Queries : WF_vars(Fetch(q))
    /\ \A k \in Kinds : WF_vars(Handler(k))

Spec == Init /\ [][Next]_vars /\ Fairness

-----------------------------------------------------------------------------
(* Properties                                                              *)

TypeOK ==
    /\ row \in Row /\ live \in BOOLEAN /\ running \in BOOLEAN /\ open \in BOOLEAN
    /\ task \in Entry(Row) /\ runs \in Entry(BOOLEAN)
    /\ typed \in 0..MaxTexts /\ text \in Texts /\ dirty \in BOOLEAN /\ raced \in BOOLEAN
    /\ req \in [Kinds -> [pc: {"idle", "sent", "written", "done", "failed"}, of: Texts,
                     here: BOOLEAN]]
    /\ missed \subseteq Queries /\ ops \in 0..MaxOps /\ faults \in 0..MaxFaults

\* A field without unsaved text shows the description last read, once what follows a save is read,
\* unless the description changed again meanwhile (task-detail.tsx:153-157, 225-231, 484-509).
FieldIsTheTask ==
    (open /\ ~dirty /\ ~raced /\ ~Saving /\ task.pc = "idle" /\ "task" \notin missed) =>
        \A v \in task.data : text = v.desc

\* The open task comes to show what this page's requests have done, unless one of them or a fetch
\* failed; changes made elsewhere are not told to it (task-detail.tsx:187-239).
PanelSettles == []<>(open => "task" \in missed \/ task.data = Found)

\* A run shown RUNNING is seen to end, even when a fetch fails, and one that this page triggers is
\* shown (task-detail.tsx:176-184, 203-213).
RunIsFollowed == []<>(open => "runs" \in missed \/ runs.data = {running})
=============================================================================
