--------------------------------- MODULE Bell ---------------------------------
(***************************************************************************)
(* A person's notifications and the bell that shows them: the rows of the  *)
(* API, the list in the web's query cache, the counter the bell keeps      *)
(* beside it, the requests that mark rows as read, and the room in which   *)
(* the gateway tells of new ones.                                          *)
(***************************************************************************)
EXTENDS Integers, QueryCache

CONSTANTS
    Id, Uid,    \* what the database and what Firebase call the person
    Page,       \* rows of an answer
    Lines,      \* rows of the bell
    Slots,      \* bound: requests of the bell in flight
    MaxNotes,   \* bound: notifications
    MaxOps,     \* bound: clicks, and rows marked in another tab
    MaxFaults   \* bound: requests, fetches and connections that fail

Notes == 1..MaxNotes    \* in the order in which they are created

VARIABLES
    rows,       \* each notification: not created, unread or read
    socket,     \* about to join, joined, or connected anew and in no room
    list,       \* the list in the query cache
    count,      \* the counter
    req,        \* requests of the bell
    missed,     \* history: the rows have changed and nothing tells the bell
    overtaken,  \* history: the last new list was shown before the answer to a request
    ops, faults

vars == <<rows, socket, list, count, req, missed, overtaken, ops, faults>>

Quiet == [pc |-> "idle", op |-> "one", notes |-> {}]
Idle == \A s \in Slots : req[s].pc = "idle"

Init ==
    /\ rows \in [Notes -> {"none", "unread", "read"}]
    /\ \A m, n \in Notes : m < n /\ rows[n] # "none" => rows[m] # "none"
    /\ socket = "joining" /\ list = Fetching(Unread) /\ count = 0
    /\ req = [s \in Slots |-> Quiet]
    /\ missed = FALSE /\ overtaken = FALSE /\ ops = 0 /\ faults = 0

Fault == faults < MaxFaults /\ faults' = faults + 1
Op == ops < MaxOps /\ ops' = ops + 1

-----------------------------------------------------------------------------
(* The rows                                                                *)

\* Unread ones first, then the newest.
Before(l, m, n) ==
    \/ l[m] = "unread" /\ l[n] = "read"
    \/ l[m] = l[n] /\ m > n
First(k, l) == {n \in DOMAIN l : Cardinality({m \in DOMAIN l : Before(l, m, n)}) < k}
Created == [n \in {m \in Notes : rows[m] # "none"} |-> rows[n]]
FindAll == {[n \in First(Page, Created) |-> rows[n]]}

UnreadIn(data) == Cardinality({n \in Notes : \E l \in data : n \in DOMAIN l /\ l[n] = "unread"})

Invalidate ==
    /\ list' = Invalidated(list, TRUE)
    /\ missed' = (missed \/ TooLate(list, TRUE))

\* The bell asks for the room of the person's uid.
Rooms == IF socket = "joined" THEN {Uid} ELSE {}
\* Without a list, every render puts the counter back to 0.
OnNotification ==
    /\ count' = IF list.data = {} THEN 0 ELSE count + 1
    /\ Invalidate
\* The row is created, and the room of its person's id is told.
Create(n) ==
    /\ rows[n] = "none" /\ \A m \in 1..(n - 1) : rows[m] # "none"
    /\ rows' = [rows EXCEPT ![n] = "unread"]
    /\ IF Id \in Rooms THEN OnNotification ELSE missed' = TRUE /\ UNCHANGED <<list, count>>
    /\ UNCHANGED <<socket, req, overtaken, ops, faults>>
\* In another tab.
ReadElsewhere(n) ==
    /\ Op /\ rows[n] = "unread"
    /\ rows' = [rows EXCEPT ![n] = "read"] /\ missed' = TRUE
    /\ UNCHANGED <<socket, list, count, req, overtaken, faults>>

-----------------------------------------------------------------------------
(* The bell                                                                *)

Join ==
    /\ socket = "joining" /\ socket' = "joined"
    /\ UNCHANGED <<rows, list, count, req, missed, overtaken, ops, faults>>
\* A new connection does not join again.
Reconnect ==
    /\ socket = "joined" /\ Fault /\ socket' = "out"
    /\ UNCHANGED <<rows, list, count, req, missed, overtaken, ops>>

\* The window gets the focus, and the list is old.
Focus ==
    /\ list.pc = "idle" /\ list' = Fetching(list)
    /\ UNCHANGED <<rows, socket, count, req, missed, overtaken, ops, faults>>
Fetched ==
    /\ list.pc = "sent" /\ list' = Reads(list, FindAll) /\ missed' = FALSE
    /\ UNCHANGED <<rows, socket, count, req, overtaken, ops, faults>>
\* An answer equal to what is shown is the same list to the bell, and is not counted.
Answered ==
    /\ list.pc = "read" /\ list' = Shows(list)
    /\ IF list'.data # list.data
       THEN count' = UnreadIn(list'.data) /\ overtaken' = ~Idle
       ELSE UNCHANGED <<count, overtaken>>
    /\ UNCHANGED <<rows, socket, req, missed, ops, faults>>
\* The fetch and its retry fail.
FetchFails ==
    /\ list.pc # "idle" /\ Fault
    /\ list' = Resting(list) /\ missed' = TRUE
    /\ UNCHANGED <<rows, socket, count, req, overtaken, ops>>

Send(s, op, notes) ==
    /\ Op /\ req[s].pc = "idle"
    /\ req' = [req EXCEPT ![s] = [pc |-> "sent", op |-> op, notes |-> notes]]
    /\ UNCHANGED <<rows, socket, list, count, missed, overtaken, faults>>
\* A line of the bell that is shown as unread.
HandleClick(s, n) ==
    /\ \E l \in list.data : n \in First(Lines, l) /\ l[n] = "unread"
    /\ Send(s, "one", {n})
MarkAllRead(s) == count > 0 /\ Send(s, "all", Notes)

Write(s) ==
    /\ req[s].pc = "sent"
    /\ req' = [req EXCEPT ![s].pc = "written"]
    /\ rows' = [n \in Notes |-> IF n \in req[s].notes /\ rows[n] = "unread" THEN "read" ELSE rows[n]]
    /\ UNCHANGED <<socket, list, count, missed, overtaken, ops, faults>>

Lowered(op) == IF op = "all" \/ count = 0 THEN 0 ELSE count - 1

Ended(s) ==
    /\ req[s].pc = "written" /\ req' = [req EXCEPT ![s] = Quiet]
    /\ count' = Lowered(req[s].op)
    /\ Invalidate
    /\ UNCHANGED <<rows, socket, overtaken, ops, faults>>
\* The request or its answer is lost.
CutOff(s) ==
    /\ req[s].pc # "idle" /\ Fault
    /\ req' = [req EXCEPT ![s] = Quiet]
    /\ missed' = (missed \/ req[s].pc = "written")
    /\ UNCHANGED <<rows, socket, list, count, overtaken, ops>>

-----------------------------------------------------------------------------
Next ==
    \/ Join \/ Reconnect \/ Focus \/ Fetched \/ Answered \/ FetchFails
    \/ \E n \in Notes : Create(n) \/ ReadElsewhere(n)
    \/ \E s \in Slots : MarkAllRead(s) \/ Write(s) \/ Ended(s) \/ CutOff(s)
    \/ \E s \in Slots, n \in Notes : HandleClick(s, n)

Spec == Init /\ [][Next]_vars

\* What is sent is handled and answered, and the token arrives.
FairSpec ==
    /\ Spec
    /\ WF_vars(Join) /\ WF_vars(Fetched) /\ WF_vars(Answered)
    /\ \A s \in Slots : WF_vars(Write(s)) /\ WF_vars(Ended(s))

-----------------------------------------------------------------------------
(* Properties                                                              *)

Lists == UNION {[N -> {"unread", "read"}] : N \in SUBSET Notes}
TypeOK ==
    /\ rows \in [Notes -> {"none", "unread", "read"}]
    /\ socket \in {"joining", "joined", "out"}
    /\ list \in Entry(Lists) /\ count \in 0..MaxNotes
    /\ req \in [Slots -> [pc: {"idle", "sent", "written"}, op: {"one", "all"}, notes: SUBSET Notes]]
    /\ missed \in BOOLEAN /\ overtaken \in BOOLEAN /\ ops \in 0..MaxOps /\ faults \in 0..MaxFaults

AtRest == list.pc = "idle" /\ Idle

\* Whatever was clicked, twice or in any order, and however answers and lists overtook each other:
\* once all is answered the bell lists the rows as they are, unless nothing told it of the last
\* change, which came from elsewhere or whose answer was lost (use-notifications.ts:73-83).
BellSettles == AtRest => missed \/ list.data = FindAll

\* The counter, lowered by answers and put right by new lists only, is that of the list, unless
\* the last new list was shown while the answer to a request was still to come, or a fetch has
\* failed since (notification-bell.tsx:51-54, use-notifications.ts:73-77).
CountMatches == AtRest => missed \/ overtaken \/ count = UnreadIn(list.data)

\* "Bell shows an unread count badge (disappears when all read)": at rest, with an unread
\* notification in the list, the badge is there (2026-05-08-human-worker-experience-design.md:188).
BadgeShows == AtRest /\ UnreadIn(list.data) > 0 => count > 0

\* "Workers are notified in real-time (in-app)": what is created once the bell has joined and has
\* its first list is listed, or read elsewhere (2026-05-08-human-worker-experience-design.md:10).
Listed(n) == \E l \in list.data : n \in DOMAIN l
Listening == socket = "joined" /\ list.data # {}
NotifiedInApp ==
    \A n \in Notes :
        [](Listening /\ rows[n] = "none" => [](rows[n] = "unread" => <>(Listed(n) \/ rows[n] = "read")))
=============================================================================
