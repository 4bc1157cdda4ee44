---------------------------- MODULE LiveBoardProofs ----------------------------
(***************************************************************************)
(* The invariants of LiveBoard and of TaskPanel, for any tasks, columns,   *)
(* requests in flight and bounds.                                          *)
(*                                                                         *)
(* BoardSettles is about a board at rest.  Covered says, of every state,   *)
(* what is under way to correct a list that is old: a fetch that has yet   *)
(* to read, an event, a request whose end fetches the list again, or the   *)
(* return from the bin.  TypeOK needs besides that an entry holds one list *)
(* (Held) and that events never outnumber the changes (Counted).           *)
(*                                                                         *)
(* The two share the query cache, and the panel comes second, under the    *)
(* name Panel.  FieldIsTheTask is about a panel at rest; FieldInv says, of *)
(* every state, why the field may show something else than the task does:  *)
(* a newer description that is not shown yet, or a save.                   *)
(***************************************************************************)
EXTENDS LiveBoard, FiniteSetTheorems, TLAPS

Shapes ==
    /\ list = [data |-> list.data, pc |-> list.pc, got |-> list.got, stale |-> list.stale]
    /\ list.pc \in {"idle", "sent", "read"}
    /\ req = [s \in Slots |-> [pc |-> req[s].pc, op |-> req[s].op, task |-> req[s].task,
                               to |-> req[s].to, prior |-> req[s].prior]]
    /\ \A s \in Slots : /\ req[s].task \subseteq Tasks /\ req[s].to \subseteq Columns
                        /\ req[s].op = "drag" => req[s].prior # {}
    /\ stored \in [Tasks -> Row]

(* What is shown, or will be when the fetch under way is over. *)
Fresh ==
    \/ list.pc = "sent"
    \/ list.pc = "read" /\ list.got = Cards
    \/ list.pc = "idle" /\ list.data = Cards

(* The end of the request invalidates the list: of a move in any case, of the others if they succeed. *)
Pending(s) ==
    \/ req[s].op \in Refetching /\ req[s].pc \in {"written", "done"}
    \/ req[s].op = "drag" /\ req[s].pc # "idle"

Awaited == list.stale /\ list.pc = "idle" /\ page = "bin"

Covered == missed \/ Fresh \/ wire # 0 \/ telling # 0 \/ (\E s \in Slots : Pending(s)) \/ Awaited

IInv == Shapes /\ page \in {"board", "bin"} /\ wire \in Nat /\ telling \in Nat /\ Covered

-----------------------------------------------------------------------------
(* What is invalidated is fetched, by now, or on the return to the board; or it is missed. *)
LEMMA InvalidateCovers ==
  ASSUME Shapes, page \in {"board", "bin"}, page' = page, Invalidate
  PROVE  /\ missed' \/ list'.pc = "sent" \/ Awaited'
         /\ list' = [data |-> list'.data, pc |-> list'.pc, got |-> list'.got, stale |-> list'.stale]
         /\ list'.pc \in {"idle", "sent", "read"}
<1> USE DEF Shapes, Invalidate, Invalidated, Fetching, TooLate, Awaited, OnBoard
<1>1. CASE page = "bin" BY <1>1
<1>2. CASE page = "board" BY <1>2
<1> QED BY <1>1, <1>2

LEMMA TakeBackCovers ==
  ASSUME Shapes, page \in {"board", "bin"}, page' = page, NEW prior,
         list' = Invalidated([list EXCEPT !.data = prior, !.stale = FALSE], OnBoard),
         missed' = (missed \/ TooLate(list, OnBoard)),
         prior # {}
  PROVE  /\ missed' \/ list'.pc = "sent" \/ Awaited'
         /\ list' = [data |-> list'.data, pc |-> list'.pc, got |-> list'.got, stale |-> list'.stale]
         /\ list'.pc \in {"idle", "sent", "read"}
<1> USE DEF Shapes, Invalidated, Fetching, TooLate, Awaited, OnBoard
<1>1. CASE page = "bin" BY <1>1
<1>2. CASE page = "board" BY <1>2
<1> QED BY <1>1, <1>2

LEMMA CardsKept ==
  ASSUME Shapes, NEW t \in Tasks, NEW row \in Row, stored' = [stored EXCEPT ![t] = row],
         row = stored[t] \/ (row.life # "live" /\ stored[t].life # "live")
  PROVE  Cards' = Cards
<1>1. \A u \in Tasks : stored'[u].life = "live" <=> stored[u].life = "live" BY DEF Shapes
<1>2. \A u \in Tasks : stored[u].life = "live" => stored'[u] = stored[u] BY DEF Shapes
<1>3. {u \in Tasks : stored'[u].life = "live"} = {u \in Tasks : stored[u].life = "live"} BY <1>1
<1>4. [u \in {v \in Tasks : stored'[v].life = "live"} |-> stored'[u].col]
      = [u \in {v \in Tasks : stored[v].life = "live"} |-> stored[u].col]
  BY <1>2, <1>3
<1> QED BY <1>4 DEF Cards

-----------------------------------------------------------------------------
(* Events that are lost on their way are missed. *)
LEMMA OutCovers ==
  ASSUME IInv, Out, UNCHANGED <<stored, list, req>>, page' \in {"board", "bin"},
         page = "bin" => page' = "bin"
  PROVE  IInv'
<1>1. wire' = 0 /\ telling' = telling BY DEF Out
<1>2. missed' = (missed \/ wire > 0) BY DEF Out
<1>3. wire > 0 <=> wire # 0 BY DEF IInv
<1>4. (missed => missed') /\ (wire # 0 => missed') BY <1>2, <1>3
<1>5. Shapes' BY DEF IInv, Shapes
<1>6. Covered'
  <2>1. CASE missed \/ wire # 0 BY <2>1, <1>4 DEF Covered
  <2>2. CASE Fresh BY <2>2 DEF Fresh, Covered, Cards
  <2>3. CASE telling # 0 BY <2>3, <1>1 DEF Covered
  <2>4. CASE \E s \in Slots : Pending(s) BY <2>4 DEF Pending, Covered
  <2>5. CASE Awaited BY <2>5 DEF Awaited, Covered
  <2> QED BY <2>1, <2>2, <2>3, <2>4, <2>5 DEF IInv, Covered
<1> QED BY <1>1, <1>5, <1>6 DEF IInv

LEMMA PageOK ==
  ASSUME IInv, GoToBin \/ GoToBoard \/ Join \/ Drop
  PROVE  IInv'
<1> USE DEF link
<1>1. CASE GoToBin
  <2>1. page = "board" /\ page' = "bin" /\ Out /\ UNCHANGED <<stored, list, req>>
    BY <1>1 DEF GoToBin, OnBoard
  <2> QED BY <2>1, OutCovers
<1>2. CASE GoToBoard
  <2>1. list' = list \/ list' = Fetching(list) BY <1>2 DEF GoToBoard, Mounted
  <2>2. Awaited => list' = Fetching(list) BY <1>2 DEF GoToBoard, Mounted, Awaited
  <2>3. Shapes' /\ (list' = Fetching(list) => list'.pc = "sent")
    BY <1>2, <2>1 DEF GoToBoard, IInv, Shapes, Fetching
  <2> QED BY <1>2, <2>1, <2>2, <2>3 DEF GoToBoard, IInv, Covered, Fresh, Pending, Cards
<1>3. CASE Join
  BY <1>3 DEF Join, IInv, Shapes, Covered, Fresh, Pending, Awaited, Cards
<1>4. CASE Drop
  <2>1. page' = page /\ Out /\ UNCHANGED <<stored, list, req>> BY <1>4 DEF Drop
  <2> QED BY <2>1, OutCovers DEF IInv
<1> QED BY <1>1, <1>2, <1>3, <1>4

LEMMA FetchOK == ASSUME IInv, Fetched \/ Answered \/ FetchFails PROVE IInv'
<1> USE DEF link
<1>1. CASE Fetched
  <2>1. list' = [list EXCEPT !.pc = "read", !.got = Cards] /\ UNCHANGED <<stored, page, wire, telling, req>>
    BY <1>1 DEF Fetched, Reads
  <2>2. list'.pc = "read" /\ list'.got = Cards' BY <2>1 DEF IInv, Shapes, Cards
  <2>3. Shapes' BY <2>1 DEF IInv, Shapes
  <2> QED BY <2>1, <2>2, <2>3 DEF IInv, Covered, Fresh
<1>2. CASE Answered
  <2>1. list.pc = "read" /\ list' = Shows(list) /\ UNCHANGED <<stored, page, wire, telling, req, missed>>
    BY <1>2 DEF Answered
  <2>2. Shapes' /\ list'.pc = "idle" /\ (list.got # {} => list'.data = list.got)
    BY <2>1 DEF IInv, Shapes, Shows, Resting
  <2>3. Cards # {} /\ Cards' = Cards BY <2>1 DEF Cards
  <2>4. Fresh => Fresh' BY <2>1, <2>2, <2>3 DEF Fresh
  <2> QED BY <2>1, <2>2, <2>4 DEF IInv, Covered, Pending, Awaited
<1>3. CASE FetchFails
  BY <1>3 DEF FetchFails, Resting, IInv, Shapes, Covered
<1> QED BY <1>1, <1>2, <1>3

LEMMA DeliverOK == ASSUME IInv, Deliver PROVE IInv'
<1>1. Invalidate /\ wire \in Nat /\ wire > 0 /\ wire' = wire - 1 /\ UNCHANGED <<stored, page, telling, req>>
  BY DEF Deliver, IInv
<1>2. wire' \in Nat BY <1>1
<1>3. missed' \/ list'.pc = "sent" \/ Awaited' BY <1>1, InvalidateCovers DEF IInv
<1>4. Shapes' BY <1>1, InvalidateCovers DEF IInv, Shapes
<1> QED BY <1>1, <1>2, <1>3, <1>4 DEF IInv, Covered, Fresh

(* An event that is emitted is under way, or the change is missed. *)
LEMMA EmittedKept ==
  ASSUME wire \in Nat, NEW quiet, Emitted(quiet)
  PROVE  /\ wire' \in Nat
         /\ missed' \/ quiet \/ wire' # 0
         /\ (missed => missed') /\ (wire # 0 => wire' # 0)
<1>1. wire' \in Nat /\ (room = "in" => wire' # 0) /\ (wire # 0 => wire' # 0) BY DEF Emitted
<1>2. (missed => missed') /\ (room # "in" => missed' \/ quiet) BY Zenon DEF Emitted
<1> QED BY <1>1, <1>2

LEMMA AnnounceOK == ASSUME IInv, Announce PROVE IInv'
<1>1. telling' \in Nat
  <2>1. telling \in Nat /\ telling > 0 /\ telling' = telling - 1 BY DEF Announce, IInv
  <2> QED BY <2>1
<1>2. wire' \in Nat /\ (missed' \/ wire' # 0)
  <2>1. Emitted(FALSE) /\ wire \in Nat BY DEF Announce, IInv
  <2> QED BY <2>1, EmittedKept
<1>3. Shapes' BY DEF Announce, IInv, Shapes
<1> QED BY <1>1, <1>2, <1>3 DEF Announce, IInv, Covered

LEMMA ElsewhereOK == ASSUME IInv, NEW t \in Tasks, Elsewhere(t) \/ PlanAccepted(t) PROVE IInv'
<1> USE DEF link
<1>1. CASE Elsewhere(t)
  <2>1. PICK row \in Row : stored' = [stored EXCEPT ![t] = row] BY <1>1 DEF Elsewhere
  <2>2. telling' \in Nat /\ telling' # 0 BY <1>1 DEF Elsewhere, IInv
  <2>3. Shapes' BY <1>1, <2>1 DEF Elsewhere, IInv, Shapes
  <2> QED BY <1>1, <2>2, <2>3 DEF Elsewhere, IInv, Covered
<1>2. CASE PlanAccepted(t)
  <2>1. PICK c \in Columns : stored' = [stored EXCEPT ![t] = [col |-> c, life |-> "live"]]
    BY <1>2 DEF PlanAccepted
  <2>2. Shapes' BY <1>2, <2>1 DEF PlanAccepted, IInv, Shapes, Row
  <2> QED BY <1>2, <2>2 DEF PlanAccepted, IInv, Covered
<1> QED BY <1>1, <1>2

-----------------------------------------------------------------------------
(* Requests                                                                *)

(* A step that writes nothing and moves one request, which waits as much as before. *)
LEMMA RequestKept ==
  ASSUME IInv, NEW s \in Slots, UNCHANGED <<page, list, telling>>, Shapes', wire' \in Nat,
         \A u \in Slots \ {s} : req'[u] = req[u],
         Pending(s) => Pending(s)' \/ missed', Cards' = Cards \/ Pending(s)',
         missed => missed', wire # 0 => wire' # 0
  PROVE  IInv'
<1>1. CASE missed \/ wire # 0 \/ telling # 0 BY <1>1 DEF IInv, Covered
<1>2. CASE Fresh
  <2>1. CASE Cards' = Cards BY <1>2, <2>1 DEF IInv, Covered, Fresh
  <2>2. CASE Pending(s)' BY <2>2 DEF IInv, Covered
  <2> QED BY <2>1, <2>2
<1>3. ASSUME NEW u \in Slots, Pending(u) PROVE IInv'
  <2>1. CASE u = s BY <1>3, <2>1 DEF IInv, Covered
  <2>2. CASE u # s
    <3>1. Pending(u)' BY <1>3, <2>2 DEF Pending
    <3> QED BY <3>1 DEF IInv, Covered
  <2> QED BY <2>1, <2>2
<1>4. CASE Awaited BY <1>4 DEF IInv, Covered, Awaited
<1> QED BY <1>1, <1>2, <1>3, <1>4 DEF IInv, Covered

LEMMA SendShape ==
  ASSUME Shapes, NEW s \in Slots, NEW op, NEW t \in Tasks, NEW to \in SUBSET Columns,
         Send(s, op, t, to), op = "drag" => list.data # {}
  PROVE  /\ req'[s].op = op /\ req'[s].pc = "sent" /\ req[s].pc = "idle"
         /\ \A u \in Slots \ {s} : req'[u] = req[u]
         /\ req' = [u \in Slots |-> [pc |-> req'[u].pc, op |-> req'[u].op, task |-> req'[u].task,
                                     to |-> req'[u].to, prior |-> req'[u].prior]]
         /\ \A u \in Slots : /\ req'[u].task \subseteq Tasks /\ req'[u].to \subseteq Columns
                             /\ req'[u].op = "drag" => req'[u].prior # {}
<1>1. /\ req'[s] = [pc |-> "sent", op |-> op, task |-> {t}, to |-> to,
                    prior |-> IF op = "drag" THEN list.data ELSE {}]
      /\ req[s].pc = "idle"
      /\ \A u \in Slots \ {s} : req'[u] = req[u]
  BY DEF Shapes, Send
<1>2. req' = [u \in Slots |-> [pc |-> req'[u].pc, op |-> req'[u].op, task |-> req'[u].task,
                               to |-> req'[u].to, prior |-> req'[u].prior]]
  BY <1>1 DEF Shapes, Send
<1>3. ASSUME NEW u \in Slots
      PROVE  /\ req'[u].task \subseteq Tasks /\ req'[u].to \subseteq Columns
             /\ req'[u].op = "drag" => req'[u].prior # {}
  <2>1. CASE u = s BY <1>1, <2>1
  <2>2. CASE u # s BY <1>1, <2>2 DEF Shapes
  <2> QED BY <2>1, <2>2
<1> QED BY <1>1, <1>2, <1>3

LEMMA SendOK ==
  ASSUME IInv, NEW s \in Slots, NEW op, NEW t \in Tasks, NEW to \in SUBSET Columns,
         Send(s, op, t, to), op # "drag", UNCHANGED list
  PROVE  IInv'
<1>1. Shapes' /\ (\A u \in Slots \ {s} : req'[u] = req[u])
  <2>1. stored' = stored BY DEF Send
  <2> QED BY <2>1, SendShape DEF IInv, Shapes
<1>2. ~Pending(s)
  <2>1. req[s].pc = "idle" BY DEF Send
  <2> QED BY <2>1 DEF Pending
<1>3. UNCHANGED <<page, telling, wire, missed>> /\ Cards' = Cards BY DEF Send, link, Cards
<1> QED BY <1>1, <1>2, <1>3, RequestKept DEF IInv

LEMMA DragEndOK ==
  ASSUME IInv, NEW s \in Slots, NEW t \in Tasks, NEW c \in Columns, DragEnd(s, t, c)
  PROVE  IInv'
<1>1. Send(s, "drag", t, {c}) /\ list.data # {} BY DEF DragEnd
<1>2. PICK v : list' = Put(Resting(list), v) BY DEF DragEnd
<1>3. {c} \in SUBSET Columns OBVIOUS
<1>4. Pending(s)' BY <1>1, <1>3, SendShape DEF IInv, Pending
<1>5. stored' = stored BY <1>1 DEF Send
<1>6. Shapes' BY <1>1, <1>2, <1>3, <1>5, SendShape DEF Put, Resting, IInv, Shapes
<1> QED BY <1>1, <1>4, <1>6 DEF Send, link, IInv, Covered

LEMMA UserOK ==
  ASSUME IInv, NEW s \in Slots, NEW t \in Tasks,
         \/ \E c \in Columns : DragEnd(s, t, c) \/ AddCard(s, t, c)
         \/ DetailButtons(s, t) \/ BinButtons(s, t)
  PROVE  IInv'
<1>1. ASSUME NEW c \in Columns, AddCard(s, t, c) PROVE IInv' BY <1>1, SendOK DEF AddCard
<1>2. CASE DetailButtons(s, t)
  <2>1. ASSUME NEW c \in Columns, Send(s, "status", t, {c}), UNCHANGED list PROVE IInv'
    BY <2>1, SendOK
  <2>2. ASSUME NEW op \in {"comment", "delete"}, Send(s, op, t, {}), UNCHANGED list PROVE IInv'
    BY <2>2, SendOK
  <2> QED BY <1>2, <2>1, <2>2 DEF DetailButtons
<1>3. CASE BinButtons(s, t) BY <1>3, SendOK DEF BinButtons
<1> QED BY <1>1, <1>2, <1>3, DragEndOK

(* A request moves on: it keeps all but its place. *)
LEMMA MoveShape ==
  ASSUME Shapes, NEW s \in Slots, NEW l, req' = [req EXCEPT ![s].pc = l]
  PROVE  /\ req'[s].op = req[s].op /\ req'[s].pc = l
         /\ \A u \in Slots \ {s} : req'[u] = req[u]
         /\ req' = [u \in Slots |-> [pc |-> req'[u].pc, op |-> req'[u].op, task |-> req'[u].task,
                                     to |-> req'[u].to, prior |-> req'[u].prior]]
         /\ \A u \in Slots : /\ req'[u].task \subseteq Tasks /\ req'[u].to \subseteq Columns
                             /\ req'[u].op = "drag" => req'[u].prior # {}
<1>1. /\ req'[s] = [pc |-> l, op |-> req[s].op, task |-> req[s].task, to |-> req[s].to,
                    prior |-> req[s].prior]
      /\ \A u \in Slots \ {s} : req'[u] = req[u]
  BY DEF Shapes
<1>2. req' = [u \in Slots |-> [pc |-> req'[u].pc, op |-> req'[u].op, task |-> req'[u].task,
                               to |-> req'[u].to, prior |-> req'[u].prior]]
  BY <1>1 DEF Shapes
<1>3. ASSUME NEW u \in Slots
      PROVE  /\ req'[u].task \subseteq Tasks /\ req'[u].to \subseteq Columns
             /\ req'[u].op = "drag" => req'[u].prior # {}
  <2>1. CASE u = s BY <1>1, <2>1 DEF Shapes
  <2>2. CASE u # s BY <1>1, <2>2 DEF Shapes
  <2> QED BY <2>1, <2>2
<1> QED BY <1>1, <1>2, <1>3

LEMMA WriteOK == ASSUME IInv, NEW s \in Slots, Write(s) PROVE IInv'
<1>1. req[s].pc = "sent" /\ UNCHANGED <<page, wire, telling, list, missed>> BY DEF Write, link
<1>2. PICK l \in {"failed", "written", "done"}, t \in req[s].task :
         /\ req' = [req EXCEPT ![s].pc = l]
         /\ \/ stored' = stored
            \/ /\ Found(req[s].op, stored[t]) /\ (req[s].op = "purge" \/ l = "written")
               /\ \E row \in Written(req[s].op, stored[t], req[s].to) :
                     stored' = [stored EXCEPT ![t] = row]
  BY DEF Write
<1>3. /\ req'[s].op = req[s].op /\ req'[s].pc = l
      /\ \A u \in Slots \ {s} : req'[u] = req[u]
  BY <1>2, MoveShape DEF IInv
<1>4. Pending(s) => Pending(s)' BY <1>1, <1>2, <1>3 DEF Pending
<1>5. CASE stored' = stored
  <2>1. Shapes' BY <1>1, <1>2, <1>5, MoveShape DEF IInv, Shapes
  <2> QED BY <1>1, <1>3, <1>4, <1>5, <2>1, RequestKept DEF IInv, Cards
<1>6. ASSUME NEW row \in Written(req[s].op, stored[t], req[s].to), Found(req[s].op, stored[t]),
             stored' = [stored EXCEPT ![t] = row], req[s].op = "purge" \/ l = "written"
      PROVE  IInv'
  <2>1. t \in Tasks /\ stored[t] \in Row /\ req[s].to \subseteq Columns BY DEF IInv, Shapes
  <2>2. row \in Row /\ (req[s].op \in Refetching \/ row = stored[t]
                        \/ (row.life # "live" /\ stored[t].life # "live"))
    <3>1. CASE req[s].op \in {"drag", "status"} BY <1>6, <2>1, <3>1 DEF Written, Row, Refetching
    <3>2. CASE req[s].op = "create" BY <1>6, <2>1, <3>2 DEF Written, Row, Refetching
    <3>3. CASE req[s].op \in {"delete", "restore"} BY <1>6, <2>1, <3>3 DEF Written, Row, Refetching
    <3>4. CASE req[s].op = "purge"
      <4>1. row = [stored[t] EXCEPT !.life = "absent"] /\ stored[t].life = "bin"
        BY <1>6, <3>4 DEF Written, Found
      <4> QED BY <4>1, <2>1 DEF Row
    <3>5. CASE req[s].op \notin {"drag", "status", "create", "delete", "restore", "purge"}
      BY <1>6, <2>1, <3>5 DEF Written
    <3> QED BY <3>1, <3>2, <3>3, <3>4, <3>5
  <2>3. Shapes'
    <3>1. stored' \in [Tasks -> Row] BY <1>6, <2>1, <2>2 DEF IInv, Shapes
    <3> QED BY <1>1, <1>2, <3>1, MoveShape DEF IInv, Shapes
  <2>4. Cards' = Cards \/ Pending(s)'
    <3>1. CASE req[s].op \in Refetching /\ req[s].op # "purge" BY <1>3, <1>6, <3>1 DEF Pending
    <3>2. CASE row = stored[t] \/ (row.life # "live" /\ stored[t].life # "live")
      BY <1>6, <2>1, <2>2, <3>2, CardsKept DEF IInv
    <3>3. "purge" \notin Refetching BY DEF Refetching
    <3> QED BY <2>2, <3>1, <3>2, <3>3
  <2> QED BY <1>1, <1>3, <1>4, <2>3, <2>4, RequestKept DEF IInv
<1> QED BY <1>2, <1>5, <1>6

LEMMA EmitOK == ASSUME IInv, NEW s \in Slots, Emit(s) PROVE IInv'
<1>1. req' = [req EXCEPT ![s].pc = "done"] /\ req[s].pc = "written"
      /\ Emitted(req[s].op \in Refetching \cup {"comment"})
      /\ UNCHANGED <<stored, page, telling, list>>
  BY DEF Emit
<1>2. req'[s].op = req[s].op /\ req'[s].pc = "done" /\ (\A u \in Slots \ {s} : req'[u] = req[u])
  BY <1>1, MoveShape DEF IInv
<1>3. Shapes' BY <1>1, MoveShape DEF IInv, Shapes
<1>4. wire' \in Nat /\ (missed => missed') /\ (wire # 0 => wire' # 0)
  BY <1>1, EmittedKept DEF IInv
<1>5. Pending(s) => Pending(s)' BY <1>1, <1>2 DEF Pending
<1> QED BY <1>1, <1>2, <1>3, <1>4, <1>5, RequestKept DEF Cards

LEMMA CutOffOK == ASSUME IInv, NEW s \in Slots, CutOff(s) PROVE IInv'
<1>1. req' = [req EXCEPT ![s].pc = "failed"] /\ UNCHANGED <<stored, page, wire, telling, list>>
      /\ missed' = (missed \/ (req[s].pc # "sent" /\ req[s].op # "drag"))
  BY DEF CutOff, link
<1>2. req'[s].op = req[s].op /\ req'[s].pc = "failed" /\ (\A u \in Slots \ {s} : req'[u] = req[u])
  BY <1>1, MoveShape DEF IInv
<1>3. Shapes' BY <1>1, MoveShape DEF IInv, Shapes
<1>4. Pending(s) => Pending(s)' \/ missed' BY <1>1, <1>2 DEF Pending
<1> QED BY <1>1, <1>2, <1>3, <1>4, RequestKept DEF IInv, Cards

(* A request is over: whatever waited for it is fetched again, or missed. *)
LEMMA EndedOK == ASSUME IInv, NEW s \in Slots, Ended(s) PROVE IInv'
<1>1. req' = [req EXCEPT ![s] = Quiet] /\ UNCHANGED <<stored, page, wire, telling>>
      /\ req[s].pc \in {"done", "failed"}
  BY DEF Ended, link
<1>2. (\A u \in Slots \ {s} : req'[u] = req[u])
      /\ req' = [u \in Slots |-> [pc |-> req'[u].pc, op |-> req'[u].op, task |-> req'[u].task,
                                  to |-> req'[u].to, prior |-> req'[u].prior]]
      /\ \A u \in Slots : /\ req'[u].task \subseteq Tasks /\ req'[u].to \subseteq Columns
                          /\ req'[u].op = "drag" => req'[u].prior # {}
  <2>1. req'[s] = Quiet /\ (\A u \in Slots \ {s} : req'[u] = req[u]) BY <1>1 DEF IInv, Shapes
  <2>2. req' = [u \in Slots |-> [pc |-> req'[u].pc, op |-> req'[u].op, task |-> req'[u].task,
                                 to |-> req'[u].to, prior |-> req'[u].prior]]
    BY <1>1, <2>1 DEF IInv, Shapes, Quiet
  <2>3. ASSUME NEW u \in Slots
        PROVE  /\ req'[u].task \subseteq Tasks /\ req'[u].to \subseteq Columns
               /\ req'[u].op = "drag" => req'[u].prior # {}
    <3>1. CASE u = s BY <2>1, <3>1 DEF Quiet
    <3>2. CASE u # s BY <2>1, <3>2 DEF IInv, Shapes
    <3> QED BY <3>1, <3>2
  <2> QED BY <2>1, <2>2, <2>3
<1>3. ASSUME missed' \/ list'.pc = "sent" \/ Awaited',
             list' = [data |-> list'.data, pc |-> list'.pc, got |-> list'.got, stale |-> list'.stale],
             list'.pc \in {"idle", "sent", "read"}
      PROVE  IInv'
  <2>1. Shapes' BY <1>1, <1>2, <1>3 DEF IInv, Shapes
  <2> QED BY <1>1, <1>3, <2>1 DEF IInv, Covered, Fresh
<1>4. CASE req[s].op = "drag" /\ req[s].pc = "failed"
  <2>1. list' = Invalidated([list EXCEPT !.data = req[s].prior, !.stale = FALSE], OnBoard)
        /\ missed' = (missed \/ TooLate(list, OnBoard))
    BY <1>4 DEF Ended
  <2>2. req[s].prior # {} BY <1>4 DEF IInv, Shapes
  <2> QED BY <1>1, <1>3, <2>1, <2>2, TakeBackCovers DEF IInv
<1>5. CASE ~(req[s].op = "drag" /\ req[s].pc = "failed") /\ req[s].op \in Refetching /\ req[s].pc = "done"
  <2>1. Invalidate BY <1>5 DEF Ended
  <2> QED BY <1>1, <1>3, <2>1, InvalidateCovers DEF IInv
<1>6. CASE ~(req[s].op = "drag" /\ req[s].pc = "failed") /\ ~(req[s].op \in Refetching /\ req[s].pc = "done")
  <2>1. UNCHANGED <<list, missed>> BY <1>6 DEF Ended
  <2>2. ~Pending(s) BY <1>1, <1>6 DEF Pending, Refetching
  <2>3. Shapes' BY <1>1, <1>2, <2>1 DEF IInv, Shapes
  <2> QED BY <1>1, <1>2, <2>1, <2>2, <2>3, RequestKept DEF IInv, Cards
<1> QED BY <1>4, <1>5, <1>6

-----------------------------------------------------------------------------
LEMMA InitOK == Init => IInv
<1> SUFFICES ASSUME Init PROVE IInv OBVIOUS
<1>1. Shapes
  <2>1. list = [data |-> {}, pc |-> "sent", got |-> {}, stale |-> FALSE]
    BY DEF Init, Fetching, Unread
  <2>2. req = [s \in Slots |-> Quiet] /\ stored \in [Tasks -> Row] BY DEF Init
  <2> QED BY <2>1, <2>2 DEF Shapes, Quiet
<1>2. list.pc = "sent" BY DEF Init, Fetching, Unread
<1> QED BY <1>1, <1>2 DEF Init, IInv, Covered, Fresh

LEMMA StepOK == IInv /\ [Next]_vars => IInv'
<1> SUFFICES ASSUME IInv, [Next]_vars PROVE IInv' OBVIOUS
<1>1. ASSUME NEW s \in Slots, NEW t \in Tasks,
             \/ \E c \in Columns : DragEnd(s, t, c) \/ AddCard(s, t, c)
             \/ DetailButtons(s, t) \/ BinButtons(s, t)
      PROVE  IInv'
  BY <1>1, UserOK
<1>2. ASSUME NEW s \in Slots, Write(s) \/ Emit(s) \/ Ended(s) \/ CutOff(s) PROVE IInv'
  BY <1>2, WriteOK, EmitOK, EndedOK, CutOffOK
<1>3. CASE UNCHANGED vars
  BY <1>3 DEF vars, IInv, Shapes, Covered, Fresh, Pending, Awaited, Cards
<1> QED BY <1>1, <1>2, <1>3, PageOK, FetchOK, DeliverOK, AnnounceOK, ElsewhereOK DEF Next

LEMMA Inductive == Spec => []IInv
BY InitOK, StepOK, PTL DEF Spec

(* A board at rest shows what is stored, whatever moves overlapped, were taken back or
   answered late (board/page.tsx) and whatever events arrived meanwhile (use-socket.ts),
   unless nothing told the page of the last change. *)
THEOREM BoardsSettle == Spec => []BoardSettles
<1>1. IInv => BoardSettles
  BY DEF IInv, Covered, Fresh, Pending, Awaited, BoardSettles, AtRest, OnBoard
<1> QED BY <1>1, Inductive, PTL

-----------------------------------------------------------------------------
(* Types.  An entry shows one list at most, and an event announces one     *)
(* change: of those that have been made, some are being written, announced *)
(* or on their way (Counted).                                              *)

One(d, V) == d = {} \/ \E v \in V : d = {v}

Held(e, V) ==
    /\ e \in [data: SUBSET V, pc: {"idle", "sent", "read"}, got: SUBSET V, stale: BOOLEAN]
    /\ One(e.data, V) /\ One(e.got, V)

Asked(r) == r \in Request /\ One(r.prior, Shown)

Open == {s \in Slots : req[s].pc \in {"sent", "written"}}
Counted == IsFiniteSet(Open) /\ wire + telling + Cardinality(Open) <= ops

Scalars ==
    /\ room \in {"joining", "in", "out"} /\ missed \in BOOLEAN
    /\ ops \in 0..MaxOps /\ faults \in 0..MaxFaults

TInv == Held(list, Shown) /\ (\A s \in Slots : Asked(req[s])) /\ Counted /\ Scalars

LEMMA CardsShown == ASSUME stored \in [Tasks -> Row] PROVE One(Cards, Shown)
<1> DEFINE S == {u \in Tasks : stored[u].life = "live"}
           f == [t \in S |-> stored[t].col]
<1>1. f \in [S -> Columns] BY DEF Row
<1>2. S \in SUBSET Tasks OBVIOUS
<1>3. f \in Shown BY <1>1, <1>2 DEF Shown
<1> QED BY <1>3 DEF One, Cards

(* What the operations of the cache make of an entry is one. *)
LEMMA EntriesHeld ==
  ASSUME NEW V, NEW e, Held(e, V)
  PROVE  /\ Held(Fetching(e), V) /\ Held(Resting(e), V) /\ Held(Shows(e), V)
         /\ \A d : One(d, V) => Held(Reads(e, d), V) /\ Held([e EXCEPT !.data = d, !.stale = FALSE], V)
         /\ \A a \in BOOLEAN : Held(Invalidated(e, a), V)
<1>1. {} \in SUBSET V /\ One({}, V) BY DEF One
<1>2. Held(Fetching(e), V) /\ Held(Resting(e), V) BY <1>1 DEF Held, Fetching, Resting
<1>3. Held(Shows(e), V) BY <1>1 DEF Held, Shows, Resting
<1>4. ASSUME NEW d, One(d, V)
      PROVE  Held(Reads(e, d), V) /\ Held([e EXCEPT !.data = d, !.stale = FALSE], V)
  <2>1. d \in SUBSET V BY <1>4 DEF One
  <2> QED BY <1>4, <2>1 DEF Held, Reads
<1>5. ASSUME NEW a \in BOOLEAN PROVE Held(Invalidated(e, a), V)
  <2>1. Held([e EXCEPT !.stale = TRUE], V) BY DEF Held
  <2> QED BY <1>2, <2>1 DEF Invalidated
<1> QED BY <1>2, <1>3, <1>4, <1>5

LEMMA EntriesHold == ASSUME NEW V, NEW e, Held(e, V) PROVE e \in Entry(V)
<1>1. ASSUME NEW d, One(d, V) PROVE Cardinality(d) <= 1
  <2>1. CASE d = {} BY <2>1, FS_EmptySet
  <2>2. ASSUME NEW v, d = {v} PROVE Cardinality(d) <= 1
    <3>1. Cardinality(d) = 1 BY <2>2, FS_Singleton, Zenon
    <3> QED BY <3>1
  <2> QED BY <1>1, <2>1, <2>2 DEF One
<1> QED BY <1>1 DEF Held, Entry

(* The count                                                               *)
LEMMA OpenCounted ==
  ASSUME Counted
  PROVE  /\ IsFiniteSet(Open) /\ Cardinality(Open) \in Nat
         /\ wire + telling + Cardinality(Open) <= ops
BY FS_CardinalityType DEF Counted

LEMMA CountFewer ==
  ASSUME Counted, wire \in Nat, telling \in Nat, wire' \in Nat, telling' \in Nat, ops \in Nat,
         Open' \subseteq Open, UNCHANGED ops, wire' + telling' <= wire + telling
  PROVE  Counted'
<1>1. IsFiniteSet(Open') /\ Cardinality(Open') <= Cardinality(Open) /\ Cardinality(Open') \in Nat
  BY OpenCounted, FS_Subset, FS_CardinalityType
<1>2. Cardinality(Open) \in Nat /\ wire + telling + Cardinality(Open) <= ops BY OpenCounted
<1>3. PICK n \in Nat, m \in Nat, a \in Nat, b \in Nat :
        n = Cardinality(Open') /\ m = Cardinality(Open) /\ a = wire' /\ b = telling'
  BY <1>1, <1>2
<1>4. n <= m /\ wire + telling + m <= ops /\ a + b <= wire + telling BY <1>1, <1>2, <1>3
<1>5. a + b + n <= ops BY <1>4
<1>6. wire' + telling' + Cardinality(Open') <= ops' BY <1>3, <1>5
<1> QED BY <1>1, <1>6 DEF Counted

LEMMA CountTold ==
  ASSUME Counted, wire \in Nat, telling \in Nat, ops \in Nat, UNCHANGED wire,
         telling' \in {telling, telling + 1}, ops' = ops + 1, Open' \subseteq Open
  PROVE  Counted'
<1>1. IsFiniteSet(Open') /\ Cardinality(Open') <= Cardinality(Open) /\ Cardinality(Open') \in Nat
  BY OpenCounted, FS_Subset, FS_CardinalityType
<1>2. Cardinality(Open) \in Nat /\ wire + telling + Cardinality(Open) <= ops BY OpenCounted
<1>3. PICK n \in Nat, m \in Nat, a \in Nat, b \in Nat :
        n = Cardinality(Open') /\ m = Cardinality(Open) /\ a = telling' /\ b = telling
  BY <1>1, <1>2
<1>4. n <= m /\ wire + b + m <= ops /\ a <= b + 1 BY <1>1, <1>2, <1>3
<1>5. wire + a + n <= ops + 1 BY <1>4
<1>6. wire' + telling' + Cardinality(Open') <= ops' BY <1>3, <1>5
<1> QED BY <1>1, <1>6 DEF Counted

LEMMA CountSent ==
  ASSUME Counted, wire \in Nat, telling \in Nat, ops \in Nat, UNCHANGED <<wire, telling>>,
         ops' = ops + 1, NEW s, Open' \subseteq Open \cup {s}
  PROVE  Counted'
<1>1. IsFiniteSet(Open \cup {s}) BY OpenCounted, FS_AddElement
<1>2. Cardinality(Open \cup {s}) \in Nat /\ Cardinality(Open \cup {s}) <= Cardinality(Open) + 1
  <2>1. Cardinality(Open \cup {s}) = IF s \in Open THEN Cardinality(Open) ELSE Cardinality(Open) + 1
    BY OpenCounted, FS_AddElement, Zenon
  <2> QED BY <2>1, OpenCounted
<1>3. IsFiniteSet(Open') /\ Cardinality(Open') <= Cardinality(Open \cup {s}) /\ Cardinality(Open') \in Nat
  BY <1>1, FS_Subset, FS_CardinalityType
<1> QED BY <1>2, <1>3, OpenCounted DEF Counted

LEMMA CountEmitted ==
  ASSUME Counted, wire \in Nat, telling \in Nat, ops \in Nat, UNCHANGED <<telling, ops>>,
         wire' \in Nat, wire' <= wire + 1, NEW s \in Open, Open' \subseteq Open \ {s}
  PROVE  Counted'
<1>1. IsFiniteSet(Open \ {s}) /\ Cardinality(Open \ {s}) = Cardinality(Open) - 1
  BY OpenCounted, FS_RemoveElement
<1>2. IsFiniteSet(Open') /\ Cardinality(Open') <= Cardinality(Open \ {s}) /\ Cardinality(Open') \in Nat
  BY <1>1, FS_Subset, FS_CardinalityType
<1> QED BY <1>1, <1>2, OpenCounted DEF Counted

Spans == wire \in Nat /\ telling \in Nat /\ ops \in Nat

LEMMA Spanned == ASSUME IInv, TInv PROVE Spans
BY BoundAssumption DEF Spans, IInv, TInv, Scalars, BoundAssumption

(* Steps without a request                                                 *)
LEMMA OutType ==
  ASSUME IInv, TInv, Out, UNCHANGED <<list, req, ops>>, room' \in {"joining", "in", "out"},
         faults' \in 0..MaxFaults
  PROVE  TInv'
<1>1. wire' = 0 /\ telling' = telling /\ Spans BY Spanned DEF Out
<1>2. missed' \in BOOLEAN BY DEF Out
<1>3. Open' \subseteq Open BY DEF Open
<1>4. Counted' BY <1>1, <1>3, CountFewer DEF TInv, Spans
<1> QED BY <1>2, <1>4 DEF TInv, Scalars

LEMMA FaultType == ASSUME TInv, Fault PROVE faults' \in 0..MaxFaults
BY BoundAssumption DEF Fault, TInv, Scalars, BoundAssumption

(* Nothing but the entry and what is known of it changes. *)
LEMMA ListType ==
  ASSUME IInv, TInv, Held(list', Shown), UNCHANGED <<wire, telling, req, ops>>, missed' \in BOOLEAN,
         room' \in {"joining", "in", "out"}, faults' \in 0..MaxFaults
  PROVE  TInv'
<1>1. Open' \subseteq Open /\ Spans BY Spanned DEF Open
<1>2. Counted' BY <1>1, CountFewer DEF TInv, Spans
<1> QED BY <1>2 DEF TInv, Scalars

LEMMA PageType == ASSUME IInv, TInv, GoToBin \/ GoToBoard \/ Join \/ Drop PROVE TInv'
<1> USE DEF TInv, Scalars
<1>1. CASE GoToBin BY <1>1, OutType DEF GoToBin
<1>2. CASE GoToBoard
  <2>1. list' = list \/ list' = Fetching(list) BY <1>2 DEF GoToBoard, Mounted
  <2>2. Held(list', Shown) BY <2>1, EntriesHeld
  <2>3. room' \in {"joining", "in", "out"} /\ UNCHANGED <<wire, telling, req, ops, missed, faults>>
    BY <1>2 DEF GoToBoard
  <2> QED BY <2>2, <2>3, ListType
<1>3. CASE Join BY <1>3, ListType DEF Join
<1>4. CASE Drop
  <2>1. Out /\ UNCHANGED <<list, req, ops>> /\ room' = "out" /\ Fault BY <1>4 DEF Drop
  <2> QED BY <2>1, OutType, FaultType
<1> QED BY <1>1, <1>2, <1>3, <1>4

LEMMA FetchType == ASSUME IInv, TInv, Fetched \/ Answered \/ FetchFails PROVE TInv'
<1> USE DEF link
<1>1. Held(list, Shown) /\ room \in {"joining", "in", "out"} /\ missed \in BOOLEAN /\ faults \in 0..MaxFaults
  BY DEF TInv, Scalars
<1>2. CASE Fetched
  <2>1. list' = Reads(list, Cards) /\ missed' = FALSE /\ UNCHANGED <<room, wire, telling, req, ops, faults>>
    BY <1>2 DEF Fetched
  <2>2. One(Cards, Shown) BY CardsShown DEF IInv, Shapes
  <2>3. Held(list', Shown) BY <1>1, <2>1, <2>2, EntriesHeld
  <2> QED BY <1>1, <2>1, <2>3, ListType
<1>3. CASE Answered
  <2>1. Held(list', Shown) BY <1>1, <1>3, EntriesHeld DEF Answered
  <2> QED BY <1>1, <1>3, <2>1, ListType DEF Answered
<1>4. CASE FetchFails
  <2>1. Held(list', Shown) /\ Fault BY <1>1, <1>4, EntriesHeld DEF FetchFails
  <2> QED BY <1>1, <1>4, <2>1, FaultType, ListType DEF FetchFails
<1> QED BY <1>2, <1>3, <1>4

LEMMA InvalidateType == ASSUME TInv, Invalidate PROVE Held(list', Shown) /\ missed' \in BOOLEAN
<1>1. list' = Invalidated(list, OnBoard) /\ Held(list, Shown) /\ OnBoard \in BOOLEAN
  BY DEF Invalidate, TInv, OnBoard
<1>2. missed' \in BOOLEAN BY DEF Invalidate
<1> QED BY <1>1, <1>2, EntriesHeld

LEMMA DeliverType == ASSUME IInv, TInv, Deliver PROVE TInv'
<1>1. Held(list', Shown) /\ missed' \in BOOLEAN BY InvalidateType DEF Deliver
<1>2. wire > 0 /\ wire' = wire - 1 /\ UNCHANGED <<room, telling, req, ops, faults>> BY DEF Deliver
<1>3. Open' \subseteq Open /\ Spans BY <1>2, Spanned DEF Open
<1>4. wire' \in Nat /\ wire' <= wire BY <1>2, <1>3 DEF Spans
<1>5. Counted' BY <1>2, <1>3, <1>4, CountFewer DEF TInv, Spans
<1> QED BY <1>1, <1>2, <1>5 DEF TInv, Scalars

LEMMA EmittedType ==
  ASSUME wire \in Nat, NEW quiet, Emitted(quiet)
  PROVE  wire' \in Nat /\ wire' <= wire + 1 /\ missed' \in BOOLEAN
<1>1. wire' \in Nat /\ wire' <= wire + 1 BY DEF Emitted
<1>2. missed' \in BOOLEAN BY Zenon DEF Emitted
<1> QED BY <1>1, <1>2

LEMMA AnnounceType == ASSUME IInv, TInv, Announce PROVE TInv'
<1>1. Emitted(FALSE) /\ telling > 0 /\ telling' = telling - 1 /\ UNCHANGED <<room, list, req, ops, faults>>
  BY DEF Announce
<1>2. Open' \subseteq Open /\ Spans BY <1>1, Spanned DEF Open
<1>3. wire' \in Nat /\ wire' <= wire + 1 /\ missed' \in BOOLEAN BY <1>1, <1>2, EmittedType DEF Spans
<1>4. wire \in Nat /\ telling \in Nat /\ ops \in Nat /\ wire' \in Nat BY <1>2, <1>3 DEF Spans
<1>5. telling' \in Nat /\ wire' + telling' <= wire + telling
  <2>1. PICK a \in Nat, b \in Nat, c \in Nat : a = wire /\ b = telling /\ c = wire' BY <1>4
  <2>2. b > 0 /\ telling' = b - 1 /\ c <= a + 1 BY <1>1, <1>3, <2>1
  <2>3. b - 1 \in Nat /\ c + (b - 1) <= a + b BY <2>2
  <2> QED BY <2>1, <2>2, <2>3
<1>6. Counted' BY <1>1, <1>2, <1>4, <1>5, CountFewer DEF TInv
<1> QED BY <1>1, <1>3, <1>6 DEF TInv, Scalars

LEMMA OpType == ASSUME TInv, Op PROVE ops' = ops + 1 /\ ops' \in 0..MaxOps
BY BoundAssumption DEF Op, TInv, Scalars, BoundAssumption

LEMMA ElsewhereType ==
  ASSUME IInv, TInv, NEW t \in Tasks, Elsewhere(t) \/ PlanAccepted(t)
  PROVE  TInv'
<1> USE DEF link
<1>1. Op /\ UNCHANGED <<room, wire, list, req, faults>> BY DEF Elsewhere, PlanAccepted
<1>2. missed' \in BOOLEAN /\ telling' \in {telling, telling + 1}
  BY DEF Elsewhere, PlanAccepted, TInv, Scalars
<1>3. Open' \subseteq Open /\ Spans BY <1>1, Spanned DEF Open
<1>4. ops' = ops + 1 /\ ops' \in 0..MaxOps BY <1>1, OpType
<1>5. Counted' BY <1>1, <1>2, <1>3, <1>4, CountTold DEF TInv, Spans
<1> QED BY <1>1, <1>2, <1>4, <1>5 DEF TInv, Scalars

(* Requests                                                                *)
LEMMA SendType ==
  ASSUME IInv, TInv, NEW s \in Slots, NEW op \in Refetching \cup {"comment", "purge"},
         NEW t \in Tasks, NEW to \in SUBSET Columns, Send(s, op, t, to), Held(list', Shown)
  PROVE  TInv'
<1>1. Op /\ UNCHANGED <<room, wire, telling, missed, faults>> BY DEF Send, link
<1>2. PICK p : p = IF op = "drag" THEN list.data ELSE {} OBVIOUS
<1>3. PICK r : r = [pc |-> "sent", op |-> op, task |-> {t}, to |-> to, prior |-> p] OBVIOUS
<1>4. One(p, Shown) /\ p \in SUBSET Shown
  <2>1. One({}, Shown) /\ One(list.data, Shown) /\ list.data \in SUBSET Shown BY DEF One, TInv, Held
  <2> QED BY <1>2, <2>1
<1>5. Asked(r) BY <1>3, <1>4 DEF Asked, Request
<1>6. req' = [req EXCEPT ![s] = r] BY <1>2, <1>3 DEF Send
<1>7. \A u \in Slots : req'[u] = IF u = s THEN r ELSE req[u] BY <1>6 DEF IInv, Shapes
<1>8. \A u \in Slots : Asked(req'[u]) BY <1>5, <1>7 DEF TInv
<1>9. Open' \subseteq Open \cup {s} BY <1>7 DEF Open
<1>10. ops' = ops + 1 /\ ops' \in 0..MaxOps /\ Spans BY <1>1, OpType, Spanned
<1>11. Counted' BY <1>1, <1>9, <1>10, CountSent DEF TInv, Spans
<1> QED BY <1>1, <1>8, <1>10, <1>11 DEF TInv, Scalars

LEMMA UserType ==
  ASSUME IInv, TInv, NEW s \in Slots, NEW t \in Tasks,
         \/ \E c \in Columns : DragEnd(s, t, c) \/ AddCard(s, t, c)
         \/ DetailButtons(s, t) \/ BinButtons(s, t)
  PROVE  TInv'
<1>1. Held(list, Shown) BY DEF TInv
<1>2. {"drag", "create", "status", "comment", "delete", "restore", "purge"}
      \subseteq Refetching \cup {"comment", "purge"}
  BY DEF Refetching
<1>3. ASSUME NEW c \in Columns, DragEnd(s, t, c) PROVE TInv'
  <2>1. PICK cards \in list.data :
          t \in DOMAIN cards /\ list' = Put(Resting(list), [cards EXCEPT ![t] = c])
    BY <1>3 DEF DragEnd
  <2>2. PICK v : v = [cards EXCEPT ![t] = c] OBVIOUS
  <2>3. cards \in Shown BY <2>1 DEF TInv, Held
  <2>4. PICK S \in SUBSET Tasks : cards \in [S -> Columns] BY <2>3 DEF Shown
  <2>5. v \in [S -> Columns] BY <2>1, <2>2, <2>4
  <2>6. One({v}, Shown) BY <2>5 DEF One, Shown
  <2>7. list' = [Resting(list) EXCEPT !.data = {v}, !.stale = FALSE] BY <2>1, <2>2 DEF Put
  <2>8. Held(Resting(list), Shown) BY <1>1, EntriesHeld
  <2>9. Held(list', Shown) BY <2>6, <2>7, <2>8, EntriesHeld
  <2>10. Send(s, "drag", t, {c}) /\ {c} \in SUBSET Columns BY <1>3 DEF DragEnd
  <2> QED BY <1>2, <2>9, <2>10, SendType
<1>4. ASSUME NEW op \in {"create", "status", "comment", "delete", "restore", "purge"},
             NEW to \in SUBSET Columns, Send(s, op, t, to), UNCHANGED list
      PROVE  TInv'
  BY <1>1, <1>2, <1>4, SendType
<1>5. ASSUME NEW c \in Columns, AddCard(s, t, c) PROVE TInv'
  BY <1>4, <1>5 DEF AddCard
<1>6. CASE DetailButtons(s, t)
  <2>1. UNCHANGED list BY <1>6 DEF DetailButtons
  <2>2. ASSUME NEW c \in Columns, Send(s, "status", t, {c}) PROVE TInv' BY <1>4, <2>1, <2>2
  <2>3. ASSUME NEW op \in {"comment", "delete"}, Send(s, op, t, {}) PROVE TInv' BY <1>4, <2>1, <2>3
  <2> QED BY <1>6, <2>2, <2>3 DEF DetailButtons
<1>7. CASE BinButtons(s, t)
  BY <1>4, <1>7 DEF BinButtons
<1> QED BY <1>3, <1>5, <1>6, <1>7

(* A request of whose row only the place changes. *)
LEMMA MoveType ==
  ASSUME IInv, TInv, NEW s \in Slots, NEW l \in {"written", "done", "failed"},
         req' = [req EXCEPT ![s].pc = l]
  PROVE  /\ \A u \in Slots : Asked(req'[u])
         /\ Open' \subseteq Open \cup {s} /\ (l # "written" => Open' \subseteq Open \ {s})
<1>1. \A u \in Slots : req'[u] = IF u = s THEN [req[s] EXCEPT !.pc = l] ELSE req[u]
  BY DEF IInv, Shapes
<1>2. PICK r : r = req[s] OBVIOUS
<1>3. Asked(r) BY <1>2 DEF TInv
<1>4. Asked([r EXCEPT !.pc = l]) /\ [r EXCEPT !.pc = l].pc = l BY <1>3 DEF Asked, Request
<1>5. \A u \in Slots : Asked(req'[u]) BY <1>1, <1>2, <1>4 DEF TInv
<1>6. \A u \in Slots \ {s} : req'[u].pc = req[u].pc BY <1>1
<1>7. req'[s].pc = l BY <1>1, <1>2, <1>4
<1> QED BY <1>5, <1>6, <1>7 DEF Open

LEMMA ApiType == ASSUME IInv, TInv, NEW s \in Slots, Write(s) \/ Emit(s) \/ CutOff(s) PROVE TInv'
<1> USE DEF link
<1>1. Spans BY Spanned
<1>2. CASE Write(s)
  <2>1. req[s].pc = "sent" /\ UNCHANGED <<room, wire, telling, list, missed, ops, faults>> BY <1>2 DEF Write
  <2>2. PICK l \in {"written", "done", "failed"} : req' = [req EXCEPT ![s].pc = l] BY <1>2 DEF Write
  <2>3. s \in Open BY <2>1 DEF Open
  <2>4. (\A u \in Slots : Asked(req'[u])) /\ Open' \subseteq Open BY <2>2, <2>3, MoveType
  <2>5. Counted' BY <1>1, <2>1, <2>4, CountFewer DEF TInv, Spans
  <2> QED BY <2>1, <2>4, <2>5 DEF TInv, Scalars
<1>3. CASE Emit(s)
  <2>1. /\ req[s].pc = "written" /\ req' = [req EXCEPT ![s].pc = "done"]
        /\ UNCHANGED <<room, telling, list, ops, faults>>
    BY <1>3 DEF Emit
  <2>2. wire' \in Nat /\ wire' <= wire + 1 /\ missed' \in BOOLEAN
    <3>1. Emitted(req[s].op \in Refetching \cup {"comment"}) BY <1>3 DEF Emit
    <3> QED BY <1>1, <3>1, EmittedType DEF Spans
  <2>3. s \in Open BY <2>1 DEF Open
  <2>4. (\A u \in Slots : Asked(req'[u])) /\ Open' \subseteq Open \ {s} BY <2>1, MoveType
  <2>5. Counted' BY <1>1, <2>1, <2>2, <2>3, <2>4, CountEmitted DEF TInv, Spans
  <2> QED BY <2>1, <2>2, <2>4, <2>5 DEF TInv, Scalars
<1>4. CASE CutOff(s)
  <2>1. req' = [req EXCEPT ![s].pc = "failed"] /\ UNCHANGED <<room, wire, telling, list, ops>> /\ Fault
    BY <1>4 DEF CutOff
  <2>2. missed' \in BOOLEAN BY <1>4 DEF CutOff
  <2>3. (\A u \in Slots : Asked(req'[u])) /\ Open' \subseteq Open BY <2>1, MoveType
  <2>4. Counted' BY <1>1, <2>1, <2>3, CountFewer DEF TInv, Spans
  <2> QED BY <2>1, <2>2, <2>3, <2>4, FaultType DEF TInv, Scalars
<1> QED BY <1>2, <1>3, <1>4

LEMMA EndedType == ASSUME IInv, TInv, NEW s \in Slots, Ended(s) PROVE TInv'
<1>1. req' = [req EXCEPT ![s] = Quiet] /\ UNCHANGED <<room, wire, telling, ops, faults>>
  BY DEF Ended, link
<1>2. \A u \in Slots : req'[u] = IF u = s THEN Quiet ELSE req[u] BY <1>1 DEF IInv, Shapes
<1>3. Asked(Quiet) /\ Quiet.pc = "idle" BY DEF Quiet, Asked, Request, One
<1>4. \A u \in Slots : Asked(req'[u]) BY <1>2, <1>3 DEF TInv
<1>5. Open' \subseteq Open BY <1>2, <1>3 DEF Open
<1>6. Spans BY Spanned
<1>7. Counted' BY <1>1, <1>5, <1>6, CountFewer DEF TInv, Spans
<1>8. Held(list', Shown) /\ missed' \in BOOLEAN
  <2>1. CASE req[s].op = "drag" /\ req[s].pc = "failed"
    <3>1. PICK d : d = req[s].prior OBVIOUS
    <3>2. One(d, Shown) /\ Held(list, Shown) BY <3>1 DEF TInv, Asked
    <3>3. Held([list EXCEPT !.data = d, !.stale = FALSE], Shown) BY <3>2, EntriesHeld
    <3>4. list' = Invalidated([list EXCEPT !.data = d, !.stale = FALSE], OnBoard)
      BY <2>1, <3>1 DEF Ended
    <3>5. Held(list', Shown)
      <4>1. OnBoard \in BOOLEAN BY DEF OnBoard
      <4> QED BY <3>3, <3>4, <4>1, EntriesHeld
    <3>6. missed' \in BOOLEAN BY <2>1 DEF Ended
    <3> QED BY <3>5, <3>6
  <2>2. CASE Invalidate BY <2>2, InvalidateType
  <2>3. CASE UNCHANGED <<list, missed>> BY <2>3 DEF TInv, Scalars
  <2> QED BY <2>1, <2>2, <2>3 DEF Ended
<1> QED BY <1>1, <1>4, <1>7, <1>8 DEF TInv, Scalars

-----------------------------------------------------------------------------
LEMMA TypeInit == Init => TInv
<1> SUFFICES ASSUME Init PROVE TInv OBVIOUS
<1>1. Held(list, Shown) BY DEF Init, Fetching, Unread, Held, One
<1>2. \A s \in Slots : Asked(req[s]) BY DEF Init, Quiet, Asked, Request, One
<1>3. Counted
  <2>1. Open = {} BY DEF Init, Open, Quiet
  <2> QED BY <2>1, FS_EmptySet DEF Init, Counted
<1>4. missed \in BOOLEAN BY Zenon DEF Init
<1>5. Scalars
  <2>1. ops = 0 /\ faults = 0 /\ room = "joining" BY DEF Init
  <2>2. ops \in 0..MaxOps /\ faults \in 0..MaxFaults BY <2>1, BoundAssumption DEF BoundAssumption
  <2> QED BY <1>4, <2>1, <2>2 DEF Scalars
<1> QED BY <1>1, <1>2, <1>3, <1>5 DEF TInv

LEMMA TypeStep == IInv /\ TInv /\ [Next]_vars => TInv'
<1> SUFFICES ASSUME IInv, TInv, [Next]_vars PROVE TInv' OBVIOUS
<1>1. ASSUME NEW s \in Slots, NEW t \in Tasks,
             \/ \E c \in Columns : DragEnd(s, t, c) \/ AddCard(s, t, c)
             \/ DetailButtons(s, t) \/ BinButtons(s, t)
      PROVE  TInv'
  BY <1>1, UserType
<1>2. ASSUME NEW s \in Slots, Write(s) \/ Emit(s) \/ Ended(s) \/ CutOff(s) PROVE TInv'
  BY <1>2, ApiType, EndedType
<1>3. CASE UNCHANGED vars BY <1>3 DEF vars, TInv, Scalars, Counted, Open
<1> QED BY <1>1, <1>2, <1>3, PageType, FetchType, DeliverType, AnnounceType, ElsewhereType DEF Next

(* Every change of the board is announced at most once to the page, so that no more events are
   on their way, or still to be emitted, than there were changes (kanban.gateway.ts); and the
   query cache, whatever moves are put into it and taken back, never holds more than one list
   of cards of tasks and columns of the project (board/page.tsx). *)
THEOREM Types == Spec => []TypeOK
<1>1. IInv /\ TInv => TypeOK
  <2> SUFFICES ASSUME IInv, TInv PROVE TypeOK OBVIOUS
  <2>1. list \in Entry(Shown) BY EntriesHold DEF TInv
  <2>2. req \in [Slots -> Request] BY DEF TInv, Asked, IInv, Shapes
  <2>3. wire \in 0..MaxOps /\ telling \in 0..MaxOps
    BY Spanned, OpenCounted, BoundAssumption DEF TInv, Spans, Scalars, BoundAssumption
  <2> QED BY <2>1, <2>2, <2>3 DEF TypeOK, TInv, Scalars, IInv, Shapes
<1> QED BY <1>1, Inductive, TypeInit, TypeStep, PTL DEF Spec

-----------------------------------------------------------------------------
(* The task opened over the board (module TaskPanel).                      *)

CONSTANTS Updates, MaxTexts
VARIABLES row, live, running, open, task, runs, typed, text, dirty, raced

Panel == INSTANCE TaskPanel

(* Its entries are of the same cache. *)
LEMMA OneCache ==
  ASSUME NEW e
  PROVE  /\ Panel!Fetching(e) = Fetching(e) /\ Panel!Resting(e) = Resting(e)
         /\ Panel!Shows(e) = Shows(e) /\ Panel!Unread = Unread /\ Panel!Mounted(e) = Mounted(e)
         /\ \A a : Panel!Reads(e, a) = Reads(e, a) /\ Panel!Invalidated(e, a) = Invalidated(e, a)
         /\ \A a : Panel!TooLate(e, a) = TooLate(e, a)
BY DEF Panel!Fetching, Fetching, Panel!Resting, Resting, Panel!Shows, Shows, Panel!Unread, Unread,
       Panel!Mounted, Mounted, Panel!Reads, Reads, Panel!Invalidated, Invalidated, Panel!TooLate, TooLate

LEMMA SameEntries == ASSUME NEW V, NEW e \in Entry(V) PROVE e \in Panel!Entry(V)
<1>1. Panel!Cardinality(e.data) = Cardinality(e.data) /\ Panel!Cardinality(e.got) = Cardinality(e.got)
  BY DEF Panel!Cardinality, Cardinality
<1>2. e.data \in {d \in SUBSET V : Cardinality(d) <= 1} /\ e.got \in {g \in SUBSET V : Cardinality(g) <= 1}
  BY DEF Entry
<1>3. /\ e.data \in {d \in SUBSET V : Panel!Cardinality(d) <= 1}
      /\ e.got \in {g \in SUBSET V : Panel!Cardinality(g) <= 1}
  BY <1>1, <1>2
<1>4. e = [data |-> e.data, pc |-> e.pc, got |-> e.got, stale |-> e.stale]
      /\ e.pc \in {"idle", "sent", "read"} /\ e.stale \in BOOLEAN
  BY DEF Entry
<1> QED BY <1>3, <1>4 DEF Panel!Entry

(* Texts there have been so far. *)
Known == 0..(MaxTexts + ops)
Rows == [rev: 0..MaxOps, desc: Known]
Asks == [pc: {"idle", "sent", "written", "done", "failed"}, of: Known, here: BOOLEAN]

BoundsOK == /\ Panel!UpdatesAssumption /\ Panel!BoundAssumption
            /\ ops \in 0..MaxOps /\ faults \in 0..MaxFaults
StoreOK == row \in Rows /\ live \in BOOLEAN /\ running \in BOOLEAN
FieldOK == /\ typed \in 0..MaxTexts /\ text \in Known
           /\ dirty \in BOOLEAN /\ raced \in BOOLEAN /\ open \in BOOLEAN
CacheOK == Held(task, Rows) /\ Held(runs, BOOLEAN) /\ missed \subseteq Panel!Queries
AskedOK == req \in [Panel!Kinds -> Asks]
PTypes == BoundsOK /\ StoreOK /\ FieldOK /\ CacheOK /\ AskedOK

LEMMA HeldGrows == ASSUME NEW V, NEW W, V \subseteq W, NEW e, Held(e, V) PROVE Held(e, W)
<1>1. One(e.data, W) /\ One(e.got, W) BY DEF Held, One
<1>2. e \in [data: SUBSET W, pc: {"idle", "sent", "read"}, got: SUBSET W, stale: BOOLEAN]
  BY DEF Held
<1> QED BY <1>1, <1>2 DEF Held

(* No step takes a text back. *)
Steady == ops' \in Nat /\ ops <= ops'

LEMMA Grow ==
  ASSUME PTypes, Steady
  PROVE  /\ Known \subseteq Known' /\ Rows \subseteq Rows' /\ Asks \subseteq Asks'
         /\ \A e : Held(e, Rows) => Held(e, Rows')
<1>1. Known \subseteq Known'
  <2>1. PICK a \in Nat, b \in Nat, m \in Nat : a = ops /\ b = ops' /\ m = MaxTexts
    BY DEF PTypes, BoundsOK, Panel!BoundAssumption, Steady
  <2>2. a <= b BY <2>1 DEF Steady
  <2>3. ASSUME NEW x \in 0..(m + a) PROVE x \in 0..(m + b)
    <3>1. a \in Nat /\ b \in Nat /\ m \in Nat /\ a <= b BY <2>2
    <3> QED BY <3>1
  <2> QED BY <2>1, <2>3 DEF Known
<1>2. Rows \subseteq Rows' BY <1>1 DEF Rows
<1>3. Asks \subseteq Asks' BY <1>1 DEF Asks
<1> QED BY <1>1, <1>2, <1>3, HeldGrows

(* What a step leaves alone keeps its type. *)
LEMMA Keeps ==
  ASSUME PTypes, Steady
  PROVE  /\ UNCHANGED <<row, live, running>> => StoreOK'
         /\ UNCHANGED <<typed, text, dirty, raced, open>> => FieldOK'
         /\ UNCHANGED <<task, runs, missed>> => CacheOK'
         /\ UNCHANGED req => AskedOK'
<1> USE Grow DEF PTypes
<1>1. UNCHANGED <<row, live, running>> => StoreOK' BY DEF StoreOK
<1>2. UNCHANGED <<typed, text, dirty, raced, open>> => FieldOK' BY DEF FieldOK
<1>3. UNCHANGED <<task, runs, missed>> => CacheOK' BY DEF CacheOK
<1>4. UNCHANGED req => AskedOK' BY DEF AskedOK
<1> QED BY <1>1, <1>2, <1>3, <1>4

LEMMA Counters ==
  ASSUME PTypes,
         \/ Panel!NoOp
         \/ Panel!Op /\ faults' = faults
         \/ Panel!Fault /\ ops' = ops
  PROVE  BoundsOK' /\ Steady
<1> USE DEF PTypes, BoundsOK, Panel!BoundAssumption, Steady
<1>1. CASE Panel!NoOp BY <1>1 DEF Panel!NoOp
<1>2. CASE Panel!Op /\ faults' = faults BY <1>2 DEF Panel!Op
<1>3. CASE Panel!Fault /\ ops' = ops BY <1>3 DEF Panel!Fault
<1> QED BY <1>1, <1>2, <1>3

LEMMA PanelFetchType ==
  ASSUME PTypes, NEW q \in Panel!Queries, Panel!Fetch(q) \/ Panel!FetchFails(q)
  PROVE  PTypes'
<1> USE DEF Panel!store, Panel!field
<1>1. BoundsOK' /\ Steady BY Counters DEF Panel!Fetch, Panel!FetchFails
<1>2. UNCHANGED <<row, live, running, typed, dirty, raced, open, req>>
  BY DEF Panel!Fetch, Panel!FetchFails
<1>3. StoreOK' /\ AskedOK' BY <1>1, <1>2, Keeps
<1>4. Held(task, Rows) /\ Held(runs, BOOLEAN) BY DEF PTypes, CacheOK
<1>5. One(Panel!Found, Rows) /\ One({running}, BOOLEAN)
  BY DEF One, Panel!Found, PTypes, StoreOK
<1>6. Held(task', Rows)
  <2>1. task' \in {task, Shows(task), Resting(task), Reads(task, Panel!Found)}
    BY OneCache DEF Panel!Fetch, Panel!FetchFails, Panel!FetchTask
  <2> QED BY <1>4, <1>5, <2>1, EntriesHeld
<1>7. Held(runs', BOOLEAN)
  <2>1. runs' \in {runs, Shows(runs), Resting(runs), Reads(runs, {running})}
    BY OneCache DEF Panel!Fetch, Panel!FetchFails, Panel!FetchRuns
  <2> QED BY <1>4, <1>5, <2>1, EntriesHeld
<1>8. missed' \subseteq Panel!Queries
  BY DEF PTypes, CacheOK, Panel!Queries, Panel!Fetch, Panel!FetchFails, Panel!FetchTask, Panel!FetchRuns
<1>9. CacheOK' BY <1>1, <1>6, <1>7, <1>8, Grow DEF CacheOK
<1>10. text' \in Known
  <2>1. text' = text \/ Panel!Seen(task.got)
    BY DEF Panel!Fetch, Panel!FetchFails, Panel!FetchTask
  <2>2. CASE Panel!Seen(task.got)
    <3>1. CASE \E v \in task.got : \A w \in task.data : v.desc # w.desc
      <4>1. PICK v : v = CHOOSE w \in task.got : TRUE OBVIOUS
      <4>2. v \in task.got BY <3>1, <4>1
      <4>3. v \in Rows BY <1>4, <4>2 DEF Held
      <4>4. text' \in {v.desc, text} BY <2>2, <4>1 DEF Panel!Seen
      <4> QED BY <4>3, <4>4 DEF Rows, PTypes, FieldOK
    <3>2. CASE ~(\E v \in task.got : \A w \in task.data : v.desc # w.desc)
      BY <2>2, <3>2 DEF Panel!Seen, PTypes, FieldOK
    <3> QED BY <3>1, <3>2
  <2> QED BY <2>1, <2>2 DEF PTypes, FieldOK
<1>11. FieldOK' BY <1>1, <1>2, <1>10, Grow DEF PTypes, FieldOK
<1> QED BY <1>1, <1>3, <1>9, <1>11 DEF PTypes

LEMMA VisitType ==
  ASSUME PTypes, Panel!OpenTask \/ Panel!CloseTask \/ Panel!Poll
  PROVE  PTypes'
<1> USE DEF Panel!store, Panel!field
<1>1. BoundsOK' /\ Steady BY Counters DEF Panel!OpenTask, Panel!CloseTask, Panel!Poll
<1>2. StoreOK' BY <1>1, Keeps DEF Panel!OpenTask, Panel!CloseTask, Panel!Poll
<1>3. Held(task, Rows) /\ Held(runs, BOOLEAN) BY DEF PTypes, CacheOK
<1>4. CacheOK'
  <2>1. task' \in {task, Fetching(task)} /\ runs' \in {runs, Fetching(runs)} /\ missed' = missed
    <3>1. \A e : Panel!Mounted(e) \subseteq {e, Fetching(e)} BY OneCache DEF Mounted
    <3>2. CASE Panel!OpenTask BY <3>1, <3>2 DEF Panel!OpenTask
    <3>3. CASE Panel!CloseTask BY <3>3 DEF Panel!CloseTask
    <3>4. CASE Panel!Poll BY <3>4, OneCache DEF Panel!Poll
    <3> QED BY <3>2, <3>3, <3>4
  <2>2. Held(task', Rows) BY <1>3, <2>1, EntriesHeld
  <2>3. Held(runs', BOOLEAN) BY <1>3, <2>1, EntriesHeld
  <2> QED BY <1>1, <2>1, <2>2, <2>3, Grow DEF PTypes, CacheOK
<1>5. FieldOK'
  <2>1. CASE Panel!OpenTask
    <3>1. text' \in Known
      <4>1. 0 \in Known BY DEF Known, PTypes, BoundsOK, Panel!BoundAssumption
      <4>2. \A v \in task.data : v.desc \in Known BY <1>3 DEF Held, Rows
      <4> QED BY <2>1, <4>1, <4>2 DEF Panel!OpenTask
    <3>2. open' = TRUE /\ dirty' = FALSE /\ UNCHANGED <<typed, raced>> BY <2>1 DEF Panel!OpenTask
    <3> QED BY <1>1, <3>1, <3>2, Grow DEF PTypes, FieldOK
  <2>2. CASE Panel!CloseTask
    <3>1. open' = FALSE /\ UNCHANGED <<typed, text, dirty, raced>> BY <2>2 DEF Panel!CloseTask
    <3> QED BY <1>1, <3>1, Grow DEF PTypes, FieldOK
  <2>3. CASE Panel!Poll BY <1>1, <2>3, Keeps DEF Panel!Poll
  <2> QED BY <2>1, <2>2, <2>3
<1>6. AskedOK'
  <2>1. CASE Panel!CloseTask
    <3>1. \A k \in Panel!Kinds : [req[k] EXCEPT !.here = FALSE] \in Asks BY DEF PTypes, AskedOK, Asks
    <3>2. req' \in [Panel!Kinds -> Asks] BY <2>1, <3>1 DEF Panel!CloseTask
    <3> QED BY <1>1, <3>2, Grow DEF AskedOK
  <2>2. CASE ~Panel!CloseTask BY <1>1, <2>2, Keeps DEF Panel!OpenTask, Panel!Poll
  <2> QED BY <2>1, <2>2
<1> QED BY <1>1, <1>2, <1>4, <1>5, <1>6 DEF PTypes

LEMMA TypingType == ASSUME PTypes, Panel!Type \/ Panel!Cancel PROVE PTypes'
<1> USE DEF Panel!store, Panel!field
<1>1. BoundsOK' /\ Steady BY Counters DEF Panel!Type, Panel!Cancel
<1>2. StoreOK' /\ CacheOK' /\ AskedOK' BY <1>1, Keeps DEF Panel!Type, Panel!Cancel
<1>3. CASE Panel!Type
  <2>1. typed \in 0..MaxTexts /\ typed < MaxTexts /\ typed' = typed + 1 /\ text' = typed + 1
    BY <1>3 DEF Panel!Type, PTypes, FieldOK
  <2>2. MaxTexts \in Nat /\ ops \in Nat BY DEF PTypes, BoundsOK, Panel!BoundAssumption
  <2>3. typed' \in 0..MaxTexts /\ text' \in Known BY <2>1, <2>2 DEF Known
  <2>4. raced' \in BOOLEAN BY <1>3 DEF Panel!Type
  <2>5. dirty' = TRUE /\ open' = open BY <1>3 DEF Panel!Type
  <2> QED BY <1>1, <1>2, <2>3, <2>4, <2>5, Grow DEF PTypes, FieldOK
<1>4. CASE Panel!Cancel
  <2>1. \A v \in task.data : v.desc \in Known BY DEF PTypes, CacheOK, Held, Rows
  <2>2. text' \in Known /\ dirty' = FALSE /\ UNCHANGED <<typed, raced, open>>
    BY <1>4, <2>1 DEF Panel!Cancel
  <2> QED BY <1>1, <1>2, <2>2, Grow DEF PTypes, FieldOK
<1> QED BY <1>3, <1>4

LEMMA AskType == ASSUME PTypes, NEW k \in Panel!Kinds, Panel!Button(k) PROVE PTypes'
<1> USE DEF Panel!store, Panel!field
<1>1. BoundsOK' /\ Steady BY Counters DEF Panel!Button
<1>2. StoreOK' /\ CacheOK' /\ FieldOK' BY <1>1, Keeps DEF Panel!Button
<1>3. PICK r : r = IF k = "describe" THEN [pc |-> "sent", of |-> text, here |-> TRUE]
                   ELSE [Panel!Quiet EXCEPT !.pc = "sent"]
  OBVIOUS
<1>4. r \in Asks
  <2>1. text \in Known /\ 0 \in Known
    BY DEF PTypes, FieldOK, Known, BoundsOK, Panel!BoundAssumption
  <2> QED BY <1>3, <2>1 DEF Asks, Panel!Quiet
<1>5. req' = [req EXCEPT ![k] = r] BY <1>3 DEF Panel!Button
<1>6. req' \in [Panel!Kinds -> Asks] BY <1>4, <1>5 DEF PTypes, AskedOK
<1> QED BY <1>1, <1>2, <1>6, Grow DEF PTypes, AskedOK

LEMMA OverType ==
  ASSUME PTypes, NEW k \in Panel!Kinds, Panel!Ended(k)
  PROVE  PTypes'
<1> USE DEF Panel!store, Panel!field
<1>1. Panel!Over(k) BY DEF Panel!Ended
<1>2. BoundsOK' /\ Steady BY <1>1, Counters DEF Panel!Over
<1>3. StoreOK' BY <1>1, <1>2, Keeps DEF Panel!Over
<1>4. FieldOK'
  <2>1. UNCHANGED <<typed, text, raced>> BY <1>1 DEF Panel!Over
  <2>2. dirty' \in BOOLEAN BY <1>1 DEF Panel!Over
  <2>3. open' \in BOOLEAN BY <1>1 DEF Panel!Over, PTypes, FieldOK
  <2> QED BY <1>2, <2>1, <2>2, <2>3, Grow DEF PTypes, FieldOK
<1>5. AskedOK'
  <2>1. Panel!Quiet \in Asks BY DEF Asks, Panel!Quiet, Known, PTypes, BoundsOK, Panel!BoundAssumption
  <2>2. \A l \in Panel!Kinds : [req[l] EXCEPT !.here = FALSE] \in Asks BY DEF PTypes, AskedOK, Asks
  <2>3. \/ req' = [l \in Panel!Kinds |-> IF l = k THEN Panel!Quiet ELSE [req[l] EXCEPT !.here = FALSE]]
        \/ req' = [req EXCEPT ![k] = Panel!Quiet]
    BY <1>1 DEF Panel!Over
  <2>4. req' \in [Panel!Kinds -> Asks] BY <2>1, <2>2, <2>3 DEF PTypes, AskedOK
  <2> QED BY <1>2, <2>4, Grow DEF AskedOK
<1>6. CacheOK'
  <2>1. task' \in {task, Invalidated(task, open)} /\ runs' \in {runs, Invalidated(runs, open)}
    BY OneCache DEF Panel!Ended
  <2>2. open \in BOOLEAN /\ Held(task, Rows) /\ Held(runs, BOOLEAN) BY DEF PTypes, FieldOK, CacheOK
  <2>3. Held(task', Rows) BY <2>1, <2>2, EntriesHeld
  <2>4. Held(runs', BOOLEAN) BY <2>1, <2>2, EntriesHeld
  <2>5. missed' \subseteq Panel!Queries
    <3>1. PICK won : /\ won = IF req[k].pc = "done" THEN Panel!Refetched(k) ELSE {}
                     /\ missed' = missed \cup {q \in won : Panel!TooLate(IF q = "task" THEN task ELSE runs, open)}
      BY DEF Panel!Ended
    <3>2. Panel!Refetched(k) \subseteq Panel!Queries BY DEF Panel!Refetched, Panel!Queries, Panel!Kinds
    <3> QED BY <3>1, <3>2 DEF PTypes, CacheOK
  <2> QED BY <1>2, <2>3, <2>4, <2>5, Grow DEF CacheOK
<1> QED BY <1>2, <1>3, <1>4, <1>5, <1>6 DEF PTypes

(* The API and what happens elsewhere                                      *)
LEMMA MissType ==
  ASSUME PTypes, NEW told \in SUBSET Panel!Queries, Panel!Miss(told)
  PROVE  missed' \subseteq Panel!Queries
BY DEF Panel!Miss, PTypes, CacheOK, Panel!Queries

LEMMA BumpType == ASSUME PTypes, Panel!Bump PROVE row' \in Rows /\ row'.desc = row.desc
<1>1. PICK r \in Rows : r = row BY DEF PTypes, StoreOK
<1>2. PICK m \in Nat : m = MaxOps BY DEF PTypes, BoundsOK, Panel!BoundAssumption
<1>3. row' = [r EXCEPT !.rev = IF @ < m THEN @ + 1 ELSE @] BY <1>1, <1>2 DEF Panel!Bump
<1>4. r.rev \in 0..m BY <1>1, <1>2 DEF Rows
<1>5. PICK n : n = IF r.rev < m THEN r.rev + 1 ELSE r.rev OBVIOUS
<1>6. n \in 0..m BY <1>2, <1>4, <1>5
<1>7. row' = [r EXCEPT !.rev = n] BY <1>3, <1>5
<1> QED BY <1>1, <1>2, <1>6, <1>7 DEF Rows

LEMMA RefetchedKnown == \A k \in Panel!Kinds : Panel!Refetched(k) \subseteq Panel!Queries
BY DEF Panel!Refetched, Panel!Queries, Panel!Kinds

(* The updates are not among the other kinds. *)
LEMMA Apart ==
  ASSUME PTypes
  PROVE  /\ \A k \in Updates : k \notin {"describe", "trigger", "stop", "delete"}
         /\ "describe" \in Panel!Kinds /\ "delete" \in Panel!Kinds
         /\ \A k \in Panel!Kinds : k \in Updates \/ k \in {"describe", "trigger", "stop", "delete"}
BY DEF PTypes, BoundsOK, Panel!UpdatesAssumption, Panel!Kinds

(* A request goes on. *)
LEMMA MovesOn ==
  ASSUME PTypes, Steady, NEW k \in Panel!Kinds,
         NEW p \in {"idle", "sent", "written", "done", "failed"}, req' = [req EXCEPT ![k].pc = p]
  PROVE  AskedOK'
<1>1. PICK r : r = [req[k] EXCEPT !.pc = p] OBVIOUS
<1>2. r \in Asks BY <1>1 DEF PTypes, AskedOK, Asks
<1>3. req' = [req EXCEPT ![k] = r] BY <1>1
<1>4. req' \in [Panel!Kinds -> Asks] BY <1>2, <1>3 DEF PTypes, AskedOK
<1> QED BY <1>4, Grow DEF AskedOK

LEMMA WriteType == ASSUME PTypes, NEW k \in Panel!Kinds, Panel!Write(k) PROVE PTypes'
<1> USE Apart DEF Panel!store, Panel!field
<1>1. UNCHANGED <<open, task, runs, typed, text, dirty, raced>> /\ Panel!NoOp BY DEF Panel!Write
<1>2. BoundsOK' /\ Steady BY <1>1, Counters
<1>3. row' \in Rows
  <2>1. CASE k = "describe"
    <3>1. req[k].of \in Known BY DEF PTypes, AskedOK, Asks
    <3>2. row' = [row EXCEPT !.desc = req[k].of] BY <2>1 DEF Panel!Write
    <3> QED BY <3>1, <3>2 DEF PTypes, StoreOK, Rows
  <2>2. CASE k \in Updates
    <3>1. Panel!Bump BY <2>2 DEF Panel!Write
    <3> QED BY <3>1, BumpType
  <2>3. CASE k \in {"trigger", "stop", "delete"}
    <3>1. row' = row BY <2>3 DEF Panel!Write
    <3> QED BY <3>1 DEF PTypes, StoreOK
  <2> QED BY <2>1, <2>2, <2>3
<1>4. live' \in BOOLEAN /\ running' \in BOOLEAN
  <2>1. live' \in {live, FALSE} /\ running' \in {running, TRUE, FALSE} BY DEF Panel!Write
  <2> QED BY <2>1 DEF PTypes, StoreOK
<1>5. StoreOK' BY <1>2, <1>3, <1>4, Grow DEF StoreOK
<1>6. FieldOK' BY <1>1, <1>2, Keeps
<1>7. CacheOK'
  <2>1. missed' \subseteq Panel!Queries BY MissType, RefetchedKnown DEF Panel!Write
  <2> QED BY <1>1, <1>2, <2>1, Grow DEF PTypes, CacheOK
<1>8. AskedOK'
  <2>1. PICK p : p = IF Panel!Refetched(k) = {"task"} THEN "written" ELSE "done" OBVIOUS
  <2>2. req' = [req EXCEPT ![k].pc = p] BY <2>1 DEF Panel!Write
  <2>3. p \in {"idle", "sent", "written", "done", "failed"} BY <2>1
  <2> QED BY <1>2, <2>2, <2>3, MovesOn
<1> QED BY <1>2, <1>5, <1>6, <1>7, <1>8 DEF PTypes

LEMMA AnswerType ==
  ASSUME PTypes, Panel!Refuse \/ \E k \in Panel!Kinds : Panel!FollowUp(k) \/ Panel!CutOff(k)
  PROVE  PTypes'
<1> USE DEF Panel!store, Panel!field
<1>1. PICK k \in Panel!Kinds : \/ k = "delete" /\ Panel!Refuse
                               \/ Panel!FollowUp(k) \/ Panel!CutOff(k)
  BY DEF Panel!Kinds
<1>2. UNCHANGED <<row, live, open, task, runs, typed, text, dirty, raced>>
  BY <1>1 DEF Panel!Refuse, Panel!FollowUp, Panel!CutOff
<1>3. BoundsOK' /\ Steady BY <1>1, Counters DEF Panel!Refuse, Panel!FollowUp, Panel!CutOff
<1>4. StoreOK'
  <2>1. running' \in {running, TRUE} BY <1>1 DEF Panel!Refuse, Panel!FollowUp, Panel!CutOff
  <2> QED BY <1>2, <1>3, <2>1, Grow DEF PTypes, StoreOK
<1>5. FieldOK' BY <1>2, <1>3, Keeps
<1>6. CacheOK'
  <2>1. missed' \subseteq Panel!Queries
    <3>1. CASE Panel!FollowUp(k)
      <4>1. Panel!Miss({}) BY <3>1 DEF Panel!FollowUp
      <4> QED BY <4>1, MissType
    <3>2. CASE ~Panel!FollowUp(k)
      <4>1. missed' \in {missed, missed \cup Panel!Refetched(k)}
        BY <1>1, <3>2 DEF Panel!Refuse, Panel!CutOff
      <4> QED BY <4>1, RefetchedKnown DEF PTypes, CacheOK
    <3> QED BY <3>1, <3>2
  <2> QED BY <1>2, <1>3, <2>1, Grow DEF PTypes, CacheOK
<1>7. AskedOK'
  <2>1. PICK p \in {"done", "failed"} : req' = [req EXCEPT ![k].pc = p]
    BY <1>1 DEF Panel!Refuse, Panel!FollowUp, Panel!CutOff
  <2> QED BY <1>3, <2>1, MovesOn
<1> QED BY <1>3, <1>4, <1>5, <1>6, <1>7 DEF PTypes

LEMMA OthersType == ASSUME PTypes, Panel!Elsewhere \/ Panel!RunEnds PROVE PTypes'
<1> USE DEF Panel!store, Panel!field
<1>1. UNCHANGED <<open, task, runs, typed, text, dirty, req>> BY DEF Panel!Elsewhere, Panel!RunEnds
<1>2. BoundsOK' /\ Steady BY Counters DEF Panel!Elsewhere, Panel!RunEnds
<1>3. row' \in Rows'
  <2>1. CASE row' = row BY <1>2, <2>1, Grow DEF PTypes, StoreOK
  <2>2. CASE Panel!Bump BY <1>2, <2>2, BumpType, Grow
  <2>3. CASE row' = [row EXCEPT !.desc = MaxTexts + ops']
    <3>1. MaxTexts + ops' \in 0..(MaxTexts + ops')
      <4>1. MaxTexts \in Nat /\ ops' \in Nat BY <1>2 DEF Steady, PTypes, BoundsOK, Panel!BoundAssumption
      <4>2. \A m \in Nat, b \in Nat : m + b \in 0..(m + b) OBVIOUS
      <4> QED BY <4>1, <4>2, Zenon
    <3>2. MaxTexts + ops' \in Known' BY <3>1 DEF Known
    <3>3. row \in Rows' BY <1>2, Grow DEF PTypes, StoreOK
    <3> QED BY <2>3, <3>2, <3>3 DEF Rows
  <2> QED BY <2>1, <2>2, <2>3 DEF Panel!Elsewhere, Panel!RunEnds
<1>4. StoreOK'
  <2>1. live' \in {live, FALSE} /\ running' \in {running, TRUE, FALSE}
    BY DEF Panel!Elsewhere, Panel!RunEnds
  <2> QED BY <1>3, <2>1 DEF PTypes, StoreOK
<1>5. raced' \in BOOLEAN BY DEF Panel!Elsewhere, Panel!RunEnds, PTypes, FieldOK
<1>6. FieldOK' BY <1>1, <1>2, <1>5, Grow DEF PTypes, FieldOK
<1>7. CacheOK'
  <2>1. Panel!Miss({}) BY DEF Panel!Elsewhere, Panel!RunEnds
  <2>2. missed' \subseteq Panel!Queries BY <2>1, MissType
  <2> QED BY <1>1, <1>2, <2>2, Grow DEF PTypes, CacheOK
<1>8. AskedOK' BY <1>1, <1>2, Keeps
<1> QED BY <1>2, <1>4, <1>6, <1>7, <1>8 DEF PTypes

LEMMA PanelTypeInit == Panel!UpdatesAssumption /\ Panel!BoundAssumption /\ Panel!Init => PTypes
<1> SUFFICES ASSUME Panel!UpdatesAssumption, Panel!BoundAssumption, Panel!Init PROVE PTypes OBVIOUS
<1> USE DEF Panel!BoundAssumption, Panel!Init
<1>1. BoundsOK BY DEF BoundsOK
<1>2. 0 \in Known /\ 0 \in 0..MaxOps /\ 0 \in 0..MaxTexts BY DEF Known
<1>3. StoreOK BY <1>2 DEF StoreOK, Rows
<1>4. FieldOK BY <1>2 DEF FieldOK
<1>5. CacheOK BY DEF CacheOK, Held, One, Panel!Unread
<1>6. AskedOK BY <1>2 DEF AskedOK, Asks, Panel!Quiet
<1> QED BY <1>1, <1>3, <1>4, <1>5, <1>6 DEF PTypes

LEMMA PanelTypeStep == PTypes /\ [Panel!Next]_(Panel!vars) => PTypes'
<1> SUFFICES ASSUME PTypes, [Panel!Next]_(Panel!vars) PROVE PTypes' OBVIOUS
<1>1. CASE UNCHANGED Panel!vars
  BY <1>1 DEF Panel!vars, PTypes, BoundsOK, StoreOK, FieldOK, CacheOK, AskedOK, Known, Rows, Asks
<1>2. ASSUME NEW k \in Panel!Kinds, Panel!Button(k) \/ Panel!Handler(k) \/ Panel!CutOff(k)
      PROVE  PTypes'
  BY <1>2, AskType, WriteType, OverType, AnswerType DEF Panel!Handler
<1> QED BY <1>1, <1>2, VisitType, TypingType, AnswerType, OthersType, PanelFetchType DEF Panel!Next

LEMMA PanelTyped == PTypes => Panel!TypeOK
<1> SUFFICES ASSUME PTypes PROVE Panel!TypeOK OBVIOUS
<1>1. Known \subseteq Panel!Texts
  <2>1. PICK a \in Nat, b \in Nat, m \in Nat : a = ops /\ b = MaxOps /\ m = MaxTexts /\ a <= b
    BY DEF PTypes, BoundsOK, Panel!BoundAssumption
  <2>2. ASSUME NEW x \in 0..(m + a) PROVE x \in 0..(m + b)
    <3>1. a \in Nat /\ b \in Nat /\ m \in Nat /\ a <= b BY <2>1
    <3> QED BY <3>1
  <2> QED BY <2>1, <2>2 DEF Known, Panel!Texts
<1>2. Rows \subseteq Panel!Row BY <1>1 DEF Rows, Panel!Row
<1>3. Held(task, Panel!Row) /\ Held(runs, BOOLEAN) BY <1>2, HeldGrows DEF PTypes, CacheOK
<1>4. task \in Panel!Entry(Panel!Row) /\ runs \in Panel!Entry(BOOLEAN)
  <2>1. task \in Entry(Panel!Row) /\ runs \in Entry(BOOLEAN) BY <1>3, EntriesHold
  <2> QED BY <2>1, SameEntries
<1>5. req \in [Panel!Kinds -> [pc: {"idle", "sent", "written", "done", "failed"}, of: Panel!Texts,
                               here: BOOLEAN]]
  BY <1>1 DEF PTypes, AskedOK, Asks
<1> QED BY <1>1, <1>2, <1>4, <1>5 DEF Panel!TypeOK, PTypes, BoundsOK, StoreOK, FieldOK, CacheOK

(* The description in the field, in the database and in a request is one that was typed or
   written elsewhere, and an entry of the cache holds one answer, whatever visits, fetches
   and requests come between (task-detail.tsx). *)
THEOREM PanelTypes == Panel!UpdatesAssumption /\ Panel!BoundAssumption /\ Panel!Spec => []Panel!TypeOK
BY PanelTypeInit, PanelTypeStep, PanelTyped, PTL DEF Panel!Spec

(* The field                                                               *)

Clean == open /\ ~dirty
Filled == \A v \in task.data : text = v.desc
Newer == \A v \in task.data : row.desc # v.desc
Save == req["describe"]

(* What is in a clean field is shown too while a save is under way, whoever asked for it. *)
WhileSaving == Clean /\ Panel!Saving => Filled
(* Otherwise the list is older than the task, the answer under way is not what is shown, *)
Behind == Clean /\ ~raced => Filled \/ Newer
Differs ==
    Clean /\ ~raced /\ task.pc = "read" => Filled \/ \A v \in task.data, w \in task.got : v.desc # w.desc
(* and without a fetch under way, one failed. *)
Reported == Clean /\ ~raced /\ task.pc = "idle" => Filled \/ "task" \in missed
(* The end of a save cleans the field of its own visit, which still has the text saved. *)
OwnVisit == Save.here => open
OwnText == Panel!Saving /\ Save.here /\ dirty /\ ~raced => text = Save.of
Wrote == Save.pc \in {"written", "done"} /\ ~raced => row.desc = Save.of

FieldInv == WhileSaving /\ Behind /\ Differs /\ Reported /\ OwnVisit /\ OwnText /\ Wrote

(* Steps away from the field, the task shown and the save under way. *)
LEMMA FieldKept ==
  ASSUME FieldInv, UNCHANGED <<open, dirty, text, raced, task, req["describe"]>>,
         row'.desc = row.desc, missed \subseteq missed'
  PROVE  FieldInv'
<1> USE DEF FieldInv, Clean, Filled, Newer, Save, Panel!Saving
<1>1. WhileSaving' /\ OwnVisit' /\ OwnText' BY DEF WhileSaving, OwnVisit, OwnText
<1>2. Wrote' BY DEF Wrote
<1>3. Behind' /\ Differs' /\ Reported' BY DEF Behind, Differs, Reported
<1> QED BY <1>1, <1>2, <1>3

(* Steps of a save under way that write nothing. *)
LEMMA SaveMovesOn ==
  ASSUME PTypes, FieldInv, UNCHANGED <<open, dirty, text, raced, task>>, row'.desc = row.desc,
         missed \subseteq missed', Panel!Saving,
         NEW p, p = "failed" \/ (p = "done" /\ Save.pc = "written"),
         req' = [req EXCEPT !["describe"].pc = p]
  PROVE  FieldInv'
<1> USE DEF FieldInv, Clean, Filled, Newer
<1>1. req'["describe"] = [Save EXCEPT !.pc = p] /\ Save \in Asks
  BY DEF PTypes, AskedOK, Save, Panel!Kinds
<1>2. Save' = [Save EXCEPT !.pc = p] BY <1>1 DEF Save
<1>3. Save'.pc = p /\ Save'.of = Save.of /\ Save'.here = Save.here BY <1>1, <1>2 DEF Asks
<1>4. Panel!Saving' BY <1>1, <1>3 DEF Panel!Saving, Save
<1>5. WhileSaving' /\ OwnVisit' /\ OwnText'
  BY <1>3, <1>4 DEF WhileSaving, OwnVisit, OwnText
<1>6. Wrote' BY <1>3 DEF Wrote
<1>7. Behind' /\ Differs' /\ Reported' BY DEF Behind, Differs, Reported
<1> QED BY <1>5, <1>6, <1>7

(* A task off the screen has no field. *)
LEMMA FieldClosed ==
  ASSUME FieldInv, ~open', ~Save'.here, Save'.pc = Save.pc, Save'.of = Save.of,
         row' = row, raced' = raced
  PROVE  FieldInv'
BY DEF FieldInv, WhileSaving, Behind, Differs, Reported, OwnVisit, OwnText, Wrote, Clean

(* The task is fetched again, unless it has not been shown yet. *)
LEMMA FieldInvalidated ==
  ASSUME PTypes, FieldInv, task' = Invalidated(task, open),
         UNCHANGED <<open, dirty, text, raced, row, req["describe"]>>
  PROVE  FieldInv'
<1> USE DEF FieldInv, Clean, Newer, Save, Panel!Saving
<1>1. Held(task, Rows) BY DEF PTypes, CacheOK
<1>2. task'.data = task.data BY <1>1 DEF Held, Invalidated, Fetching
<1>3. Filled' = Filled BY <1>2 DEF Filled
<1>4. WhileSaving' /\ OwnVisit' /\ OwnText' BY <1>3 DEF WhileSaving, OwnVisit, OwnText
<1>5. Behind' /\ Wrote' BY <1>2, <1>3 DEF Behind, Wrote
<1>6. Differs' /\ Reported'
  <2>1. CASE ~open BY <2>1 DEF Differs, Reported
  <2>2. CASE task.data = {}
    <3>1. Filled' BY <1>2, <2>2 DEF Filled
    <3> QED BY <3>1 DEF Differs, Reported
  <2>3. CASE open /\ task.data # {}
    <3>1. task'.pc = "sent" BY <1>1, <2>3 DEF Held, Invalidated, Fetching
    <3> QED BY <3>1 DEF Differs, Reported
  <2> QED BY <2>1, <2>2, <2>3
<1> QED BY <1>4, <1>5, <1>6

LEMMA FieldFetched ==
  ASSUME PTypes, FieldInv, NEW q \in Panel!Queries, Panel!Fetch(q) \/ Panel!FetchFails(q)
  PROVE  FieldInv'
<1> USE DEF Panel!store, Panel!field
<1>1. UNCHANGED <<row, open, dirty, raced, req>> BY DEF Panel!Fetch, Panel!FetchFails
<1>2. Held(task, Rows) BY DEF PTypes, CacheOK
<1>3. OwnVisit' /\ Wrote' BY <1>1 DEF FieldInv, OwnVisit, Wrote, Save
<1>4. CASE q = "runs"
  <2>1. UNCHANGED <<task, text>> /\ missed \ {"runs"} \subseteq missed' /\ ("task" \in missed => "task" \in missed')
    BY <1>4 DEF Panel!Fetch, Panel!FetchFails, Panel!FetchRuns
  <2> USE DEF FieldInv, Clean, Filled, Newer, Save, Panel!Saving
  <2>2. WhileSaving' /\ OwnText' BY <1>1, <2>1 DEF WhileSaving, OwnText
  <2>3. Behind' /\ Differs' /\ Reported' BY <1>1, <2>1 DEF Behind, Differs, Reported
  <2> QED BY <1>3, <2>2, <2>3
<1>5. CASE q = "task" /\ Panel!FetchFails(q)
  <2>1. task' = Resting(task) /\ text' = text /\ "task" \in missed'
    BY <1>5, OneCache DEF Panel!FetchFails
  <2>2. task'.data = task.data /\ task'.pc = "idle" BY <1>2, <2>1 DEF Held, Resting
  <2> USE DEF FieldInv, Clean, Filled, Newer, Save, Panel!Saving
  <2>3. WhileSaving' /\ OwnText' BY <1>1, <2>1, <2>2 DEF WhileSaving, OwnText
  <2>4. Behind' /\ Differs' /\ Reported' BY <1>1, <2>1, <2>2 DEF Behind, Differs, Reported
  <2> QED BY <1>3, <2>3, <2>4
<1>6. CASE q = "task" /\ Panel!Fetch(q) /\ task.pc = "sent"
  <2>1. task' = Reads(task, Panel!Found) /\ text' = text
    BY <1>6, OneCache DEF Panel!Fetch, Panel!FetchTask
  <2>2. task'.data = task.data /\ task'.pc = "read" /\ task'.got = Panel!Found
    BY <1>2, <2>1 DEF Held, Reads
  <2> USE DEF FieldInv, Clean, Filled, Newer, Save, Panel!Saving
  <2>3. WhileSaving' /\ OwnText' BY <1>1, <2>1, <2>2 DEF WhileSaving, OwnText
  <2>4. Behind' BY <1>1, <2>1, <2>2 DEF Behind
  <2>5. Differs'
    <3>1. \A w \in Panel!Found : w = row BY DEF Panel!Found
    <3> QED BY <1>1, <2>1, <2>2, <3>1 DEF Behind, Differs
  <2>6. Reported' BY <2>2 DEF Reported
  <2> QED BY <1>3, <2>3, <2>4, <2>5, <2>6
<1>7. CASE q = "task" /\ Panel!Fetch(q) /\ task.pc = "read"
  <2>1. /\ task' = Shows(task) /\ Panel!Seen(task.got)
        /\ missed' = IF task.got = {} THEN missed \cup {"task"} ELSE missed
    BY <1>7, OneCache DEF Panel!Fetch, Panel!FetchTask
  <2>2. task'.pc = "idle" /\ task'.data = IF task.got = {} THEN task.data ELSE task.got
    BY <1>2, <2>1 DEF Held, Shows, Resting
  <2> USE DEF FieldInv, Clean, Save, Panel!Saving
  <2>3. dirty \/ ~open => text' = text BY <2>1 DEF Panel!Seen
  <2>4. OwnText' BY <1>1, <2>3 DEF OwnText, OwnVisit
  <2>5. CASE ~Clean
    <3>1. ~Clean' BY <1>1, <2>5
    <3> QED BY <1>3, <2>4, <3>1 DEF WhileSaving, Behind, Differs, Reported
  <2>6. CASE Clean /\ task.got = {}
    <3>1. text' = text BY <2>1, <2>6 DEF Panel!Seen
    <3>2. Filled' = Filled BY <2>2, <2>6, <3>1 DEF Filled
    <3>3. "task" \in missed' BY <2>1, <2>6
    <3>4. Newer => Newer' BY <1>1, <2>2, <2>6 DEF Newer
    <3>5. WhileSaving' /\ Behind' BY <1>1, <3>2, <3>4 DEF WhileSaving, Behind
    <3>6. Differs' /\ Reported' BY <2>2, <3>3 DEF Differs, Reported
    <3> QED BY <1>3, <2>4, <3>5, <3>6
  <2>7. CASE Clean /\ task.got # {}
    <3>1. PICK g : task.got = {g} BY <1>2, <2>7 DEF Held, One
    <3>2. task'.data = {g} BY <2>2, <3>1
    <3>3. CASE \A w \in task.data : g.desc # w.desc
      <4>1. text' = g.desc
        <5>1. (CHOOSE v \in {g} : TRUE) = g OBVIOUS
        <5> QED BY <2>1, <2>7, <3>1, <3>3, <5>1 DEF Panel!Seen
      <4>2. Filled' BY <3>2, <4>1 DEF Filled
      <4> QED BY <1>3, <2>2, <2>4, <4>2 DEF WhileSaving, Behind, Differs, Reported
    <3>4. CASE \E w \in task.data : g.desc = w.desc
      <4>1. text' = text BY <2>1, <3>1, <3>4 DEF Panel!Seen
      <4>2. Filled => Filled' BY <3>2, <3>4, <4>1 DEF Filled
      <4>3. ~raced => Filled BY <1>7, <2>7, <3>1, <3>4 DEF Differs
      <4>4. WhileSaving' /\ Behind' BY <1>1, <2>7, <4>2, <4>3 DEF WhileSaving, Behind
      <4>5. Differs' /\ Reported' BY <1>1, <2>2, <4>2, <4>3 DEF Differs, Reported
      <4> QED BY <1>3, <2>4, <4>4, <4>5
    <3> QED BY <3>3, <3>4
  <2> QED BY <2>5, <2>6, <2>7
<1> QED BY <1>4, <1>5, <1>6, <1>7 DEF Panel!Queries, Panel!Fetch, Panel!FetchTask

LEMMA FieldVisited ==
  ASSUME PTypes, FieldInv, Panel!OpenTask \/ Panel!CloseTask \/ Panel!Poll
  PROVE  FieldInv'
<1> USE DEF Panel!store, Panel!field
<1>1. CASE Panel!OpenTask
  <2>1. /\ ~open /\ UNCHANGED <<row, req, raced, missed>> /\ dirty' = FALSE /\ open' = TRUE
        /\ task' \in Mounted(task)
        /\ \E t \in IF task.data = {} THEN {0} ELSE {v.desc : v \in task.data} : text' = t
    BY <1>1, OneCache DEF Panel!OpenTask
  <2>2. Held(task, Rows) BY DEF PTypes, CacheOK
  <2>3. task' = task \/ task' = Fetching(task) BY <2>1 DEF Mounted
  <2>4. task'.data = task.data BY <2>2, <2>3 DEF Held, Fetching
  <2>5. Filled'
    <3>1. CASE task.data = {} BY <2>4, <3>1 DEF Filled
    <3>2. ASSUME NEW v, task.data = {v} PROVE Filled'
      <4>1. text' = v.desc BY <2>1, <3>2
      <4> QED BY <2>4, <3>2, <4>1 DEF Filled
    <3> QED BY <2>2, <3>1, <3>2 DEF Held, One
  <2>6. OwnVisit' /\ OwnText' /\ Wrote'
    BY <2>1 DEF FieldInv, OwnVisit, OwnText, Wrote, Save, Panel!Saving
  <2> QED BY <2>5, <2>6 DEF FieldInv, WhileSaving, Behind, Differs, Reported
<1>2. CASE Panel!CloseTask
  <2>1. /\ ~open' /\ UNCHANGED <<row, raced>>
        /\ req' = [k \in Panel!Kinds |-> [req[k] EXCEPT !.here = FALSE]]
    BY <1>2 DEF Panel!CloseTask
  <2>2. Save \in Asks BY DEF PTypes, AskedOK, Save, Panel!Kinds
  <2>3. Save' = [Save EXCEPT !.here = FALSE] BY <2>1 DEF Save, Panel!Kinds
  <2>4. Save'.pc = Save.pc /\ Save'.of = Save.of /\ ~Save'.here BY <2>2, <2>3 DEF Asks
  <2> QED BY <2>1, <2>4, FieldClosed
<1>3. CASE Panel!Poll BY <1>3, FieldKept DEF Panel!Poll
<1> QED BY <1>1, <1>2, <1>3

LEMMA FieldTyped == ASSUME PTypes, FieldInv, Panel!Type \/ Panel!Cancel PROVE FieldInv'
<1> USE DEF Panel!store
<1>1. UNCHANGED <<row, open, task, req, missed>> BY DEF Panel!Type, Panel!Cancel
<1>2. OwnVisit' BY <1>1 DEF FieldInv, OwnVisit, Save
<1>3. CASE Panel!Type
  <2>1. dirty' = TRUE /\ raced' = (raced \/ Panel!Saving) BY <1>3 DEF Panel!Type
  <2>2. Save.pc \in {"written", "done"} => Panel!Saving BY DEF Save, Panel!Saving
  <2>3. OwnText' /\ Wrote' BY <1>1, <2>1, <2>2 DEF FieldInv, OwnText, Wrote, Save, Panel!Saving
  <2> QED BY <1>2, <2>1, <2>3 DEF FieldInv, Clean, WhileSaving, Behind, Differs, Reported
<1>4. CASE Panel!Cancel
  <2>1. dirty' = FALSE /\ raced' = raced /\ \E v \in task.data : text' = v.desc BY <1>4 DEF Panel!Cancel
  <2>2. PICK v : task.data = {v}
    <3>1. One(task.data, Rows) BY DEF PTypes, CacheOK, Held
    <3> QED BY <2>1, <3>1 DEF One
  <2>3. Filled' BY <1>1, <2>1, <2>2 DEF Filled
  <2>4. OwnText' /\ Wrote' BY <1>1, <2>1 DEF FieldInv, OwnText, Wrote, Save
  <2> QED BY <1>2, <2>3, <2>4 DEF FieldInv, WhileSaving, Behind, Differs, Reported
<1> QED BY <1>3, <1>4

LEMMA FieldAsked ==
  ASSUME PTypes, FieldInv, NEW k \in Panel!Kinds, Panel!Button(k)
  PROVE  FieldInv'
<1> USE DEF Panel!store, Panel!field
<1>1. UNCHANGED <<row, open, task, text, dirty, raced, missed>> /\ open BY DEF Panel!Button
<1>2. CASE k = "describe"
  <2>1. req'["describe"] = [pc |-> "sent", of |-> text, here |-> TRUE] /\ dirty
    BY <1>2 DEF Panel!Button, PTypes, AskedOK
  <2>2. Save'.pc = "sent" /\ Save'.of = text BY <2>1 DEF Save
  <2>3. OwnVisit' /\ OwnText' /\ Wrote' BY <1>1, <2>2 DEF OwnVisit, OwnText, Wrote
  <2>4. ~Clean' BY <1>1, <2>1 DEF Clean
  <2> QED BY <2>3, <2>4 DEF FieldInv, WhileSaving, Behind, Differs, Reported
<1>3. CASE k # "describe"
  <2>1. req'["describe"] = req["describe"]
    BY <1>3 DEF Panel!Button, PTypes, AskedOK, Panel!Kinds
  <2> QED BY <1>1, <2>1, FieldKept
<1> QED BY <1>2, <1>3

(* The end of a save cleans the field only in the visit that asked for it. *)
LEMMA FieldSaved ==
  ASSUME PTypes, FieldInv, Panel!Ended("describe")
  PROVE  FieldInv'
<1> USE DEF Panel!store
<1>1. /\ UNCHANGED <<row, open, text, raced>> /\ Save.pc \in {"done", "failed"}
      /\ dirty' = (dirty /\ ~(Save.pc = "done" /\ Save.here))
      /\ req' = [req EXCEPT !["describe"] = Panel!Quiet]
  BY DEF Panel!Ended, Panel!Over, Save
<1>2. Save'.pc = "idle" /\ Save'.here = FALSE
  BY <1>1 DEF PTypes, AskedOK, Save, Panel!Kinds, Panel!Quiet
<1>3. WhileSaving' /\ OwnVisit' /\ OwnText' /\ Wrote'
  BY <1>2 DEF WhileSaving, OwnVisit, OwnText, Wrote, Panel!Saving, Save
<1>4. Held(task, Rows) /\ Panel!Saving BY <1>1 DEF PTypes, CacheOK, Panel!Saving, Save
<1>5. task' = task \/ task' = Invalidated(task, open) BY OneCache DEF Panel!Ended
<1>6. task'.data = task.data BY <1>4, <1>5 DEF Held, Invalidated, Fetching
<1>7. CASE Save.pc = "done" /\ Save.here /\ dirty /\ ~raced
  <2>1. open /\ text = Save.of /\ row.desc = Save.of
    BY <1>4, <1>7 DEF FieldInv, OwnVisit, OwnText, Wrote
  <2>2. PICK d : task.data = {d} \/ task.data = {} BY <1>4 DEF Held, One
  <2>3. Filled' \/ Newer' BY <1>1, <1>6, <2>1, <2>2 DEF Filled, Newer
  <2>4. task' = Invalidated(task, open)
    BY <1>7, OneCache DEF Panel!Ended, Panel!Refetched, Save
  <2>5. task'.pc = "sent" \/ task'.data = {} BY <1>4, <2>1, <2>4 DEF Held, Invalidated, Fetching
  <2>6. task'.data = {} => Filled' BY DEF Filled
  <2> QED BY <1>3, <2>3, <2>5, <2>6 DEF FieldInv, Behind, Differs, Reported
<1>8. CASE raced BY <1>1, <1>3, <1>8 DEF FieldInv, Behind, Differs, Reported
<1>9. CASE ~(Save.pc = "done" /\ Save.here /\ dirty)
  <2>1. Clean' => Clean BY <1>1, <1>9 DEF Clean
  <2>2. Clean' => Filled' BY <1>1, <1>4, <1>6, <2>1 DEF FieldInv, WhileSaving, Filled
  <2> QED BY <1>3, <2>2 DEF FieldInv, Behind, Differs, Reported
<1> QED BY <1>7, <1>8, <1>9

LEMMA FieldOver ==
  ASSUME PTypes, FieldInv, NEW k \in Panel!Kinds, Panel!Ended(k)
  PROVE  FieldInv'
<1> USE DEF Panel!store
<1>1. CASE k = "describe" BY <1>1, FieldSaved
<1>2. CASE k # "describe"
  <2>1. UNCHANGED <<row, text, raced>> /\ Panel!Over(k) BY DEF Panel!Ended, Panel!Over
  <2>2. dirty' = dirty BY <1>2, <2>1 DEF Panel!Over, PTypes, FieldOK
  <2>3. missed \subseteq missed' BY DEF Panel!Ended
  <2>4. CASE k = "delete" /\ req[k].pc = "done"
    <3>1. /\ ~open'
          /\ req' = [l \in Panel!Kinds |-> IF l = k THEN Panel!Quiet ELSE [req[l] EXCEPT !.here = FALSE]]
      BY <2>1, <2>4 DEF Panel!Over
    <3>2. Save \in Asks BY DEF PTypes, AskedOK, Save, Panel!Kinds
    <3>3. Save' = [Save EXCEPT !.here = FALSE] BY <1>2, <3>1 DEF Save, Panel!Kinds
    <3>4. Save'.pc = Save.pc /\ Save'.of = Save.of /\ ~Save'.here BY <3>2, <3>3 DEF Asks
    <3> QED BY <2>1, <3>1, <3>4, FieldClosed
  <2>5. CASE ~(k = "delete" /\ req[k].pc = "done")
    <3>1. open' = open /\ req'["describe"] = req["describe"]
      BY <1>2, <2>1, <2>5 DEF Panel!Over, PTypes, AskedOK, Panel!Kinds
    <3>2. task' = task \/ task' = Invalidated(task, open) BY OneCache DEF Panel!Ended
    <3> QED BY <2>1, <2>2, <2>3, <3>1, <3>2, FieldKept, FieldInvalidated
  <2> QED BY <2>4, <2>5
<1> QED BY <1>1, <1>2

LEMMA FieldWritten ==
  ASSUME PTypes, FieldInv, NEW k \in Panel!Kinds, Panel!Write(k)
  PROVE  FieldInv'
<1> USE Apart DEF Panel!field
<1>1. UNCHANGED <<open, task, text, dirty, raced>> /\ missed \subseteq missed'
  BY DEF Panel!Write, Panel!Miss
<1>2. CASE k = "describe"
  <2>1. row' = [row EXCEPT !.desc = Save.of] /\ Save.pc = "sent" BY <1>2 DEF Panel!Write, Save
  <2>2. req'["describe"] = [Save EXCEPT !.pc = "written"] /\ Save \in Asks
    BY <1>2 DEF Panel!Write, Panel!Refetched, PTypes, AskedOK, Save
  <2>3. Save' = [Save EXCEPT !.pc = "written"] BY <2>2 DEF Save
  <2>4. Save'.pc = "written" /\ Save'.of = Save.of /\ Save'.here = Save.here BY <2>2, <2>3 DEF Asks
  <2>5. row'.desc = Save.of BY <2>1 DEF PTypes, StoreOK, Rows
  <2>6. Panel!Saving /\ Panel!Saving' BY <2>1, <2>2, <2>4 DEF Panel!Saving, Save
  <2>7. Clean' => Filled' BY <1>1, <2>6 DEF FieldInv, WhileSaving, Clean, Filled
  <2>8. OwnVisit' /\ OwnText' /\ Wrote'
    BY <1>1, <2>4, <2>5, <2>6 DEF FieldInv, OwnVisit, OwnText, Wrote
  <2> QED BY <2>7, <2>8 DEF FieldInv, WhileSaving, Behind, Differs, Reported
<1>3. CASE k # "describe"
  <2>1. req'["describe"] = req["describe"] BY <1>3 DEF Panel!Write, PTypes, AskedOK, Panel!Kinds
  <2>2. row'.desc = row.desc
    <3>1. CASE k \in Updates
      <4>1. Panel!Bump BY <3>1 DEF Panel!Write
      <4> QED BY <4>1, BumpType
    <3>2. CASE k \in {"trigger", "stop", "delete"}
      <4>1. row' = row BY <3>2 DEF Panel!Write
      <4> QED BY <4>1
    <3> QED BY <1>3, <3>1, <3>2
  <2> QED BY <1>1, <2>1, <2>2, FieldKept
<1> QED BY <1>2, <1>3

LEMMA FieldAnswered ==
  ASSUME PTypes, FieldInv,
         Panel!Refuse \/ \E k \in Panel!Kinds : Panel!FollowUp(k) \/ Panel!CutOff(k)
  PROVE  FieldInv'
<1> USE DEF Panel!store, Panel!field
<1>1. PICK k \in Panel!Kinds : \/ k = "delete" /\ Panel!Refuse
                               \/ Panel!FollowUp(k) \/ Panel!CutOff(k)
  BY DEF Panel!Kinds
<1>2. UNCHANGED <<row, open, task, text, dirty, raced>> /\ missed \subseteq missed'
  BY <1>1 DEF Panel!Refuse, Panel!FollowUp, Panel!CutOff, Panel!Miss
<1>3. CASE k = "describe"
  <2>1. PICK p : /\ p = "failed" \/ (p = "done" /\ Save.pc = "written")
                 /\ req' = [req EXCEPT !["describe"].pc = p]
    BY <1>1, <1>3 DEF Panel!FollowUp, Panel!CutOff, Save
  <2>2. Panel!Saving BY <1>1, <1>3 DEF Panel!FollowUp, Panel!CutOff, Panel!Saving
  <2> QED BY <1>2, <2>1, <2>2, SaveMovesOn
<1>4. CASE k # "describe"
  <2>1. req'["describe"] = req["describe"]
    BY <1>1, <1>4 DEF Panel!Refuse, Panel!FollowUp, Panel!CutOff, PTypes, AskedOK, Panel!Kinds
  <2> QED BY <1>2, <2>1, FieldKept
<1> QED BY <1>3, <1>4

(* A description written elsewhere is a new one. *)
LEMMA FieldElsewhere ==
  ASSUME PTypes, FieldInv, Panel!Elsewhere \/ Panel!RunEnds
  PROVE  FieldInv'
<1> USE DEF Panel!field
<1>1. UNCHANGED <<open, task, text, dirty, req>> /\ missed \subseteq missed'
  BY DEF Panel!Elsewhere, Panel!RunEnds, Panel!Miss
<1>2. CASE Panel!Op /\ row' = [row EXCEPT !.desc = MaxTexts + ops'] /\ raced' = (raced \/ Panel!Saving)
  <2>1. row'.desc = MaxTexts + ops' BY <1>2 DEF PTypes, StoreOK, Rows
  <2>2. Newer'
    <3>1. ASSUME NEW v \in task.data PROVE v.desc # MaxTexts + ops'
      <4>1. v.desc \in Known BY DEF PTypes, CacheOK, Held, Rows
      <4>2. MaxTexts \in Nat /\ ops \in Nat /\ ops' = ops + 1
        BY <1>2 DEF Panel!Op, PTypes, BoundsOK, Panel!BoundAssumption
      <4> QED BY <4>1, <4>2 DEF Known
    <3> QED BY <1>1, <2>1, <3>1 DEF Newer
  <2>3. Behind' BY <2>2 DEF Behind
  <2>4. Save.pc \in {"written", "done"} => Panel!Saving BY DEF Save, Panel!Saving
  <2>5. Wrote' BY <1>1, <1>2, <2>4 DEF Wrote, Save
  <2>6. WhileSaving' /\ Differs' /\ Reported' /\ OwnVisit' /\ OwnText'
    BY <1>1, <1>2 DEF FieldInv, WhileSaving, Differs, Reported, OwnVisit, OwnText, Clean, Filled, Save, Panel!Saving
  <2> QED BY <2>3, <2>5, <2>6 DEF FieldInv
<1>3. CASE raced' = raced /\ (row' = row \/ Panel!Bump)
  <2>1. row'.desc = row.desc BY <1>3, BumpType
  <2> QED BY <1>1, <1>3, <2>1, FieldKept
<1> QED BY <1>2, <1>3 DEF Panel!Elsewhere, Panel!RunEnds

LEMMA FieldInit == Panel!Init => FieldInv
<1> SUFFICES ASSUME Panel!Init PROVE FieldInv OBVIOUS
<1>1. ~open /\ Save = Panel!Quiet BY DEF Panel!Init, Save, Panel!Kinds
<1> QED BY <1>1 DEF FieldInv, WhileSaving, Behind, Differs, Reported, OwnVisit, OwnText, Wrote,
                   Clean, Panel!Saving, Panel!Quiet, Save

LEMMA FieldStep == PTypes /\ FieldInv /\ [Panel!Next]_(Panel!vars) => FieldInv'
<1> SUFFICES ASSUME PTypes, FieldInv, [Panel!Next]_(Panel!vars) PROVE FieldInv' OBVIOUS
<1>1. CASE UNCHANGED Panel!vars
  <2>1. UNCHANGED <<row, open, task, text, dirty, raced, req, missed>> BY <1>1 DEF Panel!vars
  <2> QED BY <2>1, FieldKept
<1>2. ASSUME NEW k \in Panel!Kinds, Panel!Button(k) \/ Panel!Handler(k) \/ Panel!CutOff(k)
      PROVE  FieldInv'
  BY <1>2, FieldAsked, FieldWritten, FieldOver, FieldAnswered DEF Panel!Handler
<1> QED BY <1>1, <1>2, FieldVisited, FieldTyped, FieldAnswered, FieldElsewhere, FieldFetched
        DEF Panel!Next

(* A field without unsaved text shows the description last read, once what follows a save is
   read, unless the description changed again meanwhile (task-detail.tsx:153-157, 225-231,
   484-509). *)
THEOREM FieldShowsTheTask ==
  Panel!UpdatesAssumption /\ Panel!BoundAssumption /\ Panel!Spec => []Panel!FieldIsTheTask
<1>1. FieldInv => Panel!FieldIsTheTask
  BY DEF FieldInv, Panel!FieldIsTheTask, Reported, Clean, Filled
<1>2. Panel!UpdatesAssumption /\ Panel!BoundAssumption /\ Panel!Init => PTypes /\ FieldInv
  BY PanelTypeInit, FieldInit
<1>3. PTypes /\ FieldInv /\ [Panel!Next]_(Panel!vars) => (PTypes /\ FieldInv)'
  BY PanelTypeStep, FieldStep
<1> QED BY <1>1, <1>2, <1>3, PTL DEF Panel!Spec
=============================================================================
