-------------------------- MODULE AgentVersionsProofs --------------------------
(***************************************************************************)
(* All properties of AgentVersions, for any ids, tabs and bounds.          *)
(*                                                                         *)
(* AtMostThree follows from the unique index and from what each request    *)
(* carries: the rows have different numbers, all of them at most Limit,    *)
(* because a publish counted fewer than Limit rows and a deletion counts   *)
(* up along a snapshot that had no more.  Core needs besides that a      *)
(* publish finds a free number and that a snapshot can be put in order     *)
(* (FreeNumber, Ranked).  SerialIsClean rests on what the table and the    *)
(* only request under way know of each other (Calm), and so does the       *)
(* refinement: Asked is what that request has not yet done, and no update  *)
(* of the renumbering loop changes the order (SameOrder).  For             *)
(* PanelsShowTheTable, Covered says of every state where a tab gets the    *)
(* table from: its view, a fetch, or a request that will answer.           *)
(***************************************************************************)
EXTENDS AgentVersions, FiniteSetTheorems, SequenceTheorems, TLAPS

Few(S) == IsFiniteSet(S) /\ Cardinality(S) <= Limit

Shape(C) == [pc: C, id: C, seen: C, number: C, todo: C, at: C]

(* What a request carries to its next write of a number. *)
Fine(r) ==
    /\ \E C : r \in Shape(C)
    /\ r.pc = "create" => r.number \in 1..Limit
    /\ r.pc = "remove" => Few(Present(r.seen.rows))
    /\ r.pc = "renumber" => r.at \in Nat \ {0} /\ Len(r.todo) \in 0..Limit

RowsOK ==
    /\ rows \in [Ids -> 0..Limit]
    /\ \A i, j \in Ids : rows[i] # 0 /\ rows[i] = rows[j] => i = j
RequestsOK ==
    /\ \E T : req \in [Slots -> T]
    /\ \A s \in Slots : Fine(req[s])
IInv == kind = "agent" => RowsOK /\ RequestsOK

-----------------------------------------------------------------------------
(* Rows with different numbers up to Limit are no more than Limit. *)
LEMMA FewRows == ASSUME RowsOK PROVE Few(Present(rows))
<1> DEFINE number == [i \in Present(rows) |-> rows[i]]
<1>1. number \in Injection(Present(rows), 1..Limit)
  <2>1. number \in [Present(rows) -> 1..Limit] BY DEF RowsOK, Present, Limit
  <2>2. \A i, j \in Present(rows) : number[i] = number[j] => i = j BY DEF RowsOK, Present
  <2> QED BY <2>1, <2>2 DEF Injection, IsInjective
<1>2. IsFiniteSet(1..Limit) /\ Cardinality(1..Limit) = Limit
  <2>1. 1 \in Int /\ 3 \in Int /\ ~(1 > 3) /\ 3 - 1 + 1 = 3 OBVIOUS
  <2>2. IsFiniteSet(1..3) /\ Cardinality(1..3) = 3 - 1 + 1 BY <2>1, FS_Interval, Zenon
  <2> QED BY <2>1, <2>2 DEF Limit
<1> HIDE DEF number
<1> QED BY <1>1, <1>2, FS_Injection DEF Few

(* A number that no other row has is written. *)
LEMMA Written ==
  ASSUME RowsOK, NEW x, NEW n \in 0..Limit, rows' = [rows EXCEPT ![x] = n],
         n # 0 => \A j \in Ids \ {x} : rows[j] # n
  PROVE  RowsOK'
<1>1. rows \in [Ids -> 0..Limit] BY DEF RowsOK
<1>2. rows' \in [Ids -> 0..Limit] BY <1>1
<1>3. \A j \in Ids : rows'[j] = IF j = x THEN n ELSE rows[j] BY <1>1
<1> QED BY <1>2, <1>3 DEF RowsOK

LEMMA Moved ==
  ASSUME kind = "agent", IInv, NEW s \in Slots, NEW r, Fine(r), req' = [req EXCEPT ![s] = r] PROVE RequestsOK'
<1>1. PICK T : req \in [Slots -> T] BY DEF IInv, RequestsOK
<1>2. req' \in [Slots -> T \cup {r}] BY <1>1
<1>3. \A t \in Slots : req'[t] = IF t = s THEN r ELSE req[t] BY <1>1
<1> QED BY <1>2, <1>3 DEF IInv, RequestsOK

LEMMA QuietShape == Quiet \in Shape({"idle", Null, 0, <<>>, Quiet.seen})
<1> DEFINE none == [rows |-> [i \in Ids |-> 0], active |-> Null]
<1>1. Quiet = [pc |-> "idle", id |-> Null, seen |-> none, number |-> 0, todo |-> <<>>, at |-> 0]
  BY DEF Quiet
<1> HIDE DEF none
<1> QED BY <1>1 DEF Shape

Harmless == Steps \ {"create", "remove", "renumber"}

(* Requests that carry nothing to such a write. *)
LEMMA Blank ==
  ASSUME NEW pc \in Harmless, NEW id, NEW seen, NEW a
  PROVE  /\ Fine([Quiet EXCEPT !.pc = pc]) /\ Fine([Quiet EXCEPT !.pc = pc, !.id = id])
         /\ Fine([Quiet EXCEPT !.pc = pc, !.seen = seen])
         /\ Fine([Quiet EXCEPT !.pc = pc, !.seen = seen, !.seen.active = a])
         /\ Fine(Quiet)
<1> DEFINE C == {"idle", Null, 0, <<>>, Quiet.seen, pc, id, seen, [seen EXCEPT !.active = a]}
<1>1. Quiet \in Shape(C) BY QuietShape DEF Shape
<1> HIDE DEF C
<1>2. pc \in C /\ id \in C /\ seen \in C /\ [seen EXCEPT !.active = a] \in C /\ "idle" \in C BY DEF C
<1>3. \A r \in Shape(C) : r.pc \in Harmless => Fine(r) BY DEF Fine, Harmless
<1>4. Quiet.pc = "idle" /\ "idle" \in Harmless BY QuietShape DEF Quiet, Harmless, Steps
<1>5. /\ [Quiet EXCEPT !.pc = pc] \in Shape(C) /\ [Quiet EXCEPT !.pc = pc].pc = pc BY <1>1, <1>2 DEF Shape
<1>6. /\ [Quiet EXCEPT !.pc = pc, !.id = id] \in Shape(C)
      /\ [Quiet EXCEPT !.pc = pc, !.id = id].pc = pc
  BY <1>1, <1>2 DEF Shape
<1>7. /\ [Quiet EXCEPT !.pc = pc, !.seen = seen] \in Shape(C)
      /\ [Quiet EXCEPT !.pc = pc, !.seen = seen].pc = pc
  BY <1>1, <1>2 DEF Shape
<1>8. [Quiet EXCEPT !.pc = pc, !.seen = seen, !.seen.active = a]
        = [Quiet EXCEPT !.pc = pc, !.seen = [seen EXCEPT !.active = a]]
  BY <1>1 DEF Shape
<1>9. /\ [Quiet EXCEPT !.pc = pc, !.seen = [seen EXCEPT !.active = a]] \in Shape(C)
      /\ [Quiet EXCEPT !.pc = pc, !.seen = [seen EXCEPT !.active = a]].pc = pc
  BY <1>1, <1>2 DEF Shape
<1> QED BY <1>1, <1>3, <1>4, <1>5, <1>6, <1>7, <1>8, <1>9

LEMMA Goes == ASSUME NEW r, Fine(r), NEW pc \in Harmless PROVE Fine([r EXCEPT !.pc = pc])
<1>1. PICK C : r \in Shape(C) BY DEF Fine
<1>2. [r EXCEPT !.pc = pc] \in Shape(C \cup {pc}) /\ [r EXCEPT !.pc = pc].pc = pc BY <1>1 DEF Shape
<1> QED BY <1>2 DEF Fine, Harmless

-----------------------------------------------------------------------------
(* Steps                                                                   *)

(* The rows there are at first have one number each. *)
LEMMA InitRows == Init => RowsOK
<1> SUFFICES ASSUME Init PROVE RowsOK OBVIOUS
<1> DEFINE f == [i \in made |-> rows[i]]
           n == Cardinality(made)
<1>0. made \subseteq Ids /\ rows \in [Ids -> 0..Limit] /\ Present(rows) = made /\ {rows[i] : i \in made} = 1..n
  BY DEF Init
<1>1. IsFiniteSet(made) BY <1>0, IdsAssumption, FS_Subset
<1>2. n \in Nat BY <1>1, FS_CardinalityType
<1>3. Cardinality(1..n) = n
  <2>1. 1 \in Int /\ n \in Int /\ (IF 1 > n THEN 0 ELSE n - 1 + 1) = n BY <1>2
  <2> HIDE DEF n
  <2>2. Cardinality(1..n) = IF 1 > n THEN 0 ELSE n - 1 + 1 BY <2>1, FS_Interval, Zenon
  <2> QED BY <2>1, <2>2
<1>4. f \in [made -> 1..n] BY <1>0
<1>5. f \in Surjection(made, 1..n) BY <1>0, <1>4 DEF Surjection
<1>6. f \in Injection(made, 1..n)
  <2> HIDE DEF f
  <2> QED BY <1>1, <1>3, <1>5, FS_Surjection
<1>7. \A i, j \in made : rows[i] = rows[j] => i = j BY <1>6 DEF Injection, IsInjective
<1> QED BY <1>0, <1>7 DEF RowsOK, Present

LEMMA InitOK == Init => IInv
<1> SUFFICES ASSUME Init PROVE IInv OBVIOUS
<1>1. RowsOK BY InitRows
<1>2. RequestsOK
  <2>1. req \in [Slots -> {Quiet}] /\ \A s \in Slots : req[s] = Quiet BY DEF Init
  <2>2. "idle" \in Harmless BY DEF Harmless, Steps
  <2> QED BY <2>1, <2>2, Blank DEF RequestsOK
<1> QED BY <1>1, <1>2 DEF IInv

(* What a tab fetches changes nothing but what it shows. *)
Fetches == \E t \in Tabs : FetchReads(t) \/ FetchShows(t) \/ FetchFails(t)
LEMMA FetchesKeep ==
  ASSUME Fetches PROVE UNCHANGED <<kind, rows, made, active, req, ops, faults, overlapped>>
BY DEF Fetches, FetchReads, FetchShows, FetchFails

(* A request goes on without touching the rows. *)
LEMMA Quietly ==
  ASSUME kind = "agent", IInv, UNCHANGED <<kind, rows>>, NEW s \in Slots, NEW r, Fine(r),
         req' = [req EXCEPT ![s] = r]
  PROVE  IInv'
BY Moved DEF IInv, RowsOK

LEMMA PanelsOK ==
  ASSUME kind = "agent", IInv,
         \/ \E t \in Tabs : ClickPublish(t) \/ \E v \in Ids : ClickVersion(t, v)
         \/ \E s \in Slots : ShowAnswer(s) \/ ShowError(s)
  PROVE  IInv'
<1>1. "read" \in Harmless /\ "idle" \in Harmless BY DEF Harmless, Steps
<1>2. ASSUME NEW s \in Slots, NEW id, Send(s, id) PROVE IInv'
  <2>1. Fine([Quiet EXCEPT !.pc = "read", !.id = id]) BY <1>1, Blank
  <2> QED BY <1>2, <2>1, Quietly DEF Send
<1>3. ASSUME NEW s \in Slots, ShowAnswer(s) \/ ShowError(s) PROVE IInv'
  <2>1. Fine(Quiet) BY <1>1, Blank
  <2> QED BY <1>3, <2>1, Quietly DEF ShowAnswer, ShowError
<1>5. \A t \in Tabs : \A op \in Ops : <<t, op>> \in Slots BY DEF Slots
<1>6. {"publish", "activate", "delete"} \subseteq Ops BY DEF Ops
<1>7. ASSUME NEW t \in Tabs, ClickPublish(t) \/ \E v \in Ids : ClickVersion(t, v) PROVE IInv'
  <2>1. \E op \in Ops : \E id : Send(<<t, op>>, id) BY <1>6, <1>7 DEF ClickPublish, ClickVersion
  <2> QED BY <1>2, <1>5, <2>1
<1> QED BY <1>3, <1>7

LEMMA ReadsOK ==
  ASSUME kind = "agent", IInv, NEW s \in Slots,
         \/ Reread(s) \/ WriteActiveBack(s) \/ ClearActive(s) \/ ReadForActivate(s) \/ Activate(s)
  PROVE  IInv'
<1>1. UNCHANGED <<kind, rows>> /\ Fine(req[s])
  BY DEF Reread, WriteActiveBack, ClearActive, ReadForActivate, Activate, IInv, RequestsOK
<1>2. {"answer", "reread", "failed", "activate"} \subseteq Harmless BY DEF Harmless, Steps
<1>3. \/ \E a : req' = [req EXCEPT ![s] = [Quiet EXCEPT !.pc = "answer", !.seen = Stored, !.seen.active = a]]
      \/ req' = [req EXCEPT ![s] = [Quiet EXCEPT !.pc = "answer", !.seen = Stored]]
      \/ Jump(s, "failed") \/ Jump(s, "reread") \/ Go(s, "activate")
  BY DEF Reread, WriteActiveBack, ClearActive, ReadForActivate, Activate
<1>4. ASSUME NEW a, req' = [req EXCEPT ![s] = [Quiet EXCEPT !.pc = "answer", !.seen = Stored, !.seen.active = a]]
      PROVE  IInv'
  <2>1. PICK seen : seen = Stored OBVIOUS
  <2>2. Fine([Quiet EXCEPT !.pc = "answer", !.seen = seen, !.seen.active = a]) BY <1>2, Blank
  <2> QED BY <1>1, <1>4, <2>1, <2>2, Quietly
<1>5. CASE req' = [req EXCEPT ![s] = [Quiet EXCEPT !.pc = "answer", !.seen = Stored]]
  <2>1. PICK seen : seen = Stored OBVIOUS
  <2>2. Fine([Quiet EXCEPT !.pc = "answer", !.seen = seen]) BY <1>2, Blank
  <2> QED BY <1>1, <1>5, <2>1, <2>2, Quietly
<1>6. ASSUME NEW pc \in Harmless, Jump(s, pc) PROVE IInv'
  <2>1. Fine([Quiet EXCEPT !.pc = pc]) BY Blank
  <2> QED BY <1>1, <1>6, <2>1, Quietly DEF Jump
<1>7. CASE Go(s, "activate")
  <2>1. PICK r : r = [req[s] EXCEPT !.pc = "activate"] OBVIOUS
  <2>2. Fine(r) BY <1>1, <1>2, <2>1, Goes
  <2>3. req' = [req EXCEPT ![s] = r] BY <1>7, <2>1 DEF Go
  <2> QED BY <1>1, <2>2, <2>3, Quietly
<1> QED BY <1>2, <1>3, <1>4, <1>5, <1>6, <1>7

(* A request that has failed. *)
LEMMA Fails ==
  ASSUME kind = "agent", IInv, UNCHANGED <<kind, rows>>, NEW s \in Slots, Jump(s, "failed") PROVE IInv'
<1>1. "failed" \in Harmless BY DEF Harmless, Steps
<1>2. Fine([Quiet EXCEPT !.pc = "failed"]) BY <1>1, Blank
<1> QED BY <1>2, Quietly DEF Jump

(* A publish that has counted fewer than Limit rows takes one of the numbers up to Limit. *)
LEMMA CountOK == ASSUME kind = "agent", IInv, NEW s \in Slots, ReadForPublish(s) PROVE IInv'
<1>1. UNCHANGED <<kind, rows>> BY DEF ReadForPublish
<1>2. CASE Cardinality(Present(rows)) >= Limit BY <1>1, <1>2, Fails DEF ReadForPublish
<1>3. CASE ~(Cardinality(Present(rows)) >= Limit)
  <2>1. NextNumber(rows) \in 1..Limit
    <3>1. Cardinality(Present(rows)) \in Nat BY FewRows, FS_CardinalityType DEF IInv, Few
    <3>2. NextNumber(rows) = Cardinality(Present(rows)) + 1 BY DEF NextNumber
    <3> QED BY <1>3, <3>1, <3>2 DEF Limit
  <2>2. PICK n : n = NextNumber(rows) OBVIOUS
  <2>3. req' = [req EXCEPT ![s] = [req[s] EXCEPT !.pc = "create", !.number = n]]
    BY <1>3, <2>2 DEF ReadForPublish
  <2>4. Fine([req[s] EXCEPT !.pc = "create", !.number = n])
    <3>1. PICK C : req[s] \in Shape(C) BY DEF IInv, RequestsOK, Fine
    <3>2. PICK r : r = [req[s] EXCEPT !.pc = "create", !.number = n] OBVIOUS
    <3>3. r \in Shape(C \cup {"create", n}) /\ r.pc = "create" /\ r.number = n BY <3>1, <3>2 DEF Shape
    <3> QED BY <2>1, <2>2, <3>2, <3>3 DEF Fine
  <2> QED BY <1>1, <2>3, <2>4, Quietly
<1> QED BY <1>2, <1>3

(* The unique index lets nothing in that has another row's number. *)
LEMMA CreateOK == ASSUME kind = "agent", IInv, NEW s \in Slots, CreateVersion(s) PROVE IInv'
<1>1. CASE \E i \in Ids : rows[i] = req[s].number BY <1>1, Fails DEF CreateVersion
<1>2. CASE ~\E i \in Ids : rows[i] = req[s].number
  <2>1. PICK i \in Ids : rows' = [rows EXCEPT ![i] = req[s].number] /\ Jump(s, "reread") /\ kind' = kind
    BY <1>2 DEF CreateVersion
  <2>2. req[s].number \in 1..Limit BY DEF CreateVersion, At, IInv, RequestsOK, Fine
  <2>3. RowsOK' BY <1>2, <2>1, <2>2 DEF IInv, RowsOK, Limit
  <2>4. "reread" \in Harmless BY DEF Harmless, Steps
  <2>5. RequestsOK' BY <2>1, <2>4, Blank, Moved DEF Jump
  <2> QED BY <2>3, <2>5 DEF IInv
<1> QED BY <1>1, <1>2

(* A deletion takes a snapshot of what is there ... *)
LEMMA SnapshotOK == ASSUME kind = "agent", IInv, NEW s \in Slots, ReadForDelete(s) PROVE IInv'
<1>1. UNCHANGED <<kind, rows>> BY DEF ReadForDelete
<1>2. CASE Jump(s, "failed") BY <1>1, <1>2, Fails
<1>3. CASE req' = [req EXCEPT ![s].pc = "remove", ![s].seen = Stored]
  <2>1. PICK seen : seen = Stored OBVIOUS
  <2>2. Few(Present(seen.rows)) BY <2>1, FewRows DEF IInv, Stored
  <2>3. PICK C : req[s] \in Shape(C) BY DEF IInv, RequestsOK, Fine
  <2>4. PICK r : r = [req[s] EXCEPT !.pc = "remove", !.seen = seen] OBVIOUS
  <2>5. r \in Shape(C \cup {"remove", seen}) /\ r.pc = "remove" /\ r.seen = seen BY <2>3, <2>4 DEF Shape
  <2>6. Fine(r) BY <2>2, <2>5 DEF Fine
  <2>7. req' = [req EXCEPT ![s] = r] BY <1>3, <2>1, <2>4 DEF IInv, RequestsOK
  <2> QED BY <1>1, <2>6, <2>7, Quietly
<1> QED BY <1>2, <1>3 DEF ReadForDelete

(* ... and numbers what is left of it, which is no more than Limit. *)
LEMMA Remaining ==
  ASSUME NEW rs, Few(Present(rs)), NEW gone PROVE Len(Ordered(rs, gone)) \in 0..Limit
<1> DEFINE left == Present(rs) \ {gone}
           n == Cardinality(left)
<1>1. IsFiniteSet(left) /\ n <= Cardinality(Present(rs)) BY FS_Subset DEF Few
<1>2. n \in Nat /\ Cardinality(Present(rs)) \in Nat BY <1>1, FS_CardinalityType DEF Few
<1>3. n \in 0..Limit BY <1>1, <1>2 DEF Few, Limit
<1>4. PICK S : Ordered(rs, gone) \in [1..n -> S]
  <2> DEFINE rank(i) == Cardinality({j \in left : rs[j] <= rs[i]})
             row(m) == CHOOSE i \in left : rank(i) = m
  <2>1. Ordered(rs, gone) = [m \in 1..n |-> row(m)] BY DEF Ordered
  <2> HIDE DEF row, n
  <2>2. [m \in 1..n |-> row(m)] \in [1..n -> {row(m) : m \in 1..n}] OBVIOUS
  <2> QED BY <2>1, <2>2
<1> HIDE DEF n
<1>5. Len(Ordered(rs, gone)) = n BY <1>2, <1>4, IsASeq, LenProperties
<1> QED BY <1>3, <1>5

LEMMA RemoveOK == ASSUME kind = "agent", IInv, NEW s \in Slots, RemoveVersion(s) PROVE IInv'
<1>0. kind' = kind BY DEF RemoveVersion
<1>1. CASE rows[req[s].id] = 0
  <2>1. Jump(s, "failed") /\ rows' = rows BY <1>1 DEF RemoveVersion
  <2> QED BY <1>0, <2>1, Fails
<1>2. CASE rows[req[s].id] # 0
  <2>1. /\ rows' = [rows EXCEPT ![req[s].id] = 0]
        /\ req' = [req EXCEPT ![s] = [req[s] EXCEPT !.pc = "renumber", !.at = 1,
                        !.todo = Ordered(req[s].seen.rows, req[s].id), !.seen.rows = Quiet.seen.rows]]
    BY <1>2 DEF RemoveVersion
  <2>2. RowsOK'
    <3>1. 0 \in 0..Limit BY DEF Limit
    <3> QED BY <2>1, <3>1, Written DEF IInv
  <2>3. Few(Present(req[s].seen.rows)) BY DEF RemoveVersion, At, IInv, RequestsOK, Fine
  <2>4. PICK todo : todo = Ordered(req[s].seen.rows, req[s].id) OBVIOUS
  <2>5. Len(todo) \in 0..Limit BY <2>3, <2>4, Remaining
  <2>6. PICK seen : seen = [req[s].seen EXCEPT !.rows = Quiet.seen.rows] OBVIOUS
  <2>7. PICK C : req[s] \in Shape(C) BY DEF IInv, RequestsOK, Fine
  <2>8. PICK r : r = [req[s] EXCEPT !.pc = "renumber", !.at = 1, !.todo = todo, !.seen = seen] OBVIOUS
  <2>9. r = [req[s] EXCEPT !.pc = "renumber", !.at = 1, !.todo = todo, !.seen.rows = Quiet.seen.rows]
    BY <2>6, <2>7, <2>8 DEF Shape
  <2>10. r \in Shape(C \cup {"renumber", 1, todo, seen}) /\ r.pc = "renumber" /\ r.at = 1 /\ r.todo = todo
    BY <2>7, <2>8 DEF Shape
  <2>11. Fine(r) BY <2>5, <2>10 DEF Fine
  <2>12. RequestsOK' BY <2>1, <2>4, <2>9, <2>11, Moved
  <2> QED BY <2>2, <2>12 DEF IInv
<1> QED BY <1>1, <1>2

LEMMA RenumberOK == ASSUME kind = "agent", IInv, NEW s \in Slots, Renumber(s) PROVE IInv'
<1> DEFINE i == req[s].todo[req[s].at]
           at == req[s].at
<1>0. kind' = kind BY DEF Renumber
<1>1. at \in Nat \ {0} /\ Len(req[s].todo) \in 0..Limit
  BY DEF Renumber, At, IInv, RequestsOK, Fine
<1>2. PICK C : req[s] \in Shape(C) BY DEF IInv, RequestsOK, Fine
<1>3. CASE at > Len(req[s].todo)
  <2>1. req' = [req EXCEPT ![s] = [req[s] EXCEPT !.pc = "clear", !.todo = <<>>, !.at = 0]] /\ rows' = rows
    BY <1>3 DEF Renumber
  <2>2. PICK r : r = [req[s] EXCEPT !.pc = "clear", !.todo = <<>>, !.at = 0] OBVIOUS
  <2>3. r \in Shape(C \cup {"clear", <<>>, 0}) /\ r.pc = "clear" BY <1>2, <2>2 DEF Shape
  <2>4. Fine(r) BY <2>3 DEF Fine
  <2> QED BY <1>0, <2>1, <2>2, <2>4, Quietly
<1>4. CASE ~(at > Len(req[s].todo)) /\ (rows[i] = 0 \/ \E j \in Ids \ {i} : rows[j] = at)
  <2>1. Jump(s, "failed") /\ rows' = rows BY <1>4 DEF Renumber
  <2> QED BY <1>0, <2>1, Fails
<1>5. CASE ~(at > Len(req[s].todo)) /\ ~(rows[i] = 0 \/ \E j \in Ids \ {i} : rows[j] = at)
  <2>1. rows' = [rows EXCEPT ![i] = at] /\ req' = [req EXCEPT ![s].at = at + 1]
    BY <1>5 DEF Renumber
  <2>2. at \in 1..Limit BY <1>1, <1>5 DEF Limit
  <2>3. RowsOK'
    <3> HIDE DEF i, at
    <3>1. at \in 0..Limit BY <2>2 DEF Limit
    <3> QED BY <1>5, <2>1, <3>1, Written DEF IInv
  <2>4. PICK r : r = [req[s] EXCEPT !.at = at + 1] OBVIOUS
  <2>5. r \in Shape(C \cup {at + 1}) /\ r.pc = "renumber" /\ r.at = at + 1 /\ r.todo = req[s].todo
    BY <1>2, <2>4 DEF Shape, Renumber, At
  <2>6. Fine(r) BY <1>1, <2>5 DEF Fine
  <2>7. req' = [req EXCEPT ![s] = r] BY <2>1, <2>4 DEF IInv, RequestsOK
  <2>8. RequestsOK' BY <2>6, <2>7, Moved
  <2> QED BY <2>3, <2>8 DEF IInv
<1> QED BY <1>3, <1>4, <1>5

LEMMA RestartOK == ASSUME kind = "agent", IInv, Restart PROVE IInv'
<1>1. UNCHANGED <<kind, rows>> BY DEF Restart
<1>2. "failed" \in Harmless /\ "idle" \in Harmless BY DEF Harmless, Steps
<1>3. PICK q : q = [Quiet EXCEPT !.pc = "failed"] OBVIOUS
<1>4. Fine(q) /\ Fine(Quiet) BY <1>2, <1>3, Blank
<1>5. req' \in [Slots -> {q, Quiet}] BY <1>3 DEF Restart
<1>6. RequestsOK' BY <1>4, <1>5 DEF RequestsOK
<1> QED BY <1>1, <1>6 DEF IInv, RowsOK

LEMMA StepOK == IInv /\ [Next]_vars => IInv'
<1> SUFFICES ASSUME IInv, [Next]_vars PROVE IInv' OBVIOUS
<1>1. kind' = kind
  BY FetchesKeep
     DEF Next, vars, ClickPublish, Fetches, ClickVersion, Send, ShowAnswer, ShowError, Serve,
         ReadForPublish, CreateVersion, Reread, ReadForDelete, RemoveVersion, Renumber,
         WriteActiveBack, ClearActive, ReadForActivate, Activate, Restart
<1>2. CASE kind # "agent" BY <1>1, <1>2 DEF IInv
<1>3. CASE kind = "agent"
  <2>1. CASE UNCHANGED vars \/ Fetches
    BY <2>1, FetchesKeep DEF vars, IInv, RowsOK, RequestsOK
  <2> QED
    BY <1>3, <2>1, PanelsOK, ReadsOK, CountOK, CreateOK, SnapshotOK, RemoveOK, RenumberOK, RestartOK
       DEF Next, Serve, Fetches
<1> QED BY <1>2, <1>3

(* However many requests are in flight and wherever they are cut off, an agent never has more than
   three versions (agents.service.ts:283-304). *)
THEOREM NeverMoreThanThree == Spec => []AtMostThree
<1>1. IInv => AtMostThree BY FewRows DEF IInv, AtMostThree, Few
<1> QED BY <1>1, InitOK, StepOK, PTL DEF Spec

-----------------------------------------------------------------------------
(* Types                                                                   *)

Apart(rs) == \A i, j \in Ids : rs[i] # 0 /\ rs[i] = rs[j] => i = j

Sorted(r) ==
    /\ kind = "agent" /\ r.pc = "remove" => Apart(r.seen.rows)
    /\ r.pc = "renumber" => kind = "agent"

(* Only an agent's deletion puts rows in order, and what it puts in order has one number per row. *)
Snapshots == \A s \in Slots : Sorted(req[s])

(* The types, those of the panels apart: the services do not touch them. *)
Core ==
    /\ kind \in {"agent", "planning"}
    /\ rows \in [Ids -> Numbers]
    /\ made \subseteq Ids
    /\ active \in Ids \cup {Null}
    /\ req \in [Slots -> Request]
    /\ ops \in 0..MaxOps /\ faults \in 0..MaxFaults
    /\ overlapped \in BOOLEAN
Panels == view \in [Tabs -> Answer] /\ fetch \in [Tabs -> SUBSET Answer] /\ missed \subseteq Tabs

TInv == Core /\ Snapshots

LEMMA Forms ==
  ASSUME NEW pc \in Steps, NEW id \in Ids \cup {Null}, NEW seen \in Answer
  PROVE  /\ Quiet \in Request /\ Quiet.pc = "idle" /\ Quiet.seen.rows \in [Ids -> Numbers]
         /\ [Quiet EXCEPT !.pc = pc] \in Request /\ [Quiet EXCEPT !.pc = pc].pc = pc
         /\ [Quiet EXCEPT !.pc = pc, !.id = id] \in Request /\ [Quiet EXCEPT !.pc = pc, !.id = id].pc = pc
         /\ [Quiet EXCEPT !.pc = pc, !.seen = seen] \in Request
         /\ [Quiet EXCEPT !.pc = pc, !.seen = seen].pc = pc
         /\ [Quiet EXCEPT !.pc = pc, !.seen = seen].seen = seen
<1> DEFINE zero == [i \in Ids |-> 0]
           none == [rows |-> zero, active |-> Null]
<1>1. Quiet = [pc |-> "idle", id |-> Null, seen |-> none, number |-> 0, todo |-> <<>>, at |-> 0]
  BY DEF Quiet
<1>2. 0 \in Numbers /\ 0 \in Nat BY DEF Numbers, Limit
<1>3. zero \in [Ids -> Numbers] BY <1>2
<1> HIDE DEF zero
<1>4. none \in Answer /\ none.rows = zero BY <1>3 DEF Answer
<1> HIDE DEF none
<1>5. <<>> \in Seq(Ids) OBVIOUS
<1>6. "idle" \in Steps BY DEF Steps
<1>7. Quiet \in Request BY <1>1, <1>2, <1>4, <1>5, <1>6 DEF Request
<1>8. Quiet.pc = "idle" /\ Quiet.seen = none BY <1>1
<1>9. Quiet.seen.rows \in [Ids -> Numbers] BY <1>3, <1>4, <1>8
<1>10. [Quiet EXCEPT !.pc = pc] \in Request /\ [Quiet EXCEPT !.pc = pc].pc = pc BY <1>7 DEF Request
<1>11. [Quiet EXCEPT !.pc = pc, !.id = id] \in Request /\ [Quiet EXCEPT !.pc = pc, !.id = id].pc = pc
  BY <1>7 DEF Request
<1>12. \A x \in Answer : LET r == [Quiet EXCEPT !.pc = pc, !.seen = x] IN
           r \in Request /\ r.pc = pc /\ r.seen = x
  BY <1>7 DEF Request
<1> QED BY <1>7, <1>8, <1>9, <1>10, <1>11, <1>12

(* ... and the answer with the pointer that was written. *)
LEMMA Answers ==
  ASSUME NEW seen \in Answer, NEW a \in Ids \cup {Null}
  PROVE  /\ [Quiet EXCEPT !.pc = "answer", !.seen = seen, !.seen.active = a] \in Request
         /\ [Quiet EXCEPT !.pc = "answer", !.seen = seen, !.seen.active = a].pc = "answer"
         /\ [Quiet EXCEPT !.pc = "answer", !.seen = seen, !.seen.active = a].seen
                = [rows |-> seen.rows, active |-> a]
<1>1. "answer" \in Steps /\ Null \in Ids \cup {Null} BY DEF Steps
<1>2. PICK x : x = [rows |-> seen.rows, active |-> a] OBVIOUS
<1>3. [seen EXCEPT !.active = a] = x /\ x \in Answer BY <1>2 DEF Answer
<1>4. Quiet \in Request BY <1>1, <1>3, Forms
<1>5. [Quiet EXCEPT !.pc = "answer", !.seen = seen, !.seen.active = a]
          = [Quiet EXCEPT !.pc = "answer", !.seen = [seen EXCEPT !.active = a]]
  BY <1>4 DEF Request
<1>6. PICK r : r = [Quiet EXCEPT !.pc = "answer", !.seen = x] OBVIOUS
<1>7. r \in Request /\ r.pc = "answer" /\ r.seen = x BY <1>1, <1>3, <1>4, <1>6 DEF Request
<1> QED BY <1>2, <1>3, <1>5, <1>6, <1>7

(* One request changes, the others stay. *)
LEMMA Changed ==
  ASSUME Core, NEW s \in Slots, NEW r \in Request, req' = [req EXCEPT ![s] = r]
  PROVE  req' \in [Slots -> Request] /\ req'[s] = r /\ \A t \in Slots \ {s} : req'[t] = req[t]
BY DEF Core

LEMMA StoredType == ASSUME Core PROVE Stored \in Answer /\ Stored.rows = rows /\ Stored.active = active
BY DEF Core, Answer, Stored

(* The rows keep their types when a number is written. *)
LEMMA RowsType ==
  ASSUME Core, NEW x, NEW n \in Numbers, rows' = [rows EXCEPT ![x] = n] PROVE rows' \in [Ids -> Numbers]
BY DEF Core

(* Rows that show no three different numbers leave one of the first three free. *)
LEMMA FreeNumber ==
  ASSUME NEW rs \in [Ids -> Nat], ~(Cardinality(Present(rs)) >= Limit)
  PROVE  /\ \E n \in 1..(Cardinality(Ids) + 1) :
                (\A i \in Ids : rs[i] # n) /\ (\A m \in 1..(n - 1) : \E i \in Ids : rs[i] = m)
         /\ \A n \in 1..(Cardinality(Ids) + 1) : (\A m \in 1..(n - 1) : \E i \in Ids : rs[i] = m) => n <= Limit
<1> DEFINE Used(n) == \E i \in Ids : rs[i] = n
<1>0. Cardinality(Ids) \in Nat /\ IsFiniteSet(Present(rs)) /\ Cardinality(Present(rs)) \in Nat
  <2>1. Present(rs) \in SUBSET Ids BY DEF Present
  <2>2. IsFiniteSet(Present(rs)) BY <2>1, IdsAssumption, FS_Subset
  <2> QED BY <2>2, IdsAssumption, FS_CardinalityType
<1>1. Cardinality(Present(rs)) < 3 BY <1>0 DEF Limit
<1>2. ASSUME Used(1) PROVE Cardinality(Ids) >= 1
  <2>1. PICK i \in Ids : rs[i] = 1 BY <1>2
  <2>2. {i} \in SUBSET Ids /\ Cardinality({i}) = 1 BY <2>1, FS_Singleton
  <2>3. Cardinality({i}) <= Cardinality(Ids) BY <2>2, IdsAssumption, FS_Subset
  <2> QED BY <1>0, <2>2, <2>3
<1>3. ASSUME NEW i \in Ids, NEW j \in Ids, i # j PROVE IsFiniteSet({i, j}) /\ Cardinality({i, j}) = 2
  <2>1. IsFiniteSet({i}) /\ Cardinality({i}) = 1 /\ j \notin {i} BY <1>3, FS_Singleton
  <2>2. {i, j} = {i} \cup {j} OBVIOUS
  <2> QED BY <2>1, <2>2, FS_AddElement
<1>4. ASSUME Used(1), Used(2) PROVE Cardinality(Ids) >= 2
  <2>1. PICK i \in Ids : rs[i] = 1 BY <1>4
  <2>2. PICK j \in Ids : rs[j] = 2 BY <1>4
  <2>3. i # j BY <2>1, <2>2
  <2>4. {i, j} \in SUBSET Ids /\ Cardinality({i, j}) = 2 BY <1>3, <2>3
  <2>5. Cardinality({i, j}) <= Cardinality(Ids) BY <2>4, IdsAssumption, FS_Subset
  <2> QED BY <1>0, <2>4, <2>5
<1>5. ~(Used(1) /\ Used(2) /\ Used(3))
  <2> SUFFICES ASSUME Used(1), Used(2), Used(3) PROVE FALSE OBVIOUS
  <2>1. PICK i \in Ids : rs[i] = 1 OBVIOUS
  <2>2. PICK j \in Ids : rs[j] = 2 OBVIOUS
  <2>3. PICK k \in Ids : rs[k] = 3 OBVIOUS
  <2>4. i # j /\ k \notin {i, j} BY <2>1, <2>2, <2>3
  <2>5. IsFiniteSet({i, j}) /\ Cardinality({i, j}) = 2 BY <1>3, <2>4
  <2>6. Cardinality({i, j} \cup {k}) = 3
    <3>1. PICK S : S = {i, j} OBVIOUS
    <3>2. IsFiniteSet(S) /\ Cardinality(S) = 2 /\ k \notin S BY <2>4, <2>5, <3>1
    <3>3. Cardinality(S \cup {k}) = IF k \in S THEN Cardinality(S) ELSE Cardinality(S) + 1
      BY <3>2, FS_AddElement, Zenon
    <3>4. Cardinality(S \cup {k}) = Cardinality(S) + 1 BY <3>2, <3>3
    <3> QED BY <3>1, <3>2, <3>4
  <2>7. {i, j} \cup {k} \in SUBSET Present(rs) BY <2>1, <2>2, <2>3 DEF Present
  <2>8. Cardinality({i, j} \cup {k}) <= Cardinality(Present(rs)) BY <1>0, <2>7, FS_Subset
  <2> QED BY <1>0, <1>1, <2>6, <2>8
<1>6. \A n \in Nat : (\A i \in Ids : rs[i] # n) <=> ~Used(n) OBVIOUS
<1>7. \A n \in Nat : (\A m \in 1..(n - 1) : \E i \in Ids : rs[i] = m) <=> \A m \in 1..(n - 1) : Used(m) OBVIOUS
<1> HIDE DEF Used
<1>8. \E n \in 1..(Cardinality(Ids) + 1) : ~Used(n) /\ \A m \in 1..(n - 1) : Used(m)
  <2>1. CASE ~Used(1) BY <1>0, <2>1
  <2>2. CASE Used(1) /\ ~Used(2)
    <3>1. 2 \in 1..(Cardinality(Ids) + 1) /\ \A m \in 1..(2 - 1) : Used(m) BY <1>0, <1>2, <2>2
    <3> QED BY <2>2, <3>1
  <2>3. CASE Used(1) /\ Used(2)
    <3>1. 3 \in 1..(Cardinality(Ids) + 1) /\ ~Used(3) BY <1>0, <1>4, <1>5, <2>3
    <3>2. \A m \in 1..(3 - 1) : Used(m) BY <2>3
    <3> QED BY <3>1, <3>2
  <2> QED BY <2>1, <2>2, <2>3
<1>9. \A n \in 1..(Cardinality(Ids) + 1) : (\A m \in 1..(n - 1) : Used(m)) => n <= Limit
  <2> SUFFICES ASSUME NEW n \in 1..(Cardinality(Ids) + 1), \A m \in 1..(n - 1) : Used(m), ~(n <= 3) PROVE FALSE
    BY DEF Limit
  <2>1. 1 \in 1..(n - 1) /\ 2 \in 1..(n - 1) /\ 3 \in 1..(n - 1) BY <1>0
  <2> QED BY <1>5, <2>1
<1>10. \A n \in 1..(Cardinality(Ids) + 1) : n \in Nat BY <1>0
<1> QED BY <1>6, <1>7, <1>8, <1>9, <1>10

(* A publish that has counted fewer than three rows takes a number up to three; a planning agent's,
   the first that is free. *)
LEMMA NextNumberType ==
  ASSUME Core, ~(Cardinality(Present(rows)) >= Limit)
  PROVE  /\ NextNumber(rows) \in 1..Limit
         /\ kind = "agent" => NextNumber(rows) = Cardinality(Present(rows)) + 1
         /\ kind # "agent" => \A i \in Ids : rows[i] # NextNumber(rows)
<1>1. CASE kind = "agent"
  <2>1. Present(rows) \in SUBSET Ids BY DEF Present
  <2>2. IsFiniteSet(Present(rows)) BY <2>1, IdsAssumption, FS_Subset
  <2>3. Cardinality(Present(rows)) \in Nat BY <2>2, FS_CardinalityType
  <2> QED BY <1>1, <2>3 DEF NextNumber, Limit
<1>2. CASE kind # "agent"
  <2> DEFINE Free(n) == /\ \A i \in Ids : rows[i] # n
                        /\ \A m \in 1..(n - 1) : \E i \in Ids : rows[i] = m
  <2>1. rows \in [Ids -> Nat] BY DEF Core, Numbers
  <2>2. \E n \in 1..(Cardinality(Ids) + 1) : Free(n) BY <2>1, FreeNumber
  <2>3. NextNumber(rows) = CHOOSE n \in 1..(Cardinality(Ids) + 1) : Free(n) BY <1>2 DEF NextNumber
  <2>4. NextNumber(rows) \in 1..(Cardinality(Ids) + 1) /\ Free(NextNumber(rows)) BY <2>2, <2>3
  <2>5. NextNumber(rows) <= Limit BY <2>1, <2>4, FreeNumber
  <2>6. Cardinality(Ids) \in Nat BY IdsAssumption, FS_CardinalityType
  <2> QED BY <1>2, <2>4, <2>5, <2>6 DEF Limit
<1> QED BY <1>1, <1>2

(* q lists S in the order of the numbers, each id once, none before its number. *)
Lists(q, S, rs) ==
    /\ q \in Seq(Ids) /\ Len(q) = Cardinality(S) /\ Len(q) \in Nat
    /\ \A n \in 1..Len(q) : q[n] \in S
    /\ \A i \in S : \E n \in 1..Len(q) : q[n] = i
    /\ \A m, n \in 1..Len(q) : q[m] = q[n] => m = n
    /\ \A n \in 1..Len(q) : rs[q[n]] >= n
    /\ \A m, n \in 1..Len(q) : m < n => rs[q[m]] < rs[q[n]]

Numbered(rs) == rs \in [Ids -> Nat] /\ Apart(rs)

(* What is left of rows with different numbers is listed in their order. *)
LEMMA Ranked ==
  ASSUME NEW rs, Numbered(rs), NEW gone PROVE Lists(Ordered(rs, gone), Present(rs) \ {gone}, rs)
<1>0. rs \in [Ids -> Nat] /\ Apart(rs) BY DEF Numbered
<1> DEFINE left == Present(rs) \ {gone}
           upto(i) == {j \in left : rs[j] <= rs[i]}
           rank(i) == Cardinality(upto(i))
           size == Cardinality(left)
           R == [i \in left |-> rank(i)]
<1>1. left \subseteq Ids /\ IsFiniteSet(left) /\ size \in Nat
  <2>1. left \in SUBSET Ids BY DEF Present
  <2>2. IsFiniteSet(left) BY <2>1, IdsAssumption, FS_Subset
  <2> QED BY <2>1, <2>2, FS_CardinalityType
<1>2. \A i \in left : rs[i] \in Nat \ {0} /\ \A j \in left : rs[i] = rs[j] => i = j BY <1>0, <1>1 DEF Present, Apart
<1> HIDE DEF left
<1>3. \A i \in left : upto(i) \in SUBSET left /\ i \in upto(i) /\ IsFiniteSet(upto(i)) /\ rank(i) \in Nat
  <2> SUFFICES ASSUME NEW i \in left
               PROVE  upto(i) \in SUBSET left /\ i \in upto(i) /\ IsFiniteSet(upto(i)) /\ rank(i) \in Nat
    OBVIOUS
  <2>1. upto(i) \in SUBSET left /\ i \in upto(i) BY <1>2
  <2> HIDE DEF upto
  <2>2. IsFiniteSet(upto(i)) BY <1>1, <2>1, FS_Subset
  <2> QED BY <2>1, <2>2, FS_CardinalityType
<1>4. \A i \in left : rank(i) \in 1..size
  <2> SUFFICES ASSUME NEW i \in left PROVE rank(i) \in 1..size OBVIOUS
  <2>0. upto(i) \in SUBSET left /\ i \in upto(i) /\ IsFiniteSet(upto(i)) /\ rank(i) \in Nat BY <1>3
  <2> HIDE DEF upto
  <2>1. rank(i) <= size BY <1>1, <2>0, FS_Subset
  <2>2. rank(i) # 0 BY <2>0, FS_EmptySet
  <2> QED BY <1>1, <2>0, <2>1, <2>2
<1>5. ASSUME NEW i \in left, NEW j \in left, rs[i] < rs[j] PROVE rank(i) < rank(j)
  <2>1. upto(i) \in SUBSET upto(j) BY <1>2, <1>5
  <2>2. j \notin upto(i) BY <1>2, <1>5
  <2>3. j \in upto(j) /\ IsFiniteSet(upto(j)) /\ rank(i) \in Nat /\ rank(j) \in Nat BY <1>3
  <2> HIDE DEF upto
  <2>4. rank(i) <= rank(j) BY <2>1, <2>3, FS_Subset
  <2>5. rank(i) # rank(j) BY <2>1, <2>2, <2>3, FS_Subset
  <2> QED BY <2>3, <2>4, <2>5
<1>6. \A i, j \in left : rank(i) = rank(j) => i = j
  <2> SUFFICES ASSUME NEW i \in left, NEW j \in left, i # j PROVE rank(i) # rank(j) OBVIOUS
  <2>1. rank(i) \in Nat /\ rank(j) \in Nat BY <1>3
  <2>2. rs[i] < rs[j] => rank(i) < rank(j) BY <1>5
  <2>3. rs[j] < rs[i] => rank(j) < rank(i) BY <1>5
  <2>4. rs[i] < rs[j] \/ rs[j] < rs[i] BY <1>2
  <2> HIDE DEF rank
  <2> QED BY <2>1, <2>2, <2>3, <2>4
<1>7. \A i \in left : rank(i) <= rs[i]
  <2> SUFFICES ASSUME NEW i \in left PROVE rank(i) <= rs[i] OBVIOUS
  <2> DEFINE number == [j \in upto(i) |-> rs[j]]
  <2>1. \A j \in upto(i) : j \in left /\ rs[j] \in 1..rs[i] BY <1>2
  <2>2. \A j, k \in upto(i) : rs[j] = rs[k] => j = k BY <1>2
  <2>3. 1 \in Int /\ rs[i] \in Int /\ (IF 1 > rs[i] THEN 0 ELSE rs[i] - 1 + 1) = rs[i] BY <1>2
  <2> HIDE DEF upto
  <2>4. number \in [upto(i) -> 1..rs[i]] BY <2>1
  <2>5. number \in Injection(upto(i), 1..rs[i]) BY <2>2, <2>4 DEF Injection, IsInjective
  <2> HIDE DEF number
  <2>6. IsFiniteSet(1..rs[i]) /\ Cardinality(1..rs[i]) = IF 1 > rs[i] THEN 0 ELSE rs[i] - 1 + 1
    BY <2>3, FS_Interval, Zenon
  <2>7. rank(i) <= Cardinality(1..rs[i]) BY <2>5, <2>6, FS_Injection
  <2> QED BY <2>3, <2>6, <2>7
<1> HIDE DEF rank
<1>8. R \in Surjection(left, 1..size)
  <2>1. R \in [left -> 1..size] BY <1>4
  <2>2. R \in Injection(left, 1..size) BY <1>6, <2>1 DEF Injection, IsInjective
  <2>3. 1 \in Int /\ size \in Int /\ (IF 1 > size THEN 0 ELSE size - 1 + 1) = size BY <1>1
  <2> HIDE DEF size
  <2>4. IsFiniteSet(1..size) /\ Cardinality(1..size) = IF 1 > size THEN 0 ELSE size - 1 + 1
    BY <2>3, FS_Interval, Zenon
  <2>5. Cardinality(left) = Cardinality(1..size) BY <2>3, <2>4 DEF size
  <2> HIDE DEF R
  <2> QED BY <2>2, <2>4, <2>5, FS_Injection
<1>9. \A m \in 1..size : \E i \in left : rank(i) = m BY <1>8 DEF Surjection
<1>10. PICK q : q = Ordered(rs, gone) OBVIOUS
<1>11. q = [m \in 1..size |-> CHOOSE i \in left : rank(i) = m] BY <1>10 DEF Ordered, left, rank
<1> HIDE DEF size
<1>12. \A m \in 1..size : q[m] \in left /\ rank(q[m]) = m BY <1>9, <1>11
<1>13. q \in [1..size -> Ids] BY <1>1, <1>11, <1>12
<1>14. q \in Seq(Ids) /\ Len(q) = size BY <1>1, <1>13, IsASeq, LenProperties DEF size
<1>15. \A i \in left : \E n \in 1..size : q[n] = i
  <2>1. \A i \in left : rank(i) \in 1..size /\ q[rank(i)] = i BY <1>4, <1>6, <1>12 DEF size
  <2> QED BY <1>12, <2>1
<1>16. \A m, n \in 1..size : q[m] = q[n] => m = n BY <1>12
<1>17. \A n \in 1..size : rs[q[n]] >= n BY <1>7, <1>12
<1>18. ASSUME NEW m \in 1..size, NEW n \in 1..size, m < n PROVE rs[q[m]] < rs[q[n]]
  <2>1. q[m] \in left /\ q[n] \in left /\ rank(q[m]) = m /\ rank(q[n]) = n BY <1>12
  <2>2. rs[q[m]] \in Nat /\ rs[q[n]] \in Nat BY <1>2, <2>1
  <2>3. ~(rs[q[n]] < rs[q[m]])
    <3>1. rs[q[n]] < rs[q[m]] => rank(q[n]) < rank(q[m]) BY <1>5, <2>1
    <3> QED BY <1>1, <1>18, <2>1, <3>1
  <2>4. rs[q[m]] # rs[q[n]]
    <3>1. rs[q[m]] = rs[q[n]] => q[m] = q[n] BY <1>2, <2>1
    <3> QED BY <1>1, <1>18, <2>1, <3>1
  <2> QED BY <2>2, <2>3, <2>4
<1>19. Lists(q, left, rs) BY <1>1, <1>12, <1>14, <1>15, <1>16, <1>17, <1>18 DEF size, Lists
<1> QED BY <1>10, <1>19 DEF left

LEMMA TypesInit == Init => TInv
<1> SUFFICES ASSUME Init PROVE TInv OBVIOUS
<1>1. made \subseteq Ids /\ rows \in [Ids -> Numbers] /\ active \in Ids \cup {Null} BY DEF Init, Numbers
<1>2. Quiet \in Request /\ Quiet.pc = "idle"
  <2>1. "idle" \in Steps /\ Null \in Ids \cup {Null} BY DEF Steps
  <2>2. Stored \in Answer BY <1>1 DEF Stored, Answer
  <2> QED BY <2>1, <2>2, Forms
<1>3. req = [s \in Slots |-> Quiet] BY DEF Init
<1>4. req \in [Slots -> Request] /\ \A s \in Slots : req[s] = Quiet BY <1>2, <1>3
<1>5. Snapshots BY <1>2, <1>4 DEF Snapshots, Sorted
<1>8. kind \in {"agent", "planning"} /\ overlapped \in BOOLEAN BY DEF Init
<1>9. ops \in 0..MaxOps /\ faults \in 0..MaxFaults BY BoundAssumption DEF Init
<1> QED BY <1>1, <1>4, <1>5, <1>8, <1>9 DEF TInv, Core

LEMMA Moves ==
  ASSUME TInv, kind' = kind, NEW s \in Slots, NEW r \in Request, req' = [req EXCEPT ![s] = r],
         Sorted(r)
  PROVE  req' \in [Slots -> Request] /\ Snapshots'
<1>1. req' \in [Slots -> Request] /\ req'[s] = r /\ \A t \in Slots \ {s} : req'[t] = req[t]
  BY Changed DEF TInv
<1> QED BY <1>1 DEF TInv, Snapshots, Sorted, Apart

LEMMA TypesPanels ==
  ASSUME TInv,
         \/ \E t \in Tabs : ClickPublish(t) \/ \E v \in Ids : ClickVersion(t, v)
         \/ \E s \in Slots : ShowAnswer(s) \/ ShowError(s)
  PROVE  TInv'
<1>1. "read" \in Steps /\ "idle" \in Steps /\ Null \in Ids \cup {Null} BY DEF Steps
<1>2. Stored \in Answer BY StoredType DEF TInv
<1>3. ASSUME NEW s \in Slots, NEW id \in Ids \cup {Null}, Send(s, id) PROVE TInv'
  <2>1. PICK r : r = [Quiet EXCEPT !.pc = "read", !.id = id] OBVIOUS
  <2>2. r \in Request /\ r.pc = "read" /\ Sorted(r) BY <1>1, <1>2, <2>1, Forms DEF Sorted
  <2>3. UNCHANGED <<kind, rows, made, active, faults>> /\ req' = [req EXCEPT ![s] = r]
    BY <1>3, <2>1 DEF Send
  <2>4. req' \in [Slots -> Request] /\ Snapshots' BY <2>2, <2>3, Moves
  <2>5. ops' \in 0..MaxOps BY <1>3, BoundAssumption DEF Send, TInv, Core
  <2>6. overlapped' \in BOOLEAN BY <1>3 DEF Send
  <2> QED BY <2>3, <2>4, <2>5, <2>6 DEF TInv, Core
<1>4. ASSUME NEW s \in Slots, ShowAnswer(s) \/ ShowError(s) PROVE TInv'
  <2>1. Quiet \in Request /\ Quiet.pc = "idle" /\ Sorted(Quiet) BY <1>1, <1>2, Forms DEF Sorted
  <2>2. UNCHANGED <<kind, rows, made, active, ops, faults, overlapped>> /\ req' = [req EXCEPT ![s] = Quiet]
    BY <1>4 DEF ShowAnswer, ShowError
  <2>3. req' \in [Slots -> Request] /\ Snapshots' BY <2>1, <2>2, Moves
  <2> QED BY <2>2, <2>3 DEF TInv, Core
<1>6. \A t \in Tabs : <<t, "publish">> \in Slots /\ <<t, "activate">> \in Slots /\ <<t, "delete">> \in Slots
  BY DEF Slots, Ops
<1>7. ASSUME NEW t \in Tabs, ClickPublish(t) PROVE TInv' BY <1>1, <1>3, <1>6, <1>7 DEF ClickPublish
<1>8. ASSUME NEW t \in Tabs, NEW v \in Ids, ClickVersion(t, v) PROVE TInv'
  <2>1. \/ Send(<<t, "activate">>, Null) \/ Send(<<t, "activate">>, v) \/ Send(<<t, "delete">>, v)
    BY <1>8 DEF ClickVersion
  <2> QED BY <1>1, <1>3, <1>6, <2>1
<1> QED BY <1>4, <1>7, <1>8

(* Steps of a request that leave kind, panels and counters alone. *)
LEMMA TypesRequest ==
  ASSUME TInv, UNCHANGED <<kind, ops, faults, overlapped>>, NEW s \in Slots, NEW r \in Request,
         req' = [req EXCEPT ![s] = r], Sorted(r),
         rows' \in [Ids -> Numbers], made' \subseteq Ids, active' \in Ids \cup {Null}
  PROVE  TInv'
BY Moves DEF TInv, Core

LEMMA TypesJump ==
  ASSUME TInv, UNCHANGED <<kind, ops, faults, overlapped>>, NEW s \in Slots,
         NEW pc \in Steps \ {"remove", "renumber"}, Jump(s, pc),
         rows' \in [Ids -> Numbers], made' \subseteq Ids, active' \in Ids \cup {Null}
  PROVE  TInv'
<1>1. PICK r : r = [Quiet EXCEPT !.pc = pc] OBVIOUS
<1>2. Stored \in Answer /\ Null \in Ids \cup {Null} /\ pc \in Steps BY StoredType DEF TInv
<1>3. r \in Request /\ r.pc = pc BY <1>1, <1>2, Forms
<1>4. req' = [req EXCEPT ![s] = r] BY <1>1 DEF Jump
<1>5. Sorted(r) BY <1>3 DEF Sorted
<1> QED BY <1>3, <1>4, <1>5, TypesRequest

LEMMA TypesGo ==
  ASSUME TInv, UNCHANGED <<kind, ops, faults, overlapped>>, NEW s \in Slots,
         NEW pc \in Steps \ {"remove", "renumber"}, Go(s, pc),
         rows' \in [Ids -> Numbers], made' \subseteq Ids, active' \in Ids \cup {Null}
  PROVE  TInv'
<1>1. PICK r : r = [req[s] EXCEPT !.pc = pc] OBVIOUS
<1>2. req[s] \in Request /\ pc \in Steps BY DEF TInv, Core
<1>3. r \in Request /\ r.pc = pc BY <1>1, <1>2 DEF Request
<1>4. req' = [req EXCEPT ![s] = r] BY <1>1 DEF Go, TInv, Core
<1>5. Sorted(r) BY <1>3 DEF Sorted
<1> QED BY <1>3, <1>4, <1>5, TypesRequest

LEMMA TypesPublish ==
  ASSUME TInv, NEW s \in Slots, ReadForPublish(s) \/ CreateVersion(s) \/ Reread(s) PROVE TInv'
<1>0. /\ rows \in [Ids -> Numbers] /\ made \subseteq Ids /\ active \in Ids \cup {Null}
      /\ req[s] \in Request
  BY DEF TInv, Core
<1>1. {"failed", "reread"} \subseteq Steps \ {"remove", "renumber"} /\ {"create", "answer"} \subseteq Steps BY DEF Steps
<1>2. UNCHANGED <<kind, ops, faults, overlapped, active>> BY DEF ReadForPublish, CreateVersion, Reread
<1>3. CASE ReadForPublish(s)
  <2>1. rows' = rows /\ made' = made BY <1>3 DEF ReadForPublish
  <2>2. CASE Cardinality(Present(rows)) >= Limit
    <3>1. Jump(s, "failed") BY <1>3, <2>2 DEF ReadForPublish
    <3> QED BY <1>0, <1>1, <1>2, <2>1, <3>1, TypesJump
  <2>3. CASE ~(Cardinality(Present(rows)) >= Limit)
    <3>1. PICK n : n = NextNumber(rows) OBVIOUS
    <3>2. n \in Numbers BY <2>3, <3>1, NextNumberType DEF TInv, Numbers, Limit
    <3>3. PICK r : r = [req[s] EXCEPT !.pc = "create", !.number = n] OBVIOUS
    <3>4. r \in Request /\ r.pc = "create" BY <1>0, <1>1, <3>2, <3>3 DEF Request
    <3>5. req' = [req EXCEPT ![s] = r] BY <1>3, <2>3, <3>1, <3>3 DEF ReadForPublish
    <3>6. Sorted(r) BY <3>4 DEF Sorted
    <3> QED BY <1>0, <1>2, <2>1, <3>4, <3>5, <3>6, TypesRequest
  <2> QED BY <2>2, <2>3
<1>4. CASE CreateVersion(s)
  <2>1. CASE Jump(s, "failed") /\ UNCHANGED <<rows, made>> BY <1>0, <1>1, <1>2, <2>1, TypesJump
  <2>2. CASE \E i \in Ids \ made : rows' = [rows EXCEPT ![i] = req[s].number] /\ made' = made \cup {i} /\ Jump(s, "reread")
    <3>1. PICK i \in Ids : rows' = [rows EXCEPT ![i] = req[s].number] /\ made' = made \cup {i} /\ Jump(s, "reread")
      BY <2>2
    <3>2. PICK n : n = req[s].number OBVIOUS
    <3>3. n \in Numbers BY <1>0, <3>2 DEF Request
    <3>4. rows' \in [Ids -> Numbers] BY <3>1, <3>2, <3>3, RowsType DEF TInv
    <3>5. made' \subseteq Ids BY <1>0, <3>1
    <3> QED BY <1>0, <1>1, <1>2, <3>1, <3>4, <3>5, TypesJump
  <2> QED BY <1>4, <2>1, <2>2 DEF CreateVersion
<1>5. CASE Reread(s)
  <2>1. PICK seen \in Answer : seen = Stored BY StoredType DEF TInv
  <2>2. PICK r : r = [Quiet EXCEPT !.pc = "answer", !.seen = seen] OBVIOUS
  <2>3. r \in Request /\ r.pc = "answer"
    <3>1. "answer" \in Steps /\ Null \in Ids \cup {Null} BY <1>1
    <3> QED BY <2>2, <3>1, Forms, Zenon
  <2>4. req' = [req EXCEPT ![s] = r] /\ rows' = rows /\ made' = made BY <1>5, <2>1, <2>2 DEF Reread
  <2>5. Sorted(r) BY <2>3 DEF Sorted
  <2> QED BY <1>0, <1>2, <2>3, <2>4, <2>5, TypesRequest
<1> QED BY <1>3, <1>4, <1>5

LEMMA TypesActivate ==
  ASSUME TInv, NEW s \in Slots,
         ReadForActivate(s) \/ Activate(s) \/ WriteActiveBack(s) \/ ClearActive(s)
  PROVE  TInv'
<1>0. /\ rows \in [Ids -> Numbers] /\ made \subseteq Ids /\ active \in Ids \cup {Null}
      /\ req[s] \in Request
  BY DEF TInv, Core
<1>1. {"failed", "reread", "activate"} \subseteq Steps \ {"remove", "renumber"} /\ "answer" \in Steps BY DEF Steps
<1>2. UNCHANGED <<kind, ops, faults, overlapped, rows, made>>
  BY DEF ReadForActivate, Activate, WriteActiveBack, ClearActive
<1>3. req[s].id \in Ids \cup {Null} /\ req[s].seen.active \in Ids \cup {Null} BY <1>0 DEF Request, Answer
<1>4. ASSUME NEW a \in Ids \cup {Null}, active' = a,
             req' = [req EXCEPT ![s] = [Quiet EXCEPT !.pc = "answer", !.seen = Stored, !.seen.active = a]]
      PROVE  TInv'
  <2>1. PICK seen \in Answer : seen = Stored BY StoredType DEF TInv
  <2>2. PICK r : r = [Quiet EXCEPT !.pc = "answer", !.seen = seen, !.seen.active = a] OBVIOUS
  <2>3. r \in Request /\ r.pc = "answer" BY <2>2, Answers
  <2>4. req' = [req EXCEPT ![s] = r] BY <1>4, <2>1, <2>2
  <2>5. Sorted(r) BY <2>3 DEF Sorted
  <2> QED BY <1>0, <1>2, <1>4, <2>3, <2>4, <2>5, TypesRequest
<1>5. CASE ReadForActivate(s)
  <2>1. active' = active /\ (Jump(s, "failed") \/ Go(s, "activate")) BY <1>5 DEF ReadForActivate
  <2>2. CASE Jump(s, "failed") BY <1>0, <1>1, <1>2, <2>1, <2>2, TypesJump
  <2>3. CASE Go(s, "activate") BY <1>0, <1>1, <1>2, <2>1, <2>3, TypesGo
  <2> QED BY <2>1, <2>2, <2>3
<1>6. CASE Activate(s) BY <1>3, <1>4, <1>6 DEF Activate
<1>7. CASE WriteActiveBack(s)
  <2>1. PICK a : a = IF req[s].seen.active = req[s].id THEN Null ELSE req[s].seen.active OBVIOUS
  <2>2. a \in Ids \cup {Null} BY <1>3, <2>1
  <2> QED BY <1>4, <1>7, <2>1, <2>2 DEF WriteActiveBack
<1>8. CASE ClearActive(s)
  <2>1. active' \in Ids \cup {Null} /\ Jump(s, "reread") BY <1>0, <1>8 DEF ClearActive
  <2> QED BY <1>0, <1>1, <1>2, <2>1, TypesJump
<1> QED BY <1>5, <1>6, <1>7, <1>8

LEMMA TypesDelete ==
  ASSUME IInv, TInv, NEW s \in Slots, ReadForDelete(s) \/ RemoveVersion(s) \/ Renumber(s) PROVE TInv'
<1>0. /\ rows \in [Ids -> Numbers] /\ made \subseteq Ids /\ active \in Ids \cup {Null}
      /\ req[s] \in Request /\ req \in [Slots -> Request]
  BY DEF TInv, Core
<1>1. {"failed", "clear"} \subseteq Steps \ {"remove", "renumber"} /\ {"remove", "renumber"} \subseteq Steps BY DEF Steps
<1>2. UNCHANGED <<kind, made, active, ops, faults, overlapped>>
  BY DEF ReadForDelete, RemoveVersion, Renumber
<1>3. CASE ReadForDelete(s)
  <2>1. rows' = rows BY <1>3 DEF ReadForDelete
  <2>2. CASE Jump(s, "failed") BY <1>0, <1>1, <1>2, <2>1, <2>2, TypesJump
  <2>3. CASE req' = [req EXCEPT ![s].pc = "remove", ![s].seen = Stored]
    <3>1. PICK seen \in Answer : seen = Stored /\ seen.rows = rows BY StoredType DEF TInv
    <3>2. PICK r : r = [req[s] EXCEPT !.pc = "remove", !.seen = seen] OBVIOUS
    <3>3. r \in Request /\ r.seen = seen BY <1>0, <1>1, <3>2 DEF Request
    <3>4. req' = [req EXCEPT ![s] = r] BY <1>0, <2>3, <3>1, <3>2
    <3>5. kind = "agent" => Apart(r.seen.rows) BY <3>1, <3>3 DEF IInv, RowsOK, Apart
    <3>6. r.pc = "remove" BY <1>0, <3>2 DEF Request
    <3>7. Sorted(r) BY <3>5, <3>6 DEF Sorted
    <3> QED BY <1>0, <1>2, <2>1, <3>3, <3>4, <3>7, TypesRequest
  <2> QED BY <1>3, <2>2, <2>3 DEF ReadForDelete
<1>4. CASE RemoveVersion(s)
  <2>1. CASE Jump(s, "failed") /\ rows' = rows BY <1>0, <1>1, <1>2, <2>1, TypesJump
  <2>2. CASE rows' = [rows EXCEPT ![req[s].id] = 0]
    <3>1. 0 \in Numbers BY DEF Numbers, Limit
    <3>2. rows' \in [Ids -> Numbers] BY <2>2, <3>1, RowsType DEF TInv
    <3>3. CASE Go(s, "clear") BY <1>0, <1>1, <1>2, <3>2, <3>3, TypesGo
    <3>4. CASE /\ kind = "agent"
               /\ req' = [req EXCEPT ![s] = [req[s] EXCEPT !.pc = "renumber", !.at = 1,
                              !.todo = Ordered(req[s].seen.rows, req[s].id), !.seen.rows = Quiet.seen.rows]]
      <4>1. PICK todo : todo = Ordered(req[s].seen.rows, req[s].id) OBVIOUS
      <4>2. todo \in Seq(Ids)
        <5>1. PICK rs : rs = req[s].seen.rows OBVIOUS
        <5>2. PICK gone : gone = req[s].id OBVIOUS
        <5>3. rs \in [Ids -> Nat] BY <1>0, <5>1 DEF Request, Answer, Numbers
        <5>4. req[s].pc = "remove" BY <1>4 DEF RemoveVersion, At
        <5>5. Numbered(rs) BY <3>4, <5>1, <5>3, <5>4 DEF TInv, Snapshots, Sorted, Numbered
        <5>6. Lists(Ordered(rs, gone), Present(rs) \ {gone}, rs) BY <5>5, Ranked
        <5> QED BY <4>1, <5>1, <5>2, <5>6 DEF Lists
      <4>3. PICK zero \in [Ids -> Numbers] : zero = Quiet.seen.rows
        <5>1. Stored \in Answer /\ "idle" \in Steps /\ Null \in Ids \cup {Null} BY StoredType DEF TInv, Steps
        <5> QED BY <5>1, Forms
      <4>4. PICK seen : seen = [req[s].seen EXCEPT !.rows = zero] OBVIOUS
      <4>5. req[s].seen \in Answer BY <1>0 DEF Request
      <4>6. seen \in Answer BY <4>4, <4>5 DEF Answer
      <4>7. PICK r : r = [req[s] EXCEPT !.pc = "renumber", !.at = 1, !.todo = todo, !.seen = seen] OBVIOUS
      <4>8. r \in Request /\ r.pc = "renumber" BY <1>0, <1>1, <4>2, <4>6, <4>7 DEF Request
      <4>9. r = [req[s] EXCEPT !.pc = "renumber", !.at = 1, !.todo = todo, !.seen.rows = zero]
        BY <1>0, <4>4, <4>7 DEF Request
      <4>10. req' = [req EXCEPT ![s] = r] BY <3>4, <4>1, <4>3, <4>9
      <4>11. Sorted(r) BY <3>4, <4>8 DEF Sorted
      <4> QED BY <1>0, <1>2, <3>2, <4>8, <4>10, <4>11, TypesRequest
    <3> QED BY <1>4, <2>2, <3>3, <3>4, <2>1 DEF RemoveVersion
  <2> QED BY <1>4, <2>1, <2>2 DEF RemoveVersion
<1>5. CASE Renumber(s)
  <2>0. /\ req[s].pc = "renumber" /\ req[s].at \in Nat /\ req[s].todo \in Seq(Ids)
    BY <1>0, <1>5 DEF Renumber, At, Request
  <2>1. CASE req[s].at > Len(req[s].todo)
    <3>1. PICK r : r = [req[s] EXCEPT !.pc = "clear", !.todo = <<>>, !.at = 0] OBVIOUS
    <3>2. <<>> \in Seq(Ids) /\ 0 \in Nat OBVIOUS
    <3>3. r \in Request /\ r.pc = "clear" BY <1>0, <1>1, <3>1, <3>2 DEF Request
    <3>4. req' = [req EXCEPT ![s] = r] /\ rows' = rows BY <1>5, <2>1, <3>1 DEF Renumber
    <3>5. Sorted(r) BY <3>3 DEF Sorted
    <3> QED BY <1>0, <1>2, <3>3, <3>4, <3>5, TypesRequest
  <2>2. CASE ~(req[s].at > Len(req[s].todo))
    <3>1. CASE Jump(s, "failed") /\ rows' = rows BY <1>0, <1>1, <1>2, <3>1, TypesJump
    <3>2. CASE /\ rows' = [rows EXCEPT ![req[s].todo[req[s].at]] = req[s].at]
               /\ req' = [req EXCEPT ![s].at = req[s].at + 1]
      <4>1. PICK n : n = req[s].at + 1 OBVIOUS
      <4>2. PICK r : r = [req[s] EXCEPT !.at = n] OBVIOUS
      <4>3. n \in Nat BY <2>0, <4>1
      <4>4. r \in Request /\ r.pc = "renumber" BY <1>0, <2>0, <4>2, <4>3 DEF Request
      <4>5. req' = [req EXCEPT ![s] = r] BY <1>0, <3>2, <4>1, <4>2
      <4>6. kind = "agent" => rows' \in [Ids -> Numbers]
        <5>1. SUFFICES ASSUME kind = "agent" PROVE rows' \in [Ids -> Numbers] BY <1>2
        <5>2. IInv' BY <1>5, <5>1, RenumberOK
        <5> QED BY <1>2, <5>1, <5>2 DEF IInv, RowsOK, Numbers
      <4>7. kind = "agent" BY <2>0 DEF TInv, Snapshots, Sorted
      <4>8. Sorted(r) BY <4>4, <4>7 DEF Sorted
      <4> QED BY <1>0, <1>2, <4>4, <4>5, <4>6, <4>7, <4>8, TypesRequest
    <3> QED BY <1>5, <2>2, <3>1, <3>2 DEF Renumber
  <2> QED BY <2>1, <2>2
<1> QED BY <1>3, <1>4, <1>5

LEMMA TypesRestart == ASSUME TInv, Restart PROVE TInv'
<1>1. PICK q : q = [Quiet EXCEPT !.pc = "failed"] OBVIOUS
<1>2. Stored \in Answer /\ {"idle", "failed"} \subseteq Steps /\ Null \in Ids \cup {Null}
  BY StoredType DEF TInv, Steps
<1>3. q \in Request /\ q.pc = "failed" BY <1>1, <1>2, Forms
<1>4. Quiet \in Request /\ Quiet.pc = "idle" BY <1>2, Forms
<1>5. Sorted(q) /\ Sorted(Quiet) BY <1>3, <1>4 DEF Sorted
<1>6. UNCHANGED <<kind, rows, made, active, ops>> /\ faults < MaxFaults /\ faults' = faults + 1
  BY DEF Restart
<1>7. req' = [s \in Slots |-> IF s \in InFlight THEN q ELSE Quiet] BY <1>1 DEF Restart
<1>8. req' \in [Slots -> {q, Quiet}] BY <1>7
<1>9. req' \in [Slots -> Request] BY <1>3, <1>4, <1>8
<1>10. Snapshots' BY <1>5, <1>6, <1>8 DEF Snapshots, Sorted, Apart
<1>11. faults' \in 0..MaxFaults BY <1>6, BoundAssumption DEF TInv, Core
<1>12. overlapped' \in BOOLEAN BY DEF Restart
<1> QED BY <1>6, <1>9, <1>10, <1>11, <1>12 DEF TInv, Core

LEMMA TypesStep == IInv /\ TInv /\ [Next]_vars => TInv'
<1> SUFFICES ASSUME IInv, TInv, [Next]_vars PROVE TInv' OBVIOUS
<1>1. CASE UNCHANGED vars \/ Fetches
  BY <1>1, FetchesKeep DEF vars, TInv, Core, Snapshots, Sorted, Apart
<1> QED
  BY <1>1, TypesPanels, TypesPublish, TypesActivate, TypesDelete, TypesRestart DEF Next, Serve, Fetches

(* Whatever a panel is given, an answer or what a fetch has read, was read as a whole. *)
LEMMA PanelsInit == Init => Panels
<1> SUFFICES ASSUME Init PROVE Panels OBVIOUS
<1>1. Stored \in Answer BY TypesInit, StoredType DEF TInv
<1> QED BY <1>1 DEF Init, Panels

LEMMA Served == ASSUME NEW s \in Slots, Serve(s) PROVE UNCHANGED <<view, fetch, overlapped, ops>> /\ Misses(s)
BY DEF Serve, Misses, ReadForPublish, CreateVersion, Reread, ReadForDelete, RemoveVersion, Renumber,
       WriteActiveBack, ClearActive, ReadForActivate, Activate

LEMMA PanelsStep == TInv /\ Panels /\ [Next]_vars => Panels'
<1> SUFFICES ASSUME TInv, Panels, [Next]_vars PROVE Panels' OBVIOUS
<1>1. Stored \in Answer BY StoredType DEF TInv
<1>2. CASE UNCHANGED vars BY <1>2 DEF vars, Panels
<1>3. ASSUME NEW s \in Slots, NEW id, Send(s, id) PROVE Panels' BY <1>3 DEF Send, Panels
<1>4. ASSUME NEW t \in Tabs, ClickPublish(t) \/ \E v \in Ids : ClickVersion(t, v) PROVE Panels'
  <2>1. \A op \in Ops : <<t, op>> \in Slots BY DEF Slots
  <2>2. {"publish", "activate", "delete"} \subseteq Ops BY DEF Ops
  <2>3. \E op \in Ops : \E id : Send(<<t, op>>, id) BY <1>4, <2>2 DEF ClickPublish, ClickVersion
  <2> QED BY <1>3, <2>1, <2>3
<1>5. ASSUME NEW t \in Tabs, FetchReads(t) PROVE Panels'
  <2>1. PICK seen \in Answer : seen = Stored BY <1>1
  <2>2. fetch' = [fetch EXCEPT ![t] = {seen}] BY <1>5, <2>1 DEF FetchReads
  <2> QED BY <1>5, <2>2 DEF FetchReads, Seen, Panels
<1>6. ASSUME NEW t \in Tabs, FetchShows(t) PROVE Panels'
  <2>1. PICK got \in Answer : view' = [view EXCEPT ![t] = got] BY <1>6 DEF FetchShows, Panels
  <2> QED BY <1>6, <2>1 DEF FetchShows, Panels
<1>7. ASSUME NEW t \in Tabs, FetchFails(t) PROVE Panels' BY <1>7 DEF FetchFails, Panels
<1>8. ASSUME NEW s \in Slots, ShowAnswer(s) PROVE Panels'
  <2>1. PICK seen \in Answer : seen = req[s].seen BY DEF TInv, Core, Request
  <2>2. view' = [view EXCEPT ![s[1]] = seen] BY <1>8, <2>1 DEF ShowAnswer
  <2>3. missed' \subseteq missed /\ fetch' = fetch BY <1>8 DEF ShowAnswer, Seen
  <2> QED BY <2>2, <2>3 DEF Panels
<1>9. ASSUME NEW s \in Slots, ShowError(s) PROVE Panels' BY <1>9 DEF ShowError, Panels
<1>10. ASSUME NEW s \in Slots, Serve(s) PROVE Panels' BY <1>10, Served DEF Misses, Panels
<1>11. CASE Restart BY <1>11 DEF Restart, Panels
<1> QED BY <1>2, <1>4, <1>5, <1>6, <1>7, <1>8, <1>9, <1>10, <1>11 DEF Next

LEMMA TypesAlways == Spec => [](IInv /\ TInv /\ Panels)
<1>1. Init => IInv /\ TInv /\ Panels BY InitOK, TypesInit, PanelsInit
<1>2. IInv /\ TInv /\ Panels /\ [Next]_vars => (IInv /\ TInv /\ Panels)' BY StepOK, TypesStep, PanelsStep
<1> QED BY <1>1, <1>2, PTL DEF Spec

(* Every row, pointer, request and panel keeps its type, for an agent and for a planning agent, whatever
   requests overlap or are cut off: in particular no number above three is ever written
   (agents.service.ts:283-304, 343-351; planning-agent.service.ts:97-124). *)
THEOREM TypeCorrect == Spec => []TypeOK
<1>1. IInv /\ TInv /\ Panels => TypeOK BY DEF TInv, Core, Panels, TypeOK
<1> QED BY <1>1, TypesAlways, PTL

-----------------------------------------------------------------------------
(* One request after the other                                             *)

Count == Cardinality(Present(rows))

InOrder == Apart(rows) /\ \A i \in Ids : rows[i] <= IF kind = "agent" THEN Count ELSE Limit

Pointing == active # Null => rows[active] # 0

(* The rows that are left, in order: those before the loop's place have their number, no other one has a
   number below its place, and no two change places. *)
Renumbering(r) ==
    /\ Len(r.todo) = Count
    /\ \A n \in 1..Len(r.todo) : r.todo[n] \in Present(rows)
    /\ \A i \in Present(rows) : \E n \in 1..Len(r.todo) : r.todo[n] = i
    /\ \A m, n \in 1..Len(r.todo) : r.todo[m] = r.todo[n] => m = n
    /\ \A n \in 1..Len(r.todo) : IF n < r.at THEN rows[r.todo[n]] = n ELSE rows[r.todo[n]] >= n
    /\ \A m, n \in 1..Len(r.todo) : m < n => rows[r.todo[m]] < rows[r.todo[n]]

(* The pointer is the one that was read, and names at most the version that is gone. *)
Leaving(r) ==
    /\ r.seen.active = active
    /\ active \in {Null, r.id} \/ rows[active] # 0
    /\ r.id \notin Present(rows)

(* What the table and the only request under way know of each other. *)
Calm(r) ==
    /\ r.pc \notin {"renumber", "clear"} => Pointing
    /\ r.pc # "renumber" => InOrder
    /\ r.pc = "create" => /\ r.number \in 1..Limit
                          /\ \A i \in Ids : rows[i] # r.number
                          /\ kind = "agent" => r.number = Count + 1
                          /\ Count < Limit
    /\ r.pc \in {"remove", "answer"} => r.seen = Stored
    /\ r.pc = "activate" => (r.id # Null => rows[r.id] # 0)
    /\ r.pc \in {"renumber", "clear"} => Leaving(r)
    /\ r.pc = "renumber" => Renumbering(r)

Orderly ==
    ~overlapped =>
        /\ \A s, t \in InFlight : s = t
        /\ InFlight = {} => InOrder /\ Pointing
        /\ \A s \in InFlight : Calm(req[s])

Made == Present(rows) \subseteq made

SInv == IInv /\ TInv /\ Orderly /\ Made

LEMMA CountType == IsFiniteSet(Present(rows)) /\ Count \in Nat
<1>1. Present(rows) \in SUBSET Ids BY DEF Present
<1>2. IsFiniteSet(Present(rows)) BY <1>1, IdsAssumption, FS_Subset
<1> QED BY <1>2, FS_CardinalityType DEF Count

(* Whose turn it is. *)
LEMMA Turn ==
  ASSUME SInv, ~overlapped, NEW s \in Slots, req[s].pc # "idle"
  PROVE  InFlight = {s} /\ Calm(req[s]) /\ req[s] \in Request /\ rows \in [Ids -> Numbers]
<1>1. s \in InFlight BY DEF InFlight
<1> QED BY <1>1 DEF SInv, Orderly, TInv, Core

LEMMA After ==
  ASSUME SInv, ~overlapped, NEW s \in Slots, InFlight \subseteq {s}, NEW r \in Request, req' = [req EXCEPT ![s] = r],
         r.pc = "idle" => InOrder' /\ Pointing', r.pc # "idle" => Calm(r)'
  PROVE  Orderly'
<1>1. req'[s] = r /\ \A t \in Slots \ {s} : req'[t] = req[t] /\ t \notin InFlight BY Changed DEF SInv, TInv
<1>2. \A t \in Slots \ {s} : req'[t].pc = "idle" BY <1>1 DEF InFlight
<1>3. InFlight' = IF r.pc = "idle" THEN {} ELSE {s} BY <1>1, <1>2 DEF InFlight
<1>4. CASE r.pc = "idle" BY <1>3, <1>4 DEF Orderly
<1>5. CASE r.pc # "idle" BY <1>1, <1>3, <1>5 DEF Orderly
<1> QED BY <1>4, <1>5

(* Nothing is known of these but that the table is in order. *)
LEMMA Idle ==
  ASSUME InOrder', Pointing', NEW r, r.pc \in {"read", "failed", "reread"} PROVE Calm(r)'
BY DEF Calm

LEMMA Untouched == ASSUME UNCHANGED <<kind, rows>> PROVE InOrder' = InOrder /\ Present(rows)' = Present(rows) /\ Count' = Count
BY DEF InOrder, Apart, Count, Present

LEMMA Same == ASSUME SInv, UNCHANGED <<kind, rows, active, req, overlapped>> PROVE Orderly'
<1>1. /\ InFlight' = InFlight /\ InOrder' = InOrder /\ Pointing' = Pointing /\ Stored' = Stored
      /\ Count' = Count /\ Present(rows)' = Present(rows)
  BY Untouched DEF InFlight, Pointing, Stored
<1>2. ASSUME NEW r, Calm(r) PROVE Calm(r)'
  <2>1. r.pc = "renumber" => Renumbering(r)' BY <1>1, <1>2 DEF Calm, Renumbering
  <2>2. r.pc \in {"renumber", "clear"} => Leaving(r)' BY <1>1, <1>2 DEF Calm, Leaving
  <2> QED BY <1>1, <1>2, <2>1, <2>2 DEF Calm
<1> QED BY <1>1, <1>2 DEF SInv, Orderly

LEMMA SerialJump ==
  ASSUME SInv, ~overlapped, NEW s \in Slots, InFlight \subseteq {s}, NEW pc \in {"failed", "reread"}, Jump(s, pc),
         InOrder', Pointing'
  PROVE  Orderly'
<1>1. PICK r : r = [Quiet EXCEPT !.pc = pc] OBVIOUS
<1>2. Stored \in Answer /\ Null \in Ids \cup {Null} /\ pc \in Steps BY StoredType DEF SInv, TInv, Steps
<1>3. r \in Request /\ r.pc = pc BY <1>1, <1>2, Forms
<1>4. req' = [req EXCEPT ![s] = r] BY <1>1 DEF Jump
<1>5. Calm(r)' BY <1>3, Idle
<1>6. r.pc # "idle" BY <1>3
<1> QED BY <1>3, <1>4, <1>5, <1>6, After

LEMMA SerialPanels ==
  ASSUME SInv, ~overlapped,
         \/ \E t \in Tabs : ClickPublish(t) \/ \E v \in Ids : ClickVersion(t, v)
         \/ \E s \in Slots : ShowAnswer(s) \/ ShowError(s)
  PROVE  Orderly'
<1>1. "read" \in Steps /\ "idle" \in Steps /\ Null \in Ids \cup {Null} BY DEF Steps
<1>2. Stored \in Answer BY StoredType DEF SInv, TInv
<1>3. ASSUME NEW s \in Slots, NEW id \in Ids \cup {Null}, Send(s, id) PROVE Orderly'
  <2>1. CASE InFlight # {} BY <1>3, <2>1 DEF Send, Orderly
  <2>2. CASE InFlight = {}
    <3>1. PICK r : r = [Quiet EXCEPT !.pc = "read", !.id = id] OBVIOUS
    <3>2. r \in Request /\ r.pc = "read" BY <1>1, <1>2, <3>1, Forms
    <3>3. UNCHANGED <<kind, rows, active>> /\ req' = [req EXCEPT ![s] = r] BY <1>3, <3>1 DEF Send
    <3>4. InOrder /\ Pointing BY <2>2 DEF SInv, Orderly
    <3>5. InOrder' /\ Pointing' BY <3>3, <3>4, Untouched DEF Pointing
    <3>6. Calm(r)' BY <3>2, <3>5, Idle
    <3>7. r.pc # "idle" BY <3>2
    <3> QED BY <2>2, <3>2, <3>3, <3>6, <3>7, After
  <2> QED BY <2>1, <2>2
<1>4. ASSUME NEW s \in Slots, ShowAnswer(s) \/ ShowError(s) PROVE Orderly'
  <2>1. Quiet \in Request /\ Quiet.pc = "idle" BY <1>1, <1>2, Forms
  <2>2. UNCHANGED <<kind, rows, active>> /\ req' = [req EXCEPT ![s] = Quiet] /\ req[s].pc \in {"answer", "failed"}
    BY <1>4 DEF ShowAnswer, ShowError
  <2>3. InFlight = {s} /\ Calm(req[s]) BY <2>2, Turn
  <2>4. InOrder /\ Pointing BY <2>2, <2>3 DEF Calm
  <2>5. InOrder' /\ Pointing' BY <2>2, <2>4, Untouched DEF Pointing
  <2> QED BY <2>1, <2>2, <2>3, <2>5, After
<1>6. \A t \in Tabs : <<t, "publish">> \in Slots /\ <<t, "activate">> \in Slots /\ <<t, "delete">> \in Slots
  BY DEF Slots, Ops
<1>7. ASSUME NEW t \in Tabs, ClickPublish(t) PROVE Orderly' BY <1>1, <1>3, <1>6, <1>7 DEF ClickPublish
<1>8. ASSUME NEW t \in Tabs, NEW v \in Ids, ClickVersion(t, v) PROVE Orderly'
  <2>1. \/ Send(<<t, "activate">>, Null) \/ Send(<<t, "activate">>, v) \/ Send(<<t, "delete">>, v)
    BY <1>8 DEF ClickVersion
  <2> QED BY <1>1, <1>3, <1>6, <2>1
<1> QED BY <1>4, <1>7, <1>8

LEMMA SerialPublish ==
  ASSUME SInv, ~overlapped, NEW s \in Slots, ReadForPublish(s) \/ CreateVersion(s) \/ Reread(s)
  PROVE  Orderly'
<1>0. req[s].pc \in {"read", "create", "reread"} BY DEF ReadForPublish, CreateVersion, Reread, At
<1>1. InFlight = {s} /\ Calm(req[s]) /\ req[s] \in Request /\ rows \in [Ids -> Numbers] BY <1>0, Turn
<1>2. InOrder /\ Pointing BY <1>0, <1>1 DEF Calm
<1>3. UNCHANGED <<kind, active>> BY DEF ReadForPublish, CreateVersion, Reread
<1>4. {"create", "answer"} \subseteq Steps /\ Null \in Ids \cup {Null} BY DEF Steps
<1>5. CASE rows' = rows /\ (Jump(s, "failed") \/ Jump(s, "reread"))
  <2>1. InOrder' /\ Pointing' BY <1>2, <1>3, <1>5, Untouched DEF Pointing
  <2> QED BY <1>1, <1>5, <2>1, SerialJump
<1>6. CASE ReadForPublish(s) /\ ~(Cardinality(Present(rows)) >= Limit)
  <2>1. rows' = rows BY <1>6 DEF ReadForPublish
  <2>2. InOrder' /\ Pointing' /\ Count' = Count BY <1>2, <1>3, <2>1, Untouched DEF Pointing
  <2>3. PICK n : n = NextNumber(rows) OBVIOUS
  <2>4. /\ n \in 1..Limit /\ (kind = "agent" => n = Count + 1)
        /\ (kind # "agent" => \A i \in Ids : rows[i] # n)
    BY <1>6, <2>3, NextNumberType DEF SInv, TInv, Count
  <2>5. \A i \in Ids : rows[i] # n
    <3>1. CASE kind = "agent"
      <4>1. \A i \in Ids : rows[i] \in Nat /\ rows[i] <= Count BY <1>1, <1>2, <3>1 DEF InOrder, Numbers
      <4> QED BY <2>4, <3>1, <4>1, CountType
    <3> QED BY <2>4, <3>1
  <2>6. PICK r : r = [req[s] EXCEPT !.pc = "create", !.number = n] OBVIOUS
  <2>7. n \in Numbers BY <2>4 DEF Numbers, Limit
  <2>8. r \in Request /\ r.pc = "create" /\ r.number = n BY <1>1, <1>4, <2>6, <2>7 DEF Request
  <2>9. req' = [req EXCEPT ![s] = r] BY <1>6, <2>3, <2>6 DEF ReadForPublish
  <2>10. Calm(r)'
    <3>1. Count < Limit BY <1>6, CountType DEF Count, Limit
    <3> QED BY <1>3, <2>1, <2>2, <2>4, <2>5, <2>8, <3>1 DEF Calm
  <2>11. r.pc # "idle" BY <2>8
  <2> QED BY <1>1, <2>8, <2>9, <2>10, <2>11, After
<1>7. CASE CreateVersion(s) /\ \E i \in Ids \ made : rows' = [rows EXCEPT ![i] = req[s].number] /\ Jump(s, "reread")
  <2>1. PICK i \in Ids \ made : rows' = [rows EXCEPT ![i] = req[s].number] /\ Jump(s, "reread") BY <1>7
  <2>2. PICK n : n = req[s].number OBVIOUS
  <2>3. req[s].pc = "create" BY <1>7 DEF CreateVersion, At
  <2>4. n \in 1..Limit /\ (\A j \in Ids : rows[j] # n) /\ (kind = "agent" => n = Count + 1)
    BY <1>1, <2>2, <2>3 DEF Calm
  <2>5. i \in Ids /\ i \notin Present(rows) BY <2>1 DEF SInv, Made
  <2>6. rows' \in [Ids -> Nat] /\ \A j \in Ids : rows'[j] = IF j = i THEN n ELSE rows[j]
    BY <1>1, <2>1, <2>2, <2>4 DEF Numbers, Limit
  <2>7. \A j \in Ids : rows[j] \in Nat BY <1>1 DEF Numbers
  <2>8. Present(rows)' = Present(rows) \cup {i} BY <2>4, <2>5, <2>6 DEF Present
  <2>9. Cardinality(Present(rows) \cup {i})
            = IF i \in Present(rows) THEN Cardinality(Present(rows)) ELSE Cardinality(Present(rows)) + 1
    BY CountType, FS_AddElement, Zenon
  <2>10. Count' = Count + 1 BY <2>5, <2>8, <2>9 DEF Count
  <2>11. InOrder'
    <3>1. Apart(rows)' BY <1>2, <2>4, <2>6 DEF InOrder, Apart
    <3>2. ASSUME NEW j \in Ids, kind = "agent" PROVE rows'[j] <= Count'
      <4>1. rows[j] <= Count BY <1>2, <3>2 DEF InOrder
      <4> QED BY <2>4, <2>6, <2>7, <2>10, <3>2, <4>1, CountType
    <3>3. ASSUME NEW j \in Ids, kind # "agent" PROVE rows'[j] <= Limit
      <4>1. rows[j] <= Limit BY <1>2, <3>3 DEF InOrder
      <4> QED BY <2>4, <2>6, <4>1 DEF Limit
    <3> QED BY <1>3, <3>1, <3>2, <3>3 DEF InOrder
  <2>12. Pointing'
    <3>1. active \in Ids \cup {Null} BY DEF SInv, TInv, Core
    <3> QED BY <1>2, <1>3, <2>4, <2>6, <3>1 DEF Pointing
  <2> QED BY <1>1, <2>1, <2>11, <2>12, SerialJump
<1>8. CASE Reread(s)
  <2>1. rows' = rows BY <1>8 DEF Reread
  <2>2. InOrder' /\ Pointing' BY <1>2, <1>3, <2>1, Untouched DEF Pointing
  <2>3. PICK seen \in Answer : seen = Stored BY StoredType DEF SInv, TInv
  <2>4. PICK r : r = [Quiet EXCEPT !.pc = "answer", !.seen = seen] OBVIOUS
  <2>5. r \in Request /\ r.pc = "answer" /\ r.seen = seen BY <1>4, <2>4, Forms
  <2>6. req' = [req EXCEPT ![s] = r] BY <1>8, <2>3, <2>4 DEF Reread
  <2>7. Stored' = Stored BY <1>3, <2>1 DEF Stored
  <2>8. Calm(r)' BY <2>2, <2>3, <2>5, <2>7 DEF Calm
  <2>9. r.pc # "idle" BY <2>5
  <2> QED BY <1>1, <2>5, <2>6, <2>8, <2>9, After
<1>9. CreateVersion(s) => \/ rows' = rows /\ Jump(s, "failed")
                          \/ \E i \in Ids \ made : rows' = [rows EXCEPT ![i] = req[s].number] /\ Jump(s, "reread")
  BY DEF CreateVersion
<1>10. ReadForPublish(s) => rows' = rows /\ (Jump(s, "failed") \/ ~(Cardinality(Present(rows)) >= Limit))
  BY DEF ReadForPublish
<1> QED BY <1>5, <1>6, <1>7, <1>8, <1>9, <1>10

LEMMA SerialDelete ==
  ASSUME SInv, ~overlapped, NEW s \in Slots, ReadForDelete(s) \/ RemoveVersion(s) PROVE Orderly'
<1>0. req[s].pc \in {"read", "remove"} BY DEF ReadForDelete, RemoveVersion, At
<1>1. InFlight = {s} /\ Calm(req[s]) /\ req[s] \in Request /\ rows \in [Ids -> Numbers] /\ req \in [Slots -> Request]
  BY <1>0, Turn DEF SInv, TInv, Core
<1>2. InOrder /\ Pointing BY <1>0, <1>1 DEF Calm
<1>3. UNCHANGED <<kind, active>> BY DEF ReadForDelete, RemoveVersion
<1>4. {"remove", "renumber", "clear"} \subseteq Steps BY DEF Steps
<1>5. CASE rows' = rows /\ Jump(s, "failed")
  <2>1. InOrder' /\ Pointing' BY <1>2, <1>3, <1>5, Untouched DEF Pointing
  <2> QED BY <1>1, <1>5, <2>1, SerialJump
<1>6. CASE rows' = rows /\ req' = [req EXCEPT ![s].pc = "remove", ![s].seen = Stored]
  <2>1. InOrder' /\ Pointing' BY <1>2, <1>3, <1>6, Untouched DEF Pointing
  <2>2. PICK seen \in Answer : seen = Stored BY StoredType DEF SInv, TInv
  <2>3. PICK r : r = [req[s] EXCEPT !.pc = "remove", !.seen = seen] OBVIOUS
  <2>4. r \in Request /\ r.pc = "remove" /\ r.seen = seen BY <1>1, <1>4, <2>3 DEF Request
  <2>5. req' = [req EXCEPT ![s] = r] BY <1>1, <1>6, <2>2, <2>3
  <2>6. Stored' = Stored BY <1>3, <1>6 DEF Stored
  <2>7. Calm(r)' BY <2>1, <2>2, <2>4, <2>6 DEF Calm
  <2>8. r.pc # "idle" BY <2>4
  <2> QED BY <1>1, <2>4, <2>5, <2>7, <2>8, After
<1>7. CASE RemoveVersion(s) /\ rows' = [rows EXCEPT ![req[s].id] = 0]
  <2> PICK gone : gone = req[s].id OBVIOUS
  <2>0. req[s].pc = "remove" BY <1>7 DEF RemoveVersion, At
  <2>1. /\ req[s].seen.rows = rows /\ req[s].seen.active = active /\ req[s].seen \in Answer
        /\ active \in Ids \cup {Null}
    <3>1. req[s].seen = Stored BY <1>1, <2>0 DEF Calm
    <3> QED BY <3>1, StoredType DEF SInv, TInv, Core
  <2>2. \A j \in Ids : rows'[j] = IF j = gone THEN 0 ELSE rows[j] BY <1>1, <1>7
  <2>3. Present(rows)' = Present(rows) \ {gone} BY <2>2 DEF Present
  <2>4. active \in {Null, gone} \/ rows'[active] # 0 BY <1>2, <2>1, <2>2 DEF Pointing
  <2>5. CASE kind # "agent" /\ Go(s, "clear")
    <3>1. PICK r : r = [req[s] EXCEPT !.pc = "clear"] OBVIOUS
    <3>2. r \in Request /\ r.pc = "clear" /\ r.id = gone /\ r.seen = req[s].seen BY <1>1, <1>4, <3>1 DEF Request
    <3>3. req' = [req EXCEPT ![s] = r] BY <1>1, <2>5, <3>1 DEF Go
    <3>4. \A j \in Ids : rows[j] <= Limit BY <1>2, <2>5 DEF InOrder
    <3>5. InOrder' BY <1>2, <1>3, <2>2, <2>5, <3>4 DEF InOrder, Apart, Limit
    <3>6. Leaving(r)' BY <1>3, <2>1, <2>3, <2>4, <3>2 DEF Leaving
    <3>7. Calm(r)' BY <3>2, <3>5, <3>6 DEF Calm
    <3>8. r.pc # "idle" BY <3>2
    <3> QED BY <1>1, <3>2, <3>3, <3>7, <3>8, After
  <2>6. CASE req' = [req EXCEPT ![s] = [req[s] EXCEPT !.pc = "renumber", !.at = 1,
                          !.todo = Ordered(req[s].seen.rows, gone), !.seen.rows = Quiet.seen.rows]]
    <3>1. PICK rs : rs = rows OBVIOUS
    <3>2. PICK todo : todo = Ordered(rs, gone) OBVIOUS
    <3>3. /\ todo \in Seq(Ids) /\ Len(todo) = Cardinality(Present(rs) \ {gone}) /\ Len(todo) \in Nat
          /\ \A n \in 1..Len(todo) : todo[n] \in Present(rs) \ {gone}
          /\ \A i \in Present(rs) \ {gone} : \E n \in 1..Len(todo) : todo[n] = i
          /\ \A m, n \in 1..Len(todo) : todo[m] = todo[n] => m = n
          /\ \A n \in 1..Len(todo) : rs[todo[n]] >= n
          /\ \A m, n \in 1..Len(todo) : m < n => rs[todo[m]] < rs[todo[n]]
      <4>1. Numbered(rs) BY <1>1, <1>2, <3>1 DEF InOrder, Numbers, Numbered
      <4>2. Lists(Ordered(rs, gone), Present(rs) \ {gone}, rs) BY <4>1, Ranked
      <4>3. Lists(todo, Present(rs) \ {gone}, rs) BY <3>2, <4>2
      <4> QED BY <4>3 DEF Lists
    <3>4. PICK zero \in [Ids -> Numbers] : zero = Quiet.seen.rows
      <4>1. "idle" \in Steps /\ Null \in Ids \cup {Null} BY DEF Steps
      <4> QED BY <2>1, <4>1, Forms
    <3>5. PICK seen : seen = [req[s].seen EXCEPT !.rows = zero] OBVIOUS
    <3>6. seen \in Answer /\ seen.active = active BY <2>1, <3>5 DEF Answer
    <3>7. PICK r : r = [req[s] EXCEPT !.pc = "renumber", !.at = 1, !.todo = todo, !.seen = seen] OBVIOUS
    <3>8. r \in Request /\ r.pc = "renumber" /\ r.at = 1 /\ r.todo = todo /\ r.seen = seen /\ r.id = gone
      BY <1>1, <1>4, <3>3, <3>6, <3>7 DEF Request
    <3>9. r = [req[s] EXCEPT !.pc = "renumber", !.at = 1, !.todo = todo, !.seen.rows = zero]
      BY <1>1, <3>5, <3>7 DEF Request
    <3>10. req' = [req EXCEPT ![s] = r] BY <2>1, <2>6, <3>1, <3>2, <3>4, <3>9
    <3>11. Leaving(r)' BY <1>3, <2>3, <2>4, <3>6, <3>8 DEF Leaving
    <3>12. Count' = Len(todo) BY <2>3, <3>1, <3>3 DEF Count
    <3>13. \A n \in 1..Len(todo) : todo[n] \in Ids /\ todo[n] # gone BY <3>3 DEF Present
    <3>14. \A n \in 1..Len(todo) : IF n < 1 THEN rows'[todo[n]] = n ELSE rows'[todo[n]] >= n
      <4> SUFFICES ASSUME NEW n \in 1..Len(todo) PROVE rows'[todo[n]] >= n /\ ~(n < 1) OBVIOUS
      <4>1. rows'[todo[n]] = rs[todo[n]] BY <2>2, <3>1, <3>13
      <4>2. n \in Nat /\ ~(n < 1) BY <3>3
      <4>3. rs[todo[n]] >= n BY <3>3
      <4> QED BY <4>1, <4>2, <4>3
    <3>15. Renumbering(r)'
      <4>1. Len(r.todo) = Count' BY <3>8, <3>12
      <4>2. Present(rows)' = Present(rs) \ {gone} BY <2>3, <3>1
      <4>3. \A n \in 1..Len(todo) : rows'[todo[n]] = rs[todo[n]] BY <2>2, <3>1, <3>13
      <4>4. \A m, n \in 1..Len(todo) : m < n => rows'[todo[m]] < rows'[todo[n]] BY <3>3, <4>3
      <4> QED BY <3>3, <3>8, <3>14, <4>1, <4>2, <4>4 DEF Renumbering
    <3>16. Calm(r)' BY <3>8, <3>11, <3>15 DEF Calm
    <3>17. r.pc # "idle" BY <3>8
    <3> QED BY <1>1, <3>8, <3>10, <3>16, <3>17, After
  <2> QED BY <1>5, <1>7, <2>5, <2>6 DEF RemoveVersion
<1>8. ReadForDelete(s) => rows' = rows /\ (Jump(s, "failed") \/ req' = [req EXCEPT ![s].pc = "remove", ![s].seen = Stored])
  BY DEF ReadForDelete
<1>9. RemoveVersion(s) => \/ rows' = rows /\ Jump(s, "failed")
                          \/ rows' = [rows EXCEPT ![req[s].id] = 0]
  BY DEF RemoveVersion
<1> QED BY <1>5, <1>6, <1>7, <1>8, <1>9

(* No number is taken when its turn comes: those before have theirs, those after have higher ones. *)
(* ... and the loop meets no row that is gone and no number that is taken. *)
LEMMA SerialRenumber ==
  ASSUME SInv, ~overlapped, NEW s \in Slots, Renumber(s)
  PROVE  Orderly' /\ req'[s].pc \in {"renumber", "clear"}
<1> DEFINE todo == req[s].todo
           at == req[s].at
           i == todo[at]
<1>0. req[s].pc = "renumber" BY DEF Renumber, At
<1>1. InFlight = {s} /\ Calm(req[s]) /\ req[s] \in Request /\ rows \in [Ids -> Numbers] /\ req \in [Slots -> Request]
  BY <1>0, Turn DEF SInv, TInv, Core
<1>2. UNCHANGED <<kind, active>> BY DEF Renumber
<1>3. kind = "agent" BY <1>0 DEF SInv, TInv, Snapshots, Sorted
<1>4. at \in Nat \ {0} BY <1>0, <1>3 DEF SInv, IInv, RequestsOK, Fine
<1>5. Len(todo) = Count /\ Count \in Nat /\ Apart(rows) BY <1>0, <1>1, <1>3, CountType DEF Calm, Renumbering, SInv, IInv, RowsOK, Apart
<1>6. /\ \A n \in 1..Len(todo) : todo[n] \in Present(rows)
      /\ \A j \in Present(rows) : \E n \in 1..Len(todo) : todo[n] = j
      /\ \A m, n \in 1..Len(todo) : todo[m] = todo[n] => m = n
      /\ \A n \in 1..Len(todo) : IF n < at THEN rows[todo[n]] = n ELSE rows[todo[n]] >= n
      /\ \A m, n \in 1..Len(todo) : m < n => rows[todo[m]] < rows[todo[n]]
  BY <1>0, <1>1 DEF Calm, Renumbering
<1>7. Leaving(req[s]) BY <1>0, <1>1 DEF Calm
<1>8. \A n \in 1..Len(todo) : todo[n] \in Ids /\ rows[todo[n]] \in Nat \ {0} BY <1>1, <1>6 DEF Present, Numbers
<1>9. CASE at > Len(todo)
  <2>1. req' = [req EXCEPT ![s] = [req[s] EXCEPT !.pc = "clear", !.todo = <<>>, !.at = 0]] /\ rows' = rows
    BY <1>9 DEF Renumber
  <2>2. PICK r : r = [req[s] EXCEPT !.pc = "clear", !.todo = <<>>, !.at = 0] OBVIOUS
  <2>3. <<>> \in Seq(Ids) /\ 0 \in Nat /\ "clear" \in Steps BY DEF Steps
  <2>4. r \in Request /\ r.pc = "clear" /\ r.seen = req[s].seen /\ r.id = req[s].id
    BY <1>1, <2>2, <2>3 DEF Request
  <2>5. \A n \in 1..Len(todo) : rows[todo[n]] = n BY <1>4, <1>5, <1>6, <1>9
  <2>6. ASSUME NEW j \in Ids PROVE rows[j] <= Count
    <3>1. CASE rows[j] = 0 BY <1>5, <3>1
    <3>2. CASE rows[j] # 0
      <4>1. j \in Present(rows) BY <3>2 DEF Present
      <4>2. PICK n \in 1..Len(todo) : j = todo[n] BY <1>6, <4>1
      <4> QED BY <1>5, <2>5, <4>2
    <3> QED BY <3>1, <3>2
  <2>7. InOrder BY <1>3, <1>5, <2>6 DEF InOrder
  <2>8. InOrder' BY <1>2, <2>1, <2>7, Untouched
  <2>9. Leaving(r)' BY <1>2, <1>7, <2>1, <2>4, Untouched DEF Leaving
  <2>10. Calm(r)' BY <2>4, <2>8, <2>9 DEF Calm
  <2>11. r.pc # "idle" BY <2>4
  <2>12. req'[s] = r BY <1>1, <2>1, <2>2
  <2> QED BY <1>1, <2>1, <2>2, <2>4, <2>10, <2>11, <2>12, After
<1>10. CASE ~(at > Len(todo))
  <2>1. at \in 1..Len(todo) BY <1>4, <1>5, <1>10
  <2>2. rows[i] # 0 /\ i \in Ids BY <1>8, <2>1
  <2>3. ASSUME NEW j \in Ids \ {i}, rows[j] = at PROVE FALSE
    <3>1. j \in Present(rows) BY <1>4, <2>3 DEF Present
    <3>2. PICK n \in 1..Len(todo) : j = todo[n] BY <1>6, <3>1
    <3>3. n # at BY <3>2
    <3>4. IF n < at THEN rows[j] = n ELSE rows[j] >= n BY <1>6, <3>2
    <3> HIDE DEF at
    <3> QED BY <1>4, <1>5, <2>3, <3>3, <3>4
  <2>4. rows' = [rows EXCEPT ![i] = at] /\ req' = [req EXCEPT ![s].at = at + 1]
    BY <1>10, <2>2, <2>3 DEF Renumber
  <2>5. PICK r : r = [req[s] EXCEPT !.at = at + 1] OBVIOUS
  <2>6. at + 1 \in Nat BY <1>4
  <2>7. /\ r \in Request /\ r.pc = "renumber" /\ r.at = at + 1 /\ r.todo = todo
        /\ r.seen = req[s].seen /\ r.id = req[s].id
    BY <1>0, <1>1, <2>5, <2>6 DEF Request
  <2>8. req' = [req EXCEPT ![s] = r] BY <1>1, <2>4, <2>5
  <2>9. \A j \in Ids : rows'[j] = IF j = i THEN at ELSE rows[j] BY <1>1, <2>4
  <2>10. at # 0 BY <1>4
  <2>11. Present(rows)' = Present(rows) BY <2>2, <2>9, <2>10 DEF Present
  <2>12. Count' = Len(todo) BY <1>5, <2>11 DEF Count
  <2>13. ASSUME NEW n \in 1..Len(todo) PROVE IF n < at + 1 THEN rows'[todo[n]] = n ELSE rows'[todo[n]] >= n
    <3>1. CASE n = at
      <4>1. rows'[todo[n]] = at BY <2>2, <2>9, <3>1
      <4> QED BY <1>4, <3>1, <4>1
    <3>2. CASE n # at
      <4>1. todo[n] # i BY <1>6, <2>1, <3>2
      <4>2. rows'[todo[n]] = rows[todo[n]] BY <1>8, <2>9, <4>1
      <4>3. IF n < at THEN rows[todo[n]] = n ELSE rows[todo[n]] >= n BY <1>6
      <4>4. (n < at + 1) <=> (n < at) BY <1>4, <1>5, <3>2
      <4> QED BY <4>2, <4>3, <4>4
    <3> QED BY <3>1, <3>2
  <2>14. Renumbering(r)'
    <3>1. ASSUME NEW m \in 1..Len(todo), NEW n \in 1..Len(todo), m < n PROVE rows'[todo[m]] < rows'[todo[n]]
      <4>1. /\ IF m < at + 1 THEN rows'[todo[m]] = m ELSE rows'[todo[m]] >= m
            /\ IF n < at + 1 THEN rows'[todo[n]] = n ELSE rows'[todo[n]] >= n
        BY <2>13
      <4>2. \A k \in 1..Len(todo) : rows'[todo[k]] = IF k = at THEN at ELSE rows[todo[k]]
        <5>1. \A k \in 1..Len(todo) : todo[k] = i <=> k = at BY <1>6, <2>1
        <5> QED BY <1>8, <2>9, <5>1
      <4>3. rows[todo[m]] < rows[todo[n]] BY <1>6, <3>1
      <4>4. \A k \in 1..Len(todo) : rows[todo[k]] \in Nat BY <1>8
      <4>5. at \in Nat /\ m \in Nat /\ n \in Nat BY <1>4, <1>5
      <4>6. rows'[todo[m]] \in Nat /\ rows'[todo[n]] \in Nat BY <4>2, <4>4, <4>5
      <4> HIDE DEF todo, at
      <4>7. CASE m < at + 1 BY <3>1, <4>1, <4>5, <4>6, <4>7
      <4>8. CASE ~(m < at + 1) BY <3>1, <4>2, <4>3, <4>5, <4>8
      <4> QED BY <4>7, <4>8
    <3> HIDE DEF todo, at
    <3> QED BY <1>6, <2>7, <2>11, <2>12, <2>13, <3>1 DEF Renumbering
  <2>15. Leaving(r)'
    <3>1. active \in Ids \cup {Null} BY DEF SInv, TInv, Core
    <3>2. rows[active] # 0 /\ active \in Ids => rows'[active] # 0 BY <2>9, <2>10
    <3> QED BY <1>2, <1>7, <2>7, <2>11, <3>1, <3>2 DEF Leaving
  <2>16. Calm(r)' BY <2>7, <2>14, <2>15 DEF Calm
  <2>17. r.pc # "idle" BY <2>7
  <2>18. req'[s] = r BY <1>1, <2>8
  <2> QED BY <1>1, <2>7, <2>8, <2>16, <2>17, <2>18, After
<1> QED BY <1>9, <1>10

LEMMA SerialActivate ==
  ASSUME SInv, ~overlapped, NEW s \in Slots,
         ReadForActivate(s) \/ Activate(s) \/ WriteActiveBack(s) \/ ClearActive(s)
  PROVE  Orderly'
<1>0. req[s].pc \in {"read", "activate", "clear"}
  BY DEF ReadForActivate, Activate, WriteActiveBack, ClearActive, At
<1>1. /\ InFlight = {s} /\ Calm(req[s]) /\ req[s] \in Request /\ rows \in [Ids -> Numbers]
      /\ req \in [Slots -> Request] /\ active \in Ids \cup {Null}
  BY <1>0, Turn DEF SInv, TInv, Core
<1>2. UNCHANGED <<kind, rows>> BY DEF ReadForActivate, Activate, WriteActiveBack, ClearActive
<1>3. InOrder /\ InOrder' BY <1>0, <1>1, <1>2, Untouched DEF Calm
<1>4. ASSUME NEW a \in Ids \cup {Null}, active' = a, a # Null => rows[a] # 0,
             req' = [req EXCEPT ![s] = [Quiet EXCEPT !.pc = "answer", !.seen = Stored, !.seen.active = a]]
      PROVE  Orderly'
  <2>1. PICK seen \in Answer : seen = Stored /\ seen.rows = rows BY StoredType DEF SInv, TInv
  <2>2. PICK r : r = [Quiet EXCEPT !.pc = "answer", !.seen = seen, !.seen.active = a] OBVIOUS
  <2>3. r \in Request /\ r.pc = "answer" /\ r.seen = [rows |-> seen.rows, active |-> a] BY <2>2, Answers
  <2>4. req' = [req EXCEPT ![s] = r] BY <1>4, <2>1, <2>2
  <2>5. r.seen = Stored' BY <1>2, <1>4, <2>1, <2>3 DEF Stored
  <2>6. Pointing' BY <1>2, <1>4 DEF Pointing
  <2>7. Calm(r)' BY <1>3, <2>3, <2>5, <2>6 DEF Calm
  <2>8. r.pc # "idle" BY <2>3
  <2> QED BY <1>1, <2>3, <2>4, <2>7, <2>8, After
<1>5. CASE ReadForActivate(s)
  <2>1. req[s].pc = "read" /\ active' = active BY <1>5 DEF ReadForActivate, At
  <2>2. Pointing' BY <1>1, <1>2, <2>1 DEF Calm, Pointing
  <2>3. CASE Jump(s, "failed") BY <1>1, <1>3, <2>2, <2>3, SerialJump
  <2>4. CASE Go(s, "activate") /\ ~(req[s].id # Null /\ rows[req[s].id] = 0)
    <3>1. PICK r : r = [req[s] EXCEPT !.pc = "activate"] OBVIOUS
    <3>2. "activate" \in Steps BY DEF Steps
    <3>3. r \in Request /\ r.pc = "activate" /\ r.id = req[s].id BY <1>1, <3>1, <3>2 DEF Request
    <3>4. req' = [req EXCEPT ![s] = r] BY <1>1, <2>4, <3>1 DEF Go
    <3>5. Calm(r)' BY <1>2, <1>3, <2>2, <2>4, <3>3 DEF Calm
    <3>6. r.pc # "idle" BY <3>3
    <3> QED BY <1>1, <3>3, <3>4, <3>5, <3>6, After
  <2> QED BY <1>5, <2>3, <2>4 DEF ReadForActivate
<1>6. CASE Activate(s)
  <2>1. req[s].pc = "activate" BY <1>6 DEF Activate, At
  <2>2. req[s].id \in Ids \cup {Null} /\ (req[s].id # Null => rows[req[s].id] # 0)
    BY <1>1, <2>1 DEF Calm, Request
  <2> QED BY <1>4, <1>6, <2>2 DEF Activate
<1>7. ASSUME WriteActiveBack(s) \/ ClearActive(s) PROVE Leaving(req[s])
  <2>1. req[s].pc = "clear" BY <1>7 DEF WriteActiveBack, ClearActive, At
  <2> QED BY <1>1, <2>1 DEF Calm
<1>8. CASE WriteActiveBack(s)
  <2>1. PICK a : a = IF req[s].seen.active = req[s].id THEN Null ELSE req[s].seen.active OBVIOUS
  <2>2. a \in Ids \cup {Null} /\ (a # Null => rows[a] # 0) BY <1>1, <1>7, <1>8, <2>1 DEF Leaving
  <2> QED BY <1>4, <1>8, <2>1, <2>2 DEF WriteActiveBack
<1>9. CASE ClearActive(s)
  <2>1. active' = (IF req[s].seen.active = req[s].id THEN Null ELSE active) /\ Jump(s, "reread")
    BY <1>9 DEF ClearActive
  <2>2. Pointing' BY <1>2, <1>7, <1>9, <2>1 DEF Leaving, Pointing
  <2> QED BY <1>1, <1>3, <2>1, <2>2, SerialJump
<1> QED BY <1>5, <1>6, <1>8, <1>9

LEMMA MadeStep == ASSUME SInv, [Next]_vars PROVE Made'
<1>0. rows \in [Ids -> Numbers] /\ Made BY DEF SInv, TInv, Core
<1>1. ASSUME UNCHANGED <<rows, made>> PROVE Made' BY <1>0, <1>1 DEF Made, Present
<1>2. ASSUME NEW s \in Slots, CreateVersion(s) PROVE Made'
  <2>1. CASE UNCHANGED <<rows, made>> BY <1>1, <2>1
  <2>2. CASE \E i \in Ids \ made : rows' = [rows EXCEPT ![i] = req[s].number] /\ made' = made \cup {i}
    BY <1>0, <2>2 DEF Made, Present
  <2> QED BY <1>2, <2>1, <2>2 DEF CreateVersion
<1>3. ASSUME NEW s \in Slots, RemoveVersion(s) PROVE Made'
  <2>1. made' = made /\ (rows' = rows \/ rows' = [rows EXCEPT ![req[s].id] = 0]) BY <1>3 DEF RemoveVersion
  <2> QED BY <1>0, <2>1 DEF Made, Present
<1>4. ASSUME NEW s \in Slots, Renumber(s) PROVE Made'
  <2> DEFINE i == req[s].todo[req[s].at]
  <2>1. made' = made /\ (rows' = rows \/ (rows[i] # 0 /\ rows' = [rows EXCEPT ![i] = req[s].at]))
    BY <1>4 DEF Renumber
  <2> HIDE DEF i
  <2> QED BY <1>0, <2>1 DEF Made, Present
<1>5. CASE UNCHANGED vars BY <1>1, <1>5 DEF vars
<1>6. ASSUME Fetches \/ \E t \in Tabs : ClickPublish(t) \/ \E v \in Ids : ClickVersion(t, v) PROVE Made'
  BY <1>1, <1>6, FetchesKeep DEF ClickPublish, ClickVersion, Send
<1>7. ASSUME NEW s \in Slots,
             \/ ShowAnswer(s) \/ ShowError(s) \/ ReadForPublish(s) \/ Reread(s) \/ ReadForDelete(s)
             \/ WriteActiveBack(s) \/ ClearActive(s) \/ ReadForActivate(s) \/ Activate(s)
      PROVE  Made'
  BY <1>1, <1>7
     DEF ShowAnswer, ShowError, ReadForPublish, Reread, ReadForDelete, WriteActiveBack, ClearActive,
         ReadForActivate, Activate
<1>8. CASE Restart BY <1>1, <1>8 DEF Restart
<1> QED BY <1>2, <1>3, <1>4, <1>5, <1>6, <1>7, <1>8 DEF Next, Serve, Fetches

LEMMA SerialInit == Init => Orderly /\ Made
<1> SUFFICES ASSUME Init PROVE Orderly /\ Made OBVIOUS
<1>1. /\ Present(rows) = made /\ rows \in [Ids -> 0..Limit] /\ active \in made \cup {Null}
      /\ {rows[i] : i \in made} = 1..Cardinality(made)
  BY DEF Init
<1>2. \A s \in Slots : req[s] = Quiet BY DEF Init
<1>3. Quiet.pc = "idle"
  <2>1. "idle" \in Steps /\ Null \in Ids \cup {Null} BY DEF Steps
  <2>2. Stored \in Answer BY TypesInit, StoredType DEF TInv
  <2> QED BY <2>1, <2>2, Forms
<1>4. InFlight = {} BY <1>2, <1>3 DEF InFlight
<1>5. Pointing BY <1>1 DEF Pointing, Present
<1>6. InOrder
  <2>1. kind \in {"agent", "planning"} BY DEF Init
  <2>2. Apart(rows) BY InitRows DEF RowsOK, Apart
  <2>3. Count \in Nat /\ Count = Cardinality(made) BY <1>1, CountType DEF Count
  <2>4. \A i \in Ids : rows[i] <= Count
    <3> SUFFICES ASSUME NEW i \in Ids PROVE rows[i] <= Count OBVIOUS
    <3>1. CASE rows[i] = 0 BY <2>3, <3>1
    <3>2. CASE rows[i] # 0
      <4>1. i \in made BY <1>1, <3>2 DEF Present
      <4>2. rows[i] \in 1..Cardinality(made) BY <1>1, <4>1
      <4> QED BY <2>3, <4>2
    <3> QED BY <3>1, <3>2
  <2>5. \A i \in Ids : rows[i] <= Limit BY <1>1
  <2> QED BY <2>2, <2>4, <2>5 DEF InOrder
<1>7. Made BY <1>1 DEF Made
<1> QED BY <1>4, <1>5, <1>6, <1>7 DEF Orderly

LEMMA SerialStep == ASSUME SInv, [Next]_vars PROVE Orderly'
<1>1. CASE ~overlapped
  <2>1. CASE UNCHANGED vars \/ Fetches BY <2>1, FetchesKeep, Same DEF vars
  <2>2. CASE Restart BY <2>2 DEF Restart, Orderly
  <2> QED
    BY <1>1, <2>1, <2>2, SerialPanels, SerialPublish, SerialDelete, SerialRenumber, SerialActivate
       DEF Next, Serve, Fetches
<1>2. CASE overlapped
  <2>1. overlapped'
    BY <1>2, FetchesKeep, Served
       DEF Next, vars, ClickPublish, Fetches, ClickVersion, Send, ShowAnswer, ShowError, Restart
  <2> QED BY <2>1 DEF Orderly
<1> QED BY <1>1, <1>2

LEMMA SerialAlways == Spec => []SInv
<1>1. Init => SInv BY InitOK, TypesInit, SerialInit DEF SInv
<1>2. SInv /\ [Next]_vars => SInv'
  <2> SUFFICES ASSUME SInv, [Next]_vars PROVE SInv' OBVIOUS
  <2>1. IInv' /\ TInv' BY StepOK, TypesStep DEF SInv
  <2> QED BY <2>1, MadeStep, SerialStep DEF SInv
<1> QED BY <1>1, <1>2, PTL DEF Spec

LEMMA OrderIsClean == SInv => SerialIsClean
<1> SUFFICES ASSUME SInv, ~overlapped, InFlight = {}
             PROVE  /\ active # Null => rows[active] # 0
                    /\ Cardinality({rows[i] : i \in Present(rows)}) = Cardinality(Present(rows))
                    /\ \A i \in Ids : rows[i] <= IF kind = "agent" THEN Cardinality(Present(rows)) ELSE Limit
  BY DEF SerialIsClean
<1>1. InOrder /\ Pointing BY DEF SInv, Orderly
<1>2. Cardinality({rows[i] : i \in Present(rows)}) = Cardinality(Present(rows))
  <2> DEFINE f == [i \in Present(rows) |-> rows[i]]
             numbers == {rows[i] : i \in Present(rows)}
  <2>1. f \in Surjection(Present(rows), numbers) BY DEF Surjection
  <2>2. \A i, j \in Present(rows) : f[i] = f[j] => i = j BY <1>1 DEF InOrder, Apart, Present
  <2>3. f \in Injection(Present(rows), numbers) BY <2>1, <2>2 DEF Injection, IsInjective, Surjection
  <2>4. IsFiniteSet(Present(rows)) BY CountType
  <2> HIDE DEF f, numbers
  <2>5. Cardinality(numbers) = Cardinality(Present(rows)) BY <2>1, <2>3, <2>4, FS_Surjection
  <2> QED BY <2>5 DEF numbers
<1> QED BY <1>1, <1>2 DEF InOrder, Pointing, Count

(* Requests that come one after the other leave the table in order, for any rows, tabs and numbers of requests: the
   renumbering of an agent's delete (agents.service.ts:343-351) never meets a number that is taken and ends with 1..n,
   a planning agent's publish takes the first free number (planning-agent.service.ts:108-124), and the pointer
   names a version that exists. *)
THEOREM SerialRequestsAreClean == Spec => []SerialIsClean
<1> QED BY OrderIsClean, SerialAlways, PTL

-----------------------------------------------------------------------------
(* The panels                                                              *)

(* A request that has written, or may have, and will answer with the table. *)
Owing == {"renumber", "clear", "reread", "answer"}
Owed(t) == \E s \in Slots : s[1] = t /\ req[s].pc \in Owing
(* Where a tab that has missed nothing has the table, or will get it, from. *)
Covered(t) ==
    \/ t \in missed
    \/ fetch[t] = {Stored}
    \/ fetch[t] = {} /\ (view[t] = Stored \/ Owed(t))
PInv == Panels /\ (overlapped => missed = Tabs) /\ \A t \in Tabs : Covered(t)

LEMMA CoveredInit == Init => PInv
BY PanelsInit DEF Init, PInv, Covered

(* A request that has written, or writes now, goes on to its answer. *)
LEMMA ServeOwes ==
  ASSUME SInv, ~overlapped, NEW s \in Slots, Serve(s)
  PROVE  /\ req[s].pc \in Owing \/ Stored' # Stored => req'[s].pc \in Owing
         /\ \A t \in Slots \ {s} : req'[t] = req[t]
<1>0. req \in [Slots -> Request] /\ Quiet \in Request
  <2>1. "idle" \in Steps /\ Null \in Ids \cup {Null} BY DEF Steps
  <2>2. Stored \in Answer BY StoredType DEF SInv, TInv
  <2> QED BY <2>1, <2>2, Forms DEF SInv, TInv, Core
<1>1. ASSUME NEW pc, Jump(s, pc) PROVE req'[s].pc = pc BY <1>0, <1>1 DEF Jump, Request
<1>2. ASSUME NEW pc, Go(s, pc) PROVE req'[s].pc = pc BY <1>0, <1>2 DEF Go, Request
<1>3. \A t \in Slots \ {s} : req'[t] = req[t]
  BY <1>0
     DEF Serve, ReadForPublish, CreateVersion, Reread, ReadForDelete, RemoveVersion, Renumber,
         WriteActiveBack, ClearActive, ReadForActivate, Activate, Jump, Go
<1>4. CASE ReadForPublish(s) \/ ReadForDelete(s) \/ ReadForActivate(s)
  <2>1. Stored' = Stored /\ req[s].pc = "read"
    BY <1>4 DEF ReadForPublish, ReadForDelete, ReadForActivate, At, Stored
  <2> QED BY <1>3, <2>1 DEF Owing
<1>5. CASE CreateVersion(s)
  <2>1. req[s].pc = "create" /\ (Jump(s, "reread") \/ Stored' = Stored)
    BY <1>5 DEF CreateVersion, At, Stored
  <2> QED BY <1>1, <1>3, <2>1 DEF Owing
<1>6. CASE Reread(s) \/ WriteActiveBack(s) \/ Activate(s)
  <2>1. PICK seen : \/ req' = [req EXCEPT ![s] = [Quiet EXCEPT !.pc = "answer", !.seen = seen]]
                    \/ \E a : req' = [req EXCEPT ![s] = [Quiet EXCEPT !.pc = "answer", !.seen = seen,
                                                                       !.seen.active = a]]
    BY <1>6 DEF Reread, WriteActiveBack, Activate
  <2>2. req'[s].pc = "answer" BY <1>0, <2>1 DEF Request
  <2> QED BY <1>3, <2>2 DEF Owing
<1>7. CASE RemoveVersion(s)
  <2>1. CASE Jump(s, "failed") /\ rows' = rows BY <1>3, <1>7, <2>1 DEF RemoveVersion, At, Owing, Stored
  <2>2. CASE Go(s, "clear") BY <1>2, <1>3, <2>2 DEF Owing
  <2>3. CASE req' = [req EXCEPT ![s] = [req[s] EXCEPT !.pc = "renumber", !.at = 1,
                                             !.todo = Ordered(req[s].seen.rows, req[s].id),
                                             !.seen.rows = Quiet.seen.rows]]
    <3>1. req'[s].pc = "renumber" BY <1>0, <2>3 DEF Request
    <3> QED BY <1>3, <3>1 DEF Owing
  <2> QED BY <1>7, <2>1, <2>2, <2>3 DEF RemoveVersion
<1>8. CASE Renumber(s) BY <1>3, <1>8, SerialRenumber DEF Owing
<1>9. CASE ClearActive(s) BY <1>1, <1>3, <1>9 DEF ClearActive, Owing
<1> QED BY <1>3, <1>4, <1>5, <1>6, <1>7, <1>8, <1>9 DEF Serve

(* A tab whose view, fetch and history stay, while the table does and its request goes on. *)
LEMMA CoveredKept ==
  ASSUME NEW t \in Tabs, Covered(t), UNCHANGED <<rows, active>>, view'[t] = view[t], fetch'[t] = fetch[t],
         t \in missed => t \in missed', Owed(t) => Owed(t)'
  PROVE  Covered(t)'
BY DEF Covered, Stored

LEMMA CoveredPanels ==
  ASSUME SInv, PInv, ~overlapped', NEW t \in Tabs,
         \/ \E u \in Tabs : ClickPublish(u) \/ \E v \in Ids : ClickVersion(u, v)
         \/ \E s \in Slots : ShowAnswer(s) \/ ShowError(s)
  PROVE  Covered(t)'
<1>0. req \in [Slots -> Request] BY DEF SInv, TInv, Core
<1>1. ASSUME NEW s \in Slots, NEW id, Send(s, id) PROVE Covered(t)'
  <2>1. \A u \in Slots \ {s} : req'[u] = req[u] BY <1>0, <1>1 DEF Send
  <2>2. req[s].pc \notin Owing BY <1>1 DEF Send, Owing
  <2>3. Owed(t) => Owed(t)' BY <2>1, <2>2 DEF Owed
  <2>4. UNCHANGED <<rows, active, view, fetch, missed>> BY <1>1 DEF Send
  <2> QED BY <2>3, <2>4, CoveredKept DEF PInv
<1>2. ASSUME NEW u \in Tabs, ClickPublish(u) \/ \E v \in Ids : ClickVersion(u, v) PROVE Covered(t)'
  <2>1. \A op \in Ops : <<u, op>> \in Slots BY DEF Slots
  <2>2. {"publish", "activate", "delete"} \subseteq Ops BY DEF Ops
  <2>3. \E op \in Ops : \E id : Send(<<u, op>>, id) BY <1>2, <2>2 DEF ClickPublish, ClickVersion
  <2> QED BY <1>1, <2>1, <2>3
<1>3. ASSUME NEW s \in Slots, ShowError(s) PROVE Covered(t)'
  <2>1. \A u \in Slots \ {s} : req'[u] = req[u] BY <1>0, <1>3 DEF ShowError
  <2>2. req[s].pc \notin Owing BY <1>3 DEF ShowError, Owing
  <2>3. Owed(t) => Owed(t)' BY <2>1, <2>2 DEF Owed
  <2> QED BY <1>3, <2>3, CoveredKept DEF ShowError, PInv
<1>4. ASSUME NEW s \in Slots, ShowAnswer(s) PROVE Covered(t)'
  <2>1. UNCHANGED <<rows, active, fetch, overlapped>> BY <1>4 DEF ShowAnswer
  <2>2. req[s].seen = Stored BY <1>4, <2>1, Turn DEF ShowAnswer, Calm
  <2>3. PICK seen : seen = Stored OBVIOUS
  <2>4. view' = [view EXCEPT ![s[1]] = seen] BY <1>4, <2>2, <2>3 DEF ShowAnswer
  <2>5. Stored' = Stored BY <2>1 DEF Stored
  <2>6. CASE s[1] = t /\ fetch[t] = {}
    <3>1. view'[t] = Stored BY <2>3, <2>4, <2>6 DEF PInv, Panels
    <3> QED BY <2>1, <2>5, <2>6, <3>1 DEF Covered
  <2>7. CASE s[1] = t /\ fetch[t] # {}
    <3>1. missed' = missed BY <1>4, <2>7 DEF ShowAnswer
    <3> QED BY <2>1, <2>5, <2>7, <3>1 DEF PInv, Covered
  <2>8. CASE s[1] # t
    <3>1. \A u \in Slots \ {s} : req'[u] = req[u] BY <1>0, <1>4 DEF ShowAnswer
    <3>2. Owed(t) => Owed(t)' BY <2>8, <3>1 DEF Owed
    <3>3. view'[t] = view[t] BY <2>4, <2>8 DEF PInv, Panels
    <3>4. t \in missed => t \in missed' BY <1>4, <2>8 DEF ShowAnswer, Seen
    <3> QED BY <2>1, <3>2, <3>3, <3>4, CoveredKept DEF PInv
  <2> QED BY <2>6, <2>7, <2>8
<1> QED BY <1>2, <1>3, <1>4

LEMMA CoveredFetches == ASSUME SInv, PInv, ~overlapped', Fetches, NEW t \in Tabs PROVE Covered(t)'
<1>0. UNCHANGED <<rows, active, req, overlapped>> BY FetchesKeep
<1>1. Stored' = Stored /\ (Owed(t) => Owed(t)') BY <1>0 DEF Stored, Owed
<1>2. PICK u \in Tabs : FetchReads(u) \/ FetchShows(u) \/ FetchFails(u) BY DEF Fetches
<1>3. CASE u # t
  <2>1. view'[t] = view[t] /\ fetch'[t] = fetch[t] /\ (t \in missed => t \in missed')
    BY <1>2, <1>3 DEF FetchReads, FetchShows, FetchFails, Seen, PInv, Panels
  <2> QED BY <1>0, <1>1, <2>1, CoveredKept DEF PInv
<1>4. CASE u = t /\ FetchReads(u)
  <2>1. fetch'[t] = {Stored} BY <1>4 DEF FetchReads, PInv, Panels
  <2> QED BY <1>1, <2>1 DEF Covered
<1>5. CASE u = t /\ FetchShows(u)
  <2>1. PICK got \in fetch[t] : view' = [view EXCEPT ![t] = got] BY <1>5 DEF FetchShows
  <2>2. view'[t] = got /\ fetch'[t] = {} /\ missed' = missed BY <1>5, <2>1 DEF FetchShows, PInv, Panels
  <2> QED BY <1>1, <2>1, <2>2 DEF PInv, Covered
<1>6. CASE u = t /\ FetchFails(u) BY <1>6 DEF FetchFails, Covered
<1> QED BY <1>2, <1>3, <1>4, <1>5, <1>6

LEMMA CoveredServe ==
  ASSUME SInv, PInv, ~overlapped', NEW s \in Slots, Serve(s), NEW t \in Tabs PROVE Covered(t)'
<1>1. UNCHANGED <<view, fetch, overlapped>> /\ Misses(s) BY Served
<1>2. /\ req[s].pc \in Owing \/ Stored' # Stored => req'[s].pc \in Owing
      /\ \A u \in Slots \ {s} : req'[u] = req[u]
  BY <1>1, ServeOwes
<1>3. CASE Stored' = Stored
  <2>1. missed' = missed BY <1>1, <1>3 DEF Misses
  <2>2. Owed(t) => Owed(t)' BY <1>2 DEF Owed
  <2> QED BY <1>1, <1>3, <2>1, <2>2 DEF PInv, Covered
<1>4. CASE Stored' # Stored
  <2>1. t \in missed' \/ (t = s[1] /\ fetch[t] = {}) BY <1>1, <1>4 DEF Misses
  <2>2. t = s[1] => Owed(t)' BY <1>2, <1>4 DEF Owed
  <2> QED BY <1>1, <2>1, <2>2 DEF Covered
<1> QED BY <1>3, <1>4

LEMMA CoveredStep == SInv /\ PInv /\ [Next]_vars => PInv'
<1> SUFFICES ASSUME SInv, PInv, [Next]_vars PROVE PInv' OBVIOUS
<1>1. Panels' BY PanelsStep DEF SInv, PInv
<1>2. overlapped' => missed' = Tabs
  <2>1. CASE UNCHANGED vars BY <2>1 DEF vars, PInv
  <2>2. CASE \E t \in Tabs : ClickPublish(t) \/ \E v \in Ids : ClickVersion(t, v)
    BY <2>2 DEF ClickPublish, ClickVersion, Send
  <2>3. CASE \E t \in Tabs : FetchReads(t) \/ FetchShows(t) \/ FetchFails(t)
    BY <2>3 DEF FetchReads, FetchShows, FetchFails, Seen, PInv
  <2>4. CASE \E s \in Slots : ShowAnswer(s) \/ ShowError(s)
    BY <2>4 DEF ShowAnswer, ShowError, Seen, PInv
  <2>5. CASE \E s \in Slots : Serve(s) BY <2>5, Served DEF Misses, PInv
  <2>6. CASE Restart BY <2>6 DEF Restart
  <2> QED BY <2>1, <2>2, <2>3, <2>4, <2>5, <2>6 DEF Next
<1>3. ASSUME ~overlapped', NEW t \in Tabs PROVE Covered(t)'
  <2>1. CASE UNCHANGED vars
    <3>1. Owed(t)' = Owed(t) BY <2>1 DEF vars, Owed
    <3> QED BY <2>1, <3>1, CoveredKept DEF vars, PInv
  <2>2. CASE Restart BY <1>3, <2>2 DEF Restart
  <2> QED BY <1>3, <2>1, <2>2, CoveredPanels, CoveredFetches, CoveredServe DEF Next, Fetches
<1>4. ASSUME overlapped', NEW t \in Tabs PROVE Covered(t)' BY <1>2, <1>4 DEF Covered
<1> QED BY <1>1, <1>2, <1>3, <1>4 DEF PInv

(* While requests come one after the other, every panel shows the table as it is when nothing is under way, for
   any order of fetches and answers, unless it has missed a change: one made from another tab, one whose answer a
   fetch that had read before has replaced, or one made before a fetch that failed
   (agents.service.ts:306, 333; planning-agent.service.ts:124, 148; agents/page.tsx:311-330). *)
THEOREM PanelsShow == Spec => []PanelsShowTheTable
<1>1. Init => PInv BY CoveredInit
<1>2. PInv => PanelsShowTheTable
  <2> SUFFICES ASSUME PInv, InFlight = {}, NEW t \in Tabs, fetch[t] = {} PROVE t \in missed \/ view[t] = Stored
    BY DEF PanelsShowTheTable
  <2>1. ~Owed(t) BY DEF Owed, Owing, InFlight
  <2> QED BY <2>1 DEF PInv, Covered
<1> QED BY <1>1, <1>2, CoveredStep, SerialAlways, PTL DEF Spec

-----------------------------------------------------------------------------
(* The list of versions                                                    *)

Open == {"read", "create", "remove", "activate"}

Wishes(q) == {<<s[2], q[s].id>> : s \in {t \in Slots : q[t].pc \in Open}}

LEMMA AskedWishes == Asked = Wishes(req) /\ Asked' = Wishes(req')
BY DEF Asked, Wishes, Open

(* Two sets of pairs of the same rows are compared pair by pair. *)
LEMMA SamePairs ==
  ASSUME NEW S, NEW A \in SUBSET (S \X S), NEW B \in SUBSET (S \X S),
         \A i, j \in S : <<i, j>> \in A <=> <<i, j>> \in B
  PROVE  A = B
<1>1. ASSUME NEW p \in S \X S PROVE p \in A <=> p \in B
  <2>1. PICK i, j \in S : p = <<i, j>> BY <1>1
  <2> QED BY <2>1
<1> QED BY <1>1

LEMMA BeforePairs ==
  /\ Before \subseteq Present(rows) \X Present(rows)
  /\ \A i, j \in Present(rows) : <<i, j>> \in Before <=> rows[i] < rows[j]
<1>1. ASSUME NEW i \in Present(rows), NEW j \in Present(rows) PROVE <<i, j>> \in Before <=> rows[i] < rows[j]
  <2>1. <<i, j>> \in Present(rows) \X Present(rows) /\ <<i, j>>[1] = i /\ <<i, j>>[2] = j OBVIOUS
  <2> QED BY <2>1 DEF Before
<1> QED BY <1>1 DEF Before

LEMMA BeforePairsNext ==
  /\ Before' \subseteq Present(rows') \X Present(rows')
  /\ \A i, j \in Present(rows') : <<i, j>> \in Before' <=> rows'[i] < rows'[j]
<1>1. ASSUME NEW i \in Present(rows'), NEW j \in Present(rows') PROVE <<i, j>> \in Before' <=> rows'[i] < rows'[j]
  <2>1. <<i, j>> \in Present(rows') \X Present(rows') /\ <<i, j>>[1] = i /\ <<i, j>>[2] = j OBVIOUS
  <2> QED BY <2>1 DEF Before, Present
<1> QED BY <1>1 DEF Before, Present

(* Numbers that change but stay in order change nothing of the list. *)
LEMMA SameOrder ==
  ASSUME Present(rows') = Present(rows),
         \A i, j \in Present(rows) : rows'[i] < rows'[j] <=> rows[i] < rows[j]
  PROVE  Before' = Before
BY SamePairs, BeforePairs, BeforePairsNext

LEMMA SameRows ==
  ASSUME rows' = rows
  PROVE  Present(rows)' = Present(rows) /\ Before' = Before /\ (active' = active => Chosen' = Chosen)
BY DEF Present, Before, Chosen

(* While requests come one after the other, only the one whose turn it is can be asking. *)
LEMMA OneWish ==
  ASSUME NEW q, NEW s \in Slots, \A t \in Slots \ {s} : q[t].pc = "idle"
  PROVE  Wishes(q) = IF q[s].pc \in Open THEN {<<s[2], q[s].id>>} ELSE {}
<1>1. "idle" \notin Open BY DEF Open
<1>2. \A t \in Slots : q[t].pc \in Open => t = s BY <1>1
<1>3. CASE q[s].pc \in Open
  <2>1. {t \in Slots : q[t].pc \in Open} = {s} BY <1>2, <1>3
  <2> QED BY <1>3, <2>1 DEF Wishes
<1>4. CASE q[s].pc \notin Open
  <2>1. {t \in Slots : q[t].pc \in Open} = {} BY <1>2, <1>4
  <2> QED BY <1>4, <2>1 DEF Wishes
<1> QED BY <1>3, <1>4

LEMMA TurnWish ==
  ASSUME SInv, NEW s \in Slots, InFlight \subseteq {s}, NEW r, req' = [req EXCEPT ![s] = r]
  PROVE  /\ Asked = IF req[s].pc \in Open THEN {<<s[2], req[s].id>>} ELSE {}
         /\ Asked' = IF r.pc \in Open THEN {<<s[2], r.id>>} ELSE {}
<1>1. req'[s] = r /\ \A t \in Slots \ {s} : req'[t] = req[t] BY DEF SInv, TInv, Core
<1>2. \A t \in Slots \ {s} : req[t].pc = "idle" BY DEF InFlight
<1>3. \A t \in Slots \ {s} : req'[t].pc = "idle" BY <1>1, <1>2
<1>4. Wishes(req) = IF req[s].pc \in Open THEN {<<s[2], req[s].id>>} ELSE {} BY <1>2, OneWish
<1>5. Wishes(req') = IF req'[s].pc \in Open THEN {<<s[2], req'[s].id>>} ELSE {} BY <1>3, OneWish
<1> QED BY <1>1, <1>4, <1>5, AskedWishes

(* A request has ended, or has only its answer to read back. *)
LEMMA JumpWish ==
  ASSUME SInv, NEW s \in Slots, InFlight \subseteq {s}, NEW pc \in {"failed", "reread"}, Jump(s, pc)
  PROVE  /\ Asked = IF req[s].pc \in Open THEN {<<s[2], req[s].id>>} ELSE {}
         /\ Asked' = {}
<1>1. PICK r : r = [Quiet EXCEPT !.pc = pc] OBVIOUS
<1>2. Stored \in Answer /\ Null \in Ids \cup {Null} /\ pc \in Steps BY StoredType DEF SInv, TInv, Steps
<1>3. r \in Request /\ r.pc = pc BY <1>1, <1>2, Forms
<1>4. req' = [req EXCEPT ![s] = r] BY <1>1 DEF Jump
<1>5. r.pc \notin Open BY <1>3 DEF Open
<1> QED BY <1>3, <1>4, <1>5, TurnWish

(* What a request asks for until it has happened or been refused. *)
Aim(s, r) ==
    r.pc \in Open => /\ s[2] = "publish" => r.id = Null
                     /\ s[2] = "delete" => r.id \in Ids

Aimed == \A s \in Slots : Aim(s, req[s])

(* A request that goes on asking goes on asking for the same. *)
LEMMA AimKept ==
  ASSUME TInv, Aimed, NEW s \in Slots, NEW r, req' = [req EXCEPT ![s] = r], Aim(s, r) PROVE Aimed'
<1>1. req'[s] = r /\ \A t \in Slots \ {s} : req'[t] = req[t] BY DEF TInv, Core
<1> QED BY <1>1 DEF Aimed, Aim

LEMMA AimQuiet ==
  ASSUME TInv, NEW seen, NEW a, NEW pc \in {"failed", "reread", "answer"}, NEW s
  PROVE  /\ Aim(s, Quiet) /\ Aim(s, [Quiet EXCEPT !.pc = pc])
         /\ Aim(s, [Quiet EXCEPT !.pc = pc, !.seen = seen])
         /\ Aim(s, [Quiet EXCEPT !.pc = pc, !.seen = seen, !.seen.active = a])
<1>1. Quiet \in Request /\ Quiet.pc = "idle"
  <2>1. Stored \in Answer /\ "idle" \in Steps /\ Null \in Ids \cup {Null} BY StoredType DEF TInv, Steps
  <2> QED BY <2>1, Forms
<1>2. /\ [Quiet EXCEPT !.pc = pc].pc = pc
      /\ [Quiet EXCEPT !.pc = pc, !.seen = seen].pc = pc
      /\ [Quiet EXCEPT !.pc = pc, !.seen = [seen EXCEPT !.active = a]].pc = pc
  BY <1>1 DEF Request
<1>3. [Quiet EXCEPT !.pc = pc, !.seen = seen, !.seen.active = a]
        = [Quiet EXCEPT !.pc = pc, !.seen = [seen EXCEPT !.active = a]]
  BY <1>1 DEF Request
<1> QED BY <1>1, <1>2, <1>3 DEF Aim, Open

LEMMA AimStep == ASSUME TInv, Aimed, [Next]_vars PROVE Aimed'
<1>0. req \in [Slots -> Request] BY DEF TInv, Core
<1>1. CASE req' = req BY <1>1 DEF Aimed, Aim
<1>2. ASSUME NEW s \in Slots, Jump(s, "failed") \/ Jump(s, "reread") PROVE Aimed'
  <2>1. PICK pc \in {"failed", "reread"} : Jump(s, pc) BY <1>2
  <2> QED BY <2>1, AimQuiet, AimKept DEF Jump
<1>3. ASSUME NEW s \in Slots, NEW r, req' = [req EXCEPT ![s] = r], r.pc \notin Open PROVE Aimed'
  BY <1>3, AimKept DEF Aim
<1>4. ASSUME NEW s \in Slots, NEW r, req' = [req EXCEPT ![s] = r], req[s].pc \in Open, r.id = req[s].id
      PROVE  Aimed'
  BY <1>4, AimKept DEF Aim, Aimed
<1>5. ASSUME NEW s \in Slots, NEW id \in Ids \cup {Null}, Send(s, id),
             s[2] = "publish" => id = Null, s[2] = "delete" => id \in Ids
      PROVE  Aimed'
  <2>1. PICK r : r = [Quiet EXCEPT !.pc = "read", !.id = id] OBVIOUS
  <2>2. r.id = id
    <3>1. Stored \in Answer /\ "read" \in Steps BY StoredType DEF TInv, Steps
    <3>2. Quiet \in Request BY <3>1, Forms
    <3> QED BY <2>1, <3>2 DEF Request
  <2>3. req' = [req EXCEPT ![s] = r] BY <1>5, <2>1 DEF Send
  <2> QED BY <1>5, <2>2, <2>3, AimKept DEF Aim
<1>6. ASSUME NEW t \in Tabs, ClickPublish(t) \/ \E v \in Ids : ClickVersion(t, v) PROVE Aimed'
  <2>1. /\ <<t, "publish">> \in Slots /\ <<t, "activate">> \in Slots /\ <<t, "delete">> \in Slots
        /\ <<t, "publish">>[2] = "publish" /\ <<t, "activate">>[2] = "activate" /\ <<t, "delete">>[2] = "delete"
    BY DEF Slots, Ops
  <2>2. \/ Send(<<t, "publish">>, Null)
        \/ \E v \in Ids : \/ Send(<<t, "activate">>, Null) \/ Send(<<t, "activate">>, v)
                          \/ Send(<<t, "delete">>, v)
    BY <1>6 DEF ClickPublish, ClickVersion
  <2> QED BY <1>5, <2>1, <2>2
<1>7. ASSUME NEW s \in Slots, ShowAnswer(s) \/ ShowError(s) PROVE Aimed'
  <2>1. req' = [req EXCEPT ![s] = Quiet] BY <1>7 DEF ShowAnswer, ShowError
  <2>2. Aim(s, Quiet) BY AimQuiet
  <2> QED BY <2>1, <2>2, AimKept
<1>8. ASSUME NEW s \in Slots, Reread(s) \/ WriteActiveBack(s) \/ Activate(s) PROVE Aimed'
  <2>1. PICK seen : seen = Stored OBVIOUS
  <2>2. \/ req' = [req EXCEPT ![s] = [Quiet EXCEPT !.pc = "answer", !.seen = seen]]
        \/ \E a : req' = [req EXCEPT ![s] = [Quiet EXCEPT !.pc = "answer", !.seen = seen, !.seen.active = a]]
    BY <1>8, <2>1 DEF Reread, WriteActiveBack, Activate
  <2> QED BY <2>2, AimQuiet, AimKept
<1>9. ASSUME NEW s \in Slots, ReadForPublish(s) PROVE Aimed'
  <2>1. CASE Jump(s, "failed") BY <1>2, <2>1
  <2>2. CASE req' = [req EXCEPT ![s] = [@ EXCEPT !.pc = "create", !.number = NextNumber(rows)]]
    <3>1. PICK r : r = [req[s] EXCEPT !.pc = "create", !.number = NextNumber(rows)] OBVIOUS
    <3>2. r.id = req[s].id BY <1>0, <3>1 DEF Request
    <3>3. req[s].pc \in Open BY <1>9 DEF ReadForPublish, At, Open
    <3>4. req' = [req EXCEPT ![s] = r] BY <1>0, <2>2, <3>1
    <3> QED BY <1>4, <3>2, <3>3, <3>4
  <2> QED BY <1>9, <2>1, <2>2 DEF ReadForPublish
<1>10. ASSUME NEW s \in Slots, ReadForDelete(s) PROVE Aimed'
  <2>1. CASE Jump(s, "failed") BY <1>2, <2>1
  <2>2. CASE req' = [req EXCEPT ![s].pc = "remove", ![s].seen = Stored]
    <3>1. PICK r : r = [req[s] EXCEPT !.pc = "remove", !.seen = Stored] OBVIOUS
    <3>2. r.id = req[s].id BY <1>0, <3>1 DEF Request
    <3>3. req[s].pc \in Open BY <1>10 DEF ReadForDelete, At, Open
    <3>4. req' = [req EXCEPT ![s] = r] BY <1>0, <2>2, <3>1
    <3> QED BY <1>4, <3>2, <3>3, <3>4
  <2> QED BY <1>10, <2>1, <2>2 DEF ReadForDelete
<1>11. ASSUME NEW s \in Slots, ReadForActivate(s) PROVE Aimed'
  <2>1. CASE Jump(s, "failed") BY <1>2, <2>1
  <2>2. CASE Go(s, "activate")
    <3>1. PICK r : r = [req[s] EXCEPT !.pc = "activate"] OBVIOUS
    <3>2. r.id = req[s].id BY <1>0, <3>1 DEF Request
    <3>3. req[s].pc \in Open BY <1>11 DEF ReadForActivate, At, Open
    <3>4. req' = [req EXCEPT ![s] = r] BY <1>0, <2>2, <3>1 DEF Go
    <3> QED BY <1>4, <3>2, <3>3, <3>4
  <2> QED BY <1>11, <2>1, <2>2 DEF ReadForActivate
<1>12. ASSUME NEW s \in Slots, RemoveVersion(s) PROVE Aimed'
  <2>1. CASE Jump(s, "failed") BY <1>2, <2>1
  <2>2. CASE Go(s, "clear")
    <3>1. PICK r : r = [req[s] EXCEPT !.pc = "clear"] OBVIOUS
    <3>2. r.pc \notin Open BY <1>0, <3>1 DEF Request, Open
    <3>3. req' = [req EXCEPT ![s] = r] BY <1>0, <2>2, <3>1 DEF Go
    <3> QED BY <1>3, <3>2, <3>3
  <2>3. ASSUME NEW todo, NEW none,
               req' = [req EXCEPT ![s] = [req[s] EXCEPT !.pc = "renumber", !.at = 1, !.todo = todo, !.seen.rows = none]]
        PROVE  Aimed'
    <3>1. PICK r : r = [req[s] EXCEPT !.pc = "renumber", !.at = 1, !.todo = todo, !.seen.rows = none] OBVIOUS
    <3>2. r.pc \notin Open BY <1>0, <3>1 DEF Request, Open
    <3> QED BY <1>3, <2>3, <3>1, <3>2
  <2> QED BY <1>12, <2>1, <2>2, <2>3 DEF RemoveVersion
<1>13. ASSUME NEW s \in Slots, Renumber(s) PROVE Aimed'
  <2>0. req[s].pc = "renumber" BY <1>13 DEF Renumber, At
  <2>1. CASE Jump(s, "failed") BY <1>2, <2>1
  <2>2. CASE req' = [req EXCEPT ![s] = [req[s] EXCEPT !.pc = "clear", !.todo = <<>>, !.at = 0]]
    <3>1. PICK r : r = [req[s] EXCEPT !.pc = "clear", !.todo = <<>>, !.at = 0] OBVIOUS
    <3>2. r.pc \notin Open BY <1>0, <3>1 DEF Request, Open
    <3> QED BY <1>3, <2>2, <3>1, <3>2
  <2>3. CASE req' = [req EXCEPT ![s].at = req[s].at + 1]
    <3>1. PICK r : r = [req[s] EXCEPT !.at = req[s].at + 1] OBVIOUS
    <3>2. r.pc \notin Open BY <1>0, <2>0, <3>1 DEF Request, Open
    <3>3. req' = [req EXCEPT ![s] = r] BY <1>0, <2>3, <3>1
    <3> QED BY <1>3, <3>2, <3>3
  <2> QED BY <1>13, <2>1, <2>2, <2>3 DEF Renumber
<1>14. ASSUME NEW s \in Slots, CreateVersion(s) \/ ClearActive(s) PROVE Aimed'
  BY <1>2, <1>14 DEF CreateVersion, ClearActive
<1>15. CASE Restart
  <2>1. PICK q : q = [Quiet EXCEPT !.pc = "failed"] OBVIOUS
  <2>2. \A s \in Slots : req'[s] \in {q, Quiet} BY <1>15, <2>1 DEF Restart
  <2>3. \A s \in Slots : Aim(s, q) /\ Aim(s, Quiet) BY <2>1, AimQuiet
  <2> QED BY <2>2, <2>3 DEF Aimed, Aim
<1>16. Fetches => req' = req BY FetchesKeep
<1> QED
  BY <1>1, <1>6, <1>7, <1>8, <1>9, <1>10, <1>11, <1>12, <1>13, <1>14, <1>15, <1>16 DEF Next, Serve, Fetches, vars

ListStep == List!Next \/ UNCHANGED List!listVars

LEMMA ListKept ==
  ASSUME UNCHANGED kind, Present(rows)' = Present(rows), Before' = Before, Chosen' = Chosen, Asked' = Asked
  PROVE  ListStep
BY DEF ListStep, List!listVars

LEMMA ListCardinality == \A S : List!Cardinality(S) = Cardinality(S)
BY DEF List!Cardinality, Cardinality

LEMMA Members == Null \notin Present(rows) /\ Present(rows) \subseteq Ids /\ Chosen \in Present(rows) \cup {Null}
BY NullAssumption DEF Present, Chosen

(* A request is taken: no other one is in flight. *)
LEMMA ListPanels ==
  ASSUME SInv, ~overlapped',
         \/ \E t \in Tabs : ClickPublish(t) \/ \E v \in Ids : ClickVersion(t, v)
         \/ Fetches \/ \E s \in Slots : ShowAnswer(s) \/ ShowError(s)
  PROVE  ListStep
<1>0. Stored \in Answer /\ {"read", "idle"} \subseteq Steps /\ Null \in Ids \cup {Null}
  BY StoredType DEF SInv, TInv, Steps
<1>1. ASSUME NEW s \in Slots, NEW id \in Ids \cup {Null}, Send(s, id) PROVE List!Ask(s[2], id)
  <2>1. InFlight = {} BY <1>1 DEF Send
  <2>2. PICK r : r = [Quiet EXCEPT !.pc = "read", !.id = id] OBVIOUS
  <2>3. Quiet \in Request BY <1>0, Forms
  <2>4. r.pc = "read" /\ r.id = id BY <2>2, <2>3 DEF Request
  <2>5. UNCHANGED <<kind, rows, active>> /\ req' = [req EXCEPT ![s] = r] /\ req[s].pc = "idle" BY <1>1, <2>2 DEF Send
  <2>6. Asked = {} /\ Asked' = {<<s[2], id>>} BY <2>1, <2>4, <2>5, TurnWish DEF Open
  <2> QED BY <2>5, <2>6, SameRows DEF List!Ask
<1>2. ASSUME NEW t \in Tabs, ClickPublish(t) \/ \E v \in Ids : ClickVersion(t, v) PROVE ListStep
  <2>1. /\ <<t, "publish">> \in Slots /\ <<t, "activate">> \in Slots /\ <<t, "delete">> \in Slots
        /\ <<t, "publish">>[2] = "publish" /\ <<t, "activate">>[2] = "activate" /\ <<t, "delete">>[2] = "delete"
    BY DEF Slots, Ops
  <2>2. \/ Send(<<t, "publish">>, Null)
        \/ \E v \in Ids : \/ Send(<<t, "activate">>, Null) \/ Send(<<t, "activate">>, v)
                          \/ Send(<<t, "delete">>, v)
    BY <1>2 DEF ClickPublish, ClickVersion
  <2>3. \/ List!Ask("publish", Null)
        \/ \E v \in Ids : List!Ask("activate", Null) \/ List!Ask("activate", v) \/ List!Ask("delete", v)
    BY <1>1, <2>1, <2>2
  <2> QED BY <2>3 DEF ListStep, List!Next
<1>3. ASSUME NEW s \in Slots, ShowAnswer(s) \/ ShowError(s) PROVE ListStep
  <2>1. UNCHANGED <<kind, rows, active, overlapped>> /\ req' = [req EXCEPT ![s] = Quiet] /\ req[s].pc \in {"answer", "failed"}
    BY <1>3 DEF ShowAnswer, ShowError
  <2>2. Quiet.pc = "idle" BY <1>0, Forms
  <2>3. InFlight = {s} BY <2>1, Turn
  <2>4. Asked = {} /\ Asked' = {} BY <2>1, <2>2, <2>3, TurnWish DEF Open
  <2> QED BY <2>1, <2>4, SameRows, ListKept
<1>4. ASSUME Fetches PROVE ListStep
  <2>1. UNCHANGED <<kind, rows, active, req>> BY <1>4, FetchesKeep
  <2>2. Asked' = Asked BY <2>1 DEF Asked
  <2> QED BY <2>1, <2>2, SameRows, ListKept
<1> QED BY <1>2, <1>3, <1>4

(* A publish takes effect with the row it creates, or finds the list full. *)
LEMMA ListPublish ==
  ASSUME SInv, Aimed, ~overlapped, NEW s \in Slots, ReadForPublish(s) \/ CreateVersion(s) \/ Reread(s)
  PROVE  ListStep
<1>0. req[s].pc \in {"read", "create", "reread"} BY DEF ReadForPublish, CreateVersion, Reread, At
<1>1. /\ InFlight = {s} /\ Calm(req[s]) /\ req[s] \in Request /\ req \in [Slots -> Request]
      /\ rows \in [Ids -> Numbers]
  BY <1>0, Turn DEF SInv, TInv, Core
<1>2. InOrder /\ Pointing BY <1>0, <1>1 DEF Calm
<1>3. UNCHANGED <<kind, active>> BY DEF ReadForPublish, CreateVersion, Reread
<1>4. s[2] = "publish" /\ req[s].pc \in Open => Asked = {<<"publish", Null>>} /\ req[s].id = Null
  <2>1. PICK r : r = req[s] OBVIOUS
  <2>2. Wishes(req) = {<<s[2], req[s].id>>} \/ req[s].pc \notin Open BY <1>1, OneWish DEF InFlight
  <2> QED BY <2>2, AskedWishes DEF Aimed, Aim
<1>5. CASE ReadForPublish(s) /\ Jump(s, "failed") /\ Cardinality(Present(rows)) >= Limit
  <2>1. s[2] = "publish" /\ req[s].pc \in Open /\ rows' = rows BY <1>5 DEF ReadForPublish, At, Open
  <2>2. Asked' = {} BY <1>1, <1>5, JumpWish
  <2>3. Asked = {<<"publish", Null>>} /\ List!Cardinality(Present(rows)) >= Limit BY <1>4, <1>5, <2>1, ListCardinality
  <2>4. UNCHANGED <<Present(rows), Before, Chosen, kind = "agent">> BY <1>3, <2>1, SameRows
  <2>5. List!Refuse BY <2>2, <2>3, <2>4 DEF List!Refuse
  <2> QED BY <2>5 DEF ListStep, List!Next
<1>6. CASE ReadForPublish(s) /\ req' = [req EXCEPT ![s] = [@ EXCEPT !.pc = "create", !.number = NextNumber(rows)]]
  <2>1. PICK r : r = [req[s] EXCEPT !.pc = "create", !.number = NextNumber(rows)] OBVIOUS
  <2>2. r.id = req[s].id /\ r.pc = "create" BY <1>1, <2>1 DEF Request
  <2>3. req[s].pc \in Open /\ r.pc \in Open /\ rows' = rows BY <1>6, <2>2 DEF ReadForPublish, At, Open
  <2>4. req' = [req EXCEPT ![s] = r] BY <1>1, <1>6, <2>1
  <2>5. InFlight \subseteq {s} BY <1>1
  <2>6. Asked = {<<s[2], req[s].id>>} BY <2>3, <2>4, <2>5, TurnWish
  <2>7. Asked' = {<<s[2], req[s].id>>} BY <2>2, <2>3, <2>4, <2>5, TurnWish
  <2> QED BY <1>3, <2>3, <2>6, <2>7, SameRows, ListKept
<1>7. ASSUME CreateVersion(s) PROVE ListStep
  <2>0. s[2] = "publish" /\ req[s].pc = "create" BY <1>7 DEF CreateVersion, At
  <2> PICK n : n = req[s].number OBVIOUS
  <2>1. n \in 1..Limit /\ (\A j \in Ids : rows[j] # n) /\ (kind = "agent" => n = Count + 1) /\ Count < Limit
    BY <1>1, <2>0 DEF Calm
  <2>2. PICK i \in Ids \ made : rows' = [rows EXCEPT ![i] = n] /\ Jump(s, "reread")
    BY <1>7, <2>1 DEF CreateVersion
  <2>3. Asked = {<<"publish", Null>>} /\ Asked' = {} BY <1>1, <1>4, <2>0, <2>2, JumpWish DEF Open
  <2>4. i \in Ids /\ i \notin Present(rows) BY <2>2 DEF SInv, Made
  <2>5. \A j \in Ids : rows'[j] = IF j = i THEN n ELSE rows[j] BY <1>1, <2>2
  <2>6. \A j \in Ids : rows[j] \in Nat BY <1>1 DEF Numbers
  <2>7. n \in Nat \ {0} BY <2>1 DEF Limit
  <2>8. Present(rows)' = Present(rows) \cup {i} BY <2>4, <2>5, <2>7 DEF Present
  <2>9. PICK later \in SUBSET Present(rows) : later = {j \in Present(rows) : rows[j] > n} OBVIOUS
  <2>10. kind = "agent" => later = {}
    <3> SUFFICES ASSUME kind = "agent", NEW j \in Present(rows), rows[j] > n PROVE FALSE BY <2>9
    <3>1. j \in Ids /\ rows[j] <= Count BY <1>2 DEF InOrder, Present
    <3> QED BY <2>1, <2>6, <3>1, CountType
  <2>11. \A j, k \in Present(rows) : j \in later /\ <<j, k>> \in Before => k \in later
    <3> SUFFICES ASSUME NEW j \in Present(rows), NEW k \in Present(rows), rows[j] > n, rows[j] < rows[k]
                 PROVE  rows[k] > n
      BY <2>9, BeforePairs
    <3> QED BY <2>6, <2>7, Members
  <2> DEFINE added == Before \cup ((Present(rows) \ later) \X {i}) \cup ({i} \X later)
             P == Present(rows) \cup {i}
  <2>12. Before' = added
    <3>1. Before' \in SUBSET (P \X P) BY <2>8, BeforePairsNext
    <3>2. added \in SUBSET (P \X P) BY <2>9, BeforePairs
    <3>3. ASSUME NEW j \in P, NEW k \in P PROVE <<j, k>> \in Before' <=> <<j, k>> \in added
      <4>1. <<j, k>> \in Before' <=> rows'[j] < rows'[k] BY <2>8, BeforePairsNext
      <4>2. <<j, k>> \in added <=> \/ <<j, k>> \in Before
                                   \/ j \in Present(rows) \ later /\ k = i
                                   \/ j = i /\ k \in later
        OBVIOUS
      <4>3. j \in Ids /\ k \in Ids BY <2>4, Members
      <4>4. CASE j # i /\ k # i
        <5>1. j \in Present(rows) /\ k \in Present(rows) BY <4>4
        <5>2. <<j, k>> \in Before <=> rows[j] < rows[k] BY <5>1, BeforePairs
        <5>3. rows'[j] = rows[j] /\ rows'[k] = rows[k] BY <2>5, <4>3, <4>4
        <5> QED BY <4>1, <4>2, <4>4, <5>2, <5>3
      <4>5. CASE j # i /\ k = i
        <5>1. j \in Present(rows) /\ rows'[j] = rows[j] /\ rows'[k] = n BY <2>5, <4>3, <4>5
        <5>2. <<j, k>> \notin Before BY <2>4, <4>5, BeforePairs
        <5>3. rows[j] # n /\ rows[j] \in Nat BY <2>1, <2>6, <4>3
        <5>4. j \in later <=> rows[j] > n BY <2>9, <5>1
        <5> QED BY <2>7, <4>1, <4>2, <4>5, <5>1, <5>2, <5>3, <5>4
      <4>6. CASE j = i /\ k # i
        <5>1. k \in Present(rows) /\ rows'[k] = rows[k] /\ rows'[j] = n BY <2>5, <4>3, <4>6
        <5>2. <<j, k>> \notin Before BY <2>4, <4>6, BeforePairs
        <5>3. k \in later <=> rows[k] > n BY <2>9, <5>1
        <5>4. rows[k] \in Nat BY <2>6, <4>3
        <5> QED BY <2>7, <4>1, <4>2, <4>6, <5>1, <5>2, <5>3, <5>4
      <4>7. CASE j = i /\ k = i
        <5>1. rows'[j] = n /\ rows'[k] = n BY <2>5, <4>3, <4>7
        <5>2. <<j, k>> \notin Before /\ i \notin later BY <2>4, <2>9, <4>7, BeforePairs
        <5> QED BY <2>4, <2>7, <4>1, <4>2, <4>7, <5>1, <5>2
      <4> QED BY <4>4, <4>5, <4>6, <4>7
    <3> HIDE DEF added, P
    <3> QED BY <3>1, <3>2, <3>3, SamePairs
  <2>13. Chosen' = Chosen
    <3>1. active \in Ids \cup {Null} BY DEF SInv, TInv, Core
    <3>2. active # i BY <1>2, <2>4, NullAssumption, <3>1 DEF Pointing, Present
    <3> QED BY <1>3, <2>8, <3>2 DEF Chosen
  <2>14. List!Cardinality(Present(rows)) < Limit BY <2>1, ListCardinality DEF Count
  <2>15. List!Publish(i)
    <3> HIDE DEF P
    <3>1. \E l \in SUBSET Present(rows) :
             /\ kind = "agent" => l = {}
             /\ \A j, k \in Present(rows) : j \in l /\ <<j, k>> \in Before => k \in l
             /\ Before' = Before \cup ((Present(rows) \ l) \X {i}) \cup ({i} \X l)
      BY <2>10, <2>11, <2>12
    <3> QED BY <1>3, <2>3, <2>4, <2>8, <2>13, <2>14, <3>1 DEF List!Publish
  <2> QED BY <2>4, <2>15 DEF ListStep, List!Next
<1>8. CASE Reread(s)
  <2>1. PICK r : r = [Quiet EXCEPT !.pc = "answer", !.seen = Stored] OBVIOUS
  <2>2. Stored \in Answer /\ "answer" \in Steps /\ Null \in Ids \cup {Null} BY StoredType DEF SInv, TInv, Steps
  <2>3. r.pc = "answer" BY <2>1, <2>2, Forms
  <2>4. req' = [req EXCEPT ![s] = r] /\ rows' = rows /\ req[s].pc = "reread" BY <1>8, <2>1 DEF Reread
  <2>5. Asked = {} /\ Asked' = {} BY <1>1, <2>3, <2>4, TurnWish DEF Open
  <2> QED BY <1>3, <2>4, <2>5, SameRows, ListKept
<1> QED BY <1>5, <1>6, <1>7, <1>8 DEF ReadForPublish

(* A deletion takes effect with the row, or does not find it; the rest of it changes nothing of the list. *)
LEMMA ListDelete ==
  ASSUME SInv, Aimed, ~overlapped, NEW s \in Slots, ReadForDelete(s) \/ RemoveVersion(s) PROVE ListStep
<1>0. s[2] = "delete" /\ req[s].pc \in {"read", "remove"} BY DEF ReadForDelete, RemoveVersion, At
<1>1. /\ InFlight = {s} /\ Calm(req[s]) /\ req[s] \in Request /\ req \in [Slots -> Request]
      /\ rows \in [Ids -> Numbers]
  BY <1>0, Turn DEF SInv, TInv, Core
<1>2. UNCHANGED <<kind, active>> BY DEF ReadForDelete, RemoveVersion
<1> PICK gone : gone = req[s].id OBVIOUS
<1>3. gone \in Ids /\ Asked = {<<"delete", gone>>} /\ InFlight \subseteq {s}
  <2>1. req[s].pc \in Open BY <1>0 DEF Open
  <2>2. req[s].id \in Ids BY <1>0, <2>1 DEF Aimed, Aim
  <2>3. Wishes(req) = {<<s[2], req[s].id>>} BY <1>1, <2>1, OneWish DEF InFlight
  <2> QED BY <1>0, <1>1, <2>2, <2>3, AskedWishes
<1>4. ASSUME Asked' = {}, rows' = rows, gone \notin Present(rows) PROVE ListStep
  <2>1. List!Refuse BY <1>2, <1>3, <1>4, SameRows DEF List!Refuse
  <2> QED BY <2>1 DEF ListStep, List!Next
<1>5. CASE Jump(s, "failed") /\ rows[gone] = 0 /\ rows' = rows
  <2>1. Asked' = {} BY <1>3, <1>5, JumpWish
  <2> QED BY <1>4, <1>5, <2>1 DEF Present
<1>6. CASE rows' = rows /\ req' = [req EXCEPT ![s].pc = "remove", ![s].seen = Stored]
  <2>1. PICK r : r = [req[s] EXCEPT !.pc = "remove", !.seen = Stored] OBVIOUS
  <2>2. r.id = gone /\ r.pc \in Open BY <1>1, <2>1 DEF Request, Open
  <2>3. req' = [req EXCEPT ![s] = r] BY <1>1, <1>6, <2>1
  <2>4. Asked' = {<<"delete", gone>>} BY <1>0, <1>3, <2>2, <2>3, TurnWish
  <2> QED BY <1>2, <1>3, <1>6, <2>4, SameRows, ListKept
<1>7. CASE /\ rows' = [rows EXCEPT ![gone] = 0]
           /\ \/ Go(s, "clear")
              \/ \E todo, none : req' = [req EXCEPT ![s] = [req[s] EXCEPT !.pc = "renumber", !.at = 1,
                                                                !.todo = todo, !.seen.rows = none]]
  <2>1. Asked' = {}
    <3>1. CASE Go(s, "clear")
      <4>1. PICK r : r = [req[s] EXCEPT !.pc = "clear"] OBVIOUS
      <4>2. r.pc \notin Open BY <1>1, <4>1 DEF Request, Open
      <4>3. req' = [req EXCEPT ![s] = r] BY <1>1, <3>1, <4>1 DEF Go
      <4> QED BY <1>3, <4>2, <4>3, TurnWish
    <3>2. ASSUME NEW todo, NEW none,
                 req' = [req EXCEPT ![s] = [req[s] EXCEPT !.pc = "renumber", !.at = 1, !.todo = todo,
                                                          !.seen.rows = none]]
          PROVE  Asked' = {}
      <4>1. PICK r : r = [req[s] EXCEPT !.pc = "renumber", !.at = 1, !.todo = todo, !.seen.rows = none] OBVIOUS
      <4>2. r.pc \notin Open BY <1>1, <4>1 DEF Request, Open
      <4> QED BY <1>3, <3>2, <4>1, <4>2, TurnWish
    <3> QED BY <1>7, <3>1, <3>2
  <2>2. CASE gone \notin Present(rows)
    <3>1. rows' = rows BY <1>1, <1>3, <1>7, <2>2 DEF Present
    <3> QED BY <1>4, <2>1, <2>2, <3>1
  <2>3. CASE gone \in Present(rows)
    <3>1. \A j \in Ids : rows'[j] = IF j = gone THEN 0 ELSE rows[j] BY <1>1, <1>7
    <3>2. Present(rows)' = Present(rows) \ {gone} BY <3>1 DEF Present
    <3> DEFINE P == Present(rows)'
    <3>3. Before' = Before \cap (P \X P)
      <4>1. Before' \in SUBSET (P \X P) BY BeforePairsNext DEF Present
      <4>2. \A j, k \in P : <<j, k>> \in Before' <=> rows'[j] < rows'[k] BY BeforePairsNext DEF Present
      <4>3. \A j \in P : j \in Present(rows) /\ rows'[j] = rows[j] BY <3>1, <3>2, Members
      <4>4. \A j, k \in P : <<j, k>> \in Before' <=> <<j, k>> \in Before BY <4>2, <4>3, BeforePairs
      <4> HIDE DEF P
      <4>5. Before \cap (P \X P) \in SUBSET (P \X P) OBVIOUS
      <4>6. \A j, k \in P : <<j, k>> \in Before' <=> <<j, k>> \in Before \cap (P \X P) BY <4>4
      <4> QED BY <4>1, <4>5, <4>6, SamePairs
    <3>4. Chosen' = IF Chosen = gone THEN Null ELSE Chosen BY <1>2, <1>3, <3>2, NullAssumption DEF Chosen
    <3>5. List!Delete(gone) BY <1>2, <1>3, <2>1, <2>3, <3>2, <3>3, <3>4 DEF List!Delete
    <3> QED BY <1>3, <3>5 DEF ListStep, List!Next
  <2> QED BY <2>2, <2>3
<1>8. ReadForDelete(s) => rows' = rows /\ (\/ Jump(s, "failed") /\ rows[gone] = 0
                                           \/ req' = [req EXCEPT ![s].pc = "remove", ![s].seen = Stored])
  BY DEF ReadForDelete
<1>9. RemoveVersion(s) => \/ Jump(s, "failed") /\ rows[gone] = 0 /\ rows' = rows
                          \/ rows' = [rows EXCEPT ![gone] = 0] /\ Go(s, "clear")
                          \/ \E todo, none :
                                /\ rows' = [rows EXCEPT ![gone] = 0]
                                /\ req' = [req EXCEPT ![s] = [req[s] EXCEPT !.pc = "renumber", !.at = 1,
                                                                !.todo = todo, !.seen.rows = none]]
  BY DEF RemoveVersion
<1> QED BY <1>5, <1>6, <1>7, <1>8, <1>9

(* No update of the loop lets two versions change places. *)
LEMMA ListRenumber == ASSUME SInv, SInv', ~overlapped', NEW s \in Slots, Renumber(s) PROVE ListStep
<1>0. req[s].pc = "renumber" /\ UNCHANGED <<kind, active, overlapped>> BY DEF Renumber, At
<1>1. /\ InFlight = {s} /\ Calm(req[s]) /\ req[s] \in Request /\ req \in [Slots -> Request]
      /\ rows \in [Ids -> Numbers]
  BY <1>0, Turn DEF SInv, TInv, Core
<1> DEFINE todo == req[s].todo
           at == req[s].at
           i == todo[at]
<1>2. Asked = {}
  <2>1. PICK q : q = req[s] OBVIOUS
  <2>2. req' = [req EXCEPT ![s] = req'[s]]
    <3>1. req' \in [Slots -> Request] BY DEF SInv, TInv, Core
    <3>2. \A t \in Slots \ {s} : req'[t] = req[t] BY <1>1 DEF Renumber, Jump
    <3> QED BY <1>1, <3>1, <3>2
  <2> QED BY <1>0, <1>1, <2>2, TurnWish DEF Open
<1>3. CASE rows' = rows /\ Jump(s, "failed")
  <2>1. Asked' = {} BY <1>1, <1>3, JumpWish
  <2> QED BY <1>0, <1>2, <1>3, <2>1, SameRows, ListKept
<1>4. CASE rows' = rows /\ req' = [req EXCEPT ![s] = [req[s] EXCEPT !.pc = "clear", !.todo = <<>>, !.at = 0]]
  <2>1. PICK r : r = [req[s] EXCEPT !.pc = "clear", !.todo = <<>>, !.at = 0] OBVIOUS
  <2>2. r.pc \notin Open BY <1>1, <2>1 DEF Request, Open
  <2>3. req' = [req EXCEPT ![s] = r] BY <1>4, <2>1
  <2>4. Asked' = {} BY <1>1, <2>2, <2>3, TurnWish
  <2> QED BY <1>0, <1>2, <1>4, <2>4, SameRows, ListKept
<1>5. CASE /\ ~(at > Len(todo)) /\ rows[i] # 0
           /\ rows' = [rows EXCEPT ![i] = at] /\ req' = [req EXCEPT ![s].at = at + 1]
  <2>1. PICK r : r = [req[s] EXCEPT !.at = at + 1] OBVIOUS
  <2>2. r.pc = "renumber" /\ r.todo = todo BY <1>0, <1>1, <2>1 DEF Request
  <2>3. req' = [req EXCEPT ![s] = r] BY <1>1, <1>5, <2>1
  <2>4. Asked' = {} BY <1>1, <2>2, <2>3, TurnWish DEF Open
  <2>5. req'[s] = r BY <1>1, <2>3
  <2>6. Renumbering(r)'
    <3>1. s \in InFlight' BY <2>2, <2>5 DEF InFlight
    <3>2. Calm(r)' BY <2>5, <3>1 DEF SInv, Orderly
    <3> QED BY <2>2, <3>2 DEF Calm
  <2>7. /\ \A m, n \in 1..Len(todo) : m < n => rows[todo[m]] < rows[todo[n]]
        /\ \A j \in Present(rows) : \E n \in 1..Len(todo) : todo[n] = j
        /\ \A n \in 1..Len(todo) : todo[n] \in Present(rows)
    BY <1>0, <1>1 DEF Calm, Renumbering
  <2>8. /\ \A m, n \in 1..Len(todo) : m < n => rows'[todo[m]] < rows'[todo[n]]
        /\ \A j \in Present(rows') : \E n \in 1..Len(todo) : todo[n] = j
        /\ \A n \in 1..Len(todo) : todo[n] \in Present(rows')
    BY <2>2, <2>6 DEF Renumbering, Present
  <2>9. Present(rows') = Present(rows)
    <3> HIDE DEF todo
    <3>1. \A j : j \in Present(rows') <=> j \in Present(rows) BY <2>7, <2>8
    <3> QED BY <3>1
  <2>10. \A j \in Present(rows) : rows[j] \in Nat /\ rows'[j] \in Nat
    <3>1. rows' \in [Ids -> Numbers] BY DEF SInv, TInv, Core
    <3> QED BY <1>1, <3>1, Members DEF Numbers
  <2>11. ASSUME NEW j \in Present(rows), NEW k \in Present(rows) PROVE rows'[j] < rows'[k] <=> rows[j] < rows[k]
    <3>1. PICK m \in 1..Len(todo) : j = todo[m] BY <2>7
    <3>2. PICK n \in 1..Len(todo) : k = todo[n] BY <2>7
    <3>3. todo \in Seq(Ids) BY <1>1 DEF Request
    <3>4. m \in Nat /\ n \in Nat BY <3>3
    <3> HIDE DEF todo
    <3>5. CASE m < n BY <2>7, <2>8, <3>1, <3>2, <3>5
    <3>6. CASE n < m BY <2>7, <2>8, <2>10, <3>1, <3>2, <3>6
    <3>7. CASE m = n BY <2>10, <3>1, <3>2, <3>7
    <3> QED BY <3>4, <3>5, <3>6, <3>7
  <2>12. Before' = Before BY <2>9, <2>11, SameOrder
  <2>13. Present(rows)' = Present(rows) BY <2>9 DEF Present
  <2>14. Chosen' = Chosen BY <1>0, <2>13 DEF Chosen
  <2> QED BY <1>0, <1>2, <2>4, <2>12, <2>13, <2>14, ListKept
<1> QED BY <1>3, <1>4, <1>5 DEF Renumber

(* An activation takes effect with the pointer, or does not find the version; writing the pointer back after a
   deletion changes nothing that was not already so. *)
LEMMA ListActivate ==
  ASSUME SInv, Aimed, ~overlapped, NEW s \in Slots,
         ReadForActivate(s) \/ Activate(s) \/ WriteActiveBack(s) \/ ClearActive(s)
  PROVE  ListStep
<1>0. req[s].pc \in {"read", "activate", "clear"}
  BY DEF ReadForActivate, Activate, WriteActiveBack, ClearActive, At
<1>1. /\ InFlight = {s} /\ Calm(req[s]) /\ req[s] \in Request /\ req \in [Slots -> Request]
      /\ rows \in [Ids -> Numbers] /\ active \in Ids \cup {Null} /\ InFlight \subseteq {s}
  BY <1>0, Turn DEF SInv, TInv, Core
<1>2. UNCHANGED <<kind, rows>> BY DEF ReadForActivate, Activate, WriteActiveBack, ClearActive
<1>3. Present(rows)' = Present(rows) /\ Before' = Before BY <1>2, SameRows
<1> PICK v : v = req[s].id OBVIOUS
<1>4. v \in Ids \cup {Null} BY <1>1 DEF Request
<1>5. Asked = IF req[s].pc \in Open THEN {<<s[2], v>>} ELSE {}
  <2>1. Wishes(req) = IF req[s].pc \in Open THEN {<<s[2], req[s].id>>} ELSE {} BY <1>1, OneWish DEF InFlight
  <2> QED BY <2>1, AskedWishes
<1>6. ASSUME NEW a, req' = [req EXCEPT ![s] = [Quiet EXCEPT !.pc = "answer", !.seen = Stored, !.seen.active = a]]
      PROVE  Asked' = {}
  <2>1. PICK r : r = [Quiet EXCEPT !.pc = "answer", !.seen = Stored, !.seen.active = a] OBVIOUS
  <2>2. r.pc = "answer"
    <3>1. Stored \in Answer /\ "answer" \in Steps /\ Null \in Ids \cup {Null} BY StoredType DEF SInv, TInv, Steps
    <3>2. Quiet \in Request BY <3>1, Forms
    <3>3. PICK seen : seen = [Stored EXCEPT !.active = a] OBVIOUS
    <3>4. r = [Quiet EXCEPT !.pc = "answer", !.seen = seen] BY <2>1, <3>2, <3>3 DEF Request
    <3> QED BY <3>2, <3>4 DEF Request
  <2> QED BY <1>1, <1>6, <2>1, <2>2, TurnWish DEF Open
<1>7. CASE ReadForActivate(s)
  <2>1. s[2] = "activate" /\ req[s].pc \in Open /\ active' = active BY <1>7 DEF ReadForActivate, At, Open
  <2>2. CASE Jump(s, "failed") /\ v # Null /\ rows[v] = 0
    <3>1. Asked' = {} BY <1>1, <2>2, JumpWish
    <3>2. v \in Ids \ Present(rows) BY <1>4, <2>2 DEF Present
    <3>3. Asked = {<<"activate", v>>} BY <1>5, <2>1
    <3>4. List!Refuse BY <1>2, <2>1, <3>1, <3>2, <3>3, SameRows DEF List!Refuse
    <3> QED BY <3>4 DEF ListStep, List!Next
  <2>3. CASE Go(s, "activate")
    <3>1. PICK r : r = [req[s] EXCEPT !.pc = "activate"] OBVIOUS
    <3>2. r.id = v /\ r.pc \in Open BY <1>1, <3>1 DEF Request, Open
    <3>3. req' = [req EXCEPT ![s] = r] BY <1>1, <2>3, <3>1 DEF Go
    <3>4. Asked' = {<<s[2], v>>} BY <1>1, <3>2, <3>3, TurnWish
    <3> QED BY <1>2, <1>5, <2>1, <3>4, SameRows, ListKept
  <2> QED BY <1>7, <2>2, <2>3 DEF ReadForActivate
<1>8. CASE Activate(s)
  <2>1. s[2] = "activate" /\ req[s].pc = "activate" /\ active' = v BY <1>8 DEF Activate, At
  <2>2. Asked = {<<"activate", v>>} BY <1>5, <2>1 DEF Open
  <2>3. Asked' = {} BY <1>6, <1>8 DEF Activate
  <2>4. v # Null => rows[v] # 0 BY <1>1, <2>1 DEF Calm
  <2>5. v \in Present(rows) \cup {Null} BY <1>4, <2>4 DEF Present
  <2>6. Chosen' = v BY <1>3, <2>1, <2>5 DEF Chosen
  <2>7. List!Choose(v) BY <1>2, <1>3, <2>2, <2>3, <2>5, <2>6 DEF List!Choose
  <2> QED BY <1>4, <2>7 DEF ListStep, List!Next
<1>9. CASE WriteActiveBack(s) \/ ClearActive(s)
  <2>1. req[s].pc = "clear" BY <1>9 DEF WriteActiveBack, ClearActive, At
  <2>2. Asked = {} BY <1>5, <2>1 DEF Open
  <2>3. Leaving(req[s]) BY <1>1, <2>1 DEF Calm
  <2>4. Asked' = {}
    <3>1. CASE WriteActiveBack(s) BY <1>6, <3>1 DEF WriteActiveBack
    <3>2. CASE ClearActive(s)
      <4>1. Jump(s, "reread") BY <3>2 DEF ClearActive
      <4> QED BY <1>1, <4>1, JumpWish
    <3> QED BY <1>9, <3>1, <3>2
  <2>5. active' = IF active = v THEN Null ELSE active BY <1>9, <2>3 DEF WriteActiveBack, ClearActive, Leaving
  <2>6. v \notin Present(rows) /\ Null \notin Present(rows) BY <2>3, Members DEF Leaving
  <2>7. Chosen' = Chosen BY <1>3, <2>5, <2>6 DEF Chosen
  <2> QED BY <1>2, <1>3, <2>2, <2>4, <2>7, ListKept
<1> QED BY <1>7, <1>8, <1>9

LEMMA ListNext == ASSUME SInv, SInv', Aimed, [Next]_vars, ~overlapped' PROVE ListStep
<1>1. CASE UNCHANGED vars BY <1>1, SameRows, ListKept DEF vars, Asked
<1>2. CASE \/ \E t \in Tabs : ClickPublish(t) \/ \E v \in Ids : ClickVersion(t, v)
           \/ Fetches \/ \E s \in Slots : ShowAnswer(s) \/ ShowError(s)
  BY <1>2, ListPanels
<1>3. CASE Restart BY <1>3 DEF Restart
<1>4. ASSUME NEW s \in Slots,
             \/ ReadForPublish(s) \/ CreateVersion(s) \/ Reread(s) \/ ReadForDelete(s) \/ RemoveVersion(s)
             \/ Renumber(s) \/ WriteActiveBack(s) \/ ClearActive(s) \/ ReadForActivate(s) \/ Activate(s)
      PROVE  ListStep
  <2>1. ~overlapped
    BY <1>4 DEF ReadForPublish, CreateVersion, Reread, ReadForDelete, RemoveVersion, Renumber, WriteActiveBack,
                ClearActive, ReadForActivate, Activate
  <2> QED BY <1>4, <2>1, ListPublish, ListDelete, ListRenumber, ListActivate
<1> QED BY <1>1, <1>2, <1>3, <1>4 DEF Next, Serve, Fetches

LEMMA ListInit == Init => List!Init /\ Aimed
<1> SUFFICES ASSUME Init PROVE List!Init /\ Aimed OBVIOUS
<1>1. /\ Present(rows) = made /\ made \subseteq Ids /\ Cardinality(made) <= Limit /\ rows \in [Ids -> 0..Limit]
      /\ active \in made \cup {Null}
  BY DEF Init
<1>2. \A s \in Slots : req[s] = Quiet BY DEF Init
<1>3. Quiet.pc = "idle"
  <2>1. "idle" \in Steps /\ Null \in Ids \cup {Null} BY DEF Steps
  <2>2. Stored \in Answer BY TypesInit, StoredType DEF TInv
  <2> QED BY <2>1, <2>2, Forms
<1>4. Asked = {}
  <2>1. \A s \in Slots : req[s].pc \notin Open BY <1>2, <1>3 DEF Open
  <2> QED BY <2>1, AskedWishes DEF Wishes
<1>5. Aimed BY <1>2, <1>3 DEF Aimed, Aim, Open
<1>6. \A i, j \in Present(rows) : rows[i] = rows[j] => i = j BY InitRows DEF RowsOK, Present
<1>7. \A i \in Present(rows) : rows[i] \in Nat BY <1>1 DEF Limit
<1>8. \A i, j \in Present(rows) : i = j <=> <<i, j>> \notin Before /\ <<j, i>> \notin Before
  <2> SUFFICES ASSUME NEW i \in Present(rows), NEW j \in Present(rows)
               PROVE  i = j <=> <<i, j>> \notin Before /\ <<j, i>> \notin Before
    OBVIOUS
  <2>1. (<<i, j>> \in Before <=> rows[i] < rows[j]) /\ (<<j, i>> \in Before <=> rows[j] < rows[i]) BY BeforePairs
  <2>2. rows[i] \in Nat /\ rows[j] \in Nat /\ (rows[i] = rows[j] => i = j) BY <1>6, <1>7
  <2> QED BY <2>1, <2>2
<1>9. \A i, j, k \in Present(rows) : <<i, j>> \in Before /\ <<j, k>> \in Before => <<i, k>> \in Before
  BY <1>7, BeforePairs
<1>10. List!Cardinality(Present(rows)) <= Limit BY <1>1, ListCardinality
<1>11. Before \subseteq Present(rows) \X Present(rows) BY BeforePairs
<1>12. (kind = "agent") \in BOOLEAN OBVIOUS
<1>13. Chosen \in Present(rows) \cup {Null} BY Members
<1>14. List!Init BY <1>1, <1>4, <1>8, <1>9, <1>10, <1>11, <1>12, <1>13 DEF List!Init
<1> QED BY <1>5, <1>14

(* While requests come one after the other and none is cut off, the statements of the two services implement the
   abstract list of versions (agents.service.ts:283-354, planning-agent.service.ts:97-173): every request takes
   effect in exactly one of its statements, or is refused because the list is full or lacks the version, and the
   updates that renumber the rows or write the pointer back change nothing the list shows. *)
THEOREM Refinement == Spec => KeepsTheList
<1>1. Init => List!Init /\ Aimed BY ListInit
<1>2. SInv /\ Aimed /\ [Next]_vars => Aimed' BY AimStep DEF SInv
<1>3. SInv /\ SInv' /\ Aimed /\ [Next]_vars
        => [~overlapped' => List!Next \/ UNCHANGED List!listVars]_vars
  BY ListNext DEF ListStep
<1> QED BY <1>1, <1>2, <1>3, SerialAlways, PTL DEF Spec, KeepsTheList
=============================================================================
