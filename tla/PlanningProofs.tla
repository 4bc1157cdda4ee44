----------------------------- MODULE PlanningProofs -----------------------------
(***************************************************************************)
(* Every invariant of Planning, for any hires, titles, plans and bounds.   *)
(*                                                                         *)
(* CoordinatorIsFlagged needs no more than types: whatever coordinator a   *)
(* request has read, its transaction flags the one it stores.  The others  *)
(* are not inductive.  ChoicesFollowTasks: the choices travel with the     *)
(* acceptance in flight (Accepting), and a plan that arrives carries none  *)
(* (Proposing).  TypedIsKept: a save under way carries the last text       *)
(* (Typing).  PlanIsLinked: the tasks of the acceptance under way are the  *)
(* last of the board, and have not been enqueued (Linked).                 *)
(***************************************************************************)
EXTENDS Planning, SequenceTheorems, WellFoundedInduction, TLAPS

Choice == Hires \cup {Null}
Row == [title: Titles, deps: SUBSET Titles, mine: Choice, who: Hires, runs: Nat,
        closed: BOOLEAN, status: {"TODO", "BLOCKED"}, blockers: SUBSET Int]

(* The draft has a choice for every task. *)
DraftOK ==
    /\ draft \in [on: BOOLEAN, of: 0..MaxTexts, plan: Seq(Planned), choice: Seq(Choice)]
    /\ Len(draft.choice) = Len(draft.plan)
StoredOK ==
    /\ stored \in [desc: 0..MaxTexts, planner: Choice, coordinator: Choice]
    /\ cached \in [desc: 0..MaxTexts, planner: Choice, coordinator: Choice, hires: SUBSET Hires]
    /\ text \in 0..MaxTexts /\ typed \in 0..MaxTexts
RequestsOK == req \in [Slots -> Request]

(* What the planner proposes is nobody's choice yet. *)
Proposing ==
    \A s \in {"save", "run"} :
        /\ req[s].plan \in Seq(Planned)
        /\ \A i \in 1..Len(req[s].plan) : req[s].plan[i].mine = Null
(* An acceptance carries the choices of the draft it was sent with. *)
Accepting ==
    /\ req["accept"].plan \in Seq(Reviewed)
    /\ \A i \in 1..Len(req["accept"].plan) :
        req["accept"].plan[i].mine # Null => req["accept"].plan[i].who = req["accept"].plan[i].mine

IInv ==
    /\ StoredOK /\ DraftOK /\ RequestsOK /\ Proposing /\ Accepting /\ board \in Seq(Row)
    /\ CoordinatorIsFlagged /\ ChoicesFollowTasks

-----------------------------------------------------------------------------
(* Sequences                                                               *)

(* A sequence given by an expression for each position. *)
LEMMA Tabulated ==
  ASSUME NEW S, NEW n \in Nat, NEW f \in [1..n -> S]
  PROVE  f \in Seq(S) /\ Len(f) = n /\ DOMAIN f = 1..n
BY IsASeq, LenProperties

LEMMA Empty ==
  \A p : p = <<>> => p \in Seq(Planned) /\ p \in Seq(Reviewed) /\ \A i \in 1..Len(p) : FALSE
<1>1. <<>> \in Seq(Planned) /\ <<>> \in Seq(Reviewed) /\ Len(<<>>) = 0 BY EmptySeq
<1>2. \A i \in 1..0 : FALSE OBVIOUS
<1> QED BY <1>1, <1>2

LEMMA Positions == ASSUME NEW S, NEW s \in Seq(S) PROVE
    Len(s) \in Nat /\ DOMAIN s = 1..Len(s) /\ \A i \in 1..Len(s) : s[i] \in S
BY LenProperties, ElementOfSeq

(* RemoveAt closes the gap. *)
LEMMA Removed ==
  ASSUME NEW S, NEW s \in Seq(S), NEW i \in 1..Len(s)
  PROVE  /\ RemoveAt(s, i) \in Seq(S)
         /\ Len(RemoveAt(s, i)) = Len(s) - 1
         /\ \A j \in 1..Len(s) - 1 : RemoveAt(s, i)[j] = IF j < i THEN s[j] ELSE s[j + 1]
<1> DEFINE a == SubSeq(s, 1, i - 1)
           b == SubSeq(s, i + 1, Len(s))
<1>1. Len(s) \in Nat /\ \A j \in 1..Len(s) : s[j] \in S BY Positions
<1>2. a \in Seq(S) /\ Len(a) = i - 1 /\ \A j \in 1..i - 1 : a[j] = s[j]
  <2>1. 1 \in Int /\ i - 1 \in Int /\ \A j \in 1..i - 1 : s[j] \in S BY <1>1
  <2> QED BY <1>1, <2>1, SubSeqProperties
<1>3. b \in Seq(S) /\ Len(b) = Len(s) - i /\ \A j \in 1..Len(s) - i : b[j] = s[i + j]
  <2>1. i + 1 \in Int /\ Len(s) \in Int /\ \A j \in i + 1..Len(s) : s[j] \in S BY <1>1
  <2> QED BY <1>1, <2>1, SubSeqProperties
<1>4. RemoveAt(s, i) = a \o b BY DEF RemoveAt
<1> HIDE DEF a, b
<1>5. /\ a \o b \in Seq(S) /\ Len(a \o b) = Len(s) - 1
      /\ \A j \in 1..Len(s) - 1 : (a \o b)[j] = IF j <= i - 1 THEN a[j] ELSE b[j - (i - 1)]
  BY <1>1, <1>2, <1>3, ConcatProperties
<1> QED BY <1>1, <1>2, <1>3, <1>4, <1>5

-----------------------------------------------------------------------------
(* Steps                                                                   *)

Kept == UNCHANGED <<stored, flagged, board, text, typed, cached, draft>>

LEMMA QuietOK == Quiet \in Request /\ Quiet.plan = <<>>
BY EmptySeq, BoundAssumption DEF Quiet, Request, Steps

LEMMA InitOK == Init => IInv
<1> SUFFICES ASSUME Init PROVE IInv OBVIOUS
<1>1. StoredOK BY BoundAssumption DEF Init, StoredOK, Fresh, Choice
<1>2. <<>> \in Seq(Planned) /\ <<>> \in Seq(Choice) /\ <<>> \in Seq(Row)
      /\ Len(<<>>) = 0 /\ DOMAIN <<>> = 1..0
  BY EmptySeq
<1>3. DraftOK BY <1>2, BoundAssumption DEF Init, DraftOK, NoDraft
<1>4. Quiet \in Request /\ Quiet.plan = <<>> BY QuietOK
<1>7. RequestsOK BY <1>4 DEF Init, RequestsOK
<1>8. {"save", "run", "accept"} \subseteq Slots BY DEF Slots
<1>9. \A s \in {"save", "run", "accept"} : req[s].plan = <<>> BY <1>4, <1>8 DEF Init
<1>10. Proposing /\ Accepting BY <1>9, Empty DEF Proposing, Accepting
<1>5. ChoicesFollowTasks BY <1>2 DEF Init, ChoicesFollowTasks, NoDraft
<1>6. CoordinatorIsFlagged BY DEF Init, CoordinatorIsFlagged
<1> QED BY <1>1, <1>2, <1>3, <1>5, <1>6, <1>7, <1>10 DEF IInv, Init

(* The choices of a coordinator, whichever tab sends them, have slots of their own. *)
LEMMA Slotted ==
  /\ {"save", "run", "accept", "planner", "coordinate", "uncoordinate"} \subseteq Slots
  /\ Tabs \subseteq Slots /\ Choosing \subseteq Slots
  /\ \A s \in Choosing : s \notin {"save", "run", "accept", "planner"}
BY TabsAssumption DEF Slots, Choosing

(* Steps that only change requests. *)
LEMMA RequestStep ==
  ASSUME IInv, Kept, RequestsOK', Proposing', Accepting' PROVE IInv'
BY DEF IInv, Kept, StoredOK, DraftOK, CoordinatorIsFlagged, ChoicesFollowTasks

(* A request moves on, perhaps with other values, and keeps its plan. *)
LEMMA Moved ==
  ASSUME IInv, NEW s \in Slots, NEW r \in Request, req' = [req EXCEPT ![s] = r],
         r.plan = req[s].plan \/ r.plan = <<>>
  PROVE  RequestsOK' /\ Proposing' /\ Accepting'
<1>2. RequestsOK' BY DEF IInv, RequestsOK
<1>3. \A t \in Slots : req'[t].plan = req[t].plan \/ req'[t].plan = <<>> BY DEF IInv, RequestsOK
<1>4. {"save", "run", "accept"} \subseteq Slots BY DEF Slots
<1>5. ASSUME NEW t \in {"save", "run"}
      PROVE  /\ req'[t].plan \in Seq(Planned)
             /\ \A i \in 1..Len(req'[t].plan) : req'[t].plan[i].mine = Null
  <2>1. CASE req'[t].plan = req[t].plan BY <2>1 DEF IInv, Proposing
  <2>2. CASE req'[t].plan = <<>> BY <2>2, Empty
  <2> QED BY <1>3, <1>4, <2>1, <2>2
<1>6. Accepting'
  <2>1. CASE req'["accept"].plan = req["accept"].plan BY <2>1 DEF IInv, Accepting
  <2>2. CASE req'["accept"].plan = <<>> BY <2>2, Empty DEF Accepting
  <2> QED BY <1>3, <1>4, <2>1, <2>2
<1>7. Proposing' BY <1>5 DEF Proposing
<1> QED BY <1>2, <1>6, <1>7

LEMMA ToOK ==
  ASSUME IInv, NEW s \in Slots, NEW pc \in Steps, To(s, pc)
  PROVE  RequestsOK' /\ Proposing' /\ Accepting'
<1>1. req[s] \in Request BY DEF IInv, RequestsOK
<1>2. [req[s] EXCEPT !.pc = pc] \in Request /\ [req[s] EXCEPT !.pc = pc].plan = req[s].plan
  BY <1>1 DEF Request
<1>3. req' = [req EXCEPT ![s] = [req[s] EXCEPT !.pc = pc]] BY DEF To
<1> QED BY <1>2, <1>3, Moved

(* The buttons that send a request without a plan. *)
LEMMA Sent ==
  ASSUME IInv, NEW s \in Slots, NEW r \in Request, Send(s, r), r.plan = <<>> PROVE IInv'
BY Moved, RequestStep DEF Send, Kept, editor, people

LEMMA ButtonsOK ==
  ASSUME IInv,
         DescriptionButton \/ RunPlannerButton \/ PlannerForm \/ CoordinatorForm
           \/ \E t \in Tabs : OtherForm(t)
  PROVE  IInv'
<1>0. ASSUME NEW pc \in Steps, NEW of \in 0..MaxTexts, NEW h \in Choice
      PROVE  /\ [Quiet EXCEPT !.pc = pc] \in Request /\ [Quiet EXCEPT !.pc = pc].plan = <<>>
             /\ [Quiet EXCEPT !.pc = pc, !.of = of] \in Request
             /\ [Quiet EXCEPT !.pc = pc, !.of = of].plan = <<>>
             /\ [Quiet EXCEPT !.pc = pc, !.hire = h] \in Request
             /\ [Quiet EXCEPT !.pc = pc, !.hire = h].plan = <<>>
  BY QuietOK DEF Request, Choice
<1>1. /\ {"save", "run", "planner", "coordinate", "uncoordinate"} \subseteq Slots
      /\ {"write", "read"} \subseteq Steps /\ text \in 0..MaxTexts /\ 0 \in 0..MaxTexts
      /\ cached.hires \subseteq Hires
  BY BoundAssumption, Slotted DEF Steps, IInv, StoredOK
<1>2. CASE DescriptionButton
  <2>1. Send("save", [Quiet EXCEPT !.pc = "write", !.of = text]) \/ Send("run", [Quiet EXCEPT !.pc = "read"])
    BY <1>2 DEF DescriptionButton
  <2> QED BY <1>0, <1>1, <2>1, Sent DEF Choice
<1>3. CASE RunPlannerButton
  <2>1. Send("run", [Quiet EXCEPT !.pc = "read"]) BY <1>3 DEF RunPlannerButton
  <2> QED BY <1>0, <1>1, <2>1, Sent DEF Choice
<1>4. CASE PlannerForm
  <2>1. PICK h \in Hires : Send("planner", [Quiet EXCEPT !.pc = "write", !.hire = h])
    BY <1>1, <1>4 DEF PlannerForm, Selectable
  <2> QED BY <1>0, <1>1, <2>1, Sent DEF Choice
<1>5. CASE CoordinatorForm
  <2>1. \/ \E h \in Hires : Send("coordinate", [Quiet EXCEPT !.pc = "read", !.hire = h])
        \/ Send("uncoordinate", [Quiet EXCEPT !.pc = "read"])
    BY <1>1, <1>5 DEF CoordinatorForm, Selectable
  <2> QED BY <1>0, <1>1, <2>1, Sent DEF Choice
<1>6. CASE \E t \in Tabs : OtherForm(t)
  <2>1. PICK t \in Tabs, h \in Choice : Send(t, [Quiet EXCEPT !.pc = "read", !.hire = h])
    BY <1>6 DEF OtherForm, Choice
  <2> QED BY <1>0, <1>1, <2>1, Slotted, Sent DEF Choice
<1> QED BY <1>2, <1>3, <1>4, <1>5, <1>6

(* The description's field, what the page reads, and hires removed elsewhere. *)
LEMMA EditorOK ==
  ASSUME IInv, Type \/ Refetch \/ \E h \in Hires : RemoveAgent(h) PROVE IInv'
<1>1. /\ UNCHANGED <<stored, flagged, board, draft, req>>
      /\ text' \in 0..MaxTexts /\ typed' \in 0..MaxTexts
      /\ cached' \in [desc: 0..MaxTexts, planner: Choice, coordinator: Choice, hires: SUBSET Hires]
  <2>0. StoredOK BY DEF IInv
  <2>1. CASE Type BY <2>0, <2>1, BoundAssumption DEF Type, StoredOK, people, bounds
  <2>2. CASE Refetch
    <3>1. Fresh \in [desc: 0..MaxTexts, planner: Choice, coordinator: Choice, hires: SUBSET Hires]
      BY <2>0 DEF StoredOK, Fresh
    <3> QED BY <2>0, <2>2, <3>1 DEF Refetch, StoredOK, people, bounds
  <2>3. CASE \E h \in Hires : RemoveAgent(h) BY <2>0, <2>3 DEF RemoveAgent, StoredOK, editor
  <2> QED BY <2>1, <2>2, <2>3
<1> QED
  BY <1>1 DEF IInv, StoredOK, DraftOK, RequestsOK, Proposing, Accepting, CoordinatorIsFlagged,
              ChoicesFollowTasks

(* A new draft: none of its choices is anybody's yet. *)
LEMMA Drafted ==
  ASSUME IInv, UNCHANGED <<stored, flagged, board, text, typed, cached>>,
         RequestsOK', Proposing', Accepting', DraftOK',
         \A i \in 1..Len(draft'.plan) : draft'.choice[i] = draft'.plan[i].mine
  PROVE  IInv'
<1>1. DOMAIN draft'.plan = 1..Len(draft'.plan) BY Positions DEF DraftOK
<1> QED BY <1>1 DEF IInv, StoredOK, CoordinatorIsFlagged, ChoicesFollowTasks

LEMMA NoDraftOK ==
  /\ NoDraft \in [on: BOOLEAN, of: 0..MaxTexts, plan: Seq(Planned), choice: Seq(Choice)]
  /\ Len(NoDraft.choice) = Len(NoDraft.plan) /\ \A i \in 1..Len(NoDraft.plan) : FALSE
<1>1. <<>> \in Seq(Planned) /\ <<>> \in Seq(Choice) BY EmptySeq
<1> QED BY <1>1, Empty, BoundAssumption DEF NoDraft

LEMMA AnswersOK ==
  ASSUME IInv, NEW s \in Slots, Saved \/ Applied \/ PlanArrives(s) \/ Answered(s) PROVE IInv'
<1>1. "save" \in Slots /\ "accept" \in Slots /\ {"read"} \subseteq Steps BY DEF Slots, Steps
<1>2. CASE Saved
  <2>1. To("save", "read") /\ Kept BY <1>2 DEF Saved, To, Kept, people, bounds
  <2> QED BY <1>1, <2>1, ToOK, RequestStep
<1>3. CASE Answered(s)
  <2>1. req' = [req EXCEPT ![s] = Quiet] /\ Kept BY <1>3 DEF Answered, Kept, people, editor, bounds
  <2> QED BY <2>1, QuietOK, Moved, RequestStep
<1>4. CASE Applied
  <2>1. /\ req' = [req EXCEPT !["accept"] = Quiet] /\ draft' = NoDraft
        /\ UNCHANGED <<stored, flagged, board, text, typed, cached>>
    BY <1>4 DEF Applied, people, editor, bounds
  <2>2. RequestsOK' /\ Proposing' /\ Accepting' BY <1>1, <2>1, QuietOK, Moved
  <2>3. DraftOK' BY <2>1, NoDraftOK DEF DraftOK
  <2>4. \A i \in 1..Len(draft'.plan) : FALSE BY <2>1, NoDraftOK
  <2> QED BY <2>1, <2>2, <2>3, <2>4, Drafted
<1>5. CASE PlanArrives(s)
  <2> DEFINE none == [i \in 1..Len(req[s].plan) |-> Null]
  <2>1. /\ req' = [req EXCEPT ![s] = Quiet]
        /\ draft' = [on |-> TRUE, of |-> req[s].of, plan |-> req[s].plan, choice |-> none]
        /\ UNCHANGED <<stored, flagged, board, text, typed, cached>> /\ s \in {"save", "run"}
    BY <1>5 DEF PlanArrives, people, editor, bounds
  <2>2. RequestsOK' /\ Proposing' /\ Accepting' BY <2>1, QuietOK, Moved
  <2>3. /\ req[s].plan \in Seq(Planned) /\ req[s].of \in 0..MaxTexts
        /\ \A i \in 1..Len(req[s].plan) : req[s].plan[i].mine = Null
    BY <2>1 DEF IInv, Proposing, RequestsOK, Request
  <2>4. Len(req[s].plan) \in Nat BY <2>3, Positions
  <2>5. none \in [1..Len(req[s].plan) -> Choice] BY DEF Choice
  <2>6. none \in Seq(Choice) /\ Len(none) = Len(req[s].plan) BY <2>4, <2>5, Tabulated
  <2> HIDE DEF none
  <2>7. DraftOK' BY <2>1, <2>3, <2>6 DEF DraftOK
  <2>8. \A i \in 1..Len(draft'.plan) : draft'.choice[i] = draft'.plan[i].mine
    BY <2>1, <2>3 DEF none
  <2> QED BY <2>1, <2>2, <2>7, <2>8, Drafted
<1> QED BY <1>2, <1>3, <1>4, <1>5

-----------------------------------------------------------------------------
(* The review of the draft                                                 *)

LEMMA Replaced ==
  ASSUME NEW S, NEW s \in Seq(S), NEW i \in 1..Len(s), NEW e \in S
  PROVE  /\ [s EXCEPT ![i] = e] \in Seq(S) /\ Len([s EXCEPT ![i] = e]) = Len(s)
         /\ \A j \in 1..Len(s) : [s EXCEPT ![i] = e][j] = IF j = i THEN e ELSE s[j]
<1>1. Len(s) \in Nat /\ DOMAIN s = 1..Len(s) /\ \A j \in 1..Len(s) : s[j] \in S BY Positions
<1>2. s \in [1..Len(s) -> S] BY LenProperties
<1>3. [s EXCEPT ![i] = e] \in [1..Len(s) -> S] BY <1>2
<1> QED BY <1>1, <1>2, <1>3, Tabulated

(* A step of the review keeps everything else. *)
LEMMA Revised ==
  ASSUME IInv, NEW d, Reviews(d),
         d \in [on: BOOLEAN, of: 0..MaxTexts, plan: Seq(Planned), choice: Seq(Choice)],
         Len(d.choice) = Len(d.plan), \A i \in 1..Len(d.plan) : d.choice[i] = d.plan[i].mine
  PROVE  IInv'
<1>1. /\ draft' = d /\ UNCHANGED <<stored, flagged, board, text, typed, cached, req>>
  BY DEF Reviews, people, editor, bounds
<1>2. RequestsOK' /\ Proposing' /\ Accepting' BY <1>1 DEF IInv, RequestsOK, Proposing, Accepting
<1>3. DraftOK' BY <1>1 DEF DraftOK
<1> QED BY <1>1, <1>2, <1>3, Drafted

LEMMA DraftFacts ==
  ASSUME IInv
  PROVE  /\ draft.plan \in Seq(Planned) /\ draft.choice \in Seq(Choice)
         /\ Len(draft.plan) \in Nat /\ Len(draft.choice) = Len(draft.plan)
         /\ DOMAIN draft.plan = 1..Len(draft.plan) /\ DOMAIN draft.choice = 1..Len(draft.plan)
         /\ \A i \in 1..Len(draft.plan) :
                draft.plan[i] \in Planned /\ draft.choice[i] = draft.plan[i].mine
<1>1. draft.plan \in Seq(Planned) /\ draft.choice \in Seq(Choice) /\ Len(draft.choice) = Len(draft.plan)
  BY DEF IInv, DraftOK
<1>2. Len(draft.plan) \in Nat /\ DOMAIN draft.plan = 1..Len(draft.plan)
      /\ \A i \in 1..Len(draft.plan) : draft.plan[i] \in Planned
  BY <1>1, Positions
<1>3. DOMAIN draft.choice = 1..Len(draft.choice) BY <1>1, Positions
<1> QED BY <1>1, <1>2, <1>3 DEF IInv, ChoicesFollowTasks

(* Somebody is chosen for a task of the draft. *)
LEMMA ChooseOK ==
  ASSUME IInv, NEW i \in DOMAIN draft.plan, NEW h \in Hires, ChooseAssignee(i, h) PROVE IInv'
<1> DEFINE e == [draft.plan[i] EXCEPT !.mine = h]
           plan == [draft.plan EXCEPT ![i] = e]
           choice == [draft.choice EXCEPT ![i] = h]
           d == [draft EXCEPT !.choice = choice, !.plan = plan]
<1>1. i \in 1..Len(draft.plan) /\ i \in 1..Len(draft.choice) BY DraftFacts
<1>2. e \in Planned /\ e.mine = h BY <1>1, DraftFacts DEF Planned
<1> HIDE DEF e
<1>3. /\ plan \in Seq(Planned) /\ Len(plan) = Len(draft.plan)
      /\ \A j \in 1..Len(draft.plan) : plan[j] = IF j = i THEN e ELSE draft.plan[j]
  BY <1>1, <1>2, DraftFacts, Replaced
<1>4. /\ choice \in Seq(Choice) /\ Len(choice) = Len(draft.plan)
      /\ \A j \in 1..Len(draft.plan) : choice[j] = IF j = i THEN h ELSE draft.choice[j]
  <2>1. h \in Choice BY DEF Choice
  <2> QED BY <1>1, <2>1, DraftFacts, Replaced
<1> USE DEF e
<1>5. Reviews(d)
  <2>1. draft \in [on: BOOLEAN, of: 0..MaxTexts, plan: Seq(Planned), choice: Seq(Choice)]
    BY DEF IInv, DraftOK
  <2>2. [draft EXCEPT !.choice[i] = h, !.plan[i].mine = h] = d BY <2>1
  <2> QED BY <2>2 DEF ChooseAssignee
<1> HIDE DEF e, plan, choice
<1>6. /\ d \in [on: BOOLEAN, of: 0..MaxTexts, plan: Seq(Planned), choice: Seq(Choice)]
      /\ d.plan = plan /\ d.choice = choice
  BY <1>3, <1>4 DEF IInv, DraftOK
<1> HIDE DEF d
<1>7. \A j \in 1..Len(d.plan) : d.choice[j] = d.plan[j].mine
  BY <1>2, <1>3, <1>4, <1>6, DraftFacts
<1> QED BY <1>3, <1>4, <1>5, <1>6, <1>7, Revised

(* A task goes: plan and choices close the same gap. *)
LEMMA RemoveOK ==
  ASSUME IInv, NEW i \in DOMAIN draft.plan, RemoveTask(i) PROVE IInv'
<1> DEFINE plan == RemoveAt(draft.plan, i)
           choice == RemoveAt(draft.choice, i)
           d == [draft EXCEPT !.plan = plan, !.choice = choice]
<1>1. i \in 1..Len(draft.plan) /\ i \in 1..Len(draft.choice) /\ Len(draft.plan) \in Nat
  BY DraftFacts
<1>2. /\ plan \in Seq(Planned) /\ Len(plan) = Len(draft.plan) - 1
      /\ \A j \in 1..Len(draft.plan) - 1 :
            plan[j] = IF j < i THEN draft.plan[j] ELSE draft.plan[j + 1]
  BY <1>1, DraftFacts, Removed
<1>3. /\ choice \in Seq(Choice) /\ Len(choice) = Len(draft.plan) - 1
      /\ \A j \in 1..Len(draft.plan) - 1 :
            choice[j] = IF j < i THEN draft.choice[j] ELSE draft.choice[j + 1]
  BY <1>1, DraftFacts, Removed
<1>4. Reviews(d) BY DEF RemoveTask
<1> HIDE DEF plan, choice
<1>5. /\ d \in [on: BOOLEAN, of: 0..MaxTexts, plan: Seq(Planned), choice: Seq(Choice)]
      /\ d.plan = plan /\ d.choice = choice
  BY <1>2, <1>3 DEF IInv, DraftOK
<1> HIDE DEF d
<1>6. ASSUME NEW j \in 1..Len(d.plan) PROVE d.choice[j] = d.plan[j].mine
  <2>1. j \in 1..Len(draft.plan) - 1 /\ j \in 1..Len(draft.plan) /\ j + 1 \in 1..Len(draft.plan)
    BY <1>1, <1>2, <1>5
  <2>2. CASE j < i BY <1>2, <1>3, <1>5, <2>1, <2>2, DraftFacts
  <2>3. CASE ~(j < i) BY <1>2, <1>3, <1>5, <2>1, <2>3, DraftFacts
  <2> QED BY <2>2, <2>3
<1> QED BY <1>2, <1>3, <1>4, <1>5, <1>6, Revised

LEMMA DiscardOK == ASSUME IInv, Discard PROVE IInv'
<1>1. Reviews(NoDraft) BY DEF Discard
<1> QED BY <1>1, NoDraftOK, Revised

(* The agents with a role have a first one. *)
LEMMA FirstFits ==
  ASSUME NEW n \in Nat, NEW T, T \subseteq 1..n, T # {} PROVE Min(T) \in T
<1> DEFINE below == {p \in Nat \X Nat : p[1] < p[2]}
<1>1. T \subseteq Nat OBVIOUS
<1>2. IsWellFoundedOn(below, Nat) BY NatLessThanWellFounded, Zenon DEF OpToRel
<1>3. \A x, y \in Nat : y < x => <<y, x>> \in below OBVIOUS
<1> HIDE DEF below
<1>4. PICK x \in T : \A y \in T : ~(<<y, x>> \in below) BY <1>1, <1>2, WFMin
<1>5. ASSUME NEW y \in T PROVE x <= y
  <2>1. x \in Nat /\ y \in Nat BY <1>1
  <2>2. ~(y < x) BY <1>3, <1>4, <2>1
  <2> QED BY <2>1, <2>2
<1> QED BY <1>5 DEF Min

LEMMA AutoOK ==
  ASSUME IInv, NEW i \in DOMAIN draft.plan, Assignee(i) # Null PROVE Assignee(i) \in Hires
<1>1. draft.plan[i].title \in Titles /\ draft.choice[i] \in Choice
  <2>1. i \in 1..Len(draft.choice) /\ draft.plan[i] \in Planned BY DraftFacts
  <2> QED BY <2>1, DraftFacts, Positions DEF Planned
<1>2. CASE draft.choice[i] # Null BY <1>1, <1>2 DEF Assignee, Choice
<1>3. CASE draft.choice[i] = Null
  <2> DEFINE match == Match[draft.plan[i].title]
             fit == {j \in DOMAIN match : match[j] \in cached.hires}
  <2>1. match \in Seq(Hires) BY <1>1, MatchAssumption
  <2>2. Len(match) \in Nat /\ DOMAIN match = 1..Len(match) /\ \A j \in 1..Len(match) : match[j] \in Hires
    BY <2>1, Positions
  <2>3. fit # {} /\ Assignee(i) = match[Min(fit)] BY <1>3 DEF Assignee, RoleAgent
  <2>4. Min(fit) \in fit BY <2>2, <2>3, FirstFits
  <2> QED BY <2>2, <2>3, <2>4
<1> QED BY <1>2, <1>3

LEMMA AcceptOK == ASSUME IInv, AcceptButton PROVE IInv'
<1> DEFINE sent == [i \in DOMAIN draft.plan |->
                      [title |-> draft.plan[i].title, deps |-> draft.plan[i].deps,
                       mine |-> draft.plan[i].mine, who |-> Assignee(i)]]
           r == [Quiet EXCEPT !.pc = "read", !.plan = sent]
<1>1. Send("accept", r) /\ \A i \in DOMAIN draft.plan : Assignee(i) # Null BY DEF AcceptButton
<1>2. DOMAIN draft.plan = 1..Len(draft.plan) /\ Len(draft.plan) \in Nat
      /\ \A i \in DOMAIN draft.plan : draft.plan[i] \in Planned /\ draft.choice[i] = draft.plan[i].mine
  BY DraftFacts
<1>3. \A i \in DOMAIN draft.plan : Assignee(i) \in Hires BY <1>1, AutoOK
<1>4. \A i \in DOMAIN draft.plan : draft.plan[i].mine # Null => Assignee(i) = draft.plan[i].mine
  BY <1>2 DEF Assignee
<1>5. sent \in [1..Len(draft.plan) -> Reviewed] BY <1>2, <1>3 DEF Planned, Reviewed
<1>6. sent \in Seq(Reviewed) /\ Len(sent) = Len(draft.plan) BY <1>2, <1>5, Tabulated
<1>7. \A i \in 1..Len(sent) : sent[i].mine # Null => sent[i].who = sent[i].mine
  BY <1>2, <1>4, <1>6
<1> HIDE DEF sent
<1>8. r \in Request /\ r.plan = sent BY <1>6, QuietOK DEF Request, Steps
<1> HIDE DEF r
<1>9. Kept /\ req' = [req EXCEPT !["accept"] = r] BY <1>1 DEF Send, Kept, people, editor
<1>10. /\ \A s \in Slots : req[s] \in Request
       /\ req' = [s \in Slots |-> IF s = "accept" THEN r ELSE req[s]]
       /\ "accept" \in Slots /\ "save" \in Slots /\ "run" \in Slots
  BY <1>9 DEF IInv, RequestsOK, Slots
<1>11. RequestsOK' BY <1>8, <1>10 DEF RequestsOK
<1>12. Proposing' BY <1>10 DEF IInv, Proposing
<1>13. Accepting' BY <1>6, <1>7, <1>8, <1>10 DEF Accepting
<1> QED BY <1>9, <1>11, <1>12, <1>13, RequestStep

LEMMA ReviewOK == ASSUME IInv, ReviewStep PROVE IInv'
BY ChooseOK, RemoveOK, DiscardOK, AcceptOK DEF ReviewStep

-----------------------------------------------------------------------------
(* The services                                                            *)

(* The model has answered: none of the plan's tasks has been given to anybody. *)
LEMMA LLMOK == ASSUME IInv, NEW s \in Slots, CallLLM(s) PROVE IInv'
<1>1. Kept /\ s \in {"save", "run"} BY DEF CallLLM, Kept, people, editor
<1>2. "failed" \in Steps /\ "answer" \in Steps BY DEF Steps
<1>3. CASE To(s, "failed") BY <1>1, <1>2, <1>3, ToOK, RequestStep
<1>4. ASSUME NEW plan \in Plans,
             req' = [req EXCEPT ![s].pc = "answer",
                                ![s].plan = [i \in DOMAIN plan |->
                                  [title |-> plan[i].title, deps |-> plan[i].deps, mine |-> Null]]]
      PROVE  IInv'
  <2> DEFINE bare == [i \in DOMAIN plan |->
                        [title |-> plan[i].title, deps |-> plan[i].deps, mine |-> Null]]
             r == [req[s] EXCEPT !.pc = "answer", !.plan = bare]
  <2>1. plan \in Seq([title: Titles, deps: SUBSET Titles]) BY PlansAssumption
  <2>2. DOMAIN plan = 1..Len(plan) /\ Len(plan) \in Nat
        /\ \A i \in 1..Len(plan) : plan[i] \in [title: Titles, deps: SUBSET Titles]
    BY <2>1, Positions
  <2>3. bare \in [1..Len(plan) -> Planned] BY <2>2 DEF Planned
  <2>4. bare \in Seq(Planned) /\ Len(bare) = Len(plan) BY <2>2, <2>3, Tabulated
  <2>5. \A i \in 1..Len(bare) : bare[i].mine = Null BY <2>2, <2>4
  <2>6. req' = [req EXCEPT ![s] = r] BY <1>4 DEF IInv, RequestsOK
  <2> HIDE DEF bare
  <2>7. r \in Request /\ r.plan = bare BY <1>2, <2>4 DEF IInv, RequestsOK, Request
  <2> HIDE DEF r
  <2>8. /\ \A t \in Slots : req[t] \in Request
        /\ req' = [t \in Slots |-> IF t = s THEN r ELSE req[t]]
        /\ {"accept", "save", "run"} \subseteq Slots
    BY <2>6 DEF IInv, RequestsOK, Slots
  <2>9. RequestsOK' BY <2>7, <2>8 DEF RequestsOK
  <2>10. Accepting' BY <1>1, <2>8 DEF IInv, Accepting
  <2>11. ASSUME NEW t \in {"save", "run"}
         PROVE  /\ req'[t].plan \in Seq(Planned)
                /\ \A i \in 1..Len(req'[t].plan) : req'[t].plan[i].mine = Null
    <3>1. CASE t = s BY <2>4, <2>5, <2>7, <2>8, <3>1
    <3>2. CASE t # s
      <4>1. req'[t] = req[t] BY <2>8, <3>2
      <4> QED BY <4>1 DEF IInv, Proposing
    <3> QED BY <3>1, <3>2
  <2>12. Proposing' BY <2>11 DEF Proposing
  <2> QED BY <1>1, <2>9, <2>10, <2>12, RequestStep
<1> QED BY <1>3, <1>4 DEF CallLLM

(* Only the project row changes, to a coordinator that is flagged. *)
LEMMA StoredStep ==
  ASSUME IInv, RequestsOK', Proposing', Accepting', CoordinatorIsFlagged',
         UNCHANGED <<board, text, typed, cached, draft>>,
         stored' \in [desc: 0..MaxTexts, planner: Choice, coordinator: Choice]
  PROVE  IInv'
BY DEF IInv, StoredOK, DraftOK, ChoicesFollowTasks

LEMMA ProjectOK ==
  ASSUME IInv, NEW s \in Slots, UpdateDescription(s) \/ SetPlanner(s) \/ WriteCoordinator(s)
  PROVE  IInv'
<1>1. /\ stored \in [desc: 0..MaxTexts, planner: Choice, coordinator: Choice]
      /\ req[s].of \in 0..MaxTexts /\ req[s].hire \in Choice
      /\ {"written", "answer"} \subseteq Steps
  BY DEF IInv, StoredOK, RequestsOK, Request, Choice, Steps
<1>2. UNCHANGED <<board, text, typed, cached, draft>>
  BY DEF UpdateDescription, SetPlanner, WriteCoordinator, people, editor, bounds
<1>3. RequestsOK' /\ Proposing' /\ Accepting'
  <2>1. To(s, "written") \/ To(s, "answer") BY DEF UpdateDescription, SetPlanner, WriteCoordinator
  <2> QED BY <1>1, <2>1, ToOK
<1>4. stored' \in [desc: 0..MaxTexts, planner: Choice, coordinator: Choice]
  BY <1>1 DEF UpdateDescription, SetPlanner, WriteCoordinator
<1>5. CoordinatorIsFlagged'
  <2>1. CASE WriteCoordinator(s)
    <3>1. stored'.coordinator = req[s].hire
          /\ flagged' = (flagged \ {req[s].prior}) \cup ({req[s].hire} \ {Null})
      BY <1>1, <2>1 DEF WriteCoordinator
    <3> QED BY <3>1 DEF CoordinatorIsFlagged
  <2>2. CASE UpdateDescription(s) \/ SetPlanner(s)
    <3>1. stored'.coordinator = stored.coordinator /\ flagged' = flagged
      BY <1>1, <2>2 DEF UpdateDescription, SetPlanner, people
    <3> QED BY <3>1 DEF IInv, CoordinatorIsFlagged
  <2> QED BY <2>1, <2>2
<1> QED BY <1>2, <1>3, <1>4, <1>5, StoredStep

LEMMA ReadsOK ==
  ASSUME IInv, NEW s \in Slots, ReadForRun(s) \/ ReadForAccept(s) \/ ReadCoordinator(s) \/ CutOff(s)
  PROVE  IInv'
<1>1. Kept BY DEF ReadForRun, ReadForAccept, ReadCoordinator, CutOff, Kept, people, editor, bounds
<1>2. {"llm", "create", "write", "failed"} \subseteq Steps /\ req[s] \in Request
      /\ stored.desc \in 0..MaxTexts /\ stored.coordinator \in Choice
  BY DEF Steps, IInv, RequestsOK, StoredOK
<1>3. CASE To(s, "create") \/ To(s, "failed") BY <1>1, <1>2, <1>3, ToOK, RequestStep
<1>4. CASE ReadForRun(s)
  <2> DEFINE r == [req[s] EXCEPT !.pc = "llm", !.of = stored.desc]
  <2>1. req' = [req EXCEPT ![s] = r] BY <1>4 DEF ReadForRun, IInv, RequestsOK
  <2>2. r \in Request /\ r.plan = req[s].plan BY <1>2 DEF Request
  <2> QED BY <1>1, <2>1, <2>2, Moved, RequestStep
<1>5. CASE req' = [req EXCEPT ![s].pc = "write", ![s].prior = stored.coordinator]
  <2> DEFINE r == [req[s] EXCEPT !.pc = "write", !.prior = stored.coordinator]
  <2>1. req' = [req EXCEPT ![s] = r] BY <1>5 DEF IInv, RequestsOK
  <2>2. r \in Request /\ r.plan = req[s].plan BY <1>2 DEF Request, Choice
  <2> QED BY <1>1, <2>1, <2>2, Moved, RequestStep
<1> QED BY <1>3, <1>4, <1>5 DEF ReadForAccept, ReadCoordinator, CutOff

(* Only the board changes, to rows that have who was chosen. *)
LEMMA BoardStep ==
  ASSUME IInv, RequestsOK', Proposing', Accepting', board' \in Seq(Row),
         \A i \in 1..Len(board') : board'[i].mine # Null => board'[i].who = board'[i].mine,
         UNCHANGED <<stored, flagged, text, typed, cached, draft>>
  PROVE  IInv'
<1>1. DOMAIN board' = 1..Len(board') BY Positions
<1>2. ChoicesFollowTasks' BY <1>1 DEF IInv, ChoicesFollowTasks
<1> QED BY <1>2 DEF IInv, StoredOK, DraftOK, CoordinatorIsFlagged

LEMMA BoardFacts ==
  ASSUME IInv
  PROVE  /\ board \in Seq(Row) /\ Len(board) \in Nat /\ DOMAIN board = 1..Len(board)
         /\ \A i \in 1..Len(board) :
                board[i] \in Row /\ (board[i].mine # Null => board[i].who = board[i].mine)
<1>1. board \in Seq(Row) BY DEF IInv
<1>2. Len(board) \in Nat /\ DOMAIN board = 1..Len(board) /\ \A i \in 1..Len(board) : board[i] \in Row
  BY <1>1, Positions
<1> QED BY <1>1, <1>2 DEF IInv, ChoicesFollowTasks

LEMMA CreateOK == ASSUME IInv, NEW s \in Slots, CreateTasks(s) PROVE IInv'
<1> DEFINE plan == req["accept"].plan
           new == Created(plan)
<1>1. /\ s = "accept" /\ To("accept", "enqueue") /\ board' = board \o new
      /\ UNCHANGED <<stored, flagged, text, typed, cached, draft>>
  BY DEF CreateTasks, At, people, editor, bounds
<1>2. "enqueue" \in Steps BY DEF Steps
<1>3. RequestsOK' /\ Proposing' /\ Accepting' BY <1>1, <1>2, ToOK
<1>4. /\ plan \in Seq(Reviewed)
      /\ \A i \in 1..Len(plan) : plan[i].mine # Null => plan[i].who = plan[i].mine
  BY DEF IInv, Accepting
<1>5. Len(plan) \in Nat /\ DOMAIN plan = 1..Len(plan) /\ \A i \in 1..Len(plan) : plan[i] \in Reviewed
  BY <1>4, Positions
<1> HIDE DEF plan
<1>6. ASSUME NEW i \in 1..Len(plan)
      PROVE  new[i] \in Row /\ (new[i].mine # Null => new[i].who = new[i].mine)
  <2> DEFINE links == {Len(board) + l[1] : l \in {x \in Links(plan) : x[2] = i}}
  <2>1. links \subseteq Int
    <3>1. \A l \in Links(plan) : l[1] \in 1..Len(plan) BY <1>5 DEF Links
    <3> QED BY <1>5, <3>1, BoardFacts
  <2>2. Closed(plan) \in BOOLEAN BY DEF Closed
  <2> HIDE DEF links
  <2>3. new[i] = [title |-> plan[i].title, deps |-> plan[i].deps, mine |-> plan[i].mine,
                  who |-> plan[i].who, runs |-> 0, closed |-> Closed(plan),
                  status |-> IF plan[i].deps = {} THEN "TODO" ELSE "BLOCKED", blockers |-> links]
    BY <1>5 DEF Created, links
  <2>4. plan[i] \in Reviewed BY <1>5
  <2> QED BY <1>4, <2>1, <2>2, <2>3, <2>4 DEF Row, Reviewed, Choice
<1>7. new \in Seq(Row) /\ Len(new) = Len(plan)
  <2>1. new \in [1..Len(plan) -> Row]
    <3>1. DOMAIN new = 1..Len(plan) /\ new = [i \in DOMAIN new |-> new[i]] BY <1>5 DEF Created
    <3> QED BY <1>6, <3>1
  <2> QED BY <1>5, <2>1, Tabulated
<1> HIDE DEF new
<1>7a. board \in Seq(Row) /\ new \in Seq(Row) BY <1>7, BoardFacts
<1>7b. /\ board \o new \in Seq(Row) /\ Len(board \o new) = Len(board) + Len(new)
       /\ \A i \in 1..Len(board) + Len(new) :
            (board \o new)[i] = IF i <= Len(board) THEN board[i] ELSE new[i - Len(board)]
  BY <1>7a, ConcatProperties
<1>8. /\ board' \in Seq(Row) /\ Len(board') = Len(board) + Len(new)
      /\ \A i \in 1..Len(board) + Len(new) :
            board'[i] = IF i <= Len(board) THEN board[i] ELSE new[i - Len(board)]
  BY <1>1, <1>7b
<1>9. ASSUME NEW i \in 1..Len(board') PROVE board'[i].mine # Null => board'[i].who = board'[i].mine
  <2>1. CASE i <= Len(board)
    <3>1. i \in 1..Len(board) /\ board'[i] = board[i] BY <1>5, <1>7, <1>8, <2>1, BoardFacts
    <3> QED BY <3>1, BoardFacts
  <2>2. CASE ~(i <= Len(board))
    <3>1. i - Len(board) \in 1..Len(plan) /\ board'[i] = new[i - Len(board)]
      BY <1>5, <1>7, <1>8, <2>2, BoardFacts
    <3> QED BY <1>6, <3>1
  <2> QED BY <2>1, <2>2
<1> QED BY <1>1, <1>3, <1>8, <1>9, BoardStep

LEMMA EnqueueOK == ASSUME IInv, NEW s \in Slots, Enqueue(s) PROVE IInv'
<1> DEFINE Run(done) == [i \in DOMAIN board |->
                          IF i \in done THEN [board[i] EXCEPT !.runs = @ + 1] ELSE board[i]]
<1>1. /\ To(s, "answer") \/ To(s, "failed")
      /\ \E done : board' = Run(done)
      /\ UNCHANGED <<stored, flagged, text, typed, cached, draft>>
  BY DEF Enqueue, people, editor
<1>2. "answer" \in Steps /\ "failed" \in Steps BY DEF Steps
<1>3. RequestsOK' /\ Proposing' /\ Accepting' BY <1>1, <1>2, ToOK
<1>4. PICK done : board' = Run(done) BY <1>1
<1>5. ASSUME NEW i \in 1..Len(board)
      PROVE  Run(done)[i] \in Row /\ (Run(done)[i].mine # Null => Run(done)[i].who = Run(done)[i].mine)
  <2>1. board[i] \in Row /\ (board[i].mine # Null => board[i].who = board[i].mine) BY BoardFacts
  <2>2. Run(done)[i] = IF i \in done THEN [board[i] EXCEPT !.runs = @ + 1] ELSE board[i] BY BoardFacts
  <2>3. [board[i] EXCEPT !.runs = @ + 1] \in Row
        /\ [board[i] EXCEPT !.runs = @ + 1].mine = board[i].mine
        /\ [board[i] EXCEPT !.runs = @ + 1].who = board[i].who
    BY <2>1 DEF Row
  <2> QED BY <2>1, <2>2, <2>3
<1>6. Run(done) \in [1..Len(board) -> Row]
  <2>1. Run(done) = [i \in 1..Len(board) |-> Run(done)[i]] BY BoardFacts
  <2> QED BY <1>5, <2>1
<1>7. Run(done) \in Seq(Row) /\ Len(Run(done)) = Len(board) BY <1>6, BoardFacts, Tabulated
<1> HIDE DEF Run
<1> QED BY <1>1, <1>3, <1>4, <1>5, <1>7, BoardStep

-----------------------------------------------------------------------------
(* The invariant                                                           *)

LEMMA StepOK == IInv /\ [Next]_vars => IInv'
<1> SUFFICES ASSUME IInv, [Next]_vars PROVE IInv' OBVIOUS
<1>1. CASE Type \/ Refetch \/ \E h \in Hires : RemoveAgent(h) BY <1>1, EditorOK
<1>2. CASE DescriptionButton \/ RunPlannerButton \/ PlannerForm \/ CoordinatorForm
             \/ \E t \in Tabs : OtherForm(t)
  BY <1>2, ButtonsOK
<1>3. CASE ReviewStep BY <1>3, ReviewOK
<1>4. CASE Saved \/ Applied
  <2>1. "save" \in Slots BY DEF Slots
  <2> QED BY <1>4, <2>1, AnswersOK
<1>5. ASSUME NEW s \in Slots, PlanArrives(s) \/ Answered(s) \/ Service(s) \/ CutOff(s) PROVE IInv'
  BY <1>5, AnswersOK, ProjectOK, ReadsOK, LLMOK, CreateOK, EnqueueOK DEF Service
<1>6. CASE UNCHANGED vars
  BY <1>6 DEF vars, people, editor, bounds, IInv, StoredOK, DraftOK, RequestsOK, Proposing, Accepting,
              CoordinatorIsFlagged, ChoicesFollowTasks
<1> QED BY <1>1, <1>2, <1>3, <1>4, <1>5, <1>6 DEF Next

LEMMA Always == Spec => []IInv
BY InitOK, StepOK, PTL DEF Spec

(* For any hires, plans and bounds, and any number of tabs whose choices overlap, the project's
   coordinator carries the flag, though each choice lowers the flag of the coordinator it read before
   its transaction (coordinator.service.ts:45-70, 76-92). *)
THEOREM CoordinatorFlagged == Spec => []CoordinatorIsFlagged
<1>1. IInv => CoordinatorIsFlagged BY DEF IInv
<1> QED BY <1>1, Always, PTL

(* For plans of any length, what the leader chooses for a task stays with it while others are removed
   and goes with it to the board (settings/page.tsx:883-889, 1357-1369). *)
THEOREM ChoicesFollow == Spec => []ChoicesFollowTasks
<1>1. IInv => ChoicesFollowTasks BY DEF IInv
<1> QED BY <1>1, Always, PTL

-----------------------------------------------------------------------------
(* The text of the description                                             *)

(* What is in the field is the last text, or what is stored is; a save carries the last text. *)
Typing ==
    \/ raced
    \/ /\ dirty => text = typed
       /\ ~dirty => stored.desc = typed
       /\ req["save"].pc = "write" => dirty /\ req["save"].of = typed
       /\ req["save"].pc = "written" => stored.desc = typed

LEMMA TypingInit == Init => Typing
BY DEF Init, Typing, Slots, Quiet

(* Steps that leave the field and the stored text alone and start no save. *)
SaveKept ==
    /\ UNCHANGED <<text, dirty, typed, raced>> /\ stored'.desc = stored.desc
    /\ req'["save"] = req["save"] \/ req'["save"].pc \notin {"write", "written"}
LEMMA TypingKept == ASSUME Typing, SaveKept PROVE Typing'
BY DEF Typing, SaveKept

(* What a request does to its own slot. *)
LEMMA SlotMoves ==
  ASSUME IInv, NEW s \in Slots, NEW pc, To(s, pc)
  PROVE  /\ req'[s] = [req[s] EXCEPT !.pc = pc] /\ req'[s].pc = pc
         /\ \A t \in Slots \ {s} : req'[t] = req[t]
BY DEF IInv, RequestsOK, Request, To

LEMMA TypingNext == IInv /\ Typing /\ [Next]_vars => Typing'
<1> SUFFICES ASSUME IInv, Typing, [Next]_vars PROVE Typing' OBVIOUS
<1>0. /\ {"save", "run", "accept", "planner", "coordinate", "uncoordinate"} \subseteq Slots
      /\ Tabs \subseteq Slots \ {"save"} /\ "save" \notin Choosing
      /\ req \in [Slots -> Request] /\ stored \in [desc: 0..MaxTexts, planner: Choice, coordinator: Choice]
      /\ typed \in Nat
  BY BoundAssumption, Slotted, TabsAssumption DEF IInv, RequestsOK, StoredOK
<1>1. CASE Type BY <1>0, <1>1 DEF Type, Typing
<1>2. CASE Refetch BY <1>2 DEF Refetch, Typing
<1>3. CASE Saved
  <2>1. req'["save"].pc = "read" BY <1>0, <1>3 DEF Saved, Request
  <2> QED BY <1>3, <2>1 DEF Saved, Typing
<1>4. CASE DescriptionButton
  <2>1. CASE dirty /\ Send("save", [Quiet EXCEPT !.pc = "write", !.of = text])
    <3>1. req'["save"].pc = "write" /\ req'["save"].of = text BY <1>0, <2>1 DEF Send, Quiet
    <3> QED BY <2>1, <3>1 DEF Send, Typing, editor
  <2>2. CASE Send("run", [Quiet EXCEPT !.pc = "read"])
    <3>1. SaveKept BY <1>0, <2>2 DEF Send, SaveKept, editor
    <3> QED BY <3>1, TypingKept
  <2> QED BY <1>4, <2>1, <2>2 DEF DescriptionButton
<1>5. CASE RunPlannerButton \/ PlannerForm \/ CoordinatorForm \/ AcceptButton
             \/ \E t \in Tabs : OtherForm(t)
  <2>1. PICK s \in Slots \ {"save"} : \E r : Send(s, r)
    BY <1>0, <1>5 DEF RunPlannerButton, PlannerForm, CoordinatorForm, AcceptButton, OtherForm
  <2>2. SaveKept BY <1>0, <2>1 DEF Send, SaveKept, editor
  <2> QED BY <2>2, TypingKept
<1>6. ASSUME NEW d, Reviews(d) PROVE Typing'
  <2>1. SaveKept BY <1>6 DEF Reviews, SaveKept, editor
  <2> QED BY <2>1, TypingKept
<1>7. CASE ReviewStep BY <1>5, <1>6, <1>7 DEF ReviewStep, RemoveTask, ChooseAssignee, Discard
<1>8. CASE Applied \/ \E h \in Hires : RemoveAgent(h)
  <2>1. SaveKept BY <1>0, <1>8 DEF Applied, RemoveAgent, SaveKept, editor
  <2> QED BY <2>1, TypingKept
<1>9. ASSUME NEW s \in Slots, PlanArrives(s) \/ Answered(s) PROVE Typing'
  <2>1. SaveKept BY <1>0, <1>9 DEF PlanArrives, Answered, SaveKept, editor, Quiet
  <2> QED BY <2>1, TypingKept
<1>10. ASSUME NEW s \in Slots, UpdateDescription(s) PROVE Typing'
  <2>1. s = "save" /\ To("save", "written") /\ req["save"].pc = "write"
    BY <1>10 DEF UpdateDescription, At
  <2>2. req'["save"].pc = "written" BY <1>0, <2>1, SlotMoves
  <2>3. stored'.desc = req["save"].of BY <1>0, <1>10, <2>1 DEF UpdateDescription
  <2> QED BY <1>10, <2>1, <2>2, <2>3 DEF UpdateDescription, Typing, editor
<1>11. ASSUME NEW s \in Slots, ReadForRun(s) \/ CallLLM(s) PROVE Typing'
  <2>1. UNCHANGED <<text, dirty, typed, raced>> /\ stored'.desc = stored.desc
    BY <1>11 DEF ReadForRun, CallLLM, editor
  <2>2. req'["save"] = req["save"] \/ req'["save"].pc \in {"llm", "answer", "failed"}
    BY <1>0, <1>11 DEF ReadForRun, CallLLM, To, Request
  <2> QED BY <2>1, <2>2, TypingKept DEF SaveKept
<1>12. ASSUME NEW s \in Slots \ {"save"},
              ReadForAccept(s) \/ CreateTasks(s) \/ Enqueue(s) \/ SetPlanner(s)
                \/ ReadCoordinator(s) \/ WriteCoordinator(s)
       PROVE  Typing'
  <2>1. UNCHANGED <<text, dirty, typed, raced>>
    BY <1>12 DEF ReadForAccept, CreateTasks, Enqueue, SetPlanner, ReadCoordinator, WriteCoordinator, editor
  <2>2. stored'.desc = stored.desc
    BY <1>0, <1>12 DEF ReadForAccept, CreateTasks, Enqueue, SetPlanner, ReadCoordinator, WriteCoordinator
  <2>3. req'["save"] = req["save"]
    BY <1>0, <1>12
       DEF ReadForAccept, CreateTasks, Enqueue, SetPlanner, ReadCoordinator, WriteCoordinator, To
  <2> QED BY <2>1, <2>2, <2>3, TypingKept DEF SaveKept
<1>13. ASSUME NEW s \in Slots, CutOff(s) PROVE Typing'
  <2>1. req'["save"] = req["save"] \/ req'["save"].pc = "failed"
    BY <1>0, <1>13 DEF CutOff, To, Request
  <2>2. SaveKept BY <1>13, <2>1 DEF CutOff, SaveKept, editor
  <2> QED BY <2>2, TypingKept
<1>14. CASE UNCHANGED vars BY <1>14 DEF vars, editor, Typing
<1>15. ASSUME NEW s \in Slots, Service(s) PROVE Typing'
  <2>1. s = "save" => UpdateDescription(s) \/ ReadForRun(s) \/ CallLLM(s)
    BY <1>0, <1>15
       DEF Service, ReadForAccept, CreateTasks, Enqueue, SetPlanner, ReadCoordinator, WriteCoordinator, At
  <2> QED BY <1>10, <1>11, <1>12, <1>15, <2>1 DEF Service
<1> QED
  BY <1>1, <1>2, <1>3, <1>4, <1>5, <1>7, <1>8, <1>9, <1>13, <1>14, <1>15 DEF Next

(* The last text typed is in the field or saved, whatever re-plans and refetches arrive after it,
   unless it was typed while a save was under way (settings/page.tsx:798-824). *)
THEOREM TypedKept == Spec => []TypedIsKept
<1>1. IInv /\ Typing /\ [Next]_vars => (IInv /\ Typing)' BY StepOK, TypingNext
<1>2. Init => IInv /\ Typing BY InitOK, TypingInit
<1>3. Typing => TypedIsKept BY DEF Typing, TypedIsKept
<1> QED BY <1>1, <1>2, <1>3, PTL DEF Spec

-----------------------------------------------------------------------------
(* The links and runs of the tasks created                                 *)

(* The rows of the acceptance whose tasks are yet to be enqueued are the last ones. *)
New(i) == req["accept"].pc = "enqueue" /\ i > Len(board) - Len(req["accept"].plan)
Linked(i) ==
    /\ board[i].blockers \subseteq 1..Len(board) /\ board[i].runs \in 0..1
    /\ New(i) => board[i].runs = 0
    /\ board[i].status = "BLOCKED" =>
         /\ board[i].runs = 0
         /\ board[i].closed => {board[j].title : j \in board[i].blockers} = board[i].deps
    /\ board[i].status = "TODO" /\ ~failed /\ ~New(i) => board[i].runs = 1
AllLinked == \A i \in 1..Len(board) : Linked(i)

LEMMA LinkedInit == Init => AllLinked
<1> SUFFICES ASSUME Init PROVE AllLinked OBVIOUS
<1>1. board = <<>> BY DEF Init
<1>2. Len(board) = 0 BY <1>1, EmptySeq
<1> QED BY <1>2 DEF AllLinked

(* In a closed plan, where titles differ, a task is linked to just the tasks it names. *)
LEMMA ClosedLinks ==
  ASSUME NEW plan \in Seq(Reviewed), Closed(plan), NEW i \in DOMAIN plan
  PROVE  {plan[l[1]].title : l \in {x \in Links(plan) : x[2] = i}} = plan[i].deps
<1>1. DOMAIN plan = 1..Len(plan) /\ Len(plan) \in Nat BY Positions
<1>2. ASSUME NEW k \in DOMAIN plan PROVE LastOf(plan, plan[k].title) = k
  <2> DEFINE same == {j \in DOMAIN plan : plan[j].title = plan[k].title}
  <2>1. same = {k} BY DEF Closed
  <2>2. LastOf(plan, plan[k].title) = CHOOSE j \in same : \A m \in same : m <= j BY DEF LastOf
  <2>3. k <= k BY <1>1
  <2>4. \A j \in {k} : j = k OBVIOUS
  <2> HIDE DEF same
  <2>5. k \in same /\ \A m \in same : m <= k BY <2>1, <2>3
  <2>6. (CHOOSE j \in same : \A m \in same : m <= j) \in same BY <2>5
  <2> QED BY <2>1, <2>2, <2>6
<1>3. ASSUME NEW k \in DOMAIN plan, k # i, plan[k].title \in plan[i].deps
      PROVE  <<k, i>> \in Links(plan)
  BY <1>2, <1>3 DEF Links
<1>4. ASSUME NEW l \in Links(plan), l[2] = i
      PROVE  l[1] \in DOMAIN plan /\ plan[l[1]].title \in plan[i].deps
  <2>1. PICK k \in DOMAIN plan : plan[k].title = plan[l[2]].title /\ plan[l[1]].title \in plan[k].deps
    BY DEF Links
  <2>2. k = i BY <1>4, <2>1 DEF Closed
  <2> QED BY <2>1, <2>2 DEF Links
<1>5. ASSUME NEW t \in plan[i].deps
      PROVE  \E l \in Links(plan) : l[2] = i /\ plan[l[1]].title = t
  <2>1. PICK k \in DOMAIN plan : plan[k].title = t /\ k # i BY DEF Closed, Titled
  <2>2. <<k, i>> \in Links(plan) BY <1>3, <2>1
  <2> QED BY <2>1, <2>2
<1> QED BY <1>4, <1>5

(* Steps that neither create nor enqueue. *)
BoardKept ==
    /\ board' = board /\ (failed => failed')
    /\ \/ req'["accept"] = req["accept"]
       \/ req["accept"].pc # "enqueue" /\ req'["accept"].pc # "enqueue"
       \/ req'["accept"].pc = "failed" /\ failed'
LEMMA LinkedKept == ASSUME AllLinked, BoardKept PROVE AllLinked'
<1> SUFFICES ASSUME NEW i \in 1..Len(board) PROVE Linked(i)' BY DEF AllLinked, BoardKept
<1>1. Linked(i) BY DEF AllLinked
<1>2. New(i)' => New(i) BY DEF BoardKept, New
<1>3. New(i) /\ ~New(i)' => failed' BY DEF BoardKept, New
<1> QED BY <1>1, <1>2, <1>3 DEF BoardKept, Linked

(* The tasks of a plan go to the end of the board; the others have been enqueued, or not, before. *)
LEMMA CreateLinks == ASSUME IInv, AllLinked, NEW s \in Slots, CreateTasks(s) PROVE AllLinked'
<1> DEFINE plan == req["accept"].plan
           new == Created(plan)
           links(n, i) == {n + l[1] : l \in {x \in Links(plan) : x[2] = i}}
<1>0. PICK n : n = Len(board) OBVIOUS
<1>1. /\ s = "accept" /\ To("accept", "enqueue") /\ board' = board \o new /\ failed' = failed
      /\ req["accept"].pc = "create"
  BY DEF CreateTasks, At, bounds
<1>2. "accept" \in Slots BY DEF Slots
<1>3. req'["accept"].pc = "enqueue" /\ req'["accept"].plan = plan
  BY <1>1, <1>2, SlotMoves DEF IInv, RequestsOK, Request
<1>4. plan \in Seq(Reviewed) /\ board \in Seq(Row) BY DEF IInv, Accepting
<1> HIDE DEF plan
<1>5. /\ Len(plan) \in Nat /\ DOMAIN plan = 1..Len(plan) /\ \A i \in 1..Len(plan) : plan[i] \in Reviewed
      /\ n \in Nat
  BY <1>0, <1>4, Positions
<1>l. \A l \in Links(plan) : l[1] \in 1..Len(plan) BY <1>5 DEF Links
<1>6. ASSUME NEW i \in 1..Len(plan)
      PROVE  /\ new[i] \in Row /\ new[i].title = plan[i].title /\ new[i].deps = plan[i].deps
             /\ new[i].runs = 0 /\ new[i].closed = Closed(plan) /\ new[i].blockers = links(n, i)
             /\ links(n, i) = {n + l[1] : l \in {x \in Links(plan) : x[2] = i}}
  <2>1. links(n, i) \subseteq Int BY <1>5, <1>l
  <2>2. Closed(plan) \in BOOLEAN BY DEF Closed
  <2>3. new[i] = [title |-> plan[i].title, deps |-> plan[i].deps, mine |-> plan[i].mine,
                  who |-> plan[i].who, runs |-> 0, closed |-> Closed(plan),
                  status |-> IF plan[i].deps = {} THEN "TODO" ELSE "BLOCKED", blockers |-> links(n, i)]
    BY <1>0, <1>5 DEF Created
  <2> DEFINE bl == links(n, i)
  <2>4. new[i] = [title |-> plan[i].title, deps |-> plan[i].deps, mine |-> plan[i].mine,
                  who |-> plan[i].who, runs |-> 0, closed |-> Closed(plan),
                  status |-> IF plan[i].deps = {} THEN "TODO" ELSE "BLOCKED", blockers |-> bl]
        /\ bl \subseteq Int
    BY <2>1, <2>3
  <2> HIDE DEF bl, new
  <2>5. plan[i] \in Reviewed BY <1>5
  <2>6. /\ new[i] \in Row /\ new[i].title = plan[i].title /\ new[i].deps = plan[i].deps
        /\ new[i].runs = 0 /\ new[i].closed = Closed(plan) /\ new[i].blockers = bl
    BY <2>2, <2>4, <2>5 DEF Row, Reviewed, Choice
  <2> QED BY <2>6 DEF bl
<1>7. new \in Seq(Row) /\ Len(new) = Len(plan)
  <2>2. DOMAIN new = 1..Len(plan) /\ new = [i \in DOMAIN new |-> new[i]] BY <1>5 DEF Created
  <2> HIDE DEF new
  <2>3. new \in [1..Len(plan) -> Row] BY <1>6, <2>2
  <2> QED BY <1>5, <2>3, Tabulated
<1> HIDE DEF new, links
<1>8. /\ Len(board') = n + Len(plan)
      /\ \A i \in 1..n + Len(plan) : board'[i] = IF i <= n THEN board[i] ELSE new[i - n]
  <2>1. /\ Len(board \o new) = Len(board) + Len(new)
        /\ \A i \in 1..Len(board) + Len(new) :
             (board \o new)[i] = IF i <= Len(board) THEN board[i] ELSE new[i - Len(board)]
    BY <1>4, <1>7, ConcatProperties
  <2> QED BY <1>0, <1>1, <1>7, <2>1
<1>k. ASSUME NEW k \in 1..Len(plan) PROVE board'[n + k] = new[k]
  <2>1. n + k \in 1..n + Len(plan) /\ ~(n + k <= n) /\ (n + k) - n = k BY <1>5
  <2> QED BY <1>8, <2>1
<1>9. Len(board') - Len(req'["accept"].plan) = n BY <1>3, <1>5, <1>8
<1>10. ASSUME NEW i \in 1..n PROVE Linked(i)'
  <2>1. Linked(i) BY <1>0 DEF AllLinked
  <2>2. i \in 1..Len(board') /\ board'[i] = board[i] BY <1>5, <1>8
  <2>3. ~New(i) BY <1>1 DEF New
  <2>n. ~New(i)' BY <1>5, <1>9 DEF New
  <2>4. board[i].blockers \subseteq 1..n BY <1>0, <2>1 DEF Linked
  <2>5. {board'[j].title : j \in board[i].blockers} = {board[j].title : j \in board[i].blockers}
    BY <1>5, <1>8, <2>4
  <2>6. board'[i].blockers \subseteq 1..Len(board') BY <1>5, <1>8, <2>2, <2>4
  <2> QED BY <1>1, <2>1, <2>2, <2>3, <2>n, <2>5, <2>6 DEF Linked
<1>11. ASSUME NEW k \in 1..Len(plan) PROVE Linked(n + k)'
  <2>1. n + k \in 1..Len(board') /\ board'[n + k] = new[k] BY <1>5, <1>8, <1>k
  <2>2. New(n + k)' BY <1>3, <1>5, <1>9 DEF New
  <2>4. /\ new[k].blockers = links(n, k) /\ new[k].runs = 0 /\ new[k].deps = plan[k].deps
        /\ new[k].closed = Closed(plan)
        /\ links(n, k) = {n + l[1] : l \in {x \in Links(plan) : x[2] = k}}
    BY <1>6
  <2>5. links(n, k) \subseteq 1..Len(board') BY <1>5, <1>8, <1>l, <2>4
  <2>6. \A l \in Links(plan) : board'[n + l[1]].title = plan[l[1]].title
    BY <1>6, <1>k, <1>l
  <2>7. {board'[j].title : j \in links(n, k)} = {plan[l[1]].title : l \in {x \in Links(plan) : x[2] = k}}
    BY <2>4, <2>6
  <2>8. Closed(plan) => {board'[j].title : j \in links(n, k)} = plan[k].deps
    BY <1>4, <1>5, <2>7, ClosedLinks
  <2> DEFINE titles == {board'[j].title : j \in links(n, k)}
  <2>9. titles = {board'[j].title : j \in board'[n + k].blockers} BY <2>1, <2>4
  <2>10. Closed(plan) => titles = plan[k].deps BY <2>8
  <2> HIDE DEF titles
  <2> QED BY <2>1, <2>2, <2>4, <2>5, <2>9, <2>10 DEF Linked
<1>12. ASSUME NEW i \in 1..Len(board') PROVE Linked(i)'
  <2>1. CASE i <= n BY <1>5, <1>8, <1>10, <2>1
  <2>2. CASE i > n
    <3>1. i - n \in 1..Len(plan) /\ n + (i - n) = i BY <1>5, <1>8, <2>2
    <3> QED BY <1>11, <3>1
  <2> QED BY <1>5, <1>8, <2>1, <2>2
<1> QED BY <1>12 DEF AllLinked

(* All tasks of the plan that wait for nothing are enqueued, or the acceptance fails. *)
LEMMA EnqueueLinks == ASSUME IInv, AllLinked, NEW s \in Slots, Enqueue(s) PROVE AllLinked'
<1> DEFINE todo == {i \in Mine(s) : board[i].status = "TODO"}
           Run(done) == [i \in DOMAIN board |->
                          IF i \in done THEN [board[i] EXCEPT !.runs = @ + 1] ELSE board[i]]
<1>0. s = "accept" /\ req["accept"].pc = "enqueue" /\ (To(s, "answer") \/ To(s, "failed"))
  BY DEF Enqueue, At
<1>1. /\ \/ failed' = failed /\ board' = Run(todo) /\ To(s, "answer")
         \/ failed' = TRUE /\ To(s, "failed") /\ \E done \in SUBSET todo : board' = Run(done)
  BY DEF Enqueue, At, NoFailure, Failure
<1>2. PICK done \in SUBSET todo : board' = Run(done) /\ (failed' \/ (done = todo /\ failed' = failed))
  BY <1>1
<1>3. req'["accept"].pc # "enqueue"
  <2>1. "accept" \in Slots BY DEF Slots
  <2>2. req'["accept"].pc \in {"answer", "failed"} BY <1>0, <2>1, SlotMoves
  <2> QED BY <2>2
<1>4. /\ Len(board) \in Nat /\ DOMAIN board = 1..Len(board) /\ board \in Seq(Row)
      /\ \A i \in 1..Len(board) : board[i] \in Row
  BY BoardFacts
<1>5. Len(req["accept"].plan) \in Nat BY Positions DEF IInv, Accepting
<1>6. \A i \in 1..Len(board) : i \in Mine(s) <=> New(i)
  BY <1>0, <1>4, <1>5 DEF Mine, New
<1>7. ASSUME NEW i \in 1..Len(board)
      PROVE  /\ i \notin done => board'[i] = board[i]
             /\ i \in done => board'[i].runs = board[i].runs + 1
             /\ board'[i].title = board[i].title /\ board'[i].blockers = board[i].blockers
             /\ board'[i].closed = board[i].closed /\ board'[i].deps = board[i].deps
             /\ board'[i].status = board[i].status
  <2>1. board'[i] = IF i \in done THEN [board[i] EXCEPT !.runs = @ + 1] ELSE board[i]
    BY <1>2, <1>4
  <2> QED BY <1>4, <2>1 DEF Row
<1>8. Len(board') = Len(board)
  <2>1. board' \in Seq(Row) BY EnqueueOK DEF IInv
  <2>2. DOMAIN board' = 1..Len(board') /\ board' \in [1..Len(board') -> Row] BY <2>1, LenProperties
  <2>3. DOMAIN board' = 1..Len(board) BY <1>2, <1>4
  <2>4. board' \in [1..Len(board) -> Row] BY <2>2, <2>3
  <2> QED BY <1>4, <2>4, Tabulated
<1>9. ASSUME NEW i \in 1..Len(board) PROVE Linked(i)'
  <2>1. Linked(i) /\ ~New(i)' BY <1>3 DEF AllLinked, New
  <2>2. board'[i].blockers \subseteq 1..Len(board') BY <1>7, <1>8, <2>1 DEF Linked
  <2>3. {board'[j].title : j \in board'[i].blockers} = {board[j].title : j \in board[i].blockers}
    <3>1. board'[i].blockers = board[i].blockers /\ board[i].blockers \subseteq 1..Len(board)
      BY <1>7, <2>1 DEF Linked
    <3>2. \A j \in 1..Len(board) : board'[j].title = board[j].title BY <1>7
    <3> QED BY <3>1, <3>2
  <2>4. CASE i \in done
    <3>1. New(i) /\ board[i].status = "TODO" BY <1>6, <2>4
    <3>2. board'[i].runs = 1 BY <1>4, <1>7, <2>1, <2>4, <3>1 DEF Linked, Row
    <3>3. board'[i].status = "TODO" BY <1>7, <3>1
    <3> QED BY <2>1, <2>2, <3>2, <3>3 DEF Linked
  <2>5. CASE i \notin done
    <3>1. board'[i] = board[i] BY <1>7, <2>5
    <3>2. board[i].status = "TODO" /\ ~failed' => ~New(i) /\ ~failed BY <1>2, <1>6, <2>5
    <3>3. board[i].status = "TODO" /\ ~failed' => board'[i].runs = 1
      BY <2>1, <3>1, <3>2 DEF Linked
    <3>4. /\ board'[i].runs \in 0..1
          /\ board'[i].status = "BLOCKED" =>
              /\ board'[i].runs = 0
              /\ board'[i].closed => {board'[j].title : j \in board'[i].blockers} = board'[i].deps
      BY <2>1, <2>3, <3>1 DEF Linked
    <3> QED BY <2>1, <2>2, <3>1, <3>3, <3>4 DEF Linked
  <2> QED BY <2>4, <2>5
<1> QED BY <1>8, <1>9 DEF AllLinked

LEMMA LinkedNext == IInv /\ AllLinked /\ [Next]_vars => AllLinked'
<1> SUFFICES ASSUME IInv, AllLinked, [Next]_vars PROVE AllLinked' OBVIOUS
<1>0. /\ {"save", "run", "accept", "planner", "coordinate", "uncoordinate"} \subseteq Slots
      /\ Tabs \subseteq Slots /\ "accept" \notin Choosing
      /\ req \in [Slots -> Request]
  BY Slotted DEF IInv, RequestsOK
<1>1. CASE UNCHANGED vars \/ Type \/ Refetch \/ \E h \in Hires : RemoveAgent(h)
  <2>1. BoardKept BY <1>1 DEF vars, Type, Refetch, RemoveAgent, bounds, BoardKept
  <2> QED BY <2>1, LinkedKept
<1>2. CASE DescriptionButton \/ RunPlannerButton \/ PlannerForm \/ CoordinatorForm \/ AcceptButton
             \/ \E t \in Tabs : OtherForm(t)
  <2>1. ASSUME NEW s \in Slots, NEW r, Send(s, r), r.pc # "enqueue" PROVE AllLinked'
    <3>1. BoardKept BY <1>0, <2>1 DEF Send, Idle, BoardKept
    <3> QED BY <3>1, LinkedKept
  <2>2. CASE AcceptButton
    <3>1. PICK plan : Send("accept", [Quiet EXCEPT !.pc = "read", !.plan = plan])
      BY <2>2 DEF AcceptButton
    <3>2. [Quiet EXCEPT !.pc = "read", !.plan = plan].pc # "enqueue" BY DEF Quiet
    <3> QED BY <1>0, <2>1, <3>1, <3>2
  <2>3. CASE DescriptionButton BY <1>0, <2>1, <2>3 DEF DescriptionButton, Quiet
  <2>4. CASE RunPlannerButton \/ PlannerForm BY <1>0, <2>1, <2>4 DEF RunPlannerButton, PlannerForm, Quiet
  <2>5. CASE CoordinatorForm BY <1>0, <2>1, <2>5 DEF CoordinatorForm, Quiet
  <2>6. CASE \E t \in Tabs : OtherForm(t) BY <1>0, <2>1, <2>6 DEF OtherForm, Quiet
  <2> QED BY <1>2, <2>2, <2>3, <2>4, <2>5, <2>6
<1>3. ASSUME NEW d, Reviews(d) PROVE AllLinked'
  <2>1. BoardKept BY <1>3 DEF Reviews, bounds, BoardKept
  <2> QED BY <2>1, LinkedKept
<1>4. CASE ReviewStep BY <1>2, <1>3, <1>4 DEF ReviewStep, RemoveTask, ChooseAssignee, Discard
<1>5. CASE Saved \/ Applied
  <2>1. BoardKept BY <1>0, <1>5 DEF Saved, Applied, bounds, BoardKept, Quiet
  <2> QED BY <2>1, LinkedKept
<1>6. ASSUME NEW s \in Slots, PlanArrives(s) \/ Answered(s) PROVE AllLinked'
  <2>1. BoardKept BY <1>0, <1>6 DEF PlanArrives, Answered, bounds, BoardKept, Quiet
  <2> QED BY <2>1, LinkedKept
<1>7. ASSUME NEW s \in Slots,
             UpdateDescription(s) \/ SetPlanner(s) \/ WriteCoordinator(s) \/ ReadForRun(s)
               \/ CallLLM(s) \/ ReadCoordinator(s)
      PROVE  AllLinked'
  <2>1. board' = board /\ (failed => failed')
    BY <1>7
       DEF UpdateDescription, SetPlanner, WriteCoordinator, ReadForRun, CallLLM, ReadCoordinator,
           bounds, NoFailure, Failure
  <2>2. s # "accept"
    BY <1>0, <1>7 DEF UpdateDescription, SetPlanner, WriteCoordinator, ReadForRun, CallLLM, ReadCoordinator, At
  <2>3. req'["accept"] = req["accept"]
    BY <1>0, <1>7, <2>2
       DEF UpdateDescription, SetPlanner, WriteCoordinator, ReadForRun, CallLLM, ReadCoordinator, To
  <2> QED BY <2>1, <2>3, LinkedKept DEF BoardKept
<1>8. ASSUME NEW s \in Slots, ReadForAccept(s) PROVE AllLinked'
  <2>1. s = "accept" /\ req[s].pc = "read" /\ To(s, "create") BY <1>8 DEF ReadForAccept, At
  <2>2. req'["accept"].pc = "create" BY <2>1, SlotMoves
  <2>3. BoardKept BY <1>8, <2>1, <2>2 DEF ReadForAccept, bounds, BoardKept
  <2> QED BY <2>3, LinkedKept
<1>9. ASSUME NEW s \in Slots, CutOff(s) PROVE AllLinked'
  <2>1. req'["accept"] = req["accept"] \/ req'["accept"].pc = "failed"
    BY <1>0, <1>9 DEF CutOff, To, Request
  <2>2. BoardKept BY <1>9, <2>1 DEF CutOff, Failure, BoardKept
  <2> QED BY <2>2, LinkedKept
<1> QED
  BY <1>1, <1>2, <1>4, <1>5, <1>6, <1>7, <1>8, <1>9, CreateLinks, EnqueueLinks DEF Next, Service

(* For plans of any length: a task that starts BLOCKED is linked to the tasks it names, in whatever
   order the plan lists them, and is not enqueued; one that starts TODO is, once its acceptance is
   answered (planner.service.ts:258-303). *)
THEOREM PlansAreLinked == Spec => []PlanIsLinked
<1>1. IInv /\ AllLinked /\ [Next]_vars => (IInv /\ AllLinked)' BY StepOK, LinkedNext
<1>2. Init => IInv /\ AllLinked BY InitOK, LinkedInit
<1>3. IInv /\ AllLinked => PlanIsLinked
  <2> SUFFICES ASSUME IInv, AllLinked, NEW i \in DOMAIN board
               PROVE  IF board[i].status = "BLOCKED"
                      THEN /\ board[i].runs = 0
                           /\ board[i].closed =>
                                {board[j].title : j \in board[i].blockers} = board[i].deps
                      ELSE ~failed /\ req["accept"].pc # "enqueue" => board[i].runs = 1
    BY DEF PlanIsLinked
  <2>1. Linked(i) /\ board[i].status \in {"TODO", "BLOCKED"} BY BoardFacts DEF AllLinked, Row
  <2> QED BY <2>1 DEF Linked, New
<1> QED BY <1>1, <1>2, <1>3, PTL DEF Spec

-----------------------------------------------------------------------------
(* The types.                                                              *)

Typed ==
    /\ revoked \subseteq Hires /\ flagged \subseteq Hires
    /\ dirty \in BOOLEAN /\ raced \in BOOLEAN /\ ops \in 0..MaxOps /\ failed \in BOOLEAN

LEMMA TypedNext == IInv /\ Typed /\ [Next]_vars => Typed'
<1> SUFFICES ASSUME IInv, Typed, [Next]_vars PROVE Typed' OBVIOUS
<1> USE BoundAssumption DEF Typed
<1>1. CASE UNCHANGED vars \/ Type \/ Refetch \/ Saved \/ Applied
  BY <1>1 DEF vars, Type, Refetch, Saved, Applied, people, editor, bounds
<1>2. ASSUME NEW s, NEW r, Send(s, r) PROVE Typed' BY <1>2 DEF Send, people, editor
<1>3. CASE DescriptionButton \/ RunPlannerButton \/ PlannerForm \/ CoordinatorForm
             \/ \E t \in Tabs : OtherForm(t)
  BY <1>2, <1>3 DEF DescriptionButton, RunPlannerButton, PlannerForm, CoordinatorForm, OtherForm
<1>4. ASSUME NEW d, Reviews(d) PROVE Typed' BY <1>4 DEF Reviews, people, editor, bounds
<1>5. CASE ReviewStep
  BY <1>2, <1>4, <1>5 DEF ReviewStep, RemoveTask, ChooseAssignee, Discard, AcceptButton
<1>6. ASSUME NEW h \in Hires, RemoveAgent(h) PROVE Typed' BY <1>6 DEF RemoveAgent, editor
<1>7. ASSUME NEW s \in Slots, PlanArrives(s) \/ Answered(s) PROVE Typed'
  BY <1>7 DEF PlanArrives, Answered, people, editor, bounds
<1>8. ASSUME NEW s \in Slots, Service(s) \/ CutOff(s) PROVE Typed'
  <2>1. req[s].hire \in Hires \cup {Null} BY DEF IInv, RequestsOK, Request
  <2>2. CASE WriteCoordinator(s) BY <2>1, <2>2 DEF WriteCoordinator, editor, bounds
  <2>3. CASE ~WriteCoordinator(s)
    <3>1. UNCHANGED <<revoked, flagged, dirty, raced>>
      BY <1>8, <2>3
         DEF Service, CutOff, UpdateDescription, ReadForRun, CallLLM, ReadForAccept, CreateTasks,
             Enqueue, SetPlanner, ReadCoordinator, people, editor
    <3>2. UNCHANGED bounds \/ NoFailure \/ Failure
      BY <1>8, <2>3
         DEF Service, CutOff, UpdateDescription, ReadForRun, CallLLM, ReadForAccept, CreateTasks,
             Enqueue, SetPlanner, ReadCoordinator
    <3>3. ops' \in 0..MaxOps BY <3>2 DEF bounds, NoFailure, Failure
    <3>4. failed' \in BOOLEAN BY <3>2 DEF bounds, NoFailure, Failure
    <3> QED BY <3>1, <3>3, <3>4
  <2> QED BY <2>2, <2>3
<1> QED BY <1>1, <1>3, <1>5, <1>6, <1>7, <1>8 DEF Next

(* Every row, draft, request and counter keeps its type; in particular no task of a plan is enqueued
   twice, and its blockers are tasks of the board. *)
THEOREM Types == Spec => []TypeOK
<1>1. IInv /\ AllLinked /\ Typed /\ [Next]_vars => (IInv /\ AllLinked /\ Typed)'
  BY StepOK, LinkedNext, TypedNext
<1>2. Init => IInv /\ AllLinked /\ Typed
  <2>1. Init => Typed
    <3> SUFFICES ASSUME Init PROVE Typed OBVIOUS
    <3>1. flagged \subseteq Hires BY DEF Init
    <3>2. ops = 0 /\ 0 \in 0..MaxOps BY BoundAssumption DEF Init
    <3>3. revoked = {} /\ dirty = FALSE /\ raced = FALSE /\ failed = FALSE BY DEF Init
    <3> QED BY <3>1, <3>2, <3>3 DEF Typed
  <2> QED BY <2>1, InitOK, LinkedInit
<1>3. IInv /\ AllLinked /\ Typed => TypeOK
  <2> SUFFICES ASSUME IInv, AllLinked, Typed PROVE TypeOK OBVIOUS
  <2>1. board \in Seq(Task)
    <3>1. ASSUME NEW i \in 1..Len(board) PROVE board[i] \in Task
      <4>1. Linked(i) /\ board[i] \in Row BY BoardFacts DEF AllLinked
      <4>2. board[i].runs \in 0..1 /\ board[i].blockers \in SUBSET (1..Len(board))
        BY <4>1 DEF Linked
      <4> QED BY <4>1, <4>2 DEF Row, Task, Choice
    <3>2. board \in [1..Len(board) -> Row] BY BoardFacts, LenProperties
    <3>3. board \in [1..Len(board) -> Task] BY <3>1, <3>2
    <3> QED BY <3>3, BoardFacts, Tabulated
  <2> QED BY <2>1 DEF IInv, StoredOK, DraftOK, RequestsOK, Typed, TypeOK, Choice
<1> QED BY <1>1, <1>2, <1>3, PTL DEF Spec
=============================================================================
