-------------------------- MODULE CapabilitiesProofs --------------------------
(***************************************************************************)
(* Every property of Capabilities, for any items, agents, hires and bounds.*)
(*                                                                         *)
(* NothingDangles is inductive once the rows and the requests keep their   *)
(* types: what a request checked before its write plays no part, the       *)
(* conditions of the write itself (the foreign keys) carry the proof.      *)
(* ScreenSettles is about a screen at rest; the invariant (Covered) says,  *)
(* of every state, what is under way to correct a query that is old: a     *)
(* fetch that has yet to read, a request whose success fetches the query   *)
(* again, or the next opening of a panel.                                  *)
(***************************************************************************)
EXTENDS Capabilities, FiniteSetTheorems, TLAPS

(* The rows are well typed, and every request names items, agents and hires. *)
RowsOK ==
    /\ items \in [Items -> Names \cup {"free", "deleted"}]
    /\ agents \subseteq Agents
Stages == {"idle", "sent", "checked", "found", "absent", "done", "failed"}
RequestsOK ==
    req \in [Slots -> [pc: Stages, item: SUBSET Items, who: SUBSET (Agents \cup Hires), on: BOOLEAN,
                       name: Names, here: BOOLEAN]]

(* What the query of the user's items shows or has read is about items. *)
Shape(C) == [data: SUBSET C, pc: {"idle", "sent", "read"}, got: SUBSET C, stale: BOOLEAN]
AllOfItems(C) == \A cards \in C : DOMAIN cards \subseteq Items
About(e) == \E C : AllOfItems(C) /\ e \in Shape(C)

IInv == RowsOK /\ RequestsOK /\ About(mine) /\ NothingDangles

LEMMA InitOK == Init => IInv
<1> SUFFICES ASSUME Init PROVE IInv OBVIOUS
<1>1. RowsOK /\ NothingDangles BY DEF Init, RowsOK, NothingDangles, Names
<1>2. RequestsOK BY DEF Init, RequestsOK, Stages, Quiet, Names
<1>3. About(mine)
  <2>1. mine \in Shape({}) BY DEF Init, Fetching, Unread, Shape
  <2>2. AllOfItems({}) BY DEF AllOfItems
  <2> QED BY <2>1, <2>2 DEF About
<1> QED BY <1>1, <1>2, <1>3 DEF IInv

(* A request that only moves on keeps its shape. *)
LEMMA ToOK ==
  ASSUME RequestsOK, NEW s \in Slots, NEW pc \in Stages, To(s, pc)
  PROVE  RequestsOK'
BY DEF RequestsOK, To

(* The three writes of the API. *)
LEMMA ToggleOK == ASSUME IInv, NEW s \in Slots, Toggle(s), mine' = mine PROVE IInv'
<1>1. RequestsOK' BY ToOK DEF IInv, Toggle, Assign, Stages
<1>2. RowsOK' /\ Live' = Live BY DEF IInv, Toggle, RowsOK, Live
<1>3. \A p \in held' : p \in held \/
        (p \in Pairs(req[s]) /\ req[s].item \subseteq Live /\ req[s].who \subseteq agents \cup Hires)
  BY DEF Toggle, Assign
<1>4. NothingDangles' BY <1>2, <1>3 DEF IInv, NothingDangles, Pairs, Toggle
<1> QED BY <1>1, <1>2, <1>4 DEF IInv, About

LEMMA SaveOK == ASSUME IInv, NEW s \in Slots, SaveOrInstall(s), mine' = mine PROVE IInv'
<1>1. RequestsOK' BY ToOK DEF IInv, SaveOrInstall, Stages
<1>2. req[s].name \in Names BY DEF IInv, RequestsOK
<1>3. RowsOK' BY <1>2 DEF IInv, SaveOrInstall, RowsOK, Free
<1>4. Live \subseteq Live' BY <1>2 DEF IInv, SaveOrInstall, RowsOK, Free, Live
<1>5. NothingDangles' BY <1>4 DEF IInv, NothingDangles, SaveOrInstall
<1> QED BY <1>1, <1>3, <1>5 DEF IInv, About

(* Deleting items, or agents, takes their assignments along. *)
LEMMA ItemsGone ==
  ASSUME IInv, NEW I \in SUBSET Items, held' = Without(I), agents' = agents,
         items' = [i \in Items |-> IF i \in I THEN "deleted" ELSE items[i]]
  PROVE  RowsOK' /\ NothingDangles'
<1>1. RowsOK' BY DEF IInv, RowsOK
<1>2. Live \ I \subseteq Live' BY DEF Live
<1>3. NothingDangles' BY <1>2 DEF IInv, NothingDangles, Without
<1> QED BY <1>1, <1>3

LEMMA AgentsGone ==
  ASSUME IInv, NEW A \in SUBSET Agents, held' = Without(A), agents' = agents \ A, items' = items
  PROVE  RowsOK' /\ NothingDangles'
BY DEF IInv, RowsOK, NothingDangles, Without, Live

LEMMA DeleteOK == ASSUME IInv, NEW s \in Slots, Delete(s), mine' = mine PROVE IInv'
<1>1. RequestsOK' BY ToOK DEF IInv, Delete, Stages
<1>2. CASE req[s].item \subseteq Live
  <2>1. req[s].item \subseteq Items BY DEF IInv, RequestsOK
  <2>2. /\ held' = Without(req[s].item) /\ agents' = agents
        /\ items' = [i \in Items |-> IF i \in req[s].item THEN "deleted" ELSE items[i]]
    BY <1>2 DEF Delete
  <2>4. RowsOK' /\ NothingDangles' BY <2>1, <2>2, ItemsGone
  <2> QED BY <1>1, <2>4 DEF IInv, About
<1>3. CASE ~(req[s].item \subseteq Live)
  BY <1>1, <1>3 DEF IInv, Delete, RowsOK, NothingDangles, Live, About
<1> QED BY <1>2, <1>3

LEMMA ElsewhereOK == ASSUME IInv, Elsewhere, mine' = mine PROVE IInv'
<1>1. RequestsOK' BY DEF IInv, Elsewhere, RequestsOK
<1>2. ASSUME NEW a \in agents, agents' = agents \ {a}, held' = Without({a}), items' = items
      PROVE  RowsOK' /\ NothingDangles'
  <2>1. {a} \in SUBSET Agents BY <1>2 DEF IInv, RowsOK
  <2> QED BY <1>2, <2>1, AgentsGone
<1>3. ASSUME NEW i \in Live, items' = [items EXCEPT ![i] = "deleted"], held' = Without({i}),
             agents' = agents
      PROVE  RowsOK' /\ NothingDangles'
  <2>1. {i} \in SUBSET Items BY DEF Live
  <2>2. items' = [j \in Items |-> IF j \in {i} THEN "deleted" ELSE items[j]]
    BY <1>3 DEF IInv, RowsOK
  <2> QED BY <1>3, <2>1, <2>2, ItemsGone
<1>4. ASSUME NEW a \in agents \cup Hires, NEW i \in Live, UNCHANGED <<items, agents>>,
             held' \in {held \cup {<<a, i>>}, held \ {<<a, i>>}}
      PROVE  RowsOK' /\ NothingDangles'
  BY <1>4 DEF IInv, RowsOK, NothingDangles, Live
<1> QED BY <1>1, <1>2, <1>3, <1>4 DEF IInv, Elsewhere, About

(* The page, its queries and its buttons change no row. *)
LEMMA RowsKept == ASSUME IInv, RequestsOK', About(mine)', UNCHANGED store PROVE IInv'
BY DEF IInv, RowsOK, NothingDangles, Live, store

LEMMA AboutKept ==
  ASSUME NEW e, About(e)
  PROVE  /\ About(Fetching(e)) /\ About(Resting(e)) /\ About(Shows(e))
         /\ About([e EXCEPT !.stale = TRUE])
         /\ \A cards : DOMAIN cards \subseteq Items => About(Reads(e, {cards}))
         /\ \A cards \in e.data : DOMAIN cards \subseteq Items
<1>1. PICK C : AllOfItems(C) /\ e \in Shape(C) BY DEF About
<1>2. /\ Fetching(e) \in Shape(C) /\ Resting(e) \in Shape(C) /\ Shows(e) \in Shape(C)
      /\ [e EXCEPT !.stale = TRUE] \in Shape(C)
  BY <1>1 DEF Shape, Fetching, Resting, Shows
<1>3. ASSUME NEW cards, DOMAIN cards \subseteq Items PROVE About(Reads(e, {cards}))
  <2>1. AllOfItems(C \cup {cards}) BY <1>1, <1>3 DEF AllOfItems
  <2>2. Reads(e, {cards}) \in Shape(C \cup {cards}) BY <1>1 DEF Shape, Reads
  <2> QED BY <2>1, <2>2 DEF About
<1>4. \A cards \in e.data : DOMAIN cards \subseteq Items BY <1>1 DEF Shape, AllOfItems
<1>5. About(Fetching(e)) /\ About(Resting(e)) /\ About(Shows(e)) /\ About([e EXCEPT !.stale = TRUE])
  BY <1>1, <1>2 DEF About
<1> QED BY <1>3, <1>4, <1>5

LEMMA RefreshOK == ASSUME About(mine), NEW told, Refresh(told) PROVE About(mine)'
<1>1. mine' \in {mine, Fetching(mine), [mine EXCEPT !.stale = TRUE]} BY DEF Refresh, Invalidated
<1>2. About(Fetching(mine)) /\ About([mine EXCEPT !.stale = TRUE]) BY AboutKept
<1> QED BY <1>1, <1>2 DEF About

Sent == [pc: {"sent"}, item: SUBSET Items, who: SUBSET (Agents \cup Hires), on: BOOLEAN,
         name: Names, here: BOOLEAN]
Buttons ==
    \/ SaveButton \/ DeleteButton \/ \E s \in Presses : InstallButton(s)
    \/ \E s \in Toggles, o \in Owners : ToggleButton(s, o)

LEMMA SendOK == ASSUME IInv, NEW s \in Slots, NEW r \in Sent, Send(s, r) PROVE IInv'
<1>1. RequestsOK' BY DEF IInv, Send, RequestsOK, Sent, Stages
<1> QED BY <1>1, RowsKept DEF Send, queries, IInv, About

(* Every button sends a request; those of the panels name one item and one agent or hire, which is
   an agent in the panels of items and agents. *)
Asks(s, r) ==
    /\ Send(s, r)
    /\ s \in {"item", "agent"} => r.who \subseteq Agents
    /\ s \in Toggles => \E i, w : r.item = {i} /\ r.who = {w}
    /\ \/ s \in Presses /\ r.here /\ r.name \in Presets /\ installing' = {r.name}
       \/ s \notin Presses /\ installing' = installing
LEMMA ButtonSends == ASSUME IInv, Buttons PROVE \E s \in Slots, r \in Sent : Asks(s, r)
<1>0. /\ Slots = Presses \cup {"save", "delete", "item", "agent", "hire"}
      /\ \A s \in Presses : s \notin {"save", "delete", "item", "agent", "hire"}
      /\ "own" \in Names /\ Presets \subseteq Names
  BY PressAssumption DEF Slots, Toggles, Names
<1>1. \A cards \in mine.data : DOMAIN cards \subseteq Items BY AboutKept DEF IInv
<1>2. ASSUME NEW s \in Presses, InstallButton(s) PROVE \E r \in Sent : Asks(s, r)
  <2>1. PICK p \in Presets :
          /\ Send(s, [Quiet EXCEPT !.pc = "sent", !.name = p, !.here = TRUE])
          /\ installing' = {p}
    BY <1>2 DEF InstallButton
  <2> DEFINE r == [Quiet EXCEPT !.pc = "sent", !.name = p, !.here = TRUE]
  <2>2. r \in Sent /\ r.here /\ r.name = p BY <1>0 DEF Quiet, Sent
  <2>3. Send(s, r) BY <2>1
  <2> HIDE DEF r
  <2> QED BY <1>0, <2>1, <2>2, <2>3 DEF Asks, Toggles
<1>3. CASE SaveButton
  <2>1. PICK n \in Names :
          \/ Send("save", [Quiet EXCEPT !.pc = "sent", !.name = n])
          \/ \E cards \in mine.data : \E i \in DOMAIN cards :
               Send("save", [Quiet EXCEPT !.pc = "sent", !.name = n, !.item = {i}])
    BY <1>3 DEF SaveButton
  <2>2. installing' = installing BY <1>3 DEF SaveButton
  <2>3. [Quiet EXCEPT !.pc = "sent", !.name = n] \in Sent BY DEF Quiet, Sent
  <2>4. \A i \in Items : [Quiet EXCEPT !.pc = "sent", !.name = n, !.item = {i}] \in Sent
    BY DEF Quiet, Sent
  <2>5. PICK r \in Sent : Send("save", r) BY <1>1, <2>1, <2>3, <2>4
  <2> QED BY <1>0, <2>2, <2>5 DEF Asks, Toggles
<1>4. CASE DeleteButton
  <2>1. PICK i \in Items : Send("delete", [Quiet EXCEPT !.pc = "sent", !.item = {i}])
    BY <1>1, <1>4 DEF DeleteButton
  <2>2. [Quiet EXCEPT !.pc = "sent", !.item = {i}] \in Sent BY <1>0 DEF Quiet, Sent
  <2>3. installing' = installing BY <1>4 DEF DeleteButton
  <2> QED BY <1>0, <2>1, <2>2, <2>3 DEF Asks, Toggles
<1>5. ASSUME NEW s \in Toggles, NEW o \in Owners, ToggleButton(s, o)
      PROVE  \E r \in Sent : Asks(s, r)
  <2>1. PICK i \in Items, w \in Agents \cup Hires, b \in BOOLEAN :
          /\ Send(s, [Quiet EXCEPT !.pc = "sent", !.item = {i}, !.who = {w}, !.on = b])
          /\ s \in {"item", "agent"} => w \in Agents
    <3>1. o \in CASE s = "item" -> Items [] s = "agent" -> Agents [] s = "hire" -> Hires
      BY <1>5 DEF ToggleButton
    <3>2. CASE s = "item"
      <4>1. PICK shown \in panel[o].data, a \in agents :
              Send(s, [Quiet EXCEPT !.pc = "sent", !.item = {o}, !.who = {a}, !.on = a \notin shown])
        BY <1>5, <3>2 DEF ToggleButton
      <4>2. o \in Items /\ a \in Agents /\ (a \notin shown) \in BOOLEAN
        BY <3>1, <3>2 DEF IInv, RowsOK
      <4> QED BY <4>1, <4>2
    <3>3. CASE s # "item"
      <4>1. PICK shown \in panel[o].data, i \in Items :
              Send(s, [Quiet EXCEPT !.pc = "sent", !.item = {i}, !.who = {o}, !.on = i \notin shown])
        BY <1>1, <1>5, <3>3 DEF ToggleButton
      <4>2. (s = "agent" => o \in Agents) /\ o \in Agents \cup Hires /\ (i \notin shown) \in BOOLEAN
        BY <3>1, <3>3 DEF Toggles
      <4> QED BY <3>3, <4>1, <4>2
    <3> QED BY <3>2, <3>3
  <2> DEFINE r == [Quiet EXCEPT !.pc = "sent", !.item = {i}, !.who = {w}, !.on = b]
  <2>2. r \in Sent /\ r.item = {i} /\ r.who = {w} BY <1>0 DEF Quiet, Sent
  <2>3. installing' = installing /\ s \notin Presses BY <1>0, <1>5 DEF ToggleButton, Toggles
  <2>4. Send(s, r) BY <2>1
  <2> HIDE DEF r
  <2> QED BY <2>1, <2>2, <2>3, <2>4 DEF Asks
<1>6. Toggles \subseteq Slots BY DEF Slots
<1> QED BY <1>0, <1>2, <1>3, <1>4, <1>5, <1>6 DEF Buttons

LEMMA ButtonsOK == ASSUME IInv, Buttons PROVE IInv'
BY ButtonSends, SendOK DEF Asks

(* Every step preserves the invariant. *)
LEMMA NextOK == IInv /\ [Next]_vars => IInv'
<1> SUFFICES ASSUME IInv, [Next]_vars PROVE IInv' OBVIOUS
<1>1. CASE UNCHANGED vars
  BY <1>1, RowsKept DEF IInv, RequestsOK, About, vars, store
<1>2. CASE FetchMine
  <2>1. DOMAIN Cards \subseteq Items BY DEF Cards, Live
  <2>2. About(Reads(mine, {Cards})) /\ About(Shows(mine)) BY <2>1, AboutKept DEF IInv
  <2>3. mine' \in {Reads(mine, {Cards}), Shows(mine)} BY <1>2 DEF FetchMine
  <2>4. About(mine)' BY <2>2, <2>3 DEF About
  <2> QED BY <1>2, <2>4, RowsKept DEF FetchMine, IInv, RequestsOK
<1>3. ASSUME NEW o \in Owners, FetchPanel(o) PROVE IInv'
  BY <1>3, RowsKept DEF FetchPanel, IInv, RequestsOK, About
<1>4. CASE FetchFails
  <2>1. About(mine)' BY <1>4, AboutKept DEF FetchFails, IInv, About
  <2> QED BY <1>4, <2>1, RowsKept DEF FetchFails, IInv, RequestsOK
<1>5. CASE Buttons BY <1>5, ButtonsOK
<1>7. CASE Elsewhere BY <1>7, ElsewhereOK DEF Elsewhere, Rest, queries
<1>8. ASSUME NEW p \in Owners \cup {"mine", "hub"}, Go(p) PROVE IInv'
  <2>2. RequestsOK' BY <1>8 DEF Go, IInv, RequestsOK, OnPage
  <2> QED BY <1>8, <2>2, RowsKept DEF Go, IInv, About
<1>9. ASSUME NEW s \in Slots, Check(s) \/ Select(s) PROVE IInv'
  <2>1. RequestsOK' BY <1>9, ToOK DEF Check, Select, IInv, Stages
  <2> QED BY <1>9, <2>1, RowsKept DEF Check, Select, Rest, queries, IInv, About
<1>10. ASSUME NEW s \in Slots, Write(s) PROVE IInv'
  BY <1>10, ToggleOK, SaveOK, DeleteOK DEF Write, Rest, queries
<1>11. ASSUME NEW s \in Slots, Ended(s) PROVE IInv'
  <2>1. RequestsOK' BY <1>11 DEF Ended, IInv, RequestsOK, Quiet, Names, Stages
  <2>2. About(mine)' BY <1>11, RefreshOK DEF Ended, IInv
  <2> QED BY <1>11, <2>1, <2>2, RowsKept DEF Ended
<1>12. ASSUME NEW s \in Slots, CutOff(s) PROVE IInv'
  <2>1. RequestsOK' BY <1>12, ToOK DEF CutOff, IInv, Stages
  <2> QED BY <1>12, <2>1, RowsKept DEF CutOff, Rest, queries, IInv, About
<1> QED
  BY <1>1, <1>2, <1>3, <1>4, <1>5, <1>7, <1>8, <1>9, <1>10, <1>11, <1>12 DEF Next, Buttons

(* Nothing deleted is assigned and nothing is assigned to a deleted agent, whatever requests
   overlap between the look-ups of skills.service.ts and mcps.service.ts and their writes. *)
THEOREM Undangling == Spec => []NothingDangles
<1>1. IInv => NothingDangles BY DEF IInv
<1> QED BY <1>1, InitOK, NextOK, PTL DEF Spec

-----------------------------------------------------------------------------
(* The types.                                                              *)

CardsOf == UNION {[S -> Card] : S \in SUBSET Items}
Lists == SUBSET (Items \cup Agents)
Typed ==
    /\ kind \in {"skill", "mcp"}
    /\ held \subseteq (Agents \cup Hires) \X Items
    /\ place \in Owners \cup {"mine", "hub"} /\ installing \subseteq Presets
    /\ met \subseteq Slots /\ missed \subseteq Owners \cup {"mine"}
Cached == mine \in Entry(CardsOf) /\ panel \in [Owners -> Entry(Lists)]
Counted == ops \in 0..MaxOps /\ moves \in 0..MaxMoves /\ faults \in 0..MaxFaults

(* What is asked of an entry of the cache leaves one value at most in it. *)
LEMMA EntryKept ==
  ASSUME NEW V, NEW e \in Entry(V)
  PROVE  /\ Unread \in Entry(V) /\ Fetching(e) \in Entry(V) /\ Resting(e) \in Entry(V)
         /\ Shows(e) \in Entry(V) /\ \A b \in BOOLEAN : Invalidated(e, b) \in Entry(V)
         /\ Mounted(e) \subseteq Entry(V)
         /\ \A v \in V : Reads(e, {v}) \in Entry(V)
<1>1. Cardinality({}) <= 1 /\ \A v : Cardinality({v}) <= 1 BY FS_EmptySet, FS_Singleton
<1>2. Unread \in Entry(V) /\ Fetching(e) \in Entry(V) /\ Resting(e) \in Entry(V)
  BY <1>1 DEF Entry, Unread, Fetching, Resting
<1>3. Shows(e) \in Entry(V)
  BY <1>1, <1>2 DEF Entry, Shows, Resting
<1>4. \A b \in BOOLEAN : Invalidated(e, b) \in Entry(V)
  BY <1>2 DEF Entry, Invalidated
<1>5. Mounted(e) \subseteq Entry(V) BY <1>2 DEF Mounted
<1>6. \A v \in V : Reads(e, {v}) \in Entry(V) BY <1>1 DEF Entry, Reads
<1> QED BY <1>2, <1>3, <1>4, <1>5, <1>6

(* What the queries answer. *)
LEMMA Answers ==
  ASSUME RowsOK
  PROVE  Cards \in CardsOf /\ \A o \in Owners : Assigned(o) \in Lists
<1>1. Live \subseteq Items BY DEF Live
<1>2. ASSUME NEW i \in Live
      PROVE  [name |-> items[i], agents |-> Cardinality({a \in agents : <<a, i>> \in held})] \in Card
  <2> DEFINE having == {a \in agents : <<a, i>> \in held}
  <2>1. having \in SUBSET Agents BY DEF RowsOK
  <2>2. IsFiniteSet(having) /\ Cardinality(having) <= Cardinality(Agents)
    BY <2>1, FiniteAssumption, FS_Subset
  <2>3. Cardinality(having) \in 0..Cardinality(Agents)
    BY <2>2, FiniteAssumption, FS_CardinalityType
  <2>4. items[i] \in Names BY DEF Live
  <2> QED BY <2>3, <2>4 DEF Card
<1>3. Cards \in [Live -> Card] BY <1>2 DEF Cards
<1>4. Cards \in CardsOf BY <1>1, <1>3 DEF CardsOf
<1>5. \A o \in Owners : Assigned(o) \in Lists BY <1>1 DEF Assigned, RowsOK, Lists
<1> QED BY <1>4, <1>5

LEMMA TypesSplit == TypeOK <=> RowsOK /\ RequestsOK /\ Typed /\ Cached /\ Counted
BY DEF TypeOK, RowsOK, RequestsOK, Stages, Typed, Cached, Counted, CardsOf, Lists

LEMMA CountedKept == ASSUME Counted, [Next]_vars PROVE Counted'
<1> USE BoundAssumption DEF Counted
<1>1. CASE UNCHANGED vars BY <1>1 DEF vars
<1>2. ASSUME NoOp \/ Op \/ Fault PROVE Counted' BY <1>2 DEF NoOp, Op, Fault
<1>3. CASE FetchMine \/ FetchFails BY <1>2, <1>3 DEF FetchMine, FetchFails
<1>4. CASE Elsewhere BY <1>2, <1>4 DEF Elsewhere
<1>5. CASE SaveButton \/ DeleteButton \/ \E s \in Presses : InstallButton(s)
  BY <1>2, <1>5 DEF InstallButton, SaveButton, DeleteButton, Send
<1>6. ASSUME NEW o \in Owners, FetchPanel(o) \/ \E s \in Toggles : ToggleButton(s, o) PROVE Counted'
  BY <1>2, <1>6 DEF FetchPanel, ToggleButton, Send
<1>7. ASSUME NEW p \in Owners \cup {"mine", "hub"}, Go(p) PROVE Counted' BY <1>7 DEF Go
<1>8. ASSUME NEW s \in Slots, Check(s) \/ Select(s) \/ Write(s) \/ Ended(s) \/ CutOff(s)
      PROVE  Counted'
  BY <1>2, <1>8 DEF Check, Select, Write, Ended, CutOff
<1> QED BY <1>1, <1>3, <1>4, <1>5, <1>6, <1>7, <1>8 DEF Next

(* A request of the API changes no query and no page, and what it misses are queries. *)
LEMMA Served ==
  ASSUME RequestsOK, NEW s \in Slots, Check(s) \/ Select(s) \/ Write(s) \/ CutOff(s)
  PROVE  /\ UNCHANGED <<kind, place, queries, installing>>
         /\ missed' \subseteq missed \cup Owners \cup {"mine"} /\ met' \subseteq met \cup Slots
<1>1. Told(s) \subseteq Owners \cup {"mine"} BY DEF Told, RequestsOK, Owners
<1>2. CASE Check(s) \/ Select(s) BY <1>2 DEF Check, Select, Rest
<1>3. CASE Write(s) BY <1>3 DEF Write, Rest, Miss, Meet
<1>4. CASE CutOff(s) BY <1>1, <1>4 DEF CutOff, Rest
<1> QED BY <1>2, <1>3, <1>4

LEMMA CachedKept == ASSUME RowsOK, Cached, [Next]_vars PROVE Cached'
<1> DEFINE M == Entry(CardsOf)
           P == Entry(Lists)
<1>0. /\ Fetching(mine) \in M /\ Resting(mine) \in M /\ Shows(mine) \in M
      /\ \A b \in BOOLEAN : Invalidated(mine, b) \in M
      /\ Reads(mine, {Cards}) \in M
  BY EntryKept, Answers DEF Cached
<1>p. ASSUME NEW o \in Owners
      PROVE  /\ Fetching(panel[o]) \in P /\ Resting(panel[o]) \in P /\ Shows(panel[o]) \in P
             /\ \A b \in BOOLEAN : Invalidated(panel[o], b) \in P
             /\ Mounted(panel[o]) \subseteq P /\ Reads(panel[o], {Assigned(o)}) \in P
  <2>1. panel[o] \in P BY DEF Cached
  <2>2. Assigned(o) \in Lists BY Answers
  <2> QED BY <2>1, <2>2, EntryKept
<1> USE DEF Cached
<1>1. CASE UNCHANGED vars BY <1>1 DEF vars, queries
<1>2. CASE FetchMine BY <1>0, <1>2 DEF FetchMine
<1>3. CASE FetchFails BY <1>0, <1>p, <1>3 DEF FetchFails
<1>4. CASE Elsewhere BY <1>4 DEF Elsewhere, Rest, queries
<1>5. CASE Buttons BY <1>5 DEF Buttons, InstallButton, SaveButton, DeleteButton, ToggleButton, Send, queries
<1>6. ASSUME NEW o \in Owners, FetchPanel(o) PROVE Cached' BY <1>p, <1>6 DEF FetchPanel
<1>8. ASSUME NEW p \in Owners \cup {"mine", "hub"}, Go(p) PROVE Cached' BY <1>p, <1>8 DEF Go
<1>9. ASSUME NEW s \in Slots, Ended(s) PROVE Cached'
  <2>1. PICK told : Refresh(told) BY <1>9 DEF Ended
  <2>2. mine' \in M BY <1>0, <2>1 DEF Refresh
  <2>3. \A o \in Owners : panel'[o] \in P BY <1>p, <2>1 DEF Refresh
  <2>4. panel' = [o \in Owners |-> panel'[o]] BY <2>1 DEF Refresh
  <2> QED BY <2>2, <2>3, <2>4
<1>10. ASSUME NEW s \in Slots, Check(s) \/ Select(s) \/ Write(s) \/ CutOff(s) PROVE Cached'
  BY <1>10 DEF Check, Select, Write, CutOff, Rest, queries
<1> QED BY <1>1, <1>2, <1>3, <1>4, <1>5, <1>6, <1>8, <1>9, <1>10 DEF Next, Buttons

LEMMA TypedKept == ASSUME IInv, Typed, [Next]_vars PROVE Typed'
<1>r. RowsOK /\ RequestsOK BY DEF IInv
<1> USE DEF Typed
<1>0. \A s \in Slots : Told(s) \subseteq Owners \cup {"mine"} BY <1>r DEF Told, RequestsOK, Owners
<1>1. CASE UNCHANGED vars BY <1>1 DEF vars
<1>2. CASE FetchMine \/ FetchFails BY <1>2 DEF FetchMine, FetchFails, store
<1>4. CASE Elsewhere
  <2>1. held' \subseteq (Agents \cup Hires) \X Items
    <3>1. Live \subseteq Items /\ agents \subseteq Agents BY <1>r DEF Live, RowsOK
    <3> QED BY <1>4, <3>1 DEF Elsewhere, Without
  <2>2. missed' \subseteq Owners \cup {"mine"} BY <1>4 DEF Elsewhere, Miss
  <2>3. met' \subseteq met \cup Slots BY <1>4 DEF Elsewhere, Meet
  <2> QED BY <1>4, <2>1, <2>2, <2>3 DEF Elsewhere, Rest
<1>5. CASE Buttons
  <2>1. PICK s \in Slots, r \in Sent : Asks(s, r) BY <1>5, ButtonSends
  <2>2. installing' \subseteq Presets BY <2>1 DEF Asks
  <2>3. UNCHANGED <<kind, held, place, missed>> /\ met' \subseteq met \cup {s}
    BY <2>1 DEF Asks, Send, store
  <2> QED BY <2>2, <2>3
<1>6. ASSUME NEW o \in Owners, FetchPanel(o) PROVE Typed' BY <1>6 DEF FetchPanel, store
<1>8. ASSUME NEW p \in Owners \cup {"mine", "hub"}, Go(p) PROVE Typed' BY <1>8 DEF Go, store, OnPage
<1>9. ASSUME NEW s \in Slots, Ended(s) PROVE Typed'
  <2>1. PICK told \in SUBSET (Owners \cup {"mine"}) : Refresh(told) BY <1>0, <1>9 DEF Ended
  <2>2. missed' \subseteq Owners \cup {"mine"} BY <2>1 DEF Refresh
  <2>3. installing' \subseteq Presets BY <1>9 DEF Ended, InstallEnds
  <2> QED BY <1>9, <2>2, <2>3 DEF Ended, store
<1>10. ASSUME NEW s \in Slots, Check(s) \/ Select(s) \/ Write(s) \/ CutOff(s) PROVE Typed'
  <2>1. Pairs(req[s]) \subseteq (Agents \cup Hires) \X Items BY <1>r DEF Pairs, RequestsOK
  <2>2. held' \subseteq (Agents \cup Hires) \X Items
    BY <1>10, <2>1 DEF Check, Select, Write, CutOff, Toggle, Assign, SaveOrInstall, Delete, Without, store
  <2> QED BY <1>r, <1>10, <2>2, Served
<1> QED BY <1>1, <1>2, <1>4, <1>5, <1>6, <1>8, <1>9, <1>10 DEF Next, Buttons

LEMMA TypesInit == Init => TypeOK
<1> SUFFICES ASSUME Init PROVE TypeOK OBVIOUS
<1>1. RowsOK /\ RequestsOK BY InitOK DEF IInv
<1>2. Unread \in Entry(CardsOf) /\ Unread \in Entry(Lists) /\ Fetching(Unread) \in Entry(CardsOf)
  <2>1. Cardinality({}) <= 1 BY FS_EmptySet
  <2> QED BY <2>1 DEF Entry, Unread, Fetching
<1>3. Cached BY <1>2 DEF Init, Cached
<1>4. Typed BY DEF Init, Typed
<1>5. Counted BY BoundAssumption DEF Init, Counted
<1> QED BY <1>1, <1>3, <1>4, <1>5, TypesSplit

LEMMA TypesNext == IInv /\ TypeOK /\ [Next]_vars => TypeOK'
<1> SUFFICES ASSUME IInv, TypeOK, [Next]_vars PROVE TypeOK' OBVIOUS
<1>1. RowsOK /\ RequestsOK /\ Typed /\ Cached /\ Counted BY TypesSplit
<1>2. RowsOK' /\ RequestsOK' BY NextOK DEF IInv
<1>3. Typed' /\ Cached' /\ Counted' BY <1>1, TypedKept, CachedKept, CountedKept
<1> QED BY <1>2, <1>3
   DEF TypeOK, RowsOK, RequestsOK, Stages, Typed, Cached, Counted, CardsOf, Lists

(* Every row, request, query and counter keeps its type; in particular a query never shows, nor
   holds ready to show, more than one answer. *)
THEOREM Types == Spec => []TypeOK
<1>1. IInv /\ TypeOK /\ [Next]_vars => (IInv /\ TypeOK)' BY NextOK, TypesNext
<1>2. Init => IInv /\ TypeOK BY InitOK, TypesInit
<1> QED BY <1>1, <1>2, PTL DEF Spec

-----------------------------------------------------------------------------
(* The requests: what the buttons send, and how it ends.                   *)

(* The panels of items and agents name agents, not hires. *)
OfAgents == \A s \in {"item", "agent"} : req[s].who \subseteq Agents
Asked == OfAgents /\ InstallingEnds

LEMMA SlotsAre ==
  /\ Slots = Presses \cup {"save", "delete", "item", "agent", "hire"}
  /\ Presses \cap {"save", "delete", "item", "agent", "hire"} = {}
BY PressAssumption DEF Slots, Toggles

LEMMA ToAsked ==
  ASSUME RequestsOK, Asked, NEW s \in Slots, NEW pc \in Stages \ {"idle"}, To(s, pc),
         installing' = installing
  PROVE  Asked'
<1>1. OfAgents' BY SlotsAre DEF RequestsOK, Asked, OfAgents, To
<1>2. \A t \in Presses : /\ req'[t].here = req[t].here /\ req'[t].name = req[t].name
                         /\ req[t].pc # "idle" => req'[t].pc # "idle"
  BY SlotsAre DEF RequestsOK, To
<1> QED BY <1>1, <1>2 DEF Asked, InstallingEnds

LEMMA ButtonsAsked == ASSUME IInv, Asked, Buttons PROVE Asked'
<1>1. PICK s \in Slots, r \in Sent : Asks(s, r) BY ButtonSends
<1>2. OfAgents' BY <1>1, SlotsAre DEF IInv, RequestsOK, Asked, OfAgents, Asks, Send
<1>3. req[s].pc = "idle" /\ req'[s] = r /\ \A t \in Slots \ {s} : req'[t] = req[t]
  BY <1>1 DEF IInv, RequestsOK, Asks, Send
<1>4. ASSUME s \in Presses, r.here, installing' = {r.name} PROVE InstallingEnds'
  <2>1. req'[s].pc # "idle" /\ req'[s].here /\ req'[s].name = r.name BY <1>3, <1>4 DEF Sent
  <2> QED BY <1>4, <2>1 DEF InstallingEnds
<1>5. ASSUME s \notin Presses, installing' = installing PROVE InstallingEnds'
  <2>1. \A t \in Presses : req'[t] = req[t] BY <1>3, <1>5, SlotsAre
  <2> QED BY <1>5, <2>1 DEF InstallingEnds, Asked
<1> QED BY <1>1, <1>2, <1>4, <1>5 DEF Asks, Asked

LEMMA AskedInit == Init => Asked
BY SlotsAre DEF Init, Asked, OfAgents, InstallingEnds, Quiet

LEMMA AskedNext == IInv /\ Asked /\ [Next]_vars => Asked'
<1> SUFFICES ASSUME IInv, Asked, [Next]_vars PROVE Asked' OBVIOUS
<1>0. RequestsOK BY DEF IInv
<1>1. ASSUME UNCHANGED <<req, installing>> PROVE Asked'
  BY <1>1 DEF Asked, OfAgents, InstallingEnds
<1>2. CASE UNCHANGED vars \/ FetchMine \/ FetchFails \/ Elsewhere \/ \E o \in Owners : FetchPanel(o)
  BY <1>1, <1>2 DEF vars, FetchMine, FetchFails, Elsewhere, Rest, FetchPanel
<1>3. CASE Buttons BY <1>3, ButtonsAsked
<1>5. ASSUME NEW p \in Owners \cup {"mine", "hub"}, Go(p) PROVE Asked'
  <2>1. /\ installing' = IF OnPage /\ OnPage' THEN installing ELSE {}
        /\ \A s \in Slots : /\ req'[s].pc = req[s].pc /\ req'[s].who = req[s].who
                            /\ req'[s].name = req[s].name
                            /\ req'[s].here = (req[s].here /\ OnPage /\ OnPage')
    BY <1>0, <1>5 DEF Go, RequestsOK
  <2>2. OfAgents' BY <2>1, SlotsAre DEF Asked, OfAgents
  <2>3. ASSUME NEW q \in installing' PROVE \E s \in Presses :
               req'[s].pc # "idle" /\ req'[s].here /\ req'[s].name = q
    <3>1. q \in installing /\ OnPage /\ OnPage' BY <2>1, <2>3
    <3>2. PICK s \in Presses : req[s].pc # "idle" /\ req[s].here /\ req[s].name = q
      BY <3>1 DEF Asked, InstallingEnds
    <3> QED BY <2>1, <3>1, <3>2, SlotsAre
  <2> QED BY <2>2, <2>3 DEF Asked, InstallingEnds
<1>6. ASSUME NEW s \in Slots, Check(s) \/ Select(s) PROVE Asked'
  BY <1>0, <1>6, ToAsked DEF Check, Select, Rest, Stages
<1>7. ASSUME NEW s \in Slots, Write(s) PROVE Asked'
  <2>1. To(s, "done") \/ To(s, "failed")
    BY <1>7 DEF Write, Toggle, Assign, SaveOrInstall, Delete
  <2> QED BY <1>0, <1>7, <2>1, ToAsked DEF Write, Rest, Stages
<1>8. ASSUME NEW s \in Slots, Ended(s) PROVE Asked'
  <2>1. OfAgents' BY <1>0, <1>8, SlotsAre DEF Ended, Asked, OfAgents, RequestsOK, Quiet
  <2>2. \A t \in Slots \ {s} : req'[t] = req[t] BY <1>0, <1>8 DEF Ended, RequestsOK
  <2>3. installing' = IF s \in Presses /\ req[s].here THEN {} ELSE installing
    BY <1>8 DEF Ended, InstallEnds
  <2>4. InstallingEnds' BY <2>2, <2>3, SlotsAre DEF Asked, InstallingEnds
  <2> QED BY <2>1, <2>4 DEF Asked
<1>9. ASSUME NEW s \in Slots, CutOff(s) PROVE Asked'
  BY <1>0, <1>9, ToAsked DEF CutOff, Rest, Stages
<1> QED BY <1>2, <1>3, <1>5, <1>6, <1>7, <1>8, <1>9 DEF Next, Buttons

(* A button of the hub waits only while an install of its own preset is under way, however many
   other presets are installed meanwhile, in whatever order they end and wherever the user goes
   (skills/page.tsx:783-794, 944-949). *)
THEOREM Installs == Spec => []InstallingEnds
<1>1. IInv /\ Asked /\ [Next]_vars => (IInv /\ Asked)' BY NextOK, AskedNext
<1>2. Init => IInv /\ Asked BY InitOK, AskedInit
<1>3. Asked => InstallingEnds BY DEF Asked
<1> QED BY <1>1, <1>2, <1>3, PTL DEF Spec

-----------------------------------------------------------------------------
(* The toggles.                                                            *)

(* A request under way that is about one item and one agent or hire, and has what it asks for now,
   or whose row was there to be selected, is known to have had it. *)
Knows(s) ==
    req[s].pc # "idle" => /\ \E i, w : req[s].item = {i} /\ req[s].who = {w}
                          /\ Granted(req[s]) => s \in met
                          /\ req[s].pc = "found" => s \in met
Known == \A s \in Toggles : Knows(s)

LEMMA TogglesAre == Toggles \subseteq Slots /\ Toggles = {"item", "agent", "hire"}
BY DEF Slots, Toggles

(* A step that touches neither the rows nor the history, and no request but its stage or page. *)
LEMMA KnownKept ==
  ASSUME Known, held' = held, met' = met,
         \A s \in Toggles : req'[s].pc # "idle" =>
            /\ req[s].pc # "idle"
            /\ req'[s].item = req[s].item /\ req'[s].who = req[s].who /\ req'[s].on = req[s].on
            /\ req'[s].pc = "found" => req[s].pc = "found" \/ Granted(req[s])
  PROVE  Known'
<1> SUFFICES ASSUME NEW s \in Toggles, req'[s].pc # "idle" PROVE Knows(s)' BY DEF Known, Knows
<1>1. /\ req'[s].item = req[s].item /\ req'[s].who = req[s].who /\ req'[s].on = req[s].on
      /\ req'[s].pc = "found" => req[s].pc = "found" \/ Granted(req[s])
  OBVIOUS
<1>2. Granted(req[s])' <=> Granted(req[s]) BY <1>1 DEF Granted, Pairs
<1>3. Knows(s) /\ req[s].pc # "idle" BY DEF Known
<1>4. PICK i, w : req[s].item = {i} /\ req[s].who = {w} BY <1>3 DEF Knows
<1>5. \E j, v : req'[s].item = {j} /\ req'[s].who = {v} BY <1>1, <1>4
<1> QED BY <1>1, <1>2, <1>3, <1>5 DEF Knows

(* The same for a step of the API that writes, and adds to the history what it grants. *)
LEMMA KnownMet ==
  ASSUME Known, Meet,
         \A s \in Toggles : req'[s].pc # "idle" =>
            /\ req[s].pc # "idle"
            /\ req'[s].item = req[s].item /\ req'[s].who = req[s].who /\ req'[s].on = req[s].on
            /\ req'[s].pc = "found" => req[s].pc = "found"
  PROVE  Known'
<1> SUFFICES ASSUME NEW s \in Toggles, req'[s].pc # "idle" PROVE Knows(s)' BY DEF Known, Knows
<1>1. Knows(s) /\ req[s].pc # "idle" BY DEF Known
<1>2. PICK i, w : req[s].item = {i} /\ req[s].who = {w} BY <1>1 DEF Knows
<1>3. \E j, v : req'[s].item = {j} /\ req'[s].who = {v} BY <1>2
<1>4. Granted(req[s])' => s \in met' BY <1>1, TogglesAre DEF Meet
<1>5. met \subseteq met' BY DEF Meet
<1> QED BY <1>1, <1>3, <1>4, <1>5 DEF Knows

LEMMA ToStep ==
  ASSUME RequestsOK, NEW s \in Slots, NEW pc \in Stages \ {"idle"}, To(s, pc), req[s].pc # "idle"
  PROVE  \A t \in Slots :
            /\ req[t].pc # "idle"  <=> req'[t].pc # "idle"
            /\ req'[t].item = req[t].item /\ req'[t].who = req[t].who /\ req'[t].on = req[t].on
            /\ req'[t].pc = req[t].pc \/ (t = s /\ req'[t].pc = pc)
BY DEF RequestsOK, To

LEMMA KnownNext == IInv /\ Known /\ [Next]_vars => Known'
<1> SUFFICES ASSUME IInv, Known, [Next]_vars PROVE Known' OBVIOUS
<1>0. RequestsOK BY DEF IInv
<1>1. CASE \/ UNCHANGED vars \/ FetchMine \/ FetchFails \/ \E o \in Owners : FetchPanel(o)
  BY <1>1, KnownKept DEF vars, store, FetchMine, FetchFails, FetchPanel
<1>2. CASE Elsewhere
  BY <1>2, KnownMet DEF Elsewhere
<1>3. CASE Buttons
  <2>1. PICK s \in Slots, r \in Sent : Asks(s, r) BY <1>3, ButtonSends
  <2>2. /\ req'[s] = r /\ \A t \in Slots \ {s} : req'[t] = req[t]
        /\ held' = held
        /\ met' = IF Granted(r) THEN met \cup {s} ELSE met \ {s}
    BY <1>0, <2>1 DEF RequestsOK, Asks, Send, store
  <2>3. ASSUME NEW t \in Toggles PROVE Knows(t)'
    <3>1. CASE t = s
      <4>1. r.pc # "found" BY DEF Sent
      <4>2. \E i, w : r.item = {i} /\ r.who = {w} BY <2>1, <3>1 DEF Asks
      <4>3. Granted(req[t])' => Granted(r) BY <2>2, <3>1 DEF Granted, Pairs
      <4> QED BY <2>2, <3>1, <4>1, <4>2, <4>3 DEF Knows
    <3>2. CASE t # s
      <4>1. req'[t] = req[t] /\ (t \in met <=> t \in met') BY <2>2, <3>2, TogglesAre
      <4> QED BY <2>2, <4>1 DEF Known, Knows, Granted, Pairs
    <3> QED BY <3>1, <3>2
  <2> QED BY <2>3 DEF Known
<1>4. ASSUME NEW p \in Owners \cup {"mine", "hub"}, Go(p) PROVE Known'
  <2>1. \A s \in Slots : /\ req'[s].pc = req[s].pc /\ req'[s].who = req[s].who
                         /\ req'[s].item = req[s].item /\ req'[s].on = req[s].on
    BY <1>0, <1>4 DEF Go, RequestsOK
  <2> QED BY <1>4, <2>1, KnownKept, TogglesAre DEF Go, store
<1>5. ASSUME NEW s \in Slots, Check(s) PROVE Known'
  <2>1. PICK pc \in {"checked", "failed"} : To(s, pc) BY <1>5 DEF Check
  <2> QED BY <1>0, <1>5, <2>1, ToStep, KnownKept, TogglesAre DEF Check, store, Stages
<1>6. ASSUME NEW s \in Slots, Select(s) PROVE Known'
  <2>1. PICK pc \in {"found", "absent"} : To(s, pc) /\ (pc = "found" => Granted(req[s]))
    BY <1>6 DEF Select, Granted
  <2> QED BY <1>0, <1>6, <2>1, ToStep, KnownKept, TogglesAre DEF Select, store, Stages
<1>7. ASSUME NEW s \in Slots, Write(s) PROVE Known'
  <2>1. PICK pc \in {"done", "failed"} : To(s, pc)
    BY <1>7 DEF Write, Toggle, Assign, SaveOrInstall, Delete
  <2>2. req[s].pc # "idle" /\ Meet BY <1>7 DEF Write, Toggle, SaveOrInstall, Delete
  <2> QED BY <1>0, <2>1, <2>2, ToStep, KnownMet, TogglesAre DEF Stages
<1>8. ASSUME NEW s \in Slots, Ended(s) PROVE Known'
  <2>1. req'[s].pc = "idle" /\ \A t \in Slots \ {s} : req'[t] = req[t]
    BY <1>0, <1>8 DEF Ended, RequestsOK, Quiet
  <2> QED BY <1>8, <2>1, KnownKept, TogglesAre DEF Ended, store
<1>9. ASSUME NEW s \in Slots, CutOff(s) PROVE Known'
  BY <1>0, <1>9, ToStep, KnownKept, TogglesAre DEF CutOff, store, Stages
<1> QED BY <1>1, <1>2, <1>3, <1>4, <1>5, <1>6, <1>7, <1>8, <1>9 DEF Next, Buttons

LEMMA KnownInit == Init => Known
BY TogglesAre DEF Init, Known, Knows, Quiet

(* A toggle that the API answers has been refused by the look-up of what it is about, or has had
   what it asks for: a row selected before, a row another request has created since, its own. *)
LEMMA Answered ==
  ASSUME IInv, TypeOK, Asked, Known, [Next]_vars, NEW t \in Toggles,
         req[t].pc \notin {"done", "failed"}, req'[t].pc \in {"done", "failed"}, faults' = faults
  PROVE  t \in met' \/ ~(req[t].item \subseteq Live /\ req[t].who \subseteq agents \cup Hires)
<1>0. /\ t \in Slots /\ t \notin Presses \cup {"save", "delete"} /\ RequestsOK
      /\ t \in {"item", "agent", "hire"}
  BY SlotsAre, TogglesAre DEF IInv
<1>1. \A s \in Slots : \A pc : To(s, pc) => s = t
  BY <1>0 DEF To, RequestsOK
<1>2. req' # req /\ ~\E s \in Slots, r \in Sent : Send(s, r)
  BY <1>0 DEF Send, RequestsOK, Sent
<1>3. ~UNCHANGED vars /\ ~FetchMine /\ ~FetchFails /\ ~Elsewhere /\ ~\E o \in Owners : FetchPanel(o)
  BY <1>2 DEF vars, FetchMine, FetchFails, Elsewhere, FetchPanel
<1>4. ~Buttons BY <1>2, ButtonSends DEF Asks
<1>5. ~\E p \in Owners \cup {"mine", "hub"} : Go(p)
  BY <1>0 DEF Go, RequestsOK
<1>6. ~\E s \in Slots : Ended(s) BY <1>0 DEF Ended, RequestsOK, Quiet
<1>7. ~\E s \in Slots : CutOff(s)
  <2>1. faults \in Nat BY BoundAssumption DEF TypeOK
  <2> QED BY <2>1 DEF CutOff, Fault
<1>8. ~\E s \in Slots : Select(s) BY <1>0 DEF Select, To, RequestsOK
<1>9. PICK s \in Slots : Check(s) \/ Write(s)
  BY <1>3, <1>4, <1>5, <1>6, <1>7, <1>8 DEF Next, Buttons
<1>10. s = t
  BY <1>1, <1>9 DEF Check, Write, Toggle, Assign, SaveOrInstall, Delete
<1>11. CASE Check(s)
  <2>1. ~Finds(t) BY <1>0, <1>10, <1>11 DEF Check, To, RequestsOK
  <2>2. ~(req[t].item \subseteq Live) \/ (t # "hire" /\ ~(req[t].who \subseteq agents))
    BY <1>0, <2>1 DEF Finds
  <2>3. t # "hire" => req[t].who \cap Hires = {}
    BY <1>0, OwnerAssumption DEF Asked, OfAgents
  <2> QED BY <2>2, <2>3
<1>12. CASE Write(s)
  <2>1. Toggle(t) /\ Meet BY <1>0, <1>10, <1>12 DEF Write, SaveOrInstall, Delete
  <2>2. req[t].pc # "idle" /\ Knows(t) BY <2>1 DEF Toggle, Known
  <2>3. met \subseteq met' /\ (Granted(req[t])' => t \in met') BY <1>0, <2>1, <2>2 DEF Meet
  <2>4. req'[t].item = req[t].item /\ req'[t].who = req[t].who /\ req'[t].on = req[t].on
    BY <1>0, <2>1 DEF Toggle, Assign, To, RequestsOK
  <2>5. CASE req[t].on /\ req[t].pc = "found" BY <2>2, <2>3, <2>5 DEF Knows
  <2>6. CASE req[t].on /\ held' = held \cup Pairs(req[t])
    <3>1. Granted(req[t])' BY <2>4, <2>6 DEF Granted, Pairs
    <3> QED BY <2>3, <3>1
  <2>7. CASE req[t].on /\ Pairs(req[t]) \cap held # {}
    <3>1. PICK i, w : req[t].item = {i} /\ req[t].who = {w} BY <2>2 DEF Knows
    <3>2. Pairs(req[t]) = {<<w, i>>} BY <3>1 DEF Pairs
    <3>3. Granted(req[t]) BY <2>7, <3>2 DEF Granted
    <3> QED BY <2>2, <2>3, <3>3 DEF Knows
  <2>8. CASE ~req[t].on
    <3>1. held' = held \ Pairs(req[t]) BY <2>1, <2>8 DEF Toggle
    <3>2. Granted(req[t])' BY <2>4, <2>8, <3>1 DEF Granted, Pairs
    <3> QED BY <2>3, <3>2
  <2>9. req[t].on /\ req[t].pc = "absent" =>
          \/ held' = held \cup Pairs(req[t]) \/ Pairs(req[t]) \cap held # {}
          \/ ~(req[t].item \subseteq Live /\ req[t].who \subseteq agents \cup Hires)
    BY <2>1 DEF Toggle, Assign
  <2> QED BY <2>1, <2>5, <2>6, <2>7, <2>8, <2>9 DEF Toggle
<1> QED BY <1>9, <1>11, <1>12

(* However the toggles of the three panels, deletions and changes made elsewhere come between the
   look-up, the select and the create of an assignment: one that is answered, be it with an error,
   has had what it asks for, unless its item or agent is gone (skills.service.ts:45-72, 95-107). *)
THEOREM TakeHold == Spec => TogglesTakeHold
<1> DEFINE Fine == \A s \in Toggles :
        (req[s].pc \notin {"done", "failed"} /\ req'[s].pc \in {"done", "failed"} /\ faults' = faults) =>
            \/ s \in met'
            \/ ~(req[s].item \subseteq Live /\ req[s].who \subseteq agents \cup Hires)
<1>1. IInv /\ TypeOK /\ Asked /\ Known /\ [Next]_vars => (IInv /\ TypeOK /\ Asked /\ Known)'
  BY NextOK, TypesNext, AskedNext, KnownNext
<1>2. Init => IInv /\ TypeOK /\ Asked /\ Known BY InitOK, TypesInit, AskedInit, KnownInit
<1>3. IInv /\ TypeOK /\ Asked /\ Known /\ [Next]_vars => [Fine]_vars BY Answered
<1>4. Spec => [][Fine]_vars BY <1>1, <1>2, <1>3, PTL DEF Spec
<1> QED BY <1>4 DEF TogglesTakeHold

-----------------------------------------------------------------------------
(* The screen: what is under way to correct a query that is old.           *)

(* What is shown, or will be when the fetch under way is over, is what is stored. *)
Fresh(e, answer) ==
    \/ e.pc = "sent"
    \/ e.pc = "read" /\ e.got = {answer}
    \/ e.pc = "idle" /\ e.data = {answer}
(* The success of a request is about to fetch the query again. *)
Telling(q) == \E s \in Slots : req[s].pc = "done" /\ q \in Told(s)
(* A panel that is not open is fetched when it is opened next. *)
Waits(o) == place # o /\ panel[o].pc = "idle" /\ (panel[o].stale \/ panel[o].data = {})
CardsCovered == "mine" \in missed \/ Fresh(mine, Cards) \/ Telling("mine")
PanelCovered(o) == o \in missed \/ Fresh(panel[o], Assigned(o)) \/ Telling(o) \/ Waits(o)
Covered == CardsCovered /\ \A o \in Owners : PanelCovered(o)

LEMMA CoveredInit == Init => Covered
<1> SUFFICES ASSUME Init PROVE Covered OBVIOUS
<1>1. mine.pc = "sent" BY DEF Init, Fetching, Unread
<1>2. ASSUME NEW o \in Owners PROVE Waits(o)
  <2>1. place # o BY OwnerAssumption DEF Init, Owners
  <2> QED BY <1>2, <2>1 DEF Init, Waits, Unread
<1> QED BY <1>1, <1>2 DEF Covered, CardsCovered, PanelCovered, Fresh

(* A step that changes no row and ends no request that is done covers a query it does not touch. *)
LEMMA Recovered ==
  ASSUME UNCHANGED <<kind, store>>,
         \A s \in Slots : req[s].pc = "done" =>
            req'[s].pc = "done" /\ req'[s].item = req[s].item /\ req'[s].who = req[s].who
  PROVE  /\ Cards' = Cards /\ \A o \in Owners : Assigned(o)' = Assigned(o)
         /\ CardsCovered /\ mine' = mine /\ ("mine" \in missed => "mine" \in missed') => CardsCovered'
         /\ \A o \in Owners :
              /\ PanelCovered(o) /\ panel'[o] = panel[o] /\ (o \in missed => o \in missed')
              /\ place' = o => place = o
              => PanelCovered(o)'
<1>1. ASSUME NEW q, Telling(q) PROVE Telling(q)'
  <2>1. PICK s \in Slots : req[s].pc = "done" /\ q \in Told(s) BY <1>1 DEF Telling
  <2>2. req'[s].pc = "done" /\ Told(s)' = Told(s) BY <2>1 DEF Told
  <2> QED BY <2>1, <2>2 DEF Telling
<1>2. Cards' = Cards /\ \A o \in Owners : Assigned(o)' = Assigned(o)
  BY DEF Cards, Assigned, Live, store
<1>3. CardsCovered /\ mine' = mine /\ ("mine" \in missed => "mine" \in missed') => CardsCovered'
  BY <1>1, <1>2 DEF CardsCovered, Fresh
<1>4. ASSUME NEW o \in Owners, PanelCovered(o), panel'[o] = panel[o], o \in missed => o \in missed',
             place' = o => place = o
      PROVE  PanelCovered(o)'
  BY <1>1, <1>2, <1>4 DEF PanelCovered, Fresh, Waits
<1> QED BY <1>2, <1>3, <1>4

LEMMA FetchMineCovers == ASSUME TypeOK, Covered, FetchMine PROVE Covered'
<1>0. UNCHANGED <<kind, store, req, place, panel>> BY DEF FetchMine
<1>1. ASSUME NEW o \in Owners PROVE PanelCovered(o)'
  <2>1. o # "mine" BY OwnerAssumption DEF Owners
  <2>2. o \in missed => o \in missed' BY <2>1 DEF FetchMine
  <2> QED BY <1>0, <2>2, Recovered DEF Covered
<1>2. Cards' = Cards BY <1>0, Recovered
<1>3. mine \in Entry(CardsOf) BY DEF TypeOK, CardsOf
<1>4. CardsCovered'
  <2>1. CASE mine.pc = "sent" /\ mine' = Reads(mine, {Cards})
    BY <1>2, <1>3, <2>1 DEF Entry, Reads, CardsCovered, Fresh
  <2>2. CASE mine.pc = "read" /\ mine' = Shows(mine) /\ missed' = missed
    <3>1. CASE Fresh(mine, Cards)
      <4>1. mine.got = {Cards} BY <2>2, <3>1 DEF Fresh
      <4>2. mine'.pc = "idle" /\ mine'.data = {Cards}
        BY <1>3, <2>2, <4>1 DEF Entry, Shows, Resting
      <4> QED BY <1>2, <4>2 DEF CardsCovered, Fresh
    <3>2. CASE "mine" \in missed BY <2>2, <3>2 DEF CardsCovered
    <3>3. CASE Telling("mine") BY <1>0, <3>3 DEF CardsCovered, Telling, Told
    <3> QED BY <3>1, <3>2, <3>3 DEF Covered, CardsCovered
  <2> QED BY <2>1, <2>2 DEF FetchMine
<1> QED BY <1>1, <1>4 DEF Covered

LEMMA FetchPanelCovers == ASSUME TypeOK, Covered, NEW p \in Owners, FetchPanel(p) PROVE Covered'
<1>0. UNCHANGED <<kind, store, req, place, mine>> BY DEF FetchPanel
<1>1. ASSUME NEW o \in Owners, o # p PROVE PanelCovered(o)'
  <2>1. (o \in missed => o \in missed') /\ panel'[o] = panel[o] BY <1>1 DEF FetchPanel, TypeOK
  <2> QED BY <1>0, <2>1, Recovered DEF Covered
<1>2. CardsCovered'
  <2>1. "mine" \in missed => "mine" \in missed' BY OwnerAssumption DEF FetchPanel, Owners
  <2> QED BY <1>0, <2>1, Recovered DEF Covered
<1>3. Assigned(p)' = Assigned(p) BY <1>0, Recovered
<1>4. panel[p] \in Entry(Lists) BY DEF TypeOK, Lists
<1>5. PanelCovered(p)'
  <2>1. CASE panel[p].pc = "sent" /\ panel' = [panel EXCEPT ![p] = Reads(@, {Assigned(p)})]
    <3>1. panel'[p] = Reads(panel[p], {Assigned(p)}) BY <2>1 DEF TypeOK
    <3> QED BY <1>3, <1>4, <3>1 DEF Entry, Reads, PanelCovered, Fresh
  <2>2. CASE panel[p].pc = "read" /\ panel' = [panel EXCEPT ![p] = Shows(@)] /\ missed' = missed
    <3>0. panel'[p] = Shows(panel[p]) BY <2>2 DEF TypeOK
    <3>1. CASE Fresh(panel[p], Assigned(p))
      <4>1. panel[p].got = {Assigned(p)} BY <2>2, <3>1 DEF Fresh
      <4>2. panel'[p].pc = "idle" /\ panel'[p].data = {Assigned(p)}
        BY <1>4, <3>0, <4>1 DEF Entry, Shows, Resting
      <4> QED BY <1>3, <4>2 DEF PanelCovered, Fresh
    <3>2. CASE p \in missed BY <2>2, <3>2 DEF PanelCovered
    <3>3. CASE Telling(p) BY <1>0, <3>3 DEF PanelCovered, Telling, Told
    <3>4. ~Waits(p) BY <2>2 DEF Waits
    <3> QED BY <3>1, <3>2, <3>3, <3>4 DEF Covered, PanelCovered
  <2>3. CASE missed' = missed \cup {p} BY <2>3 DEF PanelCovered
  <2> QED BY <2>1, <2>2, <2>3 DEF FetchPanel
<1> QED BY <1>1, <1>2, <1>5 DEF Covered

LEMMA FetchFailsCovers == ASSUME TypeOK, Covered, FetchFails PROVE Covered'
<1>0. UNCHANGED <<kind, store, req, place>> /\ missed \subseteq missed' BY DEF FetchFails
<1>1. CardsCovered' BY <1>0, Recovered DEF FetchFails, Covered, CardsCovered
<1>2. ASSUME NEW o \in Owners PROVE PanelCovered(o)'
  <2>1. o \in missed' \/ panel'[o] = panel[o] BY DEF FetchFails, TypeOK
  <2> QED BY <1>0, <2>1, Recovered DEF Covered, PanelCovered
<1> QED BY <1>1, <1>2 DEF Covered

LEMMA ButtonsCover == ASSUME IInv, TypeOK, Covered, Buttons PROVE Covered'
<1>1. PICK s \in Slots, r \in Sent : Asks(s, r) BY ButtonSends
<1>2. /\ UNCHANGED <<kind, store, place, queries, missed>>
      /\ \A t \in Slots : req[t].pc = "done" => req'[t] = req[t]
  BY <1>1 DEF Asks, Send, TypeOK
<1> QED BY <1>2, Recovered DEF Covered, queries

(* A panel that is opened is fetched, unless it shows data not known to be stale. *)
LEMMA GoCovers == ASSUME TypeOK, Covered, NEW p \in Owners \cup {"mine", "hub"}, Go(p) PROVE Covered'
<1>0. UNCHANGED <<kind, store, mine, missed>> /\ place' = p BY DEF Go
<1>1. \A s \in Slots : /\ req'[s].pc = req[s].pc
                       /\ req'[s].item = req[s].item /\ req'[s].who = req[s].who
  BY DEF Go, TypeOK
<1>2. CardsCovered' BY <1>0, <1>1, Recovered DEF Covered
<1>3. ASSUME NEW o \in Owners, o # p PROVE PanelCovered(o)'
  <2>1. panel'[o] = panel[o] BY <1>3 DEF Go, TypeOK
  <2> QED BY <1>0, <1>1, <1>3, <2>1, Recovered DEF Covered
<1>4. ASSUME p \in Owners PROVE PanelCovered(p)'
  <2>1. panel[p] \in Entry(Lists) BY <1>4 DEF TypeOK, Lists
  <2>2. panel'[p] \in Mounted(panel[p]) BY <1>4 DEF Go, TypeOK
  <2>3. CASE panel'[p].pc = "sent" BY <2>3 DEF PanelCovered, Fresh
  <2>4. CASE panel'[p].pc # "sent"
    <3>1. panel'[p] = panel[p] /\ ~Waits(p)
      BY <2>1, <2>2, <2>4 DEF Mounted, Entry, Fetching, Waits
    <3>2. Assigned(p)' = Assigned(p) BY <1>0, <1>1, <1>4, Recovered
    <3>3. Telling(p) => Telling(p)' BY <1>0, <1>1 DEF Telling, Told
    <3> QED BY <1>0, <1>4, <3>1, <3>2, <3>3 DEF Covered, PanelCovered, Fresh
  <2> QED BY <2>3, <2>4
<1> QED BY <1>2, <1>3, <1>4 DEF Covered

(* What is invalidated is fetched again, by now or when it is opened; or it is missed. *)
LEMMA RefreshCovers ==
  ASSUME TypeOK, NEW told, Refresh(told), place' = place
  PROVE  /\ missed \subseteq missed'
         /\ "mine" \in told => CardsCovered'
         /\ "mine" \notin told => mine' = mine
         /\ \A o \in Owners : /\ o \in told => PanelCovered(o)'
                              /\ o \notin told => panel'[o] = panel[o]
<1>1. missed \subseteq missed' /\ ("mine" \notin told => mine' = mine) BY DEF Refresh
<1>2. ASSUME "mine" \in told PROVE CardsCovered'
  <2>1. mine \in Entry(CardsOf) BY DEF TypeOK, CardsOf
  <2>2. mine' = Invalidated(mine, TRUE) BY <1>2 DEF Refresh
  <2>3. TooLate(mine, TRUE) => "mine" \in missed' BY <1>2 DEF Refresh
  <2>4. mine'.pc = "sent" \/ TooLate(mine, TRUE)
    BY <2>1, <2>2 DEF Invalidated, TooLate, Fetching, Entry
  <2> QED BY <2>3, <2>4 DEF CardsCovered, Fresh
<1>3. ASSUME NEW o \in Owners, o \in told PROVE PanelCovered(o)'
  <2>1. panel[o] \in Entry(Lists) /\ o # "mine" BY OwnerAssumption DEF TypeOK, Lists, Owners
  <2>2. panel'[o] = Invalidated(panel[o], place = o) BY <1>3 DEF Refresh
  <2>3. TooLate(panel[o], place = o) => o \in missed' BY <1>3, <2>1 DEF Refresh
  <2>4. CASE place = o
    <3>1. panel'[o].pc = "sent" \/ TooLate(panel[o], TRUE)
      BY <2>1, <2>2, <2>4 DEF Invalidated, TooLate, Fetching, Entry
    <3> QED BY <2>3, <2>4, <3>1 DEF PanelCovered, Fresh
  <2>5. CASE place # o
    <3>1. panel'[o] = [panel[o] EXCEPT !.stale = TRUE] BY <2>2, <2>5 DEF Invalidated
    <3>2. panel'[o].stale /\ panel'[o].pc = panel[o].pc BY <2>1, <3>1 DEF Entry
    <3>3. panel[o].pc = "read" => o \in missed' BY <2>3, <2>5 DEF TooLate
    <3>4. panel[o].pc \in {"idle", "sent", "read"} BY <2>1 DEF Entry
    <3> QED BY <2>5, <3>2, <3>3, <3>4 DEF PanelCovered, Fresh, Waits
  <2> QED BY <2>4, <2>5
<1>4. \A o \in Owners : o \notin told => panel'[o] = panel[o] BY DEF Refresh
<1> QED BY <1>1, <1>2, <1>3, <1>4

LEMMA EndedCovers == ASSUME TypeOK, Covered, NEW s \in Slots, Ended(s) PROVE Covered'
<1> DEFINE told == IF req[s].pc = "done" THEN Told(s) ELSE {}
<1>1. Refresh(told) /\ UNCHANGED <<kind, store, place>> BY DEF Ended
<1>2. req' = [req EXCEPT ![s] = Quiet] BY DEF Ended
<1>3. ASSUME NEW q, q \notin told, Telling(q) PROVE Telling(q)'
  <2>1. PICK t \in Slots : req[t].pc = "done" /\ q \in Told(t) BY <1>3 DEF Telling
  <2>2. t # s BY <1>3, <2>1
  <2>3. req'[t] = req[t] BY <1>2, <2>2 DEF TypeOK
  <2>4. Told(t)' = Told(t) BY <1>1, <2>3 DEF Told
  <2> QED BY <2>1, <2>3, <2>4 DEF Telling
<1> HIDE DEF told
<1>4. Cards' = Cards /\ \A o \in Owners : Assigned(o)' = Assigned(o)
  BY <1>1 DEF Cards, Assigned, Live, store
<1>5. CardsCovered'
  <2>1. CASE "mine" \in told BY <1>1, <2>1, RefreshCovers
  <2>2. CASE "mine" \notin told
    <3>1. mine' = mine /\ missed \subseteq missed' BY <1>1, <2>2, RefreshCovers
    <3> QED BY <1>3, <1>4, <2>2, <3>1 DEF Covered, CardsCovered, Fresh
  <2> QED BY <2>1, <2>2
<1>6. ASSUME NEW o \in Owners PROVE PanelCovered(o)'
  <2>1. CASE o \in told BY <1>1, <2>1, RefreshCovers
  <2>2. CASE o \notin told
    <3>1. panel'[o] = panel[o] /\ missed \subseteq missed' BY <1>1, <2>2, RefreshCovers
    <3> QED BY <1>1, <1>3, <1>4, <2>2, <3>1 DEF Covered, PanelCovered, Fresh, Waits
  <2> QED BY <2>1, <2>2
<1> QED BY <1>5, <1>6 DEF Covered

(* What is written is missed, unless the success of the request is about to tell of it. *)
LEMMA WriteCovers == ASSUME TypeOK, Covered, NEW s \in Slots, Write(s) PROVE Covered'
<1>1. /\ UNCHANGED <<kind, place, mine, panel>> /\ missed \subseteq missed'
      /\ req[s].pc # "done" /\ (To(s, "done") \/ (To(s, "failed") /\ UNCHANGED store))
  BY DEF Write, Rest, queries, Miss, Toggle, Assign, SaveOrInstall, Delete, store
<1>2. /\ Cards' # Cards => "mine" \in missed' \cup Told(s)
      /\ \A o \in Owners : Assigned(o)' # Assigned(o) => o \in missed' \cup Told(s)
  BY DEF Write, Miss
<1>3. UNCHANGED store => Cards' = Cards /\ \A o \in Owners : Assigned(o)' = Assigned(o)
  BY DEF store, Cards, Assigned, Live
<1>4. \A t \in Slots : req'[t].item = req[t].item /\ req'[t].who = req[t].who
                       /\ (req[t].pc = "done" => req'[t].pc = "done")
  BY <1>1 DEF Write, To, TypeOK
<1>5. \A t \in Slots : Told(t)' = Told(t) BY <1>1, <1>4 DEF Told
<1>6. \A q : Telling(q) => Telling(q)' BY <1>4, <1>5 DEF Telling
<1>7. ASSUME NEW q, q \in Told(s), To(s, "done") PROVE Telling(q)'
  <2>1. req'[s].pc = "done" BY <1>7 DEF To, TypeOK
  <2> QED BY <1>5, <1>7, <2>1 DEF Telling
<1>8. CardsCovered'
  <2>1. CASE Cards' = Cards BY <1>1, <1>6, <2>1 DEF Covered, CardsCovered, Fresh
  <2>2. CASE Cards' # Cards BY <1>1, <1>2, <1>3, <1>7, <2>2 DEF CardsCovered
  <2> QED BY <2>1, <2>2
<1>9. ASSUME NEW o \in Owners PROVE PanelCovered(o)'
  <2>1. CASE Assigned(o)' = Assigned(o)
    BY <1>1, <1>6, <2>1 DEF Covered, PanelCovered, Fresh, Waits
  <2>2. CASE Assigned(o)' # Assigned(o) BY <1>1, <1>2, <1>3, <1>7, <2>2 DEF PanelCovered
  <2> QED BY <2>1, <2>2
<1> QED BY <1>8, <1>9 DEF Covered

(* An answer that is lost tells of nothing: what it would have told is missed. *)
LEMMA CutOffCovers == ASSUME TypeOK, Covered, NEW s \in Slots, CutOff(s) PROVE Covered'
<1>1. /\ UNCHANGED <<kind, store, place, mine, panel>> /\ missed \subseteq missed'
      /\ req[s].pc = "done" => Told(s) \subseteq missed'
  BY DEF CutOff, Rest, queries
<1>2. ASSUME NEW q, Telling(q), q \notin missed' PROVE Telling(q)'
  <2>1. PICK t \in Slots : req[t].pc = "done" /\ q \in Told(t) BY <1>2 DEF Telling
  <2>2. t # s BY <1>1, <1>2, <2>1
  <2>3. req'[t] = req[t] BY <2>2 DEF CutOff, To, TypeOK
  <2>4. Told(t)' = Told(t) BY <1>1, <2>3 DEF Told
  <2> QED BY <2>1, <2>3, <2>4 DEF Telling
<1>3. Cards' = Cards /\ \A o \in Owners : Assigned(o)' = Assigned(o)
  BY <1>1 DEF Cards, Assigned, Live, store
<1>4. CardsCovered' BY <1>1, <1>2, <1>3 DEF Covered, CardsCovered, Fresh
<1>5. ASSUME NEW o \in Owners PROVE PanelCovered(o)'
  BY <1>1, <1>2, <1>3 DEF Covered, PanelCovered, Fresh, Waits
<1> QED BY <1>4, <1>5 DEF Covered

LEMMA ElsewhereCovers == ASSUME Covered, Elsewhere PROVE Covered'
<1>1. /\ UNCHANGED <<kind, place, mine, panel, req>> /\ missed \subseteq missed'
      /\ Cards' # Cards => "mine" \in missed'
      /\ \A o \in Owners : Assigned(o)' # Assigned(o) => o \in missed'
  BY DEF Elsewhere, Rest, queries, Miss
<1>2. \A q : Telling(q) => Telling(q)' BY <1>1 DEF Telling, Told
<1>3. CardsCovered' BY <1>1, <1>2 DEF Covered, CardsCovered, Fresh
<1>4. ASSUME NEW o \in Owners PROVE PanelCovered(o)'
  BY <1>1, <1>2 DEF Covered, PanelCovered, Fresh, Waits
<1> QED BY <1>3, <1>4 DEF Covered

LEMMA CoveredNext == IInv /\ TypeOK /\ Covered /\ [Next]_vars => Covered'
<1> SUFFICES ASSUME IInv, TypeOK, Covered, [Next]_vars PROVE Covered' OBVIOUS
<1>1. CASE UNCHANGED vars
  <2>1. UNCHANGED <<kind, store, req, place, mine, panel, missed>> BY <1>1 DEF vars, store
  <2> QED BY <2>1, Recovered DEF Covered
<1>2. ASSUME NEW s \in Slots, Check(s) \/ Select(s) PROVE Covered'
  <2>1. \A t \in Slots : req[t].pc = "done" => req'[t] = req[t]
    BY <1>2 DEF Check, Select, To, TypeOK
  <2> QED BY <1>2, <2>1, Recovered DEF Check, Select, Rest, queries, Covered
<1> QED
  BY <1>1, <1>2, FetchMineCovers, FetchPanelCovers, FetchFailsCovers, ButtonsCover, GoCovers,
     EndedCovers, WriteCovers, CutOffCovers, ElsewhereCovers DEF Next, Buttons

(* At rest, the cards and the open panel show what is stored, whatever requests, fetches and moves
   overlapped before, unless nothing told the page of the change (skills/page.tsx:597-604, 648-651,
   agents/page.tsx:448-472). *)
THEOREM Settles == Spec => []ScreenSettles
<1>1. IInv /\ TypeOK /\ Covered /\ [Next]_vars => (IInv /\ TypeOK /\ Covered)'
  BY NextOK, TypesNext, CoveredNext
<1>2. Init => IInv /\ TypeOK /\ Covered BY InitOK, TypesInit, CoveredInit
<1>3. Covered => ScreenSettles
  <2> SUFFICES ASSUME Covered, mine.pc = "idle", \A o \in Owners : panel[o].pc = "idle",
                      \A s \in Slots : req[s].pc = "idle"
               PROVE  /\ "mine" \in missed \/ mine.data = {Cards}
                      /\ place \in Owners => place \in missed \/ panel[place].data = {Assigned(place)}
    BY DEF ScreenSettles
  <2>1. \A q : ~Telling(q) BY DEF Telling
  <2> QED BY <2>1 DEF Covered, CardsCovered, PanelCovered, Fresh, Waits
<1> QED BY <1>1, <1>2, <1>3, PTL DEF Spec
=============================================================================
