---------------------------- MODULE Capabilities ----------------------------
(***************************************************************************)
(* A user's skills, or MCP servers, and who has them: the page that makes, *)
(* edits, installs and deletes them, and the three panels that assign them *)
(* (of an item to the user's agents, of an agent, of a hire in a project). *)
(*                                                                         *)
(* The two kinds are the same code with other names; where they differ,    *)
(* kind is looked at.  An item is reduced to its name, which tells the     *)
(* hub which presets are installed.  The hub's button can be pressed while *)
(* other installs are under way, so an install is a slot of its own for    *)
(* every press; of the other kinds of request one is in flight at a time.  *)
(* The panel of an item reads its agents' lists at once.                   *)
(***************************************************************************)
EXTENDS Naturals, QueryCache

CONSTANTS
    Items, Agents, Hires,
    Presets,    \* what the hub offers
    Presses,    \* bound: installs in flight
    MaxOps,     \* bound: requests of the page and changes made elsewhere
    MaxMoves,   \* bound: pages and panels opened
    MaxFaults   \* bound: requests and fetches that fail

ASSUME BoundAssumption == MaxOps \in Nat /\ MaxMoves \in Nat /\ MaxFaults \in Nat
ASSUME FiniteAssumption == IsFiniteSet(Items) /\ IsFiniteSet(Agents)
ASSUME OwnerAssumption ==
    /\ Items \cap (Agents \cup Hires) = {} /\ Agents \cap Hires = {}
    /\ {"mine", "hub"} \cap (Items \cup Agents \cup Hires) = {}
ASSUME NameAssumption == {"own", "free", "deleted"} \cap Presets = {}
ASSUME PressAssumption == {"save", "delete", "item", "agent", "hire"} \cap Presses = {}

VARIABLES
    kind,       \* "skill" or "mcp"
    items,      \* each item's name, or that it is free (not yet made) or deleted
    agents,     \* agents that are not deleted
    held,       \* who has what: AgentSkill and ProjectAgentSkill
    place,      \* what is on the screen: the page's lists, or the panel of its owner
    mine,       \* the query of the user's items, which the sidebar keeps on the screen
    panel,      \* the query of each panel
    installing, \* the preset whose button waits
    req,        \* the request of each kind
    met,        \* history: requests that have had what they ask for since they were sent
    missed,     \* history: queries whose answer has changed when nothing tells the page
    ops, moves, faults

vars == <<kind, items, agents, held, place, mine, panel, installing, req, met, missed, ops, moves,
          faults>>
store == <<items, agents, held>>
queries == <<mine, panel>>

Names == Presets \cup {"own"}
Owners == Items \cup Agents \cup Hires
Toggles == {"item", "agent", "hire"}
Slots == Presses \cup {"save", "delete"} \cup Toggles
Quiet == [pc |-> "idle", item |-> {}, who |-> {}, on |-> FALSE, name |-> "own", here |-> FALSE]

Live == {i \in Items : items[i] \in Names}
Free == {i \in Items : items[i] = "free"}
\* An item with its name and the agents that have it; what a panel lists as assigned.
Cards == [i \in Live |-> [name |-> items[i], agents |-> Cardinality({a \in agents : <<a, i>> \in held})]]
Assigned(o) ==
    IF o \in Items THEN {a \in agents : <<a, o>> \in held} ELSE {i \in Live : <<o, i>> \in held}
OnPage == place \in Items \cup {"mine", "hub"}

Init ==
    /\ kind \in {"skill", "mcp"}
    /\ items \in [Items -> {"free", "own"}]
    /\ agents = Agents /\ held = {}
    /\ place = "mine" /\ mine = Fetching(Unread) /\ panel = [o \in Owners |-> Unread]
    /\ installing = {}
    /\ req = [s \in Slots |-> Quiet] /\ met = {}
    /\ missed = {} /\ ops = 0 /\ moves = 0 /\ faults = 0

Fault == faults < MaxFaults /\ faults' = faults + 1 /\ UNCHANGED <<ops, moves>>
Op == ops < MaxOps /\ ops' = ops + 1 /\ UNCHANGED <<moves, faults>>
NoOp == UNCHANGED <<ops, moves, faults>>

-----------------------------------------------------------------------------
(* The queries                                                             *)

FetchMine ==
    /\ \/ mine.pc = "sent" /\ mine' = Reads(mine, {Cards}) /\ missed' = missed \ {"mine"}
       \/ mine.pc = "read" /\ mine' = Shows(mine) /\ missed' = missed
    /\ UNCHANGED <<kind, store, place, panel, installing, req, met>> /\ NoOp
\* What asks for the list of an agent that is gone is refused: its own panel, and an item's panel
\* as long as the agents it knows have not been fetched again.
FetchPanel(o) ==
    /\ \/ /\ panel[o].pc = "sent" /\ o \notin Agents \ agents
          /\ panel' = [panel EXCEPT ![o] = Reads(@, {Assigned(o)})] /\ missed' = missed \ {o}
       \/ panel[o].pc = "read" /\ panel' = [panel EXCEPT ![o] = Shows(@)] /\ missed' = missed
       \/ /\ panel[o].pc = "sent" /\ o \in (Agents \ agents) \cup (IF agents = Agents THEN {} ELSE Items)
          /\ panel' = [panel EXCEPT ![o] = Resting(@)] /\ missed' = missed \cup {o}
    /\ UNCHANGED <<kind, store, place, mine, installing, req, met>> /\ NoOp
\* A fetch and its retry fail.
FetchFails ==
    /\ Fault
    /\ \/ mine.pc # "idle" /\ mine' = Resting(mine) /\ missed' = missed \cup {"mine"} /\ panel' = panel
       \/ \E o \in Owners :
            /\ panel[o].pc # "idle" /\ panel' = [panel EXCEPT ![o] = Resting(@)]
            /\ missed' = missed \cup {o} /\ mine' = mine
    /\ UNCHANGED <<kind, store, place, installing, req, met>>

\* Pages and panels are opened; what the hub's buttons wait for is forgotten with the page.
Go(p) ==
    /\ p # place /\ place' = p
    /\ moves < MaxMoves /\ moves' = moves + 1
    /\ p \in Items => \E cards \in mine.data : p \in DOMAIN cards
    /\ p \in Agents => p \in agents
    /\ \E e \in IF p \in Owners THEN Mounted(panel[p]) ELSE {Unread} :
         panel' = IF p \in Owners THEN [panel EXCEPT ![p] = e] ELSE panel
    /\ installing' = (IF OnPage /\ OnPage' THEN installing ELSE {})
    /\ req' = [s \in Slots |-> [req[s] EXCEPT !.here = @ /\ OnPage /\ OnPage']]
    /\ UNCHANGED <<kind, store, mine, met, missed, ops, faults>>

-----------------------------------------------------------------------------
(* Requests                                                                *)

Pairs(r) == r.who \X r.item
Granted(r) == IF r.on THEN Pairs(r) \subseteq held ELSE Pairs(r) \cap held = {}
Send(s, r) ==
    /\ req[s].pc = "idle" /\ Op
    /\ req' = [req EXCEPT ![s] = r]
    /\ met' = IF Granted(r) THEN met \cup {s} ELSE met \ {s}
    /\ UNCHANGED <<kind, store, place, queries, missed>>
Creates(s) == req[s].pc \in {"sent", "checked"} /\ req[s].item = {} /\ s \in Presses \cup {"save"}
Room == Cardinality(Free) > Cardinality({s \in Slots : Creates(s)})

\* The hub offers what no item shown has the name of; only the last button pressed waits.
InstallButton(s) ==
    /\ place = "hub" /\ Room
    /\ \E p \in Presets \ installing :
         /\ installing' = {p}
         /\ \A cards \in mine.data : \A i \in DOMAIN cards : cards[i].name # p
         /\ Send(s, [Quiet EXCEPT !.pc = "sent", !.name = p, !.here = TRUE])
\* A new item, or an edited one, is saved whole.
SaveButton ==
    /\ place = "mine" /\ installing' = installing
    /\ \E n \in Names :
         \/ Room /\ Send("save", [Quiet EXCEPT !.pc = "sent", !.name = n])
         \/ \E cards \in mine.data : \E i \in DOMAIN cards :
              Send("save", [Quiet EXCEPT !.pc = "sent", !.name = n, !.item = {i}])
DeleteButton ==
    /\ place \in Items \cup {"mine"} /\ installing' = installing
    /\ \E cards \in mine.data : \E i \in DOMAIN cards :
         Send("delete", [Quiet EXCEPT !.pc = "sent", !.item = {i}])
\* Each row of a panel has one button, Remove where the panel shows it assigned.
ToggleButton(s, o) ==
    /\ place = o /\ installing' = installing
    /\ o \in CASE s = "item" -> Items [] s = "agent" -> Agents [] s = "hire" -> Hires
    /\ \E shown \in panel[o].data :
         \/ /\ s = "item"
            /\ \E a \in agents :
                 Send(s, [Quiet EXCEPT !.pc = "sent", !.item = {o}, !.who = {a}, !.on = a \notin shown])
         \/ /\ s # "item"
            /\ \E cards \in mine.data : \E i \in DOMAIN cards :
                 Send(s, [Quiet EXCEPT !.pc = "sent", !.item = {i}, !.who = {o}, !.on = i \notin shown])

\* The queries that the success of a request invalidates.
Told(s) ==
    CASE s = "item" -> {"mine"} \cup req[s].item
      [] s = "agent" -> (IF kind = "skill" THEN {"mine"} ELSE {}) \cup req[s].who
      [] s = "hire" -> req[s].who
      [] OTHER -> {"mine"}

(* Mutant: the panels are fetched again, the cards are not. *)
RefreshPanels(told) ==
    /\ mine' = mine /\ missed' = missed
    /\ panel' = [o \in Owners |-> IF o \in told THEN Invalidated(panel[o], place = o) ELSE panel[o]]
Refresh(told) ==
    /\ mine' = IF "mine" \in told THEN Invalidated(mine, TRUE) ELSE mine
    /\ panel' = [o \in Owners |-> IF o \in told THEN Invalidated(panel[o], place = o) ELSE panel[o]]
    /\ missed' = missed \cup {q \in told : IF q = "mine" THEN TooLate(mine, TRUE)
                                           ELSE TooLate(panel[q], place = q)}

(* Mutant: only a success ends the wait. *)
InstallEndsWell(s) ==
    installing' = IF s \in Presses /\ req[s].here /\ req[s].pc = "done" THEN {} ELSE installing
\* The end of any install gives the button back, whichever waits.
InstallEnds(s) ==
    installing' = IF s \in Presses /\ req[s].here THEN {} ELSE installing
Ended(s) ==
    /\ req[s].pc \in {"done", "failed"}
    /\ Refresh(IF req[s].pc = "done" THEN Told(s) ELSE {})
    /\ InstallEnds(s)
    /\ req' = [req EXCEPT ![s] = Quiet]
    /\ UNCHANGED <<kind, store, place, met>> /\ NoOp

-----------------------------------------------------------------------------
(* The API                                                                 *)

To(s, pc) == req' = [req EXCEPT ![s].pc = pc]
\* What changes is missed by the queries that are not told of it.
Miss(told) ==
    missed' = missed \cup ({o \in Owners : Assigned(o)' # Assigned(o)} \ told)
                     \cup (IF Cards' # Cards THEN {"mine"} \ told ELSE {})
\* What changes gives some requests under way what they ask for.
Meet == met' = met \cup {s \in Slots : req[s].pc # "idle" /\ Granted(req[s])'}
Rest == UNCHANGED <<kind, place, queries, installing>>

\* What a request is about is looked up first; a hire is not, nor what it no longer should have.
Finds(s) ==
    LET r == req[s] IN
    CASE s \in Presses \cup {"save", "delete"} -> r.item \subseteq Live
      [] s = "hire" -> r.on => r.item \subseteq Live
      [] OTHER -> r.who \subseteq agents /\ (r.on => r.item \subseteq Live)
Check(s) ==
    /\ req[s].pc = "sent"
    /\ To(s, IF Finds(s) THEN "checked" ELSE "failed")
    /\ UNCHANGED <<store, met, missed>> /\ Rest /\ NoOp

(* Mutant: the assignments of what is deleted stay. *)
WithoutCascade(gone) == held
Without(gone) == {p \in held : p[1] \notin gone /\ p[2] \notin gone}

\* An assignment is an upsert that updates nothing: the row is selected ...
Select(s) ==
    /\ s \in Toggles /\ req[s].on /\ req[s].pc = "checked"
    /\ To(s, IF Pairs(req[s]) \subseteq held THEN "found" ELSE "absent")
    /\ UNCHANGED <<store, met, missed>> /\ Rest /\ NoOp

(* Mutant: an update, which writes nothing where there is no row. *)
AssignFound(s) ==
    held' = held /\ To(s, "done")

\* ... and created, unless another request has (the unique index) or what it is about has been
\* deleted since (the foreign keys); or read once more, if it is still there.
Assign(s) ==
    IF req[s].pc = "found" THEN held' = held /\ To(s, IF Granted(req[s]) THEN "done" ELSE "failed")
    ELSE IF req[s].item \subseteq Live /\ req[s].who \subseteq agents \cup Hires /\ Pairs(req[s]) \cap held = {}
    THEN held' = held \cup Pairs(req[s]) /\ To(s, "done")
    ELSE held' = held /\ To(s, "failed")

Toggle(s) ==
    /\ s \in Toggles /\ UNCHANGED <<items, agents>>
    /\ \/ req[s].on /\ req[s].pc \in {"found", "absent"} /\ Assign(s)
       \/ ~req[s].on /\ req[s].pc = "checked" /\ held' = held \ Pairs(req[s]) /\ To(s, "done")
SaveOrInstall(s) ==
    /\ s \in Presses \cup {"save"} /\ req[s].pc = "checked" /\ UNCHANGED <<agents, held>>
    /\ \/ /\ req[s].item = {} /\ To(s, "done")
          /\ \E i \in Free : items' = [items EXCEPT ![i] = req[s].name]
       \/ /\ req[s].item # {} /\ req[s].item \subseteq Live /\ To(s, "done")
          /\ items' = [i \in Items |-> IF i \in req[s].item THEN req[s].name ELSE items[i]]
       \/ ~(req[s].item \subseteq Live) /\ items' = items /\ To(s, "failed")
Delete(s) ==
    /\ s = "delete" /\ req[s].pc = "checked" /\ agents' = agents
    /\ \/ /\ req[s].item \subseteq Live /\ To(s, "done")
          /\ items' = [i \in Items |-> IF i \in req[s].item THEN "deleted" ELSE items[i]]
          /\ held' = Without(req[s].item)
       \/ ~(req[s].item \subseteq Live) /\ UNCHANGED <<items, held>> /\ To(s, "failed")
Write(s) ==
    /\ Toggle(s) \/ SaveOrInstall(s) \/ Delete(s)
    /\ Miss(Told(s)) /\ Meet /\ Rest /\ NoOp

\* A statement fails, the API restarts or the answer is lost: what is written stays written.
CutOff(s) ==
    /\ req[s].pc \in {"sent", "checked", "found", "absent", "done"} /\ Fault
    /\ To(s, "failed")
    /\ missed' = IF req[s].pc = "done" THEN missed \cup Told(s) ELSE missed
    /\ UNCHANGED <<store, met>> /\ Rest

\* In another tab an agent that nobody has hired, or an item, is deleted, or an assignment changes.
Elsewhere ==
    /\ Op
    /\ \/ /\ \E a \in agents : agents' = agents \ {a} /\ held' = Without({a})
          /\ items' = items
       \/ /\ \E i \in Live : items' = [items EXCEPT ![i] = "deleted"] /\ held' = Without({i})
          /\ agents' = agents
       \/ /\ \E a \in agents \cup Hires, i \in Live :
               held' \in {held \cup {<<a, i>>}, held \ {<<a, i>>}} \ {held}
          /\ UNCHANGED <<items, agents>>
    /\ req' = req /\ Miss({}) /\ Meet /\ Rest

-----------------------------------------------------------------------------
Next ==
    \/ FetchMine \/ FetchFails \/ SaveButton \/ DeleteButton \/ Elsewhere
    \/ \E o \in Owners : FetchPanel(o) \/ \E s \in Toggles : ToggleButton(s, o)
    \/ \E p \in Owners \cup {"mine", "hub"} : Go(p)
    \/ \E s \in Presses : InstallButton(s)
    \/ \E s \in Slots : Check(s) \/ Select(s) \/ Write(s) \/ Ended(s) \/ CutOff(s)

Spec == Init /\ [][Next]_vars

-----------------------------------------------------------------------------
(* Properties                                                              *)

Card == [name: Names, agents: 0..Cardinality(Agents)]
TypeOK ==
    /\ kind \in {"skill", "mcp"}
    /\ items \in [Items -> Names \cup {"free", "deleted"}] /\ agents \subseteq Agents
    /\ held \subseteq (Agents \cup Hires) \X Items
    /\ place \in Owners \cup {"mine", "hub"}
    /\ mine \in Entry(UNION {[S -> Card] : S \in SUBSET Items})
    /\ panel \in [Owners -> Entry(SUBSET (Items \cup Agents))]
    /\ installing \subseteq Presets /\ met \subseteq Slots
    /\ req \in [Slots -> [pc: {"idle", "sent", "checked", "found", "absent", "done", "failed"}, item: SUBSET Items,
                          who: SUBSET (Agents \cup Hires), on: BOOLEAN, name: Names, here: BOOLEAN]]
    /\ missed \subseteq Owners \cup {"mine"}
    /\ ops \in 0..MaxOps /\ moves \in 0..MaxMoves /\ faults \in 0..MaxFaults

\* Nothing deleted is assigned and nothing is assigned to a deleted agent, though what an assignment
\* is about is looked up before it is written (skills.service.ts:45-66, 95-104).
NothingDangles == \A p \in held : p[1] \in agents \cup Hires /\ p[2] \in Live

\* An assignment or removal that the API answers, be it with an error, has had what it asks for at
\* some moment since it was sent, unless its item or agent has been deleted: an upsert that meets
\* another one, or a removal, between its select and its create is refused for nothing
\* (skills.service.ts:61-65, 72, 99-103, 107).
TogglesTakeHold ==
    [][\A s \in Toggles :
        (req[s].pc \notin {"done", "failed"} /\ req'[s].pc \in {"done", "failed"} /\ faults' = faults) =>
            \/ s \in met'
            \/ ~(req[s].item \subseteq Live /\ req[s].who \subseteq agents \cup Hires)]_vars

\* At rest, the cards and the open panel show what is stored, unless nothing told the page of the
\* change: it was made elsewhere or by a panel that does not refresh the cards, or a fetch or an
\* answer was lost (skills/page.tsx:597-604, 648-651, agents/page.tsx:448-472).
ScreenSettles ==
    (mine.pc = "idle" /\ (\A o \in Owners : panel[o].pc = "idle") /\ \A s \in Slots : req[s].pc = "idle") =>
        /\ "mine" \in missed \/ mine.data = {Cards}
        /\ place \in Owners => place \in missed \/ panel[place].data = {Assigned(place)}

\* A button of the hub waits only while an install of its own preset, sent from this visit of the
\* page, is under way, however that or another install ends and wherever the user has been meanwhile
\* (skills/page.tsx:783-794, 944-949).
InstallingEnds ==
    \A p \in installing : \E s \in Presses :
        req[s].pc # "idle" /\ req[s].here /\ req[s].name = p
=============================================================================
