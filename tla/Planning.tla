------------------------------ MODULE Planning ------------------------------
(***************************************************************************)
(* From a project's description to tasks on its board: the settings page   *)
(* (description, planner, review of the draft, coordinator), the planner's *)
(* runs and the acceptance of a plan (planner.service.ts), the choice of   *)
(* the coordinator (coordinator.service.ts).                               *)
(*                                                                         *)
(* Each mutation of the page has at most one request in flight; the        *)
(* requests of different mutations interleave between their awaits, and    *)
(* with the choices of a coordinator that other tabs of the project's one  *)
(* leader send.  Texts of the description are numbered in the order they   *)
(* are typed.  The roles of a plan only serve to find assignees: Match     *)
(* lists, for the role of each task, the hired AI agents that have it,     *)
(* first hired first.                                                      *)
(***************************************************************************)
EXTENDS Integers, Sequences, FiniteSets, SequencesExt

CONSTANTS
    Null,
    Hires, Titles,
    Match,      \* hires with the role of the task, in order
    Plans,      \* what the LLM may answer: sequences of [title, deps]
    Tabs,       \* other tabs that show the coordinator's form
    MaxTexts,   \* bound: texts typed
    MaxOps      \* bound: requests sent, hires removed, and failures

ASSUME MatchAssumption == Match \in [Titles -> Seq(Hires)]
ASSUME PlansAssumption == Plans \subseteq Seq([title: Titles, deps: SUBSET Titles])
ASSUME NullAssumption == Null \notin Hires
ASSUME TabsAssumption ==
    Tabs \cap {"save", "run", "accept", "planner", "coordinate", "uncoordinate"} = {}
ASSUME BoundAssumption == MaxTexts \in Nat /\ MaxOps \in Nat

VARIABLES
    stored,     \* the project row: description, planner, coordinator
    revoked,    \* hires that have been removed
    flagged,    \* hires with isCoordinator
    board,      \* the tasks plans have created (never BACKLOG, so no plan replaces them)
    text, dirty,\* the description in its field, and whether it is unsaved
    cached,     \* what the page has read: description, planner, coordinator, hires
    draft,      \* the plan under review, its source and the assignees chosen by position
    req,        \* the request of each mutation, and of each other tab
    typed,      \* the last text typed
    raced,      \* history: typed while the save of another text was under way
    ops,
    failed      \* history: something has failed

vars == <<stored, revoked, flagged, board, text, dirty, cached, draft, req, typed, raced,
          ops, failed>>
people == <<revoked, flagged>>
editor == <<text, dirty, typed, raced>>
bounds == <<ops, failed>>

Choosing == {"coordinate", "uncoordinate"} \cup Tabs
Slots == {"save", "run", "accept", "planner"} \cup Choosing
Steps == {"idle", "write", "written", "read", "llm", "create", "enqueue", "answer", "failed"}

\* mine: what the leader chose for a task, whatever its position has become (history).
Planned == [title: Titles, deps: SUBSET Titles, mine: Hires \cup {Null}]
Reviewed == [title: Titles, deps: SUBSET Titles, mine: Hires \cup {Null}, who: Hires]
Request == [pc: Steps, of: 0..MaxTexts, plan: Seq(Planned) \cup Seq(Reviewed),
            hire: Hires \cup {Null}, prior: Hires \cup {Null}]
Quiet == [pc |-> "idle", of |-> 0, plan |-> <<>>, hire |-> Null, prior |-> Null]
NoDraft == [on |-> FALSE, of |-> 0, plan |-> <<>>, choice |-> <<>>]

Idle(s) == req[s].pc = "idle"
Fresh == [desc |-> stored.desc, planner |-> stored.planner, coordinator |-> stored.coordinator,
          hires |-> Hires \ revoked]

\* One hire plans and coordinates.
Init ==
    /\ \E c \in Hires : stored = [desc |-> 0, planner |-> c, coordinator |-> c]
    /\ flagged = {stored.coordinator}
    /\ revoked = {} /\ board = <<>>
    /\ text = 0 /\ dirty = FALSE /\ cached = Fresh
    /\ draft = NoDraft
    /\ req = [s \in Slots |-> Quiet]
    /\ typed = 0 /\ raced = FALSE /\ ops = 0 /\ failed = FALSE

-----------------------------------------------------------------------------
(* The page: description and planner                                       *)

Type ==
    /\ typed < MaxTexts
    /\ typed' = typed + 1 /\ text' = typed + 1 /\ dirty' = TRUE
    /\ raced' = (raced \/ req["save"].pc \in {"write", "written"})
    /\ UNCHANGED <<stored, people, board, cached, draft, req, bounds>>

\* A button sends the request of its mutation and is disabled until it is answered.
Send(s, r) ==
    /\ ops < MaxOps /\ ops' = ops + 1
    /\ Idle(s) /\ req' = [req EXCEPT ![s] = r]
    /\ UNCHANGED <<stored, people, board, editor, cached, draft, failed>>

\* "Save & re-plan", or "Plan" when nothing is unsaved.
DescriptionButton ==
    /\ Idle("save") /\ Idle("run")
    /\ IF dirty THEN Send("save", [Quiet EXCEPT !.pc = "write", !.of = text])
                ELSE Send("run", [Quiet EXCEPT !.pc = "read"])

\* The planner section's own button does not look at the save.
RunPlannerButton ==
    /\ cached.planner # Null /\ ~draft.on
    /\ Send("run", [Quiet EXCEPT !.pc = "read"])

Selectable == cached.hires
PlannerForm == \E h \in Selectable : Send("planner", [Quiet EXCEPT !.pc = "write", !.hire = h])
CoordinatorForm ==
    \/ \E h \in Selectable : Send("coordinate", [Quiet EXCEPT !.pc = "read", !.hire = h])
    \/ cached.coordinator # Null /\ Send("uncoordinate", [Quiet EXCEPT !.pc = "read"])
\* The same form in another tab: the hires and the coordinator it shows may be as old as the page.
OtherForm(t) == \E h \in Hires \cup {Null} : Send(t, [Quiet EXCEPT !.pc = "read", !.hire = h])

\* The save is answered: the text is clean, the planner is started, the project is read again.
Saved ==
    /\ req["save"].pc = "written"
    /\ dirty' = FALSE
    /\ req' = [req EXCEPT !["save"].pc = "read"]
    /\ UNCHANGED <<stored, people, board, text, cached, draft, typed, raced, bounds>>

(* Mutant: the effect does not look at descDirty. *)
RefetchOverDirty ==
    /\ cached # Fresh /\ cached' = Fresh
    /\ text' = IF cached.desc # stored.desc THEN stored.desc ELSE text
    /\ UNCHANGED <<stored, people, board, dirty, typed, raced, draft, req, bounds>>

\* A query runs again; a new description goes into the field unless something is unsaved there.
Refetch ==
    /\ cached # Fresh /\ cached' = Fresh
    /\ text' = IF cached.desc # stored.desc /\ ~dirty THEN stored.desc ELSE text
    /\ UNCHANGED <<stored, people, board, dirty, typed, raced, draft, req, bounds>>

\* A plan arrives: it becomes the draft and no assignee is chosen.
PlanArrives(s) ==
    /\ s \in {"save", "run"} /\ req[s].pc = "answer"
    /\ draft' = [on |-> TRUE, of |-> req[s].of, plan |-> req[s].plan,
                 choice |-> [i \in 1..Len(req[s].plan) |-> Null]]
    /\ req' = [req EXCEPT ![s] = Quiet]
    /\ UNCHANGED <<stored, people, board, editor, cached, bounds>>

\* The plan has been applied: whatever is under review goes.
Applied ==
    /\ req["accept"].pc = "answer"
    /\ draft' = NoDraft
    /\ req' = [req EXCEPT !["accept"] = Quiet]
    /\ UNCHANGED <<stored, people, board, editor, cached, bounds>>

\* An error is displayed, or swallowed when a save's planner fails; other answers only cause a Refetch.
Answered(s) ==
    /\ req[s].pc \in IF s \in {"save", "run", "accept"} THEN {"failed"} ELSE {"answer", "failed"}
    /\ req' = [req EXCEPT ![s] = Quiet]
    /\ UNCHANGED <<stored, people, board, editor, cached, draft, bounds>>

-----------------------------------------------------------------------------
(* The page: review of the draft                                           *)

\* The first active agent with the role, unless another is chosen at that position.
RoleAgent(t) ==
    LET fit == {i \in DOMAIN Match[t.title] : Match[t.title][i] \in cached.hires}
    IN IF fit = {} THEN Null ELSE Match[t.title][Min(fit)]
Assignee(i) == IF draft.choice[i] # Null THEN draft.choice[i] ELSE RoleAgent(draft.plan[i])

Reviews(d) ==
    /\ draft.on /\ draft' = d
    /\ UNCHANGED <<stored, people, board, editor, cached, req, bounds>>
ChooseAssignee(i, h) ==
    /\ h \in cached.hires \ {draft.choice[i]}
    /\ Reviews([draft EXCEPT !.choice[i] = h, !.plan[i].mine = h])

(* Mutant: the choices stay at their positions. *)
RemoveTaskOnly(i) ==
    Reviews([draft EXCEPT !.plan = RemoveAt(@, i), !.choice = SubSeq(@, 1, Len(@) - 1)])
(* Mutant: only the plan is shortened. *)
RemoveTaskKeepingChoices(i) == Reviews([draft EXCEPT !.plan = RemoveAt(@, i)])

\* The task goes and the choices behind it move up; the dependencies of the others stay.
RemoveTask(i) ==
    Reviews([draft EXCEPT !.plan = RemoveAt(@, i), !.choice = RemoveAt(@, i)])
Discard == Reviews(NoDraft)

\* "Accept & apply" asks for an assignee of every task and sends them along.
AcceptButton ==
    /\ draft.on
    /\ \A i \in DOMAIN draft.plan : Assignee(i) # Null
    /\ Send("accept",
            [Quiet EXCEPT !.pc = "read",
                          !.plan = [i \in DOMAIN draft.plan |->
                              [title |-> draft.plan[i].title, deps |-> draft.plan[i].deps,
                               mine |-> draft.plan[i].mine, who |-> Assignee(i)]]])

ReviewStep ==
    \/ \E i \in DOMAIN draft.plan : RemoveTask(i) \/ \E h \in Hires : ChooseAssignee(i, h)
    \/ Discard \/ AcceptButton

-----------------------------------------------------------------------------
(* The services                                                            *)

Failure == ops < MaxOps /\ ops' = ops + 1 /\ failed' = TRUE
NoFailure == ops' = ops /\ failed' = failed
At(s, op, pc) == s = op /\ req[s].pc = pc
To(s, pc) == req' = [req EXCEPT ![s].pc = pc]

UpdateDescription(s) ==
    /\ At(s, "save", "write") /\ To(s, "written")
    /\ stored' = [stored EXCEPT !.desc = req[s].of]
    /\ UNCHANGED <<people, board, editor, cached, draft, bounds>>

\* runPlanner reads the project, description included ...
ReadForRun(s) ==
    /\ s \in {"save", "run"} /\ req[s].pc = "read"
    /\ req' = [req EXCEPT ![s].pc = "llm", ![s].of = stored.desc]
    /\ UNCHANGED <<stored, people, board, editor, cached, draft, bounds>>

\* ... and calls the LLM; both a plan and a failure go to the planner's log, which nothing reads.
CallLLM(s) ==
    /\ s \in {"save", "run"} /\ req[s].pc = "llm"
    /\ \/ \E plan \in Plans :
            /\ NoFailure
            /\ req' = [req EXCEPT ![s].pc = "answer",
                                  ![s].plan = [i \in DOMAIN plan |->
                                    [title |-> plan[i].title, deps |-> plan[i].deps, mine |-> Null]]]
       \/ Failure /\ To(s, "failed")
    /\ UNCHANGED <<stored, people, board, editor, cached, draft>>

\* acceptPlan reads the project's agents; every task has an assignee already, which is not checked.
ReadForAccept(s) ==
    /\ At(s, "accept", "read") /\ To(s, "create")
    /\ UNCHANGED <<stored, people, board, editor, cached, draft, bounds>>

\* One transaction creates the tasks; each title is linked to its last task.
LastOf(plan, t) ==
    LET same == {i \in DOMAIN plan : plan[i].title = t} IN CHOOSE i \in same : \A j \in same : j <= i
Titled(plan) == {plan[i].title : i \in DOMAIN plan}
(* Mutant: a dependency is found among the tasks above only. *)
LinksAbove(plan) ==
    {l \in (DOMAIN plan) \X (DOMAIN plan) : l[1] < l[2] /\ plan[l[1]].title \in plan[l[2]].deps}

Links(plan) ==
    {l \in (DOMAIN plan) \X (DOMAIN plan) :
        /\ l[1] = LastOf(plan, plan[l[1]].title) /\ l[2] = LastOf(plan, plan[l[2]].title)
        /\ l[1] # l[2]
        /\ \E i \in DOMAIN plan : plan[i].title = plan[l[2]].title /\ plan[l[1]].title \in plan[i].deps}
\* history: titles differ and every dependency names another task of the plan.
Closed(plan) ==
    /\ \A i, j \in DOMAIN plan : plan[i].title = plan[j].title => i = j
    /\ \A i \in DOMAIN plan : plan[i].deps \subseteq Titled(plan) \ {plan[i].title}
Created(plan) ==
    [i \in DOMAIN plan |->
        [title |-> plan[i].title, deps |-> plan[i].deps, mine |-> plan[i].mine,
         who |-> plan[i].who, runs |-> 0, closed |-> Closed(plan),
         status |-> IF plan[i].deps = {} THEN "TODO" ELSE "BLOCKED",
         blockers |-> {Len(board) + l[1] : l \in {x \in Links(plan) : x[2] = i}}]]
CreateTasks(s) ==
    /\ At(s, "accept", "create")
    /\ board' = board \o Created(req[s].plan)
    /\ To(s, "enqueue")
    /\ UNCHANGED <<stored, people, editor, cached, draft, bounds>>

\* After the commit all TODO tasks are enqueued at once; some may fail, and fail the request.
Mine(s) == (Len(board) - Len(req[s].plan) + 1)..Len(board)
Enqueue(s) ==
    LET todo == {i \in Mine(s) : board[i].status = "TODO"}
        Run(done) == [i \in DOMAIN board |->
                        IF i \in done THEN [board[i] EXCEPT !.runs = @ + 1] ELSE board[i]] IN
    /\ At(s, "accept", "enqueue")
    /\ \/ NoFailure /\ board' = Run(todo) /\ To(s, "answer")
       \/ Failure /\ To(s, "failed") /\ \E done \in SUBSET todo : board' = Run(done)
    /\ UNCHANGED <<stored, people, editor, cached, draft>>

\* Revocation is not looked at.
SetPlanner(s) ==
    /\ At(s, "planner", "write") /\ To(s, "answer")
    /\ stored' = [stored EXCEPT !.planner = req[s].hire]
    /\ UNCHANGED <<people, board, editor, cached, draft, bounds>>

\* The coordinator so far is read, before the transaction that changes the flags and the project:
\* another choice may read the same one.
ReadCoordinator(s) ==
    /\ s \in Choosing /\ req[s].pc = "read"
    /\ IF req[s].hire \in revoked
       THEN To(s, "failed")
       ELSE req' = [req EXCEPT ![s].pc = "write", ![s].prior = stored.coordinator]
    /\ UNCHANGED <<stored, people, board, editor, cached, draft, bounds>>
(* Mutant: no transaction, the flags first. *)
WriteCoordinatorApart(s) ==
    /\ s \in Choosing
    /\ \/ /\ req[s].pc = "write" /\ To(s, "written") /\ stored' = stored
          /\ flagged' = (flagged \ {req[s].prior}) \cup ({req[s].hire} \ {Null})
       \/ /\ req[s].pc = "written" /\ To(s, "answer") /\ flagged' = flagged
          /\ stored' = [stored EXCEPT !.coordinator = req[s].hire]
    /\ UNCHANGED <<revoked, board, editor, cached, draft, bounds>>

WriteCoordinator(s) ==
    /\ s \in Choosing /\ req[s].pc = "write"
    /\ To(s, "answer")
    /\ flagged' = (flagged \ {req[s].prior}) \cup ({req[s].hire} \ {Null})
    /\ stored' = [stored EXCEPT !.coordinator = req[s].hire]
    /\ UNCHANGED <<revoked, board, editor, cached, draft, bounds>>

\* A statement fails, the process restarts or the answer is lost: what is committed stays.
CutOff(s) ==
    /\ req[s].pc \notin {"idle", "llm", "failed"}
    /\ Failure /\ To(s, "failed")
    /\ UNCHANGED <<stored, people, board, editor, cached, draft>>

\* Elsewhere a hire is removed.
RemoveAgent(h) ==
    /\ ops < MaxOps /\ ops' = ops + 1
    /\ h \notin revoked /\ revoked' = revoked \cup {h}
    /\ UNCHANGED <<stored, flagged, board, editor, cached, draft, req, failed>>

Service(s) ==
    \/ UpdateDescription(s) \/ ReadForRun(s) \/ CallLLM(s)
    \/ ReadForAccept(s) \/ CreateTasks(s) \/ Enqueue(s)
    \/ SetPlanner(s) \/ ReadCoordinator(s) \/ WriteCoordinator(s)

Next ==
    \/ Type \/ DescriptionButton \/ RunPlannerButton \/ PlannerForm \/ CoordinatorForm
    \/ Saved \/ Refetch \/ Applied \/ ReviewStep
    \/ \E h \in Hires : RemoveAgent(h)
    \/ \E t \in Tabs : OtherForm(t)
    \/ \E s \in Slots : PlanArrives(s) \/ Answered(s) \/ Service(s) \/ CutOff(s)

Spec == Init /\ [][Next]_vars

-----------------------------------------------------------------------------
(* Properties                                                              *)

Task == [title: Titles, deps: SUBSET Titles, mine: Hires \cup {Null}, who: Hires, runs: 0..1,
         closed: BOOLEAN, status: {"TODO", "BLOCKED"}, blockers: SUBSET (1..Len(board))]
TypeOK ==
    /\ stored \in [desc: 0..MaxTexts, planner: Hires \cup {Null}, coordinator: Hires \cup {Null}]
    /\ revoked \subseteq Hires /\ flagged \subseteq Hires
    /\ board \in Seq(Task)
    /\ text \in 0..MaxTexts /\ dirty \in BOOLEAN /\ typed \in 0..MaxTexts /\ raced \in BOOLEAN
    /\ cached \in [desc: 0..MaxTexts, planner: Hires \cup {Null}, coordinator: Hires \cup {Null},
                   hires: SUBSET Hires]
    /\ draft \in [on: BOOLEAN, of: 0..MaxTexts, plan: Seq(Planned), choice: Seq(Hires \cup {Null})]
    /\ Len(draft.choice) = Len(draft.plan)
    /\ req \in [Slots -> Request]
    /\ ops \in 0..MaxOps /\ failed \in BOOLEAN

\* The project's coordinator carries the flag, however many choices of the leader's tabs overlap,
\* each of which lowers the flag of the coordinator it read before its transaction: the one named
\* last keeps its own (coordinator.service.ts:45-70, 76-92).
CoordinatorIsFlagged == stored.coordinator # Null => stored.coordinator \in flagged

\* What the leader chooses for a task of the draft stays with the task while others are removed, and
\* goes with it to the board, whatever else arrives meanwhile (settings/page.tsx:883-889, 1357-1369).
ChoicesFollowTasks ==
    /\ \A i \in DOMAIN draft.plan : draft.choice[i] = draft.plan[i].mine
    /\ \A i \in DOMAIN board : board[i].mine # Null => board[i].who = board[i].mine

\* A task that starts BLOCKED is linked to the tasks it names when they are in the plan, in
\* whatever order the plan lists them; it is not enqueued.  A task that starts TODO is, once its
\* acceptance is answered (planner.service.ts:258-303).
PlanIsLinked ==
    \A i \in DOMAIN board :
        IF board[i].status = "BLOCKED"
        THEN /\ board[i].runs = 0
             /\ board[i].closed => {board[j].title : j \in board[i].blockers} = board[i].deps
        ELSE ~failed /\ req["accept"].pc # "enqueue" => board[i].runs = 1

\* The last text typed is in the field or saved, unless it was typed while a save was under way:
\* re-plans and refetches that arrive later do not overwrite it (settings/page.tsx:798-824).
TypedIsKept == raced \/ typed \in {text, stored.desc}

\* "Saving will automatically re-run the planner and propose updated tasks"
\* (settings/page.tsx:968): the proposal under review is for the description saved.
PlanIsUpToDate ==
    (~failed /\ draft.on /\ \A s \in Slots : Idle(s)) => draft.of = stored.desc
=============================================================================
