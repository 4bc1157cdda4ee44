------------------------------ MODULE TaskBoard ------------------------------
(***************************************************************************)
(* The board of one project: statuses, assignees, dependencies and the     *)
(* automatic moves between them.  TasksService (API requests) and the      *)
(* tools of executing runs (tools.py) change statuses; whoever finishes a  *)
(* task walks over its dependents, releases those whose blockers are all   *)
(* DONE and creates their runs.  Every statement of a walk is an await.    *)
(*                                                                         *)
(* How a run is delivered, retried, stopped and woken is module AgentRuns; *)
(* here a run is carried out once, and ends in any way its loop can end.   *)
(***************************************************************************)
EXTENDS Integers, FiniteSets

CONSTANTS
    Tasks,        \* rows of table Task, existing ones and those to come
    InitTasks,    \* tasks of the plan the board starts with
    InitDeps,     \* its dependencies, pairs <<blocking, blocked>>
    InitAssignee, \* its assignees
    Null,
    Requests,     \* API requests in flight
    Writes,       \* statuses and assignees that updates write
    MaxRuns,      \* bound: rows of table AgentRunLog
    MaxEdits,     \* bound: requests and agents' free task moves
    MaxFaults     \* bound: rejected awaits

Status   == {"BACKLOG", "TODO", "IN_PROGRESS", "BLOCKED", "DONE"}
Assignee == {"none", "ai", "human"}

ASSUME BoardAssumption ==
    /\ Null \notin Tasks
    /\ InitTasks \subseteq Tasks
    /\ InitDeps \subseteq InitTasks \X InitTasks
    /\ InitAssignee \in [InitTasks -> Assignee]
    /\ Writes \subseteq Status \cup Assignee
    /\ MaxRuns \in Nat /\ MaxEdits \in Nat /\ MaxFaults \in Nat
    /\ Requests \cap (1..MaxRuns) = {}

Runs  == 1..MaxRuns
Procs == Requests \cup Runs

WalkPC    == {"deps", "count", "lookup", "release", "dispatch", "create", "xadd"}
RequestPC == {"idle", "write", "coord", "restart", "stop", "remove", "next"} \cup WalkPC
RunPC     == {"none", "logged", "queued", "run", "link", "block", "save", "sync",
              "over"} \cup WalkPC

VARIABLES
    (* tables Task, TaskDependency, Project *)
    status,      \* "absent" before the task is created, "gone" after it is purged
    assignee, deleted, deps,
    coordinator, \* has the project a coordinator agent ?
    quiet,       \* ghost: nobody is bound to look whether the task may be released
    (* table AgentRunLog *)
    nRuns, runTask, runLog,
    runFor,      \* is the run's projectAgent an AI or a person ?
    (* requests, and runs as the runner executes them *)
    pc,
    job,         \* the task the request or the run is about
    want,        \* a request: the value to write; a run: the status its sync aims at
    seen,        \* what the request read and relies on
    left,        \* dependents the walk has still to examine
    dep,         \* the one it examines or dispatches
    new,         \* the run it has just created
    (* bounds *)
    edits, faults

tableVars == <<status, assignee, deleted, deps, coordinator, quiet>>
runVars   == <<nRuns, runTask, runLog, runFor>>
procVars  == <<pc, job, want, seen, left, dep, new>>
boundVars == <<edits, faults>>
vars      == <<tableVars, runVars, procVars, boundVars>>

TypeOK ==
    /\ status \in [Tasks -> Status \cup {"absent", "gone"}]
    /\ assignee \in [Tasks -> Assignee]
    /\ deleted \in [Tasks -> BOOLEAN]
    /\ deps \subseteq Tasks \X Tasks
    /\ coordinator \in BOOLEAN
    /\ quiet \in [Tasks -> BOOLEAN]
    /\ nRuns \in 0..MaxRuns
    /\ runTask \in [Runs -> Tasks \cup {Null}]
    /\ runLog \in [Runs -> {"none", "RUNNING", "STOPPED", "over"}]
    /\ runFor \in [Runs -> Assignee]
    /\ pc \in [Procs -> RequestPC \cup RunPC]
    /\ \A q \in Requests : pc[q] \in RequestPC
    /\ \A r \in Runs : pc[r] \in RunPC
    /\ job \in [Procs -> Tasks \cup {Null}]
    /\ want \in [Procs -> Status \cup Assignee]
    /\ seen \in [Procs -> Status \cup Assignee]
    /\ left \in [Procs -> SUBSET Tasks]
    /\ dep \in [Procs -> Tasks \cup {Null}]
    /\ new \in [Procs -> 0..MaxRuns]
    /\ edits \in 0..MaxEdits /\ faults \in 0..MaxFaults

Exists(t)      == status[t] \notin {"absent", "gone"}
Blockers(t)    == {a \in Tasks : <<a, t>> \in deps}
Dependents(t)  == {b \in Tasks : <<t, b>> \in deps}
OpenBlockers(t) == {a \in Blockers(t) : status[a] # "DONE"}

(* acceptPlan (planner.service.ts): tasks with dependencies start BLOCKED, the
   others TODO or, without an assignee, BACKLOG. *)
PlannedStatus(t) ==
    IF \E a \in InitTasks : <<a, t>> \in InitDeps THEN "BLOCKED"
    ELSE IF InitAssignee[t] = "none" THEN "BACKLOG" ELSE "TODO"

Init ==
    /\ status = [t \in Tasks |-> IF t \in InitTasks THEN PlannedStatus(t) ELSE "absent"]
    /\ assignee = [t \in Tasks |-> IF t \in InitTasks THEN InitAssignee[t] ELSE "none"]
    /\ deleted = [t \in Tasks |-> FALSE]
    /\ deps = InitDeps
    /\ coordinator = FALSE
    /\ quiet = [t \in Tasks |-> FALSE]
    /\ nRuns = 0
    /\ runTask = [r \in Runs |-> Null]
    /\ runLog = [r \in Runs |-> "none"]
    /\ runFor = [r \in Runs |-> "none"]
    /\ pc = [p \in Procs |-> IF p \in Requests THEN "idle" ELSE "none"]
    /\ job = [p \in Procs |-> Null]
    /\ want = [p \in Procs |-> "none"]
    /\ seen = [p \in Procs |-> "none"]
    /\ left = [p \in Procs |-> {}]
    /\ dep = [p \in Procs |-> Null]
    /\ new = [p \in Procs |-> 0]
    /\ edits = 0 /\ faults = 0

-----------------------------------------------------------------------------
(***************************************************************************)
(* Statuses.  The ghost quiet[t] follows them: it is set where a blocked   *)
(* task becomes releasable by a step after which the code does not look at *)
(* dependents, and reset where it does.                                    *)
(***************************************************************************)
SetStatus(t, s, looks) ==
    /\ status' = [status EXCEPT ![t] = s]
    /\ quiet' = [b \in Tasks |->
           IF b = t /\ s = "BLOCKED" /\ status[t] # "BLOCKED" THEN OpenBlockers(t) = {}
           ELSE IF t \in Blockers(b) /\ s = "DONE" /\ status[t] # "DONE" THEN ~looks
           ELSE quiet[b]]

(* An UPDATE by id that finds no row does nothing. *)
Put(t, s, looks) ==
    IF Exists(t) THEN SetStatus(t, s, looks) ELSE UNCHANGED <<status, quiet>>

KeepTask == UNCHANGED <<assignee, deleted, deps, coordinator>>

SetLog(r, s) == runLog' = [runLog EXCEPT ![r] = IF @ = "none" THEN "none" ELSE s]

RunningOf(t) == {r \in Runs : runTask[r] = t /\ runLog[r] = "RUNNING"}
Latest(S)    == {r \in S : \A s \in S : s <= r}

At(p, l)   == pc[p] = l
Goto(p, l) == pc' = [pc EXCEPT ![p] = l]
Edit       == edits < MaxEdits /\ edits' = edits + 1
Fault      == faults < MaxFaults /\ faults' = faults + 1

(* Mutant: a run is over as soon as its walk is. *)
RestingIdle(p) == "idle"

(* The process goes on with the dependents in S; without any it is over: the
   request is answered, the run that called complete_task saves its log. *)
Resting(p) == IF p \in Requests THEN "idle" ELSE "save"

Advance(p, S, here) ==
    LET over == S = {} /\ p \in Requests IN
    /\ pc'   = [here EXCEPT ![p] = IF S = {} THEN Resting(p) ELSE "count"]
    /\ left' = [left EXCEPT ![p] = S]
    /\ dep'  = [dep EXCEPT ![p] = Null]
    /\ new'  = [new EXCEPT ![p] = 0]
    /\ seen' = [seen EXCEPT ![p] = "none"]
    /\ job'  = [job EXCEPT ![p] = IF over THEN Null ELSE @]
    /\ want' = [want EXCEPT ![p] = IF over THEN "none" ELSE @]

Answer(p) == Advance(p, {}, pc)

-----------------------------------------------------------------------------
(***************************************************************************)
(* TasksService: update().  findUnique, the transaction, and then either   *)
(* the coordinator is told or the automatic moves follow.                  *)
(***************************************************************************)
Begin(q, t, v, read, l) ==
    /\ At(q, "idle") /\ Edit /\ Goto(q, l)
    /\ job'  = [job EXCEPT ![q] = t]
    /\ want' = [want EXCEPT ![q] = v]
    /\ seen' = [seen EXCEPT ![q] = read]
    /\ UNCHANGED <<tableVars, runVars, left, dep, new, faults>>

Update(q, t, v) == Exists(t) /\ Begin(q, t, v, status[t], "write")

(* maybeEnqueueAgent(updated), on the row the transaction returned; with want =
   DONE or BLOCKED it returns at once. *)
Enqueueable(s, a) == s = "TODO" /\ a = "ai"

AfterWrite(q, s, a) ==
    IF Enqueueable(s, a)
    THEN /\ Goto(q, "dispatch")
         /\ dep'  = [dep EXCEPT ![q] = job[q]]
         /\ seen' = [seen EXCEPT ![q] = a]
         /\ UNCHANGED <<job, want, left, new>>
    ELSE Answer(q)

Changes(q) == want[q] \in Status /\ want[q] # seen[q]

WriteStatus(q) ==
    /\ At(q, "write") /\ want[q] \in Status /\ Exists(job[q])
    /\ SetStatus(job[q], want[q], Changes(q))
    /\ IF Changes(q) /\ want[q] \in {"DONE", "BLOCKED"}
       THEN Goto(q, "coord") /\ UNCHANGED <<job, want, seen, left, dep, new>>
       ELSE AfterWrite(q, want[q], assignee[job[q]])
    /\ KeepTask /\ UNCHANGED <<runVars, boundVars>>

WriteAssignee(q) ==
    /\ At(q, "write") /\ want[q] \in Assignee /\ Exists(job[q])
    /\ assignee' = [assignee EXCEPT ![job[q]] = want[q]]
    /\ AfterWrite(q, status[job[q]], want[q])
    /\ UNCHANGED <<status, quiet, deleted, deps, coordinator, runVars, boundVars>>

WriteNothing(q) ==
    /\ At(q, "write") /\ ~Exists(job[q])
    /\ Answer(q)
    /\ UNCHANGED <<tableVars, runVars, boundVars>>

(* maybeNotifyCoordinator: with a coordinator the dependents are left to it. *)
Coordinate(q) ==
    /\ At(q, "coord")
    /\ IF coordinator
       THEN /\ Answer(q)
            /\ quiet' = [b \in Tasks |->
                   quiet[b] \/ (want[q] = "DONE" /\ b \in Dependents(job[q]))]
       ELSE /\ UNCHANGED quiet
            /\ IF want[q] = "DONE"
               THEN Goto(q, "deps") /\ UNCHANGED <<job, want, seen, left, dep, new>>
               ELSE Answer(q)
    /\ UNCHANGED <<status, runVars, boundVars>> /\ KeepTask

(* setCoordinator and unsetCoordinator, one transaction each. *)
SetCoordinator ==
    /\ Edit /\ coordinator' = ~coordinator
    /\ UNCHANGED <<status, quiet, assignee, deleted, deps, runVars, procVars, faults>>

-----------------------------------------------------------------------------
(***************************************************************************)
(* TasksService: create, deleteTask, restoreTask, permanentlyDeleteTask,   *)
(* and the controller's triggerRun.                                        *)
(***************************************************************************)
CreateTask(q, t, s, a) ==
    /\ At(q, "idle") /\ Edit /\ status[t] = "absent"
    /\ SetStatus(t, s, FALSE)
    /\ assignee' = [assignee EXCEPT ![t] = a]
    /\ IF Enqueueable(s, a)
       THEN /\ Goto(q, "dispatch")
            /\ dep'  = [dep EXCEPT ![q] = t]
            /\ seen' = [seen EXCEPT ![q] = a]
       ELSE UNCHANGED <<pc, dep, seen>>
    /\ UNCHANGED <<deleted, deps, coordinator, runVars, job, want, left, new, faults>>

(* The acceptance of a plan starts its TODO tasks in this way too. *)
TriggerRun(q, t) ==
    /\ Exists(t) /\ assignee[t] # "none"
    /\ Begin(q, t, "none", assignee[t], "restart")

Delete(q, t) ==
    /\ Exists(t) /\ ~deleted[t]
    /\ Begin(q, t, "none", assignee[t], "stop")

(* agentRunner.stop(taskId) of both; its own interleavings are in AgentRuns. *)
Stop(q) ==
    /\ pc[q] \in {"restart", "stop"}
    /\ runLog' = [r \in Runs |->
           IF r \in Latest(RunningOf(job[q])) THEN "STOPPED" ELSE runLog[r]]
    /\ IF At(q, "restart")
       THEN Goto(q, "create") /\ dep' = [dep EXCEPT ![q] = job[q]]
       ELSE Goto(q, "remove") /\ UNCHANGED dep
    /\ UNCHANGED <<tableVars, nRuns, runTask, runFor, job, want, seen, left, new, boundVars>>

(* The soft delete keeps status and dependencies. *)
Remove(q) ==
    /\ At(q, "remove")
    /\ IF Exists(job[q])
       THEN /\ deleted'  = [deleted EXCEPT ![job[q]] = TRUE]
            /\ assignee' = [assignee EXCEPT ![job[q]] = "none"]
       ELSE UNCHANGED <<deleted, assignee>>
    /\ IF Exists(job[q]) /\ seen[q] # "none"
       THEN Goto(q, "next") /\ UNCHANGED <<job, want, seen, left, dep, new>>
       ELSE Answer(q)
    /\ UNCHANGED <<status, quiet, deps, coordinator, runVars, boundVars>>

(* deleteTask's last part: another TODO task of the same agent, AI or human. *)
NextTasks(a) == {t \in Tasks : status[t] = "TODO" /\ assignee[t] = a /\ ~deleted[t]}

NextTask(q) ==
    /\ At(q, "next")
    /\ \/ /\ NextTasks(seen[q]) = {} /\ Answer(q)
       \/ \E t \in NextTasks(seen[q]) :
             /\ Goto(q, "dispatch") /\ dep' = [dep EXCEPT ![q] = t]
             /\ UNCHANGED <<job, want, seen, left, new>>
    /\ UNCHANGED <<tableVars, runVars, boundVars>>

Restore(t) ==
    /\ Exists(t) /\ deleted[t]
    /\ deleted' = [deleted EXCEPT ![t] = FALSE]
    /\ UNCHANGED <<status, quiet, assignee, deps, coordinator, runVars, procVars, boundVars>>

(* The row goes, and by cascade its dependencies and run logs. *)
Purge(t) ==
    /\ Exists(t) /\ deleted[t]
    /\ status' = [status EXCEPT ![t] = "gone"]
    /\ quiet' = [b \in Tasks |-> quiet[b] \/ b \in Dependents(t)]
    /\ deps' = {d \in deps : t \notin {d[1], d[2]}}
    /\ runLog' = [r \in Runs |-> IF runTask[r] = t THEN "none" ELSE runLog[r]]
    /\ UNCHANGED <<assignee, deleted, coordinator, nRuns, runTask, runFor, procVars, boundVars>>

-----------------------------------------------------------------------------
(***************************************************************************)
(* The walk over the dependents of a finished task: maybeUnblockDependents *)
(* for a request, _unblock_dependents for a run inside complete_task.      *)
(***************************************************************************)
FetchDeps(p) ==
    /\ At(p, "deps") /\ Advance(p, Dependents(job[p]), pc)
    /\ UNCHANGED <<tableVars, runVars, boundVars>>

Examine(p, b) == IF p \in Requests THEN "lookup" ELSE "release"

(* Mutant: an open blocker ends the loop (return for continue). *)
CountReturning(p) ==
    /\ At(p, "count")
    /\ \E b \in left[p] :
          IF OpenBlockers(b) # {}
          THEN Advance(p, {}, pc)
          ELSE /\ Goto(p, Examine(p, b))
               /\ left' = [left EXCEPT ![p] = @ \ {b}]
               /\ dep'  = [dep EXCEPT ![p] = b]
               /\ UNCHANGED <<job, want, seen, new>>
    /\ UNCHANGED <<tableVars, runVars, boundVars>>

Count(p) ==
    /\ At(p, "count")
    /\ \E b \in left[p] :
          IF OpenBlockers(b) # {}
          THEN Advance(p, left[p] \ {b}, pc)
          ELSE /\ Goto(p, Examine(p, b))
               /\ left' = [left EXCEPT ![p] = @ \ {b}]
               /\ dep'  = [dep EXCEPT ![p] = b]
               /\ UNCHANGED <<job, want, seen, new>>
    /\ UNCHANGED <<tableVars, runVars, boundVars>>

(* Mutant: a task nobody is assigned to is passed over. *)
LookupAssigned(q) ==
    /\ At(q, "lookup")
    /\ IF status[dep[q]] = "BLOCKED" /\ assignee[dep[q]] # "none"
       THEN /\ Goto(q, "release")
            /\ seen' = [seen EXCEPT ![q] = assignee[dep[q]]]
            /\ UNCHANGED <<job, want, left, dep, new>>
       ELSE Advance(q, left[q], pc)
    /\ UNCHANGED <<tableVars, runVars, boundVars>>

(* A request reads the task first and decides on what it has read. *)
Lookup(q) ==
    /\ At(q, "lookup")
    /\ IF status[dep[q]] = "BLOCKED"
       THEN /\ Goto(q, "release")
            /\ seen' = [seen EXCEPT ![q] = assignee[dep[q]]]
            /\ UNCHANGED <<job, want, left, dep, new>>
       ELSE Advance(q, left[q], pc)
    /\ UNCHANGED <<tableVars, runVars, boundVars>>

Released(a) == IF a = "none" THEN "BACKLOG" ELSE "TODO"

(* task.update by id, whatever the status is by now; then maybeEnqueueAgent on the
   row it returns.  Without a row prisma throws, and the request is over. *)
ReleaseByRequest(q) ==
    /\ q \in Requests /\ At(q, "release")
    /\ IF Exists(dep[q])
       THEN /\ SetStatus(dep[q], Released(seen[q]), FALSE)
            /\ IF seen[q] = "ai" /\ assignee[dep[q]] = "ai"
               THEN Goto(q, "dispatch") /\ UNCHANGED <<job, want, seen, left, dep, new>>
               ELSE Advance(q, left[q], pc)
       ELSE Answer(q) /\ quiet' = [b \in Tasks |-> quiet[b] \/ b \in left[q]]
                      /\ UNCHANGED status
    /\ KeepTask /\ UNCHANGED <<runVars, boundVars>>

(* One UPDATE ... WHERE status = 'BLOCKED'; a run is created without asking for a
   RUNNING log. *)
ReleaseByTool(r) ==
    LET b == dep[r] IN
    /\ r \in Runs /\ At(r, "release")
    /\ IF status[b] = "BLOCKED"
       THEN /\ SetStatus(b, Released(assignee[b]), FALSE)
            /\ IF assignee[b] = "ai"
               THEN /\ Goto(r, "create")
                    /\ seen' = [seen EXCEPT ![r] = "ai"]
                    /\ UNCHANGED <<job, want, left, dep, new>>
               ELSE Advance(r, left[r], pc)
       ELSE Advance(r, left[r], pc) /\ UNCHANGED <<status, quiet>>
    /\ KeepTask /\ UNCHANGED <<runVars, boundVars>>

(* maybeEnqueueAgent and deleteTask: findFirst RUNNING. *)
Dispatch(q) ==
    /\ At(q, "dispatch")
    /\ IF RunningOf(dep[q]) # {}
       THEN Advance(q, left[q], pc)
       ELSE Goto(q, "create") /\ UNCHANGED <<job, want, seen, left, dep, new>>
    /\ UNCHANGED <<tableVars, runVars, boundVars>>

(* enqueue(): the log row, for the agent the process has read as the assignee; its
   foreign key needs the task. *)
CreateLog(p) ==
    LET r == nRuns + 1  t == dep[p] IN
    /\ At(p, "create") /\ Exists(t) /\ nRuns < MaxRuns
    /\ nRuns' = r
    /\ runTask' = [runTask EXCEPT ![r] = t]
    /\ runLog'  = [runLog EXCEPT ![r] = "RUNNING"]
    /\ runFor'  = [runFor EXCEPT ![r] = seen[p]]
    /\ pc'   = [pc EXCEPT ![p] = "xadd", ![r] = "logged"]
    /\ job'  = [job EXCEPT ![r] = t]
    /\ want' = [want EXCEPT ![r] = "DONE"]
    /\ new'  = [new EXCEPT ![p] = r]
    /\ UNCHANGED <<tableVars, seen, left, dep, boundVars>>

Xadd(p) ==
    /\ At(p, "xadd")
    /\ Advance(p, left[p], [pc EXCEPT ![new[p]] = "queued"])
    /\ UNCHANGED <<tableVars, runVars, boundVars>>

(* Will the process still look whether t can be released ? *)
Ahead(p, t) ==
    \/ At(p, "deps") /\ t \in Dependents(job[p])
    \/ At(p, "coord") /\ want[p] = "DONE" /\ t \in Dependents(job[p])
    \/ t \in left[p]
    \/ pc[p] \in {"lookup", "release"} /\ dep[p] = t

(* An await rejects, or the row a create refers to is gone: the request is answered
   with an error; complete_task swallows it. *)
Abandon(p) ==
    /\ Answer(p)
    /\ quiet' = [t \in Tasks |-> quiet[t] \/ Ahead(p, t)]
    /\ KeepTask /\ UNCHANGED <<status, runVars, edits>>

Fails(p) == Fault /\ pc[p] \in (RequestPC \ {"idle"}) /\ Abandon(p)

(* An exception of a tool, or of the LLM call, ends the loop. *)

ToolFails(r) ==
    /\ Fault /\ pc[r] \in {"run", "link", "block"} /\ Goto(r, "save")
    /\ want' = [want EXCEPT ![r] = "TODO"]
    /\ dep' = [dep EXCEPT ![r] = Null]
    /\ UNCHANGED <<tableVars, runVars, job, seen, left, new, edits>>

NoTask(p) ==
    /\ At(p, "create") /\ ~Exists(dep[p])
    /\ Abandon(p) /\ UNCHANGED faults

Walk(p) ==
    \/ FetchDeps(p) \/ Count(p) \/ ReleaseByRequest(p) \/ ReleaseByTool(p)
    \/ CreateLog(p) \/ NoTask(p) \/ Xadd(p)

-----------------------------------------------------------------------------
(***************************************************************************)
(* A run, as the board sees it: the start, what its tools do to tasks, its *)
(* end.  A person's task has no LLM to load: such a run never starts.      *)
(***************************************************************************)
RunVarsKept == <<runVars, boundVars>>
OtherLocals == <<job, seen, left, dep, new>>

Mark(r) ==
    /\ At(r, "queued") /\ runFor[r] = "ai" /\ Exists(job[r])
    /\ Put(job[r], "IN_PROGRESS", FALSE) /\ Goto(r, "run")
    /\ KeepTask /\ UNCHANGED <<RunVarsKept, OtherLocals, want>>

(* The flush of every iteration rewrites RUNNING, over a STOPPED too. *)
Flush(r) ==
    /\ At(r, "run") /\ runLog[r] = "STOPPED" /\ SetLog(r, "RUNNING")
    /\ UNCHANGED <<tableVars, nRuns, runTask, runFor, procVars, boundVars>>

CompleteTask(r) ==
    /\ At(r, "run")
    /\ Put(job[r], "DONE", TRUE)
    /\ Goto(r, IF Exists(job[r]) THEN "deps" ELSE "save")
    /\ KeepTask /\ UNCHANGED <<RunVarsKept, OtherLocals, want>>

BlockTask(r) ==
    /\ At(r, "run")
    /\ Put(job[r], "BLOCKED", FALSE) /\ Goto(r, "save")
    /\ want' = [want EXCEPT ![r] = "TODO"]
    /\ KeepTask /\ UNCHANGED <<RunVarsKept, OtherLocals>>

(* The loop ends by itself: a text reply ("DONE"), a stop or the iteration limit
   ("TODO"). *)
EndLoop(r, s) ==
    /\ At(r, "run") /\ Goto(r, "save")
    /\ want' = [want EXCEPT ![r] = s]
    /\ UNCHANGED <<tableVars, RunVarsKept, OtherLocals>>

(* Tool update_task: any task of the project, any status, nothing follows. *)
UpdateTaskTool(r, t, s) ==
    /\ At(r, "run") /\ Edit /\ Exists(t) /\ SetStatus(t, s, FALSE)
    /\ KeepTask /\ UNCHANGED <<runVars, procVars, faults>>

(* request_human_input: the person's task, then the dependency, then BLOCKED. *)
AskHuman(r, h) ==
    /\ At(r, "run") /\ Edit /\ status[h] = "absent"
    /\ SetStatus(h, "TODO", FALSE)
    /\ assignee' = [assignee EXCEPT ![h] = "human"]
    /\ dep' = [dep EXCEPT ![r] = h]
    /\ Goto(r, "link")
    /\ UNCHANGED <<deleted, deps, coordinator, runVars, job, want, seen, left, new, faults>>

LinkHuman(r) ==
    /\ At(r, "link")
    /\ IF Exists(dep[r]) /\ Exists(job[r])
       THEN Goto(r, "block") /\ deps' = deps \cup {<<dep[r], job[r]>>} /\ UNCHANGED want
       ELSE Goto(r, "save") /\ want' = [want EXCEPT ![r] = "TODO"] /\ UNCHANGED deps
    /\ dep' = [dep EXCEPT ![r] = Null]
    /\ UNCHANGED <<status, quiet, assignee, deleted, coordinator, RunVarsKept, job, seen,
                   left, new>>

BlockForHuman(r) ==
    /\ At(r, "block")
    /\ Put(job[r], "BLOCKED", FALSE) /\ Goto(r, "run")
    /\ KeepTask /\ UNCHANGED <<RunVarsKept, OtherLocals, want>>

Save(r) ==
    /\ At(r, "save") /\ Goto(r, "sync") /\ SetLog(r, "over")
    /\ UNCHANGED <<tableVars, nRuns, runTask, runFor, want, OtherLocals, boundVars>>

(* finally: DONE after COMPLETED; otherwise IN_PROGRESS goes back to TODO. *)
Sync(r) ==
    /\ At(r, "sync") /\ Goto(r, "over")
    /\ IF want[r] = "DONE" \/ status[job[r]] = "IN_PROGRESS"
       THEN Put(job[r], want[r], FALSE) ELSE UNCHANGED <<status, quiet>>
    /\ KeepTask /\ UNCHANGED <<RunVarsKept, OtherLocals, want>>

-----------------------------------------------------------------------------
Ask(q) ==
    \/ \E t \in Tasks :
          \/ \E v \in Writes : Update(q, t, v)
          \/ \E s \in {"BACKLOG", "TODO"} \cap Writes, a \in Assignee : CreateTask(q, t, s, a)
          \/ TriggerRun(q, t) \/ Delete(q, t)

Answering(q) ==
    \/ WriteStatus(q) \/ WriteAssignee(q) \/ WriteNothing(q) \/ Coordinate(q) \/ Stop(q)
    \/ Remove(q) \/ NextTask(q) \/ Lookup(q) \/ Dispatch(q) \/ Walk(q)

Carry(r) ==
    \/ Mark(r) \/ LinkHuman(r) \/ BlockForHuman(r) \/ Save(r) \/ Sync(r) \/ Walk(r)

Act(r) ==
    \/ Flush(r) \/ CompleteTask(r) \/ BlockTask(r) \/ \E s \in {"DONE", "TODO"} : EndLoop(r, s)
    \/ \E t \in Tasks, s \in Status \cap Writes : UpdateTaskTool(r, t, s)
    \/ \E h \in Tasks : AskHuman(r, h)

Next ==
    \/ \E q \in Requests : Ask(q) \/ Answering(q)
    \/ \E r \in Runs : Carry(r) \/ Act(r)
    \/ \E p \in Procs : Fails(p)
    \/ \E r \in Runs : ToolFails(r)
    \/ \E t \in Tasks : Restore(t) \/ Purge(t)
    \/ SetCoordinator

Spec == Init /\ [][Next]_vars

(* A request and a run go on to their next statement; what people, the LLM and
   faults do is not fair. *)
FairSpec ==
    /\ Spec
    /\ \A q \in Requests : WF_vars(Answering(q))
    /\ \A r \in Runs : WF_vars(Carry(r))

-----------------------------------------------------------------------------
(* A task that could be released: BLOCKED, and all its blockers are DONE. *)
Releasable(t) == status[t] = "BLOCKED" /\ Blockers(t) # {} /\ OpenBlockers(t) = {}

(* Two people or agents that finish two blockers at the same time never each leave
   the dependent to the other: a releasable task has someone about to look at it,
   unless its last blocker was finished where the code does not look (a coordinator,
   update_task, a text reply, a stale read) or a walk was cut short. *)
ReleaseNotLost ==
    \A t \in Tasks : Releasable(t) => quiet[t] \/ \E p \in Procs : Ahead(p, t)

(* And it is released in the end. *)
ReleasableIsReleased ==
    \A t \in Tasks : (Releasable(t) /\ ~quiet[t]) ~> (~Releasable(t) \/ quiet[t])

(* "Enqueue agent run only for AI agents (human agents don't run in the runner)"
   (tools.py:915): no run is created for a person. *)
OnlyAgentsRun == \A r \in Runs : runFor[r] # "human"
=============================================================================
