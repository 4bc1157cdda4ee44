# OpenWorkspace in TLA+

OpenWorkspace lets people put AI agents to work on a Kanban board: a NestJS API
(`src/apps/api`) keeps workspaces, projects, agents and tasks in PostgreSQL, a Python
runner (`src/apps/runner`) executes agents on tasks, Redis connects the two (a stream
with a consumer group for jobs, pub/sub for events to the browser), and a Next.js
application (`src/apps/app`) shows it all through a cache of queries. This directory
models the parts of that program that decide what happens to a task, a run, a plan, a
hire, a version or a capability, and what a page shows of it; it checks them with TLC, and
proves the main safety results with TLAPS.

    tlc -workers 2 -config AgentRuns.cfg MCAgentRuns     # one run
    tlapm AgentRunsProofs.tla                            # one module of proofs

## 1. Inventory

### Components

| Component | State | Operations | Talks to |
|---|---|---|---|
| Run lifecycle, API (`agent-runner.service.ts`) | rows of `AgentRunLog` | `enqueue`, `stop`, `wake`, `getRunLogs` | adds to the stream; callers are `tasks.controller.ts`, `tasks.service.ts`, `planner.service.ts` |
| Stream consumer (`processor.py:43-115`) | stream `agent-runs`, its group's last-delivered-id and pending entries list (PEL) | read loop, claim loop, acknowledgement | Redis |
| Job processor (`processor.py:120-483`) | `AgentRunLog`, `Task.status` | load, mark, loop (stop poll, LLM, tools, flush), final save, task sync | PostgreSQL, LLM providers, tools |
| Runner process (`main.py`) | process life | clean-up of stale runs, start of the consumer, shutdown by signal | all of the above; the container restarts it (`docker-compose.runner.yml:4`) |
| Task board, API (`tasks.service.ts`, `tasks.controller.ts`) | `Task`, `TaskDependency` | `create`, `update`, `addComment`, `deleteTask`, `restoreTask`, `permanentlyDeleteTask`, `triggerRun`, `maybeUnblockDependents` (the walk over dependents), `maybeEnqueueAgent` | creates runs, publishes events to the browser and to the coordinator |
| Agent tools (`tools.py`) | `Task`, `TaskDependency`, comments, files | `complete_task`, `block_task`, `request_human_input`, `update_task`, `_unblock_dependents`, and tools without effect on the board | PostgreSQL, stream |
| Coordinator (`coordinator.py`, `coordinator_tools.py`, `coordinator.service.ts`) | stream `coordinator-events`, flags of the project agent | two loops with retry, `get_board_state`, `proceed`, `hold`, `escalate`, `abort`; `setCoordinator` | stream, board |
| Planner (`planner.service.ts`) | plans, tasks, dependencies | `runPlanner`, `acceptPlan`, automatic assignment, auto-start | LLM, board |
| Versions (`agents.service.ts:262-354`, `planning-agent.service.ts`) | version rows, active version | list, publish, delete with renumbering, activate, back to the draft | the version panels |
| Agents, providers, hiring (`agents.service.ts`, `projects.service.ts`, `marketplace.service.ts`) | provider account, agents, hires, agreements, project keys | register, accept the DPA, create, publish, delete, hire, accept, remove | provider, marketplace and settings pages, the new-project wizard |
| Vault (`keys.service.ts`, `project-key.guard.ts`) | resource keys, audit records | store, remove, read by the program of a hired agent | settings page, wizard, external programs |
| Skills and MCP servers (`skills.service.ts`, `mcps.service.ts`) | items, assignments to agents and to hires | create, update, delete, assign, unassign, presets | skills, MCP, agents and settings pages; the runner reads them |
| Kanban gateway (`kanban.gateway.ts`, `events.py`, `use-socket.ts`) | rooms | join, event | board page |
| Query cache of the web (`lib/query-client.ts`, `lib/api.ts`) | a list of entries with data, fetch and staleness | fetch, answer, retry, invalidate, put | every page |
| Board page and task panel (`board/page.tsx`, `task-detail.tsx`) | cards, moves not yet answered, description in its field, polled runs | drag, create, update, comment, delete, restore, purge, trigger, stop | API, gateway |
| Settings page (`settings/page.tsx`), new-project wizard (`new/page.tsx`) | description, draft of a plan with assignees, wizard step and keys | save and re-plan, review, accept, set planner and coordinator | API |
| Notifications (`notifications.service.ts`, `use-notifications.ts`, `notification-bell.tsx`) | notification rows; the bell's list and its counter | create, list, mark one or all as read, join, event | task board, gateway, sidebar |
| Workspace keys, billing, auth, my-tasks, LLM adapters, encryption, the other pages | rows or nothing | create, read, update, delete, conversions, rendering | see `PROJECT.json` |

### What is hard in this code

Nothing in the program holds a lock. The API runs every request as a chain of awaits and
so does the runner, in which two asyncio workers (read loop, claim loop) share one
process with as many processes as the operator starts. The behaviours that matter are:

* **Check, then act across an await.** `stop`, `wake`, `maybeEnqueueAgent`, the
  release of a dependent, `deleteTask`, `setCoordinator`, `publishVersion` all decide on
  a row they read before and write by id, whatever the row says by then.
* **At-least-once delivery.** An entry is acknowledged after its job; an entry idle for
  30 s is claimed by any claim loop, also when it is idle because its job is long.
* **Crash and shutdown.** A signal cancels the read worker inside its `try`, so the
  `finally` block runs with the `final_status` of that moment; the claim worker is
  cancelled and not awaited; a start marks every RUNNING log of every runner FAILED.
* **Several writes that ought to be one.** Log and stream entry; log and task status;
  the person's task, the dependency and the BLOCKED status of `request_human_input`.
* **Wake-ups that may be lost.** A blocked task is released by whoever finishes its last
  blocker; two finishers that each think of the other as the last one would leave it.

* **Answers out of order.** A page sends the requests of its mutations side by side, moves
  cards before the API answers, and fetches again when told to; an older answer may arrive
  after a newer one, and what is told to one query is not told to the next.
* **State kept by position or by name.** Assignees of a draft are kept by index, one
  `installing` name stands for a button, versions are renumbered along a snapshot.

`PROJECT.json` lists 40 such hazards at their lines, with the properties that cover each. Where a
property covers a hazard in part, because the program does go wrong there and a history variable
exempts the case, or where none covers it, a note says so.

### What makes each component correct

* Run lifecycle and consumer: no job is lost; a RUNNING log has something that will end
  it; a task in progress has something that will move it on; every entry is acknowledged
  in the end; delivery implements a queue that redelivers what was lost.
* Job processor: a stop is obeyed; a wake resumes; a run that is cut short or waits for
  a person does not end as a completed one.
* Board: a dependent whose blockers are all done is released by somebody, whatever the
  interleaving; a task has one run at a time; only tasks of agents are run.
* Coordinator: what a person finishes, blocks or answers is looked at by a decision that
  begins afterwards; a decision's log ends; a proceed starts what it names and an abort
  stops what runs; one coordinator a project.
* Planner: a task of an accepted plan that starts BLOCKED is linked to what it waits for,
  the others are enqueued; what the leader chose or typed is not overwritten.
* Versions: at most three, numbers unique, the active one exists, a panel at rest shows
  the table unless it has missed a change.
* Hiring: a hire has its agent, that of an own agent has its agreement, the vault gives a
  value only to a hired agent, and records it; the wizard leaves nothing under way.
* Skills and MCP servers: nothing deleted is assigned; an assignment that is answered has held at
  some moment since the click; a button of the hub waits only for an install of its own preset.
* Pages: once everything under way is over, what is shown is what is stored, unless
  nothing told the page of the last change.

## 2. Modules

| Module | Models | Used by |
|---|---|---|
| `JobQueue` | the abstract promise of a stream to its consumers; `Exclusive`: one worker at a time has a job | `AgentRuns`, `Coordinator` (`Queue == INSTANCE JobQueue WITH ...`) |
| `AgentRuns` | API run lifecycle, stream, two loops per runner, `_process_job`, `main.py` | `MCAgentRuns`, `AgentRunsProofs` |
| `TaskBoard` | `TasksService` and the tools of executing runs on one board with dependencies | `MCTaskBoard`, `TaskBoardProofs` |
| `Coordinator` | events to the coordinator, `coordinator.py` with its two loops, the tools that move tasks and create runs | `MCCoordinator`, `CoordinatorProofs` |
| `Planning` | settings page (description, planner, coordinator, review of the draft), `runPlanner`, `acceptPlan`, `setCoordinator` | `MCPlanning`, `PlanningProofs` |
| `VersionList` | what the owner sees of an agent's versions: a bounded list in a fixed order, one of them chosen, requests that take effect at once or are refused | `AgentVersions` (`List == INSTANCE VersionList WITH ...`) |
| `AgentVersions` | versions of agents and of planning agents, with the panels of several tabs | `MCAgentVersions`, `AgentVersionsProofs` |
| `Hiring` | provider and leader pages, marketplace, wizard, hires and agreements, vault | `MCHiring`, `HiringProofs` |
| `QueryCache` | one entry of the web's query cache | `LiveBoard`, `TaskPanel`, `Capabilities`, `Bell` |
| `LiveBoard` | the board page and its bin, the gateway, the order in which handlers write, emit and answer | `MCLiveBoard`, `LiveBoardProofs` |
| `TaskPanel` | a task opened over the board: its queries, field, requests and poll | `MCTaskPanel` |
| `Bell` | a person's notifications: rows, room, the bell's list, counter and requests | `MCBell` |
| `Capabilities` | skills and MCP servers: pages, panels, hub, services | `MCCapabilities`, `CapabilitiesProofs` |
| `MC*` | symmetry, model values and the plans TLC starts with | the cfgs |
| `*Proofs` | inductive invariants and theorems | - |

The modules meet where one part's effect is another's environment: `AgentRuns` has `Restart`
and `EditTask` for what `TaskBoard` and `Coordinator` do to a task, `TaskBoard` starts from
the board that `Planning` links, `LiveBoard` and `TaskPanel` see of `TaskBoard` and
`AgentRuns` only writes and events (`Elsewhere`, `RunEnds`), `Planning` sees of `Hiring`
only that a hire is removed. They are not composed into one state space: the product is out
of reach, and no property needs two of the details at once.

### AgentRuns

Every database statement, Redis command, and LLM call is a step. A request `q` is at
`rpc[q]`, its next statement, with the log `rrun[q]` and the task `rtask[q]` it works on;
a worker `<<runner, "read">>` or `<<runner, "claim">>` is at `wpc[w]` with the entry
`wjob[w]` in its hands.

| State | Code |
|---|---|
| `taskStatus` | `Task.status` |
| `nRuns`, `logTask`, `logStatus`, `logIter`, `logSaved` | rows of `AgentRunLog`; of the saved messages only how many iterations they hold, 0 for `[]` |
| `nEntries`, `entRun`, `entWake` | the stream; an entry's `runLogId` and `wake` fields |
| `cursor`, `pel` | last-delivered-id and PEL of the group |
| `runner`, `stale` | the process; the ids the clean-up's first statement returned |
| `witer`, `wfinal`, `wraised` | `iteration`, `final_status`, whether an exception is on its way out |
| `marked`, `syncLost`, `orphan`, `saveLost`, `handled` | ghosts: history the properties refer to; no guard reads one. `syncLost[t]`: a task sync failed, or was cut (`LoseSyncs`) when another worker had acknowledged the entry already or was about to |

| Actions | Code |
|---|---|
| `Stop`, `StopWrite`, `Restart`, `Enqueue`, `Xadd`, `Wake`, `WakeWrite`, `RequestFails` | the statements of `stop`, `enqueue`, `wake`, `triggerRun` and of a person's comment; the request dies at any of them |
| `Read`, `Claim`, `Ack` | XREADGROUP, XPENDING with XCLAIM, XACK |
| `CannotLoad`, `Mark`, `LoadSaved` | the queries before the `try` (one of them fails), the update to IN_PROGRESS (line 310), the read of saved messages (line 317) |
| `OutOfIterations`, `PollStopped`, `PollGoesOn`, `TextReply`, `CompleteTask`, `BlockTask`, `RequestHumanInput`, `Flush`, `EarlySave` | the loop and its exits |
| `FinalSave`, `Sync` | the `finally` block |
| `Raise`, `GiveUp`, `SyncFails` | an exception inside the `try`, outside it, in the swallowed task sync |
| `Sigterm`, `CancelClaim`, `Exit`, `Crash`, `ReadLoopDies`, `Start`, `Revert` | shutdown in its order, crash, the consumer task that ends while `main` waits for a signal ("deaf"), start with the two statements of the clean-up |
| `EditTask` | a person or another agent's `update_task` moves the task |

Abstractions, and why they lose nothing the properties see:

* XPENDING and XCLAIM are one step. XCLAIM checks the idle time and the membership
  again, and entries only join the PEL at its end, so an entry in the window of XPENDING
  stays in it until it leaves the PEL: every claim of the code is a claim of the model.
* Time is one constant. With `LongJobs = FALSE` an entry is idle for `CLAIM_IDLE_MS`
  only when nobody works on it; with TRUE the entry of a job in progress may be idle too.
* The texts of LLM and tools are the choice among the branches the loop distinguishes.
  The queries of agent, key and task have one outcome per task: `Unrunnable`.
* The stop poll and the LLM call that follows are two steps; the awaits of tools that
  change nothing here are not steps.

### TaskBoard

`status`, `assignee`, `deleted`, `deps` are the tables; `coordinator` is the project's
switch that turns the automatic moves of the board off. A request or a run `p` is at
`pc[p]`; during a walk over the dependents of a finished task `left[p]` are those not
yet examined and `dep[p]` the one in hand. The walk of the API (`maybeUnblockDependents`
with `maybeEnqueueAgent`) and that of the runner
(`_unblock_dependents`) share their first steps and differ where the code does: the API
looks the assignee up before it releases and looks for a RUNNING log before it
enqueues; the runner writes TODO and enqueues in any case.

* An `update` writes one field (a status or an assignee). What it decides on, the status
  read before the transaction, is `seen[q]`, as old as the code lets it be.
* A run is carried out once, by a loop that may end in any of its ways. That runs are
  redelivered, stopped and woken is the business of `AgentRuns`.
* A run of a person's task has no LLM provider and never starts.
* `quiet[t]`, a ghost, is TRUE when the code lets a release pass by without anybody bound
  to look: DONE written by `update_task`, by the text reply of a run, by an update that
  had read DONE already or under a coordinator; a task blocked after its blockers were
  done; a purged blocker; a walk that failed. `ReleaseNotLost` says that these are the
  only ways, and `PROJECT.json` lists them as hazards.
* Restoring and purging are one step each (check and write merged).

### Coordinator

A project with a coordinator agent: `TasksService` publishes DONE, BLOCKED and a person's
answer to stream `coordinator-events`, the second consumer of every runner decides. A
request or a worker `p` is at `pc[p]`; both dispatch runs through the same three steps
(`Check`, `CreateLog`, `Xadd`), as `maybeEnqueueAgent` and `_proceed` do.

| State | Code |
|---|---|
| `status` | `Task.status` |
| `nRuns`, `runTask`, `runLog`, `runBy` | rows of `AgentRunLog`, of agents' runs and of the coordinator's own |
| `stage` | how far an agent's run is: row, stream entry, execution, over |
| `nEvents`, `evTask`, `cursor`, `pel` | the event stream, last-delivered-id and PEL of its group |
| `ev`, `log`, `turns` | a worker's event, `run_log_id`, and the decisions made |
| `unseen`, `missed`, `halted`, `logLost`, `decided` | ghosts: history the properties refer to |

| Actions | Code |
|---|---|
| `Update`, `Write`, `Comment`, `Publish`, `RequestFails` | `update` and `addComment` with `maybeNotifyCoordinator` and `publish`; the request dies at any statement |
| `Check`, `CreateLog`, `Xadd` | look for a RUNNING log, create one, add its entry |
| `Read`, `Claim`, `Ack` | XREADGROUP, XPENDING with XCLAIM, XACK on `coordinator-events` |
| `CannotLoad`, `Load`, `LogRun`, `LogFails` | agent and key, the decision's own log; a failed INSERT is swallowed |
| `Proceed`, `Release`, `Abort`, `Conclude`, `Finish`, `Fail` | the loop over tool calls and the two ways it ends |
| `Raise`, `GiveUp` | an exception inside the `try`, and outside it |
| `AgentStart`, `AgentEnd` | what a run does to log and task (`AgentRuns` has the details) |
| `Down`, `ReadLoopDies`, `Start`, `Revert` | crash or shutdown, the consumer that ends alone, start with its clean-up |

* The LLM may call any tool with any task, up to `MaxTurns` decisions. `get_board_state`
  is a read on which any decision may follow; `hold` and `escalate` change nothing a
  property refers to. Decisions are taken one by one: those the code takes after a
  `STOP` in the same response are among them.
* Any pending event in the window may be claimed: ten LLM calls may well outlive 30 s.
* All tasks are assigned to agents and the coordinator stays in office. Its appointment is
  the switch `coordinator` of `TaskBoard`; events carry the id of the agent, and rows of
  project agents are not deleted while the project lives, so "not found" is not reached.
* A comment on a TODO or IN_PROGRESS task is `Restart` of `AgentRuns`; one on a BLOCKED
  task is one step until its event (status read and comment merged).
* A request that would write at the bound of rows does not begin; a decision at that bound
  goes on without a log, as after a failed INSERT.
* Shutdown and crash are one action: the read worker's decision is cancelled, and
  `except Exception` does not see `CancelledError`, so nothing of it is written.
* `FinishedIsConsidered` is about what *people* write. An agent's `complete_task` and
  `block_task` publish no event at all, and `update` dispatches a task moved to TODO
  although a coordinator is in office; the design document
  (`2026-05-08-coordinator-agent-design.md:59-61,75`) has it otherwise. No run is spent on
  what is simply absent.

### Planning

| State | Code |
|---|---|
| `stored` | `Project`: description, planner and coordinator; texts are numbered as typed |
| `revoked`, `flagged` | `ProjectAgent.status`, `isCoordinator` |
| `board` | the tasks plans have created, with `blockers` for `TaskDependency` and `runs` for their enqueued jobs |
| `text`, `dirty` | the description field and `descDirty` |
| `cached` | the page's queries of project and agents |
| `draft` | `planDraft` and `taskAssignees`, the latter by position |
| `req` | the request of each mutation, at most one each, and a choice of the coordinator from each other tab (`Tabs`); `save` goes on with a planner's run |
| `mine`, `closed`, `typed`, `raced`, `failed` | ghosts |

* The LLM answers with any of `Plans`, or fails. Roles serve only to find an assignee;
  `Match` lists the hires that have the role of a task, `RoleAgent` takes the first active one.
* Tasks of a plan are created TODO or BLOCKED, never BACKLOG, so `replaceExisting`, which
  deletes the backlog, deletes none of them and is left out; so is `autoAssign`.
* A project has one leader, so choices of the coordinator overlap when they come from tabs of
  that leader: `OtherForm(t)` sends one from tab `t`, with a read and a transaction of its own.
* `WriteCoordinator` is the transaction, one step since it only writes, under row locks it holds
  to its end. The coordinator it lowers the flag of was read before it, as in the code, and
  another choice may have been written meanwhile: two hires can then be left flagged, one
  of which is the coordinator stored. `CoordinatorIsFlagged` claims the latter only.

### AgentVersions

`kind` chooses between the two services, which answer the same three requests with
different code. `rows[i]` is the number of row `i` (0: none), `active` is
`activeVersionId`, `view[t]` the query cache of a tab; a request of slot `<<tab, op>>` is at
`pc`, with `seen`, the snapshot the rest of the request uses, `todo` and `at`, the loop that
renumbers. A tab disables a button only while its own mutation is pending, so the three
overlap. `fetch[t]` is what the tab's query under way has read (nothing: none is): `FetchReads`,
`FetchShows` and `FetchFails` are steps of their own, and an answer put into the cache meanwhile
(`ShowAnswer`, `setQueryData`) cancels no fetch, which is shown after it though it is older; saving or
deleting an agent invalidates, and so drops the fetch for a new one. Prompts and names are left out. The unique index `(agentId, version)` fails a
statement of an agent's request; a planning agent's rows have none. Two histories: `missed`, the tabs
that have not seen the last write (made from another tab, read too early by a fetch shown too late,
or a fetch failed), and `overlapped`, that two requests have overlapped or one was cut off.

`VersionList` is what the statements amount to when requests do not overlap. Its members are the rows, in
the order of their numbers; a pointer to no row chooses none of them; `asked` is what the request in flight
has neither done nor been refused (`Asked`: up to the statement that creates, deletes or points). The
renumbering loop, the pointer written back and the answer read back are stuttering steps.

### Hiring

A request in flight is a member of `req` and takes one step per await: guard, reads,
writes, answer. `provider`, `agent`, `project`, `hire`, `agreed`, `stored`, `audit` are the
tables; `wizard`, `page` and `shown` the pages. `Restrict` and unique pairs of `schema.prisma` are
conditions of the statement they fail. `KYC` is verified outside of the code.

* The wizard's search sends `q`, which the dto does not name and the validation pipe
  refuses (`forbidNonWhitelisted`), so its list of agents is empty: `Found`.
* Each way in which a statement, the process or an answer is lost is `CutOff`.

### QueryCache, LiveBoard, TaskPanel, Capabilities, Bell

`QueryCache` is the library as the pages use it: an entry has at most one value, a fetch
(sent, or holding what it has read) and a staleness; `Invalidated` fetches an entry on the
screen again unless its *first* fetch is under way, `Mounted` may show data that are not
known to be stale. The library is not in `src/`; its defaults are (`lib/query-client.ts`).

* `missed` (all of these modules) is a ghost: a query's answer has changed and nothing will tell
  the page, because the change was made elsewhere without an event, the event or answer was
  lost, a fetch failed, or a first fetch was not repeated. Each module says where, so a
  property of the form "shown = stored unless missed" says that these are the only ways.
* `LiveBoard`: `list` holds the cards; a request writes, emits and answers in that order;
  `wire` counts events between gateway and page and `telling` changes not yet emitted; `room` is the
  membership of the socket: joined once when the token arrives, never again after a
  reconnect (`use-socket.ts:35`). The payload of an event is not used, any event invalidates.
* `TaskPanel`: status, assignee and comments of the task are one number that grows with
  each change, its runs are whether one is RUNNING (polled every 3 s while one is shown).
  A change of the status, one of the assignee and a comment are mutations of their own that may be in
  flight together, and a `Select` that is not disabled may send a second one: a slot for each request
  in flight (`Updates`), all of which do the same here, and one for each other mutation. Events of the gateway do not reach the panel.
* `Capabilities`: skills and MCP servers are the same code with other names; `kind` is
  looked at where they differ. `held` is both join tables, `panel[o]` the list of each of the
  three panels (an item's agents, an agent's items, a hire's items). `installing` is the preset whose button
  waits: only that one is disabled, so each press is a slot (`Presses`) and installs of several
  presets (`Presets`) overlap; the end of any of them gives the button back. An assignment is an upsert with
  an empty `update`, which Prisma carries out as `Select` and `Assign` (create); one that meets another is
  refused on the unique index. `met` is a history: the requests whose assignment, or removal, has held since sent.
* `Bell`: `rows` are the notifications in the order of their creation, `count` is the bell's counter,
  a copy of what the list says: answers lower it, a list with new content sets it (an equal answer is
  the same list to React, so its effect does not run). `overtaken` is a ghost: the last new list was
  shown with a request under way. `Id` and `Uid` are two names because `sidebar.tsx:84` passes
  Firebase's and `notifications.service.ts` uses the row's; `Create` tells whoever is in the
  room of the row's. The order of `findAll` and its `take: 50` are `FindAll`, the ten lines of the bell `First(Lines, l)`.

## 3. Runs

| Run | Question | Bounds | Result |
|---|---|---|---|
| `agent_runs` | Is any job lost, and is the stream the exclusive queue of `JobQueue`? | 1 task, 1 request at a time, 2 runners (4 workers), 2 runs, 2 entries, 1 iteration, 1 fault of any kind at any step | `TypeOK`, `QueueSpec` hold; 978 000 states |
| `agent_runs_live` | Is any RUNNING log or task in progress left without somebody to end it, is every entry acknowledged and every RUNNING log ended? | 1 runner, 1 run, 2 tasks of which one cannot be loaded, 2 faults, 1 task moved by hand, jobs of any length | `RunningIsDriven`, `InProgressIsOwned` hold, `EveryJobIsAcked`, `EveryRunSettles` under fairness; 308 000 states |
| `task_board` | Do two finishers leave a release to each other? | 2 requests and a run, plan of 3 tasks and one to come, 2 edits, 1 fault | `TypeOK`, `ReleaseNotLost`, `ReleasableIsReleased` hold; 61 000 states |
| `coordinator` | Does a decision follow what people do, does its log end, and is its stream a queue of `JobQueue`? | 2 tasks of two projects, one without a key; 1 request at a time, 2 edits, 2 events, a runner with both loops, 2 runs, 1 decision a run, 1 fault | `TypeOK`, `FinishedIsConsidered`, `QueueSpec`, `EventsAreConsidered`, `DecisionLogsSettle` hold, the last two under fairness; 190 000 states |
| `planning` | Do plans, choices, texts and flags survive what overlaps? | 2 hires, 2 titles, 2 plans (a dependency on a later task; a title twice that depends on itself and on none), 2 texts, 1 other tab, 3 requests, removals or failures | `TypeOK`, `CoordinatorIsFlagged`, `ChoicesFollowTasks`, `PlanIsLinked`, `TypedIsKept` hold; 2 580 000 states |
| `agent_versions` | Do versions stay three, numbered, listed and shown right? | 4 row ids, 2 tabs, 2 requests, 1 fetch under way at a time, 1 restart, from any published history | `TypeOK`, `AtMostThree`, `SerialIsClean`, `PanelsShowTheTable`, `KeepsTheList` hold; 1 219 000 states |
| `hiring` | Do hires, agreements, vault and wizard agree whatever is cut off? | an agent of each kind, 2 projects, 2 keys, 2 requests and the wizard's, 1 of them cut off, from any history | `TypeOK`, `HireHasAgent`, `PersonalIsAgreed`, `AccessIsLegal`, `WizardLeavesNothing` hold; 1 865 000 states |
| `live_board` | Does the board come to show what is stored? | 2 tasks, 2 columns, 2 requests in flight, 2 operations, 2 faults | `TypeOK`, `BoardSettles` hold; 1 417 000 states |
| `task_panel` | Does the panel follow its task, its field and its runs? | 2 requests or changes elsewhere, 2 updates in flight, 1 text, 1 fault | `TypeOK`, `FieldIsTheTask`, `PanelSettles`, `RunIsFollowed` hold, the last two under fairness; 835 000 states |
| `capabilities` | Do assignments dangle or go lost, do the screens settle, does the hub's button come back? | 2 items, 2 presets, 1 agent, 1 hire, 2 requests or changes elsewhere (2 installs in flight), 2 moves, 1 fault, both kinds | `TypeOK`, `NothingDangles`, `ScreenSettles`, `InstallingEnds`, `TogglesTakeHold` hold; 1 584 000 states |
| `stop_lost` | "exits the loop gracefully" after a stop | no fault | `StopIsFinal` violated: the flush writes RUNNING over STOPPED |
| `notified_in_app` | "Workers are notified in real-time (in-app)" | 2 notifications, no fault, no click, fairness | `NotifiedInApp` violated: the bell is in another room; with `Id = uid` TLC finds no violation, so it is the name and nothing else |

The two violations are listed under "findings" with the line of code and the sentence it
disagrees with.

**Counterexamples kept beside the runs.** These configurations end in an error trace too.
They show weaker disagreements, or what follows from a missing statement; each is a property
of its module, run with the same command.

| cfg (module) | Violated | What happens |
|---|---|---|
| `ShutdownCompletes` (`MCAgentRuns`) | `CutShortIsNotCompleted` | cancellation runs the `finally` with the initial COMPLETED: a job cut short is saved COMPLETED and its task DONE (`processor.py:340`) |
| `WakeFromScratch` (`MCAgentRuns`) | `WakeResumes` | the last save erases the messages a wake would resume from (`processor.py:444`) |
| `BlockedThenDone` (`MCAgentRuns`) | `BlockedIsNotDone` | the task sync of the run that asked a person overrides BLOCKED by DONE |
| `ProceedPassesOver` (`MCCoordinator`) | `OnlyAgentsOccupy` | the log of a decision is a RUNNING row of the task it is about (`coordinator.py:147`), so proceed passes over that task as "already running" (`coordinator_tools.py:301`) |
| `BadgeShows` (`MCBell`) | `BadgeShows` | a list that overtakes the answer to a click is counted, then lowered (`use-notifications.ts:75`), and nothing puts it right: an unread notification is listed without a badge |
| `PoisonStarves` (`MCAgentRuns`) | `CrashedIsReassigned` | entries that fail to load fill the window of the claim loop |
| `OnlyAgentsRun` (`MCTaskBoard`) | `OnlyAgentsRun` | `triggerRun` and the walk of `deleteTask` enqueue a person's task |
| `AbortStopsWork` (`MCCoordinator`) | `AbortStopsWork` | a queued run starts on the task that an abort has blocked |
| `PlanningAtMostThree` (`MCAgentVersions`) | `PlanningAtMostThree` | two publishes count the same two versions: four rows, no index refuses |
| `KeysAreShown` (`MCHiring`) | `KeysAreShown` | "returned once - provider/human must store this" (`projects.service.ts:196`), but the marketplace page reads other fields of the answer (`marketplace/[agentId]/page.tsx:54`) and shows no key |
| `PlanIsUpToDate` (`MCPlanning`) | `PlanIsUpToDate` | the planner's own button runs beside a save: the plan of the old description arrives last and is the draft (`settings/page.tsx:968`, `1282`) |

`Bell.cfg` (`MCBell`) is kept beside them as well and passes: with 3 notifications, answers of 2, a
bell of 1 line, 2 requests in flight, 3 clicks or rows read in another tab and 2 faults, from any
rows, `TypeOK`, `BellSettles` and `CountMatches` hold (189 000 states): the bell comes to list what
is stored, and its counter is that of the list unless a list overtook an answer.

**Why the bounds suffice.** Two workers on one entry, a job and its clean-up by another
runner, and a stop, restart or wake beside a job need two runners, two entries and two
runs; every third one repeats the situation of the second. One iteration is enough for
the safety run (poll, LLM, flush, poll, end), a fault at every step is tried since the
fault is not tied to a place. In the live run the redelivery of one entry, twice over
(two faults), to a runner that restarted is the case that matters; the second task makes
that entry unloadable. On the board, two blockers finished by two actors and a third
task that depends on both is the smallest lost release, and the second level (tc needs tb)
makes a released task a finisher in its turn. Larger instances were explored while the
modules were written: two runs on the board (373 000 states) and three edits with
symmetry (774 000) showed nothing else. For the coordinator, two edits give an event behind
another one of the same or of the keyless project, a window of one (ten in the code) is
the window that can be full, and two runs are a decision beside the run it started or
the log of an earlier decision; two faults (728 000 states), two decisions a run with two
faults (2 million) and three events with three edits (2.4 million) were explored for the
safety properties.

For the web, two requests in flight are an answer that overtakes another, and a change elsewhere
beside a request; a third overtakes as the second does. One fault is a lost answer or a
failed fetch; on the board two are a connection lost and a request lost. Four version ids
are three rows and one more. Two titles are a task and the one it waits for, in both orders,
and two tasks of one title. Two choices of the coordinator, from two tabs, are one on an older read. Two
installs in flight are two presets of which one waits, two toggles of one pair come from two panels. Not
reached in `capabilities`: an upsert that finds a row which is removed before it is read
again (three operations), and one preset installed twice at once (three
installs); the proofs cover both. Initial states of `agent_versions`, `hiring` and
`task_board` are those any history can leave, so that two requests are two after any number.

All cfgs but those of `Bell`, whose window can always get the focus, say `CHECK_DEADLOCK FALSE`: the bounded system stops when the bounds are used up
and every job is done, as the program does when nobody asks for anything. Nothing in the
program waits for a lock or for another actor without an end of its own, so no deadlock is
hidden: what must go on is stated as liveness.

**Fairness.** `AgentRuns`: weak fairness of a request's next statement, of a worker's
next statement and of the read loop, because both event loops run whatever is ready;
weak fairness of shutdown's steps and of the start, because the container has
`restart: unless-stopped`; strong fairness of claiming each entry that is claimable
again and again, because the claim loop comes by every 60 s and takes all idle entries
among the first ten. What people, LLMs, signals and faults do is not fair, and a tool
that only asks (`RequestHumanInput`) is not either. `TaskBoard`: weak fairness of the
next statement of a request and of a run. `Coordinator`: as `AgentRuns`, for its own loops;
a runner that is down is started again. `FairSpec` is used by the liveness runs only.
`TaskPanel`: weak fairness of a fetch's and of a request's next step (network and API go on or fail, and
failing is a step of its own), of the poll's timer while a run is shown RUNNING, and of a run's end, which
`EveryRunSettles` of `AgentRuns` shows. No click is fair. `Bell` (`notified_in_app` only): weak
fairness of the join, of a fetch's and of a request's next step.

## 4. Proofs

`AgentRunsProofs` proves, for any number of tasks, requests, runners, runs, entries,
iterations and faults, from `ConstantsAssumption` alone:

| Theorem | Statement |
|---|---|
| `TypeCorrect` | `Spec => []TypeOK` |
| `NoJobLost` | `Spec => []AckedWasHandled` (part of `IInv`; no run repeats it, since `QueueSpec` completes a job only when it was carried out) |
| `RunsAreDriven` | `Spec => []RunningIsDriven` |
| `TasksAreOwned` | `Spec => []InProgressIsOwned` |
| `Refinement` | `Spec => QueueSpec`, an exclusive queue unless `LongJobs` |

None of the safety properties is inductive as it stands. The invariant is

    IInv == TypeOK /\ RowsOK /\ WorkersOK /\ AckedWasHandled /\ Exclusive /\ Driven /\ Owned

* `RowsOK`: every entry names a run that exists, every run a task, and a request past its
  creation step works on a run that exists.
* `WorkersOK`: a worker holds an entry exactly when it is busy, and that entry was
  delivered; one that is about to acknowledge has handled it.
* `Exclusive`: without long jobs, an entry in a worker's hands is pending and in no
  other hands. This is what the claim's idle check gives; with long jobs a second executor may
  acknowledge the entry of the first, and the properties name who is left in that case.
* `Driven` strengthens `RunningIsDriven`: the unacknowledged entry of a RUNNING log is
  one whose executors, if any, still have their last save before them (`Awaited`). Without this an
  entry about to be acknowledged would count as a driver. With long jobs a worker may flush RUNNING over
  the outcome another worker has saved and acknowledged; then it is that worker who still has its
  save before it, or the save failed, or a process is on its way to a start that fails every
  RUNNING log (`Rescued`). `RescuedNext` shows that this lasts until the log is not RUNNING.
* `Owned` strengthens `InProgressIsOwned`: the pending entry of a marked task is one
  whose executors, if any, still have their task sync before them (`Owner`), or an execution is under
  way with its sync before it (`Executed`). `ExecutedNext`: when it is cut, its entry is still pending
  with nobody about to acknowledge it, or the loss is recorded in `syncLost`.

`Refinement` needs the conjunct `Exclusive` only for the constant of that name in `JobQueue`, which
is `~LongJobs` here: with long jobs the queue may hand out a job again that is being worked on.

Each conjunct has its lemma (`TypeNext`, `RowsNext`, `WorkersNext`, `ExclusiveNext`,
`AckedNext`, `DrivenNext`, `OwnedNext`) with one step per action that can disturb it;
lemmas about the helpers (`Park`, `Cancel`, `Return`, `SaveRunLog`) and about what all
other actions keep (`JobsKept`, `PelKept`, `RunningKept`, `SavingKept`, `MarkedKept`, `SyncingKept`) come first. Both properties hold for jobs of any length;
TLC checked them with long jobs on 2.8 million states (one runner, two entries of one run) and, with the `IInv` of short jobs, on
978 000 (two runners).

The other modules of proofs, each for all values of the constants from the module's own
assumptions:

| Module | Theorem | Property |
|---|---|---|
| `AgentVersionsProofs` | `NeverMoreThanThree`, `SerialRequestsAreClean`, `PanelsShow`, `Refinement`, `TypeCorrect` | `AtMostThree`, `SerialIsClean`, `PanelsShowTheTable`, `KeepsTheList`, `TypeOK` |
| `HiringProofs` | `HiresHaveAgents`, `PersonalAgentsAgree`, `AccessesAreLegal`, `WizardIsDone`, `Types` | `HireHasAgent`, `PersonalIsAgreed`, `AccessIsLegal`, `WizardLeavesNothing`, `TypeOK` |
| `PlanningProofs` | `CoordinatorFlagged`, `ChoicesFollow`, `PlansAreLinked`, `TypedKept`, `Types` | `CoordinatorIsFlagged`, `ChoicesFollowTasks`, `PlanIsLinked`, `TypedIsKept`, `TypeOK` |
| `LiveBoardProofs` | `BoardsSettle`, `Types` | `BoardSettles`, `TypeOK` |
| `LiveBoardProofs`, on `TaskPanel` | `FieldShowsTheTask`, `PanelTypes` | `FieldIsTheTask`, `TypeOK` |
| `TaskBoardProofs` | `NoReleaseIsLost`, `TypeCorrect` | `ReleaseNotLost`, `TypeOK` |
| `CoordinatorProofs` | `Refinement`, `NewsIsConsidered`, `Types`, `NoEventLost` | `QueueSpec`, `FinishedIsConsidered`, `TypeOK`; `AckedWasDecided` |
| `CapabilitiesProofs` | `Undangling`, `Settles`, `TakeHold`, `Installs`, `Types` | `NothingDangles`, `ScreenSettles`, `TogglesTakeHold`, `InstallingEnds`, `TypeOK` |

With these and the five of `AgentRunsProofs`, every invariant that a run checks is proved, and so
are the action property (`TogglesTakeHold`) and the three refinements. A strengthening was checked with TLC before it was proved.

* `AgentVersionsProofs`: the count that a publish checks is not enough, it may be old. The
  invariant says, for an agent, that the numbers of its rows are distinct and among 1..3, that a
  publish about to create carries a number in 1..3, and that a renumbering works on at most
  three ids, so it writes no number above three. Distinct numbers in 1..3 are at most three rows
  (an injection, `FewRows`). For `TypeOK` a publish must find a number not taken (`FreeNumber`) and a
  deletion must be able to put what it has read in order (`Ranked`, from distinct numbers).
  `SerialIsClean` and `PanelsShowTheTable` are about requests that do not overlap, one of which is
  in the middle of its writes most of the time; `Calm` says, for every step, what it knows of the table and
  what the table lacks until it ends. A deletion under way is `Renumbering`: the rows before its place
  have their number and no other row has a number below it, so that the unique index is never met; all
  rows on its list stand in ascending order before and after each update, so the order the owner sees does not change
  (`ListRenumber`). For `PanelsShowTheTable`, `Covered` says of every state
  where a tab that has missed nothing will get the table from: it shows it, a fetch has read it, or
  its request will answer with it (`Owed`). `Refinement` has a lemma for each request; what it needs besides `Calm` is which
  version a request is about (`Aimed`), and that the version a deletion has removed is not there again when the pointer is
  written back.
* `HiringProofs`: a request past a check relies on it later, so `Sound(r)` says what the steps of
  a request have established: a `use` past the guard had its agreement, one that
  answers has its record, one that asked late has a revoked hire and never passes the guard.
  Nothing a request relies on is ever taken back (`Grows`): hires stay, revoked ones revoked,
  agreements and audit records stay. `OneProject` and `WizardHasProject` tie the wizard's
  project to the one creation it has under way. `TypeOK` bounds the requests (`Counted`): each one
  is an operation, or the wizard's only one for its key (`KeysAssumption`: there are finitely many keys).
* `PlanningProofs`: `CoordinatorIsFlagged` is inductive because flags and project are written in
  one transaction, whatever was read before it: it holds for any number of tabs that choose at once;
  `ChoicesFollowTasks` needs that a draft has as many choices as tasks
  (`DraftOK`), that what the planner proposes is nobody's choice yet (`Proposing`), and that an
  acceptance carries the choices of the draft it was sent with (`Accepting`). `TypedIsKept` needs to
  know what a save carries (`Typing`): the last text, and until it is written the field is dirty, so
  that no refetch takes it. `PlanIsLinked` needs which rows the acceptance under way has written
  (`New`: the last ones), because those are not enqueued yet (`Linked`); that the loop over the plan
  links a task to titles anywhere in it is a lemma about the creation (`CreateLinks`).
* `TaskBoardProofs`: `ReleaseNotLost` is not inductive, since a link to a person's task or a purge
  changes who blocks. It is proved of every blocked task without open blockers, whether it
  has blockers or not (`Settled`): a step sets no task free that nobody looks at (`SetFree`, the one lemma
  about `SetStatus` and its ghost `quiet`), and takes no process past a task that is free (`BoardStep`).
  `Proper` says that nothing is left to look at before a walk begins, so that the fetch of the
  dependents overwrites nothing; `Creations` that only its creator queues a run, so that no run
  is torn out of a walk of its own. TLC checked `IInv`, also with two runs (363 000 states).
* `CoordinatorProofs`: `FinishedIsConsidered` speaks of an event nobody has begun to decide about, so
  its `IInv` says what a worker has (`WorkersOK`): a busy one holds a delivered event, one about to
  acknowledge has decided it. The acknowledged event is then never one that waits, and
  whoever passes from waiting to deciding takes its task off `unseen`. `RoomOK` keeps the bound
  `MaxEvents` out of the way: a request that may publish reserved its place when it began.
  `Requests` is assumed finite for it. One lemma covers every step of workers
  (`WorkersMove`), one every step of requests (`RequestMoves`); only `Publish`, `Read` and `Ack`
  touch the stream and have proofs of their own. `TypeOK` needs the same of runs: a process past
  the check that allows it to create one has kept a place, so that runs and kept places together never
  exceed `MaxRuns` (`RunRoom`, checked on 1.6 million states with two requests and three runs).
  `Refinement`: an event is the queue's job, the workers whose `ev` it is its holders, `decided` what
  was carried out; a pending event may be claimed while it is decided, so the queue is not
  exclusive. `Publish`, `Read`, `Claim`, `Finish` and `Ack` are its steps; in every other one
  some workers, perhaps none, lose what they hold (`Stopping`).
* `LiveBoardProofs`: `BoardSettles` is about a board at rest, so the invariant says of every other
  state what is under way to correct an old list (`Covered`): a fetch that has yet to read, an
  event announced or on the wire, a request whose end invalidates the list (of a move in any
  case), or the return from the bin to a stale list. `InvalidateCovers` is the central lemma: what
  invalidates the list leaves it covered, whatever the list was doing. TLC checked `IInv` without
  symmetry (10.9 million states). `TypeOK` is not inductive because of its bounds: events on the wire,
  events to be announced and requests yet to emit are together no more than the changes (`Counted`), and
  an entry of the cache holds one list, also one that a failed move brings back (`One`, `Held`).
* `TaskPanel`, in the same module, since the two share the cache and its lemmas. The assumption of an
  instantiated module is no fact for the prover, so its theorems have `UpdatesAssumption` and
  `BoundAssumption` as hypotheses; any number of updates may be in flight. `FieldIsTheTask` is about a panel at rest. `FieldInv` says of every state with a clean
  field why it may differ: the description stored is newer than the one shown (`Behind`), the answer on its way
  differs from what is shown and will therefore be taken over (`Differs`), or a fetch failed
  (`Reported`); while a save is under way it does not differ at all (`WhileSaving`). The end of a save
  cleans only the field of the visit that sent it, which still has the text sent (`OwnVisit`, `OwnText`), and
  what is stored by then is that text (`Wrote`). TLC checked `FieldInv` on 1.5 million states.
* `CapabilitiesProofs`: nothing but the foreign keys holds `NothingDangles`: an assignment checks at the
  statement that item and agent live, and a deletion takes its assignments along. `ScreenSettles` is
  proved like `BoardSettles`, with `Covered` for the cards and for each panel: a fetch that has yet
  to read, a request whose success fetches again, or an entry that the next opening fetches.
  `InstallingEnds` needs to know which press the button waits for (`Asked`), for any number of presses
  and presets. `TogglesTakeHold` needs, of every toggle under way, that `met` has it when its pair is as
  asked for or its row has been found (`Known`): a create that is refused meets a row, unless the item
  or agent is gone. Items and
  agents are assumed finite (`FiniteAssumption`), the owners distinct from the places of the page
  (`OwnerAssumption`), and names and slots apart (`NameAssumption`, `PressAssumption`).

Left to TLC: liveness (`EveryJobIsAcked`, `EveryRunSettles`, `ReleasableIsReleased`,
`EventsAreConsidered`, `DecisionLogsSettle`, `PanelSettles`, `RunIsFollowed`), which needs fairness
and ENABLED; `Bell`, of which one run shows a violation; and the other violations.

## 5. Not modelled

Named in `PROJECT.json` with the reason. LLM adapters and encryption convert and keep no
state of interest; billing, auth, workspaces, my-tasks and reviews are single-row operations
without interaction; the remaining pages are forms and lists over single requests. External
code appears as the source uses it: Redis streams (group cursor, PEL, idle time), PostgreSQL
statements (atomic each; unique, cascade and restrict rules of `schema.prisma`), asyncio
cancellation, the container's restart, the query library, the browser's socket.

Left out of modelled parts: `autoAssign` and the deletion of the backlog (`planner.service.ts`),
hold and escalate of the coordinator, the e-mail of a notification, files and the tools that only read.

Seen while modelling and stated here only, since no sentence of the repository says otherwise
or no state of a model shows it:

* A failure after the commit of `acceptPlan` leaves the draft on the screen: applying it again
  creates its tasks twice; `onSuccess` of an acceptance also drops a draft that arrived meanwhile.
* A job that outlives `CLAIM_IDLE_MS` is executed twice. When the second execution is cut (crash, shutdown,
  failed save) between its mark and its task sync, and the first has acknowledged the entry meanwhile, the task
  stays IN_PROGRESS: nobody repeats the job, and the clean-up (`main.py:43`) reverts only tasks of RUNNING
  logs. `InProgressIsOwned` counts it as `syncLost`.
* The end of any install gives back the button of another one that is still under way, and its preset
  can be installed a second time before the list says it is there (`skills/page.tsx:790`).
* Two assignments of one pair that overlap: the second is refused on the unique index with an
  error, although what it asks for holds (`skills.service.ts:61`). Two choices of a coordinator that overlap
  leave the first hire flagged beside the one that is stored (`coordinator.service.ts:47`).
* A fetch of the version list read before a request's answer and shown after it puts the old list back
  (`agents/page.tsx:311`); nothing fetches again until the next focus or mount.
* A hire that was revoked keeps its row, and its foreign key refuses the deletion of the agent
  although none is counted as hired (`agents.service.ts:147`).
* The runner reads `ProjectAgentSkill` only (`processor.py:180-234`), never `AgentSkill`; two WEBHOOK
  skills of one lower-cased name collide (`processor.py:215`).
* The runner publishes `payload.task`, the gateway forwards `payload.data`; the page uses neither.
* A join whose token arrives after the page was left stays joined; a reconnect does not join again.
* The panel of an item fails while the agents it knows include a deleted one.
* `onSuccess` of a comment clears what was typed meanwhile (`task-detail.tsx:198`); the edit form of a
  skill saves the fields it was opened with (`skills/page.tsx:456`).

## 6. Plan

1. `AgentRuns`, `JobQueue`, `AgentRunsProofs`: done.
2. `TaskBoard`, `Coordinator` with their proofs: done.
3. `Planning`, `AgentVersions`, `Hiring`, `Capabilities` with their proofs: done,
   with `VersionList`, which `AgentVersions` implements while requests do not overlap.
4. `QueryCache`, `LiveBoard`, `TaskPanel` with their proofs: done.
5. `Bell`: done but for proofs. `autoAssign` against a person's change is the part with interleavings of
   its own that is left.
