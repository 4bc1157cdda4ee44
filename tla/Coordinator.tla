----------------------------- MODULE Coordinator -----------------------------
(***************************************************************************)
(* A project with a coordinator agent: TasksService publishes an event for *)
(* what people do to tasks, the second consumer of every runner process    *)
(* (coordinator.py) lets the coordinator's LLM decide, and its tools       *)
(* (coordinator_tools.py) move tasks and create runs.  All tasks here are  *)
(* assigned to AI agents.                                                  *)
(*                                                                         *)
(* The LLM decides anything, in any number of tool calls up to a bound.    *)
(* How agents execute the runs is module AgentRuns; here a run starts and  *)
(* ends.  Any pending event may be claimed: a decision (ten LLM calls) may *)
(* well outlive CLAIM_IDLE_MS.                                             *)
(***************************************************************************)
EXTENDS Integers, FiniteSets

CONSTANTS
    Tasks,      \* rows of table Task
    Unkeyed,    \* those of a second project, whose workspace has no LLM key
    Null,
    Requests,   \* API requests in flight
    Runners,    \* runner processes
    MaxRuns,    \* bound: rows of table AgentRunLog
    MaxEvents,  \* bound: entries of stream coordinator-events
    MaxTurns,   \* bound: decisions in one run (ten LLM calls in the code)
    ClaimCount, \* count=10 of XPENDING
    MaxFaults,  \* bound: exceptions, crashes, signals
    MaxEdits    \* bound: updates and comments of people

ASSUME CoordinatorAssumption ==
    /\ Unkeyed \subseteq Tasks
    /\ Null \notin Tasks
    /\ MaxRuns \in Nat /\ MaxEvents \in Nat /\ MaxTurns \in Nat
    /\ MaxFaults \in Nat /\ MaxEdits \in Nat
    /\ ClaimCount \in Nat \ {0}
    /\ Requests \cap (Runners \X {"read", "claim"}) = {}
ASSUME RequestsAssumption == IsFiniteSet(Requests)

Runs    == 1..MaxRuns
Events  == 1..MaxEvents
Workers == Runners \X {"read", "claim"}
Procs   == Requests \cup Workers

Status    == {"BACKLOG", "TODO", "IN_PROGRESS", "BLOCKED", "DONE"}
Dispatch  == {"check", "create", "xadd"}
RequestPC == {"idle", "write", "notify"} \cup Dispatch
InTry     == {"decide", "release", "finish"} \cup Dispatch
WorkerPC  == {"idle", "load", "log", "fail", "ack"} \cup InTry

VARIABLES
    (* table Task *)
    status,
    unseen,    \* ghost: finished, blocked or answered, and no decision began since
    missed,    \* ghost: the request that did so died before it told the coordinator
    halted,    \* ghost: blocked by an abort, and not moved by hand or proceed since
    (* table AgentRunLog; entries of stream agent-runs; runs as agents execute them *)
    nRuns, runTask, runLog,
    runBy,     \* whose run the log is about
    stage,     \* of an agent's run: from the row to the end of its execution
    logLost,   \* ghost: the last write of the log failed
    (* Redis stream coordinator-events with its group *)
    nEvents, evTask, cursor, pel,
    decided,   \* ghost: events whose _process_coordinator_event returned normally
    (* API requests, and the workers of the runners *)
    pc,
    task,      \* the task a request is about, or a worker's proceed
    want, seen, \* the status a request writes, and the one it has read
    new,       \* the run just created, to be queued
    ev, log,   \* a worker's event and its own run log, 0 without one
    turns,     \* the decisions it has made
    runner,
    stale,     \* task ids returned by the clean-up's first statement
    faults, edits

taskVars   == <<status, unseen, missed, halted>>
runVars    == <<nRuns, runTask, runLog, runBy, stage, logLost>>
streamVars == <<nEvents, evTask, cursor, pel, decided>>
workVars   == <<ev, log, turns>>
localVars  == <<task, want, seen, new, workVars>>
procVars   == <<pc, localVars>>
runnerVars == <<runner, stale>>
boundVars  == <<faults, edits>>
vars == <<taskVars, runVars, streamVars, procVars, runnerVars, boundVars>>

TypeOK ==
    /\ status \in [Tasks -> Status]
    /\ unseen \subseteq Tasks /\ missed \subseteq Tasks /\ halted \subseteq Tasks
    /\ nRuns \in 0..MaxRuns
    /\ runTask \in [Runs -> Tasks \cup {Null}]
    /\ runLog \in [Runs -> {"none", "RUNNING", "over"}]
    /\ runBy \in [Runs -> {"agent", "coordinator"}]
    /\ stage \in [Runs -> {"none", "logged", "queued", "run", "over"}]
    /\ logLost \subseteq Runs
    /\ nEvents \in 0..MaxEvents
    /\ evTask \in [Events -> Tasks \cup {Null}]
    /\ cursor \in 0..nEvents
    /\ pel \subseteq 1..cursor /\ decided \subseteq 1..cursor
    /\ \A q \in Requests : pc[q] \in RequestPC
    /\ \A w \in Workers : pc[w] \in WorkerPC
    /\ task \in [Procs -> Tasks \cup {Null}]
    /\ want \in [Requests -> Status] /\ seen \in [Requests -> Status]
    /\ new \in [Procs -> 0..nRuns]
    /\ ev \in [Workers -> 0..cursor]
    /\ log \in [Workers -> 0..nRuns]
    /\ turns \in [Workers -> 0..MaxTurns]
    /\ runner \in [Runners -> {"down", "reverting", "up", "deaf"}]
    /\ stale \in [Runners -> SUBSET Tasks]
    /\ faults \in 0..MaxFaults /\ edits \in 0..MaxEdits
    /\ \A w \in Workers : pc[w] = "idle" <=> ev[w] = 0

Init ==
    /\ status = [t \in Tasks |-> "TODO"]
    /\ unseen = {} /\ missed = {} /\ halted = {}
    /\ nRuns = 0
    /\ runTask = [r \in Runs |-> Null]
    /\ runLog = [r \in Runs |-> "none"]
    /\ runBy = [r \in Runs |-> "agent"]
    /\ stage = [r \in Runs |-> "none"]
    /\ logLost = {}
    /\ nEvents = 0
    /\ evTask = [e \in Events |-> Null]
    /\ cursor = 0 /\ pel = {} /\ decided = {}
    /\ pc = [p \in Procs |-> "idle"]
    /\ task = [p \in Procs |-> Null]
    /\ want = [q \in Requests |-> "TODO"] /\ seen = [q \in Requests |-> "TODO"]
    /\ new = [p \in Procs |-> 0]
    /\ ev = [w \in Workers |-> 0]
    /\ log = [w \in Workers |-> 0]
    /\ turns = [w \in Workers |-> 0]
    /\ runner = [n \in Runners |-> "up"]
    /\ stale = [n \in Runners |-> {}]
    /\ faults = 0 /\ edits = 0

At(p, l)   == pc[p] = l
Goto(p, l) == pc' = [pc EXCEPT ![p] = l]
Fault      == faults < MaxFaults /\ faults' = faults + 1

(* A request is answered, a worker between two events: the locals are forgotten. *)
Park(S) ==
    /\ pc'    = [p \in Procs |-> IF p \in S THEN "idle" ELSE pc[p]]
    /\ task'  = [p \in Procs |-> IF p \in S THEN Null ELSE task[p]]
    /\ new'   = [p \in Procs |-> IF p \in S THEN 0 ELSE new[p]]
    /\ want'  = [q \in Requests |-> IF q \in S THEN "TODO" ELSE want[q]]
    /\ seen'  = [q \in Requests |-> IF q \in S THEN "TODO" ELSE seen[q]]
    /\ ev'    = [w \in Workers |-> IF w \in S THEN 0 ELSE ev[w]]
    /\ log'   = [w \in Workers |-> IF w \in S THEN 0 ELSE log[w]]
    /\ turns' = [w \in Workers |-> IF w \in S THEN 0 ELSE turns[w]]

RunningOf(t) == {r \in Runs : runTask[r] = t /\ runLog[r] = "RUNNING"}

(* The bounds: a request or a decision only begins when its rows will fit. *)
Creating == {p \in Procs : \/ pc[p] \in {"release", "check", "create"}
                           \/ p \in Requests /\ At(p, "write") /\ want[p] = "TODO"}
RoomForRun == nRuns + Cardinality(Creating) < MaxRuns
RoomForEvent == nEvents + Cardinality({q \in Requests : pc[q] \in {"write", "notify"}}) < MaxEvents

-----------------------------------------------------------------------------
(***************************************************************************)
(* TasksService: update() reads the task, writes, and tells the            *)
(* coordinator of DONE and BLOCKED; a task moved to TODO is dispatched     *)
(* without it.  addComment() tells it of a person's answer.                *)
(***************************************************************************)
Told == {"DONE", "BLOCKED"}

Edit == edits < MaxEdits /\ edits' = edits + 1

Update(q, t, s) ==
    /\ Edit /\ At(q, "idle") /\ Goto(q, "write")
    /\ IF s = "TODO" THEN RoomForRun ELSE RoomForEvent
    /\ task' = [task EXCEPT ![q] = t]
    /\ want' = [want EXCEPT ![q] = s]
    /\ seen' = [seen EXCEPT ![q] = status[t]]
    /\ UNCHANGED <<taskVars, runVars, streamVars, new, workVars, runnerVars, faults>>

Tells(q) == want[q] \in Told /\ seen[q] # want[q]

Write(q) ==
    LET t == task[q]
        news == want[q] \in Told /\ status[t] # want[q]
    IN  /\ At(q, "write")
        /\ status' = [status EXCEPT ![t] = want[q]]
        /\ halted' = halted \ {t}
        /\ unseen' = IF news \/ Tells(q) THEN unseen \cup {t} ELSE unseen
        /\ missed' = IF Tells(q) THEN missed \ {t} ELSE IF news THEN missed \cup {t} ELSE missed
        /\ IF want[q] = "TODO" THEN Goto(q, "check") /\ UNCHANGED localVars
           ELSE IF Tells(q) THEN Goto(q, "notify") /\ UNCHANGED localVars
           ELSE Park({q})
        /\ UNCHANGED <<runVars, streamVars, runnerVars, boundVars>>

Comment(q, t) ==
    /\ Edit /\ At(q, "idle") /\ status[t] = "BLOCKED" /\ RoomForEvent
    /\ Goto(q, "notify")
    /\ task' = [task EXCEPT ![q] = t]
    /\ unseen' = unseen \cup {t} /\ missed' = missed \ {t}
    /\ UNCHANGED <<status, halted, runVars, streamVars, want, seen, new, workVars, runnerVars,
                   faults>>

(* maybeNotifyCoordinator and CoordinatorService.publish. *)
Publish(q) ==
    /\ At(q, "notify") /\ Park({q})
    /\ nEvents' = nEvents + 1
    /\ evTask' = [evTask EXCEPT ![nEvents + 1] = task[q]]
    /\ UNCHANGED <<taskVars, runVars, cursor, pel, decided, runnerVars, boundVars>>

RequestFails(q) ==
    /\ Fault /\ ~At(q, "idle") /\ Park({q})
    /\ missed' = IF At(q, "notify") THEN missed \cup {task[q]} ELSE missed
    /\ UNCHANGED <<status, unseen, halted, runVars, streamVars, runnerVars, edits>>

-----------------------------------------------------------------------------
(***************************************************************************)
(* maybeEnqueueAgent of a request and _proceed of a worker: without a      *)
(* RUNNING log of the task a row is created and its entry added.           *)
(***************************************************************************)
Return(p) ==
    IF p \in Requests THEN Park({p})
    ELSE /\ Goto(p, "decide")
         /\ task' = [task EXCEPT ![p] = Null]
         /\ new' = [new EXCEPT ![p] = 0]
         /\ UNCHANGED <<want, seen, workVars>>

Check(p) ==
    /\ At(p, "check")
    /\ IF RunningOf(task[p]) # {} THEN Return(p) ELSE Goto(p, "create") /\ UNCHANGED localVars
    /\ UNCHANGED <<taskVars, runVars, streamVars, runnerVars, boundVars>>

NewRun(t, by, to) ==
    /\ nRuns' = nRuns + 1
    /\ runTask' = [runTask EXCEPT ![nRuns + 1] = t]
    /\ runLog'  = [runLog EXCEPT ![nRuns + 1] = "RUNNING"]
    /\ runBy'   = [runBy EXCEPT ![nRuns + 1] = by]
    /\ stage'   = [stage EXCEPT ![nRuns + 1] = to]
    /\ UNCHANGED logLost

CreateLog(p) ==
    /\ At(p, "create") /\ Goto(p, "xadd")
    /\ NewRun(task[p], "agent", "logged")
    /\ new' = [new EXCEPT ![p] = nRuns + 1]
    /\ UNCHANGED <<taskVars, streamVars, task, want, seen, workVars, runnerVars, boundVars>>

Xadd(p) ==
    /\ At(p, "xadd") /\ Return(p)
    /\ stage' = [stage EXCEPT ![new[p]] = "queued"]
    /\ UNCHANGED <<taskVars, nRuns, runTask, runLog, runBy, logLost, streamVars, runnerVars,
                   boundVars>>

-----------------------------------------------------------------------------
(***************************************************************************)
(* coordinator.py: the two loops over coordinator-events.                  *)
(***************************************************************************)
Busy(w) == ~At(w, "idle")

Begin(w, e) ==
    /\ Goto(w, "load")
    /\ ev' = [ev EXCEPT ![w] = e]
    /\ UNCHANGED <<task, want, seen, new, log, turns>>

Read(n) ==
    /\ runner[n] = "up" /\ ~Busy(<<n, "read">>)
    /\ cursor < nEvents
    /\ cursor' = cursor + 1
    /\ pel' = pel \cup {cursor + 1}
    /\ Begin(<<n, "read">>, cursor + 1)
    /\ UNCHANGED <<taskVars, runVars, nEvents, evTask, decided, runnerVars, boundVars>>

(* Mutant: the range of XPENDING excludes its start. *)
InFirstExclusive(e) == Cardinality({f \in pel : f < e}) \in 1..ClaimCount

InFirst(e) == Cardinality({f \in pel : f < e}) < ClaimCount

Claim(n, e) ==
    /\ runner[n] = "up" /\ ~Busy(<<n, "claim">>)
    /\ e \in pel /\ InFirst(e)
    /\ Begin(<<n, "claim">>, e)
    /\ UNCHANGED <<taskVars, runVars, streamVars, runnerVars, boundVars>>

-----------------------------------------------------------------------------
(***************************************************************************)
(* _process_coordinator_event.                                             *)
(***************************************************************************)
(* Mutant: no key is treated like no agent, acknowledged to avoid endless retries. *)
CannotLoadAcks(w) ==
    /\ At(w, "load") /\ evTask[ev[w]] \in Unkeyed
    /\ Goto(w, "ack")
    /\ UNCHANGED <<taskVars, runVars, streamVars, localVars, runnerVars, boundVars>>

(* The agent and its key are loaded; without a key this raises. *)
CannotLoad(w) ==
    /\ At(w, "load") /\ evTask[ev[w]] \in Unkeyed
    /\ Park({w})
    /\ UNCHANGED <<taskVars, runVars, streamVars, runnerVars, boundVars>>

Load(w) ==
    /\ At(w, "load") /\ evTask[ev[w]] \notin Unkeyed
    /\ Goto(w, "log")
    /\ UNCHANGED <<taskVars, runVars, streamVars, localVars, runnerVars, boundVars>>

(* The run's own log is a row for the task of the event.  All the loop reads, it
   reads from now on. *)
LogRun(w) ==
    /\ At(w, "log") /\ RoomForRun /\ Goto(w, "decide")
    /\ NewRun(evTask[ev[w]], "coordinator", "none")
    /\ log' = [log EXCEPT ![w] = nRuns + 1]
    /\ unseen' = unseen \ {evTask[ev[w]]}
    /\ UNCHANGED <<status, missed, halted, streamVars, task, new, want, seen, ev, turns,
                   runnerVars, boundVars>>

(* The INSERT raises (or the bound is reached): the run goes on without a log. *)
LogFails(w) ==
    /\ At(w, "log") /\ Goto(w, "decide")
    /\ Fault \/ (~RoomForRun /\ UNCHANGED faults)
    /\ unseen' = unseen \ {evTask[ev[w]]}
    /\ UNCHANGED <<status, missed, halted, runVars, streamVars, localVars, runnerVars, edits>>

(* Mutant: the loop does not count its calls. *)
TurnUncounted(w) == turns' = [turns EXCEPT ![w] = @ + 1]

(* hold and escalate change nothing modelled here. *)
Turn(w) == turns[w] < MaxTurns /\ turns' = [turns EXCEPT ![w] = @ + 1]

SameProject(w) == {t \in Tasks : t \in Unkeyed <=> evTask[ev[w]] \in Unkeyed}

(* _proceed, for one of its task ids. *)
Proceed(w, t) ==
    /\ At(w, "decide") /\ Turn(w) /\ RoomForRun
    /\ t \in SameProject(w) /\ status[t] \in {"TODO", "BACKLOG", "BLOCKED"}
    /\ Goto(w, IF status[t] = "TODO" THEN "check" ELSE "release")
    /\ task' = [task EXCEPT ![w] = t]
    /\ UNCHANGED <<taskVars, runVars, streamVars, new, want, seen, ev, log, runnerVars,
                   boundVars>>

(* By id, whatever the status is by now. *)
Release(w) ==
    /\ At(w, "release") /\ Goto(w, "check")
    /\ status' = [status EXCEPT ![task[w]] = "TODO"]
    /\ halted' = halted \ {task[w]}
    /\ UNCHANGED <<unseen, missed, runVars, streamVars, localVars, runnerVars, boundVars>>

(* _abort: one UPDATE over the board; logs and entries stay. *)
Abort(w) ==
    LET T == {t \in SameProject(w) : status[t] \in {"TODO", "IN_PROGRESS", "BACKLOG"}} IN
    /\ At(w, "decide") /\ Turn(w)
    /\ status' = [t \in Tasks |-> IF t \in T THEN "BLOCKED" ELSE status[t]]
    /\ halted' = halted \cup T
    /\ UNCHANGED <<unseen, missed, runVars, streamVars, pc, task, new, want, seen, ev, log,
                   runnerVars, boundVars>>

(* STOP of hold or abort, an answer without tools, or the tenth call. *)
Conclude(w) ==
    /\ At(w, "decide") /\ Goto(w, "finish")
    /\ UNCHANGED <<taskVars, runVars, streamVars, localVars, runnerVars, boundVars>>

CloseLog(w) ==
    /\ runLog' = [r \in Runs |-> IF r = log[w] THEN "over" ELSE runLog[r]]
    /\ UNCHANGED <<nRuns, runTask, runBy, stage, logLost>>

Finish(w) ==
    /\ At(w, "finish") /\ Goto(w, "ack")
    /\ CloseLog(w)
    /\ decided' = decided \cup {ev[w]}
    /\ UNCHANGED <<taskVars, nEvents, evTask, cursor, pel, localVars, runnerVars, boundVars>>

(* Mutant: the except clause does not raise again. *)
FailSwallowing(w) ==
    /\ At(w, "fail") /\ Goto(w, "ack")
    /\ CloseLog(w)
    /\ UNCHANGED <<taskVars, streamVars, localVars, runnerVars, boundVars>>

(* except: FAILED, and the exception goes on; the entry stays pending. *)
Fail(w) ==
    /\ At(w, "fail") /\ Park({w})
    /\ CloseLog(w)
    /\ UNCHANGED <<taskVars, streamVars, runnerVars, boundVars>>

Ack(w) ==
    /\ At(w, "ack") /\ Park({w})
    /\ pel' = pel \ {ev[w]}
    /\ UNCHANGED <<taskVars, runVars, nEvents, evTask, cursor, decided, runnerVars, boundVars>>

Raise(w) ==
    /\ Fault /\ pc[w] \in InTry /\ Goto(w, "fail")
    /\ UNCHANGED <<taskVars, runVars, streamVars, localVars, runnerVars, edits>>

GiveUp(w) ==
    /\ Fault /\ pc[w] \in {"load", "fail", "ack"} /\ Park({w})
    /\ logLost' = IF At(w, "fail") THEN logLost \cup ({log[w]} \ {0}) ELSE logLost
    /\ UNCHANGED <<taskVars, nRuns, runTask, runLog, runBy, stage, streamVars, runnerVars,
                   edits>>

-----------------------------------------------------------------------------
(***************************************************************************)
(* The runs of agents (module AgentRuns), and the runner processes.        *)
(***************************************************************************)
AgentStart(r) ==
    /\ stage[r] = "queued" /\ runTask[r] \notin Unkeyed
    /\ stage' = [stage EXCEPT ![r] = "run"]
    /\ status' = [status EXCEPT ![runTask[r]] = "IN_PROGRESS"]
    /\ UNCHANGED <<unseen, missed, halted, nRuns, runTask, runLog, runBy, logLost, streamVars,
                   procVars, runnerVars, boundVars>>

(* DONE, BLOCKED by a tool, or TODO after any other end. *)
AgentEnd(r, s) ==
    /\ stage[r] = "run"
    /\ stage' = [stage EXCEPT ![r] = "over"]
    /\ runLog' = [runLog EXCEPT ![r] = "over"]
    /\ status' = [status EXCEPT ![runTask[r]] =
                      IF s = "TODO" /\ @ # "IN_PROGRESS" THEN @ ELSE s]
    /\ UNCHANGED <<unseen, missed, halted, nRuns, runTask, runBy, logLost, streamVars, procVars,
                   runnerVars, boundVars>>

SetRunner(n, s) == runner' = [runner EXCEPT ![n] = s]
WorkersOf(n)    == {n} \X {"read", "claim"}

(* A crash, or a shutdown: CancelledError is no Exception, so a cancelled decision
   does not even close its log. *)
Down(n) ==
    /\ Fault /\ runner[n] # "down" /\ SetRunner(n, "down")
    /\ stale' = [stale EXCEPT ![n] = {}]
    /\ Park(WorkersOf(n))
    /\ UNCHANGED <<taskVars, runVars, streamVars, edits>>

(* XREADGROUP raises: the consumer ends, the process goes on without it. *)
ReadLoopDies(n) ==
    /\ Fault /\ runner[n] = "up" /\ ~Busy(<<n, "read">>) /\ SetRunner(n, "deaf")
    /\ Park({<<n, "claim">>})
    /\ UNCHANGED <<taskVars, runVars, streamVars, stale, edits>>

(* Mutant: the clean-up spares the logs of coordinators. *)
RunningOfAgents == {r \in Runs : runLog[r] = "RUNNING" /\ runBy[r] = "agent"}

(* _cleanup_stale_runs: it knows no difference between logs. *)
Running == {r \in Runs : runLog[r] = "RUNNING"}

Start(n) ==
    /\ runner[n] = "down" /\ SetRunner(n, "reverting")
    /\ runLog' = [r \in Runs |-> IF r \in Running THEN "over" ELSE runLog[r]]
    /\ stale' = [stale EXCEPT ![n] = {t \in Tasks : \E r \in Running : runTask[r] = t}]
    /\ UNCHANGED <<taskVars, nRuns, runTask, runBy, stage, logLost, streamVars, procVars, boundVars>>

Revert(n) ==
    /\ runner[n] = "reverting" /\ SetRunner(n, "up")
    /\ status' = [t \in Tasks |-> IF t \in stale[n] /\ status[t] = "IN_PROGRESS"
                                  THEN "TODO" ELSE status[t]]
    /\ stale' = [stale EXCEPT ![n] = {}]
    /\ UNCHANGED <<unseen, missed, halted, runVars, streamVars, procVars, boundVars>>

-----------------------------------------------------------------------------
DispatchStep(p) == Check(p) \/ CreateLog(p) \/ Xadd(p)

RequestStep(q) == Write(q) \/ Publish(q) \/ DispatchStep(q)

WorkerStep(w) ==
    \/ CannotLoad(w) \/ Load(w) \/ LogRun(w) \/ LogFails(w)
    \/ (\E t \in Tasks : Proceed(w, t)) \/ Release(w) \/ DispatchStep(w) \/ Abort(w)
    \/ Conclude(w) \/ Finish(w) \/ Fail(w) \/ Ack(w)

Next ==
    \/ \E q \in Requests :
          \/ \E t \in Tasks : Comment(q, t) \/ \E s \in Told \cup {"TODO"} : Update(q, t, s)
          \/ RequestStep(q) \/ RequestFails(q)
    \/ \E w \in Workers : WorkerStep(w) \/ Raise(w) \/ GiveUp(w)
    \/ \E n \in Runners :
          \/ Read(n) \/ \E e \in Events : Claim(n, e)
          \/ Down(n) \/ ReadLoopDies(n) \/ Start(n) \/ Revert(n)
    \/ \E r \in Runs : AgentStart(r) \/ \E s \in {"DONE", "BLOCKED", "TODO"} : AgentEnd(r, s)

Spec == Init /\ [][Next]_vars

(* Requests, workers and loops go on, the claim loop comes back to every entry in
   its window, the container is restarted.  People, agents and faults are not fair. *)
FairSpec ==
    /\ Spec
    /\ \A q \in Requests : WF_vars(RequestStep(q))
    /\ \A w \in Workers : WF_vars(WorkerStep(w))
    /\ \A n \in Runners : WF_vars(Read(n)) /\ WF_vars(Start(n) \/ Revert(n))
    /\ \A n \in Runners, e \in Events : SF_vars(Claim(n, e))

-----------------------------------------------------------------------------
Acked == (1..cursor) \ pel

(* An event is acknowledged only after a run about it came to its end, however
   often it was cut or claimed by another worker meanwhile: what the queue below says of
   Complete, and an invariant the proofs rest on. *)
AckedWasDecided == Acked \subseteq decided

(* The stream coordinator-events implements the abstract job queue: an event is delivered
   again only until it is acknowledged, and acknowledged only after a run about it came to
   its end, by a worker that holds it, whatever crashes or claims come between. *)
Queue == INSTANCE JobQueue WITH
    Jobs <- Events, Agents <- Workers, Exclusive <- FALSE,
    added <- nEvents, delivered <- cursor,
    holders <- [e \in Events |-> {w \in Workers : ev[w] = e}],
    carried <- decided, done <- Acked

QueueSpec == Queue!Spec

(* An event nobody has begun to decide about since it was published or retried. *)
Waiting(e) == e \notin Acked /\ \A w \in Workers : ev[w] = e => pc[w] \in {"load", "log"}

(* What a person finishes, blocks or answers is looked at by a run that begins
   after it was written: the event is on its way or waits, also when an earlier
   event of the task is being decided on an older board. *)
FinishedIsConsidered ==
    \A t \in unseen :
        \/ t \in missed
        \/ \E q \in Requests : At(q, "notify") /\ task[q] = t
        \/ \E e \in 1..nEvents : evTask[e] = t /\ Waiting(e)

Deaf   == \E n \in Runners : runner[n] = "deaf"
Poison == {e \in pel : evTask[e] \in Unkeyed}

(* And the look comes, unless the consumer is dead or events without a key fill
   the window of the claim loop. *)
EventsAreConsidered ==
    \A t \in Tasks \ Unkeyed :
        t \in unseen ~> (t \notin unseen \/ t \in missed \/ Deaf
                         \/ Cardinality(Poison) >= ClaimCount)

(* The log of a decision does not say RUNNING for ever (it would keep its task
   from being dispatched): the run closes it, or the next start of a runner. *)
DecisionLogsSettle ==
    \A r \in Runs : (runLog[r] = "RUNNING" /\ runBy[r] = "coordinator")
        ~> (runLog[r] # "RUNNING" \/ r \in logLost \/ Deaf)

(* proceed "Sets task status to TODO and pushes to `agent-runs` stream"
   (coordinator-agent-design.md:109): it passes over a task only for a run of its
   agent. *)
OnlyAgentsOccupy ==
    \A w \in Workers : At(w, "check") /\ RunningOf(task[w]) # {} =>
        \E r \in RunningOf(task[w]) : runBy[r] = "agent"

(* abort "Stops all work on the project [...] Reversible only by manual human
   intervention on the board" (coordinator-agent-design.md:121). *)
AbortStopsWork == [][\A t \in halted \cap halted' : status'[t] = "BLOCKED"]_vars
=============================================================================
