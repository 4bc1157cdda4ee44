------------------------------ MODULE AgentRuns ------------------------------
(***************************************************************************)
(* The life of an agent run, from the API request that creates its log to  *)
(* the acknowledgement of its stream entry: AgentRunnerService in the API, *)
(* the Redis stream "agent-runs" with its consumer group, and the runner   *)
(* processes (main.py, processor.py) that execute the agentic loop.        *)
(*                                                                         *)
(* Every database statement, every Redis command and every LLM or tool     *)
(* call of the code is a step of its own, because each is an await at      *)
(* which requests, workers and runners interleave.  What an LLM says, what *)
(* a tool returns and all texts are abstracted to the choice among the     *)
(* branches the loop distinguishes.                                        *)
(***************************************************************************)
EXTENDS Integers, FiniteSets

CONSTANTS
    Tasks,       \* rows of table Task
    Null,        \* "no task" in the log of a run not created yet
    Requests,    \* API requests that may be in flight at the same time
    Runners,     \* runner processes (RUNNER_INSTANCE)
    MaxRuns,     \* bound: rows of table AgentRunLog
    MaxEntries,  \* bound: entries added to the stream
    MaxIter,     \* Agent.maxIterations
    ClaimCount,  \* processor.py: count=10 of XPENDING
    MaxFaults,   \* bound: exceptions, crashes, signals
    HandStatus,  \* statuses people and agents move tasks to by hand
    MaxEdits,    \* bound: how often they do
    LongJobs,    \* may a job outlive CLAIM_IDLE_MS (30 s) ?
    Unrunnable   \* tasks whose agent, provider key or row is missing

ASSUME ConstantsAssumption ==
    /\ Null \notin Tasks
    /\ MaxRuns \in Nat /\ MaxEntries \in Nat /\ MaxIter \in Nat
    /\ ClaimCount \in Nat \ {0}
    /\ MaxFaults \in Nat /\ MaxEdits \in Nat
    /\ HandStatus \subseteq {"BACKLOG", "TODO", "IN_PROGRESS", "BLOCKED", "DONE"}
    /\ LongJobs \in BOOLEAN
    /\ Unrunnable \subseteq Tasks

Runs    == 1..MaxRuns
Entries == 1..MaxEntries
Workers == Runners \X {"read", "claim"}

Status      == {"BACKLOG", "TODO", "IN_PROGRESS", "BLOCKED", "DONE"}
Outcome     == {"COMPLETED", "STOPPED", "FAILED", "MAX_ITERATIONS"}
RunStatus   == {"none", "RUNNING"} \cup Outcome
Wakeable    == {"FAILED", "STOPPED", "MAX_ITERATIONS"}
RequestPC   == {"idle", "stop", "restart", "create", "xadd", "wake", "xaddWake"}
RunnerState == {"down", "reverting", "up", "stopping", "closing", "deaf"}
InTry       == {"poll", "llm", "tools", "early"}
WorkerPC    == {"idle", "mark", "resume"} \cup InTry \cup {"save", "sync", "ack"}

VARIABLES
    (* table Task *)
    taskStatus,  \* Task.status
    marked,      \* ghost: IN_PROGRESS was written by a run, not by a person
    syncLost,    \* ghost: a task sync failed, or was cut and nobody will repeat the job
    (* table AgentRunLog *)
    nRuns,       \* rows created so far; row ids are in order of startedAt
    logTask, logStatus, logIter,
    logSaved,    \* iterations contained in the saved messages, 0 for []
    orphan,      \* ghost: the request died between writing the log and XADD
    saveLost,    \* ghost: the last save of the log failed
    (* Redis stream agent-runs *)
    nEntries,    \* entries added
    entRun, entWake,
    cursor,      \* last-delivered-id of the consumer group
    pel,         \* pending entries list: delivered and not acknowledged
    handled,     \* ghost: entries whose _process_job returned normally
    (* API requests *)
    rpc, rrun, rtask,
    (* runner processes and their two workers each *)
    runner,
    stale,       \* task ids returned by the clean-up's first statement
    wpc, wjob,
    witer,
    wfinal, wraised,
    (* bounds *)
    faults, edits

taskVars    == <<taskStatus, marked, syncLost>>
logVars     == <<nRuns, logTask, logStatus, logIter, logSaved, orphan, saveLost>>
streamVars  == <<nEntries, entRun, entWake, cursor, pel, handled>>
requestVars == <<rpc, rrun, rtask>>
runnerVars  == <<runner, stale>>
workerVars  == <<wpc, wjob, witer, wfinal, wraised>>
boundVars   == <<faults, edits>>
vars == <<taskVars, logVars, streamVars, requestVars, runnerVars, workerVars, boundVars>>

TaskType ==
    /\ taskStatus \in [Tasks -> Status]
    /\ marked \in [Tasks -> BOOLEAN]
    /\ syncLost \in [Tasks -> BOOLEAN]

LogType ==
    /\ nRuns \in 0..MaxRuns
    /\ logTask \in [Runs -> Tasks \cup {Null}]
    /\ logStatus \in [Runs -> RunStatus]
    /\ logIter \in [Runs -> 0..MaxIter]
    /\ logSaved \in [Runs -> 0..MaxIter]
    /\ orphan \in [Runs -> BOOLEAN]
    /\ saveLost \in [Runs -> BOOLEAN]

StreamType ==
    /\ nEntries \in 0..MaxEntries
    /\ entRun \in [Entries -> 0..MaxRuns]
    /\ entWake \in [Entries -> BOOLEAN]
    /\ cursor \in 0..nEntries
    /\ pel \subseteq Entries
    /\ handled \subseteq Entries

RequestType ==
    /\ rpc \in [Requests -> RequestPC]
    /\ rrun \in [Requests -> 0..MaxRuns]
    /\ rtask \in [Requests -> Tasks \cup {Null}]

RunnerType ==
    /\ runner \in [Runners -> RunnerState]
    /\ stale \in [Runners -> SUBSET Tasks]

WorkerType ==
    /\ wpc \in [Workers -> WorkerPC]
    /\ wjob \in [Workers -> 0..MaxEntries]
    /\ witer \in [Workers -> 0..MaxIter]
    /\ wfinal \in [Workers -> Outcome]
    /\ wraised \in [Workers -> BOOLEAN]

BoundType == faults \in 0..MaxFaults /\ edits \in 0..MaxEdits

TypeOK ==
    /\ TaskType /\ LogType /\ StreamType /\ RequestType
    /\ RunnerType /\ WorkerType /\ BoundType

Init ==
    /\ taskStatus = [t \in Tasks |-> "TODO"]
    /\ marked = [t \in Tasks |-> FALSE]
    /\ syncLost = [t \in Tasks |-> FALSE]
    /\ nRuns = 0
    /\ logTask = [r \in Runs |-> Null]
    /\ logStatus = [r \in Runs |-> "none"]
    /\ logIter = [r \in Runs |-> 0]
    /\ logSaved = [r \in Runs |-> 0]
    /\ orphan = [r \in Runs |-> FALSE]
    /\ saveLost = [r \in Runs |-> FALSE]
    /\ nEntries = 0
    /\ entRun = [e \in Entries |-> 0]
    /\ entWake = [e \in Entries |-> FALSE]
    /\ cursor = 0
    /\ pel = {}
    /\ handled = {}
    /\ rpc = [q \in Requests |-> "idle"]
    /\ rrun = [q \in Requests |-> 0]
    /\ rtask = [q \in Requests |-> Null]
    /\ runner = [n \in Runners |-> "up"]
    /\ stale = [n \in Runners |-> {}]
    /\ wpc = [w \in Workers |-> "idle"]
    /\ wjob = [w \in Workers |-> 0]
    /\ witer = [w \in Workers |-> 0]
    /\ wfinal = [w \in Workers |-> "COMPLETED"]
    /\ wraised = [w \in Workers |-> FALSE]
    /\ faults = 0
    /\ edits = 0

-----------------------------------------------------------------------------
(***************************************************************************)
(* AgentRunnerService (API).  enqueue, stop and wake each read, write the  *)
(* log row and (enqueue, wake) add to the stream in separate awaits; a     *)
(* request may die between any two of them.                                *)
(***************************************************************************)
SetStatus(r, s) == logStatus' = [logStatus EXCEPT ![r] = s]

RunningOf(t) == {r \in 1..nRuns : logTask[r] = t /\ logStatus[r] = "RUNNING"}

Latest(S) == {r \in S : \A s \in S : s <= r}

Goto(q, pc, r, t) ==
    /\ rpc'   = [rpc EXCEPT ![q] = pc]
    /\ rrun'  = [rrun EXCEPT ![q] = r]
    /\ rtask' = [rtask EXCEPT ![q] = t]

Done(q) == Goto(q, "idle", 0, Null)

(* The bounds: a request only begins when its row and its entry will fit. *)
Posting == {q \in Requests : rpc[q] \notin {"idle", "stop"}}
Creating == {q \in Requests : rpc[q] \in {"restart", "create"}}
RoomForEntry == nEntries + Cardinality(Posting) < MaxEntries
RoomForRun   == nRuns + Cardinality(Creating) < MaxRuns

(* stop(): findFirst RUNNING, latest first; a task without one is left alone. *)
Stop(q, t) ==
    /\ rpc[q] = "idle"
    /\ \E r \in Latest(RunningOf(t)) : Goto(q, "stop", r, t)
    /\ UNCHANGED <<taskVars, logVars, streamVars, runnerVars, workerVars, boundVars>>

(* stop(), second statement: the update is by id, whatever the row says by now. *)
StopWrite(q) ==
    /\ rpc[q] \in {"stop", "restart"}
    /\ SetStatus(rrun[q], "STOPPED")
    /\ IF rpc[q] = "stop" THEN Done(q) ELSE Goto(q, "create", 0, rtask[q])
    /\ UNCHANGED <<taskVars, nRuns, logTask, logIter, logSaved, orphan, saveLost,
                   streamVars, runnerVars, workerVars, boundVars>>

(* triggerRun and a person's comment: stop() a RUNNING log and then enqueue(). *)
Restart(q, t) ==
    /\ rpc[q] = "idle" /\ RoomForEntry /\ RoomForRun
    /\ \E r \in Latest(RunningOf(t)) : Goto(q, "restart", r, t)
    /\ UNCHANGED <<taskVars, logVars, streamVars, runnerVars, workerVars, boundVars>>

(* enqueue(), agentRunLog.create: after the stop, or for a handler that only
   enqueues. *)
MayEnqueue(q, t) ==
    \/ rpc[q] = "idle" /\ RoomForEntry /\ RoomForRun
    \/ rpc[q] = "create" /\ rtask[q] = t

Enqueue(q, t) ==
    /\ MayEnqueue(q, t) /\ nRuns < MaxRuns
    /\ nRuns' = nRuns + 1
    /\ SetStatus(nRuns + 1, "RUNNING")
    /\ logTask' = [logTask EXCEPT ![nRuns + 1] = t]
    /\ Goto(q, "xadd", nRuns + 1, t)
    /\ UNCHANGED <<taskVars, logIter, logSaved, orphan, saveLost, streamVars, runnerVars,
                   workerVars, boundVars>>

(* enqueue() and wake(), redis.xadd: the entry carries runLogId and wake. *)
Xadd(q) ==
    /\ rpc[q] \in {"xadd", "xaddWake"} /\ nEntries < MaxEntries
    /\ nEntries' = nEntries + 1
    /\ entRun'  = [entRun EXCEPT ![nEntries + 1] = rrun[q]]
    /\ entWake' = [entWake EXCEPT ![nEntries + 1] = (rpc[q] = "xaddWake")]
    /\ orphan'  = [orphan EXCEPT ![rrun[q]] = FALSE]
    /\ Done(q)
    /\ UNCHANGED <<taskVars, nRuns, logTask, logStatus, logIter, logSaved, saveLost, cursor, pel,
                   handled, runnerVars, workerVars, boundVars>>

(* wake(): findUnique and the check of wakeableStatuses. *)
Wake(q, r) ==
    /\ rpc[q] = "idle" /\ RoomForEntry
    /\ r <= nRuns /\ logStatus[r] \in Wakeable
    /\ Goto(q, "wake", r, logTask[r])
    /\ UNCHANGED <<taskVars, logVars, streamVars, runnerVars, workerVars, boundVars>>

(* wake(): the update to RUNNING, by id. *)
WakeWrite(q) ==
    /\ rpc[q] = "wake"
    /\ SetStatus(rrun[q], "RUNNING")
    /\ Goto(q, "xaddWake", rrun[q], rtask[q])
    /\ UNCHANGED <<taskVars, nRuns, logTask, logIter, logSaved, orphan, saveLost,
                   streamVars, runnerVars, workerVars, boundVars>>

(* The request dies: the API process stops, or the awaited call rejects. *)
RequestFails(q) ==
    /\ rpc[q] # "idle" /\ faults < MaxFaults
    /\ orphan' = [r \in Runs |->
                     orphan[r] \/ (r = rrun[q] /\ rpc[q] \in {"xadd", "xaddWake"})]
    /\ Done(q)
    /\ faults' = faults + 1
    /\ UNCHANGED <<taskVars, nRuns, logTask, logStatus, logIter, logSaved, saveLost, streamVars,
                   runnerVars, workerVars, edits>>

(* A person (update) or an agent (tool update_task) moves a task by hand. *)
EditTask(t, s) ==
    /\ edits < MaxEdits /\ taskStatus[t] # s
    /\ edits' = edits + 1
    /\ taskStatus' = [taskStatus EXCEPT ![t] = s]
    /\ marked' = [marked EXCEPT ![t] = FALSE]
    /\ UNCHANGED <<syncLost, logVars, streamVars, requestVars, runnerVars, workerVars, faults>>

-----------------------------------------------------------------------------
(***************************************************************************)
(* Taking a job: the read loop and the claim loop of one runner.           *)
(***************************************************************************)
RunOf(w)  == entRun[wjob[w]]
TaskOf(w) == logTask[RunOf(w)]
Busy(w)   == wpc[w] # "idle"

Begin(w, e) ==
    /\ wpc'  = [wpc EXCEPT ![w] = "mark"]
    /\ wjob' = [wjob EXCEPT ![w] = e]
    /\ UNCHANGED <<witer, wfinal, wraised>>

(* The worker is between two jobs again; its locals are forgotten. *)
Park(S) ==
    /\ wpc'     = [w \in Workers |-> IF w \in S THEN "idle" ELSE wpc[w]]
    /\ wjob'    = [w \in Workers |-> IF w \in S THEN 0 ELSE wjob[w]]
    /\ witer'   = [w \in Workers |-> IF w \in S THEN 0 ELSE witer[w]]
    /\ wfinal'  = [w \in Workers |-> IF w \in S THEN "COMPLETED" ELSE wfinal[w]]

(* _read_loop: XREADGROUP ">" COUNT 1 delivers the next entry of the stream. *)
Read(n) ==
    LET w == <<n, "read">> IN
    /\ runner[n] = "up" /\ ~Busy(w)
    /\ cursor < nEntries
    /\ cursor' = cursor + 1
    /\ pel' = pel \cup {cursor + 1}
    /\ Begin(w, cursor + 1)
    /\ UNCHANGED <<taskVars, logVars, nEntries, entRun, entWake, handled, requestVars,
                   runnerVars, boundVars>>

(***************************************************************************)
(* _claim_loop: an entry among the first ClaimCount of the PEL, idle for   *)
(* 30 s, whoever holds it.  XCLAIM checks the idle time and the membership *)
(* again, and entries only ever join the PEL at its end, so the XPENDING   *)
(* snapshot adds nothing to what the XCLAIM instant allows.  Time is not   *)
(* modelled: with LongJobs the entry of a job in progress may have become  *)
(* idle, without it only entries nobody works on have.                     *)
(***************************************************************************)
(* Mutant: the range of XPENDING excludes its start. *)
InFirstExclusive(e) == Cardinality({f \in pel : f < e}) \in 1..ClaimCount

InFirst(e) == Cardinality({f \in pel : f < e}) < ClaimCount

(* Mutant: the idle time is not checked. *)
ClaimAnything(n, e) ==
    LET w == <<n, "claim">> IN
    /\ runner[n] \in {"up", "stopping"} /\ ~Busy(w)
    /\ e \in pel /\ InFirst(e)
    /\ Begin(w, e)
    /\ UNCHANGED <<taskVars, logVars, streamVars, requestVars, runnerVars, boundVars>>

Claim(n, e) ==
    LET w == <<n, "claim">> IN
    /\ runner[n] \in {"up", "stopping"} /\ ~Busy(w)
    /\ e \in pel /\ InFirst(e)
    /\ LongJobs \/ \A v \in Workers : wjob[v] # e
    /\ Begin(w, e)
    /\ UNCHANGED <<taskVars, logVars, streamVars, requestVars, runnerVars, boundVars>>

-----------------------------------------------------------------------------
(***************************************************************************)
(* _process_job, from the first query to the finally block.                *)
(***************************************************************************)
At(w, pc) == wpc[w] = pc
Move(w, pc) == wpc' = [wpc EXCEPT ![w] = pc]
NotWorkers == <<requestVars, runnerVars, faults>>

(* Agent, key or task is not found, outside the try: the exception leaves the log
   RUNNING and the entry pending, for the next claim to fail in the same way. *)
CannotLoad(w) ==
    /\ At(w, "mark") /\ TaskOf(w) \in Unrunnable
    /\ Park({w})
    /\ UNCHANGED <<taskVars, logVars, streamVars, NotWorkers, edits, wraised>>

(* All is loaded; then the task becomes IN_PROGRESS, whatever its status. *)
Mark(w) ==
    /\ At(w, "mark") /\ TaskOf(w) \notin Unrunnable /\ Move(w, "resume")
    /\ taskStatus' = [taskStatus EXCEPT ![TaskOf(w)] = "IN_PROGRESS"]
    /\ marked'     = [marked EXCEPT ![TaskOf(w)] = TRUE]
    /\ syncLost'   = [syncLost EXCEPT ![TaskOf(w)] = FALSE]
    /\ UNCHANGED <<logVars, streamVars, NotWorkers, edits, wjob, witer, wfinal, wraised>>

(* A wake job with saved messages resumes; every other job starts from scratch. *)
Resumes(w) == entWake[wjob[w]] /\ logSaved[RunOf(w)] > 0

LoadSaved(w) ==
    /\ At(w, "resume") /\ Move(w, "poll")
    /\ witer' = [witer EXCEPT ![w] = IF Resumes(w) THEN logIter[RunOf(w)] ELSE 0]
    /\ wfinal' = [wfinal EXCEPT ![w] = "COMPLETED"]
    /\ UNCHANGED <<taskVars, logVars, streamVars, NotWorkers, edits, wjob, wraised>>

Finish(w, pc, outcome) ==
    /\ Move(w, pc)
    /\ wfinal' = [wfinal EXCEPT ![w] = outcome]

(* The while condition and, inside, the poll of the stop signal. *)
OutOfIterations(w) ==
    /\ At(w, "poll") /\ witer[w] >= MaxIter
    /\ Finish(w, "save", "MAX_ITERATIONS")
    /\ UNCHANGED <<taskVars, logVars, streamVars, NotWorkers, edits, wjob, witer, wraised>>

SeesStop(w) == logStatus[RunOf(w)] = "STOPPED"

PollStopped(w) ==
    /\ At(w, "poll") /\ witer[w] < MaxIter /\ SeesStop(w)
    /\ Finish(w, "save", "STOPPED")
    /\ UNCHANGED <<taskVars, logVars, streamVars, NotWorkers, edits, wjob, witer, wraised>>

(* Mutant: the loop is not bounded. *)
PollGoesOnForEver(w) ==
    /\ At(w, "poll") /\ ~SeesStop(w)
    /\ Move(w, "llm")
    /\ witer' = [witer EXCEPT ![w] = @ + 1]
    /\ UNCHANGED <<taskVars, logVars, streamVars, NotWorkers, edits, wjob, wfinal, wraised>>

PollGoesOn(w) ==
    /\ At(w, "poll") /\ witer[w] < MaxIter /\ ~SeesStop(w)
    /\ Move(w, "llm")
    /\ witer' = [witer EXCEPT ![w] = @ + 1]
    /\ UNCHANGED <<taskVars, logVars, streamVars, NotWorkers, edits, wjob, wfinal, wraised>>

(* call_llm answers without tool calls: the run is complete. *)
TextReply(w) ==
    /\ At(w, "llm") /\ Finish(w, "save", "COMPLETED")
    /\ UNCHANGED <<taskVars, logVars, streamVars, NotWorkers, edits, wjob, witer, wraised>>

(* call_llm answers with tool calls; those that only read, or write elsewhere
   (comments, other tasks: EditTask), leave this state as it is. *)
ToolSets(w, s) ==
    /\ wpc[w] \in {"llm", "tools"}
    /\ taskStatus' = [taskStatus EXCEPT ![TaskOf(w)] = s]
    /\ marked'     = [marked EXCEPT ![TaskOf(w)] = FALSE]
    /\ UNCHANGED <<syncLost, logVars, streamVars, NotWorkers, edits, wjob, witer, wraised>>

(* Tools complete_task and block_task end the loop; request_human_input does not. *)
CompleteTask(w) == ToolSets(w, "DONE") /\ Finish(w, "early", "COMPLETED")
BlockTask(w)    == ToolSets(w, "BLOCKED") /\ Finish(w, "early", "FAILED")
RequestHumanInput(w) ==
    ToolSets(w, "BLOCKED") /\ Move(w, "tools") /\ UNCHANGED wfinal

(* _save_run_log: one UPDATE of status, iterations and messages ([] by default). *)
SaveRunLog(w, status, saved) ==
    /\ logStatus' = [logStatus EXCEPT ![RunOf(w)] = status]
    /\ logIter'   = [logIter EXCEPT ![RunOf(w)] = witer[w]]
    /\ logSaved'  = [logSaved EXCEPT ![RunOf(w)] = saved]
    /\ saveLost'  = [saveLost EXCEPT ![RunOf(w)] = FALSE]
    /\ UNCHANGED <<nRuns, logTask, orphan>>

(* All tool calls are executed, the messages hold every iteration: the flush. *)
Flush(w) ==
    /\ wpc[w] \in {"llm", "tools"} /\ Move(w, "poll")
    /\ SaveRunLog(w, "RUNNING", witer[w])
    /\ UNCHANGED <<taskVars, streamVars, NotWorkers, edits, wjob, witer, wfinal, wraised>>

(* The save before `return` after complete_task or block_task. *)
EarlySave(w) ==
    /\ At(w, "early") /\ Move(w, "save")
    /\ SaveRunLog(w, wfinal[w], 0)
    /\ UNCHANGED <<taskVars, streamVars, NotWorkers, edits, wjob, witer, wfinal, wraised>>

(* Mutant: the finally block leaves the log to the other saves. *)
FinalSaveAfterRaise(w) ==
    /\ At(w, "save") /\ Move(w, "sync")
    /\ IF wraised[w] THEN SaveRunLog(w, wfinal[w], 0) ELSE UNCHANGED logVars
    /\ UNCHANGED <<taskVars, streamVars, NotWorkers, edits, wjob, witer, wfinal, wraised>>

(* finally: the save, then the task's status follows the outcome. *)
FinalSave(w) ==
    /\ At(w, "save") /\ Move(w, "sync")
    /\ SaveRunLog(w, wfinal[w], 0)
    /\ UNCHANGED <<taskVars, streamVars, NotWorkers, edits, wjob, witer, wfinal, wraised>>

(* Mutant: a stopped run leaves its task where it is. *)
AfterRunNotStopped(w) ==
    IF wfinal[w] = "COMPLETED" THEN "DONE"
    ELSE IF wfinal[w] # "STOPPED" /\ taskStatus[TaskOf(w)] = "IN_PROGRESS" THEN "TODO"
    ELSE taskStatus[TaskOf(w)]

AfterRun(w) ==
    IF wfinal[w] = "COMPLETED" THEN "DONE"
    ELSE IF taskStatus[TaskOf(w)] = "IN_PROGRESS" THEN "TODO"
    ELSE taskStatus[TaskOf(w)]

(* _process_job is over: normally (the entry can be acknowledged) or raising. *)
Return(w) ==
    IF wraised[w]
    THEN /\ Park({w})
         /\ wraised' = [wraised EXCEPT ![w] = FALSE]
         /\ UNCHANGED handled
    ELSE /\ Move(w, "ack")
         /\ handled' = handled \cup {wjob[w]}
         /\ UNCHANGED <<wjob, witer, wfinal, wraised>>

Sync(w) ==
    /\ At(w, "sync") /\ Return(w)
    /\ taskStatus' = [taskStatus EXCEPT ![TaskOf(w)] = AfterRun(w)]
    /\ marked'     = [marked EXCEPT ![TaskOf(w)] = @ /\ AfterRun(w) = "IN_PROGRESS"]
    /\ UNCHANGED <<syncLost, logVars, nEntries, entRun, entWake, cursor, pel,
                   NotWorkers, edits>>

(* XACK: with a second delivery the entry may have left the PEL already. *)
Ack(w) ==
    /\ At(w, "ack")
    /\ pel' = pel \ {wjob[w]}
    /\ Park({w})
    /\ UNCHANGED <<taskVars, logVars, nEntries, entRun, entWake, cursor, handled,
                   NotWorkers, edits, wraised>>

JobStep(w) ==
    \/ CannotLoad(w) \/ Mark(w) \/ LoadSaved(w)
    \/ OutOfIterations(w) \/ PollStopped(w) \/ PollGoesOn(w)
    \/ TextReply(w) \/ CompleteTask(w) \/ BlockTask(w)
    \/ Flush(w) \/ EarlySave(w) \/ FinalSave(w) \/ Sync(w) \/ Ack(w)

-----------------------------------------------------------------------------
(***************************************************************************)
(* What goes wrong inside a job: an exception at any await.  Before the    *)
(* try it leaves everything as it is; inside it the except clause sets     *)
(* FAILED and the finally block runs; in the finally block the save may    *)
(* fail (and raise) or the task sync may (and is swallowed); XACK may fail.*)
(***************************************************************************)
Fault == faults < MaxFaults /\ faults' = faults + 1

(* Executions with their task sync before them; the entry of one may be acknowledged
   already, or about to be, by another worker that claimed it (LongJobs). *)
Syncing(w)  == wpc[w] \in {"resume", "save", "sync"} \cup InTry
LastOne(w, S) ==
    wjob[w] \notin pel \/ \E v \in Workers \ S : wjob[v] = wjob[w] /\ At(v, "ack")

(* The workers in S are cut. *)
LoseSyncs(S) ==
    syncLost' = [t \in Tasks |->
        syncLost[t] \/ \E w \in S : Syncing(w) /\ TaskOf(w) = t /\ LastOne(w, S)]

Raise(w) ==
    /\ Fault /\ wpc[w] \in InTry
    /\ Finish(w, "save", "FAILED")
    /\ wraised' = [wraised EXCEPT ![w] = TRUE]
    /\ UNCHANGED <<taskVars, logVars, streamVars, requestVars, runnerVars, edits,
                   wjob, witer>>

GiveUp(w) ==
    /\ Fault /\ wpc[w] \in {"mark", "resume", "save", "ack"}
    /\ Park({w}) /\ LoseSyncs({w})
    /\ wraised' = [wraised EXCEPT ![w] = FALSE]
    /\ saveLost' = [r \in Runs |-> saveLost[r] \/ (At(w, "save") /\ r = RunOf(w))]
    /\ UNCHANGED <<taskStatus, marked, nRuns, logTask, logStatus, logIter, logSaved, orphan,
                   streamVars, requestVars, runnerVars, edits>>

SyncFails(w) ==
    /\ Fault /\ At(w, "sync") /\ Return(w)
    /\ syncLost' = [syncLost EXCEPT ![TaskOf(w)] = TRUE]
    /\ UNCHANGED <<taskStatus, marked, logVars, nEntries, entRun, entWake, cursor, pel,
                   requestVars, runnerVars, edits>>

-----------------------------------------------------------------------------
(***************************************************************************)
(* The runner process (main.py): start with the clean-up of stale runs,    *)
(* shutdown by signal, crash, and the end of the consumer task when        *)
(* XREADGROUP itself raises (main only waits for the signal).              *)
(***************************************************************************)
WorkersOf(n) == {n} \X {"read", "claim"}

(* task.cancel(): CancelledError is no Exception, so a job inside the try only
   runs its finally block, with final_status as it stands; any other is cut. *)
Cancel(S) ==
    LET finalises(w) == w \in S /\ wpc[w] \in InTry
        cut(w)       == w \in S /\ wpc[w] \notin InTry
    IN  /\ wpc'     = [w \in Workers |-> IF finalises(w) THEN "save"
                                          ELSE IF cut(w) THEN "idle" ELSE wpc[w]]
        /\ wraised' = [w \in Workers |-> IF finalises(w) THEN TRUE
                                          ELSE IF cut(w) THEN FALSE ELSE wraised[w]]
        /\ wjob'    = [w \in Workers |-> IF cut(w) THEN 0 ELSE wjob[w]]
        /\ witer'   = [w \in Workers |-> IF cut(w) THEN 0 ELSE witer[w]]
        /\ wfinal'  = [w \in Workers |-> IF cut(w) THEN "COMPLETED" ELSE wfinal[w]]
        /\ LoseSyncs({w \in S : wpc[w] \notin InTry})

SetRunner(n, s) == runner' = [runner EXCEPT ![n] = s]
NotRunners == <<taskStatus, marked, logVars, streamVars, requestVars, edits>>

(* SIGTERM: main cancels the consumer task, hence the read loop. *)
Sigterm(n) ==
    /\ Fault /\ runner[n] \in {"up", "deaf"}
    /\ IF runner[n] = "up"
       THEN SetRunner(n, "stopping") /\ Cancel({<<n, "read">>})
       ELSE SetRunner(n, "closing") /\ UNCHANGED <<workerVars, syncLost>>
    /\ UNCHANGED <<NotRunners, stale>>

(* run_consumer's finally: the claim loop is cancelled, and not awaited. *)
CancelClaim(n) ==
    /\ runner[n] = "stopping" /\ ~Busy(<<n, "read">>)
    /\ SetRunner(n, "closing")
    /\ Cancel({<<n, "claim">>})
    /\ UNCHANGED <<NotRunners, stale, faults>>

(* asyncpg's pool is closed and the loop ends, wherever the claim worker is. *)
Exit(n) ==
    /\ runner[n] = "closing"
    /\ SetRunner(n, "down")
    /\ Park(WorkersOf(n)) /\ LoseSyncs(WorkersOf(n))
    /\ wraised' = [w \in Workers |-> IF w \in WorkersOf(n) THEN FALSE ELSE wraised[w]]
    /\ UNCHANGED <<NotRunners, stale, faults>>

Crash(n) ==
    /\ Fault /\ runner[n] # "down"
    /\ SetRunner(n, "down")
    /\ stale' = [stale EXCEPT ![n] = {}]
    /\ Park(WorkersOf(n)) /\ LoseSyncs(WorkersOf(n))
    /\ wraised' = [w \in Workers |-> IF w \in WorkersOf(n) THEN FALSE ELSE wraised[w]]
    /\ UNCHANGED NotRunners

(* XREADGROUP raises: run_consumer ends and cancels the claim loop. *)
ReadLoopDies(n) ==
    /\ Fault /\ runner[n] = "up" /\ ~Busy(<<n, "read">>)
    /\ SetRunner(n, "deaf")
    /\ Cancel({<<n, "claim">>})
    /\ UNCHANGED <<NotRunners, stale>>

(* Mutant: the clean-up finds nothing. *)
NothingRunning == {}

(* _cleanup_stale_runs: every RUNNING log fails, whoever runs it. *)
Running == {r \in Runs : logStatus[r] = "RUNNING"}

Start(n) ==
    /\ runner[n] = "down"
    /\ SetRunner(n, "reverting")
    /\ logStatus' = [r \in Runs |-> IF r \in Running THEN "FAILED" ELSE logStatus[r]]
    /\ stale' = [stale EXCEPT ![n] = {t \in Tasks : \E r \in Running : logTask[r] = t}]
    /\ UNCHANGED <<taskVars, nRuns, logTask, logIter, logSaved, orphan, saveLost, streamVars,
                   requestVars, workerVars, boundVars>>

(* Its second statement: the tasks of those logs that are IN_PROGRESS go to TODO. *)
Reverted(n) == {t \in stale[n] : taskStatus[t] = "IN_PROGRESS"}

Revert(n) ==
    /\ runner[n] = "reverting"
    /\ SetRunner(n, "up")
    /\ taskStatus' = [t \in Tasks |-> IF t \in Reverted(n) THEN "TODO" ELSE taskStatus[t]]
    /\ marked' = [t \in Tasks |-> marked[t] /\ t \notin Reverted(n)]
    /\ stale' = [stale EXCEPT ![n] = {}]
    /\ UNCHANGED <<syncLost, logVars, streamVars, requestVars, workerVars, boundVars>>

-----------------------------------------------------------------------------
Request(q) ==
    \/ \E t \in Tasks : Stop(q, t) \/ Restart(q, t) \/ Enqueue(q, t)
    \/ \E r \in Runs : Wake(q, r)
    \/ StopWrite(q) \/ Xadd(q) \/ WakeWrite(q) \/ RequestFails(q)

Work(w) == JobStep(w) \/ RequestHumanInput(w) \/ Raise(w) \/ GiveUp(w) \/ SyncFails(w)

Process(n) ==
    \/ Read(n) \/ \E e \in Entries : Claim(n, e)
    \/ Sigterm(n) \/ CancelClaim(n) \/ Exit(n) \/ Crash(n) \/ ReadLoopDies(n)
    \/ Start(n) \/ Revert(n)

Next ==
    \/ \E q \in Requests : Request(q)
    \/ \E t \in Tasks, s \in HandStatus : EditTask(t, s)
    \/ \E w \in Workers : Work(w)
    \/ \E n \in Runners : Process(n)

Spec == Init /\ [][Next]_vars

(***************************************************************************)
(* Fairness: the event loop keeps running whatever can run, the claim loop *)
(* comes back to every entry it finds idle, a request goes on to its next  *)
(* statement, and the container is restarted when the process ends.  What  *)
(* people and the LLM choose to do, faults and signals are not fair.       *)
(***************************************************************************)
RequestStep(q) ==
    StopWrite(q) \/ Xadd(q) \/ WakeWrite(q) \/ (rpc[q] = "create" /\ Enqueue(q, rtask[q]))

Lifecycle(n) == CancelClaim(n) \/ Exit(n) \/ Start(n) \/ Revert(n)

Fairness ==
    /\ \A q \in Requests : WF_vars(RequestStep(q))
    /\ \A w \in Workers : WF_vars(JobStep(w))
    /\ \A n \in Runners : WF_vars(Read(n)) /\ WF_vars(Lifecycle(n))
    /\ \A n \in Runners, e \in Entries : SF_vars(Claim(n, e))

FairSpec == Spec /\ Fairness

-----------------------------------------------------------------------------
(***************************************************************************)
(* Properties.                                                             *)
(***************************************************************************)

(* What was delivered and has left the pending entries list. *)
Acked == (1..cursor) \ pel
Unacked(r) == {e \in 1..nEntries : entRun[e] = r /\ e \notin Acked}

(* Executions with their last save before them, and processes whose start would clean up. *)
Saving(w) == wpc[w] \in InTry \cup {"save"}
Leaving == \E n \in Runners : runner[n] \in {"stopping", "closing", "deaf", "down"}

(* An entry is acknowledged only after _process_job returned normally for it
   at least once: no crash, signal or exception loses a job. *)
AckedWasHandled == Acked \subseteq handled

(* A run log that says RUNNING is driven by something: an entry that is still to be
   acknowledged, or the request about to add it; the exception is the request that died
   in between.  A job that outlived the claim idle time may have been acknowledged by
   another worker: then the one that goes on saves the log, unless that save failed, or
   its process is leaving and the next start cleans up. *)
RunningIsDriven ==
    \A r \in Runs : logStatus[r] = "RUNNING" =>
        \/ orphan[r]
        \/ Unacked(r) # {}
        \/ \E q \in Requests : rrun[q] = r /\ rpc[q] \in {"xadd", "xaddWake"}
        \/ LongJobs /\ (saveLost[r] \/ Leaving \/ \E w \in Workers : Saving(w) /\ RunOf(w) = r)

(* A task a run has marked IN_PROGRESS never gets stuck there: an entry of the task will
   be executed (again) and its finally block moves the task on, or, when jobs outlive the
   claim idle time, an execution under way does; the exception is a task sync that failed
   or was cut when nobody would repeat the job. *)
InProgressIsOwned ==
    \A t \in Tasks : marked[t] =>
        \/ syncLost[t]
        \/ \E e \in pel : logTask[entRun[e]] = t
        \/ LongJobs /\ \E w \in Workers : Syncing(w) /\ TaskOf(w) = t

(* The stream and its two loops implement the abstract job queue, exclusive unless jobs
   outlive CLAIM_IDLE_MS. *)
Queue == INSTANCE JobQueue WITH
    Jobs <- Entries, Agents <- Workers, Exclusive <- ~LongJobs,
    added <- nEntries, delivered <- cursor,
    holders <- [e \in Entries |-> {w \in Workers : wjob[w] = e}],
    carried <- handled, done <- Acked

QueueSpec == Queue!Spec

Deaf == \E n \in Runners : runner[n] = "deaf"

(* Entries whose job can never be executed, only claimed over and over. *)
Poison == {e \in pel : logTask[entRun[e]] \in Unrunnable}

(* Every entry added to the stream is acknowledged in the end: a job that raised,
   was cut by a crash or a shutdown is claimed and executed again.  Only a runner
   whose read loop died (and whose process lives on), or as many poison entries as
   XPENDING returns, can keep it from being so. *)
EveryJobIsAcked ==
    \A e \in Entries : (e <= nEntries)
        ~> (e \in Acked \cup Poison \/ Deaf \/ Cardinality(Poison) >= ClaimCount)

(* No log says RUNNING for ever, even when jobs are executed twice and a runner
   dies: the execution ends and saves an outcome, or the next start cleans up.  The
   exceptions: the request died before XADD, the save itself failed, a deaf runner,
   a job that cannot even be loaded. *)
EveryRunSettles ==
    \A r \in Runs : (logStatus[r] = "RUNNING")
        ~> (logStatus[r] # "RUNNING" \/ orphan[r] \/ saveLost[r] \/ Deaf
            \/ logTask[r] \in Unrunnable)

(* The claim loop "handles crashed runner instances - their unACKed messages are
   reassigned automatically" (docs/runner.md:133), whatever else is pending. *)
CrashedIsReassigned ==
    \A e \in Entries : (e \in pel \ Poison /\ \A w \in Workers : wjob[w] # e)
        ~> (e \notin pel \/ Deaf \/ \E w \in Workers : wjob[w] = e)

(* "The runner polls this status and exits the loop gracefully"
   (agent-runner.service.ts:66): a stopped run is RUNNING again only when woken. *)
StopIsFinal ==
    [][\A r \in Runs : logStatus[r] = "STOPPED" /\ logStatus'[r] = "RUNNING" =>
          \E q \in Requests : rpc[q] = "wake" /\ rrun[q] = r]_vars

(* "In-flight jobs are left unACKed [...] The claim loop in the next runner
   startup will reclaim them" (docs/runner.md:207): a job that is cut short does
   not end as a completed run of a task that is done. *)
CutShortIsNotCompleted ==
    \A w \in Workers : wpc[w] = "sync" /\ wraised[w] => wfinal[w] # "COMPLETED"

(* wake "picks up where it left off rather than starting from scratch"
   (agent-runner.service.ts:106): the loop continues at the recorded iteration. *)
WakeResumes ==
    [][\A w \in Workers : LoadSaved(w) /\ entWake[wjob[w]] /\ logStatus[RunOf(w)] = "RUNNING"
          => witer'[w] = logIter[RunOf(w)]]_vars

(* request_human_input "marks the current task as BLOCKED" until the person has
   answered (tools.py:92): the run that asked does not declare the task done. *)
BlockedIsNotDone ==
    [][\A w \in Workers : Sync(w) /\ taskStatus[TaskOf(w)] = "BLOCKED"
          => taskStatus'[TaskOf(w)] # "DONE"]_vars
==============================================================================
