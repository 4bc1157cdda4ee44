--------------------------- MODULE AgentRunsProofs ---------------------------
(***************************************************************************)
(* Proofs about AgentRuns, for any tasks, requests, runners and bounds:    *)
(* TypeOK, AckedWasHandled, RunningIsDriven and InProgressIsOwned are      *)
(* invariants, and AgentRuns implements JobQueue.                          *)
(*                                                                         *)
(* None of the three safety invariants is inductive.  IInv strengthens     *)
(* them with what the workers know of their job (WorkersOK), that a job    *)
(* has one executor while none outlives the claim idle time (Exclusive),   *)
(* and with who exactly is going to save the log (Driven) and to sync the  *)
(* task (Owned): an entry whose workers have not passed that point yet,    *)
(* or an execution that has it before it, its entry acknowledged or not.   *)
(***************************************************************************)
EXTENDS AgentRuns, TLAPS

(* References between rows, entries and requests resolve. *)
RowsOK ==
    /\ \A e \in 1..nEntries : entRun[e] \in 1..nRuns
    /\ \A r \in 1..nRuns : logTask[r] \in Tasks
    /\ \A q \in Requests : rpc[q] \notin {"idle", "create"} => rrun[q] \in 1..nRuns

(* A worker is idle iff it has no job, and its job has been delivered. *)
WorkersOK ==
    /\ pel \subseteq 1..cursor /\ handled \subseteq 1..cursor
    /\ \A w \in Workers :
        /\ wjob[w] \in 0..cursor
        /\ wpc[w] = "idle" <=> wjob[w] = 0
        /\ wpc[w] = "ack" => wjob[w] \in handled

(* While no job outlives the idle time, a job in progress is pending and has one executor. *)
Exclusive ==
    ~LongJobs => \A v \in Workers : Busy(v) =>
        wjob[v] \in pel /\ \A w \in Workers : wjob[w] = wjob[v] => w = v

(* Nobody who executes entry e has saved its log for the last time. *)
Live(e) == \A w \in Workers : wjob[w] = e => wpc[w] \notin {"sync", "ack"}

Posted(r) == \E q \in Requests : rrun[q] = r /\ rpc[q] \in {"xadd", "xaddWake"}
Awaited(r) == orphan[r] \/ (\E e \in Unacked(r) : Live(e)) \/ Posted(r)

(* A log RUNNING on because its job is executed twice: somebody is still to save it, has
   failed to, or was cut by the end of a process whose next start fails the log. *)
Rescued(r) ==
    LongJobs /\ (saveLost[r] \/ Leaving \/ \E w \in Workers : Saving(w) /\ RunOf(w) = r)

Driver(r) == Awaited(r) \/ Rescued(r)

Driven == \A r \in Runs : logStatus[r] = "RUNNING" => Driver(r)

(* Some entry of task t still has its task sync before it. *)
Owner(t) ==
    \E e \in pel :
        /\ logTask[entRun[e]] = t
        /\ \A w \in Workers : wjob[w] = e => wpc[w] # "ack"

(* Some execution of task t has its task sync before it. *)
Executed(t) == \E w \in Workers : Syncing(w) /\ TaskOf(w) = t

Owned == \A t \in Tasks : marked[t] => syncLost[t] \/ Owner(t) \/ Executed(t)

IInv ==
    /\ TypeOK /\ RowsOK /\ WorkersOK /\ AckedWasHandled
    /\ Exclusive /\ Driven /\ Owned

(* The holders of every entry, as the refinement maps them. *)
Held == [e \in Entries |-> {w \in Workers : wjob[w] = e}]

-----------------------------------------------------------------------------
(* Facts about the helpers the actions are made of. *)

(* The two workers of a runner are workers. *)
LEMMA WorkerNames == \A n \in Runners : <<n, "read">> \in Workers /\ <<n, "claim">> \in Workers
BY DEF Workers

(* _save_run_log keeps the log well typed. *)
LEMMA SaveType ==
  ASSUME LogType, NEW w, witer[w] \in 0..MaxIter, NEW s \in RunStatus, NEW k \in 0..MaxIter,
      SaveRunLog(w, s, k)
  PROVE  LogType'
BY DEF LogType, SaveRunLog

(* A busy worker's entry, its run and its task exist. *)
LEMMA JobKnown ==
  ASSUME TypeOK, RowsOK, WorkersOK
  PROVE  \A w \in Workers : wpc[w] # "idle" =>
            /\ wjob[w] \in 1..cursor /\ wjob[w] \in Entries
            /\ RunOf(w) \in 1..nRuns /\ RunOf(w) \in Runs /\ TaskOf(w) \in Tasks
<1> TAKE w \in Workers
<1> HAVE wpc[w] # "idle"
<1> USE ConstantsAssumption DEF ConstantsAssumption, TypeOK
<1>1. wjob[w] \in 1..cursor BY DEF WorkersOK, StreamType
<1>2. wjob[w] \in 1..nEntries /\ wjob[w] \in Entries BY <1>1 DEF StreamType, Entries
<1>3. RunOf(w) \in 1..nRuns BY <1>2 DEF RowsOK, RunOf
<1>4. RunOf(w) \in Runs BY <1>3 DEF LogType, Runs
<1>5. TaskOf(w) \in Tasks BY <1>3 DEF RowsOK, TaskOf
<1> QED BY <1>1, <1>2, <1>3, <1>4, <1>5

(* Taking an entry keeps the workers well typed. *)
LEMMA BeginType ==
  ASSUME WorkerType, NEW w \in Workers, NEW e \in Entries, Begin(w, e)
  PROVE  WorkerType'
BY DEF Begin, WorkerType, WorkerPC, Entries

(* Only the worker's own entry can become handled. *)
LEMMA ReturnHandles == ASSUME NEW w \in Workers, Return(w)
      PROVE handled' \subseteq handled \cup {wjob[w]}
BY DEF Return

(* Letting go of a job keeps four of the workers' locals well typed. *)
LEMMA ParkType ==
  ASSUME WorkerType, NEW S, Park(S)
  PROVE  /\ wpc' \in [Workers -> WorkerPC] /\ wjob' \in [Workers -> 0..MaxEntries]
         /\ witer' \in [Workers -> 0..MaxIter] /\ wfinal' \in [Workers -> Outcome]
<1> USE ConstantsAssumption DEF ConstantsAssumption, Park
<1>1. wpc' \in [Workers -> WorkerPC] BY DEF WorkerType, WorkerPC
<1>2. wjob' \in [Workers -> 0..MaxEntries] BY DEF WorkerType
<1>3. witer' \in [Workers -> 0..MaxIter] BY DEF WorkerType
<1>4. wfinal' \in [Workers -> Outcome] BY DEF WorkerType, Outcome
<1> QED BY <1>1, <1>2, <1>3, <1>4

(* So does a cancellation, for all of them. *)
LEMMA CancelType == ASSUME WorkerType, NEW S, Cancel(S) PROVE WorkerType'
<1> USE ConstantsAssumption DEF ConstantsAssumption, Cancel
<1>1. wpc' \in [Workers -> WorkerPC] BY DEF WorkerType, WorkerPC
<1>2. wjob' \in [Workers -> 0..MaxEntries] BY DEF WorkerType
<1>3. witer' \in [Workers -> 0..MaxIter] BY DEF WorkerType
<1>4. wfinal' \in [Workers -> Outcome] BY DEF WorkerType, Outcome
<1>5. wraised' \in [Workers -> BOOLEAN] BY DEF WorkerType
<1> QED BY <1>1, <1>2, <1>3, <1>4, <1>5 DEF WorkerType

(* And so does the end of _process_job. *)
LEMMA ReturnType == ASSUME WorkerType, NEW w \in Workers, Return(w) PROVE WorkerType'
<1>1. CASE wraised[w] BY <1>1, ParkType DEF Return, WorkerType
<1>2. CASE ~wraised[w] BY <1>2 DEF Return, Move, WorkerType, WorkerPC
<1> QED BY <1>1, <1>2

(* What is cut keeps the tasks well typed and takes no loss back. *)
LEMMA LoseType ==
  ASSUME TaskType, NEW S, LoseSyncs(S), UNCHANGED <<taskStatus, marked>>
  PROVE  TaskType' /\ \A t \in Tasks : syncLost[t] => syncLost'[t]
<1>1. syncLost' \in [Tasks -> BOOLEAN] BY DEF LoseSyncs
<1>2. \A t \in Tasks : syncLost[t] => syncLost'[t] BY DEF LoseSyncs
<1> QED BY <1>1, <1>2 DEF TaskType

-----------------------------------------------------------------------------
(* The initial state is well typed. *)
LEMMA TypeInit == Init => TypeOK
<1> USE ConstantsAssumption DEF ConstantsAssumption, Init
<1>1. Init => TaskType BY DEF TaskType, Status
<1>2. Init => LogType BY DEF LogType, RunStatus
<1>3. Init => StreamType BY DEF StreamType
<1>4. Init => RequestType BY DEF RequestType, RequestPC
<1>5. Init => RunnerType BY DEF RunnerType, RunnerState
<1>6. Init => WorkerType BY DEF WorkerType, WorkerPC, Outcome
<1>7. Init => BoundType BY DEF BoundType
<1> QED BY <1>1, <1>2, <1>3, <1>4, <1>5, <1>6, <1>7 DEF TypeOK

(* Every step keeps TypeOK; the references of RowsOK and WorkersOK are needed where a
   worker's entry indexes a row. *)
LEMMA TypeNext == ASSUME TypeOK, RowsOK, WorkersOK, [Next]_vars PROVE TypeOK'
<1> USE ConstantsAssumption DEF ConstantsAssumption
<1>1. ASSUME NEW q \in Requests, NEW t \in Tasks, Stop(q, t) PROVE TypeOK'
  <2>1. RequestType'
    BY <1>1 DEF Stop, Goto, Latest, RunningOf, TypeOK, RequestType, RequestPC, LogType, Runs
  <2>2. (TaskType /\ LogType /\ StreamType /\ RunnerType /\ WorkerType /\ BoundType)'
    BY <1>1 DEF Stop, TypeOK, TaskType, LogType, StreamType, RunnerType, WorkerType,
      BoundType, taskVars, logVars, streamVars, runnerVars, workerVars, boundVars
  <2> QED BY <2>1, <2>2 DEF TypeOK
<1>2. ASSUME NEW q \in Requests, NEW t \in Tasks, Restart(q, t) PROVE TypeOK'
  <2>1. RequestType'
    BY <1>2 DEF Restart, Goto, Latest, RunningOf, TypeOK, RequestType, RequestPC, LogType, Runs
  <2>2. (TaskType /\ LogType /\ StreamType /\ RunnerType /\ WorkerType /\ BoundType)'
    BY <1>2 DEF Restart, TypeOK, TaskType, LogType, StreamType, RunnerType, WorkerType,
      BoundType, taskVars, logVars, streamVars, runnerVars, workerVars, boundVars
  <2> QED BY <2>1, <2>2 DEF TypeOK
<1>3. ASSUME NEW q \in Requests, NEW t \in Tasks, Enqueue(q, t) PROVE TypeOK'
  <2>1. LogType'
    BY <1>3 DEF Enqueue, SetStatus, TypeOK, LogType, RunStatus, Outcome, RequestType, Runs
  <2>2. RequestType'
    BY <1>3 DEF Enqueue, Goto, SetStatus, TypeOK, RequestType, RequestPC, LogType, Runs
  <2>3. (TaskType /\ StreamType /\ RunnerType /\ WorkerType /\ BoundType)'
    BY <1>3 DEF Enqueue, TypeOK, TaskType, StreamType, RunnerType, WorkerType, BoundType,
      taskVars, streamVars, runnerVars, workerVars, boundVars
  <2> QED BY <2>1, <2>2, <2>3 DEF TypeOK
<1>4. ASSUME NEW q \in Requests, NEW r \in Runs, Wake(q, r) PROVE TypeOK'
  <2>1. RequestType' BY <1>4 DEF Wake, Goto, TypeOK, RequestType, RequestPC, LogType, Runs
  <2>2. (TaskType /\ LogType /\ StreamType /\ RunnerType /\ WorkerType /\ BoundType)'
    BY <1>4 DEF Wake, TypeOK, TaskType, LogType, StreamType, RunnerType, WorkerType,
      BoundType, taskVars, logVars, streamVars, runnerVars, workerVars, boundVars
  <2> QED BY <2>1, <2>2 DEF TypeOK
<1>5. ASSUME NEW q \in Requests, StopWrite(q) PROVE TypeOK'
  <2>1. LogType'
    BY <1>5 DEF StopWrite, SetStatus, TypeOK, LogType, RunStatus, Outcome, RequestType, Runs
  <2>2. RequestType' BY <1>5 DEF StopWrite, Goto, Done, TypeOK, RequestType, RequestPC
  <2>3. (TaskType /\ StreamType /\ RunnerType /\ WorkerType /\ BoundType)'
    BY <1>5 DEF StopWrite, TypeOK, TaskType, StreamType, RunnerType, WorkerType, BoundType,
      taskVars, streamVars, runnerVars, workerVars, boundVars
  <2> QED BY <2>1, <2>2, <2>3 DEF TypeOK
<1>6. ASSUME NEW q \in Requests, Xadd(q) PROVE TypeOK'
  <2>1. LogType' BY <1>6 DEF Xadd, TypeOK, LogType, RunStatus, Outcome, RequestType, Runs
  <2>2. StreamType' BY <1>6 DEF Xadd, Goto, Done, TypeOK, StreamType, RequestType, Entries
  <2>3. RequestType' BY <1>6 DEF Xadd, Goto, Done, TypeOK, RequestType, RequestPC, LogType, Runs
  <2>4. (TaskType /\ RunnerType /\ WorkerType /\ BoundType)'
    BY <1>6 DEF Xadd, TypeOK, TaskType, RunnerType, WorkerType, BoundType, taskVars,
      runnerVars, workerVars, boundVars
  <2> QED BY <2>1, <2>2, <2>3, <2>4 DEF TypeOK
<1>7. ASSUME NEW q \in Requests, WakeWrite(q) PROVE TypeOK'
  <2>1. LogType'
    BY <1>7 DEF WakeWrite, SetStatus, TypeOK, LogType, RunStatus, Outcome, RequestType, Runs
  <2>2. RequestType'
    BY <1>7 DEF WakeWrite, Goto, SetStatus, TypeOK, RequestType, RequestPC, LogType, Runs
  <2>3. (TaskType /\ StreamType /\ RunnerType /\ WorkerType /\ BoundType)'
    BY <1>7 DEF WakeWrite, TypeOK, TaskType, StreamType, RunnerType, WorkerType, BoundType,
      taskVars, streamVars, runnerVars, workerVars, boundVars
  <2> QED BY <2>1, <2>2, <2>3 DEF TypeOK
<1>8. ASSUME NEW q \in Requests, RequestFails(q) PROVE TypeOK'
  <2>1. LogType' BY <1>8 DEF RequestFails, TypeOK, LogType, RunStatus, Outcome
  <2>2. RequestType'
    BY <1>8 DEF RequestFails, Goto, Done, TypeOK, RequestType, RequestPC, LogType, Runs
  <2>3. BoundType' BY <1>8 DEF RequestFails, Goto, Done, TypeOK, BoundType
  <2>4. (TaskType /\ StreamType /\ RunnerType /\ WorkerType)'
    BY <1>8 DEF RequestFails, TypeOK, TaskType, StreamType, RunnerType, WorkerType, taskVars,
      streamVars, runnerVars, workerVars
  <2> QED BY <2>1, <2>2, <2>3, <2>4 DEF TypeOK
<1>9. ASSUME NEW t \in Tasks, NEW s \in HandStatus, EditTask(t, s) PROVE TypeOK'
  <2>1. TaskType' BY <1>9 DEF EditTask, TypeOK, TaskType, Status
  <2>2. BoundType' BY <1>9 DEF EditTask, TypeOK, BoundType
  <2>3. (LogType /\ StreamType /\ RequestType /\ RunnerType /\ WorkerType)'
    BY <1>9 DEF EditTask, TypeOK, LogType, StreamType, RequestType, RunnerType, WorkerType,
      logVars, streamVars, requestVars, runnerVars, workerVars
  <2> QED BY <2>1, <2>2, <2>3 DEF TypeOK
<1>10. ASSUME NEW w \in Workers, CannotLoad(w) PROVE TypeOK'
  <2>1. WorkerType'
    BY <1>10, ParkType DEF CannotLoad, At, TypeOK, WorkerType, WorkerPC, InTry, Outcome
  <2>2. (TaskType /\ LogType /\ StreamType /\ RequestType /\ RunnerType /\ BoundType)'
    BY <1>10 DEF CannotLoad, TypeOK, TaskType, LogType, StreamType, RequestType, RunnerType,
      BoundType, taskVars, logVars, streamVars, requestVars, runnerVars, boundVars, NotWorkers
  <2> QED BY <2>1, <2>2 DEF TypeOK
<1>11. ASSUME NEW w \in Workers, Mark(w) PROVE TypeOK'
  <2>1. TaskType' BY <1>11 DEF Mark, At, Move, TypeOK, TaskType, Status
  <2>2. WorkerType' BY <1>11 DEF Mark, At, Move, TypeOK, WorkerType, WorkerPC, InTry, Outcome
  <2>3. (LogType /\ StreamType /\ RequestType /\ RunnerType /\ BoundType)'
    BY <1>11 DEF Mark, TypeOK, LogType, StreamType, RequestType, RunnerType, BoundType,
      logVars, streamVars, requestVars, runnerVars, boundVars, NotWorkers
  <2> QED BY <2>1, <2>2, <2>3 DEF TypeOK
<1>12. ASSUME NEW w \in Workers, LoadSaved(w) PROVE TypeOK'
  <2>1. WorkerType'
    <3>1. logIter[RunOf(w)] \in 0..MaxIter BY <1>12, JobKnown DEF LoadSaved, At, TypeOK, LogType
    <3> QED BY <1>12, <3>1 DEF LoadSaved, Move, TypeOK, WorkerType, WorkerPC, InTry, Outcome
  <2>2. (TaskType /\ LogType /\ StreamType /\ RequestType /\ RunnerType /\ BoundType)'
    BY <1>12 DEF LoadSaved, TypeOK, TaskType, LogType, StreamType, RequestType, RunnerType,
      BoundType, taskVars, logVars, streamVars, requestVars, runnerVars, boundVars, NotWorkers
  <2> QED BY <2>1, <2>2 DEF TypeOK
<1>13. ASSUME NEW w \in Workers, OutOfIterations(w) PROVE TypeOK'
  <2>1. WorkerType'
    BY <1>13 DEF OutOfIterations, At, Finish, Move, TypeOK, WorkerType, WorkerPC, InTry, Outcome
  <2>2. (TaskType /\ LogType /\ StreamType /\ RequestType /\ RunnerType /\ BoundType)'
    BY <1>13 DEF OutOfIterations, TypeOK, TaskType, LogType, StreamType, RequestType,
      RunnerType, BoundType, taskVars, logVars, streamVars, requestVars, runnerVars,
      boundVars, NotWorkers
  <2> QED BY <2>1, <2>2 DEF TypeOK
<1>14. ASSUME NEW w \in Workers, PollStopped(w) PROVE TypeOK'
  <2>1. WorkerType'
    BY <1>14 DEF PollStopped, At, Finish, Move, TypeOK, WorkerType, WorkerPC, InTry, Outcome
  <2>2. (TaskType /\ LogType /\ StreamType /\ RequestType /\ RunnerType /\ BoundType)'
    BY <1>14 DEF PollStopped, TypeOK, TaskType, LogType, StreamType, RequestType, RunnerType,
      BoundType, taskVars, logVars, streamVars, requestVars, runnerVars, boundVars, NotWorkers
  <2> QED BY <2>1, <2>2 DEF TypeOK
<1>15. ASSUME NEW w \in Workers, PollGoesOn(w) PROVE TypeOK'
  <2>1. WorkerType'
    BY <1>15 DEF PollGoesOn, At, Move, TypeOK, WorkerType, WorkerPC, InTry, Outcome
  <2>2. (TaskType /\ LogType /\ StreamType /\ RequestType /\ RunnerType /\ BoundType)'
    BY <1>15 DEF PollGoesOn, TypeOK, TaskType, LogType, StreamType, RequestType, RunnerType,
      BoundType, taskVars, logVars, streamVars, requestVars, runnerVars, boundVars, NotWorkers
  <2> QED BY <2>1, <2>2 DEF TypeOK
<1>16. ASSUME NEW w \in Workers, TextReply(w) PROVE TypeOK'
  <2>1. WorkerType'
    BY <1>16 DEF TextReply, At, Finish, Move, TypeOK, WorkerType, WorkerPC, InTry, Outcome
  <2>2. (TaskType /\ LogType /\ StreamType /\ RequestType /\ RunnerType /\ BoundType)'
    BY <1>16 DEF TextReply, TypeOK, TaskType, LogType, StreamType, RequestType, RunnerType,
      BoundType, taskVars, logVars, streamVars, requestVars, runnerVars, boundVars, NotWorkers
  <2> QED BY <2>1, <2>2 DEF TypeOK
<1>17. ASSUME NEW w \in Workers, CompleteTask(w) PROVE TypeOK'
  <2>1. TaskType' BY <1>17 DEF CompleteTask, ToolSets, Finish, Move, TypeOK, TaskType, Status
  <2>2. WorkerType'
    BY <1>17 DEF CompleteTask, ToolSets, Finish, Move, TypeOK, WorkerType, WorkerPC, InTry,
      Outcome
  <2>3. (LogType /\ StreamType /\ RequestType /\ RunnerType /\ BoundType)'
    BY <1>17 DEF CompleteTask, ToolSets, TypeOK, LogType, StreamType, RequestType, RunnerType,
      BoundType, logVars, streamVars, requestVars, runnerVars, boundVars, NotWorkers
  <2> QED BY <2>1, <2>2, <2>3 DEF TypeOK
<1>18. ASSUME NEW w \in Workers, BlockTask(w) PROVE TypeOK'
  <2>1. TaskType' BY <1>18 DEF BlockTask, ToolSets, Finish, Move, TypeOK, TaskType, Status
  <2>2. WorkerType'
    BY <1>18 DEF BlockTask, ToolSets, Finish, Move, TypeOK, WorkerType, WorkerPC, InTry, Outcome
  <2>3. (LogType /\ StreamType /\ RequestType /\ RunnerType /\ BoundType)'
    BY <1>18 DEF BlockTask, ToolSets, TypeOK, LogType, StreamType, RequestType, RunnerType,
      BoundType, logVars, streamVars, requestVars, runnerVars, boundVars, NotWorkers
  <2> QED BY <2>1, <2>2, <2>3 DEF TypeOK
<1>19. ASSUME NEW w \in Workers, RequestHumanInput(w) PROVE TypeOK'
  <2>1. TaskType' BY <1>19 DEF RequestHumanInput, ToolSets, Move, TypeOK, TaskType, Status
  <2>2. WorkerType'
    BY <1>19 DEF RequestHumanInput, ToolSets, Move, TypeOK, WorkerType, WorkerPC, InTry, Outcome
  <2>3. (LogType /\ StreamType /\ RequestType /\ RunnerType /\ BoundType)'
    BY <1>19 DEF RequestHumanInput, ToolSets, TypeOK, LogType, StreamType, RequestType,
      RunnerType, BoundType, logVars, streamVars, requestVars, runnerVars, boundVars,
      NotWorkers
  <2> QED BY <2>1, <2>2, <2>3 DEF TypeOK
<1>20. ASSUME NEW w \in Workers, Flush(w) PROVE TypeOK'
  <2>1. LogType' BY <1>20, SaveType DEF Flush, TypeOK, LogType, RunStatus, Outcome, WorkerType
  <2>2. WorkerType'
    BY <1>20 DEF Flush, Move, SaveRunLog, TypeOK, WorkerType, WorkerPC, InTry, Outcome
  <2>3. (TaskType /\ StreamType /\ RequestType /\ RunnerType /\ BoundType)'
    BY <1>20 DEF Flush, TypeOK, TaskType, StreamType, RequestType, RunnerType, BoundType,
      taskVars, streamVars, requestVars, runnerVars, boundVars, NotWorkers
  <2> QED BY <2>1, <2>2, <2>3 DEF TypeOK
<1>21. ASSUME NEW w \in Workers, EarlySave(w) PROVE TypeOK'
  <2>1. LogType'
    <3>1. wfinal[w] \in RunStatus /\ witer[w] \in 0..MaxIter /\ 0 \in 0..MaxIter
      BY DEF TypeOK, WorkerType, RunStatus
    <3>2. SaveRunLog(w, wfinal[w], 0) BY <1>21 DEF EarlySave
    <3> QED BY <3>1, <3>2, SaveType DEF TypeOK
  <2>2. WorkerType'
    BY <1>21 DEF EarlySave, At, Move, SaveRunLog, TypeOK, WorkerType, WorkerPC, InTry, Outcome
  <2>3. (TaskType /\ StreamType /\ RequestType /\ RunnerType /\ BoundType)'
    BY <1>21 DEF EarlySave, TypeOK, TaskType, StreamType, RequestType, RunnerType, BoundType,
      taskVars, streamVars, requestVars, runnerVars, boundVars, NotWorkers
  <2> QED BY <2>1, <2>2, <2>3 DEF TypeOK
<1>22. ASSUME NEW w \in Workers, FinalSave(w) PROVE TypeOK'
  <2>1. LogType'
    <3>1. wfinal[w] \in RunStatus /\ witer[w] \in 0..MaxIter /\ 0 \in 0..MaxIter
      BY DEF TypeOK, WorkerType, RunStatus
    <3>2. SaveRunLog(w, wfinal[w], 0) BY <1>22 DEF FinalSave
    <3> QED BY <3>1, <3>2, SaveType DEF TypeOK
  <2>2. WorkerType'
    BY <1>22 DEF FinalSave, At, Move, SaveRunLog, TypeOK, WorkerType, WorkerPC, InTry, Outcome
  <2>3. (TaskType /\ StreamType /\ RequestType /\ RunnerType /\ BoundType)'
    BY <1>22 DEF FinalSave, TypeOK, TaskType, StreamType, RequestType, RunnerType, BoundType,
      taskVars, streamVars, requestVars, runnerVars, boundVars, NotWorkers
  <2> QED BY <2>1, <2>2, <2>3 DEF TypeOK
<1>23. ASSUME NEW w \in Workers, Sync(w) PROVE TypeOK'
  <2>1. TaskType' BY <1>23 DEF Sync, At, Move, AfterRun, TypeOK, TaskType, Status
  <2>2. StreamType' BY <1>23, ReturnHandles, JobKnown DEF Sync, At, Entries, TypeOK, StreamType
  <2>3. WorkerType'
    BY <1>23, ReturnType DEF Sync, At, TypeOK, WorkerType, WorkerPC, InTry, Outcome
  <2>4. (LogType /\ RequestType /\ RunnerType /\ BoundType)'
    BY <1>23 DEF Sync, TypeOK, LogType, RequestType, RunnerType, BoundType, logVars,
      requestVars, runnerVars, boundVars, NotWorkers
  <2> QED BY <2>1, <2>2, <2>3, <2>4 DEF TypeOK
<1>24. ASSUME NEW w \in Workers, Ack(w) PROVE TypeOK'
  <2>1. StreamType' BY <1>24 DEF Ack, At, Park, TypeOK, StreamType
  <2>2. WorkerType' BY <1>24, ParkType DEF Ack, At, TypeOK, WorkerType, WorkerPC, InTry, Outcome
  <2>3. (TaskType /\ LogType /\ RequestType /\ RunnerType /\ BoundType)'
    BY <1>24 DEF Ack, TypeOK, TaskType, LogType, RequestType, RunnerType, BoundType, taskVars,
      logVars, requestVars, runnerVars, boundVars, NotWorkers
  <2> QED BY <2>1, <2>2, <2>3 DEF TypeOK
<1>25. ASSUME NEW w \in Workers, Raise(w) PROVE TypeOK'
  <2>1. WorkerType'
    BY <1>25 DEF Raise, Fault, Finish, Move, InTry, TypeOK, WorkerType, WorkerPC, Outcome
  <2>2. BoundType' BY <1>25 DEF Raise, Fault, Finish, Move, TypeOK, BoundType
  <2>3. (TaskType /\ LogType /\ StreamType /\ RequestType /\ RunnerType)'
    BY <1>25 DEF Raise, TypeOK, TaskType, LogType, StreamType, RequestType, RunnerType,
      taskVars, logVars, streamVars, requestVars, runnerVars, NotWorkers
  <2> QED BY <2>1, <2>2, <2>3 DEF TypeOK
<1>26. ASSUME NEW w \in Workers, GiveUp(w) PROVE TypeOK'
  <2>1. LogType'
    BY <1>26 DEF GiveUp, Fault, At, TypeOK, LogType, RunStatus, Outcome, RequestType, Runs
  <2>2. WorkerType'
    BY <1>26, ParkType DEF GiveUp, Fault, At, TypeOK, WorkerType, WorkerPC, InTry, Outcome
  <2>3. BoundType' BY <1>26 DEF GiveUp, Fault, At, TypeOK, BoundType
  <2>4. TaskType' BY <1>26, LoseType DEF GiveUp, TypeOK
  <2>5. (StreamType /\ RequestType /\ RunnerType)'
    BY <1>26 DEF GiveUp, TypeOK, StreamType, RequestType, RunnerType, streamVars,
      requestVars, runnerVars, NotWorkers
  <2> QED BY <2>1, <2>2, <2>3, <2>4, <2>5 DEF TypeOK
<1>27. ASSUME NEW w \in Workers, SyncFails(w) PROVE TypeOK'
  <2>1. TaskType' BY <1>27 DEF SyncFails, Fault, At, Move, AfterRun, TypeOK, TaskType, Status
  <2>2. StreamType'
    BY <1>27, ReturnHandles, JobKnown DEF SyncFails, At, Entries, TypeOK, StreamType
  <2>3. WorkerType'
    BY <1>27, ReturnType DEF SyncFails, Fault, At, TypeOK, WorkerType, WorkerPC, InTry, Outcome
  <2>4. BoundType' BY <1>27 DEF SyncFails, Fault, At, Move, TypeOK, BoundType
  <2>5. (LogType /\ RequestType /\ RunnerType)'
    BY <1>27 DEF SyncFails, TypeOK, LogType, RequestType, RunnerType, logVars, requestVars,
      runnerVars, NotWorkers
  <2> QED BY <2>1, <2>2, <2>3, <2>4, <2>5 DEF TypeOK
<1>28. ASSUME NEW n \in Runners, Read(n) PROVE TypeOK'
  <2>1. StreamType' BY <1>28 DEF Read, Begin, TypeOK, StreamType, Entries
  <2>2. WorkerType'
    <3>1. cursor + 1 \in Entries BY <1>28 DEF Read, TypeOK, StreamType, Entries
    <3>2. Begin(<<n, "read">>, cursor + 1) BY <1>28 DEF Read
    <3> QED BY <3>1, <3>2, WorkerNames, BeginType DEF TypeOK
  <2>3. (TaskType /\ LogType /\ RequestType /\ RunnerType /\ BoundType)'
    BY <1>28 DEF Read, TypeOK, TaskType, LogType, RequestType, RunnerType, BoundType,
      taskVars, logVars, requestVars, runnerVars, boundVars, NotRunners
  <2> QED BY <2>1, <2>2, <2>3 DEF TypeOK
<1>29. ASSUME NEW n \in Runners, NEW e \in Entries, Claim(n, e) PROVE TypeOK'
  <2>1. WorkerType' BY <1>29, WorkerNames, BeginType DEF Claim, TypeOK, Entries
  <2>2. (TaskType /\ LogType /\ StreamType /\ RequestType /\ RunnerType /\ BoundType)'
    BY <1>29 DEF Claim, TypeOK, TaskType, LogType, StreamType, RequestType, RunnerType,
      BoundType, taskVars, logVars, streamVars, requestVars, runnerVars, boundVars
  <2> QED BY <2>1, <2>2 DEF TypeOK
<1>30. ASSUME NEW n \in Runners, Sigterm(n) PROVE TypeOK'
  <2>1. RunnerType'
    BY <1>30 DEF Sigterm, Fault, SetRunner, NotRunners, TypeOK, RunnerType, RunnerState
  <2>2. WorkerType'
    BY <1>30, CancelType DEF Sigterm, Fault, SetRunner, NotRunners, workerVars, TypeOK,
      WorkerType, WorkerPC, InTry, Outcome
  <2>3. BoundType' BY <1>30 DEF Sigterm, Fault, SetRunner, NotRunners, TypeOK, BoundType
  <2>4. (LogType /\ StreamType /\ RequestType)'
    BY <1>30 DEF Sigterm, TypeOK, LogType, StreamType, RequestType, logVars, streamVars,
      requestVars, NotRunners
  <2>5. TaskType'
    <3>1. CASE runner[n] = "up"
      BY <1>30, <3>1, LoseType DEF Sigterm, Cancel, NotRunners, TypeOK
    <3>2. CASE runner[n] # "up" BY <1>30, <3>2 DEF Sigterm, NotRunners, TypeOK, TaskType
    <3> QED BY <3>1, <3>2
  <2> QED BY <2>1, <2>2, <2>3, <2>4, <2>5 DEF TypeOK
<1>31. ASSUME NEW n \in Runners, CancelClaim(n) PROVE TypeOK'
  <2>1. RunnerType'
    BY <1>31 DEF CancelClaim, SetRunner, NotRunners, TypeOK, RunnerType, RunnerState
  <2>2. WorkerType'
    BY <1>31, CancelType DEF CancelClaim, SetRunner, NotRunners, TypeOK, WorkerType, WorkerPC,
      InTry, Outcome
  <2>3. (LogType /\ StreamType /\ RequestType /\ BoundType)'
    BY <1>31 DEF CancelClaim, TypeOK, LogType, StreamType, RequestType, BoundType, logVars,
      streamVars, requestVars, boundVars, NotRunners
  <2>4. TaskType' BY <1>31, LoseType DEF CancelClaim, Cancel, NotRunners, TypeOK
  <2> QED BY <2>1, <2>2, <2>3, <2>4 DEF TypeOK
<1>32. ASSUME NEW n \in Runners, Exit(n) PROVE TypeOK'
  <2>1. RunnerType' BY <1>32 DEF Exit, SetRunner, NotRunners, TypeOK, RunnerType, RunnerState
  <2>2. WorkerType'
    BY <1>32, ParkType DEF Exit, SetRunner, NotRunners, TypeOK, WorkerType, WorkerPC, InTry,
      Outcome
  <2>3. (LogType /\ StreamType /\ RequestType /\ BoundType)'
    BY <1>32 DEF Exit, TypeOK, LogType, StreamType, RequestType, BoundType, logVars,
      streamVars, requestVars, boundVars, NotRunners
  <2>4. TaskType' BY <1>32, LoseType DEF Exit, NotRunners, TypeOK
  <2> QED BY <2>1, <2>2, <2>3, <2>4 DEF TypeOK
<1>33. ASSUME NEW n \in Runners, Crash(n) PROVE TypeOK'
  <2>1. RunnerType'
    BY <1>33 DEF Crash, Fault, SetRunner, NotRunners, TypeOK, RunnerType, RunnerState
  <2>2. WorkerType'
    BY <1>33, ParkType DEF Crash, Fault, SetRunner, NotRunners, TypeOK, WorkerType, WorkerPC,
      InTry, Outcome
  <2>3. BoundType' BY <1>33 DEF Crash, Fault, SetRunner, NotRunners, TypeOK, BoundType
  <2>4. (LogType /\ StreamType /\ RequestType)'
    BY <1>33 DEF Crash, TypeOK, LogType, StreamType, RequestType, logVars, streamVars,
      requestVars, NotRunners
  <2>5. TaskType' BY <1>33, LoseType DEF Crash, NotRunners, TypeOK
  <2> QED BY <2>1, <2>2, <2>3, <2>4, <2>5 DEF TypeOK
<1>34. ASSUME NEW n \in Runners, ReadLoopDies(n) PROVE TypeOK'
  <2>1. RunnerType'
    BY <1>34 DEF ReadLoopDies, Fault, SetRunner, NotRunners, TypeOK, RunnerType, RunnerState
  <2>2. WorkerType'
    BY <1>34, CancelType DEF ReadLoopDies, Fault, SetRunner, NotRunners, TypeOK, WorkerType,
      WorkerPC, InTry, Outcome
  <2>3. BoundType' BY <1>34 DEF ReadLoopDies, Fault, SetRunner, NotRunners, TypeOK, BoundType
  <2>4. (LogType /\ StreamType /\ RequestType)'
    BY <1>34 DEF ReadLoopDies, TypeOK, LogType, StreamType, RequestType, logVars,
      streamVars, requestVars, NotRunners
  <2>5. TaskType' BY <1>34, LoseType DEF ReadLoopDies, Cancel, NotRunners, TypeOK
  <2> QED BY <2>1, <2>2, <2>3, <2>4, <2>5 DEF TypeOK
<1>35. ASSUME NEW n \in Runners, Start(n) PROVE TypeOK'
  <2>1. LogType'
    BY <1>35 DEF Start, SetRunner, Running, TypeOK, LogType, RunStatus, Outcome, RequestType, Runs
  <2>2. RunnerType' BY <1>35 DEF Start, SetRunner, Running, TypeOK, RunnerType, RunnerState
  <2>3. (TaskType /\ StreamType /\ RequestType /\ WorkerType /\ BoundType)'
    BY <1>35 DEF Start, TypeOK, TaskType, StreamType, RequestType, WorkerType, BoundType,
      taskVars, streamVars, requestVars, workerVars, boundVars, NotRunners
  <2> QED BY <2>1, <2>2, <2>3 DEF TypeOK
<1>36. ASSUME NEW n \in Runners, Revert(n) PROVE TypeOK'
  <2>1. TaskType' BY <1>36 DEF Revert, SetRunner, Reverted, TypeOK, TaskType, Status
  <2>2. RunnerType' BY <1>36 DEF Revert, SetRunner, Reverted, TypeOK, RunnerType, RunnerState
  <2>3. (LogType /\ StreamType /\ RequestType /\ WorkerType /\ BoundType)'
    BY <1>36 DEF Revert, TypeOK, LogType, StreamType, RequestType, WorkerType, BoundType,
      logVars, streamVars, requestVars, workerVars, boundVars, NotRunners
  <2> QED BY <2>1, <2>2, <2>3 DEF TypeOK
<1>37. CASE UNCHANGED vars
  BY <1>37 DEF vars, TypeOK, TaskType, taskVars, LogType, logVars, StreamType, streamVars,
    RequestType, requestVars, RunnerType, runnerVars, WorkerType, workerVars, BoundType,
    boundVars
<1> QED
  BY <1>1, <1>2, <1>3, <1>4, <1>5, <1>6, <1>7, <1>8, <1>9, <1>10, <1>11, <1>12, <1>13, <1>14,
      <1>15, <1>16, <1>17, <1>18, <1>19, <1>20, <1>21, <1>22, <1>23, <1>24, <1>25, <1>26, <1>27,
      <1>28, <1>29, <1>30, <1>31, <1>32, <1>33, <1>34, <1>35, <1>36, <1>37
     DEF Next, Request, Work, JobStep, Process

-----------------------------------------------------------------------------
(* Only requests create rows and entries. *)
LEMMA RowsFrame ==
  ASSUME \/ \E t \in Tasks, s \in HandStatus : EditTask(t, s)
         \/ \E w \in Workers : Work(w)
         \/ \E n \in Runners : Process(n)
  PROVE  UNCHANGED <<nEntries, entRun, nRuns, logTask, rpc, rrun>>
<1> USE DEF taskVars, logVars, streamVars, requestVars, NotWorkers, NotRunners, SaveRunLog
<1>1. ASSUME NEW t \in Tasks, NEW s \in HandStatus, EditTask(t, s)
      PROVE UNCHANGED <<nEntries, entRun, nRuns, logTask, rpc, rrun>>
  BY <1>1 DEF EditTask
<1>2. ASSUME NEW w \in Workers, Work(w)
      PROVE UNCHANGED <<nEntries, entRun, nRuns, logTask, rpc, rrun>>
  BY <1>2 DEF Work, JobStep, CannotLoad, Mark, LoadSaved, OutOfIterations, PollStopped,
    PollGoesOn, TextReply, CompleteTask, BlockTask, RequestHumanInput, ToolSets, Flush,
    EarlySave, FinalSave, Sync, Ack, Raise, GiveUp, SyncFails
<1>3. ASSUME NEW n \in Runners, Process(n)
      PROVE UNCHANGED <<nEntries, entRun, nRuns, logTask, rpc, rrun>>
  BY <1>3 DEF Process, Read, Claim, Sigterm, CancelClaim, Exit, Crash, ReadLoopDies, Start, Revert
<1> QED BY <1>1, <1>2, <1>3

(* RowsOK depends on these variables only. *)
LEMMA RowsKept ==
  ASSUME RowsOK, UNCHANGED <<nEntries, entRun, nRuns, logTask, rpc, rrun>>
  PROVE  RowsOK'
BY DEF RowsOK

(* WorkersOK survives workers that let go of their job. *)
LEMMA ParkOK ==
  ASSUME TypeOK, WorkersOK, NEW S, Park(S), UNCHANGED cursor, pel' \subseteq pel, UNCHANGED handled
  PROVE  WorkersOK'
<1>1. \A w \in Workers : /\ wjob'[w] = IF w \in S THEN 0 ELSE wjob[w]
                         /\ wpc'[w] = IF w \in S THEN "idle" ELSE wpc[w]
  BY DEF Park
<1>2. 0 \in 0..cursor BY ConstantsAssumption DEF ConstantsAssumption, TypeOK, StreamType
<1> QED BY <1>1, <1>2 DEF WorkersOK

(* WorkersOK survives a cancellation. *)
LEMMA CancelOK ==
  ASSUME TypeOK, WorkersOK, NEW S, Cancel(S), UNCHANGED <<cursor, pel, handled>>
  PROVE  WorkersOK'
<1>1. \A w \in Workers :
         /\ wjob'[w] = IF w \in S /\ wpc[w] \notin InTry THEN 0 ELSE wjob[w]
         /\ wpc'[w] = IF w \in S THEN (IF wpc[w] \in InTry THEN "save" ELSE "idle") ELSE wpc[w]
  BY DEF Cancel
<1>2. 0 \in 0..cursor BY ConstantsAssumption DEF ConstantsAssumption, TypeOK, StreamType
<1> QED BY <1>1, <1>2 DEF WorkersOK, InTry

(* WorkersOK survives the end of _process_job. *)
LEMMA ReturnOK ==
  ASSUME TypeOK, WorkersOK, NEW w \in Workers, wpc[w] = "sync", Return(w), UNCHANGED <<cursor, pel>>
  PROVE  WorkersOK'
<1>1. CASE wraised[w] BY <1>1, ParkOK DEF Return
<1>2. CASE ~wraised[w]
  <2>1. wjob[w] \in 1..cursor
    BY ConstantsAssumption DEF ConstantsAssumption, WorkersOK, TypeOK, StreamType
  <2>2. handled' = handled \cup {wjob[w]} /\ wjob' = wjob BY <1>2 DEF Return
  <2>3. \A v \in Workers : wpc'[v] = IF v = w THEN "ack" ELSE wpc[v]
    BY <1>2 DEF Return, Move, TypeOK, WorkerType
  <2> QED BY <2>1, <2>2, <2>3 DEF WorkersOK
<1> QED BY <1>1, <1>2

(* Every step keeps RowsOK. *)
LEMMA RowsNext ==
  ASSUME TypeOK, RowsOK, [Next]_vars
  PROVE  RowsOK'
<1> USE ConstantsAssumption DEF ConstantsAssumption, RowsOK, TypeOK, LogType, StreamType,
  RequestType, Runs, Entries, taskVars, logVars, streamVars, requestVars, runnerVars, workerVars,
  boundVars, NotWorkers, NotRunners
<1>1. ASSUME NEW q \in Requests, NEW t \in Tasks, Stop(q, t) PROVE RowsOK'
  BY <1>1 DEF Stop, Goto, Latest, RunningOf
<1>2. ASSUME NEW q \in Requests, NEW t \in Tasks, Restart(q, t) PROVE RowsOK'
  BY <1>2 DEF Restart, Goto, Latest, RunningOf
<1>3. ASSUME NEW q \in Requests, NEW t \in Tasks, Enqueue(q, t) PROVE RowsOK'
  <2> DEFINE new == nRuns + 1
  <2>1. /\ nRuns' = new /\ new \in Runs /\ entRun' = entRun /\ nEntries' = nEntries
        /\ logTask' = [logTask EXCEPT ![new] = t]
    BY <1>3 DEF Enqueue, Runs
  <2>2. \A r \in 1..new : logTask'[r] \in Tasks
    <3> TAKE r \in 1..new
    <3>1. CASE r = new BY <3>1, <2>1
    <3>2. CASE r # new
      <4>1. r \in 1..nRuns BY <3>2
      <4> QED BY <4>1, <3>2, <2>1
    <3> QED BY <3>1, <3>2
  <2>3. \A p \in Requests : rpc'[p] \notin {"idle", "create"} => rrun'[p] \in 1..new
    BY <1>3 DEF Enqueue, Goto
  <2>4. 1..nRuns \subseteq 1..new OBVIOUS
  <2> QED BY <2>1, <2>2, <2>3, <2>4
<1>4. ASSUME NEW q \in Requests, NEW r \in Runs, Wake(q, r) PROVE RowsOK'
  BY <1>4 DEF Wake, Goto
<1>5. ASSUME NEW q \in Requests, StopWrite(q) PROVE RowsOK'
  BY <1>5 DEF StopWrite, Goto, Done, SetStatus
<1>6. ASSUME NEW q \in Requests, Xadd(q) PROVE RowsOK'
  <2> DEFINE new == nEntries + 1
  <2>1. /\ nEntries' = new /\ new \in Entries /\ nRuns' = nRuns /\ logTask' = logTask
        /\ entRun' = [entRun EXCEPT ![new] = rrun[q]]
    BY <1>6 DEF Xadd, Entries
  <2>2. rrun[q] \in 1..nRuns BY <1>6 DEF Xadd
  <2>3. \A e \in 1..new : entRun'[e] \in 1..nRuns
    <3> TAKE e \in 1..new
    <3>1. CASE e = new BY <3>1, <2>1, <2>2
    <3>2. CASE e # new
      <4>1. e \in 1..nEntries BY <3>2
      <4> QED BY <4>1, <3>2, <2>1
    <3> QED BY <3>1, <3>2
  <2>4. \A p \in Requests : rpc'[p] \notin {"idle", "create"} => rrun'[p] \in 1..nRuns
    BY <1>6 DEF Xadd, Goto, Done
  <2> QED BY <2>1, <2>3, <2>4
<1>7. ASSUME NEW q \in Requests, WakeWrite(q) PROVE RowsOK'
  BY <1>7 DEF WakeWrite, Goto, SetStatus
<1>8. ASSUME NEW q \in Requests, RequestFails(q) PROVE RowsOK'
  BY <1>8 DEF RequestFails, Goto, Done
<1>9. CASE (\E t \in Tasks, s \in HandStatus : EditTask(t, s)) \/ (\E w \in Workers : Work(w)) \/
    (\E n \in Runners : Process(n))
  BY <1>9, RowsFrame, RowsKept
<1>10. CASE UNCHANGED vars
  BY <1>10, RowsKept DEF vars
<1> QED BY <1>1, <1>2, <1>3, <1>4, <1>5, <1>6, <1>7, <1>8, <1>9, <1>10 DEF Next, Request

(* Every step keeps WorkersOK. *)
LEMMA WorkersNext ==
  ASSUME TypeOK, RowsOK, WorkersOK, [Next]_vars
  PROVE  WorkersOK'
<1> USE ConstantsAssumption DEF ConstantsAssumption, WorkersOK, TypeOK, StreamType, WorkerType,
  InTry, Entries, taskVars, logVars, streamVars, requestVars, runnerVars, workerVars, boundVars,
  NotWorkers, NotRunners
<1>1. CASE \E q \in Requests : Request(q)
  BY <1>1 DEF Request, Stop, Restart, Enqueue, Wake, StopWrite, Xadd, WakeWrite, RequestFails
<1>2. ASSUME NEW t \in Tasks, NEW s \in HandStatus, EditTask(t, s) PROVE WorkersOK'
  BY <1>2 DEF EditTask
<1>3. ASSUME NEW w \in Workers, CannotLoad(w) PROVE WorkersOK'
  BY <1>3, ParkOK DEF CannotLoad
<1>4. ASSUME NEW w \in Workers, Mark(w) PROVE WorkersOK'
  BY <1>4 DEF Mark, At, Move
<1>5. ASSUME NEW w \in Workers, LoadSaved(w) PROVE WorkersOK'
  BY <1>5 DEF LoadSaved, At, Move
<1>6. ASSUME NEW w \in Workers, OutOfIterations(w) PROVE WorkersOK'
  BY <1>6 DEF OutOfIterations, At, Finish, Move
<1>7. ASSUME NEW w \in Workers, PollStopped(w) PROVE WorkersOK'
  BY <1>7 DEF PollStopped, At, Finish, Move
<1>8. ASSUME NEW w \in Workers, PollGoesOn(w) PROVE WorkersOK'
  BY <1>8 DEF PollGoesOn, At, Move
<1>9. ASSUME NEW w \in Workers, TextReply(w) PROVE WorkersOK'
  BY <1>9 DEF TextReply, At, Finish, Move
<1>10. ASSUME NEW w \in Workers, CompleteTask(w) PROVE WorkersOK'
  BY <1>10 DEF CompleteTask, ToolSets, Finish, Move
<1>11. ASSUME NEW w \in Workers, BlockTask(w) PROVE WorkersOK'
  BY <1>11 DEF BlockTask, ToolSets, Finish, Move
<1>12. ASSUME NEW w \in Workers, RequestHumanInput(w) PROVE WorkersOK'
  BY <1>12 DEF RequestHumanInput, ToolSets, Move
<1>13. ASSUME NEW w \in Workers, Flush(w) PROVE WorkersOK'
  BY <1>13 DEF Flush, Move, SaveRunLog
<1>14. ASSUME NEW w \in Workers, EarlySave(w) PROVE WorkersOK'
  BY <1>14 DEF EarlySave, At, Move, SaveRunLog
<1>15. ASSUME NEW w \in Workers, FinalSave(w) PROVE WorkersOK'
  BY <1>15 DEF FinalSave, At, Move, SaveRunLog
<1>16. ASSUME NEW w \in Workers, Sync(w) PROVE WorkersOK'
  BY <1>16, ReturnOK DEF Sync, At
<1>17. ASSUME NEW w \in Workers, Ack(w) PROVE WorkersOK'
  BY <1>17, ParkOK DEF Ack
<1>18. ASSUME NEW w \in Workers, Raise(w) PROVE WorkersOK'
  BY <1>18 DEF Raise, Fault, Finish, Move, InTry
<1>19. ASSUME NEW w \in Workers, GiveUp(w) PROVE WorkersOK'
  BY <1>19, ParkOK DEF GiveUp
<1>20. ASSUME NEW w \in Workers, SyncFails(w) PROVE WorkersOK'
  BY <1>20, ReturnOK DEF SyncFails, At
<1>21. ASSUME NEW n \in Runners, Read(n) PROVE WorkersOK'
  BY <1>21 DEF Read, Begin
<1>22. ASSUME NEW n \in Runners, NEW e \in Entries, Claim(n, e) PROVE WorkersOK'
  BY <1>22 DEF Claim, Begin
<1>23. ASSUME NEW n \in Runners, Sigterm(n) PROVE WorkersOK'
  <2>1. CASE runner[n] = "up" BY <1>23, <2>1, CancelOK DEF Sigterm
  <2>2. CASE runner[n] # "up" BY <1>23, <2>2 DEF Sigterm
  <2> QED BY <2>1, <2>2
<1>24. ASSUME NEW n \in Runners, CancelClaim(n) PROVE WorkersOK'
  BY <1>24, CancelOK DEF CancelClaim
<1>25. ASSUME NEW n \in Runners, Exit(n) PROVE WorkersOK'
  BY <1>25, ParkOK DEF Exit
<1>26. ASSUME NEW n \in Runners, Crash(n) PROVE WorkersOK'
  BY <1>26, ParkOK DEF Crash
<1>27. ASSUME NEW n \in Runners, ReadLoopDies(n) PROVE WorkersOK'
  BY <1>27, CancelOK DEF ReadLoopDies
<1>28. ASSUME NEW n \in Runners, Start(n) PROVE WorkersOK'
  BY <1>28 DEF Start, SetRunner, Running
<1>29. ASSUME NEW n \in Runners, Revert(n) PROVE WorkersOK'
  BY <1>29 DEF Revert, SetRunner, Reverted
<1>30. CASE UNCHANGED vars
  BY <1>30 DEF vars
<1> QED
  BY <1>1, <1>2, <1>3, <1>4, <1>5, <1>6, <1>7, <1>8, <1>9, <1>10, <1>11, <1>12, <1>13, <1>14,
      <1>15, <1>16, <1>17, <1>18, <1>19, <1>20, <1>21, <1>22, <1>23, <1>24, <1>25, <1>26, <1>27,
      <1>28, <1>29, <1>30
     DEF Next, Work, JobStep, Process

(* Only the read loop and the claim loop give a worker another job. *)
LEMMA JobsKept ==
  ASSUME TypeOK, [Next]_vars
  PROVE  \/ \E n \in Runners : Read(n) \/ \E e \in Entries : Claim(n, e)
         \/ \A w \in Workers : wjob'[w] \in {0, wjob[w]}
<1> DEFINE Kept == \A w \in Workers : wjob'[w] \in {0, wjob[w]}
<1> USE DEF workerVars
<1>1. ASSUME NEW q \in Requests, Request(q) PROVE Kept
  BY <1>1 DEF Request, Stop, Restart, Enqueue, Wake, StopWrite, Xadd, WakeWrite, RequestFails
<1>2. ASSUME NEW t \in Tasks, NEW s \in HandStatus, EditTask(t, s) PROVE Kept
  BY <1>2 DEF EditTask
<1>3. ASSUME NEW w \in Workers, Work(w), ~Sync(w), ~SyncFails(w), ~Ack(w), ~GiveUp(w),
            ~CannotLoad(w)
      PROVE  Kept
  BY <1>3 DEF Work, JobStep, Mark, LoadSaved, OutOfIterations, PollStopped, PollGoesOn,
    TextReply, CompleteTask, BlockTask, RequestHumanInput, ToolSets, Flush, EarlySave,
    FinalSave, Raise
<1>4. ASSUME NEW S, Park(S) PROVE Kept BY <1>4 DEF Park
<1>5. ASSUME NEW w \in Workers, Sync(w) \/ SyncFails(w) PROVE Kept
  BY <1>4, <1>5 DEF Sync, SyncFails, Return
<1>6. ASSUME NEW w \in Workers, Ack(w) \/ GiveUp(w) \/ CannotLoad(w) PROVE Kept
  BY <1>4, <1>6 DEF Ack, GiveUp, CannotLoad
<1>7. ASSUME NEW S, Cancel(S) PROVE Kept BY <1>7 DEF Cancel
<1>8. ASSUME NEW n \in Runners, Process(n), ~Read(n), ~\E e \in Entries : Claim(n, e) PROVE Kept
  BY <1>4, <1>7, <1>8 DEF Process, Sigterm, CancelClaim, Exit, Crash, ReadLoopDies, Start, Revert
<1>9. CASE UNCHANGED vars BY <1>9 DEF vars
<1> QED BY <1>1, <1>2, <1>3, <1>5, <1>6, <1>8, <1>9 DEF Next

(* Only the read loop and XACK change what is delivered and pending. *)
LEMMA PelKept ==
  ASSUME [Next]_vars
  PROVE  \/ \E n \in Runners : Read(n)
         \/ \E w \in Workers : Ack(w)
         \/ UNCHANGED <<cursor, pel>>
<1> USE DEF streamVars, NotRunners
<1>1. ASSUME NEW q \in Requests, Request(q) PROVE UNCHANGED <<cursor, pel>>
  BY <1>1 DEF Request, Stop, Restart, Enqueue, Wake, StopWrite, Xadd, WakeWrite, RequestFails
<1>2. ASSUME NEW t \in Tasks, NEW s \in HandStatus, EditTask(t, s) PROVE UNCHANGED <<cursor, pel>>
  BY <1>2 DEF EditTask
<1>3. ASSUME NEW w \in Workers, Work(w), ~Ack(w) PROVE UNCHANGED <<cursor, pel>>
  BY <1>3 DEF Work, JobStep, CannotLoad, Mark, LoadSaved, OutOfIterations, PollStopped,
    PollGoesOn, TextReply, CompleteTask, BlockTask, RequestHumanInput, ToolSets, Flush,
    EarlySave, FinalSave, Sync, Raise, GiveUp, SyncFails
<1>4. ASSUME NEW n \in Runners, Process(n), ~Read(n) PROVE UNCHANGED <<cursor, pel>>
  BY <1>4 DEF Process, Claim, Sigterm, CancelClaim, Exit, Crash, ReadLoopDies, Start, Revert
<1>5. CASE UNCHANGED vars BY <1>5 DEF vars
<1> QED BY <1>1, <1>2, <1>3, <1>4, <1>5 DEF Next

(* Every step keeps Exclusive. *)
LEMMA ExclusiveNext ==
  ASSUME TypeOK, WorkersOK, Exclusive, [Next]_vars, WorkersOK'
  PROVE  Exclusive'
<1> USE DEF Exclusive, Busy
<1>1. ASSUME NEW n \in Runners, Read(n) PROVE Exclusive'
  <2>1. cursor + 1 \notin pel /\ \A w \in Workers : wjob[w] # cursor + 1
    BY DEF WorkersOK, TypeOK, StreamType
  <2>2. pel' = pel \cup {cursor + 1} BY <1>1 DEF Read
  <2>3. \A w \in Workers : /\ wjob'[w] = IF w = <<n, "read">> THEN cursor + 1 ELSE wjob[w]
                           /\ wpc'[w] = IF w = <<n, "read">> THEN "mark" ELSE wpc[w]
    BY <1>1 DEF Read, Begin, TypeOK, WorkerType
  <2> QED BY <2>1, <2>2, <2>3
<1>2. ASSUME NEW n \in Runners, NEW e \in Entries, Claim(n, e) PROVE Exclusive'
  <2>1. pel' = pel /\ e \in pel BY <1>2 DEF Claim, streamVars
  <2>2. \A w \in Workers : /\ wjob'[w] = IF w = <<n, "claim">> THEN e ELSE wjob[w]
                           /\ wpc'[w] = IF w = <<n, "claim">> THEN "mark" ELSE wpc[w]
    BY <1>2 DEF Claim, Begin, TypeOK, WorkerType
  <2>3. LongJobs \/ \A w \in Workers : wjob[w] # e BY <1>2 DEF Claim
  <2> QED BY <2>1, <2>2, <2>3
<1>3. ASSUME NEW w \in Workers, Ack(w) PROVE Exclusive'
  <2>1. pel' = pel \ {wjob[w]} BY <1>3 DEF Ack
  <2>2. \A v \in Workers : /\ wjob'[v] = IF v = w THEN 0 ELSE wjob[v]
                           /\ wpc'[v] = IF v = w THEN "idle" ELSE wpc[v]
    BY <1>3 DEF Ack, Park
  <2> QED BY <2>1, <2>2, <1>3 DEF Ack, At, WorkersOK
<1>4. CASE pel' = pel /\ \A w \in Workers : wjob'[w] \in {0, wjob[w]}
  BY <1>4 DEF WorkersOK
<1> QED BY <1>1, <1>2, <1>3, <1>4, JobsKept, PelKept

(* Every step keeps AckedWasHandled. *)
LEMMA AckedNext ==
  ASSUME TypeOK, WorkersOK, AckedWasHandled, [Next]_vars
  PROVE  AckedWasHandled'
<1>1. handled \subseteq handled'
  <2> USE DEF streamVars, NotRunners
  <2>1. ASSUME NEW q \in Requests, Request(q)
        PROVE handled' = handled
          BY <2>1 DEF Request, Stop, Restart, Enqueue, Wake, StopWrite, Xadd, WakeWrite,
            RequestFails
  <2>2. ASSUME NEW t \in Tasks, NEW s \in HandStatus, EditTask(t, s) PROVE handled' = handled
    BY <2>2 DEF EditTask
  <2>3. ASSUME NEW w \in Workers, Work(w) PROVE handled \subseteq handled'
    BY <2>3 DEF Work, JobStep, CannotLoad, Mark, LoadSaved, OutOfIterations, PollStopped,
      PollGoesOn, TextReply, CompleteTask, BlockTask, RequestHumanInput, ToolSets, Flush,
      EarlySave, FinalSave, Sync, Ack, Raise, GiveUp, SyncFails, Return
  <2>4. ASSUME NEW n \in Runners, Process(n) PROVE handled' = handled
    BY <2>4 DEF Process, Read, Claim, Sigterm, CancelClaim, Exit, Crash, ReadLoopDies, Start,
      Revert
  <2>5. CASE UNCHANGED vars BY <2>5 DEF vars
  <2> QED BY <2>1, <2>2, <2>3, <2>4, <2>5 DEF Next
<1>2. ASSUME NEW n \in Runners, Read(n) PROVE Acked' \subseteq Acked
  BY <1>2 DEF Read, Acked, TypeOK, StreamType
<1>3. ASSUME NEW w \in Workers, Ack(w)
      PROVE Acked' \subseteq Acked \cup {wjob[w]} /\ wjob[w] \in handled
  BY <1>3 DEF Ack, At, Acked, WorkersOK
<1>4. CASE UNCHANGED <<cursor, pel>> BY <1>1, <1>4 DEF Acked, AckedWasHandled
<1> QED BY <1>1, <1>2, <1>3, <1>4, PelKept DEF AckedWasHandled

-----------------------------------------------------------------------------
(* Only the save of the finally block takes a worker past its last save. *)
LEMMA SettlingKept ==
  ASSUME TypeOK, [Next]_vars
  PROVE  \/ \E w \in Workers : FinalSave(w)
         \/ \A w \in Workers : wpc'[w] \in {"sync", "ack"} => wpc[w] \in {"sync", "ack"}
<1> DEFINE Kept == \A w \in Workers : wpc'[w] \in {"sync", "ack"} => wpc[w] \in {"sync", "ack"}
<1> USE DEF workerVars, TypeOK, WorkerType
<1>1. ASSUME NEW q \in Requests, Request(q) PROVE Kept
  BY <1>1 DEF Request, Stop, Restart, Enqueue, Wake, StopWrite, Xadd, WakeWrite, RequestFails
<1>2. ASSUME NEW t \in Tasks, NEW s \in HandStatus, EditTask(t, s) PROVE Kept BY <1>2 DEF EditTask
<1>3. ASSUME NEW w \in Workers, Work(w), ~FinalSave(w), ~Sync(w), ~SyncFails(w), ~Ack(w),
    ~GiveUp(w),
            ~CannotLoad(w)
      PROVE  Kept
  BY <1>3 DEF Work, JobStep, CannotLoad, Mark, LoadSaved, OutOfIterations, PollStopped,
    PollGoesOn, TextReply, CompleteTask, BlockTask, RequestHumanInput, ToolSets, Flush,
    EarlySave, Raise, Finish, Move
<1>4. ASSUME NEW S, Park(S) PROVE Kept BY <1>4 DEF Park
<1>5. ASSUME NEW w \in Workers, Sync(w) \/ SyncFails(w) PROVE Kept
  BY <1>4, <1>5 DEF Sync, SyncFails, Return, Move, At
<1>6. ASSUME NEW w \in Workers, Ack(w) \/ GiveUp(w) \/ CannotLoad(w) PROVE Kept
  BY <1>4, <1>6 DEF Ack, GiveUp, CannotLoad
<1>7. ASSUME NEW S, Cancel(S) PROVE Kept BY <1>7 DEF Cancel
<1>8. ASSUME NEW n \in Runners, Process(n) PROVE Kept
  BY <1>4, <1>7, <1>8, WorkerNames DEF Process, Read, Claim, Sigterm, CancelClaim, Exit, Crash,
    ReadLoopDies, Start, Revert, Begin
<1>9. CASE UNCHANGED vars BY <1>9 DEF vars
<1> QED BY <1>1, <1>2, <1>3, <1>5, <1>6, <1>8, <1>9 DEF Next

(* Only enqueue, wake and the flush set a log to RUNNING. *)
LEMMA RunningKept ==
  ASSUME TypeOK, RowsOK, WorkersOK, [Next]_vars, NEW r \in Runs, logStatus'[r] = "RUNNING"
  PROVE  \/ logStatus[r] = "RUNNING"
         \/ \E q \in Requests, t \in Tasks : Enqueue(q, t) /\ r = nRuns + 1
         \/ \E q \in Requests : WakeWrite(q) /\ r = rrun[q]
         \/ \E w \in Workers : Flush(w) /\ r = RunOf(w)
<1> USE DEF logVars, TypeOK, LogType, SetStatus
<1>1. ASSUME NEW q \in Requests, Request(q), logStatus[r] # "RUNNING"
      PROVE  \/ \E t \in Tasks : Enqueue(q, t) /\ r = nRuns + 1
             \/ WakeWrite(q) /\ r = rrun[q]
  BY <1>1 DEF Request, Stop, Restart, Enqueue, Wake, StopWrite, Xadd, WakeWrite, RequestFails
<1>2. ASSUME NEW t \in Tasks, NEW s \in HandStatus, EditTask(t, s) PROVE logStatus' = logStatus
  BY <1>2 DEF EditTask
<1>3. ASSUME NEW w \in Workers, Work(w), ~Flush(w), logStatus[r] # "RUNNING" PROVE FALSE
  <2>1. wfinal[w] # "RUNNING" BY DEF WorkerType, Outcome
  <2> QED
    BY <1>3, <2>1 DEF Work, JobStep, CannotLoad, Mark, LoadSaved, OutOfIterations,
      PollStopped, PollGoesOn, TextReply, CompleteTask, BlockTask, RequestHumanInput,
      ToolSets, EarlySave, FinalSave, Sync, Ack, Raise, GiveUp, SyncFails, SaveRunLog
<1>4. ASSUME NEW w \in Workers, Flush(w), logStatus[r] # "RUNNING" PROVE r = RunOf(w)
  BY <1>4 DEF Flush, SaveRunLog
<1>5. ASSUME NEW n \in Runners, Process(n), logStatus[r] # "RUNNING" PROVE FALSE
  BY <1>5 DEF Process, Read, Claim, Sigterm, CancelClaim, Exit, Crash, ReadLoopDies, Start,
    Revert, NotRunners
<1>6. CASE UNCHANGED vars BY <1>6 DEF vars
<1> QED BY <1>1, <1>2, <1>3, <1>4, <1>5, <1>6 DEF Next

(* Only requests change entries, orphans and requests. *)
LEMMA PostingFrame ==
  ASSUME [Next]_vars
  PROVE  (\E q \in Requests : Request(q)) \/ UNCHANGED <<nEntries, entRun, orphan, rpc, rrun>>
<1> USE DEF logVars, streamVars, requestVars, NotWorkers, NotRunners, SaveRunLog
<1>1. ASSUME NEW t \in Tasks, NEW s \in HandStatus, EditTask(t, s) PROVE UNCHANGED orphan
  BY <1>1 DEF EditTask
<1>2. ASSUME NEW w \in Workers, Work(w) PROVE UNCHANGED orphan
  BY <1>2 DEF Work, JobStep, CannotLoad, Mark, LoadSaved, OutOfIterations, PollStopped,
    PollGoesOn, TextReply, CompleteTask, BlockTask, RequestHumanInput, ToolSets, Flush,
    EarlySave, FinalSave, Sync, Ack, Raise, GiveUp, SyncFails
<1>3. ASSUME NEW n \in Runners, Process(n) PROVE UNCHANGED orphan
  BY <1>3 DEF Process, Read, Claim, Sigterm, CancelClaim, Exit, Crash, ReadLoopDies, Start, Revert
<1>4. CASE UNCHANGED vars BY <1>4 DEF vars
<1> QED BY <1>1, <1>2, <1>3, <1>4, RowsFrame DEF Next

(* What a request leaves alone. *)
LEMMA RequestFrame ==
  ASSUME NEW q \in Requests, Request(q)
  PROVE  /\ UNCHANGED <<marked, syncLost, cursor, pel, wpc, wjob>>
         /\ UNCHANGED <<nEntries, entRun>> \/ Xadd(q)
         /\ UNCHANGED orphan \/ Xadd(q) \/ RequestFails(q)
         /\ UNCHANGED logTask \/ \E t \in Tasks : Enqueue(q, t)
BY DEF Request, Stop, Restart, Enqueue, Wake, StopWrite, Xadd, WakeWrite, RequestFails, taskVars,
  logVars, streamVars, workerVars

(* An entry stays live unless one of its workers saves. *)
LEMMA LiveKept ==
  ASSUME \A w \in Workers : wjob'[w] \in {0, wjob[w]},
         \A w \in Workers : wpc'[w] \in {"sync", "ack"} => wpc[w] \in {"sync", "ack"},
         NEW e \in 1..nEntries, Live(e)
  PROVE  Live(e)'
BY DEF Live

(* A step that leaves the worker where its last save is before it, unless that save is
   made or lost, or the process goes. *)
LEMMA SavingKept ==
  ASSUME TypeOK, [Next]_vars, NEW w \in Workers, Saving(w)
  PROVE  \/ Saving(w)' /\ wjob'[w] = wjob[w]
         \/ FinalSave(w)
         \/ GiveUp(w) /\ At(w, "save")
         \/ Leaving'
<1> DEFINE Kept == Saving(w)' /\ wjob'[w] = wjob[w]
<1> USE DEF workerVars, TypeOK, WorkerType, Saving, InTry
<1>1. ASSUME NEW q \in Requests, Request(q) PROVE Kept
  BY <1>1 DEF Request, Stop, Restart, Enqueue, Wake, StopWrite, Xadd, WakeWrite, RequestFails
<1>2. ASSUME NEW t \in Tasks, NEW s \in HandStatus, EditTask(t, s) PROVE Kept BY <1>2 DEF EditTask
<1>3. ASSUME NEW v \in Workers, Work(v), ~FinalSave(v), ~Sync(v), ~SyncFails(v), ~Ack(v),
            ~GiveUp(v), ~CannotLoad(v)
      PROVE  Kept
  BY <1>3 DEF Work, JobStep, Mark, LoadSaved, OutOfIterations, PollStopped, PollGoesOn,
    TextReply, CompleteTask, BlockTask, RequestHumanInput, ToolSets, Flush, EarlySave,
    Raise, Finish, Move, At
<1>4. ASSUME NEW v \in Workers, Park({v}), v # w PROVE Kept BY <1>4 DEF Park
<1>5. ASSUME NEW v \in Workers, Sync(v) \/ SyncFails(v) PROVE Kept
  <2>1. v # w BY <1>5 DEF Sync, SyncFails, At
  <2> QED BY <1>4, <1>5, <2>1 DEF Sync, SyncFails, Return, Move
<1>6. ASSUME NEW v \in Workers, FinalSave(v), v # w PROVE Kept
  BY <1>6 DEF FinalSave, Move
<1>7. ASSUME NEW v \in Workers, Ack(v) \/ CannotLoad(v) PROVE Kept
  <2>1. v # w BY <1>7 DEF Ack, CannotLoad, At
  <2> QED BY <1>4, <1>7, <2>1 DEF Ack, CannotLoad
<1>8. ASSUME NEW v \in Workers, GiveUp(v) PROVE Kept \/ (v = w /\ At(w, "save"))
  <2>1. CASE v # w BY <1>4, <1>8, <2>1 DEF GiveUp
  <2>2. CASE v = w BY <1>8, <2>2 DEF GiveUp, At
  <2> QED BY <2>1, <2>2
<1>9. ASSUME NEW n \in Runners, Process(n) PROVE Kept \/ Leaving'
  <2>1. CASE Read(n) \/ \E e \in Entries : Claim(n, e)
    <3>1. PICK v \in Workers : ~Busy(v) /\ \E e : Begin(v, e)
      BY <2>1, WorkerNames DEF Read, Claim
    <3> QED BY <3>1 DEF Busy, Begin
  <2>2. CASE Start(n) \/ Revert(n) BY <2>2 DEF Start, Revert
  <2>3. CASE Sigterm(n) \/ CancelClaim(n) \/ Exit(n) \/ Crash(n) \/ ReadLoopDies(n)
    <3>1. runner'[n] \in {"stopping", "closing", "deaf", "down"}
      BY <2>3 DEF Sigterm, CancelClaim, Exit, Crash, ReadLoopDies, SetRunner, RunnerType
    <3> QED BY <3>1 DEF Leaving
  <2> QED BY <1>9, <2>1, <2>2, <2>3 DEF Process
<1>10. CASE UNCHANGED vars BY <1>10 DEF vars
<1> QED BY <1>1, <1>2, <1>3, <1>5, <1>6, <1>7, <1>8, <1>9, <1>10 DEF Next

(* Only a clean-up, which fails every RUNNING log, ends that processes are leaving. *)
LEMMA LeavingKept ==
  ASSUME TypeOK, [Next]_vars, Leaving
  PROVE  Leaving' \/ \E n \in Runners : Start(n)
<1> PICK m \in Runners : runner[m] \in {"stopping", "closing", "deaf", "down"} BY DEF Leaving
<1> USE DEF runnerVars, NotWorkers
<1>1. ASSUME NEW q \in Requests, Request(q) PROVE runner' = runner
  BY <1>1 DEF Request, Stop, Restart, Enqueue, Wake, StopWrite, Xadd, WakeWrite, RequestFails
<1>2. ASSUME NEW t \in Tasks, NEW s \in HandStatus, EditTask(t, s) PROVE runner' = runner
  BY <1>2 DEF EditTask
<1>3. ASSUME NEW w \in Workers, Work(w) PROVE runner' = runner
  BY <1>3 DEF Work, JobStep, CannotLoad, Mark, LoadSaved, OutOfIterations, PollStopped,
    PollGoesOn, TextReply, CompleteTask, BlockTask, RequestHumanInput, ToolSets, Flush,
    EarlySave, FinalSave, Sync, Ack, Raise, GiveUp, SyncFails
<1>4. ASSUME NEW n \in Runners, Process(n), ~Start(n)
      PROVE  runner'[m] \in {"stopping", "closing", "deaf", "down"}
  BY <1>4 DEF Process, Read, Claim, Sigterm, CancelClaim, Exit, Crash, ReadLoopDies, Revert,
    SetRunner, TypeOK, RunnerType
<1>5. CASE UNCHANGED vars BY <1>5 DEF vars, Leaving
<1> QED BY <1>1, <1>2, <1>3, <1>4, <1>5 DEF Next, Leaving

(* A lost save is forgotten only when an execution saves the log again. *)
LEMMA SaveLostKept ==
  ASSUME TypeOK, [Next]_vars, NEW r \in Runs, saveLost[r]
  PROVE  \/ saveLost'[r]
         \/ \E w \in Workers : r = RunOf(w) /\ (Flush(w) \/ EarlySave(w) \/ FinalSave(w))
<1> USE DEF logVars, TypeOK, LogType
<1>1. ASSUME NEW q \in Requests, Request(q) PROVE saveLost' = saveLost
  BY <1>1 DEF Request, Stop, Restart, Enqueue, Wake, StopWrite, Xadd, WakeWrite, RequestFails
<1>2. ASSUME NEW t \in Tasks, NEW s \in HandStatus, EditTask(t, s) PROVE saveLost' = saveLost
  BY <1>2 DEF EditTask
<1>3. ASSUME NEW w \in Workers, Work(w), ~Flush(w), ~EarlySave(w), ~FinalSave(w)
      PROVE  saveLost'[r]
  BY <1>3 DEF Work, JobStep, CannotLoad, Mark, LoadSaved, OutOfIterations, PollStopped,
    PollGoesOn, TextReply, CompleteTask, BlockTask, RequestHumanInput, ToolSets, Sync, Ack,
    Raise, GiveUp, SyncFails
<1>4. ASSUME NEW w \in Workers, Flush(w) \/ EarlySave(w) \/ FinalSave(w), r # RunOf(w)
      PROVE  saveLost'[r]
  BY <1>4 DEF Flush, EarlySave, FinalSave, SaveRunLog
<1>5. ASSUME NEW n \in Runners, Process(n) PROVE saveLost' = saveLost
  BY <1>5 DEF Process, Read, Claim, Sigterm, CancelClaim, Exit, Crash, ReadLoopDies, Start,
    Revert, NotRunners
<1>6. CASE UNCHANGED vars BY <1>6 DEF vars
<1> QED BY <1>1, <1>2, <1>3, <1>4, <1>5, <1>6 DEF Next

(* The task of a delivered entry does not change. *)
LEMMA EntryTaskKept ==
  ASSUME TypeOK, RowsOK, [Next]_vars
  PROVE  \A e \in 1..cursor : logTask'[entRun'[e]] = logTask[entRun[e]]
<1> SUFFICES ASSUME NEW e \in 1..cursor PROVE logTask'[entRun'[e]] = logTask[entRun[e]]
  OBVIOUS
<1> USE ConstantsAssumption DEF ConstantsAssumption, TypeOK, StreamType, LogType
<1>1. e \in 1..nEntries /\ e \in Entries /\ entRun[e] \in 1..nRuns BY DEF RowsOK, Entries
<1>2. ASSUME NEW q \in Requests, Request(q) PROVE logTask'[entRun'[e]] = logTask[entRun[e]]
  <2>1. CASE Xadd(q)
    <3>1. entRun' = [entRun EXCEPT ![nEntries + 1] = rrun[q]] /\ logTask' = logTask
      BY <2>1 DEF Xadd
    <3> QED BY <3>1, <1>1
  <2>2. ASSUME NEW t \in Tasks, Enqueue(q, t) PROVE logTask'[entRun'[e]] = logTask[entRun[e]]
    <3>1. logTask' = [logTask EXCEPT ![nRuns + 1] = t] /\ entRun' = entRun
      BY <2>2 DEF Enqueue, streamVars
    <3> QED BY <3>1, <1>1
  <2>3. CASE UNCHANGED <<entRun, logTask>> BY <2>3
  <2> QED BY <1>2, <2>1, <2>2, <2>3, RequestFrame DEF Enqueue, Xadd, streamVars
<1>3. CASE UNCHANGED <<entRun, logTask>> BY <1>3
<1>4. CASE UNCHANGED vars BY <1>4 DEF vars, logVars, streamVars
<1> QED BY <1>2, <1>3, <1>4, RowsFrame DEF Next

(* The run of a worker that keeps its job does not change. *)
LEMMA RunOfKept ==
  ASSUME TypeOK, RowsOK, WorkersOK, [Next]_vars, NEW w \in Workers, wpc[w] # "idle",
         wjob'[w] = wjob[w]
  PROVE  RunOf(w)' = RunOf(w) /\ TaskOf(w)' = TaskOf(w)
<1>1. wjob[w] \in 1..cursor BY JobKnown
<1>2. wjob[w] \in Entries /\ wjob[w] # nEntries + 1
  BY <1>1, JobKnown DEF TypeOK, StreamType
<1>3. entRun'[wjob[w]] = entRun[wjob[w]]
  <2>1. ASSUME NEW q \in Requests, Request(q) PROVE entRun'[wjob[w]] = entRun[wjob[w]]
    <3>1. CASE Xadd(q) BY <1>2, <3>1 DEF Xadd, TypeOK, StreamType
    <3>2. CASE ~Xadd(q) BY <2>1, <3>2, RequestFrame
    <3> QED BY <3>1, <3>2
  <2>2. CASE UNCHANGED vars BY <2>2 DEF vars, streamVars
  <2> QED BY <2>1, <2>2, RowsFrame DEF Next
<1>4. logTask'[entRun'[wjob[w]]] = logTask[entRun[wjob[w]]] BY <1>1, EntryTaskKept
<1> QED BY <1>3, <1>4 DEF RunOf, TaskOf

(* After the last save of a run its log does not say RUNNING. *)
LEMMA FinalSaveSettles ==
  ASSUME TypeOK, RowsOK, WorkersOK, NEW w \in Workers, FinalSave(w)
  PROVE  logStatus'[RunOf(w)] # "RUNNING"
<1>1. RunOf(w) \in Runs BY JobKnown DEF FinalSave, At
<1> QED BY <1>1 DEF FinalSave, SaveRunLog, TypeOK, WorkerType, LogType, Outcome

(* Whoever rescued a RUNNING log still does, after every step. *)
LEMMA RescuedNext ==
  ASSUME TypeOK, RowsOK, WorkersOK, [Next]_vars, NEW r \in Runs, logStatus'[r] = "RUNNING",
         Rescued(r)
  PROVE  Rescued(r)'
<1> USE DEF Rescued
<1>1. CASE saveLost[r]
  <2>1. ASSUME NEW w \in Workers, r = RunOf(w), Flush(w) \/ EarlySave(w) PROVE Rescued(r)'
    <3>1. wjob' = wjob /\ wpc[w] # "idle" /\ wpc'[w] \in {"poll", "save"}
      BY <2>1 DEF Flush, EarlySave, At, Move, TypeOK, WorkerType
    <3>2. RunOf(w)' = r BY <2>1, <3>1, RunOfKept
    <3> QED BY <3>1, <3>2 DEF Saving, InTry
  <2> QED BY <1>1, <2>1, SaveLostKept, FinalSaveSettles
<1>2. CASE Leaving
  <2>1. ASSUME NEW n \in Runners, Start(n) PROVE FALSE BY <2>1 DEF Start, Running
  <2> QED BY <1>2, <2>1, LeavingKept
<1>3. ASSUME NEW w \in Workers, Saving(w), RunOf(w) = r PROVE Rescued(r)'
  <2>0. wpc[w] # "idle" BY <1>3 DEF Saving, InTry
  <2>1. CASE Saving(w)' /\ wjob'[w] = wjob[w] BY <1>3, <2>0, <2>1, RunOfKept
  <2>2. CASE FinalSave(w) BY <1>3, <2>2, FinalSaveSettles
  <2>3. CASE GiveUp(w) /\ At(w, "save")
    <3>1. saveLost'[r] BY <1>3, <2>3 DEF GiveUp
    <3> QED BY <3>1
  <2> QED BY <1>3, <2>1, <2>2, <2>3, SavingKept
<1> QED BY <1>1, <1>2, <1>3

(* Whoever awaited a RUNNING log still does, or somebody else took over. *)
LEMMA AwaitedNext ==
  ASSUME TypeOK, RowsOK, WorkersOK, Exclusive, [Next]_vars, NEW r \in Runs,
         logStatus'[r] = "RUNNING", logStatus[r] = "RUNNING" => Awaited(r)
  PROVE  Driver(r)'
<1> USE DEF Driver, Awaited
<1>1. ASSUME NEW q \in Requests, Request(q) PROVE Driver(r)'
  <2>1. \A e : Live(e) => Live(e)' BY <1>1, RequestFrame DEF Live
  <2>2. \A e \in Unacked(r) : e \in Unacked(r)'
    <3>1. CASE Xadd(q)
      <4>1. /\ nEntries' = nEntries + 1 /\ entRun' = [entRun EXCEPT ![nEntries + 1] = rrun[q]]
            /\ UNCHANGED <<cursor, pel>>
        BY <3>1 DEF Xadd
      <4> QED
        BY <4>1, ConstantsAssumption DEF ConstantsAssumption, Unacked, Acked, TypeOK,
          StreamType, Entries
    <3>2. CASE ~Xadd(q) BY <1>1, <3>2, RequestFrame DEF Unacked, Acked
    <3> QED BY <3>1, <3>2
  <2>3. CASE Xadd(q)
    <3>1. CASE rrun[q] = r
      <4>1. /\ nEntries' = nEntries + 1 /\ entRun'[nEntries + 1] = r
            /\ UNCHANGED <<cursor, pel, wjob>>
            /\ nEntries + 1 \in Entries
        BY <2>3, <3>1, ConstantsAssumption DEF ConstantsAssumption, Xadd, workerVars,
          TypeOK, StreamType, Entries
      <4>2. nEntries + 1 \in Unacked(r)' BY <4>1 DEF Unacked, Acked, TypeOK, StreamType
      <4>3. \A w \in Workers : wjob'[w] # nEntries + 1 BY <4>1 DEF WorkersOK, TypeOK, StreamType
      <4> QED BY <4>2, <4>3 DEF Live
    <3>2. CASE rrun[q] # r
      <4>1. orphan'[r] = orphan[r] BY <2>3, <3>2 DEF Xadd, TypeOK, LogType
      <4>2. Posted(r) => Posted(r)'
        BY <2>3, <3>2 DEF Xadd, Done, Goto, Posted, TypeOK, RequestType
      <4>3. logStatus[r] = "RUNNING" BY <2>3 DEF Xadd
      <4> QED BY <4>1, <4>2, <4>3, <2>1, <2>2
    <3> QED BY <3>1, <3>2
  <2>4. CASE RequestFails(q)
    <3>1. orphan[r] \/ Posted(r) => orphan'[r] \/ Posted(r)'
      BY <2>4 DEF RequestFails, Done, Goto, Posted, TypeOK, RequestType, LogType
    <3>2. logStatus[r] = "RUNNING" BY <2>4 DEF RequestFails
    <3> QED BY <3>1, <3>2, <2>1, <2>2
  <2>5. CASE ~Xadd(q) /\ ~RequestFails(q)
    <3>1. orphan' = orphan BY <1>1, <2>5, RequestFrame
    <3>2. rpc[q] \notin {"xadd", "xaddWake"}
      BY <1>1, <2>5 DEF Request, Stop, Restart, Enqueue, MayEnqueue, Wake, StopWrite, WakeWrite
    <3>3. Posted(r) => Posted(r)'
      <4>1. \A p \in Requests : p # q => rpc'[p] = rpc[p] /\ rrun'[p] = rrun[p]
        BY <1>1, <2>5 DEF Request, Stop, Restart, Enqueue, Wake, StopWrite, WakeWrite,
          Done, Goto, TypeOK, RequestType
      <4> QED BY <3>2, <4>1 DEF Posted
    <3>4. CASE logStatus[r] = "RUNNING" BY <3>1, <3>3, <3>4, <2>1, <2>2
    <3>5. CASE logStatus[r] # "RUNNING"
      <4>1. rpc'[q] \in {"xadd", "xaddWake"} /\ rrun'[q] = r
        BY <1>1, <2>5, <3>5 DEF Request, Stop, Restart, Enqueue, Wake, StopWrite,
          WakeWrite, Goto, Done, SetStatus, logVars, TypeOK, RequestType, LogType
      <4> QED BY <4>1 DEF Posted
    <3> QED BY <3>4, <3>5
  <2> QED BY <2>3, <2>4, <2>5
<1>2. ASSUME UNCHANGED <<nEntries, entRun, orphan, rpc, rrun>>, logStatus[r] = "RUNNING",
             \A e \in Unacked(r) : Live(e) => e \in Unacked(r)' /\ Live(e)'
      PROVE  Driver(r)'
  <2>1. Posted(r)' = Posted(r) BY <1>2 DEF Posted
  <2> QED BY <1>2, <2>1
<1>3. ASSUME UNCHANGED <<nEntries, entRun, cursor, pel>> PROVE Unacked(r)' = Unacked(r)
  BY <1>3 DEF Unacked, Acked
<1>4. ASSUME NEW n \in Runners, Read(n) PROVE Driver(r)'
  <2>1. UNCHANGED <<nEntries, entRun, orphan, logStatus, rpc, rrun>>
    BY <1>4 DEF Read, logVars, requestVars
  <2>2. cursor' = cursor + 1 /\ pel' = pel \cup {cursor + 1} BY <1>4 DEF Read
  <2>3. \A e \in Unacked(r) : e \in Unacked(r)'
    BY <2>1, <2>2 DEF Unacked, Acked, TypeOK, StreamType
  <2>4. \A w \in Workers : wpc'[w] \in {"sync", "ack"} => wpc[w] = wpc'[w] /\ wjob'[w] = wjob[w]
    BY <1>4, WorkerNames DEF Read, Begin, TypeOK, WorkerType
  <2>5. \A e : Live(e) => Live(e)' BY <2>4 DEF Live
  <2> QED BY <1>2, <2>1, <2>3, <2>5
<1>5. ASSUME NEW n \in Runners, NEW e \in Entries, Claim(n, e) PROVE Driver(r)'
  <2>1. UNCHANGED <<nEntries, entRun, orphan, logStatus, rpc, rrun, cursor, pel>>
    BY <1>5 DEF Claim, logVars, requestVars, streamVars
  <2>2. \A w \in Workers : wpc'[w] \in {"sync", "ack"} => wpc[w] = wpc'[w] /\ wjob'[w] = wjob[w]
    BY <1>5, WorkerNames DEF Claim, Begin, TypeOK, WorkerType
  <2>3. \A f : Live(f) => Live(f)' BY <2>2 DEF Live
  <2> QED BY <1>2, <1>3, <2>1, <2>3
<1>6. ASSUME NEW w \in Workers, Ack(w) PROVE Driver(r)'
  <2>1. /\ UNCHANGED <<nEntries, entRun, orphan, logStatus, rpc, rrun, cursor>>
        /\ pel' = pel \ {wjob[w]}
    BY <1>6 DEF Ack, logVars, NotWorkers, requestVars
  <2>2. \A v \in Workers : /\ wjob'[v] = IF v = w THEN 0 ELSE wjob[v]
                           /\ wpc'[v] = IF v = w THEN "idle" ELSE wpc[v]
    BY <1>6 DEF Ack, Park
  <2>3. \A f : Live(f) => f # wjob[w] BY <1>6 DEF Live, Ack, At
  <2>4. \A f \in Unacked(r) : Live(f) => f \in Unacked(r)' /\ Live(f)'
    BY <2>1, <2>2, <2>3 DEF Live, Unacked, Acked
  <2> QED BY <1>2, <2>1, <2>4
<1>7. ASSUME NEW w \in Workers, FinalSave(w) PROVE Driver(r)'
  <2>1. UNCHANGED <<nEntries, entRun, orphan, rpc, rrun, cursor, pel, wjob>>
    BY <1>7 DEF FinalSave, SaveRunLog, NotWorkers, requestVars, streamVars
  <2>2. RunOf(w) \in Runs BY <1>7, JobKnown DEF FinalSave, At
  <2>3. logStatus' = [logStatus EXCEPT ![RunOf(w)] = wfinal[w]] /\ wfinal[w] # "RUNNING"
    BY <1>7 DEF FinalSave, SaveRunLog, TypeOK, WorkerType, Outcome
  <2>4. r # RunOf(w) /\ logStatus[r] = "RUNNING" BY <2>2, <2>3 DEF TypeOK, LogType
  <2>5. \A f \in Unacked(r) : f # wjob[w] BY <2>4 DEF RunOf, Unacked
  <2>6. \A v \in Workers : v # w => wpc'[v] = wpc[v]
    BY <1>7 DEF FinalSave, Move, TypeOK, WorkerType
  <2>7. \A f \in Unacked(r) : Live(f) => Live(f)' BY <2>1, <2>5, <2>6 DEF Live
  <2> QED BY <1>2, <1>3, <2>1, <2>4, <2>7
<1>8. ASSUME NEW w \in Workers, Flush(w), r = RunOf(w) PROVE Driver(r)'
  <2>1. UNCHANGED <<nEntries, entRun, cursor, pel, wjob>>
    BY <1>8 DEF Flush, NotWorkers, requestVars, streamVars
  <2>2. wpc' = [wpc EXCEPT ![w] = "poll"] /\ wpc[w] # "idle" BY <1>8 DEF Flush, Move
  <2>3. CASE LongJobs
    <3>1. wpc'[w] = "poll" /\ RunOf(w)' = r BY <1>8, <2>1, <2>2 DEF RunOf, TypeOK, WorkerType
    <3> QED BY <2>3, <3>1 DEF Rescued, Saving, InTry
  <2>4. CASE ~LongJobs
    <3>1. wjob[w] \in pel /\ \A v \in Workers : wjob[v] = wjob[w] => v = w
      BY <2>2, <2>4 DEF Exclusive, Busy
    <3>2. wjob[w] \in Unacked(r)'
      BY <2>1, <2>2, <3>1, <1>8, JobKnown DEF Unacked, Acked, RunOf, TypeOK, StreamType
    <3>3. \A v \in Workers : wjob'[v] = wjob[w] => wpc'[v] \notin {"sync", "ack"}
      BY <2>1, <2>2, <3>1 DEF TypeOK, WorkerType
    <3> QED BY <3>2, <3>3 DEF Live
  <2> QED BY <2>3, <2>4
<1>9. CASE /\ UNCHANGED <<nEntries, entRun, orphan, rpc, rrun, cursor, pel>>
           /\ logStatus[r] = "RUNNING"
           /\ \A w \in Workers : wjob'[w] \in {0, wjob[w]}
           /\ \A w \in Workers : wpc'[w] \in {"sync", "ack"} => wpc[w] \in {"sync", "ack"}
  <2>1. \A e \in Unacked(r) : e \in 1..nEntries BY DEF Unacked
  <2>2. \A e \in Unacked(r) : Live(e) => Live(e)' BY <1>9, <2>1, LiveKept
  <2> QED BY <1>2, <1>3, <1>9, <2>2
<1>10. CASE ~\E q \in Requests : Request(q)
  <2>1. ~(\E q \in Requests, t \in Tasks : Enqueue(q, t)) /\ ~\E q \in Requests : WakeWrite(q)
    BY <1>10 DEF Request
  <2> QED
    BY <1>4, <1>5, <1>6, <1>7, <1>8, <1>9, <1>10, <2>1, PostingFrame, RunningKept, PelKept,
      JobsKept, SettlingKept
<1> QED BY <1>1, <1>10

(* Every step keeps Driven. *)
LEMMA DrivenNext ==
  ASSUME TypeOK, RowsOK, WorkersOK, Exclusive, Driven, [Next]_vars
  PROVE  Driven'
<1> SUFFICES ASSUME NEW r \in Runs, logStatus'[r] = "RUNNING" PROVE Driver(r)'
  BY DEF Driven
<1>1. CASE Rescued(r) BY <1>1, RescuedNext DEF Driver
<1>2. CASE ~Rescued(r) BY <1>2, AwaitedNext DEF Driven, Driver
<1> QED BY <1>1, <1>2

-----------------------------------------------------------------------------
(* Only the task sync takes a worker to its XACK. *)
LEMMA AckingKept ==
  ASSUME TypeOK, [Next]_vars
  PROVE  \/ \E w \in Workers : Sync(w) \/ SyncFails(w)
         \/ \A w \in Workers : wpc'[w] = "ack" => wpc[w] = "ack"
<1> DEFINE Kept == \A w \in Workers : wpc'[w] = "ack" => wpc[w] = "ack"
<1> USE DEF workerVars, TypeOK, WorkerType
<1>1. ASSUME NEW q \in Requests, Request(q) PROVE Kept
  BY <1>1 DEF Request, Stop, Restart, Enqueue, Wake, StopWrite, Xadd, WakeWrite, RequestFails
<1>2. ASSUME NEW t \in Tasks, NEW s \in HandStatus, EditTask(t, s) PROVE Kept BY <1>2 DEF EditTask
<1>3. ASSUME NEW w \in Workers, Work(w), ~Sync(w), ~SyncFails(w), ~Ack(w), ~GiveUp(w),
            ~CannotLoad(w)
      PROVE  Kept
  BY <1>3 DEF Work, JobStep, CannotLoad, Mark, LoadSaved, OutOfIterations, PollStopped,
    PollGoesOn, TextReply, CompleteTask, BlockTask, RequestHumanInput, ToolSets, Flush,
    EarlySave, FinalSave, Raise, Finish, Move
<1>4. ASSUME NEW S, Park(S) PROVE Kept BY <1>4 DEF Park
<1>5. ASSUME NEW w \in Workers, Ack(w) \/ GiveUp(w) \/ CannotLoad(w) PROVE Kept
  BY <1>4, <1>5 DEF Ack, GiveUp, CannotLoad
<1>6. ASSUME NEW S, Cancel(S) PROVE Kept BY <1>6 DEF Cancel
<1>7. ASSUME NEW n \in Runners, Process(n) PROVE Kept
  BY <1>4, <1>6, <1>7, WorkerNames DEF Process, Read, Claim, Sigterm, CancelClaim, Exit, Crash,
    ReadLoopDies, Start, Revert, Begin
<1>8. CASE UNCHANGED vars BY <1>8 DEF vars
<1> QED BY <1>1, <1>2, <1>3, <1>5, <1>7, <1>8 DEF Next

(* Only _process_job marks a task, and a sync unmarks it or counts as lost. *)
LEMMA MarkedKept ==
  ASSUME TypeOK, RowsOK, WorkersOK, [Next]_vars, NEW t \in Tasks, marked'[t], ~syncLost'[t]
  PROVE  \/ \E w \in Workers : Mark(w) /\ t = TaskOf(w)
         \/ /\ marked[t] /\ ~syncLost[t]
            /\ \A w \in Workers : Sync(w) \/ SyncFails(w) => t # TaskOf(w)
<1> USE DEF TypeOK, TaskType, taskVars, NotRunners
<1>1. ASSUME NEW q \in Requests, Request(q) PROVE UNCHANGED <<marked, syncLost>>
  BY <1>1, RequestFrame
<1>2. ASSUME NEW u \in Tasks, NEW s \in HandStatus, EditTask(u, s) PROVE marked[t] /\ ~syncLost[t]
  BY <1>2 DEF EditTask
<1>3. ASSUME NEW w \in Workers, Work(w), ~Mark(w) PROVE marked[t] /\ ~syncLost[t]
  BY <1>3 DEF Work, JobStep, CannotLoad, LoadSaved, OutOfIterations, PollStopped, PollGoesOn,
    TextReply, CompleteTask, BlockTask, RequestHumanInput, ToolSets, Flush, EarlySave,
    FinalSave, Sync, Ack, Raise, GiveUp, SyncFails, LoseSyncs
<1>4. ASSUME NEW w \in Workers, Mark(w), t # TaskOf(w) PROVE marked[t] /\ ~syncLost[t]
  BY <1>4 DEF Mark
<1>5. ASSUME NEW n \in Runners, Process(n) PROVE marked[t] /\ ~syncLost[t]
  <2>1. CASE Revert(n)
    <3>1. syncLost' = syncLost /\ marked' = [u \in Tasks |-> marked[u] /\ u \notin Reverted(n)]
      BY <2>1 DEF Revert
    <3> QED BY <3>1, Zenon
  <2>2. CASE ~Revert(n)
    <3>1. marked' = marked
      BY <1>5, <2>2 DEF Process, Read, Claim, Sigterm, CancelClaim, Exit, Crash,
        ReadLoopDies, Start
    <3>2. syncLost' = syncLost \/ \E S : LoseSyncs(S)
      BY <1>5, <2>2 DEF Process, Read, Claim, Sigterm, CancelClaim, Exit, Crash,
        ReadLoopDies, Start, Cancel
    <3> QED BY <3>1, <3>2 DEF LoseSyncs
  <2> QED BY <2>1, <2>2
<1>6. ASSUME UNCHANGED vars PROVE marked[t] /\ ~syncLost[t] BY <1>6 DEF vars
<1>7. ASSUME NEW w \in Workers, Sync(w) \/ SyncFails(w) PROVE t # TaskOf(w)
  BY <1>7 DEF Sync, SyncFails, AfterRun
<1> QED BY <1>1, <1>2, <1>3, <1>4, <1>5, <1>6, <1>7 DEF Next

(* An execution whose task sync is before it stays so until it syncs, or is cut with
   others whose cuts count together. *)
LEMMA SyncingKept ==
  ASSUME TypeOK, [Next]_vars, NEW w \in Workers, Syncing(w)
  PROVE  \/ Syncing(w)' /\ wjob'[w] = wjob[w]
         \/ Sync(w) \/ SyncFails(w)
         \/ \E S \in SUBSET Workers :
               /\ w \in S /\ LoseSyncs(S) /\ UNCHANGED pel
               /\ \A v \in Workers :
                     IF v \in S THEN wjob'[v] = 0
                     ELSE wjob'[v] = wjob[v] /\ (wpc'[v] = "ack" => wpc[v] = "ack")
<1> DEFINE Kept == Syncing(w)' /\ wjob'[w] = wjob[w]
           CutIn(S) == /\ LoseSyncs(S) /\ UNCHANGED pel
                       /\ \A v \in Workers :
                             IF v \in S THEN wjob'[v] = 0
                             ELSE wjob'[v] = wjob[v] /\ (wpc'[v] = "ack" => wpc[v] = "ack")
<1> USE DEF workerVars, TypeOK, WorkerType, Syncing, InTry
<1>1. ASSUME NEW q \in Requests, Request(q) PROVE Kept
  BY <1>1 DEF Request, Stop, Restart, Enqueue, Wake, StopWrite, Xadd, WakeWrite, RequestFails
<1>2. ASSUME NEW t \in Tasks, NEW s \in HandStatus, EditTask(t, s) PROVE Kept BY <1>2 DEF EditTask
<1>3. ASSUME NEW v \in Workers, Work(v), ~Sync(v), ~SyncFails(v), ~Ack(v), ~GiveUp(v),
            ~CannotLoad(v)
      PROVE  Kept
  BY <1>3 DEF Work, JobStep, Mark, LoadSaved, OutOfIterations, PollStopped, PollGoesOn,
    TextReply, CompleteTask, BlockTask, RequestHumanInput, ToolSets, Flush, EarlySave,
    FinalSave, Raise, Finish, Move, At
<1>4. ASSUME NEW v \in Workers, Park({v}), v # w PROVE Kept BY <1>4 DEF Park
<1>5. ASSUME NEW v \in Workers, Sync(v) \/ SyncFails(v), v # w PROVE Kept
  BY <1>4, <1>5 DEF Sync, SyncFails, Return, Move
<1>6. ASSUME NEW v \in Workers, Ack(v) \/ CannotLoad(v) PROVE Kept
  <2>1. v # w BY <1>6 DEF Ack, CannotLoad, At
  <2> QED BY <1>4, <1>6, <2>1 DEF Ack, CannotLoad
<1>7. ASSUME NEW S \in SUBSET Workers, Park(S), LoseSyncs(S), UNCHANGED pel
      PROVE  Kept \/ (w \in S /\ CutIn(S))
  <2>1. \A v \in Workers : /\ wjob'[v] = IF v \in S THEN 0 ELSE wjob[v]
                           /\ wpc'[v] = IF v \in S THEN "idle" ELSE wpc[v]
    BY <1>7 DEF Park
  <2> QED BY <1>7, <2>1
<1>8. ASSUME NEW S \in SUBSET Workers, Cancel(S), UNCHANGED pel
      PROVE  \/ Kept
             \/ \E C \in SUBSET Workers : w \in C /\ CutIn(C)
  <2> DEFINE C == {v \in S : wpc[v] \notin InTry}
  <2>1. \A v \in Workers :
           /\ wjob'[v] = IF v \in C THEN 0 ELSE wjob[v]
           /\ wpc'[v] = IF v \in S /\ wpc[v] \in InTry THEN "save"
                        ELSE IF v \in C THEN "idle" ELSE wpc[v]
    BY <1>8 DEF Cancel
  <2>2. LoseSyncs(C) BY <1>8 DEF Cancel
  <2>3. C \in SUBSET Workers OBVIOUS
  <2>4. CASE w \in C
    <3>1. CutIn(C) BY <1>8, <2>1, <2>2
    <3> QED BY <2>3, <2>4, <3>1
  <2>5. CASE w \notin C BY <2>1, <2>5
  <2> QED BY <2>4, <2>5
<1>9. ASSUME NEW v \in Workers, GiveUp(v)
      PROVE Kept \/ \E S \in SUBSET Workers : w \in S /\ CutIn(S)
  <2>1. {v} \in SUBSET Workers /\ Park({v}) /\ LoseSyncs({v}) /\ UNCHANGED pel
    BY <1>9 DEF GiveUp, streamVars
  <2> QED BY <1>7, <2>1
<1>10. ASSUME NEW n \in Runners, Process(n)
       PROVE  Kept \/ \E S \in SUBSET Workers : w \in S /\ CutIn(S)
  <2>1. CASE Read(n) \/ \E e \in Entries : Claim(n, e)
    <3>1. PICK v \in Workers : ~Busy(v) /\ \E e : Begin(v, e)
      BY <2>1, WorkerNames DEF Read, Claim
    <3> QED BY <3>1 DEF Busy, Begin
  <2>2. CASE Start(n) \/ Revert(n) BY <2>2 DEF Start, Revert
  <2>3. CASE Exit(n) \/ Crash(n)
    <3>1. /\ WorkersOf(n) \in SUBSET Workers /\ Park(WorkersOf(n))
          /\ LoseSyncs(WorkersOf(n)) /\ UNCHANGED pel
      BY <2>3 DEF Exit, Crash, NotRunners, streamVars, WorkersOf, Workers
    <3> QED BY <1>7, <3>1
  <2>4. CASE Sigterm(n) /\ runner[n] # "up" BY <2>4 DEF Sigterm
  <2>5. CASE (Sigterm(n) /\ runner[n] = "up") \/ CancelClaim(n) \/ ReadLoopDies(n)
    <3>1. /\ UNCHANGED pel
          /\ Cancel({<<n, "read">>}) \/ Cancel({<<n, "claim">>})
      BY <2>5 DEF Sigterm, CancelClaim, ReadLoopDies, NotRunners, streamVars
    <3>2. {<<n, "read">>} \in SUBSET Workers /\ {<<n, "claim">>} \in SUBSET Workers
      BY WorkerNames
    <3> QED BY <1>8, <3>1, <3>2
  <2> QED BY <1>10, <2>1, <2>2, <2>3, <2>4, <2>5 DEF Process
<1>11. CASE UNCHANGED vars BY <1>11 DEF vars
<1> QED BY <1>1, <1>2, <1>3, <1>5, <1>6, <1>9, <1>10, <1>11 DEF Next

(* A task executed keeps its execution, or an entry that will be executed again, or the
   loss is on record. *)
LEMMA ExecutedNext ==
  ASSUME TypeOK, RowsOK, WorkersOK, [Next]_vars, NEW t \in Tasks, ~syncLost'[t], Executed(t),
         \A w \in Workers : Sync(w) \/ SyncFails(w) => t # TaskOf(w)
  PROVE  Owner(t)' \/ Executed(t)'
<1>1. PICK w \in Workers : Syncing(w) /\ TaskOf(w) = t BY DEF Executed
<1>2. wpc[w] # "idle" BY <1>1 DEF Syncing, InTry
<1>3. CASE Syncing(w)' /\ wjob'[w] = wjob[w]
  <2>1. TaskOf(w)' = t BY <1>1, <1>2, <1>3, RunOfKept
  <2> QED BY <1>3, <2>1 DEF Executed
<1>4. ASSUME NEW S \in SUBSET Workers, w \in S, LoseSyncs(S), UNCHANGED pel,
             \A v \in Workers :
                IF v \in S THEN wjob'[v] = 0
                ELSE wjob'[v] = wjob[v] /\ (wpc'[v] = "ack" => wpc[v] = "ack")
      PROVE  Owner(t)'
  <2> DEFINE e == wjob[w]
  <2>1. ~LastOne(w, S) BY <1>1, <1>4 DEF LoseSyncs
  <2>2. e \in pel /\ \A v \in Workers \ S : wjob[v] = e => wpc[v] # "ack"
    BY <2>1 DEF LastOne, At
  <2>3. e \in 1..cursor BY <1>2, JobKnown
  <2>4. logTask'[entRun'[e]] = t BY <1>1, <2>3, EntryTaskKept DEF TaskOf, RunOf
  <2>5. \A v \in Workers : wjob'[v] = e => wpc'[v] # "ack" BY <1>4, <2>2, <2>3
  <2>6. e \in pel' BY <1>4, <2>2
  <2> QED BY <2>4, <2>5, <2>6 DEF Owner
<1> QED BY <1>1, <1>3, <1>4, SyncingKept

(* Every step keeps Owned. *)
LEMMA OwnedNext ==
  ASSUME TypeOK, RowsOK, WorkersOK, Owned, [Next]_vars
  PROVE  Owned'
<1> SUFFICES ASSUME NEW t \in Tasks, marked'[t], ~syncLost'[t] PROVE Owner(t)' \/ Executed(t)'
  BY DEF Owned
<1>1. ASSUME NEW w \in Workers, Mark(w), t = TaskOf(w) PROVE Executed(t)'
  <2>1. wpc'[w] = "resume" /\ wjob' = wjob /\ wpc[w] # "idle"
    BY <1>1 DEF Mark, At, Move, TypeOK, WorkerType
  <2>2. TaskOf(w)' = t BY <1>1, <2>1, RunOfKept
  <2> QED BY <2>1, <2>2 DEF Executed, Syncing
<1> USE DEF Owner
<1> DEFINE Owns(e) == e \in pel /\ logTask[entRun[e]] = t /\ \A w \in Workers : wjob[w] = e =>
    wpc[w] # "ack"
<1>2. ASSUME Owner(t), \A w \in Workers : Sync(w) \/ SyncFails(w) => t # TaskOf(w)
      PROVE  Owner(t)'
  <2>1. PICK e \in pel : Owns(e) BY <1>2
  <2>2. e \in 1..cursor /\ logTask'[entRun'[e]] = t BY <2>1, EntryTaskKept DEF WorkersOK
  <2>3. ASSUME NEW n \in Runners, Read(n) PROVE Owner(t)'
    <3>1. pel \subseteq pel' BY <2>3 DEF Read
    <3>2. \A w \in Workers : wpc'[w] = "ack" => wpc[w] = "ack" /\ wjob'[w] = wjob[w]
      BY <2>3, WorkerNames DEF Read, Begin, TypeOK, WorkerType
    <3> QED BY <2>1, <2>2, <3>1, <3>2
  <2>4. ASSUME NEW n \in Runners, NEW f \in Entries, Claim(n, f) PROVE Owner(t)'
    <3>1. pel' = pel BY <2>4 DEF Claim, streamVars
    <3>2. \A w \in Workers : wpc'[w] = "ack" => wpc[w] = "ack" /\ wjob'[w] = wjob[w]
      BY <2>4, WorkerNames DEF Claim, Begin, TypeOK, WorkerType
    <3> QED BY <2>1, <2>2, <3>1, <3>2
  <2>5. ASSUME NEW w \in Workers, Ack(w) PROVE Owner(t)'
    <3>1. pel' = pel \ {wjob[w]} /\ e # wjob[w] BY <2>1, <2>5 DEF Ack, At
    <3>2. \A v \in Workers : wpc'[v] = "ack" => wpc[v] = "ack" /\ wjob'[v] = wjob[v]
      BY <2>5 DEF Ack, Park
    <3> QED BY <2>1, <2>2, <3>1, <3>2
  <2>6. ASSUME NEW w \in Workers, Sync(w) \/ SyncFails(w) PROVE Owner(t)'
    <3>1. pel' = pel /\ e # wjob[w] BY <1>2, <2>1, <2>6 DEF Sync, SyncFails, TaskOf, RunOf
    <3>2. CASE wraised[w]
      <4>1. \A v \in Workers : wpc'[v] = "ack" => wpc[v] = "ack" /\ wjob'[v] = wjob[v]
        BY <2>6, <3>2 DEF Sync, SyncFails, Return, Park
      <4> QED BY <2>1, <2>2, <3>1, <4>1
    <3>3. CASE ~wraised[w]
      <4>1. wjob' = wjob /\ \A v \in Workers : v # w => wpc'[v] = wpc[v]
        BY <2>6, <3>3 DEF Sync, SyncFails, Return, Move, TypeOK, WorkerType
      <4> QED BY <2>1, <2>2, <3>1, <4>1
    <3> QED BY <3>2, <3>3
  <2>7. CASE /\ UNCHANGED pel
             /\ \A w \in Workers : wjob'[w] \in {0, wjob[w]}
             /\ \A w \in Workers : wpc'[w] = "ack" => wpc[w] = "ack"
    <3>1. e # 0 BY <2>2
    <3> QED BY <2>1, <2>2, <2>7, <3>1
  <2> QED BY <2>3, <2>4, <2>5, <2>6, <2>7, PelKept, JobsKept, AckingKept
<1> QED BY <1>1, <1>2, MarkedKept, ExecutedNext DEF Owned

-----------------------------------------------------------------------------
(* The inductive invariant holds initially ... *)
LEMMA InvInit == Init => IInv
<1> SUFFICES ASSUME Init PROVE IInv OBVIOUS
<1> USE ConstantsAssumption DEF ConstantsAssumption, Init
<1>1. RowsOK BY DEF RowsOK
<1>2. WorkersOK BY DEF WorkersOK
<1>3. AckedWasHandled BY DEF AckedWasHandled, Acked
<1>4. Exclusive BY DEF Exclusive, Busy
<1>5. Driven BY DEF Driven
<1>6. Owned BY DEF Owned
<1> QED BY <1>1, <1>2, <1>3, <1>4, <1>5, <1>6, TypeInit DEF IInv

(* ... is kept by every step ... *)
LEMMA InvNext == IInv /\ [Next]_vars => IInv'
BY TypeNext, RowsNext, WorkersNext, AckedNext, ExclusiveNext, DrivenNext, OwnedNext DEF IInv

(* ... and so always holds. *)
LEMMA Invariance == Spec => []IInv
BY InvInit, InvNext, PTL DEF Spec

(* AgentRunLog, Task, the stream, the requests and the workers stay well typed. *)
THEOREM TypeCorrect == Spec => []TypeOK
<1>1. IInv => TypeOK BY DEF IInv
<1> QED BY <1>1, Invariance, PTL

(* No entry of the stream agent-runs leaves the pending entries list before _process_job
   has returned normally for it (processor.py, _read_loop and _claim_loop). *)
THEOREM NoJobLost == Spec => []AckedWasHandled
<1>1. IInv => AckedWasHandled BY DEF IInv
<1> QED BY <1>1, Invariance, PTL

(* A log that says RUNNING has an entry still to be acknowledged or a request about to
   add one, unless that request died; when a job outlived CLAIM_IDLE_MS, an execution that
   will save the log, unless that save failed or a start will clean up. *)
THEOREM RunsAreDriven == Spec => []RunningIsDriven
<1>1. IInv => RunningIsDriven
  BY DEF IInv, Driven, Driver, Awaited, Rescued, Posted, RunningIsDriven
<1> QED BY <1>1, Invariance, PTL

(* While no job outlives the idle time, the entry of an execution under way is pending. *)
LEMMA ExecutedPends ==
  ASSUME Exclusive, ~LongJobs, NEW t \in Tasks, Executed(t)
  PROVE  \E e \in pel : logTask[entRun[e]] = t
<1>1. PICK w \in Workers : Syncing(w) /\ TaskOf(w) = t BY DEF Executed
<1>2. wjob[w] \in pel BY <1>1 DEF Exclusive, Busy, Syncing, InTry
<1> QED BY <1>1, <1>2 DEF TaskOf, RunOf

(* A task a run has marked IN_PROGRESS has a pending entry whose finally block will move
   it on, or, with jobs that outlive CLAIM_IDLE_MS, an execution that will, unless a sync
   failed or was cut with nobody left to repeat it. *)
THEOREM TasksAreOwned == Spec => []InProgressIsOwned
<1>1. ASSUME IInv PROVE InProgressIsOwned
  <2> SUFFICES ASSUME NEW t \in Tasks, marked[t], ~syncLost[t]
               PROVE  \/ \E e \in pel : logTask[entRun[e]] = t
                      \/ LongJobs /\ Executed(t)
    BY DEF InProgressIsOwned, Executed
  <2>1. CASE Owner(t) BY <2>1 DEF Owner
  <2>2. CASE Executed(t) BY <1>1, <2>2, ExecutedPends DEF IInv
  <2> QED BY <1>1, <2>1, <2>2 DEF IInv, Owned
<1> QED BY <1>1, Invariance, PTL

-----------------------------------------------------------------------------
(* The refinement mapping takes initial states to initial states. *)
LEMMA QueueInit == Init => Queue!Init
<1> SUFFICES ASSUME Init PROVE Queue!Init OBVIOUS
<1>1. 1..0 = {} OBVIOUS
<1>2. \A e \in Entries : {w \in Workers : wjob[w] = e} = {}
  BY ConstantsAssumption DEF ConstantsAssumption, Init, Entries
<1> QED BY <1>1, <1>2 DEF Init, Queue!Init, Acked

(* Only XADD adds entries, only the end of _process_job makes them handled. *)
LEMMA StreamKept ==
  ASSUME [Next]_vars
  PROVE  \/ \E q \in Requests : Xadd(q)
         \/ \E w \in Workers : Sync(w) \/ SyncFails(w)
         \/ UNCHANGED <<nEntries, handled>>
<1> USE DEF streamVars, NotRunners
<1>1. ASSUME NEW q \in Requests, Request(q), ~Xadd(q) PROVE UNCHANGED <<nEntries, handled>>
  BY <1>1 DEF Request, Stop, Restart, Enqueue, Wake, StopWrite, WakeWrite, RequestFails
<1>2. ASSUME NEW t \in Tasks, NEW s \in HandStatus, EditTask(t, s)
      PROVE UNCHANGED <<nEntries, handled>>
  BY <1>2 DEF EditTask
<1>3. ASSUME NEW w \in Workers, Work(w), ~Sync(w), ~SyncFails(w)
      PROVE UNCHANGED <<nEntries, handled>>
  BY <1>3 DEF Work, JobStep, CannotLoad, Mark, LoadSaved, OutOfIterations, PollStopped,
    PollGoesOn, TextReply, CompleteTask, BlockTask, RequestHumanInput, ToolSets, Flush,
    EarlySave, FinalSave, Ack, Raise, GiveUp
<1>4. ASSUME NEW n \in Runners, Process(n) PROVE UNCHANGED <<nEntries, handled>>
  BY <1>4 DEF Process, Read, Claim, Sigterm, CancelClaim, Exit, Crash, ReadLoopDies, Start, Revert
<1>5. CASE UNCHANGED vars BY <1>5 DEF vars
<1> QED BY <1>1, <1>2, <1>3, <1>4, <1>5 DEF Next

(* Every step is a step of the job queue, or a stutter. *)
LEMMA QueueNext ==
  ASSUME IInv, IInv', [Next]_vars
  PROVE  [Queue!Next]_(Queue!jobVars)
<1> USE ConstantsAssumption DEF ConstantsAssumption, IInv, TypeOK, StreamType, WorkerType, Entries
<1>1. ASSUME NEW q \in Requests, Xadd(q) PROVE Queue!Add
  <2>1. nEntries' = nEntries + 1 /\ nEntries + 1 \in 1..MaxEntries BY <1>1 DEF Xadd
  <2>2. UNCHANGED <<cursor, pel, handled, wjob>> BY <1>1 DEF Xadd, workerVars
  <2> QED BY <2>1, <2>2 DEF Queue!Add, Acked
<1>2. ASSUME NEW n \in Runners, Read(n) PROVE Queue!Deliver(<<n, "read">>)
  <2> DEFINE me == <<n, "read">>
  <2>1. cursor < nEntries /\ cursor' = cursor + 1 /\ pel' = pel \cup {cursor + 1}
        /\ UNCHANGED <<nEntries, handled>> /\ wjob' = [wjob EXCEPT ![me] = cursor + 1]
        /\ wjob[me] = 0
    BY <1>2, WorkerNames DEF Read, Begin, Busy, WorkersOK
  <2>2. \A w \in Workers : wjob[w] # cursor + 1 BY DEF WorkersOK
  <2>3. Held' = [Held EXCEPT ![cursor + 1] = {me}]
    <3>1. \A w \in Workers : wjob'[w] = cursor + 1 <=> w = me BY <2>1, <2>2, WorkerNames
    <3>2. {w \in Workers : wjob'[w] = cursor + 1} = {me} BY <3>1, WorkerNames
    <3>3. \A e \in Entries : e # cursor + 1 =>
            {w \in Workers : wjob'[w] = e} = {w \in Workers : wjob[w] = e}
      <4>1. \A w \in Workers : wjob'[w] = IF w = me THEN cursor + 1 ELSE wjob[w] BY <2>1
      <4>2. \A e \in Entries : e # 0 OBVIOUS
      <4>3. \A e \in Entries, w \in Workers : e # cursor + 1 => (wjob'[w] = e <=> wjob[w] = e)
        BY <4>1, <4>2, <2>1, Zenon
      <4> QED BY <4>3
    <3> QED BY <3>2, <3>3 DEF Held
  <2>4. Acked' = Acked
    <3>1. \A e : e \in 1..cursor' <=> e \in 1..cursor \/ e = cursor + 1 BY <2>1
    <3>2. cursor + 1 \notin pel /\ cursor + 1 \notin 1..cursor BY DEF WorkersOK
    <3> QED BY <2>1, <3>1, <3>2 DEF Acked
  <2> QED BY <2>1, <2>3, <2>4 DEF Queue!Deliver, Held
<1>3. ASSUME NEW n \in Runners, NEW e \in Entries, Claim(n, e)
      PROVE Queue!Redeliver(<<n, "claim">>, e)
  <2> DEFINE me == <<n, "claim">>
  <2>1. e \in pel /\ UNCHANGED <<nEntries, handled, cursor, pel>> /\ wjob' = [wjob EXCEPT ![me] = e]
        /\ wjob[me] = 0 /\ (~LongJobs => \A w \in Workers : wjob[w] # e)
    BY <1>3, WorkerNames DEF Claim, Begin, Busy, WorkersOK, streamVars
  <2>2. Held' = [Held EXCEPT ![e] = @ \cup {me}] /\ (~LongJobs => Held[e] = {})
    <3>1. \A w \in Workers : wjob'[w] = e <=> wjob[w] = e \/ w = me BY <2>1, WorkerNames
    <3>2. {w \in Workers : wjob'[w] = e} = Held[e] \cup {me} BY <3>1, WorkerNames DEF Held
    <3>3. ~LongJobs => Held[e] = {} BY <2>1 DEF Held
    <3>4. \A f \in Entries : f # e =>
            {w \in Workers : wjob'[w] = f} = {w \in Workers : wjob[w] = f}
      <4>1. \A w \in Workers : wjob'[w] = IF w = me THEN e ELSE wjob[w] BY <2>1
      <4>2. \A f \in Entries : f # 0 OBVIOUS
      <4>3. \A f \in Entries, w \in Workers : f # e => (wjob'[w] = f <=> wjob[w] = f)
        BY <4>1, <4>2, <2>1, Zenon
      <4> QED BY <4>3
    <3>5. Held' = [Held EXCEPT ![e] = @ \cup {me}]
      <4>1. \A f \in Entries :
              {w \in Workers : wjob'[w] = f} = IF f = e THEN Held[e] \cup {me} ELSE Held[f]
        BY <3>2, <3>4 DEF Held
      <4> QED BY <4>1 DEF Held
    <3> QED BY <3>3, <3>5
  <2>3. e \in 1..cursor /\ e \notin Acked /\ Acked' = Acked BY <2>1 DEF Acked, WorkersOK
  <2> QED BY <2>1, <2>2, <2>3 DEF Queue!Redeliver, Held
<1>4. ASSUME NEW w \in Workers, Ack(w) PROVE \E j \in Entries : Queue!Complete(w, j)
  <2>0. PICK j \in Entries : j = wjob[w] BY <1>4, JobKnown DEF Ack, At
  <2>1. wjob[w] \in handled /\ wjob[w] # 0 BY <2>0, <1>4 DEF Ack, At, WorkersOK
  <2>2. wjob[w] \in 1..cursor
    <3>1. wjob[w] \in 0..cursor BY DEF WorkersOK
    <3> QED BY <2>1, <3>1
  <2>3. pel' = pel \ {wjob[w]} /\ UNCHANGED <<nEntries, cursor, handled>> BY <1>4 DEF Ack
  <2>4. \A v \in Workers : wjob'[v] = IF v = w THEN 0 ELSE wjob[v] BY <1>4 DEF Ack, Park
  <2>5. Held' = [Held EXCEPT ![j] = @ \ {w}]
    <3>1. \A v \in Workers : wjob'[v] = j <=> wjob[v] = j /\ v # w BY <2>0, <2>1, <2>4
    <3>2. {v \in Workers : wjob'[v] = j} = Held[j] \ {w} BY <3>1 DEF Held
    <3>0. \A f \in Entries : f # 0 OBVIOUS
    <3>3. \A f \in Entries, v \in Workers : f # j => (wjob'[v] = f <=> wjob[v] = f)
      BY <2>0, <2>4, <3>0, Zenon
    <3>4. \A f \in Entries : f # j => {v \in Workers : wjob'[v] = f} = {v \in Workers : wjob[v] = f}
      BY <3>3
    <3>5. \A f \in Entries :
            {v \in Workers : wjob'[v] = f} = IF f = j THEN Held[j] \ {w} ELSE Held[f]
      BY <3>2, <3>4 DEF Held
    <3> QED BY <3>5 DEF Held
  <2>6. Acked' = Acked \cup {j} BY <2>0, <2>2, <2>3 DEF Acked
  <2>7. w \in Held[j] BY <2>0 DEF Held
  <2> QED BY <2>0, <2>1, <2>3, <2>5, <2>6, <2>7 DEF Queue!Complete, Held
<1>5. ASSUME UNCHANGED <<nEntries, handled, cursor, pel>>, \A w \in Workers : wjob'[w] \in {0,
    wjob[w]}
      PROVE  \E A \in SUBSET Workers : Queue!Lose(A)
  <2>1. PICK A \in SUBSET Workers : A = {w \in Workers : wjob'[w] = 0} OBVIOUS
  <2>2. Held' = [e \in Entries |-> Held[e] \ A] BY <1>5, <2>1 DEF Held
  <2>3. Queue!Lose(A) BY <1>5, <2>2 DEF Queue!Lose, Held, Acked
  <2> QED BY <2>3
<1>6. ASSUME NEW w \in Workers, Sync(w) \/ SyncFails(w) PROVE [Queue!Next]_(Queue!jobVars)
  <2>1. UNCHANGED <<nEntries, cursor, pel>> BY <1>6 DEF Sync, SyncFails
  <2>2. CASE wraised[w]
    <3>1. handled' = handled /\ \A v \in Workers : wjob'[v] \in {0, wjob[v]}
      BY <1>6, <2>2 DEF Sync, SyncFails, Return, Park
    <3> QED BY <1>5, <2>1, <3>1 DEF Queue!Next
  <2>3. CASE ~wraised[w]
    <3>1. handled' = handled \cup {wjob[w]} /\ wjob' = wjob
      BY <1>6, <2>3 DEF Sync, SyncFails, Return
    <3>2. wjob[w] \in Entries /\ w \in Held[wjob[w]]
      BY <1>6, JobKnown DEF Sync, SyncFails, At, Held
    <3>3. Queue!CarryOut(wjob[w]) BY <2>1, <3>1, <3>2 DEF Queue!CarryOut, Held, Acked
    <3> QED BY <3>2, <3>3 DEF Queue!Next
  <2> QED BY <2>2, <2>3
<1> QED
  BY <1>1, <1>2, <1>3, <1>4, <1>5, <1>6, WorkerNames, StreamKept, PelKept, JobsKept DEF Queue!Next

(* The stream, its two loops and the executions of _process_job implement the job queue:
   an entry is delivered in order, again only until it is done, and done only once carried
   out by someone; while no job outlives CLAIM_IDLE_MS, it has one holder at a time. *)
THEOREM Refinement == Spec => QueueSpec
<1>1. Init => Queue!Init BY QueueInit
<1>2. IInv /\ IInv' /\ [Next]_vars => [Queue!Next]_(Queue!jobVars) BY QueueNext
<1> QED BY <1>1, <1>2, Invariance, PTL DEF Spec, QueueSpec, Queue!Spec
==============================================================================
